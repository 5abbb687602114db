---------------------------- MODULE TaskManager ----------------------------
(***************************************************************************)
(* The kernel's task manager (kernel/task.cpp): one run queue per priority *)
(* level, message queues with sleep and wakeup, and the Finish/WaitFinish  *)
(* handshake.                                                              *)
(*                                                                         *)
(* Every public operation is an action; RunQueues holds the methods it     *)
(* calls.  The message loops, Finish, WaitFinish and the interrupt         *)
(* handlers run an operation with interrupts off, so it is one step; the   *)
(* few calls the code makes with interrupts on (the SendMessage of the     *)
(* main loop, NewTask and Wakeup where a task is created) are one step     *)
(* too.  The tasks are arbitrary clients of the operations, apart from the *)
(* obligations written at SleepOther, Finish and WaitFinish.               *)
(***************************************************************************)
EXTENDS RunQueues

CONSTANTS
    MaxMsgs,     \* bound on the length of a message queue, unbounded in the code
    Msg,         \* the messages tasks exchange
    ExitCode,    \* the exit codes a task may finish with
    NoExit       \* no entry in finish_tasks_

ASSUME MsgsAssumption == MaxMsgs \in Nat
ASSUME ExitAssumption == NoExit \notin ExitCode

VARIABLES
    sched,          \* the scheduler fields: RunQueues!SchedType
    tasks,          \* ids of the live entries of tasks_
    latest_id,      \* latest_id_
    msgs,           \* msgs_ of every task
    finish_tasks,   \* finish_tasks_: exit codes not yet collected
    finish_waiter,  \* finish_waiter_: the waiter of a task, NoTask if none
    parent,         \* the task that created a task: only it waits for it
    cpu,            \* the task whose context is loaded in the processor
    waiting         \* the id a task inside WaitFinish waits for, NoTask if none

vars == <<sched, tasks, latest_id, msgs, finish_tasks, finish_waiter, parent,
          cpu, waiting>>

-----------------------------------------------------------------------------
(* The actions.  cpu' = CurrentTask(sched') is SwitchContext/RestoreContext. *)

\* The state after the constructor.
Init ==
    /\ sched = InitSched
    /\ tasks = {Main, Idle}
    /\ latest_id = 2
    /\ msgs = [t \in TaskId |-> <<>>]
    /\ finish_tasks = [t \in TaskId |-> NoExit]
    /\ finish_waiter = [t \in TaskId |-> NoTask]
    /\ parent = [t \in TaskId |-> NoTask]
    /\ cpu = Main
    /\ waiting = [t \in TaskId |-> NoTask]

\* The processor runs task code with interrupts on.  A task inside WaitFinish
\* was switched out with interrupts off, so its saved flags keep them off and
\* its next step is another turn of the WaitFinish loop.
Interruptible == waiting[cpu] = NoTask

\* NewTask().InitContext(f, data): a new entry, not yet runnable.
NewTask ==
    /\ Interruptible
    /\ latest_id < MaxTasks
    /\ latest_id' = latest_id + 1
    /\ tasks' = tasks \cup {latest_id'}
    /\ parent' = [parent EXCEPT ![latest_id'] = cpu]
    /\ UNCHANGED <<sched, msgs, finish_tasks, finish_waiter, cpu, waiting>>

\* Wakeup(id, level), by the running task or an interrupt handler.
WakeupTask(t, level) ==
    /\ Interruptible
    /\ sched' = Wakeup(sched, t, level)
    /\ UNCHANGED <<tasks, latest_id, msgs, finish_tasks, finish_waiter, parent,
                   cpu, waiting>>

\* Fault: the receiver is not woken.
SendMessage_NoWakeup(t, m) ==
    /\ Interruptible
    /\ Len(msgs[t]) < MaxMsgs
    /\ msgs' = [msgs EXCEPT ![t] = Append(@, m)]
    /\ UNCHANGED <<sched, tasks, latest_id, finish_tasks, finish_waiter, parent,
                   cpu, waiting>>

\* SendMessage(id, msg): push the message, then wake the receiver.
SendMessage(t, m) ==
    /\ Interruptible
    /\ Len(msgs[t]) < MaxMsgs
    /\ msgs' = [msgs EXCEPT ![t] = Append(@, m)]
    /\ sched' = Wakeup(sched, t, -1)
    /\ UNCHANGED <<tasks, latest_id, finish_tasks, finish_waiter, parent, cpu,
                   waiting>>

\* cli; ReceiveMessage(); with nothing received, Sleep(): every message loop
\* of the kernel does the two in one critical section.
ReceiveMessage ==
    /\ Interruptible
    /\ msgs[cpu] # <<>>
    /\ msgs' = [msgs EXCEPT ![cpu] = Tail(@)]
    /\ UNCHANGED <<sched, tasks, latest_id, finish_tasks, finish_waiter, parent,
                   cpu, waiting>>

ReceiveOrSleep ==
    /\ Interruptible
    /\ cpu # Idle
    /\ msgs[cpu] = <<>>
    /\ sched' = Sleep(sched, cpu)
    /\ cpu' = CurrentTask(sched')
    /\ UNCHANGED <<tasks, latest_id, msgs, finish_tasks, finish_waiter, parent,
                   waiting>>

\* Sleep(id) of another task.  Its caller must not stop the idle task (every
\* run queue could become empty), a task that has messages to handle, or one that
\* waits for another task's end.
SleepOther(t) ==
    /\ Interruptible
    /\ t \notin {cpu, Idle}
    /\ msgs[t] = <<>>
    /\ waiting[t] = NoTask
    /\ sched' = Sleep(sched, t)
    /\ UNCHANGED <<tasks, latest_id, msgs, finish_tasks, finish_waiter, parent,
                   cpu, waiting>>

\* The task timer expired: save the interrupted context, rotate, and load the
\* context of the task now at the front.
SwitchTask ==
    /\ Interruptible
    /\ sched' = RotateCurrentRunQueue(sched, FALSE)
    /\ cpu' = CurrentTask(sched')
    /\ UNCHANGED <<tasks, latest_id, msgs, finish_tasks, finish_waiter, parent,
                   waiting>>

\* Fault: the waiter is taken out of finish_waiter_ and never woken.
Finish_NoWakeup(code) ==
    LET t == CurrentTask(sched)
    IN  /\ Interruptible
        /\ cpu \notin {Main, Idle}
        /\ tasks' = tasks \ {t}
        /\ msgs' = [msgs EXCEPT ![t] = <<>>]
        /\ finish_tasks' = [finish_tasks EXCEPT ![t] = code]
        /\ finish_waiter' = [finish_waiter EXCEPT ![t] = NoTask]
        /\ sched' = [RotateCurrentRunQueue(sched, TRUE) EXCEPT !.awake = @ \ {t}]
        /\ cpu' = CurrentTask(sched')
        /\ UNCHANGED <<latest_id, parent, waiting>>

\* Finish(exit_code) by the running task, which is neither the kernel's main
\* loop nor the idle task.  Its Task is destroyed with the run flag still set.
Finish(code) ==
    LET t       == CurrentTask(sched)
        rotated == [RotateCurrentRunQueue(sched, TRUE) EXCEPT !.awake = @ \ {t}]
        waiter  == finish_waiter[t]
    IN  /\ Interruptible
        /\ cpu \notin {Main, Idle}
        /\ tasks' = tasks \ {t}
        /\ msgs' = [msgs EXCEPT ![t] = <<>>]
        /\ finish_tasks' = [finish_tasks EXCEPT ![t] = code]
        /\ finish_waiter' = [finish_waiter EXCEPT ![t] = NoTask]
        /\ sched' = IF waiter # NoTask THEN Wakeup(rotated, waiter, -1)
                                       ELSE rotated
        /\ cpu' = CurrentTask(sched')
        /\ UNCHANGED <<latest_id, parent, waiting>>

\* One turn of the loop of WaitFinish(task_id): collect the exit code, or
\* register as waiter and sleep.
WaitFinishTurn(id) ==
    \/ /\ finish_tasks[id] # NoExit
       /\ finish_tasks' = [finish_tasks EXCEPT ![id] = NoExit]
       /\ waiting' = [waiting EXCEPT ![cpu] = NoTask]
       /\ UNCHANGED <<sched, tasks, latest_id, msgs, finish_waiter, parent, cpu>>
    \/ /\ finish_tasks[id] = NoExit
       /\ finish_waiter' = [finish_waiter EXCEPT ![id] = cpu]
       /\ waiting' = [waiting EXCEPT ![cpu] = id]
       /\ sched' = Sleep(sched, cpu)
       /\ cpu' = CurrentTask(sched')
       /\ UNCHANGED <<tasks, latest_id, msgs, finish_tasks, parent>>

\* cli; WaitFinish(id): a task waits for a task it created whose exit code it
\* has not collected (a second wait would never return).
WaitFinish(id) ==
    /\ Interruptible
    /\ cpu # Idle
    /\ parent[id] = cpu
    /\ id \in tasks \/ finish_tasks[id] # NoExit
    /\ WaitFinishTurn(id)

\* A waiter was woken, by Finish or by a message, and repeats its loop.
WaitFinishResume ==
    /\ ~Interruptible
    /\ WaitFinishTurn(waiting[cpu])

Next ==
    \/ NewTask
    \/ \E t \in tasks, level \in -1..kMaxLevel : WakeupTask(t, level)
    \/ \E t \in tasks, m \in Msg : SendMessage(t, m)
    \/ ReceiveMessage
    \/ ReceiveOrSleep
    \/ \E t \in tasks : SleepOther(t)
    \/ SwitchTask
    \/ \E code \in ExitCode : Finish(code)
    \/ \E id \in TaskId : WaitFinish(id)
    \/ WaitFinishResume

Spec == Init /\ [][Next]_vars

\* The periodic timer interrupt keeps coming whenever interrupts are on, and a
\* processor inside the WaitFinish loop finishes its turn.
FairSpec == Spec /\ WF_vars(SwitchTask) /\ WF_vars(WaitFinishResume)

-----------------------------------------------------------------------------
(* Properties. *)

\* Every variable holds a value of the type of the C++ member it stands for.
TypeOK ==
    /\ sched \in SchedType
    /\ tasks \subseteq TaskId
    /\ latest_id \in 2..MaxTasks
    /\ msgs \in [TaskId -> Seq(Msg)]
    /\ finish_tasks \in [TaskId -> ExitCode \cup {NoExit}]
    /\ finish_waiter \in [TaskId -> TaskId \cup {NoTask}]
    /\ parent \in [TaskId -> TaskId \cup {NoTask}]
    /\ cpu \in TaskId
    /\ waiting \in [TaskId -> TaskId \cup {NoTask}]

\* The run queues hold exactly the live awake tasks, each once and at its own
\* level: no sequence of Wakeup, Sleep, level changes, rotations and Finish
\* leaves a queue with a sleeping or destroyed task, a duplicate, or without
\* a task that can run.
RunQueuesExact ==
    /\ sched.awake \subseteq tasks
    /\ QueuesHoldAwake(sched)

\* The front of the current level's queue is the task that has the processor,
\* so SwitchTask and Sleep save a context into the task it belongs to, and
\* running_[current_level_].front() is never read from an empty queue.
CpuIsCurrent ==
    /\ LevelQueue(sched) # <<>>
    /\ cpu = CurrentTask(sched)

\* No task above the current level waits unless level_changed_ records it: the
\* flag is set by whichever of Wakeup and ChangeLevelRunning raises a task, or
\* lowers the current one, and only a rotation that rescans the levels clears it.
HighestLevelRuns ==
    ~sched.level_changed =>
        \A t \in sched.awake : sched.level[t] <= sched.current_level

\* A task asleep outside WaitFinish has no message: ReceiveMessage and Sleep
\* are one critical section, and SendMessage wakes its receiver.
NoLostWakeup ==
    \A t \in tasks :
        t \notin sched.awake /\ waiting[t] = NoTask => msgs[t] = <<>>

\* Finish and WaitFinish meet in either order: finish_waiter_ names a live task
\* that waits for a live one, and a waiter is registered with the live task it
\* waits for, or is awake and its exit code is there to be collected.
FinishHandshake ==
    /\ \A id \in TaskId : finish_waiter[id] # NoTask =>
           /\ id \in tasks
           /\ finish_waiter[id] \in tasks
           /\ waiting[finish_waiter[id]] = id
    /\ \A w \in tasks : waiting[w] # NoTask =>
           \/ waiting[w] \in tasks /\ finish_waiter[waiting[w]] = w
           \/ finish_tasks[waiting[w]] # NoExit /\ w \in sched.awake

\* The queues, current_level_ and level_changed_ implement a priority
\* scheduler that preempts to the highest ready level and takes turns there.
PS == INSTANCE PriorityScheduler
          WITH Task <- TaskId, ready <- sched.awake, level <- sched.level
ImplementsPriorityScheduler == PS!Spec

\* Round robin starves no task of the highest level: it gets the processor
\* unless it goes to sleep, ends or is moved to another level first.
TopLevelRuns(t) == t \in sched.awake /\ sched.level[t] = kMaxLevel
NoStarvation == \A t \in TaskId : TopLevelRuns(t) ~> (cpu = t \/ ~TopLevelRuns(t))

=============================================================================
