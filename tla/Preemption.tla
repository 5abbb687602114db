----------------------------- MODULE Preemption -----------------------------
(***************************************************************************)
(* The calls of the task manager that the kernel makes with interrupts on:  *)
(* NewTask and Wakeup where a task is created (kernel/Main.cpp, and         *)
(* ExecuteCommand in kernel/terminal.cpp), and the SendMessage by which the *)
(* main loop passes a key on.  TaskManager takes each of them as one step.  *)
(* Here an interrupt may come between any two of theirs, and the rest of    *)
(* the kernel is kept as far as it meets them: the main loop, the terminal, *)
(* pipeline stages that may start another stage, wait for it and finish.    *)
(*                                                                         *)
(* push_back of a run queue, and emplace_back of tasks_, are windows: who   *)
(* changes the same queue, or looks a task up, between their begin and end  *)
(* leaves the container in an undefined state, which is recorded in broken  *)
(* and not followed any further.                                            *)
(***************************************************************************)
EXTENDS RunQueues

CONSTANT MaxKeys   \* bound on the keys typed

ASSUME KeysAssumption == MaxKeys \in Nat
ASSUME RoomAssumption == MaxTasks >= 3
\* 3 in the code: the main loop is above the default level.
ASSUME AboveAssumption == kMaxLevel > kDefaultLevel

VARIABLES
    sched,       \* the scheduler fields: RunQueues!SchedType
    cpu,         \* the task that runs
    latest_id,   \* latest_id_
    pc,          \* where each task is
    target,      \* the task it creates, wakes or waits for
    msgs,        \* messages in the queue of each task
    finished,    \* finish_tasks_
    keys,        \* keys typed so far
    broken       \* containers hit in a window: <<container, the task in the window>>
vars == <<sched, cpu, latest_id, pc, target, msgs, finished, keys, broken>>

Terminal == 3   \* the third task, which KernelMainNewStack creates

Init ==
    /\ sched = InitSched
    /\ cpu = Main
    /\ latest_id = 2
    /\ pc = [t \in TaskId |-> IF t = Main THEN "spawn" ELSE "start"]
    /\ target = [t \in TaskId |-> NoTask]
    /\ msgs = [t \in TaskId |-> 0]
    /\ finished = {}
    /\ keys = 0
    /\ broken = {}

At(loc) == broken = {} /\ cpu # Idle /\ pc[cpu] = loc
Go(loc) == pc' = [pc EXCEPT ![cpu] = loc]

\* Who is in the middle of push_back on the run queue of a level, and of
\* emplace_back on tasks_.
InPush(lv) == {t \in TaskId : pc[t] = "push" /\ sched.level[target[t]] = lv}
InNew == {t \in TaskId : pc[t] = "new"}
Hit(container, who) == broken' = broken \cup ({container} \X who)

\* A task inside WaitFinish resumes with interrupts off.
Interruptible == broken = {} /\ pc[cpu] # "waits"

-----------------------------------------------------------------------------
(* Interrupts. *)

\* SwitchTask, from the timer.
TimerInterrupt ==
    /\ Interruptible
    /\ Hit("run queue", InPush(sched.current_level))
    /\ sched' = RotateCurrentRunQueue(sched, FALSE)
    /\ cpu' = CurrentTask(sched')
    /\ UNCHANGED <<latest_id, pc, target, msgs, finished, keys>>

\* SendMessage(1, key): look task 1 up, push the message, wake it.
KeyboardInterrupt ==
    /\ Interruptible
    /\ keys < MaxKeys
    /\ keys' = keys + 1
    /\ Hit("tasks", InNew)
    /\ msgs' = [msgs EXCEPT ![Main] = @ + 1]
    /\ sched' = Wakeup(sched, Main, -1)
    /\ UNCHANGED <<cpu, latest_id, pc, target, finished>>

-----------------------------------------------------------------------------
(* NewTask().InitContext(...).Wakeup(), and SendMessage, with interrupts on. *)

NewTaskBegin ==
    /\ At("spawn")
    /\ latest_id < MaxTasks
    /\ latest_id' = latest_id + 1
    /\ target' = [target EXCEPT ![cpu] = latest_id']
    /\ Hit("tasks", InNew)
    /\ Go("new")
    /\ UNCHANGED <<sched, cpu, msgs, finished, keys>>

NewTaskEnd ==
    /\ At("new")
    /\ Go("wake")
    /\ UNCHANGED <<sched, cpu, latest_id, target, msgs, finished, keys, broken>>

\* The main loop's SendMessage up to the wakeup.
SendMessage ==
    /\ At("send")
    /\ Hit("tasks", InNew)
    /\ msgs' = [msgs EXCEPT ![Terminal] = @ + 1]
    /\ Go("wake")
    /\ UNCHANGED <<sched, cpu, latest_id, target, finished, keys>>

\* Where a task goes after its Wakeup.
AfterWakeup == IF cpu = Main THEN "loop" ELSE "run"

\* A task that is running keeps its level.
WakeupBegin ==
    LET t == target[cpu]
    IN  /\ At("wake")
        /\ IF t \in sched.awake THEN Go(AfterWakeup) /\ UNCHANGED sched
           ELSE Go("push") /\ sched' = [sched EXCEPT !.awake = @ \cup {t}]
        /\ UNCHANGED <<cpu, latest_id, target, msgs, finished, keys, broken>>

WakeupPush ==
    LET t == target[cpu]
    IN  /\ At("push")
        /\ sched' = [sched EXCEPT !.running[sched.level[t]] = Append(@, t)]
        /\ Go("level")
        /\ UNCHANGED <<cpu, latest_id, target, msgs, finished, keys, broken>>

WakeupEnd ==
    /\ At("level")
    /\ sched' = [sched EXCEPT !.level_changed = @ \/ sched.level[target[cpu]] > sched.current_level]
    /\ Go(AfterWakeup)
    /\ UNCHANGED <<cpu, latest_id, target, msgs, finished, keys, broken>>

-----------------------------------------------------------------------------
(* The rest, with interrupts off. *)

\* The loops of the main task and of the terminal: the main loop passes the
\* message on, the terminal executes a line.
ReceiveMessage ==
    /\ At("loop") /\ msgs[cpu] > 0
    /\ msgs' = [msgs EXCEPT ![cpu] = @ - 1]
    /\ IF cpu = Main THEN Go("send") /\ target' = [target EXCEPT ![Main] = Terminal]
       ELSE pc' \in {[pc EXCEPT ![cpu] = "spawn"], pc} /\ UNCHANGED target
    /\ UNCHANGED <<sched, cpu, latest_id, finished, keys, broken>>

ReceiveOrSleep ==
    /\ At("loop") /\ msgs[cpu] = 0
    /\ sched' = Sleep(sched, cpu)
    /\ cpu' = CurrentTask(sched')
    /\ UNCHANGED <<latest_id, pc, target, msgs, finished, keys, broken>>

\* TaskTerminal as the terminal, or as a stage with or without another behind it.
TaskTerminal ==
    /\ At("start")
    /\ IF cpu = Terminal THEN Go("loop")
       ELSE pc' \in {[pc EXCEPT ![cpu] = "spawn"], [pc EXCEPT ![cpu] = "finish"]}
    /\ UNCHANGED <<sched, cpu, latest_id, target, msgs, finished, keys, broken>>

\* A turn of the loop of WaitFinish.
WaitFinish ==
    /\ At("run") \/ At("waits")
    /\ IF target[cpu] \in finished
       THEN /\ finished' = finished \ {target[cpu]}
            /\ Go(IF cpu = Terminal THEN "loop" ELSE "finish")
            /\ UNCHANGED <<sched, cpu>>
       ELSE /\ sched' = Sleep(sched, cpu)
            /\ cpu' = CurrentTask(sched')
            /\ Go("waits")
            /\ UNCHANGED finished
    /\ UNCHANGED <<latest_id, target, msgs, keys, broken>>

\* Finish, which wakes the task that waits.
Finish ==
    LET gone == [RotateCurrentRunQueue(sched, TRUE) EXCEPT !.awake = @ \ {cpu}]
        waiter == {t \in TaskId : pc[t] = "waits" /\ target[t] = cpu}
    IN  /\ At("finish")
        /\ Hit("tasks", InNew)
        /\ finished' = finished \cup {cpu}
        /\ sched' = IF waiter = {} THEN gone
                    ELSE Wakeup(gone, CHOOSE t \in waiter : TRUE, -1)
        /\ cpu' = CurrentTask(sched')
        /\ Go("done")
        /\ UNCHANGED <<latest_id, target, msgs, keys>>

Next ==
    \/ TimerInterrupt
    \/ KeyboardInterrupt
    \/ NewTaskBegin
    \/ NewTaskEnd
    \/ SendMessage
    \/ WakeupBegin
    \/ WakeupPush
    \/ WakeupEnd
    \/ ReceiveMessage
    \/ ReceiveOrSleep
    \/ TaskTerminal
    \/ WaitFinish
    \/ Finish

Spec == Init /\ [][Next]_vars

-----------------------------------------------------------------------------
(* Properties. *)

\* A run queue is broken only if the timer comes while a pipeline stage or the
\* terminal pushes the stage it starts: the main loop is alone at its level, so
\* that nobody gets the processor between the steps of its own calls.  Whatever
\* else is interrupted, the queues hold the awake tasks, less those about to be
\* pushed, the processor is at the front, and a task with a message is awake or
\* about to be woken.
OnlyStagesRace ==
    /\ \A b \in broken : b[1] = "run queue" => b[2] # Main
    /\ broken = {} =>
        /\ \A lv \in Level :
               /\ Elems(sched.running[lv]) = {t \in sched.awake : sched.level[t] = lv}
                                                 \ {target[u] : u \in InPush(lv)}
               /\ Distinct(sched.running[lv])
        /\ cpu = CurrentTask(sched)
        /\ RescanDue(sched)
        /\ \A t \in TaskId : msgs[t] > 0 /\ pc[t] # "waits" /\ t \notin sched.awake =>
               \E u \in TaskId : pc[u] = "wake" /\ target[u] = t

=============================================================================
