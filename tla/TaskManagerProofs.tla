-------------------------- MODULE TaskManagerProofs --------------------------
(***************************************************************************)
(* The task manager's invariants hold in every reachable state, whatever   *)
(* the number of levels, tasks and messages, and it implements the         *)
(* priority scheduler.                                                     *)
(***************************************************************************)
EXTENDS TaskManager, RunQueuesProofs

\* Run queues, processor and live tasks agree.
SchedPart ==
    /\ SchedInv(sched)
    /\ cpu = CurrentTask(sched)
    /\ sched.awake \subseteq tasks

\* Ids above latest_id are unused.
IdPart ==
    /\ \A t \in tasks : t <= latest_id
    /\ \A t \in TaskId : t > latest_id => msgs[t] = <<>> /\ finish_tasks[t] = NoExit

\* Only a live task other than Idle waits, and only for a task it created; an
\* exit code belongs to a task that is no longer live.
WaitPart ==
    /\ waiting[Idle] = NoTask
    /\ \A w \in TaskId : waiting[w] # NoTask => w \in tasks /\ parent[waiting[w]] = w
    /\ \A id \in TaskId : finish_tasks[id] # NoExit => id \notin tasks

\* The inductive invariant.
IInv ==
    /\ TypeOK
    /\ SchedPart
    /\ IdPart
    /\ WaitPart
    /\ NoLostWakeup
    /\ FinishHandshake

-----------------------------------------------------------------------------

\* The constructor establishes the invariant.
LEMMA InitIInv == Init => IInv
<1> SUFFICES ASSUME Init PROVE IInv
  OBVIOUS
<1> USE DEF Init
<1>1. SchedPart
  <2>1. SchedInv(InitSched) /\ CurrentTask(InitSched) = Main
    BY InitSchedInv
  <2>2. InitSched.awake = {Main, Idle}
    BY DEF InitSched
  <2> QED
    BY <2>1, <2>2 DEF SchedPart
<1>2. TypeOK
  <2>1. sched \in SchedType
    BY <1>1 DEF SchedPart, SchedInv
  <2> QED
    BY <2>1, TaskAssumption DEF TypeOK, TaskId, Main, Idle
<1>3. IdPart
  BY TaskAssumption DEF IdPart, TaskId, Main, Idle
<1>4. WaitPart
  BY TaskAssumption DEF WaitPart, TaskId, Idle
<1>5. NoLostWakeup /\ FinishHandshake
  BY TaskAssumption DEF NoLostWakeup, FinishHandshake, TaskId, Main, Idle
<1> QED
  BY <1>1, <1>2, <1>3, <1>4, <1>5 DEF IInv

\* What the parts say of a state and of the task that has the processor.
LEMMA CpuFacts ==
    ASSUME IInv
    PROVE  /\ cpu \in TaskId /\ cpu \in tasks /\ cpu \in sched.awake
           /\ Idle \in TaskId
           /\ tasks \subseteq TaskId
           /\ NoTask \notin TaskId
<1>1. cpu \in TaskId /\ cpu \in sched.awake /\ sched.awake \subseteq tasks
  BY CurrentTaskQueued DEF IInv, SchedPart
<1>2. Idle \in TaskId /\ NoTask \notin TaskId
  BY TaskAssumption DEF TaskId, Idle, NoTask
<1> QED
  BY <1>1, <1>2 DEF IInv, TypeOK

-----------------------------------------------------------------------------
(* One lemma per action. *)

\* NewTask hands out an unused id, for which nobody waits.
LEMMA NewTaskStep == IInv /\ NewTask => IInv'
<1> SUFFICES ASSUME IInv, NewTask PROVE IInv'
  OBVIOUS
<1> DEFINE n == latest_id + 1
<1>1. /\ latest_id' = n /\ tasks' = tasks \cup {n} /\ n \in TaskId
      /\ parent' = [parent EXCEPT ![n] = cpu]
      /\ n > latest_id /\ n \in 2..MaxTasks /\ latest_id \in Nat
      /\ sched' = sched /\ msgs' = msgs /\ finish_tasks' = finish_tasks
      /\ finish_waiter' = finish_waiter /\ cpu' = cpu /\ waiting' = waiting
  BY TaskAssumption DEF NewTask, IInv, TypeOK, TaskId
<1> HIDE DEF n
<1>2. TypeOK'
  BY <1>1, CpuFacts DEF IInv, TypeOK
<1>3. SchedPart'
  BY <1>1 DEF IInv, SchedPart
<1>4. IdPart'
  <2>1. \A t \in tasks : t <= n
    BY <1>1, CpuFacts, TaskAssumption DEF IInv, IdPart, TaskId, n
  <2>2. \A t \in TaskId : t > n => t > latest_id
    BY <1>1, TaskAssumption DEF TaskId, n
  <2> QED
    BY <1>1, <2>1, <2>2, TaskAssumption DEF IInv, IdPart, TaskId
<1>5. n \notin tasks /\ finish_tasks[n] = NoExit /\ msgs[n] = <<>>
  BY <1>1, TaskAssumption DEF IInv, IdPart, TaskId
<1>6. \A w \in TaskId : waiting[w] # n
  <2> SUFFICES ASSUME NEW w \in TaskId, waiting[w] = n PROVE FALSE
    OBVIOUS
  <2>1. waiting[w] # NoTask
    BY <1>1, CpuFacts
  <2>2. w \in tasks
    BY <2>1 DEF IInv, WaitPart
  <2> QED
    BY <2>1, <2>2, <1>5 DEF IInv, FinishHandshake
<1>7. WaitPart'
  BY <1>1, <1>5, <1>6 DEF IInv, WaitPart, TypeOK
<1>8. NoLostWakeup'
  BY <1>1, <1>5 DEF IInv, NoLostWakeup
<1>9. FinishHandshake'
  <2>1. waiting[n] = NoTask
    BY <1>1, <1>5 DEF IInv, WaitPart
  <2> QED
    BY <1>1, <2>1 DEF IInv, FinishHandshake
<1> QED
  BY <1>2, <1>3, <1>4, <1>7, <1>8, <1>9 DEF IInv

\* Wakeup only adds to the awake tasks.
LEMMA WakeupStep ==
    ASSUME IInv, NEW t \in tasks, NEW level \in -1..kMaxLevel,
           WakeupTask(t, level)
    PROVE  IInv'
<1>1. /\ sched' = Wakeup(sched, t, level) /\ t \in TaskId
      /\ UNCHANGED <<tasks, latest_id, msgs, finish_tasks, finish_waiter,
                     parent, cpu, waiting>>
  BY CpuFacts DEF WakeupTask
<1>2. /\ SchedInv(sched') /\ CurrentTask(sched') = cpu
      /\ sched'.awake = sched.awake \cup {t}
  BY <1>1, WakeupInv DEF IInv, SchedPart
<1>3. SchedPart' /\ TypeOK'
  BY <1>1, <1>2 DEF IInv, SchedPart, TypeOK, SchedInv
<1>4. IdPart' /\ WaitPart'
  BY <1>1 DEF IInv, IdPart, WaitPart
<1>5. NoLostWakeup' /\ FinishHandshake'
  BY <1>1, <1>2 DEF IInv, NoLostWakeup, FinishHandshake
<1> QED
  BY <1>3, <1>4, <1>5 DEF IInv

\* SendMessage wakes the task whose queue it extends.
LEMMA SendMessageStep ==
    ASSUME IInv, NEW t \in tasks, NEW m \in Msg, SendMessage(t, m)
    PROVE  IInv'
<1>1. /\ sched' = Wakeup(sched, t, -1) /\ t \in TaskId
      /\ msgs' = [msgs EXCEPT ![t] = Append(@, m)]
      /\ UNCHANGED <<tasks, latest_id, finish_tasks, finish_waiter,
                     parent, cpu, waiting>>
  BY CpuFacts DEF SendMessage
<1>2. /\ SchedInv(sched') /\ CurrentTask(sched') = cpu
      /\ sched'.awake = sched.awake \cup {t}
  <2>1. -1 \in -1..kMaxLevel
    BY LevelAssumption
  <2> QED
    BY <1>1, <2>1, WakeupInv DEF IInv, SchedPart
<1>3. SchedPart' /\ TypeOK'
  <2>1. msgs' \in [TaskId -> Seq(Msg)]
    BY <1>1 DEF IInv, TypeOK
  <2> QED
    BY <1>1, <1>2, <2>1 DEF IInv, SchedPart, TypeOK, SchedInv
<1>4. IdPart'
  <2>1. t <= latest_id
    BY DEF IInv, IdPart
  <2>2. \A u \in TaskId : u > latest_id => u # t
    BY <2>1, <1>1, TaskAssumption DEF IInv, TypeOK, TaskId
  <2>3. \A u \in TaskId : u # t => msgs'[u] = msgs[u]
    BY <1>1 DEF IInv, TypeOK
  <2> QED
    BY <1>1, <2>2, <2>3 DEF IInv, IdPart
<1>5. WaitPart' /\ FinishHandshake'
  BY <1>1, <1>2 DEF IInv, WaitPart, FinishHandshake
<1>6. NoLostWakeup'
  BY <1>1, <1>2 DEF IInv, NoLostWakeup, TypeOK
<1> QED
  BY <1>3, <1>4, <1>5, <1>6 DEF IInv

\* ReceiveMessage shortens the queue of the awake current task.
LEMMA ReceiveMessageStep == IInv /\ ReceiveMessage => IInv'
<1> SUFFICES ASSUME IInv, ReceiveMessage PROVE IInv'
  OBVIOUS
<1>1. /\ msgs' = [msgs EXCEPT ![cpu] = Tail(@)] /\ msgs[cpu] # <<>>
      /\ UNCHANGED <<sched, tasks, latest_id, finish_tasks, finish_waiter,
                     parent, cpu, waiting>>
  BY DEF ReceiveMessage
<1>2. cpu \in TaskId /\ cpu \in tasks /\ cpu \in sched.awake
  BY CpuFacts
<1>3. SchedPart' /\ TypeOK'
  <2>1. msgs' \in [TaskId -> Seq(Msg)]
    BY <1>1, <1>2 DEF IInv, TypeOK
  <2> QED
    BY <1>1, <2>1 DEF IInv, SchedPart, TypeOK
<1>4. \A u \in TaskId : u # cpu => msgs'[u] = msgs[u]
  BY <1>1 DEF IInv, TypeOK
<1>5. IdPart'
  <2>1. ~(cpu > latest_id)
    BY <1>1, <1>2 DEF IInv, IdPart
  <2> QED
    BY <1>1, <1>4, <2>1 DEF IInv, IdPart
<1>6. WaitPart' /\ FinishHandshake'
  BY <1>1 DEF IInv, WaitPart, FinishHandshake
<1>7. NoLostWakeup'
  BY <1>1, <1>2, <1>4, CpuFacts DEF IInv, NoLostWakeup
<1> QED
  BY <1>3, <1>5, <1>6, <1>7 DEF IInv

\* A task that found no message sleeps with an empty queue.
LEMMA ReceiveOrSleepStep == IInv /\ ReceiveOrSleep => IInv'
<1> SUFFICES ASSUME IInv, ReceiveOrSleep PROVE IInv'
  OBVIOUS
<1>1. /\ sched' = Sleep(sched, cpu) /\ cpu' = CurrentTask(sched')
      /\ cpu # Idle /\ msgs[cpu] = <<>> /\ waiting[cpu] = NoTask
      /\ UNCHANGED <<tasks, latest_id, msgs, finish_tasks, finish_waiter,
                     parent, waiting>>
  BY DEF ReceiveOrSleep, Interruptible
<1>2. SchedInv(sched') /\ sched'.awake = sched.awake \ {cpu}
  BY <1>1, SleepCurrentInv DEF IInv, SchedPart
<1>3. SchedPart' /\ TypeOK'
  <2>1. CurrentTask(sched') \in TaskId
    BY <1>2, CurrentTaskQueued
  <2> QED
    BY <1>1, <1>2, <2>1 DEF IInv, SchedPart, TypeOK, SchedInv
<1>4. IdPart' /\ WaitPart'
  BY <1>1 DEF IInv, IdPart, WaitPart
<1>5. NoLostWakeup'
  BY <1>1, <1>2 DEF IInv, NoLostWakeup
<1>6. FinishHandshake'
  BY <1>1, <1>2 DEF IInv, FinishHandshake
<1> QED
  BY <1>3, <1>4, <1>5, <1>6 DEF IInv

\* A task stopped by another has nothing to handle and waits for nobody.
LEMMA SleepOtherStep ==
    ASSUME IInv, NEW t \in tasks, SleepOther(t)
    PROVE  IInv'
<1>1. /\ sched' = Sleep(sched, t) /\ t \in TaskId /\ t # cpu
      /\ t # Idle /\ msgs[t] = <<>> /\ waiting[t] = NoTask
      /\ UNCHANGED <<tasks, latest_id, msgs, finish_tasks, finish_waiter,
                     parent, cpu, waiting>>
  BY CpuFacts DEF SleepOther
<1>2. /\ SchedInv(sched') /\ CurrentTask(sched') = cpu
      /\ sched'.awake = sched.awake \ {t}
  BY <1>1, SleepOtherInv DEF IInv, SchedPart
<1>3. SchedPart' /\ TypeOK'
  BY <1>1, <1>2 DEF IInv, SchedPart, TypeOK, SchedInv
<1>4. IdPart' /\ WaitPart'
  BY <1>1 DEF IInv, IdPart, WaitPart
<1>5. NoLostWakeup'
  BY <1>1, <1>2 DEF IInv, NoLostWakeup
<1>6. FinishHandshake'
  BY <1>1, <1>2 DEF IInv, FinishHandshake
<1> QED
  BY <1>3, <1>4, <1>5, <1>6 DEF IInv

\* Preemption changes neither the awake tasks nor their messages.
LEMMA SwitchTaskStep == IInv /\ SwitchTask => IInv'
<1> SUFFICES ASSUME IInv, SwitchTask PROVE IInv'
  OBVIOUS
<1>1. /\ sched' = RotateCurrentRunQueue(sched, FALSE) /\ cpu' = CurrentTask(sched')
      /\ UNCHANGED <<tasks, latest_id, msgs, finish_tasks, finish_waiter,
                     parent, waiting>>
  BY DEF SwitchTask
<1>2. SchedInv(sched') /\ sched'.awake = sched.awake
  <2> DEFINE r == RotateCurrentRunQueue(sched, FALSE)
  <2>1. r.awake = sched.awake /\ r = [r EXCEPT !.awake = @ \ {}]
    BY RotateFields DEF IInv, SchedPart, SchedInv
  <2>2. SchedInv([r EXCEPT !.awake = @ \ {}])
    BY RotateInv DEF IInv, SchedPart
  <2> QED
    BY <1>1, <2>1, <2>2
<1>3. SchedPart' /\ TypeOK'
  <2>1. CurrentTask(sched') \in TaskId
    BY <1>2, CurrentTaskQueued
  <2> QED
    BY <1>1, <1>2, <2>1 DEF IInv, SchedPart, TypeOK, SchedInv
<1>4. IdPart' /\ WaitPart' /\ NoLostWakeup' /\ FinishHandshake'
  BY <1>1, <1>2 DEF IInv, IdPart, WaitPart, NoLostWakeup, FinishHandshake
<1> QED
  BY <1>3, <1>4 DEF IInv

\* What Finish does to the scheduler: the current task leaves, and its waiter,
\* if it has one, is awake.
LEMMA FinishSched ==
    ASSUME IInv, NEW code \in ExitCode, Finish(code)
    PROVE  LET z == [RotateCurrentRunQueue(sched, TRUE) EXCEPT !.awake = @ \ {cpu}]
               w == finish_waiter[cpu]
           IN  /\ SchedInv(z) /\ z.level = sched.level /\ ~z.level_changed
               /\ z.awake = sched.awake \ {cpu}
               /\ SchedInv(sched') /\ CurrentTask(sched') = CurrentTask(z)
               /\ sched'.awake = z.awake \cup (IF w # NoTask THEN {w} ELSE {})
               /\ sched'.level = sched.level
<1> DEFINE z == [RotateCurrentRunQueue(sched, TRUE) EXCEPT !.awake = @ \ {cpu}]
           w == finish_waiter[cpu]
<1>1. /\ cpu # Idle /\ cpu = CurrentTask(sched)
      /\ sched' = IF w # NoTask THEN Wakeup(z, w, -1) ELSE z
  BY DEF Finish, IInv, SchedPart
<1>2. /\ SchedInv(z) /\ z.level = sched.level /\ ~z.level_changed
      /\ z.awake = sched.awake \ {cpu}
  BY <1>1, RotateInv DEF IInv, SchedPart
<1>3. CASE w = NoTask
  BY <1>1, <1>2, <1>3
<1>4. CASE w # NoTask
  <2>1. w \in TaskId
    BY <1>4, CpuFacts DEF IInv, TypeOK
  <2> HIDE DEF z, w
  <2>2. -1 \in -1..kMaxLevel /\ z.level \in [TaskId -> Level]
    BY <1>2, LevelAssumption DEF SchedInv, SchedType
  <2>3. /\ SchedInv(sched') /\ CurrentTask(sched') = CurrentTask(z)
        /\ sched'.awake = z.awake \cup {w}
    BY <1>1, <1>2, <1>4, <2>1, <2>2, WakeupInv
  <2>4. sched'.level = z.level
    <3>1. sched' = Wakeup(z, w, -1)
      BY <1>1, <1>4
    <3>2. CASE w \in z.awake
      BY <3>1, <3>2 DEF Wakeup, ChangeLevelRunning
    <3>3. CASE w \notin z.awake
      <4>1. sched' = [z EXCEPT !.level[w] = z.level[w],
                               !.awake = @ \cup {w},
                               !.running[z.level[w]] = Append(@, w),
                               !.level_changed = @ \/ z.level[w] > z.current_level]
        BY <3>1, <3>3 DEF Wakeup
      <4>2. z \in SchedType
        BY <1>2 DEF SchedInv
      <4>3. sched'.level = [z.level EXCEPT ![w] = z.level[w]]
        BY <4>1, <4>2 DEF SchedType
      <4> QED
        BY <4>3, <2>1, <2>2
    <3> QED
      BY <3>2, <3>3
  <2> QED
    BY <1>2, <1>4, <2>3, <2>4 DEF z, w
<1> QED
  BY <1>3, <1>4

\* Finish leaves an exit code and an awake waiter behind.
LEMMA FinishStep ==
    ASSUME IInv, NEW code \in ExitCode, Finish(code)
    PROVE  IInv'
<1> DEFINE t == cpu
           w == finish_waiter[t]
<1>1. /\ tasks' = tasks \ {t}
      /\ msgs' = [msgs EXCEPT ![t] = <<>>]
      /\ finish_tasks' = [finish_tasks EXCEPT ![t] = code]
      /\ finish_waiter' = [finish_waiter EXCEPT ![t] = NoTask]
      /\ cpu' = CurrentTask(sched') /\ waiting[t] = NoTask
      /\ UNCHANGED <<latest_id, parent, waiting>>
  BY DEF Finish, IInv, SchedPart, Interruptible
<1>2. /\ SchedInv(sched')
      /\ sched'.awake = (sched.awake \ {t}) \cup (IF w # NoTask THEN {w} ELSE {})
  BY FinishSched
<1>3. t \in TaskId /\ t \in tasks /\ tasks \subseteq TaskId /\ code # NoExit
  BY CpuFacts, ExitAssumption
<1>4. w # NoTask => w \in tasks /\ waiting[w] = t /\ w # t
  BY <1>1, <1>3, CpuFacts DEF IInv, FinishHandshake
<1>5. SchedPart'
  <2>1. sched'.awake \subseteq tasks'
    BY <1>1, <1>2, <1>4 DEF IInv, SchedPart
  <2> QED
    BY <1>1, <1>2, <2>1 DEF SchedPart
<1>6. TypeOK'
  <2>1. CurrentTask(sched') \in TaskId /\ sched' \in SchedType
    BY <1>2, CurrentTaskQueued DEF SchedInv
  <2>2. msgs' \in [TaskId -> Seq(Msg)]
    BY <1>1, <1>3 DEF IInv, TypeOK
  <2> QED
    BY <1>1, <2>1, <2>2 DEF IInv, TypeOK
<1> HIDE DEF w
<1>7. IdPart'
  <2>1. \A u \in TaskId : u > latest_id => u # t
    BY <1>3, TaskAssumption DEF IInv, IdPart, TypeOK, TaskId
  <2> QED
    BY <1>1, <2>1 DEF IInv, IdPart, TypeOK
<1>8. WaitPart'
  BY <1>1, <1>3 DEF IInv, WaitPart, TypeOK
<1>9. NoLostWakeup'
  BY <1>1, <1>2, <1>3 DEF IInv, NoLostWakeup, TypeOK
<1>10. FinishHandshake'
  <2>1. ASSUME NEW id \in TaskId, finish_waiter'[id] # NoTask
        PROVE  /\ id \in tasks'
               /\ finish_waiter'[id] \in tasks'
               /\ waiting'[finish_waiter'[id]] = id
    <3>1. id # t /\ finish_waiter'[id] = finish_waiter[id]
      BY <2>1, <1>1, <1>3 DEF IInv, TypeOK
    <3>2. /\ id \in tasks /\ finish_waiter[id] \in tasks
          /\ waiting[finish_waiter[id]] = id
      BY <2>1, <3>1 DEF IInv, FinishHandshake
    <3>3. finish_waiter[id] # t
      BY <3>2, <1>1, CpuFacts
    <3> QED
      BY <1>1, <3>1, <3>2, <3>3
  <2>2. ASSUME NEW v \in tasks', waiting'[v] # NoTask
        PROVE  \/ waiting'[v] \in tasks' /\ finish_waiter'[waiting'[v]] = v
               \/ finish_tasks'[waiting'[v]] # NoExit /\ v \in sched'.awake
    <3>1. v \in tasks /\ v # t /\ waiting'[v] = waiting[v] /\ waiting[v] \in TaskId
      BY <2>2, <1>1, <1>3 DEF IInv, TypeOK
    <3>2. \/ waiting[v] \in tasks /\ finish_waiter[waiting[v]] = v
          \/ finish_tasks[waiting[v]] # NoExit /\ v \in sched.awake
      BY <2>2, <3>1 DEF IInv, FinishHandshake
    <3>3. CASE waiting[v] = t
      <4>1. finish_tasks[t] = NoExit
        BY <1>3 DEF IInv, WaitPart
      <4>2. w = v
        BY <3>2, <3>3, <4>1 DEF w
      <4>3. v \in sched'.awake
        BY <4>2, <1>2, <2>2, <3>1, CpuFacts DEF IInv
      <4>4. finish_tasks'[t] = code
        BY <1>1, <1>3 DEF IInv, TypeOK
      <4> QED
        BY <3>1, <3>3, <4>3, <4>4, <1>3
    <3>4. CASE waiting[v] # t
      BY <3>1, <3>2, <3>4, <1>1, <1>2 DEF IInv, TypeOK
    <3> QED
      BY <3>3, <3>4
  <2> QED
    BY <2>1, <2>2 DEF FinishHandshake
<1> QED
  BY <1>5, <1>6, <1>7, <1>8, <1>9, <1>10 DEF IInv

\* One turn of the WaitFinish loop, for a task this processor's task created.
LEMMA WaitFinishTurnStep ==
    ASSUME IInv, NEW id \in TaskId, WaitFinishTurn(id), cpu # Idle,
           parent[id] = cpu,
           waiting[cpu] \in {NoTask, id},
           id \in tasks \/ finish_tasks[id] # NoExit
    PROVE  IInv'
<1>1. cpu \in TaskId /\ cpu \in tasks /\ cpu \in sched.awake /\ tasks \subseteq TaskId
      /\ NoTask \notin TaskId
  BY CpuFacts
<1>2. \A v \in TaskId : waiting[v] = id => v = cpu
  BY CpuFacts DEF IInv, WaitPart
<1>3. CASE /\ finish_tasks[id] # NoExit
           /\ finish_tasks' = [finish_tasks EXCEPT ![id] = NoExit]
           /\ waiting' = [waiting EXCEPT ![cpu] = NoTask]
           /\ UNCHANGED <<sched, tasks, latest_id, msgs, finish_waiter, parent, cpu>>
  <2>1. SchedPart' /\ TypeOK'
    BY <1>1, <1>3 DEF IInv, SchedPart, TypeOK
  <2>2. IdPart' /\ WaitPart'
    BY <1>1, <1>3 DEF IInv, IdPart, WaitPart, TypeOK
  <2>3. NoLostWakeup'
    BY <1>1, <1>3 DEF IInv, NoLostWakeup, TypeOK
  <2>4. FinishHandshake'
    <3>1. \A i \in TaskId : finish_waiter[i] # cpu
      <4> SUFFICES ASSUME NEW i \in TaskId, finish_waiter[i] = cpu PROVE FALSE
        OBVIOUS
      <4>1. i \in tasks /\ waiting[cpu] = i
        BY <1>1 DEF IInv, FinishHandshake
      <4>2. i = id
        BY <4>1, <1>1
      <4> QED
        BY <4>1, <4>2, <1>3 DEF IInv, WaitPart
    <3>2. ASSUME NEW i \in TaskId, finish_waiter[i] # NoTask
          PROVE  /\ i \in tasks' /\ finish_waiter[i] \in tasks'
                 /\ waiting'[finish_waiter[i]] = i
      BY <3>1, <3>2, <1>1, <1>3 DEF IInv, FinishHandshake, TypeOK
    <3>3. ASSUME NEW v \in tasks, waiting'[v] # NoTask
          PROVE  \/ waiting'[v] \in tasks /\ finish_waiter[waiting'[v]] = v
                 \/ finish_tasks'[waiting'[v]] # NoExit /\ v \in sched.awake
      <4>1. v # cpu /\ waiting'[v] = waiting[v] /\ waiting[v] \in TaskId
        BY <3>3, <1>1, <1>3 DEF IInv, TypeOK
      <4>2. waiting[v] # id
        BY <4>1, <1>1, <1>2
      <4> QED
        BY <3>3, <4>1, <4>2, <1>3 DEF IInv, FinishHandshake, TypeOK
    <3> QED
      BY <3>2, <3>3, <1>3 DEF FinishHandshake
  <2> QED
    BY <2>1, <2>2, <2>3, <2>4 DEF IInv
<1>4. CASE /\ finish_tasks[id] = NoExit
           /\ finish_waiter' = [finish_waiter EXCEPT ![id] = cpu]
           /\ waiting' = [waiting EXCEPT ![cpu] = id]
           /\ sched' = Sleep(sched, cpu)
           /\ cpu' = CurrentTask(sched')
           /\ UNCHANGED <<tasks, latest_id, msgs, finish_tasks, parent>>
  <2>1. SchedInv(sched') /\ sched'.awake = sched.awake \ {cpu}
    BY <1>4, SleepCurrentInv DEF IInv, SchedPart
  <2>2. SchedPart'
    BY <1>4, <2>1 DEF IInv, SchedPart
  <2>3. TypeOK'
    <3>1. CurrentTask(sched') \in TaskId
      BY <2>1, CurrentTaskQueued
    <3> QED
      BY <1>1, <1>4, <2>1, <3>1 DEF IInv, TypeOK, SchedInv
  <2>4. IdPart' /\ WaitPart'
    BY <1>1, <1>4 DEF IInv, IdPart, WaitPart, TypeOK
  <2>5. NoLostWakeup'
    BY <1>1, <1>4, <2>1 DEF IInv, NoLostWakeup, TypeOK
  <2>6. FinishHandshake'
    <3>1. ASSUME NEW i \in TaskId, finish_waiter'[i] # NoTask
          PROVE  /\ i \in tasks /\ finish_waiter'[i] \in tasks
                 /\ waiting'[finish_waiter'[i]] = i
      <4>1. CASE i = id
        BY <4>1, <1>1, <1>4 DEF IInv, TypeOK
      <4>2. CASE i # id
        <5>1. finish_waiter'[i] = finish_waiter[i]
          BY <4>2, <1>4 DEF IInv, TypeOK
        <5>2. /\ i \in tasks /\ finish_waiter[i] \in tasks
              /\ waiting[finish_waiter[i]] = i
          BY <3>1, <5>1 DEF IInv, FinishHandshake
        <5>3. finish_waiter[i] # cpu
          BY <4>2, <5>2, <1>1
        <5> QED
          BY <5>1, <5>2, <5>3, <1>1, <1>4 DEF IInv, TypeOK
      <4> QED
        BY <4>1, <4>2
    <3>2. ASSUME NEW v \in tasks, waiting'[v] # NoTask
          PROVE  \/ waiting'[v] \in tasks /\ finish_waiter'[waiting'[v]] = v
                 \/ finish_tasks[waiting'[v]] # NoExit /\ v \in sched'.awake
      <4>1. CASE v = cpu
        BY <4>1, <1>1, <1>4 DEF IInv, TypeOK
      <4>2. CASE v # cpu
        <5>1. waiting'[v] = waiting[v] /\ waiting[v] # id
          BY <4>2, <1>1, <1>2, <1>4 DEF IInv, TypeOK
        <5>2. \/ waiting[v] \in tasks /\ finish_waiter[waiting[v]] = v
              \/ finish_tasks[waiting[v]] # NoExit /\ v \in sched.awake
          BY <3>2, <5>1 DEF IInv, FinishHandshake
        <5>3. finish_waiter'[waiting[v]] = finish_waiter[waiting[v]]
              \/ waiting[v] \notin TaskId
          BY <5>1, <1>4 DEF IInv, TypeOK
        <5> QED
          BY <4>2, <5>1, <5>2, <5>3, <1>1, <2>1, <3>2 DEF IInv, TypeOK
      <4> QED
        BY <4>1, <4>2
    <3> QED
      BY <3>1, <3>2, <1>4 DEF FinishHandshake
  <2> QED
    BY <2>2, <2>3, <2>4, <2>5, <2>6 DEF IInv
<1> QED
  BY <1>3, <1>4 DEF WaitFinishTurn

\* Every step of the task manager preserves the invariant.
LEMMA NextIInv == IInv /\ [Next]_vars => IInv'
<1> SUFFICES ASSUME IInv, [Next]_vars PROVE IInv'
  OBVIOUS
<1>1. CASE NewTask
  BY <1>1, NewTaskStep
<1>2. ASSUME NEW t \in tasks, NEW level \in -1..kMaxLevel, WakeupTask(t, level)
      PROVE  IInv'
  BY <1>2, WakeupStep
<1>3. ASSUME NEW t \in tasks, NEW m \in Msg, SendMessage(t, m) PROVE IInv'
  BY <1>3, SendMessageStep
<1>4. CASE ReceiveMessage
  BY <1>4, ReceiveMessageStep
<1>5. CASE ReceiveOrSleep
  BY <1>5, ReceiveOrSleepStep
<1>6. ASSUME NEW t \in tasks, SleepOther(t) PROVE IInv'
  BY <1>6, SleepOtherStep
<1>7. CASE SwitchTask
  BY <1>7, SwitchTaskStep
<1>8. ASSUME NEW code \in ExitCode, Finish(code) PROVE IInv'
  BY <1>8, FinishStep
<1>9. ASSUME NEW id \in TaskId, WaitFinish(id) PROVE IInv'
  <2>1. /\ cpu # Idle /\ parent[id] = cpu /\ waiting[cpu] = NoTask
        /\ id \in tasks \/ finish_tasks[id] # NoExit
        /\ WaitFinishTurn(id)
    BY <1>9 DEF WaitFinish, Interruptible
  <2> QED
    BY <2>1, WaitFinishTurnStep
<1>10. CASE WaitFinishResume
  <2>1. WaitFinishTurn(waiting[cpu]) /\ waiting[cpu] # NoTask
    BY <1>10 DEF WaitFinishResume, Interruptible
  <2>2. waiting[cpu] \in TaskId /\ cpu # Idle /\ parent[waiting[cpu]] = cpu
    BY <2>1, CpuFacts DEF IInv, WaitPart, TypeOK
  <2>3. waiting[cpu] \in tasks \/ finish_tasks[waiting[cpu]] # NoExit
    BY <2>1, CpuFacts DEF IInv, FinishHandshake
  <2> QED
    BY <2>1, <2>2, <2>3, WaitFinishTurnStep
<1>11. CASE UNCHANGED vars
  BY <1>11 DEF vars, IInv, TypeOK, SchedPart, IdPart, WaitPart, NoLostWakeup,
               FinishHandshake
<1> QED
  BY <1>1, <1>2, <1>3, <1>4, <1>5, <1>6, <1>7, <1>8, <1>9, <1>10, <1>11 DEF Next

\* The invariant holds in every reachable state.
LEMMA AlwaysIInv == Spec => []IInv
BY InitIInv, NextIInv, PTL DEF Spec

-----------------------------------------------------------------------------
(* The properties. *)

\* The variables always hold values of their C++ types.
THEOREM TypeCorrect == Spec => []TypeOK
<1>1. IInv => TypeOK
  BY DEF IInv
<1> QED
  BY <1>1, AlwaysIInv, PTL

\* The run queues always hold exactly the live awake tasks.
THEOREM RunQueuesAreExact == Spec => []RunQueuesExact
<1>1. IInv => RunQueuesExact
  BY DEF IInv, SchedPart, SchedInv, RunQueuesExact
<1> QED
  BY <1>1, AlwaysIInv, PTL

\* The task that has the processor is always the front of the current queue.
THEOREM CpuIsAlwaysCurrent == Spec => []CpuIsCurrent
<1>1. IInv => CpuIsCurrent
  BY DEF IInv, SchedPart, SchedInv, CpuIsCurrent
<1> QED
  BY <1>1, AlwaysIInv, PTL

\* Without a due rescan no ready task is above the current level.
THEOREM HighestLevelAlwaysRuns == Spec => []HighestLevelRuns
<1>1. IInv => HighestLevelRuns
  BY CurrentLevelIsHighest DEF IInv, SchedPart, HighestLevelRuns
<1> QED
  BY <1>1, AlwaysIInv, PTL

\* No task sleeps on a message.
THEOREM NoWakeupIsLost == Spec => []NoLostWakeup
<1>1. IInv => NoLostWakeup
  BY DEF IInv
<1> QED
  BY <1>1, AlwaysIInv, PTL

\* Finish and WaitFinish always meet.
THEOREM FinishMeetsWait == Spec => []FinishHandshake
<1>1. IInv => FinishHandshake
  BY DEF IInv
<1> QED
  BY <1>1, AlwaysIInv, PTL

-----------------------------------------------------------------------------
(* Refinement. *)

\* After a rescan the current task is one of the highest-level ready tasks.
LEMMA CurrentIsHighest ==
    ASSUME NEW z, SchedInv(z), ~z.level_changed, z.level = sched.level
    PROVE  CurrentTask(z) \in PS!Highest(z.awake)
<1>1. CurrentTask(z) \in z.awake /\ z.level[CurrentTask(z)] = z.current_level
  BY CurrentTaskQueued
<1>2. \A u \in z.awake : z.level[u] <= z.current_level
  BY CurrentLevelIsHighest
<1> QED
  BY <1>1, <1>2 DEF PS!Highest

\* The constructor's state is an initial state of the priority scheduler.
LEMMA InitRefines == Init => PS!Init
<1> SUFFICES ASSUME Init PROVE PS!Init
  OBVIOUS
<1>1. sched = InitSched /\ cpu = Main
  BY DEF Init
<1>2. sched.awake = {Main, Idle} /\ sched.level \in [TaskId -> Level]
  <2>1. SchedInv(InitSched)
    BY InitSchedInv
  <2> QED
    BY <1>1, <2>1 DEF InitSched, SchedInv, SchedType
<1>3. sched.level[Idle] <= sched.level[Main]
  <2>1. Main \in TaskId /\ Idle \in TaskId /\ Main # Idle
    BY TaskAssumption DEF TaskId, Main, Idle
  <2>2. InitSched.level[Main] = kMaxLevel /\ InitSched.level[Idle] = 0
    BY <2>1 DEF InitSched
  <2> QED
    BY <1>1, <2>2, LevelAssumption
<1> QED
  BY <1>1, <1>2, <1>3 DEF PS!Init

\* Preemption picks a highest-level task, another one when there is one.
LEMMA PreemptRefines == IInv /\ SwitchTask => PS!Preempt
<1> SUFFICES ASSUME IInv, SwitchTask PROVE PS!Preempt
  OBVIOUS
<1> DEFINE r == RotateCurrentRunQueue(sched, FALSE)
<1>1. sched' = r /\ cpu' = CurrentTask(r) /\ cpu = CurrentTask(sched) /\ SchedInv(sched)
  BY DEF SwitchTask, IInv, SchedPart
<1>2. r.awake = sched.awake /\ r = [r EXCEPT !.awake = @ \ {}]
  BY <1>1, RotateFields DEF SchedInv
<1>3. SchedInv(r) /\ r.level = sched.level /\ ~r.level_changed
  BY <1>1, <1>2, RotateInv
<1>4. CurrentTask(r) = cpu => {t \in r.awake : r.level[t] = r.current_level} = {cpu}
  BY <1>1, RotateTakesTurns
<1> HIDE DEF r
<1>5. cpu' \in PS!Highest(sched.awake)
  BY <1>1, <1>2, <1>3, CurrentIsHighest
<1>6. ASSUME cpu' = cpu PROVE PS!Highest(sched.awake) = {cpu}
  <2>1. {t \in r.awake : r.level[t] = r.current_level} = {cpu}
    BY <1>1, <1>4, <1>6
  <2>2. /\ \A u \in r.awake : r.level[u] <= r.current_level
        /\ \A u \in r.awake : r.level[u] \in Nat
        /\ r.level[cpu] = r.current_level /\ r.current_level \in Nat
        /\ cpu \in r.awake
    <3>1. \A u \in r.awake : r.level[u] <= r.current_level
      BY <1>3, CurrentLevelIsHighest
    <3>2. r.level[cpu] = r.current_level /\ cpu \in r.awake
      BY <1>1, <1>3, <1>6, CurrentTaskQueued
    <3>3. (\A u \in r.awake : r.level[u] \in Nat) /\ r.current_level \in Nat
      BY <1>3, LevelAssumption DEF SchedInv, SchedType, Level
    <3> QED
      BY <3>1, <3>2, <3>3
  <2> QED
    BY <2>1, <2>2, <1>2, <1>3 DEF PS!Highest
<1> QED
  BY <1>1, <1>2, <1>3, <1>5, <1>6 DEF PS!Preempt

\* A task that sleeps is followed by a highest-level ready task.
LEMMA SleepRefines ==
    ASSUME IInv, cpu # Idle, sched' = Sleep(sched, cpu), cpu' = CurrentTask(sched')
    PROVE  PS!Stop({})
<1>1. /\ SchedInv(sched') /\ sched'.awake = sched.awake \ {cpu}
      /\ sched'.level = sched.level /\ ~sched'.level_changed
  BY SleepCurrentInv DEF IInv, SchedPart
<1>2. cpu' \in PS!Highest(sched.awake \ {cpu})
  BY <1>1, CurrentIsHighest
<1> QED
  BY <1>1, <1>2 DEF PS!Stop

\* A task that ends is followed by a highest-level task of those ready before
\* its waiter is woken.
LEMMA FinishRefines ==
    ASSUME IInv, NEW code \in ExitCode, Finish(code)
    PROVE  PS!Next
<1> DEFINE z == [RotateCurrentRunQueue(sched, TRUE) EXCEPT !.awake = @ \ {cpu}]
           w == finish_waiter[cpu]
           W == IF w # NoTask THEN {w} ELSE {}
<1>1. /\ SchedInv(z) /\ z.level = sched.level /\ ~z.level_changed
      /\ z.awake = sched.awake \ {cpu}
      /\ SchedInv(sched') /\ CurrentTask(sched') = CurrentTask(z)
      /\ sched'.awake = z.awake \cup W
      /\ sched'.level = sched.level
  BY FinishSched
<1>2. cpu # Idle /\ cpu' = CurrentTask(sched')
  BY DEF Finish
<1> HIDE DEF z
<1>3. CurrentTask(z) \in PS!Highest(sched.awake \ {cpu})
  BY <1>1, CurrentIsHighest
<1>4. PS!Stop(W)
  BY <1>1, <1>2, <1>3 DEF PS!Stop
<1>5. w = NoTask \/ w \in TaskId
  BY CpuFacts DEF IInv, TypeOK
<1> QED
  BY <1>4, <1>5 DEF PS!Next

\* Waking a task, at whatever level, leaves the processor where it is.
LEMMA WakeupRefines ==
    ASSUME IInv, NEW t \in TaskId, NEW level \in -1..kMaxLevel,
           sched' = Wakeup(sched, t, level), cpu' = cpu
    PROVE  PS!Ready(t)
BY WakeupInv DEF IInv, SchedPart, PS!Ready

\* Every step is a step of the priority scheduler or leaves it unchanged.
LEMMA StepRefines == IInv /\ [Next]_vars => [PS!Next]_(PS!vars)
<1> SUFFICES ASSUME IInv, [Next]_vars PROVE PS!Next \/ UNCHANGED PS!vars
  OBVIOUS
<1>1. CASE NewTask \/ ReceiveMessage \/ UNCHANGED vars
  BY <1>1 DEF NewTask, ReceiveMessage, vars, PS!vars
<1>2. ASSUME NEW t \in tasks, NEW level \in -1..kMaxLevel, WakeupTask(t, level)
      PROVE  PS!Next
  <2>1. t \in TaskId /\ sched' = Wakeup(sched, t, level) /\ cpu' = cpu
    BY <1>2, CpuFacts DEF WakeupTask
  <2>2. PS!Ready(t)
    BY <2>1, WakeupRefines
  <2> QED
    BY <2>1, <2>2 DEF PS!Next
<1>3. ASSUME NEW t \in tasks, NEW m \in Msg, SendMessage(t, m) PROVE PS!Next
  <2>1. t \in TaskId /\ sched' = Wakeup(sched, t, -1) /\ cpu' = cpu
    BY <1>3, CpuFacts DEF SendMessage
  <2>2. -1 \in -1..kMaxLevel
    BY LevelAssumption
  <2>3. PS!Ready(t)
    BY <2>1, <2>2, WakeupRefines
  <2> QED
    BY <2>1, <2>3 DEF PS!Next
<1>4. CASE ReceiveOrSleep
  BY <1>4, SleepRefines DEF ReceiveOrSleep, PS!Next
<1>5. ASSUME NEW t \in tasks, SleepOther(t) PROVE PS!Next
  <2>1. t \in TaskId /\ sched' = Sleep(sched, t) /\ cpu' = cpu /\ t # cpu /\ t # Idle
    BY <1>5, CpuFacts DEF SleepOther
  <2>2. sched'.awake = sched.awake \ {t} /\ sched'.level = sched.level
    BY <2>1, SleepOtherInv DEF IInv, SchedPart
  <2> QED
    BY <2>1, <2>2 DEF PS!Next, PS!Suspend
<1>6. CASE SwitchTask
  BY <1>6, PreemptRefines DEF PS!Next
<1>7. ASSUME NEW code \in ExitCode, Finish(code) PROVE PS!Next
  BY <1>7, FinishRefines
<1>8. ASSUME NEW id, WaitFinishTurn(id), cpu # Idle
      PROVE  PS!Next \/ UNCHANGED PS!vars
  BY <1>8, SleepRefines DEF WaitFinishTurn, PS!Next, PS!vars
<1>9. ASSUME NEW id \in TaskId, WaitFinish(id)
      PROVE  PS!Next \/ UNCHANGED PS!vars
  BY <1>8, <1>9 DEF WaitFinish
<1>10. CASE WaitFinishResume
  <2>1. WaitFinishTurn(waiting[cpu]) /\ waiting[cpu] # NoTask
    BY <1>10 DEF WaitFinishResume, Interruptible
  <2>2. cpu # Idle
    BY <2>1 DEF IInv, WaitPart
  <2> QED
    BY <2>1, <2>2, <1>8
<1> QED
  BY <1>1, <1>2, <1>3, <1>4, <1>5, <1>6, <1>7, <1>9, <1>10 DEF Next

\* The run queues, current_level_ and level_changed_ implement a priority
\* scheduler, for every number of levels and tasks.
THEOREM ImplementsScheduler == Spec => ImplementsPriorityScheduler
BY InitRefines, StepRefines, AlwaysIInv, PTL
   DEF Spec, ImplementsPriorityScheduler, PS!Spec
=============================================================================
