-------------------------- MODULE PreemptionProofs --------------------------
(***************************************************************************)
(* The calls of the task manager that are made with interrupts on: what    *)
(* OnlyStagesRace says of them holds for every number of levels above the  *)
(* default one, of tasks and of keys.                                      *)
(***************************************************************************)
EXTENDS Preemption, RunQueuesProofs

\* The tasks that are marked as running and not yet in a run queue.
Pushing == {target[t] : t \in {u \in TaskId : pc[u] = "push"}}

\* The scheduler's fields with those tasks left out: what the run queues hold.
Queued == [sched EXCEPT !.awake = @ \ Pushing]

Place == {"start", "spawn", "new", "wake", "push", "level", "run", "waits", "finish", "done",
          "loop", "send"}

TypePart ==
    /\ sched \in SchedType
    /\ cpu \in TaskId
    /\ latest_id \in 2..MaxTasks
    /\ pc \in [TaskId -> Place]
    /\ target \in [TaskId -> {NoTask} \cup 3..MaxTasks]
    /\ msgs \in [TaskId -> Nat]
    /\ finished \subseteq TaskId
    /\ keys \in Nat

\* Nobody changes a level: the main loop is alone at the highest, the idle task at 0.
LevelPart == sched.level = InitSched.level

\* Where a task can be: only the main loop sends, it never waits nor finishes, and
\* neither does the terminal.
PlacePart ==
    /\ pc[Idle] = "start"
    /\ pc[Main] \in {"spawn", "new", "wake", "push", "level", "loop", "send"}
    /\ pc[Terminal] \notin {"finish", "done"}
    /\ \A t \in TaskId : pc[t] = "send" => t = Main
    /\ \A t \in TaskId : pc[t] = "loop" => t \in {Main, Terminal}

\* Whoever is about to wake a task has one to wake.
TargetPart ==
    /\ \A t \in TaskId : pc[t] \in {"new", "wake", "push", "level", "send"} => target[t] # NoTask
    /\ pc[Main] = "send" => target[Main] = Terminal

\* Only the main loop and the terminal get messages.
MessagePart == \A t \in TaskId : msgs[t] > 0 => t \in {Main, Terminal}

\* The run queues are consistent but for the tasks being pushed; the one who pushes
\* has the processor, and the main loop gives it away nowhere but in its own Sleep.
QueuePart ==
    /\ SchedInv(Queued)
    /\ Pushing \subseteq sched.awake
    /\ cpu = CurrentTask(sched)
    /\ \A t \in TaskId : pc[t] = "push" => t = cpu
    /\ cpu # Main => pc[Main] = "loop"

\* A task with a message is awake or about to be woken.
WakePart ==
    \A t \in TaskId : msgs[t] > 0 /\ pc[t] # "waits" /\ t \notin sched.awake =>
        \E u \in TaskId : pc[u] = "wake" /\ target[u] = t

\* Whose windows were hit.
BrokenPart == \A b \in broken : b[1] = "run queue" => b[2] # Main

\* What holds until a container is broken.
Sound == TypePart /\ LevelPart /\ PlacePart /\ TargetPart /\ MessagePart /\ QueuePart /\ WakePart

\* The inductive invariant.
IInv == BrokenPart /\ (broken = {} => Sound)

-----------------------------------------------------------------------------
(* What the parts say of one state. *)

LEMMA Ids ==
    /\ Main \in TaskId /\ Idle \in TaskId /\ Terminal \in TaskId
    /\ Main # Idle /\ Main # Terminal /\ Idle # Terminal
    /\ 3..MaxTasks \subseteq TaskId /\ NoTask \notin TaskId
    /\ Main \notin 3..MaxTasks /\ Idle \notin 3..MaxTasks /\ Terminal \in 3..MaxTasks
    /\ NoTask \notin 3..MaxTasks
  BY TaskAssumption, RoomAssumption DEF TaskId, Main, Idle, Terminal, NoTask

\* The levels, as the constructor and NewTask set them.
LEMMA Levels ==
    ASSUME Sound
    PROVE  /\ sched.level \in [TaskId -> Level]
           /\ sched.level[Main] = kMaxLevel
           /\ \A t \in TaskId : t # Main => sched.level[t] # kMaxLevel
           /\ \A t \in 3..MaxTasks : sched.level[t] = kDefaultLevel
           /\ \A t \in TaskId : t # Main /\ t # Idle => sched.level[t] = kDefaultLevel
           /\ \A t \in TaskId, u \in 3..MaxTasks :
                  t # Idle => ~(sched.level[u] > sched.level[t])
<1>1. sched.level \in [TaskId -> Level]
  BY DEF Sound, TypePart, SchedType
<1>2. \A t \in TaskId : sched.level[t] = IF t = Main THEN kMaxLevel
                                         ELSE IF t = Idle THEN 0 ELSE kDefaultLevel
  BY DEF Sound, LevelPart, InitSched
<1>3. 0 # kMaxLevel /\ kDefaultLevel # kMaxLevel /\ ~(kDefaultLevel > kMaxLevel)
      /\ ~(kDefaultLevel > kDefaultLevel)
  BY LevelAssumption, AboveAssumption DEF kDefaultLevel
<1> QED
  BY <1>1, <1>2, <1>3, Ids

\* The fields of Queued.
LEMMA QueuedFields ==
    ASSUME Sound
    PROVE  /\ Queued \in SchedType
           /\ Queued.running = sched.running
           /\ Queued.level = sched.level
           /\ Queued.current_level = sched.current_level
           /\ Queued.level_changed = sched.level_changed
           /\ Queued.awake = sched.awake \ Pushing
           /\ LevelQueue(Queued) = LevelQueue(sched)
           /\ CurrentTask(Queued) = CurrentTask(sched)
<1>1. sched \in SchedType
  BY DEF Sound, TypePart
<1> QED
  BY <1>1 DEF Queued, SchedType, LevelQueue, CurrentTask

\* The task that has the processor.
LEMMA CpuFacts ==
    ASSUME Sound
    PROVE  /\ cpu \in TaskId /\ cpu \in sched.awake
           /\ sched.level[cpu] = sched.current_level
           /\ cpu = CurrentTask(sched)
  BY QueuedFields, CurrentTaskQueued DEF Sound, QueuePart

\* Unless the task that runs is pushing, the run queues are exact.
LEMMA QuietQueues ==
    ASSUME Sound, pc[cpu] # "push"
    PROVE  /\ \A t \in TaskId : pc[t] # "push"
           /\ Pushing = {}
           /\ SchedInv(sched)
<1>1. \A t \in TaskId : pc[t] # "push"
  BY DEF Sound, QueuePart
<1>2. Pushing = {}
  BY <1>1 DEF Pushing
<1>3. Queued = sched
  BY <1>2 DEF Queued, Sound, TypePart, SchedType
<1> QED
  BY <1>1, <1>2, <1>3 DEF Sound, QueuePart

\* A step after which nobody pushes need only keep the run queues exact.
LEMMA QuietStep ==
    ASSUME \A t \in TaskId : pc'[t] # "push",
           SchedInv(sched'), cpu' = CurrentTask(sched'),
           cpu' # Main => pc'[Main] = "loop"
    PROVE  QueuePart'
<1>1. Pushing' = {}
  BY DEF Pushing
<1>2. Queued' = sched'
  BY <1>1 DEF Queued, SchedInv, SchedType
<1> QED
  BY <1>1, <1>2 DEF QueuePart

\* Interrupts and lookups during emplace_back break no run queue.
LEMMA TasksHit ==
    ASSUME BrokenPart, NEW who, Hit("tasks", who)
    PROVE  BrokenPart'
<1>1. broken' = broken \cup ({"tasks"} \X who)
  BY DEF Hit
<1>2. \A b \in {"tasks"} \X who : b[1] = "tasks"
  OBVIOUS
<1> QED
  BY <1>1, <1>2 DEF BrokenPart

\* The initial state.
LEMMA InitIInv == Init => IInv
<1> SUFFICES ASSUME Init PROVE IInv
  OBVIOUS
<1> USE DEF Init
<1>1. \A t \in TaskId : pc[t] = IF t = Main THEN "spawn" ELSE "start"
  OBVIOUS
<1>2. SchedInv(InitSched) /\ CurrentTask(InitSched) = Main
  BY InitSchedInv
<1>3. TypePart
  BY <1>2, Ids, TaskAssumption DEF TypePart, SchedInv, Place
<1>4. PlacePart
  BY <1>1, Ids DEF PlacePart
<1>5. TargetPart /\ MessagePart /\ LevelPart /\ WakePart /\ BrokenPart
  BY <1>1, Ids DEF TargetPart, MessagePart, LevelPart, WakePart, BrokenPart
<1>6. QueuePart
  <2>1. Pushing = {}
    BY <1>1 DEF Pushing
  <2>2. Queued = sched
    BY <1>2, <2>1 DEF Queued, SchedInv, SchedType
  <2> QED
    BY <1>1, <1>2, <2>1, <2>2 DEF QueuePart
<1> QED
  BY <1>3, <1>4, <1>5, <1>6 DEF IInv, Sound

-----------------------------------------------------------------------------
(* Interrupts. *)

\* The timer: it breaks the queue of whoever pushes at the current level, which is
\* not the main loop; the main loop gets the processor back at once.
LEMMA TimerInterruptStep ==
    ASSUME Sound, BrokenPart, TimerInterrupt
    PROVE  BrokenPart' /\ (broken' = {} => Sound')
<1> DEFINE r == RotateCurrentRunQueue(sched, FALSE)
           rq == RotateCurrentRunQueue(Queued, FALSE)
<1>1. /\ broken = {} /\ sched' = r /\ cpu' = CurrentTask(sched')
      /\ broken' = broken \cup ({"run queue"} \X InPush(sched.current_level))
      /\ UNCHANGED <<latest_id, pc, target, msgs, finished, keys>>
  BY DEF TimerInterrupt, Interruptible, Hit
<1>2. ASSUME pc[Main] = "push" PROVE cpu = Main /\ Main \notin InPush(sched.current_level)
  <2>1. cpu = Main
    BY <1>2, Ids DEF Sound, QueuePart
  <2>2. target[Main] \in 3..MaxTasks
    BY <1>2, Ids DEF Sound, TypePart, TargetPart
  <2>3. sched.level[target[Main]] # sched.current_level
    <3>1. sched.level[target[Main]] = kDefaultLevel /\ sched.current_level = kMaxLevel
      BY <2>1, <2>2, Levels, CpuFacts
    <3> QED
      BY <3>1, AboveAssumption, LevelAssumption DEF kDefaultLevel
  <2> QED
    BY <2>1, <2>3 DEF InPush
<1>3. Main \notin InPush(sched.current_level)
  BY <1>2 DEF InPush
<1>4. BrokenPart'
  <2>1. \A b \in {"run queue"} \X InPush(sched.current_level) : b[2] # Main
    BY <1>3
  <2> QED
    BY <1>1, <2>1 DEF BrokenPart
<1>5. /\ sched \in SchedType /\ SchedInv(Queued) /\ LevelQueue(sched) # <<>>
      /\ sched.awake \in SUBSET TaskId
  BY QueuedFields DEF Sound, TypePart, QueuePart, SchedInv, SchedType
<1>6. /\ r.level = sched.level /\ r.awake = sched.awake /\ r.level_changed = FALSE
      /\ r = [running |-> r.running, current_level |-> r.current_level,
              level_changed |-> r.level_changed, level |-> r.level,
              awake |-> r.awake]
      /\ r.running \in [Level -> Seq(TaskId)]
  BY <1>5, RotateFields
<1>7. rq = [r EXCEPT !.awake = sched.awake \ Pushing]
  <2>1. sched.awake \ Pushing \in SUBSET TaskId
    BY <1>5
  <2>2. Queued = [sched EXCEPT !.awake = sched.awake \ Pushing]
    BY DEF Queued
  <2> QED
    BY <1>5, <2>1, <2>2, RotateAwake
<1>8. /\ SchedInv(rq) /\ rq.level = Queued.level /\ ~rq.level_changed
      /\ rq.awake = Queued.awake
  <2>1. Queued \in SchedType /\ LevelQueue(Queued) # <<>>
    BY <1>5 DEF SchedInv
  <2>2. rq.awake = Queued.awake
    BY <2>1, RotateFields
  <2>3. rq = [running |-> rq.running, current_level |-> rq.current_level,
              level_changed |-> rq.level_changed, level |-> rq.level, awake |-> rq.awake]
    BY <2>1, RotateFields
  <2>4. [rq EXCEPT !.awake = @ \ (IF FALSE THEN {CurrentTask(Queued)} ELSE {})] = rq
    <3> HIDE DEF rq
    <3> QED
      BY ONLY <2>3
  <2>5. LET z == [rq EXCEPT !.awake = @ \ (IF FALSE THEN {CurrentTask(Queued)} ELSE {})]
        IN  SchedInv(z) /\ z.level = Queued.level /\ ~z.level_changed
    BY <1>5, RotateInv
  <2> HIDE DEF rq
  <2> QED
    BY ONLY <2>2, <2>4, <2>5
<1> HIDE DEF r, rq
<1>9. /\ r \in SchedType /\ CurrentTask(r) = CurrentTask(rq)
      /\ rq.current_level = r.current_level /\ rq.running = r.running
  <2>1. /\ rq.current_level = r.current_level /\ rq.running = r.running
        /\ rq \in SchedType
    BY <1>6, <1>7, <1>8 DEF SchedInv
  <2>2. r.current_level \in Level /\ r.level \in [TaskId -> Level]
    BY <1>5, <1>6, <2>1 DEF SchedType
  <2>3. r \in SchedType
    BY <1>5, <1>6, <2>2 DEF SchedType
  <2> QED
    BY <2>1, <2>3 DEF CurrentTask, LevelQueue
<1>10. /\ cpu' \in TaskId /\ cpu' \in Queued.awake
       /\ sched.level[cpu'] = r.current_level
  BY <1>1, <1>8, <1>9, CurrentTaskQueued, QueuedFields
\* The main loop is alone at the highest level.
<1>11. ASSUME cpu = Main PROVE cpu' = Main
  <2>1. Main \in Queued.awake
    BY <1>5, <1>11, QueuedFields, CurrentTaskQueued DEF Sound, QueuePart
  <2>2. rq.level[Main] <= rq.current_level
    BY <1>8, <2>1, CurrentLevelIsHighest
  <2>3. r.current_level = kMaxLevel
    <3>1. rq.level[Main] = kMaxLevel
      BY <1>8, QueuedFields, Levels
    <3>2. r.current_level \in Level
      BY <1>9 DEF SchedType
    <3> QED
      BY <1>9, <2>2, <3>1, <3>2, LevelAssumption DEF Level
  <2> QED
    BY <1>10, <2>3, Levels
<1>12. ASSUME broken' = {} PROVE Sound'
  <2>1. InPush(sched.current_level) = {}
    <3> SUFFICES ASSUME NEW t \in InPush(sched.current_level) PROVE FALSE
      OBVIOUS
    <3>1. <<"run queue", t>> \in broken'
      BY <1>1
    <3> QED
      BY <1>12, <3>1
  <2>2. \A t \in TaskId : pc[t] = "push" => t = cpu'
    <3> SUFFICES ASSUME NEW t \in TaskId, pc[t] = "push" PROVE t = cpu'
      OBVIOUS
    <3>1. t = cpu
      BY DEF Sound, QueuePart
    <3>2. CASE t = Main
      BY <3>1, <3>2, <1>11
    <3>3. CASE t # Main
      <4>1. t # Idle /\ target[t] \in 3..MaxTasks
        BY Ids DEF Sound, PlacePart, TargetPart, TypePart
      <4>2. sched.level[t] = kDefaultLevel /\ sched.level[target[t]] = kDefaultLevel
        BY <3>3, <4>1, Levels
      <4>3. t \in InPush(sched.current_level)
        BY <3>1, <4>2, CpuFacts DEF InPush
      <4> QED
        BY <2>1, <4>3
    <3> QED
      BY <3>2, <3>3
  <2>3. Pushing' = Pushing
    BY <1>1 DEF Pushing
  <2>4. Queued' = rq
    <3>1. Queued' = [r EXCEPT !.awake = r.awake \ Pushing]
      BY <1>1, <2>3 DEF Queued
    <3> QED
      BY <1>6, <1>7, <3>1
  <2>5. QueuePart'
    <3>1. cpu' # Main => pc'[Main] = "loop"
      BY <1>1, <1>11 DEF Sound, QueuePart
    <3> QED
      BY <1>1, <1>6, <1>8, <2>2, <2>3, <2>4, <3>1 DEF Sound, QueuePart
  <2>6. TypePart'
    BY <1>1, <1>9, <1>10 DEF Sound, TypePart
  <2>7. LevelPart' /\ PlacePart' /\ TargetPart' /\ MessagePart'
    BY <1>1, <1>6 DEF Sound, LevelPart, PlacePart, TargetPart, MessagePart
  <2>8. WakePart'
    BY <1>1, <1>6 DEF Sound, WakePart
  <2> QED
    BY <2>5, <2>6, <2>7, <2>8 DEF Sound
<1> QED
  BY <1>4, <1>12

\* A key wakes the main loop, whatever the running task is doing.
LEMMA KeyboardInterruptStep ==
    ASSUME Sound, KeyboardInterrupt
    PROVE  Sound'
<1>1. /\ sched' = Wakeup(sched, Main, -1)
      /\ msgs' = [msgs EXCEPT ![Main] = @ + 1] /\ keys' = keys + 1
      /\ UNCHANGED <<cpu, latest_id, pc, target, finished>>
  BY DEF KeyboardInterrupt
<1>2. /\ SchedInv(Queued') /\ CurrentTask(sched') = cpu
      /\ sched'.awake = sched.awake \cup {Main}
      /\ sched'.level = sched.level /\ sched' \in SchedType
  <2>1. CASE Main \in sched.awake
    <3>1. sched' = sched
      BY <1>1, <2>1 DEF Wakeup, ChangeLevelRunning
    <3>2. Queued' = Queued
      BY <1>1, <3>1 DEF Queued, Pushing
    <3> QED
      BY <2>1, <3>1, <3>2, CpuFacts DEF Sound, QueuePart, TypePart
  <2>2. CASE Main \notin sched.awake
    <3> DEFINE lv == sched.level[Main]
               z == [Queued EXCEPT !.level[Main] = lv,
                                   !.awake = @ \cup {Main},
                                   !.running[lv] = Append(@, Main),
                                   !.level_changed = @ \/ lv > Queued.current_level]
    <3>1. lv \in Level /\ Main \notin Queued.awake /\ Main \in TaskId
      BY <2>2, Ids, Levels, QueuedFields
    <3>2. /\ SchedInv(z) /\ CurrentTask(z) = CurrentTask(Queued)
          /\ z.awake = Queued.awake \cup {Main}
          /\ z.level = [Queued.level EXCEPT ![Main] = lv]
      <4>1. SchedInv(Queued) /\ -1 \in -1..kMaxLevel /\ -1 < 0
        BY LevelAssumption DEF Sound, QueuePart
      <4>2. Queued.level = sched.level /\ Queued \in SchedType
        BY QueuedFields
      <4>3. Wakeup(Queued, Main, -1) = z
        BY <3>1, <4>1, <4>2 DEF Wakeup
      <4>4. z.level = [Queued.level EXCEPT ![Main] = lv]
        BY <4>2 DEF SchedType
      <4>5. /\ SchedInv(z) /\ CurrentTask(z) = CurrentTask(Queued)
            /\ z.awake = Queued.awake \cup {Main}
        <5> HIDE DEF z
        <5> QED
          BY <3>1, <4>1, <4>3, WakeupInv
      <4> QED
        BY <4>4, <4>5
    <3>3. -1 < 0
      OBVIOUS
    <3>4. sched' = [sched EXCEPT !.level[Main] = lv,
                                 !.awake = @ \cup {Main},
                                 !.running[lv] = Append(@, Main),
                                 !.level_changed = @ \/ lv > sched.current_level]
      BY <1>1, <2>2, <3>3 DEF Wakeup
    <3>5. Main \notin Pushing /\ Pushing' = Pushing
      <4>1. \A t \in TaskId : target[t] # Main
        BY Ids DEF Sound, TypePart, NoTask, Main
      <4> QED
        BY <1>1, <4>1 DEF Pushing
    <3>6. sched \in SchedType
      BY DEF Sound, TypePart
    <3> HIDE DEF lv
    <3>7. /\ sched'.awake = sched.awake \cup {Main}
          /\ sched'.level = [sched.level EXCEPT ![Main] = lv]
          /\ sched'.running = [sched.running EXCEPT ![lv] = Append(@, Main)]
          /\ sched'.current_level = sched.current_level
          /\ sched'.level_changed = (sched.level_changed \/ lv > sched.current_level)
          /\ sched' = [running |-> sched'.running, current_level |-> sched'.current_level,
                       level_changed |-> sched'.level_changed, level |-> sched'.level,
                       awake |-> sched'.awake]
      BY <3>4, <3>6 DEF SchedType
    <3>8. /\ z.running = [Queued.running EXCEPT ![lv] = Append(@, Main)]
          /\ z.current_level = Queued.current_level
          /\ z.level_changed = (Queued.level_changed \/ lv > Queued.current_level)
          /\ z = [running |-> z.running, current_level |-> z.current_level,
                  level_changed |-> z.level_changed, level |-> z.level,
                  awake |-> z.awake]
          /\ z \in SchedType
      <4>1. Queued \in SchedType
        BY QueuedFields
      <4>2. z \in SchedType
        BY <3>2, Zenon DEF SchedInv
      <4>3. /\ z.running = [Queued.running EXCEPT ![lv] = Append(@, Main)]
            /\ z.current_level = Queued.current_level
            /\ z.level_changed = (Queued.level_changed \/ lv > Queued.current_level)
        BY ONLY <4>1 DEF SchedType
      <4> HIDE DEF z
      <4> QED
        BY <4>2, <4>3 DEF SchedType
    <3> HIDE DEF z
    <3>9. /\ sched'.running = z.running /\ sched'.current_level = z.current_level
          /\ sched'.level_changed = z.level_changed /\ sched'.level = z.level
          /\ z.awake = sched'.awake \ Pushing'
      BY <3>2, <3>5, <3>7, <3>8, QueuedFields
    <3>10. Queued' = z
      <4>1. Queued' = [sched' EXCEPT !.awake = z.awake]
        BY <3>9 DEF Queued
      <4> QED
        BY <3>7, <3>8, <3>9, <4>1
    <3>11. sched'.level = sched.level
      BY <3>6, <3>7, Ids DEF SchedType, lv
    <3>12. sched' \in SchedType
      <4>1. sched'.awake \in SUBSET TaskId
        BY <3>6, <3>7, Ids DEF SchedType
      <4> QED
        BY <3>7, <3>8, <3>9, <4>1 DEF SchedType
    <3>13. CurrentTask(sched') = cpu
      <4>1. CurrentTask(sched') = CurrentTask(z)
        BY <3>9 DEF CurrentTask, LevelQueue
      <4> QED
        BY <3>2, <4>1, QueuedFields, CpuFacts
    <3> QED
      BY <3>2, <3>7, <3>10, <3>11, <3>12, <3>13
  <2> QED
    BY <2>1, <2>2
<1>3. QueuePart'
  <2>1. Pushing' = Pushing
    BY <1>1 DEF Pushing
  <2> QED
    BY <1>1, <1>2, <2>1 DEF Sound, QueuePart
<1>4. TypePart' /\ MessagePart'
  <2>1. msgs' \in [TaskId -> Nat]
    BY <1>1, Ids DEF Sound, TypePart
  <2>2. \A t \in TaskId : msgs'[t] > 0 => t \in {Main, Terminal}
    BY <1>1, Ids DEF Sound, TypePart, MessagePart
  <2> QED
    BY <1>1, <1>2, <2>1, <2>2 DEF Sound, TypePart, MessagePart
<1>5. LevelPart' /\ PlacePart' /\ TargetPart'
  BY <1>1, <1>2 DEF Sound, LevelPart, PlacePart, TargetPart
<1>6. WakePart'
  <2>1. \A t \in TaskId : t # Main => msgs'[t] = msgs[t]
    BY <1>1 DEF Sound, TypePart
  <2> QED
    BY <1>1, <1>2, <2>1 DEF Sound, WakePart
<1> QED
  BY <1>3, <1>4, <1>5, <1>6 DEF Sound

-----------------------------------------------------------------------------
(* NewTask, Wakeup and SendMessage with interrupts on. *)

\* Where the running task is, and that it is not the idle task.
LEMMA AtFacts ==
    ASSUME Sound, NEW loc, At(loc)
    PROVE  /\ pc[cpu] = loc /\ cpu # Idle /\ cpu \in TaskId
           /\ pc \in [TaskId -> Place] /\ target \in [TaskId -> {NoTask} \cup 3..MaxTasks]
           /\ msgs \in [TaskId -> Nat]
  BY DEF At, Sound, TypePart

LEMMA NewTaskBeginStep ==
    ASSUME Sound, NewTaskBegin
    PROVE  Sound'
<1>1. /\ At("spawn") /\ latest_id < MaxTasks /\ latest_id' = latest_id + 1
      /\ target' = [target EXCEPT ![cpu] = latest_id + 1]
      /\ pc' = [pc EXCEPT ![cpu] = "new"]
      /\ UNCHANGED <<sched, cpu, msgs, finished, keys>>
  BY DEF NewTaskBegin, Go
<1>2. /\ pc[cpu] = "spawn" /\ cpu # Idle /\ cpu \in TaskId
      /\ pc \in [TaskId -> Place] /\ target \in [TaskId -> {NoTask} \cup 3..MaxTasks]
  BY <1>1, AtFacts
<1>3. latest_id + 1 \in 3..MaxTasks /\ latest_id' \in 2..MaxTasks
  BY <1>1, TaskAssumption DEF Sound, TypePart
<1>4. TypePart'
  <2>1. target' \in [TaskId -> {NoTask} \cup 3..MaxTasks] /\ pc' \in [TaskId -> Place]
    BY <1>1, <1>2, <1>3 DEF Place
  <2> QED
    BY <1>1, <1>3, <2>1 DEF Sound, TypePart
<1>5. QueuePart'
  <2>1. SchedInv(sched') /\ \A t \in TaskId : pc'[t] # "push"
    BY <1>1, <1>2, QuietQueues
  <2>2. cpu' # Main => pc'[Main] = "loop"
    BY <1>1, <1>2, Ids DEF Sound, QueuePart
  <2> QED
    BY <1>1, <2>1, <2>2, QuietStep, CpuFacts
<1>6. PlacePart'
  BY <1>1, <1>2, Ids DEF Sound, PlacePart
<1>7. TargetPart'
  <2>1. latest_id + 1 # NoTask
    BY <1>3, Ids
  <2> QED
    BY <1>1, <1>2, <2>1, Ids DEF Sound, TargetPart
<1>8. LevelPart' /\ MessagePart'
  BY <1>1 DEF Sound, LevelPart, MessagePart
<1>9. WakePart'
  <2> SUFFICES ASSUME NEW t \in TaskId, msgs[t] > 0, pc'[t] # "waits", t \notin sched.awake
               PROVE  \E u \in TaskId : pc'[u] = "wake" /\ target'[u] = t
    BY <1>1 DEF WakePart
  <2>1. t # cpu
    BY CpuFacts
  <2>2. PICK u \in TaskId : pc[u] = "wake" /\ target[u] = t
    BY <1>1, <1>2, <2>1 DEF Sound, WakePart
  <2> QED
    BY <1>1, <1>2, <2>2
<1> QED
  BY <1>4, <1>5, <1>6, <1>7, <1>8, <1>9 DEF Sound

LEMMA NewTaskEndStep ==
    ASSUME Sound, NewTaskEnd
    PROVE  Sound'
<1>1. /\ At("new") /\ pc' = [pc EXCEPT ![cpu] = "wake"]
      /\ UNCHANGED <<sched, cpu, latest_id, target, msgs, finished, keys>>
  BY DEF NewTaskEnd, Go
<1>2. /\ pc[cpu] = "new" /\ cpu # Idle /\ cpu \in TaskId /\ pc \in [TaskId -> Place]
  BY <1>1, AtFacts
<1>3. TypePart'
  <2>1. pc' \in [TaskId -> Place]
    BY <1>1, <1>2 DEF Place
  <2> QED
    BY <1>1, <2>1 DEF Sound, TypePart
<1>4. QueuePart'
  <2>1. SchedInv(sched') /\ \A t \in TaskId : pc'[t] # "push"
    BY <1>1, <1>2, QuietQueues
  <2>2. cpu' # Main => pc'[Main] = "loop"
    BY <1>1, <1>2, Ids DEF Sound, QueuePart
  <2> QED
    BY <1>1, <2>1, <2>2, QuietStep, CpuFacts
<1>5. PlacePart' /\ TargetPart'
  BY <1>1, <1>2, Ids DEF Sound, PlacePart, TargetPart
<1>6. LevelPart' /\ MessagePart'
  BY <1>1 DEF Sound, LevelPart, MessagePart
<1>7. WakePart'
  <2> SUFFICES ASSUME NEW t \in TaskId, msgs[t] > 0, pc'[t] # "waits", t \notin sched.awake
               PROVE  \E u \in TaskId : pc'[u] = "wake" /\ target'[u] = t
    BY <1>1 DEF WakePart
  <2>1. t # cpu
    BY CpuFacts
  <2>2. PICK u \in TaskId : pc[u] = "wake" /\ target[u] = t
    BY <1>1, <1>2, <2>1 DEF Sound, WakePart
  <2> QED
    BY <1>1, <1>2, <2>2
<1> QED
  BY <1>3, <1>4, <1>5, <1>6, <1>7 DEF Sound

\* The main loop is about to wake the task it has sent to.
LEMMA SendMessageStep ==
    ASSUME Sound, SendMessage
    PROVE  Sound'
<1>1. /\ At("send") /\ pc' = [pc EXCEPT ![cpu] = "wake"]
      /\ msgs' = [msgs EXCEPT ![Terminal] = @ + 1]
      /\ UNCHANGED <<sched, cpu, latest_id, target, finished, keys>>
  BY DEF SendMessage, Go
<1>2. /\ pc[cpu] = "send" /\ cpu = Main /\ cpu \in TaskId /\ pc \in [TaskId -> Place]
      /\ msgs \in [TaskId -> Nat] /\ target[Main] = Terminal
  <2>1. pc[cpu] = "send" /\ cpu \in TaskId /\ pc \in [TaskId -> Place] /\ msgs \in [TaskId -> Nat]
    BY <1>1, AtFacts
  <2> QED
    BY <2>1 DEF Sound, PlacePart, TargetPart
<1>3. TypePart'
  <2>1. pc' \in [TaskId -> Place] /\ msgs' \in [TaskId -> Nat]
    BY <1>1, <1>2, Ids DEF Place
  <2> QED
    BY <1>1, <2>1 DEF Sound, TypePart
<1>4. QueuePart'
  <2>1. SchedInv(sched') /\ \A t \in TaskId : pc'[t] # "push"
    BY <1>1, <1>2, QuietQueues
  <2> QED
    BY <1>1, <1>2, <2>1, QuietStep, CpuFacts
<1>5. PlacePart' /\ TargetPart'
  BY <1>1, <1>2, Ids DEF Sound, PlacePart, TargetPart
<1>6. LevelPart' /\ MessagePart'
  BY <1>1, <1>2 DEF Sound, LevelPart, MessagePart
<1>7. WakePart'
  <2> SUFFICES ASSUME NEW t \in TaskId, msgs'[t] > 0, pc'[t] # "waits", t \notin sched.awake
               PROVE  \E u \in TaskId : pc'[u] = "wake" /\ target'[u] = t
    BY <1>1 DEF WakePart
  <2>1. CASE t = Terminal
    BY <1>1, <1>2, <2>1
  <2>2. CASE t # Terminal
    <3>1. t # cpu /\ msgs[t] > 0
      BY <1>1, <1>2, <2>2, CpuFacts
    <3>2. PICK u \in TaskId : pc[u] = "wake" /\ target[u] = t
      BY <1>1, <1>2, <3>1 DEF Sound, WakePart
    <3> QED
      BY <1>1, <1>2, <3>2
  <2> QED
    BY <2>1, <2>2
<1> QED
  BY <1>3, <1>4, <1>5, <1>6, <1>7 DEF Sound

\* The task to be woken is marked as running and not yet queued.
LEMMA WakeupBeginStep ==
    ASSUME Sound, WakeupBegin
    PROVE  Sound'
<1> DEFINE t == target[cpu]
<1>1. /\ At("wake")
      /\ UNCHANGED <<cpu, latest_id, target, msgs, finished, keys>>
  BY DEF WakeupBegin
<1>2. /\ pc[cpu] = "wake" /\ cpu # Idle /\ cpu \in TaskId /\ pc \in [TaskId -> Place]
      /\ t \in 3..MaxTasks /\ t \in TaskId
  <2>1. pc[cpu] = "wake" /\ cpu # Idle /\ cpu \in TaskId /\ pc \in [TaskId -> Place]
        /\ target \in [TaskId -> {NoTask} \cup 3..MaxTasks]
    BY <1>1, AtFacts
  <2>2. t # NoTask
    BY <2>1 DEF Sound, TargetPart
  <2> QED
    BY <2>1, <2>2, Ids
<1>3. /\ \A u \in TaskId : pc[u] # "push"
      /\ SchedInv(sched) /\ sched \in SchedType
  BY <1>2, QuietQueues DEF SchedInv
<1>4. PICK loc \in {"loop", "run", "push"} :
          /\ pc' = [pc EXCEPT ![cpu] = loc]
          /\ loc = "loop" <=> (cpu = Main /\ t \in sched.awake)
          /\ loc = "push" <=> t \notin sched.awake
          /\ sched' = [sched EXCEPT !.awake = @ \cup {t}]
  <2>1. CASE t \in sched.awake
    <3>1. sched' = sched /\ pc' = [pc EXCEPT ![cpu] = AfterWakeup]
      BY <2>1 DEF WakeupBegin, Go
    <3>2. sched = [sched EXCEPT !.awake = @ \cup {t}]
      <4>1. sched.awake \cup {t} = sched.awake
        BY <2>1
      <4> QED
        BY <1>3, <4>1 DEF SchedType
    <3> QED
      BY <2>1, <3>1, <3>2 DEF AfterWakeup
  <2>2. CASE t \notin sched.awake
    <3>1. sched' = [sched EXCEPT !.awake = @ \cup {t}] /\ pc' = [pc EXCEPT ![cpu] = "push"]
      BY <2>2 DEF WakeupBegin, Go
    <3> QED
      BY <2>2, <3>1
  <2> QED
    BY <2>1, <2>2
<1>5. t = target'[cpu']
  BY <1>1
<1> HIDE DEF t
<1>6. /\ sched' \in SchedType /\ sched'.awake = sched.awake \cup {t}
      /\ sched'.level = sched.level /\ sched'.running = sched.running
      /\ sched'.current_level = sched.current_level
  BY <1>2, <1>3, <1>4 DEF SchedType
<1>7. TypePart'
  <2>1. pc' \in [TaskId -> Place]
    BY <1>2, <1>4 DEF Place
  <2> QED
    BY <1>1, <1>6, <2>1 DEF Sound, TypePart
<1>8. QueuePart'
  <2>1. CurrentTask(sched') = cpu
    BY <1>6, CpuFacts DEF CurrentTask, LevelQueue
  <2>2. cpu # Main => pc'[Main] = "loop"
    BY <1>2, <1>4, Ids DEF Sound, QueuePart
  <2>3. CASE t \in sched.awake
    <3>1. sched' = sched
      <4>1. sched.awake \cup {t} = sched.awake
        BY <2>3
      <4> QED
        BY <1>3, <1>4, <4>1 DEF SchedType
    <3>2. \A u \in TaskId : pc'[u] # "push"
      BY <1>2, <1>3, <1>4, <2>3
    <3> QED
      BY <1>1, <1>3, <2>1, <2>2, <3>1, <3>2, QuietStep
  <2>4. CASE t \notin sched.awake
    <3>1. \A u \in TaskId : pc'[u] = "push" <=> u = cpu
      BY <1>2, <1>3, <1>4, <2>4
    <3>2. Pushing' = {t}
      BY <1>1, <1>2, <1>5, <3>1 DEF Pushing
    <3>3. (sched.awake \cup {t}) \ {t} = sched.awake
      BY <2>4
    <3>4. Queued' = sched
      <4>1. Queued' = [sched' EXCEPT !.awake = sched.awake]
        BY <1>6, <3>2, <3>3 DEF Queued
      <4> QED
        BY <1>3, <1>4, <4>1 DEF SchedType
    <3> QED
      BY <1>1, <1>3, <1>6, <2>1, <2>2, <3>1, <3>2, <3>4 DEF QueuePart
  <2> QED
    BY <2>3, <2>4
<1>9. PlacePart' /\ TargetPart'
  <2>1. PlacePart'
    BY <1>2, <1>4, Ids DEF Sound, PlacePart
  <2>2. t # NoTask
    BY <1>2, Ids
  <2> QED
    BY <1>1, <1>2, <1>4, <1>5, <2>1, <2>2, Ids DEF Sound, TargetPart
<1>10. LevelPart' /\ MessagePart'
  BY <1>1, <1>6 DEF Sound, LevelPart, MessagePart
<1>11. WakePart'
  <2> SUFFICES ASSUME NEW v \in TaskId, msgs[v] > 0, pc'[v] # "waits", v \notin sched'.awake
               PROVE  \E u \in TaskId : pc'[u] = "wake" /\ target[u] = v
    BY <1>1 DEF WakePart
  <2>1. v # cpu /\ v # t /\ v \notin sched.awake
    BY <1>6, CpuFacts
  <2>2. PICK u \in TaskId : pc[u] = "wake" /\ target[u] = v
    BY <1>2, <1>4, <2>1 DEF Sound, WakePart
  <2>3. u # cpu
    BY <2>1, <2>2 DEF t
  <2> QED
    BY <1>2, <1>4, <2>2, <2>3
<1> QED
  BY <1>7, <1>8, <1>9, <1>10, <1>11 DEF Sound

\* push_back: the task joins the queue of its level, which is not above the current one.
LEMMA WakeupPushStep ==
    ASSUME Sound, WakeupPush
    PROVE  Sound'
<1> DEFINE t == target[cpu]
           lv == sched.level[t]
<1>1. /\ At("push") /\ pc' = [pc EXCEPT ![cpu] = "level"]
      /\ sched' = [sched EXCEPT !.running[lv] = Append(@, t)]
      /\ UNCHANGED <<cpu, latest_id, target, msgs, finished, keys>>
  BY DEF WakeupPush, Go
<1>2. /\ pc[cpu] = "push" /\ cpu # Idle /\ cpu \in TaskId /\ pc \in [TaskId -> Place]
      /\ t \in 3..MaxTasks /\ t \in TaskId /\ t # NoTask
  <2>1. pc[cpu] = "push" /\ cpu # Idle /\ cpu \in TaskId /\ pc \in [TaskId -> Place]
        /\ target \in [TaskId -> {NoTask} \cup 3..MaxTasks]
    BY <1>1, AtFacts
  <2>2. t # NoTask
    BY <2>1 DEF Sound, TargetPart
  <2> QED
    BY <2>1, <2>2, Ids
<1>3. lv \in Level /\ ~(lv > sched.current_level)
  <2>1. lv \in Level /\ ~(sched.level[t] > sched.level[cpu])
    BY <1>2, Levels
  <2> QED
    BY <2>1, CpuFacts
<1>4. Pushing = {t}
  BY <1>2 DEF Pushing, Sound, QueuePart
<1>5. /\ sched \in SchedType /\ SchedInv(Queued)
      /\ t \in sched.awake /\ t \notin Queued.awake
  <2>1. sched \in SchedType /\ SchedInv(Queued) /\ Pushing \subseteq sched.awake
    BY DEF Sound, TypePart, QueuePart
  <2> QED
    BY <1>4, <2>1, QueuedFields
<1> HIDE DEF t
<1> DEFINE w == Wakeup(Queued, t, -1)
<1>6. SchedInv(w) /\ CurrentTask(w) = CurrentTask(Queued)
  <2>1. -1 \in -1..kMaxLevel
    BY LevelAssumption
  <2> QED
    BY <1>2, <1>5, <2>1, WakeupInv
<1>7. w = [Queued EXCEPT !.level[t] = lv,
                         !.awake = @ \cup {t},
                         !.running[lv] = Append(@, t),
                         !.level_changed = @ \/ lv > Queued.current_level]
  <2>1. Queued.level[t] = lv /\ -1 < 0
    BY QueuedFields
  <2> QED
    BY <1>5, <2>1 DEF Wakeup
<1> HIDE DEF lv
<1>8. /\ w.running = [sched.running EXCEPT ![lv] = Append(@, t)]
      /\ w.current_level = sched.current_level
      /\ w.level_changed = (sched.level_changed \/ lv > sched.current_level)
      /\ w.level = [sched.level EXCEPT ![t] = lv]
      /\ w.awake = (sched.awake \ {t}) \cup {t}
  <2>1. /\ Queued \in SchedType /\ Queued.running = sched.running
        /\ Queued.level = sched.level /\ Queued.current_level = sched.current_level
        /\ Queued.level_changed = sched.level_changed /\ Queued.awake = sched.awake \ {t}
    BY <1>4, QueuedFields
  <2>2. /\ w.running = [Queued.running EXCEPT ![lv] = Append(@, t)]
        /\ w.current_level = Queued.current_level
        /\ w.level_changed = (Queued.level_changed \/ lv > Queued.current_level)
        /\ w.level = [Queued.level EXCEPT ![t] = lv]
        /\ w.awake = Queued.awake \cup {t}
    <3> HIDE DEF w
    <3> QED
      BY ONLY <1>7, <2>1 DEF SchedType
  <2> HIDE DEF w
  <2> QED
    BY ONLY <2>1, <2>2
<1> HIDE DEF w
<1>9. /\ sched'.running = [sched.running EXCEPT ![lv] = Append(@, t)]
      /\ sched'.current_level = sched.current_level
      /\ sched'.level_changed = sched.level_changed
      /\ sched'.level = sched.level /\ sched'.awake = sched.awake
      /\ sched' = [running |-> sched'.running, current_level |-> sched'.current_level,
                   level_changed |-> sched'.level_changed, level |-> sched'.level,
                   awake |-> sched'.awake]
  BY <1>1, <1>5 DEF SchedType
<1>10. sched' = w
  <2>1. w \in SchedType
    BY <1>6 DEF SchedInv
  <2>2. w.level = sched.level
    BY <1>2, <1>5, <1>8 DEF SchedType, lv
  <2>3. w.level_changed = sched.level_changed
    BY <1>3, <1>5, <1>8 DEF SchedType
  <2>4. w.awake = sched.awake
    BY <1>5, <1>8
  <2>5. w = [running |-> w.running, current_level |-> w.current_level,
             level_changed |-> w.level_changed, level |-> w.level, awake |-> w.awake]
    BY <2>1 DEF SchedType
  <2> QED
    BY <1>8, <1>9, <2>2, <2>3, <2>4, <2>5
<1>11. QueuePart'
  <2>1. \A u \in TaskId : pc'[u] # "push"
    BY <1>1, <1>2 DEF Sound, QueuePart
  <2>2. cpu # Main => pc'[Main] = "loop"
    BY <1>1, <1>2, Ids DEF Sound, QueuePart
  <2> QED
    BY <1>1, <1>6, <1>10, <2>1, <2>2, QueuedFields, CpuFacts, QuietStep
<1>12. TypePart'
  <2>1. pc' \in [TaskId -> Place] /\ sched' \in SchedType
    BY <1>1, <1>2, <1>6, <1>10 DEF Place, SchedInv
  <2> QED
    BY <1>1, <2>1 DEF Sound, TypePart
<1>13. PlacePart' /\ TargetPart'
  BY <1>1, <1>2, Ids DEF Sound, PlacePart, TargetPart
<1>14. LevelPart' /\ MessagePart'
  BY <1>1, <1>9 DEF Sound, LevelPart, MessagePart
<1>15. WakePart'
  <2> SUFFICES ASSUME NEW v \in TaskId, msgs[v] > 0, pc'[v] # "waits", v \notin sched.awake
               PROVE  \E u \in TaskId : pc'[u] = "wake" /\ target[u] = v
    BY <1>1, <1>9 DEF WakePart
  <2>1. v # cpu
    BY CpuFacts
  <2>2. PICK u \in TaskId : pc[u] = "wake" /\ target[u] = v
    BY <1>1, <1>2, <2>1 DEF Sound, WakePart
  <2> QED
    BY <1>1, <1>2, <2>2
<1> QED
  BY <1>11, <1>12, <1>13, <1>14, <1>15 DEF Sound

\* What is left to prove of a step that changes no more of the scheduler than the place of
\* the task that runs.
LEMMA MoveStep ==
    ASSUME Sound, pc[cpu] \notin {"push", "wake"},
           NEW loc \in Place, loc # "push",
           pc' = [pc EXCEPT ![cpu] = loc],
           cpu = Main => loc \in {"spawn", "new", "wake", "level", "loop", "send"},
           cpu = Terminal => loc \notin {"finish", "done"},
           cpu # Idle,
           loc = "send" => cpu = Main /\ target'[Main] = Terminal,
           loc = "loop" => cpu \in {Main, Terminal},
           loc \in {"new", "wake", "level"} => target[cpu] # NoTask,
           \A t \in TaskId : t # cpu => target'[t] = target[t],
           target' \in [TaskId -> {NoTask} \cup 3..MaxTasks],
           loc # "send" => target' = target,
           msgs' \in [TaskId -> Nat], \A t \in TaskId : msgs'[t] <= msgs[t],
           finished' \subseteq TaskId,
           sched' = sched, cpu' = cpu, latest_id' = latest_id, keys' = keys
    PROVE  Sound'
<1>1. cpu \in TaskId /\ cpu \in sched.awake /\ pc \in [TaskId -> Place]
      /\ msgs \in [TaskId -> Nat]
  BY CpuFacts DEF Sound, TypePart
<1>2. \A t \in TaskId : pc'[t] = IF t = cpu THEN loc ELSE pc[t]
  BY <1>1
<1>3. QueuePart'
  <2>1. SchedInv(sched') /\ \A t \in TaskId : pc'[t] # "push"
    BY <1>2, QuietQueues
  <2>2. cpu' # Main => pc'[Main] = "loop"
    BY <1>2, Ids DEF Sound, QueuePart
  <2> QED
    BY <2>1, <2>2, CpuFacts, QuietStep
<1>4. TypePart'
  <2>1. pc' \in [TaskId -> Place]
    BY <1>1
  <2> QED
    BY <2>1 DEF Sound, TypePart
<1>5. PlacePart'
  BY <1>2, Ids DEF Sound, PlacePart
<1>6. TargetPart'
  <2>1. ASSUME NEW t \in TaskId, pc'[t] \in {"new", "wake", "push", "level", "send"}
        PROVE  target'[t] # NoTask
    <3>1. CASE t # cpu
      BY <1>2, <2>1, <3>1 DEF Sound, TargetPart
    <3>2. CASE t = cpu /\ loc = "send"
      BY <1>2, <3>2, Ids
    <3>3. CASE t = cpu /\ loc # "send"
      BY <1>2, <2>1, <3>3
    <3> QED
      BY <3>1, <3>2, <3>3
  <2>2. ASSUME pc'[Main] = "send" PROVE target'[Main] = Terminal
    BY <1>2, <2>2, Ids DEF Sound, TargetPart
  <2> QED
    BY <2>1, <2>2 DEF TargetPart
<1>7. LevelPart' /\ MessagePart'
  <2>1. \A t \in TaskId : msgs'[t] > 0 => msgs[t] > 0
    BY <1>1
  <2> QED
    BY <2>1 DEF Sound, LevelPart, MessagePart
<1>8. WakePart'
  <2> SUFFICES ASSUME NEW v \in TaskId, msgs'[v] > 0, pc'[v] # "waits", v \notin sched.awake
               PROVE  \E u \in TaskId : pc'[u] = "wake" /\ target'[u] = v
    BY DEF WakePart
  <2>1. v # cpu /\ msgs[v] > 0
    BY <1>1
  <2>2. PICK u \in TaskId : pc[u] = "wake" /\ target[u] = v
    BY <1>2, <2>1 DEF Sound, WakePart
  <2> QED
    BY <1>2, <2>2
<1> QED
  BY <1>3, <1>4, <1>5, <1>6, <1>7, <1>8 DEF Sound

\* The end of Wakeup asks for no rescan: the task is not above the one that woke it.
LEMMA WakeupEndStep ==
    ASSUME Sound, WakeupEnd
    PROVE  Sound'
<1>1. /\ At("level") /\ pc' = [pc EXCEPT ![cpu] = AfterWakeup]
      /\ sched' = [sched EXCEPT !.level_changed =
                       @ \/ sched.level[target[cpu]] > sched.current_level]
      /\ UNCHANGED <<cpu, latest_id, target, msgs, finished, keys>>
  BY DEF WakeupEnd, Go
<1>2. /\ pc[cpu] = "level" /\ cpu # Idle /\ cpu \in TaskId
      /\ target \in [TaskId -> {NoTask} \cup 3..MaxTasks] /\ msgs \in [TaskId -> Nat]
  BY <1>1, AtFacts
<1>3. target[cpu] \in 3..MaxTasks
  BY <1>2 DEF Sound, TargetPart
<1>4. ~(sched.level[target[cpu]] > sched.current_level)
  BY <1>2, <1>3, Levels, CpuFacts
<1>5. sched' = sched
  <2>1. sched \in SchedType
    BY DEF Sound, TypePart
  <2> QED
    BY <1>1, <1>4, <2>1 DEF SchedType
<1>6. finished' \subseteq TaskId /\ \A t \in TaskId : msgs'[t] <= msgs[t]
  BY <1>1, <1>2 DEF Sound, TypePart
<1>7. PICK loc \in {"loop", "run"} :
          /\ pc' = [pc EXCEPT ![cpu] = loc]
          /\ loc = "loop" <=> cpu = Main
  BY <1>1 DEF AfterWakeup
<1>8. loc \in Place
  BY DEF Place
<1> QED
  BY <1>1, <1>2, <1>5, <1>6, <1>7, <1>8, MoveStep

-----------------------------------------------------------------------------
(* The rest, with interrupts off. *)

LEMMA ReceiveMessageStep ==
    ASSUME Sound, ReceiveMessage
    PROVE  Sound'
<1>1. /\ At("loop") /\ msgs[cpu] > 0 /\ msgs' = [msgs EXCEPT ![cpu] = @ - 1]
      /\ UNCHANGED <<sched, cpu, latest_id, finished, keys>>
  BY DEF ReceiveMessage
<1>2. /\ pc[cpu] = "loop" /\ cpu # Idle /\ cpu \in TaskId /\ pc \in [TaskId -> Place]
      /\ target \in [TaskId -> {NoTask} \cup 3..MaxTasks] /\ msgs \in [TaskId -> Nat]
      /\ cpu \in {Main, Terminal} /\ finished \subseteq TaskId
  <2>1. /\ pc[cpu] = "loop" /\ cpu # Idle /\ cpu \in TaskId /\ pc \in [TaskId -> Place]
        /\ target \in [TaskId -> {NoTask} \cup 3..MaxTasks] /\ msgs \in [TaskId -> Nat]
    BY <1>1, AtFacts
  <2> QED
    BY <2>1 DEF Sound, PlacePart, TypePart
<1>3. msgs' \in [TaskId -> Nat] /\ \A t \in TaskId : msgs'[t] <= msgs[t]
  BY <1>1, <1>2
<1>4. CASE cpu = Main
  <2>1. pc' = [pc EXCEPT ![cpu] = "send"] /\ target' = [target EXCEPT ![Main] = Terminal]
        /\ "send" \in Place
    BY <1>4 DEF ReceiveMessage, Go, Place
  <2>2. /\ target'[Main] = Terminal /\ \A t \in TaskId : t # cpu => target'[t] = target[t]
        /\ target' \in [TaskId -> {NoTask} \cup 3..MaxTasks]
    BY <1>2, <1>4, <2>1, Ids
  <2> QED
    BY <1>1, <1>2, <1>3, <1>4, <2>1, <2>2, Ids, MoveStep
<1>5. CASE cpu # Main
  <2>1. pc' \in {[pc EXCEPT ![cpu] = "spawn"], pc} /\ target' = target
        /\ {"spawn", "loop"} \subseteq Place
    BY <1>5 DEF ReceiveMessage, Place
  <2>2. pc = [pc EXCEPT ![cpu] = "loop"]
    BY <1>2
  <2>3. CASE pc' = [pc EXCEPT ![cpu] = "spawn"]
    BY <1>1, <1>2, <1>3, <1>5, <2>1, <2>3, MoveStep
  <2>4. CASE pc' = [pc EXCEPT ![cpu] = "loop"]
    BY <1>1, <1>2, <1>3, <1>5, <2>1, <2>4, MoveStep
  <2> QED
    BY <2>1, <2>2, <2>3, <2>4
<1> QED
  BY <1>4, <1>5

LEMMA TaskTerminalStep ==
    ASSUME Sound, TaskTerminal
    PROVE  Sound'
<1>1. At("start") /\ UNCHANGED <<sched, cpu, latest_id, target, msgs, finished, keys>>
  BY DEF TaskTerminal
<1>2. /\ pc[cpu] = "start" /\ cpu # Idle /\ cpu \in TaskId /\ pc \in [TaskId -> Place]
      /\ target \in [TaskId -> {NoTask} \cup 3..MaxTasks] /\ msgs \in [TaskId -> Nat]
      /\ cpu # Main /\ finished \subseteq TaskId
  <2>1. /\ pc[cpu] = "start" /\ cpu # Idle /\ cpu \in TaskId /\ pc \in [TaskId -> Place]
        /\ target \in [TaskId -> {NoTask} \cup 3..MaxTasks] /\ msgs \in [TaskId -> Nat]
    BY <1>1, AtFacts
  <2> QED
    BY <2>1 DEF Sound, PlacePart, TypePart
<1>3. \A t \in TaskId : msgs'[t] <= msgs[t]
  BY <1>1, <1>2
<1>4. PICK loc \in {"loop", "spawn", "finish"} :
          /\ pc' = [pc EXCEPT ![cpu] = loc]
          /\ loc = "loop" => cpu = Terminal
          /\ cpu = Terminal => loc = "loop"
  BY DEF TaskTerminal, Go
<1>5. loc \in Place
  BY DEF Place
<1> QED
  BY <1>1, <1>2, <1>3, <1>4, <1>5, MoveStep

\* The processor leaves a task that sleeps with nothing to receive or in WaitFinish.
LEMMA SleepStep ==
    ASSUME Sound, pc[cpu] \notin {"push", "wake"}, cpu # Idle,
           NEW loc \in Place,
           pc' = [pc EXCEPT ![cpu] = loc],
           \/ loc = "waits" /\ cpu # Main
           \/ loc = "loop" /\ pc[cpu] = "loop" /\ msgs[cpu] = 0,
           sched' = Sleep(sched, cpu), cpu' = CurrentTask(sched'),
           UNCHANGED <<latest_id, target, msgs, finished, keys>>
    PROVE  Sound'
<1>1. /\ cpu \in TaskId /\ cpu \in sched.awake /\ pc \in [TaskId -> Place]
      /\ cpu = CurrentTask(sched) /\ msgs \in [TaskId -> Nat]
  BY CpuFacts DEF Sound, TypePart
<1>2. \A t \in TaskId : pc'[t] = IF t = cpu THEN loc ELSE pc[t]
  BY <1>1
<1>3. SchedInv(sched) /\ \A t \in TaskId : pc[t] # "push"
  BY QuietQueues
<1>4. /\ SchedInv(sched') /\ sched'.awake = sched.awake \ {cpu}
      /\ sched'.level = sched.level
  BY <1>1, <1>3, SleepCurrentInv
<1>5. QueuePart'
  <2>1. \A t \in TaskId : pc'[t] # "push"
    BY <1>2, <1>3
  <2>2. cpu' # Main => pc'[Main] = "loop"
    BY <1>2, Ids DEF Sound, QueuePart
  <2> QED
    BY <1>4, <2>1, <2>2, QuietStep
<1>6. TypePart'
  <2>1. pc' \in [TaskId -> Place] /\ sched' \in SchedType /\ cpu' \in TaskId
    BY <1>1, <1>4, CurrentTaskQueued DEF SchedInv
  <2> QED
    BY <2>1 DEF Sound, TypePart
<1>7. PlacePart'
  BY <1>2, Ids DEF Sound, PlacePart
<1>8. TargetPart' /\ LevelPart' /\ MessagePart'
  BY <1>2, <1>4, Ids DEF Sound, TargetPart, LevelPart, MessagePart
<1>9. WakePart'
  <2> SUFFICES ASSUME NEW v \in TaskId, msgs[v] > 0, pc'[v] # "waits", v \notin sched'.awake
               PROVE  \E u \in TaskId : pc'[u] = "wake" /\ target[u] = v
    BY DEF WakePart
  <2>1. v # cpu
    BY <1>1, <1>2
  <2>2. PICK u \in TaskId : pc[u] = "wake" /\ target[u] = v
    BY <1>2, <1>4, <2>1 DEF Sound, WakePart
  <2> QED
    BY <1>2, <2>2
<1> QED
  BY <1>5, <1>6, <1>7, <1>8, <1>9 DEF Sound

LEMMA ReceiveOrSleepStep ==
    ASSUME Sound, ReceiveOrSleep
    PROVE  Sound'
<1>1. /\ At("loop") /\ msgs[cpu] = 0 /\ sched' = Sleep(sched, cpu) /\ cpu' = CurrentTask(sched')
      /\ UNCHANGED <<latest_id, pc, target, msgs, finished, keys>>
  BY DEF ReceiveOrSleep
<1>2. pc[cpu] = "loop" /\ cpu # Idle /\ cpu \in TaskId /\ pc \in [TaskId -> Place]
  BY <1>1, AtFacts
<1>3. pc' = [pc EXCEPT ![cpu] = "loop"] /\ "loop" \in Place
  BY <1>1, <1>2 DEF Place
<1> QED
  BY <1>1, <1>2, <1>3, SleepStep

LEMMA WaitFinishStep ==
    ASSUME Sound, WaitFinish
    PROVE  Sound'
<1>1. UNCHANGED <<latest_id, target, msgs, keys>> /\ (At("run") \/ At("waits"))
  BY DEF WaitFinish
<1>2. /\ pc[cpu] \in {"run", "waits"} /\ cpu # Idle /\ cpu \in TaskId
      /\ target \in [TaskId -> {NoTask} \cup 3..MaxTasks] /\ msgs \in [TaskId -> Nat]
      /\ cpu # Main /\ finished \subseteq TaskId
  <2>1. /\ pc[cpu] \in {"run", "waits"} /\ cpu # Idle /\ cpu \in TaskId
        /\ target \in [TaskId -> {NoTask} \cup 3..MaxTasks] /\ msgs \in [TaskId -> Nat]
    BY <1>1, AtFacts
  <2> QED
    BY <2>1 DEF Sound, PlacePart, TypePart
<1>3. CASE target[cpu] \in finished
  <2>1. finished' = finished \ {target[cpu]} /\ sched' = sched /\ cpu' = cpu
    BY <1>3 DEF WaitFinish
  <2>2. PICK loc \in {"loop", "finish"} :
            /\ pc' = [pc EXCEPT ![cpu] = loc]
            /\ loc = "loop" => cpu = Terminal
            /\ cpu = Terminal => loc = "loop"
    BY <1>3 DEF WaitFinish, Go
  <2>3. loc \in Place /\ \A t \in TaskId : msgs'[t] <= msgs[t]
    BY <1>1, <1>2 DEF Place
  <2>4. finished' \subseteq TaskId
    BY <1>2, <2>1
  <2> QED
    BY <1>1, <1>2, <2>1, <2>2, <2>3, <2>4, MoveStep
<1>4. CASE target[cpu] \notin finished
  <2>1. /\ sched' = Sleep(sched, cpu) /\ cpu' = CurrentTask(sched') /\ finished' = finished
        /\ pc' = [pc EXCEPT ![cpu] = "waits"]
    BY <1>4 DEF WaitFinish, Go
  <2>2. "waits" \in Place
    BY DEF Place
  <2> QED
    <3>1. pc[cpu] \notin {"push", "wake"}
      BY <1>2
    <3> QED
      BY <1>1, <1>2, <2>1, <2>2, <3>1, SleepStep
<1> QED
  BY <1>3, <1>4

\* Finish takes the running task out of its queue and wakes the one that waits for it.
LEMMA FinishStep ==
    ASSUME Sound, Finish
    PROVE  Sound'
<1> DEFINE gone == [RotateCurrentRunQueue(sched, TRUE) EXCEPT !.awake = @ \ {cpu}]
           waiter == {t \in TaskId : pc[t] = "waits" /\ target[t] = cpu}
<1>1. /\ At("finish") /\ finished' = finished \cup {cpu}
      /\ sched' = IF waiter = {} THEN gone
                  ELSE Wakeup(gone, CHOOSE t \in waiter : TRUE, -1)
      /\ cpu' = CurrentTask(sched') /\ pc' = [pc EXCEPT ![cpu] = "done"]
      /\ UNCHANGED <<latest_id, target, msgs, keys>>
  BY DEF Finish, Go
<1>2. /\ pc[cpu] = "finish" /\ cpu # Idle /\ cpu \in TaskId /\ pc \in [TaskId -> Place]
      /\ cpu # Main /\ cpu # Terminal /\ finished \subseteq TaskId
      /\ cpu = CurrentTask(sched) /\ msgs \in [TaskId -> Nat]
  <2>1. pc[cpu] = "finish" /\ cpu # Idle /\ cpu \in TaskId /\ pc \in [TaskId -> Place]
        /\ msgs \in [TaskId -> Nat]
    BY <1>1, AtFacts
  <2> QED
    BY <2>1, CpuFacts DEF Sound, PlacePart, TypePart
<1>3. SchedInv(sched) /\ \A t \in TaskId : pc[t] # "push"
  BY <1>2, QuietQueues
<1>4. SchedInv(gone) /\ gone.level = sched.level /\ gone.awake = sched.awake \ {cpu}
  BY <1>2, <1>3, RotateInv
<1> HIDE DEF gone
<1>5. /\ SchedInv(sched') /\ sched'.level = sched.level
      /\ \E W \in SUBSET TaskId : sched'.awake = (sched.awake \ {cpu}) \cup W
  <2>1. CASE waiter = {}
    BY <1>1, <1>4, <2>1
  <2>2. CASE waiter # {}
    <3> DEFINE w == CHOOSE t \in waiter : TRUE
    <3>1. w \in waiter /\ w \in TaskId
      BY <2>2
    <3>2. sched' = Wakeup(gone, w, -1)
      BY <1>1, <2>2
    <3> HIDE DEF w
    <3>3. -1 \in -1..kMaxLevel /\ -1 < 0
      BY LevelAssumption
    <3>4. SchedInv(sched') /\ sched'.awake = gone.awake \cup {w}
      BY <1>4, <3>1, <3>2, <3>3, WakeupInv
    <3>5. sched'.level = gone.level
      <4>1. gone \in SchedType
        BY <1>4 DEF SchedInv
      <4>2. CASE w \in gone.awake
        BY <3>2, <3>3, <4>2 DEF Wakeup, ChangeLevelRunning
      <4>3. CASE w \notin gone.awake
        <5>1. sched'.level = [gone.level EXCEPT ![w] = gone.level[w]]
          BY <3>2, <3>3, <4>1, <4>3 DEF Wakeup, SchedType
        <5> QED
          BY <3>1, <4>1, <5>1 DEF SchedType
      <4> QED
        BY <4>2, <4>3
    <3> QED
      BY <1>4, <3>1, <3>4, <3>5
  <2> QED
    BY <2>1, <2>2
<1>6. \A t \in TaskId : pc'[t] = IF t = cpu THEN "done" ELSE pc[t]
  BY <1>1, <1>2
<1>7. QueuePart'
  <2>1. \A t \in TaskId : pc'[t] # "push"
    BY <1>3, <1>6
  <2>2. cpu' # Main => pc'[Main] = "loop"
    BY <1>2, <1>6, Ids DEF Sound, QueuePart
  <2> QED
    BY <1>1, <1>5, <2>1, <2>2, QuietStep
<1>8. TypePart'
  <2>1. pc' \in [TaskId -> Place] /\ sched' \in SchedType /\ cpu' \in TaskId
        /\ finished' \subseteq TaskId
    BY <1>1, <1>2, <1>5, CurrentTaskQueued DEF SchedInv, Place
  <2> QED
    BY <1>1, <2>1 DEF Sound, TypePart
<1>9. PlacePart'
  BY <1>2, <1>6, Ids DEF Sound, PlacePart
<1>10. TargetPart' /\ LevelPart' /\ MessagePart'
  BY <1>1, <1>5, <1>6, Ids DEF Sound, TargetPart, LevelPart, MessagePart
<1>11. WakePart'
  <2> SUFFICES ASSUME NEW v \in TaskId, msgs[v] > 0, pc'[v] # "waits", v \notin sched'.awake
               PROVE  \E u \in TaskId : pc'[u] = "wake" /\ target[u] = v
    BY <1>1 DEF WakePart
  <2>1. v # cpu
    BY <1>2 DEF Sound, MessagePart
  <2>2. PICK u \in TaskId : pc[u] = "wake" /\ target[u] = v
    BY <1>5, <1>6, <2>1 DEF Sound, WakePart
  <2> QED
    BY <1>2, <1>6, <2>2
<1> QED
  BY <1>7, <1>8, <1>9, <1>10, <1>11 DEF Sound

-----------------------------------------------------------------------------

LEMMA NextIInv == IInv /\ [Next]_vars => IInv'
<1> SUFFICES ASSUME IInv, [Next]_vars PROVE IInv'
  OBVIOUS
<1>1. CASE UNCHANGED vars
  <2>1. UNCHANGED <<sched, cpu, latest_id, pc, target, msgs, finished, keys, broken>>
    BY <1>1 DEF vars
  <2>2. Pushing' = Pushing /\ Queued' = Queued
    BY <2>1 DEF Pushing, Queued
  <2> QED
    BY <2>1, <2>2 DEF IInv, BrokenPart, Sound, TypePart, LevelPart, PlacePart, TargetPart,
                      MessagePart, QueuePart, WakePart
\* Every action finds the containers whole.
<1>2. CASE Next
  <2>1. broken = {}
    BY <1>2 DEF Next, TimerInterrupt, KeyboardInterrupt, NewTaskBegin, NewTaskEnd, SendMessage,
                WakeupBegin, WakeupPush, WakeupEnd, ReceiveMessage, ReceiveOrSleep, TaskTerminal,
                WaitFinish, Finish, At, Interruptible
  <2>2. Sound /\ BrokenPart
    BY <2>1 DEF IInv
  <2>3. ASSUME broken' = broken PROVE BrokenPart'
    BY <2>2, <2>3 DEF BrokenPart
  <2>4. CASE TimerInterrupt
    BY <2>2, <2>4, TimerInterruptStep DEF IInv
  <2>5. CASE KeyboardInterrupt
    <3>1. Hit("tasks", InNew)
      BY <2>5 DEF KeyboardInterrupt
    <3> QED
      BY <2>2, <2>5, <3>1, KeyboardInterruptStep, TasksHit DEF IInv
  <2>6. CASE NewTaskBegin
    <3>1. Hit("tasks", InNew)
      BY <2>6 DEF NewTaskBegin
    <3> QED
      BY <2>2, <2>6, <3>1, NewTaskBeginStep, TasksHit DEF IInv
  <2>7. CASE SendMessage
    <3>1. Hit("tasks", InNew)
      BY <2>7 DEF SendMessage
    <3> QED
      BY <2>2, <2>7, <3>1, SendMessageStep, TasksHit DEF IInv
  <2>8. CASE Finish
    <3>1. Hit("tasks", InNew)
      BY <2>8 DEF Finish
    <3> QED
      BY <2>2, <2>8, <3>1, FinishStep, TasksHit DEF IInv
  <2>9. CASE NewTaskEnd
    BY <2>2, <2>3, <2>9, NewTaskEndStep DEF IInv, NewTaskEnd
  <2>10. CASE WakeupBegin
    <3>1. broken' = broken
      BY <2>10 DEF WakeupBegin
    <3> QED
      BY <2>2, <2>3, <2>10, <3>1, WakeupBeginStep DEF IInv
  <2>11. CASE WakeupPush
    <3>1. broken' = broken
      BY <2>11 DEF WakeupPush
    <3> QED
      BY <2>2, <2>3, <2>11, <3>1, WakeupPushStep DEF IInv
  <2>12. CASE WakeupEnd
    BY <2>2, <2>3, <2>12, WakeupEndStep DEF IInv, WakeupEnd
  <2>13. CASE ReceiveMessage
    BY <2>2, <2>3, <2>13, ReceiveMessageStep DEF IInv, ReceiveMessage
  <2>14. CASE ReceiveOrSleep
    BY <2>2, <2>3, <2>14, ReceiveOrSleepStep DEF IInv, ReceiveOrSleep
  <2>15. CASE TaskTerminal
    BY <2>2, <2>3, <2>15, TaskTerminalStep DEF IInv, TaskTerminal
  <2>16. CASE WaitFinish
    BY <2>2, <2>3, <2>16, WaitFinishStep DEF IInv, WaitFinish
  <2> QED
    BY <1>2, <2>4, <2>5, <2>6, <2>7, <2>8, <2>9, <2>10, <2>11, <2>12, <2>13, <2>14, <2>15, <2>16
       DEF Next
<1> QED
  BY <1>1, <1>2

\* What the invariant says of the queues and of the tasks being pushed.
LEMMA IInvImplies == IInv => OnlyStagesRace
<1> SUFFICES ASSUME IInv PROVE OnlyStagesRace
  OBVIOUS
<1>1. \A b \in broken : b[1] = "run queue" => b[2] # Main
  BY DEF IInv, BrokenPart
<1>2. ASSUME broken = {}
      PROVE  /\ \A lv \in Level :
                   /\ Elems(sched.running[lv]) = {t \in sched.awake : sched.level[t] = lv}
                                                     \ {target[u] : u \in InPush(lv)}
                   /\ Distinct(sched.running[lv])
             /\ cpu = CurrentTask(sched)
             /\ RescanDue(sched)
             /\ WakePart
  <2>1. Sound
    BY <1>2 DEF IInv
  <2>2. ASSUME NEW lv \in Level
        PROVE  /\ Elems(sched.running[lv]) = {t \in sched.awake : sched.level[t] = lv}
                                                 \ {target[u] : u \in InPush(lv)}
               /\ Distinct(sched.running[lv])
    <3>1. /\ Elems(sched.running[lv]) = {t \in sched.awake \ Pushing : sched.level[t] = lv}
          /\ Distinct(sched.running[lv])
      BY <2>1, QueuedFields DEF Sound, QueuePart, SchedInv, QueuesHoldAwake
    <3>2. \A t \in sched.awake :
              sched.level[t] = lv => (t \in Pushing <=> t \in {target[u] : u \in InPush(lv)})
      BY DEF Pushing, InPush
    <3> QED
      BY <3>1, <3>2
  <2>3. RescanDue(sched)
    BY <2>1, QueuedFields DEF Sound, QueuePart, SchedInv, RescanDue
  <2> QED
    BY <2>1, <2>2, <2>3 DEF Sound, QueuePart
<1> QED
  BY <1>1, <1>2 DEF OnlyStagesRace, WakePart

\* The calls of NewTask, Wakeup and SendMessage with interrupts on (Main.cpp:55, Main.cpp:76,
\* terminal.cpp:469): only a stage or the terminal has its run queue broken by the timer, and
\* until then the queues, the processor and the wakeups are right.
THEOREM OnlyStagesEverRace == Spec => []OnlyStagesRace
<1>1. Spec => []IInv
  BY InitIInv, NextIInv, PTL DEF Spec
<1> QED
  BY <1>1, IInvImplies, PTL

=============================================================================
