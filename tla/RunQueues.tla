------------------------------ MODULE RunQueues ------------------------------
(***************************************************************************)
(* The methods of TaskManager (kernel/task.cpp) that rearrange its run     *)
(* queues, as pure operators on a record s of the scheduler's fields: the  *)
(* code composes them (Finish rotates the current queue and then wakes the *)
(* waiter; SendMessage wakes its receiver), and so do the modules that     *)
(* extend this one.                                                        *)
(***************************************************************************)
EXTENDS Naturals, Integers, Sequences

CONSTANTS
    kMaxLevel,   \* highest priority level; 3 in the code
    MaxTasks     \* bound on latest_id_, an unbounded 64-bit counter in the code

ASSUME LevelAssumption == kMaxLevel \in Nat /\ kMaxLevel >= 1
ASSUME TaskAssumption == MaxTasks \in Nat /\ MaxTasks >= 2

Level == 0..kMaxLevel
TaskId == 1..MaxTasks
NoTask == 0
kDefaultLevel == 1

Main == 1   \* the boot context, first task of the TaskManager constructor
Idle == 2   \* TaskIdle, the second

-----------------------------------------------------------------------------
(* The scheduler fields of TaskManager and of its tasks. *)

SchedType ==
    [running       : [Level -> Seq(TaskId)],  \* running_[lv], front first
     current_level : Level,                   \* current_level_
     level_changed : BOOLEAN,                 \* level_changed_
     level         : [TaskId -> Level],       \* Task::level_
     awake         : SUBSET TaskId]           \* tasks with Task::running_ set

\* Fault: the boot context is a task like the others.
InitSched_MainDefault ==
    [running       |-> [lv \in Level |-> IF lv = kDefaultLevel THEN <<Main>>
                                         ELSE IF lv = 0 THEN <<Idle>>
                                         ELSE <<>>],
     current_level |-> kDefaultLevel,
     level_changed |-> FALSE,
     level         |-> [t \in TaskId |-> IF t = Idle THEN 0 ELSE kDefaultLevel],
     awake         |-> {Main, Idle}]

\* The scheduler fields as the constructor leaves them: the boot context is
\* Main, at the highest level, and the idle task is ready at level 0.
InitSched ==
    [running       |-> [lv \in Level |-> IF lv = kMaxLevel THEN <<Main>>
                                         ELSE IF lv = 0 THEN <<Idle>>
                                         ELSE <<>>],
     current_level |-> kMaxLevel,
     level_changed |-> FALSE,
     level         |-> [t \in TaskId |-> IF t = Main THEN kMaxLevel
                                         ELSE IF t = Idle THEN 0
                                         ELSE kDefaultLevel],
     awake         |-> {Main, Idle}]

\* Run queue of the current level, and the task at its front.
LevelQueue(s) == s.running[s.current_level]
CurrentTask(s) == Head(LevelQueue(s))

Elems(q) == {q[i] : i \in 1..Len(q)}

\* Erase(c, value): a run queue holds a task at most once, so removing every
\* occurrence (std::remove) closes the gap of the only one.
Erase(q, t) ==
    IF t \in Elems(q)
    THEN LET p == CHOOSE i \in 1..Len(q) : q[i] = t
         IN  [j \in 1..(Len(q) - 1) |-> IF j < p THEN q[j] ELSE q[j + 1]]
    ELSE q

\* The scan from kMaxLevel down for a level whose queue is not empty; with
\* every queue empty it leaves the current level as it is.
IsHighest(running, lv) ==
    /\ running[lv] # <<>>
    /\ \A m \in Level : m > lv => running[m] = <<>>
HighestLevel(running, lv0) ==
    IF \E lv \in Level : IsHighest(running, lv)
    THEN CHOOSE lv \in Level : IsHighest(running, lv)
    ELSE lv0

\* Fault: the rotation puts the current task back at the front.
RotatedQueue_Stays(s, current_sleep) ==
    IF current_sleep THEN Tail(LevelQueue(s)) ELSE LevelQueue(s)

RotatedQueue(s, current_sleep) ==
    IF current_sleep THEN Tail(LevelQueue(s))
                     ELSE Append(Tail(LevelQueue(s)), CurrentTask(s))

RotateCurrentRunQueue(s, current_sleep) ==
    LET q       == RotatedQueue(s, current_sleep)
        running == [s.running EXCEPT ![s.current_level] = q]
    IN  IF s.level_changed \/ q = <<>>
        THEN [s EXCEPT !.running = running,
                       !.level_changed = FALSE,
                       !.current_level = HighestLevel(running, @)]
        ELSE [s EXCEPT !.running = running]

\* A running task other than the current one moves to the back of its new
\* queue; the current one takes the front and the current level with it.
MoveOther(s, t, lv) ==
    LET erased == [s.running EXCEPT ![s.level[t]] = Erase(@, t)]
    IN  [s EXCEPT !.running = [erased EXCEPT ![lv] = Append(@, t)],
                  !.level[t] = lv,
                  !.level_changed = @ \/ lv > s.current_level]

\* Fault: the current task goes to the back of its new queue.
MoveCurrent_PushBack(s, t, lv) ==
    LET popped == [s.running EXCEPT ![s.current_level] = Tail(@)]
    IN  [s EXCEPT !.running = [popped EXCEPT ![lv] = Append(@, t)],
                  !.level[t] = lv,
                  !.current_level = lv,
                  !.level_changed = @ \/ lv < s.current_level]

\* Fault: lowering the current task does not ask for a rescan.
MoveCurrent_NoRescan(s, t, lv) ==
    LET popped == [s.running EXCEPT ![s.current_level] = Tail(@)]
    IN  [s EXCEPT !.running = [popped EXCEPT ![lv] = <<t>> \o @],
                  !.level[t] = lv,
                  !.current_level = lv]

MoveCurrent(s, t, lv) ==
    LET popped == [s.running EXCEPT ![s.current_level] = Tail(@)]
    IN  [s EXCEPT !.running = [popped EXCEPT ![lv] = <<t>> \o @],
                  !.level[t] = lv,
                  !.current_level = lv,
                  !.level_changed = @ \/ lv < s.current_level]

ChangeLevelRunning(s, t, lv) ==
    IF lv < 0 \/ lv = s.level[t] THEN s
    ELSE IF t # CurrentTask(s) THEN MoveOther(s, t, lv)
    ELSE MoveCurrent(s, t, lv)

\* Fault: a negative level is stored as it is.
Wakeup_NegativeLevel(s, t, level) ==
    IF t \in s.awake THEN ChangeLevelRunning(s, t, level)
    ELSE [s EXCEPT !.level[t] = level,
                   !.awake = @ \cup {t},
                   !.running[level] = Append(@, t)]

\* Fault: a sleeping task woken above the current level asks for no rescan.
Wakeup_NoRescan(s, t, level) ==
    IF t \in s.awake THEN ChangeLevelRunning(s, t, level)
    ELSE LET lv == IF level < 0 THEN s.level[t] ELSE level
         IN  [s EXCEPT !.level[t] = lv,
                       !.awake = @ \cup {t},
                       !.running[lv] = Append(@, t)]

\* Wakeup(Task *task, int level): a negative level keeps the task's own.
Wakeup(s, t, level) ==
    IF t \in s.awake THEN ChangeLevelRunning(s, t, level)
    ELSE LET lv == IF level < 0 THEN s.level[t] ELSE level
         IN  [s EXCEPT !.level[t] = lv,
                       !.awake = @ \cup {t},
                       !.running[lv] = Append(@, t),
                       !.level_changed = @ \/ lv > s.current_level]

\* Fault: a task put to sleep by another stays in its queue.
Sleep_NoErase(s, t) ==
    IF t \notin s.awake THEN s
    ELSE LET z == [s EXCEPT !.awake = @ \ {t}]
         IN  IF t = CurrentTask(s) THEN RotateCurrentRunQueue(z, TRUE) ELSE z

\* Sleep(Task *task), up to the switch to the next task's context, which the
\* current task makes when it is the one that sleeps.
Sleep(s, t) ==
    IF t \notin s.awake THEN s
    ELSE LET z == [s EXCEPT !.awake = @ \ {t}]
         IN  IF t = CurrentTask(s) THEN RotateCurrentRunQueue(z, TRUE)
             ELSE [z EXCEPT !.running[s.level[t]] = Erase(@, t)]

-----------------------------------------------------------------------------
(* What makes the scheduler fields consistent with each other. *)

Distinct(q) == \A i, j \in 1..Len(q) : q[i] = q[j] => i = j

\* The queue of each level holds the awake tasks of that level, each once.
QueuesHoldAwake(s) ==
    \A lv \in Level :
        /\ Elems(s.running[lv]) = {t \in s.awake : s.level[t] = lv}
        /\ Distinct(s.running[lv])

\* Unless a rescan is due, nothing is queued above the current level.
RescanDue(s) ==
    \/ s.level_changed
    \/ \A lv \in Level : lv > s.current_level => s.running[lv] = <<>>
=============================================================================
