---------------------------- MODULE TimerManager ----------------------------
(***************************************************************************)
(* The kernel's timers (kernel/timer.cpp) together with the task that gets *)
(* their messages: the main loop of kernel/Main.cpp, which adds a periodic *)
(* timer again when its message arrives.                                   *)
(*                                                                         *)
(* Every local APIC interrupt runs Tick with interrupts off: the turns of  *)
(* the loop in Tick are single steps here, between which nothing moves.    *)
(* The main loop calls AddTimer with interrupts on, so a tick may come in  *)
(* the middle of its push.  std::priority_queue gives no order to timers   *)
(* of equal timeout, so any of them may be on top.                         *)
(***************************************************************************)
EXTENDS Integers, Sequences

CONSTANTS
    kTaskTimerPeriod,  \* ticks between two preemptions; 2 in the code
    RepeatPeriod,      \* ticks the main loop adds to a timeout; 100 in the code
    Value,             \* the values clients give their timers; positive repeats
    MaxTick            \* bound on tick_, a 64-bit counter in the code

ASSUME PeriodAssumption == kTaskTimerPeriod \in Nat \ {0}
ASSUME RepeatAssumption == RepeatPeriod \in Nat \ {0}
ASSUME TickAssumption == MaxTick \in Nat

kTaskTimerValue == -2147483647 - 1   \* numeric_limits<int>::min()
SentinelValue == -1
ASSUME ValueAssumption ==
    Value \subseteq Int /\ kTaskTimerValue \notin Value /\ SentinelValue \notin Value

VARIABLES
    tick,        \* tick_
    timers,      \* timers_: at most one timer of each value
    in_tick,     \* the processor is inside Tick
    expired,     \* task_timer_timeout
    msgs,        \* message queue of the main task
    handling,    \* <<m>> while the main loop acts on timer message m, else <<>>
    pushing,     \* <<u>> while the main loop is inside timers_.push(u), else <<>>
    torn,        \* a tick has changed timers_ in the middle of a push
    last_switch  \* tick of the last preemption

vars == <<tick, timers, in_tick, expired, msgs, handling, pushing, torn, last_switch>>

\* A timer, with the tick at which it was added.
Timer(timeout, value) == [timeout |-> timeout, value |-> value, added |-> tick]

\* Fault: the timers are kept in no order.
Top_Unordered == timers

\* priority_queue::top() under the reversed operator<: least timeout first.
Top == {t \in timers : \A u \in timers : t.timeout <= u.timeout}

\* Timers of a value, queued, sent as a message or being handled.
Queued(v) == {t \in timers : t.value = v}
Pending(v) == {i \in 1..Len(msgs) : msgs[i].value = v}
Handled(v) == {i \in 1..Len(handling) : handling[i].value = v}

\* The constructor pushes a sentinel no tick reaches (ULONG_MAX), and
\* InitializeTask adds the task timer.
Init ==
    /\ tick = 0
    /\ timers = {Timer(MaxTick + RepeatPeriod + 1, SentinelValue),
                 Timer(kTaskTimerPeriod, kTaskTimerValue)}
    /\ in_tick = FALSE
    /\ expired = FALSE
    /\ msgs = <<>>
    /\ handling = <<>>
    /\ pushing = <<>>
    /\ torn = FALSE
    /\ last_switch = 0

\* AddTimer(Timer{timeout, value}) of a value not in use.  Its one caller besides the
\* main loop is InitializeTask, in Init; others are taken to turn interrupts off as it
\* does.  While the main loop is inside a push nobody else gets the processor: the
\* timer interrupt that gave it away would change timers_.
AddTimer(timeout, value) ==
    /\ ~in_tick /\ pushing = <<>>
    /\ Queued(value) = {} /\ Pending(value) = {} /\ Handled(value) = {}
    /\ timers' = timers \cup {Timer(timeout, value)}
    /\ UNCHANGED <<tick, in_tick, expired, msgs, handling, pushing, torn, last_switch>>

\* LAPICTimerOnInterrupt enters Tick.
TickBegin ==
    /\ ~in_tick
    /\ tick < MaxTick
    /\ tick' = tick + 1
    /\ in_tick' = TRUE
    /\ expired' = FALSE
    /\ UNCHANGED <<timers, msgs, handling, pushing, torn, last_switch>>

\* Fault: the next period is one tick too long.
TickTaskTimer_Late(t) ==
    /\ in_tick /\ pushing = <<>>
    /\ t.timeout <= tick
    /\ t.value = kTaskTimerValue
    /\ expired' = TRUE
    /\ timers' = (timers \ {t}) \cup
                     {Timer(tick + kTaskTimerPeriod + 1, kTaskTimerValue)}
    /\ UNCHANGED <<tick, in_tick, msgs, handling, pushing, torn, last_switch>>

\* The top is the expired task timer: pop it and push the next period's.
TickTaskTimer(t) ==
    /\ in_tick /\ pushing = <<>>
    /\ t.timeout <= tick
    /\ t.value = kTaskTimerValue
    /\ expired' = TRUE
    /\ timers' = (timers \ {t}) \cup
                     {Timer(tick + kTaskTimerPeriod, kTaskTimerValue)}
    /\ UNCHANGED <<tick, in_tick, msgs, handling, pushing, torn, last_switch>>

\* The top is another expired timer: its message goes to task 1, the main
\* task, and it is popped.
TickMessage(t) ==
    /\ in_tick /\ pushing = <<>>
    /\ t.timeout <= tick
    /\ t.value # kTaskTimerValue
    /\ msgs' = Append(msgs, t)
    /\ timers' = timers \ {t}
    /\ UNCHANGED <<tick, in_tick, expired, handling, pushing, torn, last_switch>>

\* The main loop is inside a push, and the top has expired, be it the old one or the
\* timer being pushed: Tick pops and pushes in a heap that is half changed.  What
\* timers_ holds then is undefined, and the behaviour ends.  If no top has expired,
\* Tick only reads it, and reads one of the two.
TickTorn ==
    /\ in_tick /\ pushing # <<>>
    /\ \E t \in Top \cup {Head(pushing)} : t.timeout <= tick
    /\ torn' = TRUE
    /\ UNCHANGED <<tick, timers, in_tick, expired, msgs, handling, pushing, last_switch>>

\* Fault: a timer that expires at this very tick is left for the next one.
TickEnd_KeepsDue ==
    /\ in_tick
    /\ \A t \in Top : t.timeout >= tick
    /\ in_tick' = FALSE
    /\ last_switch' = IF expired THEN tick ELSE last_switch
    /\ UNCHANGED <<tick, timers, expired, msgs, handling, pushing, torn>>

\* The top lies in the future: end of interrupt, and SwitchTask if the task
\* timer expired.
TickEnd ==
    /\ in_tick
    /\ \A t \in Top : t.timeout > tick
    /\ in_tick' = FALSE
    /\ last_switch' = IF expired THEN tick ELSE last_switch
    /\ UNCHANGED <<tick, timers, expired, msgs, handling, pushing, torn>>

\* Main loop: cli; ReceiveMessage; sti.
MainReceive ==
    /\ ~in_tick
    /\ handling = <<>> /\ pushing = <<>>
    /\ msgs # <<>>
    /\ handling' = <<Head(msgs)>>
    /\ msgs' = Tail(msgs)
    /\ UNCHANGED <<tick, timers, in_tick, expired, pushing, torn, last_switch>>

\* case kTimerTimeout, with interrupts on: AddTimer begins to push a positive value
\* again, one period after its timeout.
MainHandle ==
    /\ ~in_tick
    /\ handling # <<>>
    /\ LET m == Head(handling)
       IN  pushing' = IF m.value > 0
                      THEN <<[timeout |-> m.timeout + RepeatPeriod, value |-> m.value]>>
                      ELSE <<>>
    /\ handling' = <<>>
    /\ UNCHANGED <<tick, timers, in_tick, expired, msgs, torn, last_switch>>

\* The push is complete.
MainPushed ==
    /\ ~in_tick
    /\ pushing # <<>>
    /\ timers' = timers \cup {Timer(Head(pushing).timeout, Head(pushing).value)}
    /\ pushing' = <<>>
    /\ UNCHANGED <<tick, in_tick, expired, msgs, handling, torn, last_switch>>

Next ==
    /\ ~torn
    /\ \/ \E timeout \in 1..MaxTick, value \in Value : AddTimer(timeout, value)
       \/ TickBegin
       \/ \E t \in Top : TickTaskTimer(t)
       \/ \E t \in Top : TickMessage(t)
       \/ TickTorn
       \/ TickEnd
       \/ MainReceive
       \/ MainHandle
       \/ MainPushed

Spec == Init /\ [][Next]_vars

-----------------------------------------------------------------------------
(* Properties. *)

TimerType == [timeout : Nat, value : Value \cup {kTaskTimerValue, SentinelValue},
              added : Nat]

\* Every variable holds a value of the type of the C++ member it stands for.
TypeOK ==
    /\ tick \in 0..MaxTick
    /\ timers \subseteq TimerType
    /\ in_tick \in BOOLEAN
    /\ expired \in BOOLEAN
    /\ msgs \in Seq(TimerType)
    /\ handling \in Seq(TimerType)
    /\ pushing \in Seq([timeout : Nat, value : Value])
    /\ torn \in BOOLEAN
    /\ last_switch \in 0..MaxTick

\* Until a tick tears a push of the main loop: Tick leaves no expired timer behind.
\* Outside Tick a timer lies in the future, or was added late, since the last tick,
\* and fires at the next one.
NoOverdueTimer ==
    ~in_tick /\ ~torn => \A t \in timers : t.timeout > tick \/ t.added = tick

\* Until a tick tears a push of the main loop: there is one task timer, and it preempts
\* at every period exactly.  The next preemption comes kTaskTimerPeriod ticks after
\* the last, whatever other timers expire, and although ticks come while the main
\* loop is inside a push, however long that takes.
PreemptionIsPeriodic ==
    ~in_tick /\ ~torn => \E t \in timers :
        /\ Queued(kTaskTimerValue) = {t}
        /\ t.timeout = last_switch + kTaskTimerPeriod
        /\ t.timeout > tick

\* Messages reach the main task in the order of their timeouts, except that a
\* timer added after it expired cannot overtake what was sent before.  A tick that
\* tears a push of the main loop ends that.
MessagesInOrder ==
    ~torn => \A i, j \in 1..Len(msgs) :
        i < j /\ msgs[j].added < msgs[i].timeout
            => msgs[i].timeout <= msgs[j].timeout

=============================================================================
