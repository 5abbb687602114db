------------------------- MODULE TimerManagerProofs -------------------------
(***************************************************************************)
(* The timers' properties hold whatever the periods, the values of the      *)
(* timers, the order of equal timeouts and the delays of the main loop.     *)
(***************************************************************************)
EXTENDS TimerManager, SequenceTheorems, WellFoundedInduction, TLAPS

\* There is one task timer.  Outside Tick it expires one period after the last
\* preemption, and not yet; inside Tick it has not expired before this tick, or
\* it has just been pushed again.
TaskTimerPart ==
    \E t \in timers :
        /\ Queued(kTaskTimerValue) = {t}
        /\ ~in_tick => t.timeout = last_switch + kTaskTimerPeriod /\ t.timeout > tick
        /\ in_tick /\ ~expired => t.timeout = last_switch + kTaskTimerPeriod /\ t.timeout >= tick
        /\ in_tick /\ expired => t.timeout = tick + kTaskTimerPeriod

\* The task timer is never sent, and what is sent has expired.  A timer that
\* was added before a message expired does not expire before it.
MessagePart ==
    /\ \A i \in 1..Len(msgs) : msgs[i].timeout <= tick /\ msgs[i].value # kTaskTimerValue
    /\ \A i \in 1..Len(msgs) : \A t \in timers :
           t.added < msgs[i].timeout => msgs[i].timeout <= t.timeout

\* The inductive invariant.
IInv ==
    /\ TypeOK
    /\ TaskTimerPart
    /\ MessagePart
    /\ NoOverdueTimer
    /\ MessagesInOrder

-----------------------------------------------------------------------------

\* A set of natural numbers that is not empty has a least element.
LEMMA LeastNat ==
    ASSUME NEW T, T \subseteq Nat, T # {}
    PROVE  \E n \in T : \A m \in T : n <= m
<1> DEFINE R == OpToRel(<, Nat)
<1>1. IsWellFoundedOn(R, Nat)
  BY NatLessThanWellFounded
<1>2. \A m, n \in Nat : m < n => <<m, n>> \in R
  BY DEF OpToRel
<1> HIDE DEF R
<1>3. PICK n \in T : \A m \in T : ~(<<m, n>> \in R)
  BY <1>1, WFMin
<1>4. ASSUME NEW m \in T PROVE n <= m
  <2>1. m \in Nat /\ n \in Nat /\ ~(<<m, n>> \in R)
    BY <1>3
  <2>2. ~(m < n)
    BY <1>2, <2>1, Zenon
  <2> QED
    BY <2>1, <2>2
<1> QED
  BY <1>4

\* If no top timer has expired, none has: the queue has a least timeout.
LEMMA TopIsLeast ==
    ASSUME timers \subseteq TimerType, \A t \in Top : t.timeout > tick, tick \in Nat
    PROVE  \A u \in timers : u.timeout > tick
<1> SUFFICES ASSUME NEW u \in timers PROVE u.timeout > tick
  OBVIOUS
<1> DEFINE T == {t.timeout : t \in timers}
<1>1. \A t \in timers : t.timeout \in Nat
  BY DEF TimerType
<1>2. T \subseteq Nat /\ T # {}
  BY <1>1
<1> HIDE DEF T
<1>3. PICK n \in T : \A m \in T : n <= m
  BY <1>2, LeastNat
<1> USE DEF T
<1>4. PICK t \in timers : t.timeout = n
  BY <1>3
<1>5. t \in Top
  BY <1>3, <1>4 DEF Top
<1>6. n > tick /\ n <= u.timeout
  BY <1>3, <1>4, <1>5
<1> QED
  BY <1>1, <1>2, <1>6

\* A timer that is pushed is a timer.
LEMMA TimerHasType ==
    ASSUME NEW timeout \in Nat, tick \in Nat,
           NEW value \in Value \cup {kTaskTimerValue, SentinelValue}
    PROVE  /\ Timer(timeout, value) \in TimerType
           /\ Timer(timeout, value).timeout = timeout
           /\ Timer(timeout, value).value = value
           /\ Timer(timeout, value).added = tick
BY DEF Timer, TimerType

\* What is queued, sent or being handled is a timer.
LEMMA MessageTypes ==
    ASSUME TypeOK
    PROVE  /\ \A t \in timers : t.timeout \in Nat /\ t.added \in Nat
           /\ \A i \in 1..Len(msgs) :
                  msgs[i] \in TimerType /\ msgs[i].timeout \in Nat /\ msgs[i].added \in Nat
           /\ \A i \in 1..Len(handling) :
                  handling[i] \in TimerType /\ handling[i].timeout \in Nat
<1>1. \A t \in TimerType : t.timeout \in Nat /\ t.added \in Nat
  BY DEF TimerType
<1>2. ASSUME NEW i \in 1..Len(msgs) PROVE msgs[i] \in TimerType
  BY ElementOfSeq DEF TypeOK
<1>3. ASSUME NEW i \in 1..Len(handling) PROVE handling[i] \in TimerType
  BY ElementOfSeq DEF TypeOK
<1> QED
  BY <1>1, <1>2, <1>3 DEF TypeOK

\* Boot establishes the invariant.
LEMMA InitIInv == Init => IInv
<1> SUFFICES ASSUME Init PROVE IInv
  OBVIOUS
<1> USE PeriodAssumption, RepeatAssumption, TickAssumption DEF Init
<1> DEFINE s == Timer(MaxTick + RepeatPeriod + 1, SentinelValue)
<1> DEFINE p == Timer(kTaskTimerPeriod, kTaskTimerValue)
<1>1. /\ s \in TimerType /\ s.value = SentinelValue /\ s.added = tick
      /\ p \in TimerType /\ p.value = kTaskTimerValue /\ p.added = tick
      /\ p.timeout = kTaskTimerPeriod
  <2>1. MaxTick + RepeatPeriod + 1 \in Nat /\ tick \in Nat
    OBVIOUS
  <2> QED
    BY <2>1, TimerHasType
<1>2. timers = {s, p}
  OBVIOUS
<1> HIDE DEF s, p
<1>3. TypeOK
  <2>1. tick \in 0..MaxTick /\ last_switch \in 0..MaxTick
    OBVIOUS
  <2>2. timers \subseteq TimerType
    BY <1>1, <1>2
  <2>3. in_tick \in BOOLEAN /\ expired \in BOOLEAN
    BY Zenon
  <2>4. /\ msgs \in Seq(TimerType) /\ handling \in Seq(TimerType)
        /\ pushing \in Seq([timeout : Nat, value : Value])
    BY EmptySeq
  <2>5. torn \in BOOLEAN
    BY Zenon
  <2> QED
    BY <2>1, <2>2, <2>3, <2>4, <2>5 DEF TypeOK
<1>4. TaskTimerPart
  <2>1. kTaskTimerValue # SentinelValue
    BY DEF kTaskTimerValue, SentinelValue
  <2>2. Queued(kTaskTimerValue) = {p}
    BY <1>1, <1>2, <2>1 DEF Queued
  <2>3. p.timeout = last_switch + kTaskTimerPeriod /\ p.timeout > tick
    BY <1>1
  <2>4. p \in timers /\ ~in_tick
    BY <1>2
  <2> QED
    BY <2>2, <2>3, <2>4, Zenon DEF TaskTimerPart
<1>5. MessagePart /\ MessagesInOrder
  BY DEF MessagePart, MessagesInOrder
<1>6. NoOverdueTimer
  BY <1>1, <1>2 DEF NoOverdueTimer
<1> QED
  BY <1>3, <1>4, <1>5, <1>6 DEF IInv

\* A timer added outside Tick that is not the task timer disturbs nothing.
LEMMA PushStep ==
    ASSUME IInv, ~in_tick, ~torn, NEW timeout \in Nat, NEW value \in Value,
           timers' = timers \cup {Timer(timeout, value)},
           UNCHANGED <<tick, in_tick, expired, msgs, torn, last_switch>>
    PROVE  /\ timers' \subseteq TimerType
           /\ TaskTimerPart'
           /\ NoOverdueTimer'
           /\ \A i \in 1..Len(msgs) : \A t \in timers' :
                  t.added < msgs[i].timeout => msgs[i].timeout <= t.timeout
<1> DEFINE u == Timer(timeout, value)
<1>1. /\ u \in TimerType /\ u.value = value /\ u.added = tick
      /\ tick \in Nat /\ timers \subseteq TimerType
  BY TimerHasType, TickAssumption DEF IInv, TypeOK
<1> HIDE DEF u
<1>2. value # kTaskTimerValue
  BY ValueAssumption
<1>3. timers' = timers \cup {u}
  BY DEF u
<1>4. Queued(kTaskTimerValue)' = Queued(kTaskTimerValue)
  BY <1>1, <1>2, <1>3 DEF Queued
<1>5. TaskTimerPart'
  BY <1>3, <1>4 DEF IInv, TaskTimerPart
<1>6. NoOverdueTimer'
  BY <1>1, <1>3 DEF IInv, NoOverdueTimer
<1>7. ASSUME NEW i \in 1..Len(msgs), NEW t \in timers', t.added < msgs[i].timeout
      PROVE  msgs[i].timeout <= t.timeout
  <2>1. msgs[i].timeout <= tick /\ msgs[i].timeout \in Nat
    <3>1. msgs[i] \in TimerType
      BY ElementOfSeq DEF IInv, TypeOK
    <3> QED
      BY <3>1 DEF IInv, MessagePart, TimerType
  <2>2. CASE t = u
    BY <2>1, <2>2, <1>1, <1>7
  <2>3. CASE t \in timers
    BY <2>3, <1>7 DEF IInv, MessagePart
  <2> QED
    BY <2>2, <2>3, <1>3
<1> QED
  BY <1>1, <1>3, <1>5, <1>6, <1>7

LEMMA AddTimerStep ==
    ASSUME IInv, ~torn, NEW timeout \in 1..MaxTick, NEW value \in Value,
           AddTimer(timeout, value)
    PROVE  IInv'
<1> USE DEF AddTimer
<1>1. timeout \in Nat
  BY TickAssumption
<1>2. /\ timers' \subseteq TimerType
      /\ TaskTimerPart'
      /\ NoOverdueTimer'
      /\ \A i \in 1..Len(msgs) : \A t \in timers' :
             t.added < msgs[i].timeout => msgs[i].timeout <= t.timeout
  BY <1>1, PushStep
<1>3. TypeOK'
  BY <1>2 DEF IInv, TypeOK
<1>4. MessagePart' /\ MessagesInOrder'
  BY <1>2 DEF IInv, MessagePart, MessagesInOrder
<1> QED
  BY <1>2, <1>3, <1>4 DEF IInv

LEMMA TickBeginStep == IInv /\ ~torn /\ TickBegin => IInv'
<1> SUFFICES ASSUME IInv, ~torn, TickBegin PROVE IInv'
  OBVIOUS
<1> USE DEF IInv, TickBegin
<1>1. tick \in Nat /\ tick' = tick + 1 /\ timers' = timers
  BY TickAssumption DEF TypeOK
<1>2. TypeOK'
  <2>1. tick' \in 0..MaxTick
    BY TickAssumption DEF TypeOK
  <2>2. in_tick' \in BOOLEAN /\ expired' \in BOOLEAN
    BY Zenon
  <2> QED
    BY <2>1, <2>2 DEF TypeOK
<1>3. TaskTimerPart'
  <2>1. PICK t \in timers : /\ Queued(kTaskTimerValue) = {t}
                            /\ t.timeout = last_switch + kTaskTimerPeriod
                            /\ t.timeout > tick
    BY DEF TaskTimerPart
  <2>2. t.timeout \in Nat
    BY DEF TypeOK, TimerType
  <2>3. Queued(kTaskTimerValue)' = {t} /\ t.timeout >= tick'
    BY <1>1, <2>1, <2>2 DEF Queued
  <2> QED
    BY <1>1, <2>1, <2>3 DEF TaskTimerPart
<1>4. MessagePart'
  <2>1. \A i \in 1..Len(msgs) : msgs[i].timeout \in Nat
    BY MessageTypes
  <2> QED
    BY <1>1, <2>1 DEF MessagePart
<1>5. NoOverdueTimer' /\ MessagesInOrder'
  BY DEF NoOverdueTimer, MessagesInOrder
<1> QED
  BY <1>2, <1>3, <1>4, <1>5

LEMMA TickTaskTimerStep ==
    ASSUME IInv, ~torn, NEW t \in Top, TickTaskTimer(t)
    PROVE  IInv'
<1> USE DEF TickTaskTimer
<1> DEFINE u == Timer(tick + kTaskTimerPeriod, kTaskTimerValue)
<1>1. TypeOK /\ MessagePart
  BY DEF IInv
<1>2. tick \in Nat /\ t \in timers
  BY <1>1, TickAssumption DEF TypeOK, Top
<1>3. /\ u \in TimerType /\ u.value = kTaskTimerValue /\ u.added = tick
      /\ u.timeout = tick + kTaskTimerPeriod
  <2>1. tick + kTaskTimerPeriod \in Nat
    BY <1>2, PeriodAssumption
  <2> QED
    BY <1>2, <2>1, TimerHasType
<1> HIDE DEF u
<1>4. timers' = (timers \ {t}) \cup {u}
  BY DEF u
<1>5. TypeOK'
  <2>1. timers' \subseteq TimerType
    BY <1>1, <1>3, <1>4 DEF TypeOK
  <2>2. expired' \in BOOLEAN
    BY Zenon
  <2> QED
    BY <1>1, <2>1, <2>2 DEF TypeOK
<1>6. TaskTimerPart'
  <2>1. PICK p \in timers : Queued(kTaskTimerValue) = {p}
    BY DEF IInv, TaskTimerPart
  <2>2. t = p
    BY <1>2, <2>1 DEF Queued
  <2>3. Queued(kTaskTimerValue)' = {u}
    BY <1>3, <1>4, <2>1, <2>2 DEF Queued
  <2>4. u \in timers' /\ in_tick' /\ expired'
    BY <1>4
  <2> QED
    BY <1>3, <2>3, <2>4 DEF TaskTimerPart
<1>7. MessagePart'
  <2>1. ASSUME NEW i \in 1..Len(msgs), NEW v \in timers', v.added < msgs[i].timeout
        PROVE  msgs[i].timeout <= v.timeout
    <3>1. msgs[i].timeout <= tick /\ msgs[i].timeout \in Nat
      BY <1>1, MessageTypes DEF MessagePart
    <3>2. v # u
      BY <1>2, <1>3, <2>1, <3>1
    <3> QED
      BY <1>1, <1>4, <2>1, <3>2 DEF MessagePart
  <2> QED
    BY <1>1, <2>1 DEF MessagePart
<1>8. NoOverdueTimer' /\ MessagesInOrder'
  BY DEF IInv, NoOverdueTimer, MessagesInOrder
<1> QED
  BY <1>5, <1>6, <1>7, <1>8 DEF IInv

\* The timer that is sent was on top, so those still queued do not precede it.
LEMMA TickMessageStep ==
    ASSUME IInv, ~torn, NEW t \in Top, TickMessage(t)
    PROVE  IInv'
<1> USE DEF TickMessage
<1>1. TypeOK /\ MessagePart /\ MessagesInOrder
  BY DEF IInv
<1>2. t \in timers /\ t \in TimerType /\ \A u \in timers : t.timeout <= u.timeout
  BY <1>1 DEF TypeOK, Top
<1>3. /\ msgs' \in Seq(TimerType) /\ Len(msgs') = Len(msgs) + 1 /\ Len(msgs) \in Nat
      /\ \A i \in 1..Len(msgs) : msgs'[i] = msgs[i]
      /\ msgs'[Len(msgs) + 1] = t
  BY <1>1, <1>2, AppendProperties DEF TypeOK
<1>4. TypeOK'
  BY <1>1, <1>3 DEF TypeOK
<1>5. TaskTimerPart'
  <2>1. Queued(kTaskTimerValue)' = Queued(kTaskTimerValue)
    BY DEF Queued
  <2>2. Queued(kTaskTimerValue)' \subseteq timers'
    BY DEF Queued
  <2> QED
    BY <2>1, <2>2 DEF IInv, TaskTimerPart
<1>6. \A i \in 1..Len(msgs') : i \in 1..Len(msgs) \/ i = Len(msgs) + 1
  BY <1>3
<1>7. MessagePart'
  <2>1. \A i \in 1..Len(msgs') : msgs'[i].timeout <= tick /\ msgs'[i].value # kTaskTimerValue
    BY <1>1, <1>3, <1>6 DEF MessagePart
  <2>2. ASSUME NEW i \in 1..Len(msgs'), NEW u \in timers', u.added < msgs'[i].timeout
        PROVE  msgs'[i].timeout <= u.timeout
    <3>1. CASE i \in 1..Len(msgs)
      BY <3>1, <2>2, <1>1, <1>3 DEF MessagePart
    <3>2. CASE i = Len(msgs) + 1
      BY <3>2, <1>2, <1>3
    <3> QED
      BY <3>1, <3>2, <1>6
  <2> QED
    BY <1>1, <2>1, <2>2 DEF MessagePart
<1>8. MessagesInOrder'
  <2> SUFFICES ASSUME NEW i \in 1..Len(msgs'), NEW j \in 1..Len(msgs'), i < j,
                      msgs'[j].added < msgs'[i].timeout
               PROVE  msgs'[i].timeout <= msgs'[j].timeout
    BY DEF MessagesInOrder
  <2>1. i \in 1..Len(msgs)
    BY <1>3
  <2>2. CASE j \in 1..Len(msgs)
    BY <2>1, <2>2, <1>1, <1>3 DEF MessagesInOrder
  <2>3. CASE j = Len(msgs) + 1
    BY <2>1, <2>3, <1>1, <1>2, <1>3 DEF MessagePart
  <2> QED
    BY <2>2, <2>3, <1>6
<1>9. NoOverdueTimer'
  BY DEF NoOverdueTimer
<1> QED
  BY <1>4, <1>5, <1>7, <1>8, <1>9 DEF IInv

LEMMA TickEndStep == IInv /\ ~torn /\ TickEnd => IInv'
<1> SUFFICES ASSUME IInv, ~torn, TickEnd PROVE IInv'
  OBVIOUS
<1> USE DEF TickEnd
<1>1. TypeOK /\ MessagePart /\ tick \in Nat /\ last_switch \in Nat
  BY TickAssumption DEF IInv, TypeOK
<1>2. \A u \in timers : u.timeout > tick
  BY <1>1, TopIsLeast DEF TypeOK
<1>3. TypeOK'
  <2>1. last_switch' \in 0..MaxTick
    BY <1>1 DEF TypeOK
  <2>2. in_tick' \in BOOLEAN
    BY Zenon
  <2> QED
    BY <1>1, <2>1, <2>2 DEF TypeOK
<1>4. TaskTimerPart'
  <2>1. PICK t \in timers :
            /\ Queued(kTaskTimerValue) = {t}
            /\ ~expired => t.timeout = last_switch + kTaskTimerPeriod
            /\ expired => t.timeout = tick + kTaskTimerPeriod
    BY DEF IInv, TaskTimerPart
  <2>2. t.timeout = last_switch' + kTaskTimerPeriod
    BY <2>1
  <2>3. t.timeout > tick
    BY <1>2
  <2>4. Queued(kTaskTimerValue)' = {t} /\ t \in timers' /\ ~in_tick'
    BY <2>1 DEF Queued
  <2> QED
    BY <2>2, <2>3, <2>4 DEF TaskTimerPart
<1>5. NoOverdueTimer'
  BY <1>2 DEF NoOverdueTimer
<1>6. MessagePart' /\ MessagesInOrder'
  BY DEF IInv, MessagePart, MessagesInOrder
<1> QED
  BY <1>3, <1>4, <1>5, <1>6 DEF IInv

LEMMA MainReceiveStep == IInv /\ ~torn /\ MainReceive => IInv'
<1> SUFFICES ASSUME IInv, ~torn, MainReceive PROVE IInv'
  OBVIOUS
<1> USE DEF MainReceive
<1>1. TypeOK /\ MessagePart /\ MessagesInOrder
  BY DEF IInv
<1>2. /\ msgs' \in Seq(TimerType) /\ Len(msgs') = Len(msgs) - 1 /\ Len(msgs) \in Nat
      /\ \A i \in 1..Len(msgs') : msgs'[i] = msgs[i + 1] /\ i + 1 \in 1..Len(msgs)
  BY <1>1, HeadTailProperties DEF TypeOK
<1>3. 1 \in 1..Len(msgs) /\ Head(msgs) = msgs[1]
  BY <1>1 DEF TypeOK
<1>4. handling' \in Seq(TimerType) /\ Len(handling') = 1 /\ handling'[1] = msgs[1]
  BY <1>1, <1>3, MessageTypes
<1>5. TypeOK'
  BY <1>1, <1>2, <1>4 DEF TypeOK
<1>6. MessagePart'
  <2>1. \A i \in 1..Len(msgs') : msgs'[i].timeout <= tick /\ msgs'[i].value # kTaskTimerValue
    BY <1>1, <1>2 DEF MessagePart
  <2>2. \A i \in 1..Len(msgs') : \A t \in timers :
            t.added < msgs'[i].timeout => msgs'[i].timeout <= t.timeout
    BY <1>1, <1>2 DEF MessagePart
  <2> QED
    BY <2>1, <2>2 DEF MessagePart
<1>7. MessagesInOrder'
  <2> SUFFICES ASSUME NEW i \in 1..Len(msgs'), NEW j \in 1..Len(msgs'), i < j,
                      msgs'[j].added < msgs'[i].timeout
               PROVE  msgs'[i].timeout <= msgs'[j].timeout
    BY DEF MessagesInOrder
  <2>1. i + 1 < j + 1
    OBVIOUS
  <2> QED
    BY <1>1, <1>2, <2>1 DEF MessagesInOrder
<1>8. TaskTimerPart' /\ NoOverdueTimer'
  BY DEF IInv, TaskTimerPart, NoOverdueTimer, Queued
<1> QED
  BY <1>5, <1>6, <1>7, <1>8 DEF IInv

\* What the main loop begins to push is a timer that repeats.
LEMMA MainHandleStep == IInv /\ ~torn /\ MainHandle => IInv'
<1> SUFFICES ASSUME IInv, ~torn, MainHandle PROVE IInv'
  OBVIOUS
<1> USE DEF MainHandle
<1> DEFINE m == Head(handling)
<1>1. TypeOK /\ MessagePart
  BY DEF IInv
<1>2. m \in TimerType
  <2>1. 1 \in 1..Len(handling) /\ m = handling[1]
    BY <1>1 DEF TypeOK
  <2> QED
    BY <2>1, <1>1, MessageTypes
<1>3. handling' \in Seq(TimerType)
  BY EmptySeq
<1>4. pushing' \in Seq([timeout : Nat, value : Value])
  <2>1. CASE m.value > 0
    <3>1. m.value \in Value \cup {kTaskTimerValue, SentinelValue} /\ m.timeout \in Nat
      BY <1>2 DEF TimerType
    <3>2. m.value # SentinelValue /\ m.value # kTaskTimerValue
      BY <2>1 DEF SentinelValue, kTaskTimerValue
    <3>3. [timeout |-> m.timeout + RepeatPeriod, value |-> m.value] \in [timeout : Nat, value : Value]
      BY <3>1, <3>2, RepeatAssumption
    <3>4. pushing' = <<[timeout |-> m.timeout + RepeatPeriod, value |-> m.value]>>
      BY <2>1
    <3>5. ASSUME NEW S, NEW x \in S PROVE <<x>> \in Seq(S)
      OBVIOUS
    <3> QED
      BY <3>3, <3>4, <3>5, Zenon
  <2>2. CASE ~(m.value > 0)
    BY <2>2, EmptySeq
  <2> QED
    BY <2>1, <2>2
<1>5. TypeOK'
  BY <1>1, <1>3, <1>4 DEF TypeOK
<1>6. MessagePart' /\ MessagesInOrder'
  BY <1>1 DEF IInv, MessagePart, MessagesInOrder
<1>7. TaskTimerPart' /\ NoOverdueTimer'
  BY DEF IInv, TaskTimerPart, NoOverdueTimer, Queued
<1> QED
  BY <1>5, <1>6, <1>7 DEF IInv

LEMMA MainPushedStep == IInv /\ ~torn /\ MainPushed => IInv'
<1> SUFFICES ASSUME IInv, ~torn, MainPushed PROVE IInv'
  OBVIOUS
<1> USE DEF MainPushed
<1> DEFINE u == Head(pushing)
<1>1. TypeOK /\ MessagePart /\ MessagesInOrder
  BY DEF IInv
<1>2. u.timeout \in Nat /\ u.value \in Value
  <2>1. u \in [timeout : Nat, value : Value]
    BY <1>1, HeadTailProperties DEF TypeOK
  <2> QED
    BY <2>1
<1>3. /\ timers' \subseteq TimerType
      /\ TaskTimerPart'
      /\ NoOverdueTimer'
      /\ \A i \in 1..Len(msgs) : \A t \in timers' :
             t.added < msgs[i].timeout => msgs[i].timeout <= t.timeout
  BY <1>2, PushStep
<1>4. pushing' \in Seq([timeout : Nat, value : Value])
  BY EmptySeq
<1>5. TypeOK'
  BY <1>1, <1>3, <1>4 DEF TypeOK
<1>6. MessagePart' /\ MessagesInOrder'
  BY <1>1, <1>3 DEF MessagePart, MessagesInOrder
<1> QED
  BY <1>3, <1>5, <1>6 DEF IInv

\* A tick that tears a push ends what is said of the timers.
LEMMA TickTornStep == IInv /\ TickTorn => IInv'
<1> SUFFICES ASSUME IInv, TickTorn PROVE IInv'
  OBVIOUS
<1> USE DEF TickTorn
<1>1. torn' \in BOOLEAN /\ torn'
  BY Zenon
<1>2. TypeOK'
  BY <1>1 DEF IInv, TypeOK
<1>3. TaskTimerPart' /\ MessagePart'
  BY DEF IInv, TaskTimerPart, MessagePart, Queued
<1>4. NoOverdueTimer' /\ MessagesInOrder'
  BY <1>1 DEF NoOverdueTimer, MessagesInOrder
<1> QED
  BY <1>2, <1>3, <1>4 DEF IInv

\* Every step preserves the invariant.
LEMMA NextIInv == IInv /\ [Next]_vars => IInv'
<1> SUFFICES ASSUME IInv, [Next]_vars PROVE IInv'
  OBVIOUS
<1>0. Next => ~torn
  BY DEF Next
<1>1. CASE ~torn /\ \E timeout \in 1..MaxTick, value \in Value : AddTimer(timeout, value)
  BY <1>1, AddTimerStep
<1>2. CASE ~torn /\ TickBegin
  BY <1>2, TickBeginStep
<1>3. CASE ~torn /\ \E t \in Top : TickTaskTimer(t)
  BY <1>3, TickTaskTimerStep
<1>4. CASE ~torn /\ \E t \in Top : TickMessage(t)
  BY <1>4, TickMessageStep
<1>5. CASE ~torn /\ TickEnd
  BY <1>5, TickEndStep
<1>6. CASE ~torn /\ MainReceive
  BY <1>6, MainReceiveStep
<1>7. CASE ~torn /\ MainHandle
  BY <1>7, MainHandleStep
<1>8. CASE ~torn /\ MainPushed
  BY <1>8, MainPushedStep
<1>9. CASE TickTorn
  BY <1>9, TickTornStep
<1>10. CASE UNCHANGED vars
  <2> USE <1>10 DEF vars
  <2>1. TypeOK' /\ MessagePart' /\ MessagesInOrder'
    BY DEF IInv, TypeOK, MessagePart, MessagesInOrder
  <2>2. TaskTimerPart' /\ NoOverdueTimer'
    BY DEF IInv, TaskTimerPart, Queued, NoOverdueTimer
  <2> QED
    BY <2>1, <2>2 DEF IInv
<1> QED
  BY <1>0, <1>1, <1>2, <1>3, <1>4, <1>5, <1>6, <1>7, <1>8, <1>9, <1>10 DEF Next

\* The invariant holds in every reachable state.
LEMMA AlwaysIInv == Spec => []IInv
BY InitIInv, NextIInv, PTL DEF Spec

-----------------------------------------------------------------------------
(* The properties. *)

\* The variables of TimerManager and of the main loop always hold values of their C++ types.
THEOREM TypeCorrect == Spec => []TypeOK
<1>1. IInv => TypeOK
  BY DEF IInv
<1> QED
  BY <1>1, AlwaysIInv, PTL

\* The loop of Tick leaves no expired timer behind, whatever AddTimer has pushed.
THEOREM NoTimerIsOverdue == Spec => []NoOverdueTimer
<1>1. IInv => NoOverdueTimer
  BY DEF IInv
<1> QED
  BY <1>1, AlwaysIInv, PTL

\* Tick pushes the task timer again so that preemptions come one period apart, for every
\* period.
THEOREM PreemptionsArePeriodic == Spec => []PreemptionIsPeriodic
<1>1. IInv => PreemptionIsPeriodic
  BY DEF IInv, TaskTimerPart, PreemptionIsPeriodic
<1> QED
  BY <1>1, AlwaysIInv, PTL

\* Tick sends the main task its messages in the order of their timeouts.
THEOREM MessagesComeInOrder == Spec => []MessagesInOrder
<1>1. IInv => MessagesInOrder
  BY DEF IInv
<1> QED
  BY <1>1, AlwaysIInv, PTL

=============================================================================
