--------------------------- MODULE RunQueuesProofs ---------------------------
(***************************************************************************)
(* What the run-queue operators return and preserve, for every number of   *)
(* levels and tasks.  SchedInv is the scheduler's inductive invariant.     *)
(***************************************************************************)
EXTENDS RunQueues, SequenceTheorems, WellFoundedInduction, TLAPS

SchedInv(s) ==
    /\ s \in SchedType
    /\ QueuesHoldAwake(s)
    /\ RescanDue(s)
    /\ LevelQueue(s) # <<>>
    /\ Idle \in s.awake

-----------------------------------------------------------------------------
(* Queues of distinct tasks. *)

\* A queue without elements is the empty queue.
LEMMA EmptyQueue ==
    ASSUME NEW q \in Seq(TaskId)
    PROVE  q = <<>> <=> Elems(q) = {}
<1>1. CASE q = <<>>
  BY <1>1 DEF Elems
<1>2. CASE q # <<>>
  <2>1. 1 \in 1..Len(q)
    BY <1>2
  <2>2. q[1] \in Elems(q)
    BY <2>1 DEF Elems
  <2> QED
    BY <1>2, <2>2
<1> QED
  BY <1>1, <1>2

\* push_back adds one task behind the others.
LEMMA AppendQueue ==
    ASSUME NEW q \in Seq(TaskId), NEW t \in TaskId
    PROVE  /\ Append(q, t) \in Seq(TaskId)
           /\ Append(q, t) # <<>>
           /\ Elems(Append(q, t)) = Elems(q) \cup {t}
           /\ Distinct(q) /\ t \notin Elems(q) => Distinct(Append(q, t))
           /\ q # <<>> => Head(Append(q, t)) = Head(q)
<1> DEFINE a == Append(q, t)
<1>1. /\ a \in Seq(TaskId) /\ a # <<>> /\ Len(a) = Len(q) + 1
      /\ \A i \in 1..Len(q) : a[i] = q[i]
      /\ a[Len(q) + 1] = t
  OBVIOUS
<1>2. Elems(a) = Elems(q) \cup {t}
  <2>1. 1..Len(a) = 1..Len(q) \cup {Len(q) + 1}
    BY <1>1
  <2> QED
    BY <1>1, <2>1 DEF Elems
<1>3. Distinct(q) /\ t \notin Elems(q) => Distinct(a)
  BY <1>1 DEF Elems, Distinct
<1>4. q # <<>> => Head(a) = Head(q)
  BY <1>1
<1> QED
  BY <1>1, <1>2, <1>3, <1>4

\* push_front adds one task before the others.
LEMMA ConsQueue ==
    ASSUME NEW q \in Seq(TaskId), NEW t \in TaskId
    PROVE  /\ <<t>> \o q \in Seq(TaskId)
           /\ <<t>> \o q # <<>>
           /\ Elems(<<t>> \o q) = Elems(q) \cup {t}
           /\ Distinct(q) /\ t \notin Elems(q) => Distinct(<<t>> \o q)
           /\ Head(<<t>> \o q) = t
<1> DEFINE a == <<t>> \o q
<1>1. /\ a \in Seq(TaskId) /\ a # <<>> /\ Len(a) = Len(q) + 1
      /\ \A i \in 1..Len(q) : a[i + 1] = q[i]
      /\ a[1] = t
  OBVIOUS
<1>2. \A i \in 1..Len(a) : i # 1 => i - 1 \in 1..Len(q) /\ a[i] = q[i - 1]
  BY <1>1
<1>3. Elems(a) = Elems(q) \cup {t}
  <2> HIDE DEF a
  <2>1. ASSUME NEW i \in 1..Len(a) PROVE a[i] \in Elems(q) \cup {t}
    BY <1>1, <1>2 DEF Elems
  <2>2. ASSUME NEW i \in 1..Len(q) PROVE q[i] \in Elems(a)
    <3>1. i + 1 \in 1..Len(a) /\ a[i + 1] = q[i]
      BY <1>1
    <3> QED
      BY <3>1 DEF Elems
  <2>3. t \in Elems(a)
    <3>1. 1 \in 1..Len(a)
      BY <1>1
    <3> QED
      BY <3>1, <1>1 DEF Elems
  <2> QED
    BY <2>1, <2>2, <2>3 DEF Elems
<1>4. Distinct(q) /\ t \notin Elems(q) => Distinct(a)
  BY <1>1, <1>2 DEF Elems, Distinct
<1> QED
  BY <1>1, <1>3, <1>4

\* pop_front of a queue of distinct tasks removes its front, and nothing else.
LEMMA TailQueue ==
    ASSUME NEW q \in Seq(TaskId), q # <<>>
    PROVE  /\ Tail(q) \in Seq(TaskId)
           /\ Head(q) \in TaskId
           /\ Head(q) \in Elems(q)
           /\ Distinct(q) => /\ Elems(Tail(q)) = Elems(q) \ {Head(q)}
                             /\ Distinct(Tail(q))
<1>1. /\ Tail(q) \in Seq(TaskId) /\ Len(Tail(q)) = Len(q) - 1
      /\ Len(q) >= 1 /\ Head(q) = q[1] /\ Head(q) \in TaskId
      /\ \A i \in 1..Len(Tail(q)) : Tail(q)[i] = q[i + 1]
  OBVIOUS
<1>2. Head(q) \in Elems(q)
  BY <1>1 DEF Elems
<1>3. ASSUME Distinct(q)
      PROVE  Elems(Tail(q)) = Elems(q) \ {Head(q)} /\ Distinct(Tail(q))
  <2>1. \A i \in 1..Len(q) : i # 1 => i - 1 \in 1..Len(Tail(q)) /\ q[i] = Tail(q)[i - 1]
    BY <1>1
  <2>2. \A i \in 1..Len(Tail(q)) : i + 1 \in 1..Len(q) /\ Tail(q)[i] # q[1]
    BY <1>1, <1>3 DEF Distinct
  <2>3. Elems(Tail(q)) = Elems(q) \ {Head(q)}
    BY <1>1, <2>1, <2>2 DEF Elems
  <2>4. Distinct(Tail(q))
    BY <1>1, <1>3, <2>2 DEF Distinct
  <2> QED
    BY <2>3, <2>4
<1> QED
  BY <1>1, <1>2, <1>3

\* Erase removes its task, and nothing else, and keeps the front when the
\* front is another task.
LEMMA EraseQueue ==
    ASSUME NEW q \in Seq(TaskId), NEW t \in TaskId, Distinct(q)
    PROVE  /\ Erase(q, t) \in Seq(TaskId)
           /\ Elems(Erase(q, t)) = Elems(q) \ {t}
           /\ Distinct(Erase(q, t))
           /\ q # <<>> /\ t # Head(q) =>
                  Erase(q, t) # <<>> /\ Head(Erase(q, t)) = Head(q)
<1>1. CASE t \notin Elems(q)
  BY <1>1 DEF Erase
<1>2. CASE t \in Elems(q)
  <2> DEFINE p == CHOOSE i \in 1..Len(q) : q[i] = t
             e == [j \in 1..(Len(q) - 1) |-> IF j < p THEN q[j] ELSE q[j + 1]]
  <2>1. p \in 1..Len(q) /\ q[p] = t
    BY <1>2 DEF Elems
  <2> HIDE DEF p
  <2>2. Erase(q, t) = e
    BY <1>2 DEF Erase, p
  <2>3. \A j \in 1..(Len(q) - 1) :
            e[j] = IF j < p THEN q[j] ELSE q[j + 1]
    OBVIOUS
  <2>4. e \in Seq(TaskId) /\ Len(e) = Len(q) - 1
    <3>1. Len(q) - 1 \in Nat
      BY <2>1
    <3>2. e \in [1..(Len(q) - 1) -> TaskId]
      BY <2>1
    <3> QED
      BY <3>1, <3>2
  <2> HIDE DEF e
  <2>5. \A i \in 1..Len(q) : i # p => q[i] # t
    BY <2>1 DEF Distinct
  <2>6. Elems(e) \subseteq Elems(q) \ {t}
    <3> SUFFICES ASSUME NEW j \in 1..Len(e)
                 PROVE  e[j] \in Elems(q) \ {t}
      BY DEF Elems
    <3>1. CASE j < p
      <4>1. j \in 1..Len(q) /\ j # p /\ e[j] = q[j]
        BY <3>1, <2>1, <2>3, <2>4
      <4> QED
        BY <4>1, <2>5 DEF Elems
    <3>2. CASE ~(j < p)
      <4>1. j + 1 \in 1..Len(q) /\ j + 1 # p /\ e[j] = q[j + 1]
        BY <3>2, <2>1, <2>3, <2>4
      <4> QED
        BY <4>1, <2>5 DEF Elems
    <3> QED
      BY <3>1, <3>2
  <2>7. Elems(q) \ {t} \subseteq Elems(e)
    <3> SUFFICES ASSUME NEW i \in 1..Len(q), i # p
                 PROVE  q[i] \in Elems(e)
      BY <2>1 DEF Elems
    <3>1. CASE i < p
      <4>1. i \in 1..Len(e) /\ e[i] = q[i]
        BY <3>1, <2>1, <2>3, <2>4
      <4> QED
        BY <4>1 DEF Elems
    <3>2. CASE i > p
      <4>1. i - 1 \in 1..Len(e) /\ e[i - 1] = q[i]
        BY <3>2, <2>1, <2>3, <2>4
      <4> QED
        BY <4>1 DEF Elems
    <3> QED
      BY <3>1, <3>2, <2>1
  <2>8. Distinct(e)
    BY <2>1, <2>3, <2>4 DEF Distinct
  <2>9. ASSUME q # <<>>, t # Head(q)
        PROVE  e # <<>> /\ Head(e) = Head(q)
    <3>1. Head(q) = q[1] /\ p > 1
      BY <2>9, <2>1
    <3>2. Len(e) >= 1 /\ e[1] = q[1]
      BY <3>1, <2>1, <2>3, <2>4
    <3> QED
      BY <3>1, <3>2, <2>4
  <2> QED
    BY <2>2, <2>4, <2>6, <2>7, <2>8, <2>9
<1> QED
  BY <1>1, <1>2

\* With a task queued at some level, the scan from kMaxLevel down finds the
\* highest non-empty one.
LEMMA HighestLevelFound ==
    ASSUME NEW running \in [Level -> Seq(TaskId)], NEW lv0 \in Level,
           NEW lv1 \in Level, running[lv1] # <<>>
    PROVE  /\ HighestLevel(running, lv0) \in Level
           /\ IsHighest(running, HighestLevel(running, lv0))
<1> USE LevelAssumption
<1> DEFINE D == {d \in Nat : d <= kMaxLevel /\ running[kMaxLevel - d] # <<>>}
<1>1. kMaxLevel - lv1 \in D
  BY DEF Level
<1> DEFINE R == OpToRel(<, Nat)
<1>2. IsWellFoundedOn(R, Nat)
  BY NatLessThanWellFounded
<1>3. \A e, f \in Nat : e < f => <<e, f>> \in R
  BY DEF OpToRel
<1> HIDE DEF R
<1>4. PICK d \in D : \A e \in D : ~(<<e, d>> \in R)
  <2>1. D \subseteq Nat /\ D # {}
    BY <1>1
  <2> HIDE DEF D
  <2> QED
    BY <1>2, <2>1, WFMin
<1>5. ASSUME NEW e \in D PROVE d <= e
  <2>1. e \in Nat /\ d \in Nat /\ ~(<<e, d>> \in R)
    BY <1>4
  <2>2. ~(e < d)
    BY <1>3, <2>1, Zenon
  <2> QED
    BY <2>1, <2>2
<1>6. kMaxLevel - d \in Level /\ IsHighest(running, kMaxLevel - d)
  <2>1. kMaxLevel - d \in Level /\ running[kMaxLevel - d] # <<>>
    BY DEF Level
  <2>2. ASSUME NEW m \in Level, m > kMaxLevel - d, running[m] # <<>>
        PROVE  FALSE
    <3>1. kMaxLevel - m \in D /\ kMaxLevel - m < d
      BY <2>2 DEF Level
    <3> QED
      BY <3>1, <1>5
  <2> QED
    BY <2>1, <2>2 DEF IsHighest
<1> QED
  BY <1>6 DEF HighestLevel

-----------------------------------------------------------------------------
(* The scheduler operators. *)

\* The front of the current queue is an awake task of the current level.
LEMMA CurrentTaskQueued ==
    ASSUME NEW s, SchedInv(s)
    PROVE  /\ CurrentTask(s) \in TaskId
           /\ CurrentTask(s) \in s.awake
           /\ s.level[CurrentTask(s)] = s.current_level
<1>1. /\ s.current_level \in Level
      /\ LevelQueue(s) \in Seq(TaskId)
      /\ LevelQueue(s) # <<>>
      /\ Elems(LevelQueue(s)) = {t \in s.awake : s.level[t] = s.current_level}
  BY DEF SchedInv, SchedType, QueuesHoldAwake, LevelQueue
<1> QED
  BY <1>1, TailQueue DEF CurrentTask

\* Without a due rescan, the current level is the highest of any awake task.
LEMMA CurrentLevelIsHighest ==
    ASSUME NEW s, SchedInv(s), ~s.level_changed
    PROVE  \A t \in s.awake : s.level[t] <= s.current_level
<1> SUFFICES ASSUME NEW t \in s.awake, s.level[t] > s.current_level
             PROVE  FALSE
  BY LevelAssumption DEF SchedInv, SchedType, Level
<1>1. s.level[t] \in Level /\ s.running[s.level[t]] \in Seq(TaskId)
  BY DEF SchedInv, SchedType
<1>2. t \in Elems(s.running[s.level[t]])
  BY <1>1 DEF SchedInv, QueuesHoldAwake
<1>3. s.running[s.level[t]] # <<>>
  BY <1>1, <1>2, EmptyQueue
<1> QED
  BY <1>1, <1>3 DEF SchedInv, RescanDue

\* The fields RotateCurrentRunQueue leaves alone, and the queue it rotates.
LEMMA RotateFields ==
    ASSUME NEW s \in SchedType, NEW b \in BOOLEAN, LevelQueue(s) # <<>>
    PROVE  LET r == RotateCurrentRunQueue(s, b)
               q == RotatedQueue(s, b)
           IN  /\ r.running = [s.running EXCEPT ![s.current_level] = q]
               /\ r.level = s.level
               /\ r.awake = s.awake
               /\ q \in Seq(TaskId)
               /\ r.running \in [Level -> Seq(TaskId)]
               /\ r.level_changed = FALSE
               /\ r.current_level = IF s.level_changed \/ q = <<>>
                                    THEN HighestLevel(r.running, s.current_level)
                                    ELSE s.current_level
               /\ r = [running |-> r.running, current_level |-> r.current_level,
                       level_changed |-> r.level_changed, level |-> r.level,
                       awake |-> r.awake]
<1> DEFINE q == RotatedQueue(s, b)
           running == [s.running EXCEPT ![s.current_level] = q]
<1>1. s.current_level \in Level /\ s.running \in [Level -> Seq(TaskId)]
  BY DEF SchedType
<1>2. LevelQueue(s) \in Seq(TaskId) /\ CurrentTask(s) \in TaskId
      /\ Tail(LevelQueue(s)) \in Seq(TaskId)
  BY <1>1, TailQueue DEF LevelQueue, CurrentTask
<1>3. q \in Seq(TaskId)
  BY <1>2, AppendQueue DEF RotatedQueue
<1>4. running \in [Level -> Seq(TaskId)]
  BY <1>1, <1>3
<1> HIDE DEF q
<1>5. CASE s.level_changed \/ q = <<>>
  <2>1. RotateCurrentRunQueue(s, b) = [s EXCEPT !.running = running,
            !.level_changed = FALSE, !.current_level = HighestLevel(running, @)]
    BY <1>5 DEF RotateCurrentRunQueue, q
  <2> QED
    BY <1>3, <1>4, <1>5, <2>1 DEF SchedType, q
<1>6. CASE ~(s.level_changed \/ q = <<>>)
  <2>1. RotateCurrentRunQueue(s, b) = [s EXCEPT !.running = running]
    BY <1>6 DEF RotateCurrentRunQueue, q
  <2>2. s.level_changed = FALSE
    BY <1>6 DEF SchedType
  <2> QED
    BY <1>3, <1>4, <1>6, <2>1, <2>2 DEF SchedType, q
<1> QED
  BY <1>5, <1>6

\* A rotation keeps the scheduler consistent when the current task either
\* stays awake and goes to the back, or is not the idle task and leaves.
LEMMA RotateInv ==
    ASSUME NEW s, SchedInv(s), NEW b \in BOOLEAN,
           b => CurrentTask(s) # Idle
    PROVE  LET gone == IF b THEN {CurrentTask(s)} ELSE {}
               z    == [RotateCurrentRunQueue(s, b) EXCEPT !.awake = @ \ gone]
           IN  /\ SchedInv(z)
               /\ z.level = s.level
               /\ z.awake = s.awake \ gone
               /\ ~z.level_changed
               /\ z.running = [s.running EXCEPT ![s.current_level] = RotatedQueue(s, b)]
<1> DEFINE c    == CurrentTask(s)
           cl   == s.current_level
           gone == IF b THEN {c} ELSE {}
           r    == RotateCurrentRunQueue(s, b)
           q    == RotatedQueue(s, b)
           z    == [r EXCEPT !.awake = @ \ gone]
<1>1. /\ s \in SchedType /\ cl \in Level /\ s.running \in [Level -> Seq(TaskId)]
      /\ LevelQueue(s) = s.running[cl] /\ s.running[cl] # <<>>
      /\ s.level \in [TaskId -> Level] /\ s.awake \in SUBSET TaskId
  BY DEF SchedInv, SchedType, LevelQueue
<1>2. c \in TaskId /\ c \in s.awake /\ s.level[c] = cl
  BY CurrentTaskQueued
<1>3. /\ r.running = [s.running EXCEPT ![cl] = q]
      /\ r.level = s.level
      /\ r.awake = s.awake
      /\ q \in Seq(TaskId)
      /\ r.running \in [Level -> Seq(TaskId)]
      /\ r.level_changed = FALSE
      /\ r.current_level = IF s.level_changed \/ q = <<>>
                           THEN HighestLevel(r.running, cl) ELSE cl
      /\ r = [running |-> r.running, current_level |-> r.current_level,
              level_changed |-> r.level_changed, level |-> r.level,
              awake |-> r.awake]
  BY <1>1, RotateFields DEF SchedInv
<1> HIDE DEF r
<1>4. /\ z.running = r.running /\ z.level = s.level /\ z.level_changed = FALSE
      /\ z.current_level = r.current_level /\ z.awake = s.awake \ gone
  BY <1>3
<1>5. /\ Elems(s.running[cl]) = {t \in s.awake : s.level[t] = cl}
      /\ Distinct(s.running[cl])
  BY <1>1 DEF SchedInv, QueuesHoldAwake
<1>6. Elems(q) = Elems(s.running[cl]) \ gone /\ Distinct(q)
  <2>1. /\ Tail(s.running[cl]) \in Seq(TaskId) /\ c = Head(s.running[cl])
        /\ Elems(Tail(s.running[cl])) = Elems(s.running[cl]) \ {c}
        /\ Distinct(Tail(s.running[cl])) /\ c \in Elems(s.running[cl])
    BY <1>1, <1>5, TailQueue DEF CurrentTask
  <2>2. CASE b
    BY <2>1, <2>2, <1>1 DEF RotatedQueue
  <2>3. CASE ~b
    <3>1. q = Append(Tail(s.running[cl]), c)
      BY <2>3, <1>1 DEF RotatedQueue
    <3>2. c \notin Elems(Tail(s.running[cl])) /\ gone = {}
      BY <2>1, <2>3
    <3>3. /\ Elems(q) = Elems(Tail(s.running[cl])) \cup {c}
          /\ Distinct(q)
      <4> HIDE DEF c, q
      <4> QED
        BY <3>1, <3>2, <2>1, <1>2, AppendQueue
    <3> QED
      BY <3>2, <3>3, <2>1
  <2> QED
    BY <2>2, <2>3
<1> HIDE DEF q, c
<1>7. QueuesHoldAwake(z)
  <2> SUFFICES ASSUME NEW lv \in Level
               PROVE  /\ Elems(r.running[lv]) = {t \in s.awake \ gone : s.level[t] = lv}
                      /\ Distinct(r.running[lv])
    BY <1>4 DEF QueuesHoldAwake
  <2>1. CASE lv = cl
    BY <2>1, <1>1, <1>3, <1>5, <1>6
  <2>2. CASE lv # cl
    <3>1. r.running[lv] = s.running[lv]
      BY <2>2, <1>1, <1>3
    <3>2. /\ Elems(s.running[lv]) = {t \in s.awake : s.level[t] = lv}
          /\ Distinct(s.running[lv])
      BY DEF SchedInv, QueuesHoldAwake
    <3> QED
      BY <3>1, <3>2, <2>2, <1>2
  <2> QED
    BY <2>1, <2>2
<1>8. Idle \in z.awake
  BY <1>4 DEF SchedInv, c
<1>9. \E lv \in Level : r.running[lv] # <<>>
  <2>1. s.level[Idle] \in Level /\ Idle \in Elems(r.running[s.level[Idle]])
    BY <1>1, <1>4, <1>7, <1>8 DEF QueuesHoldAwake
  <2> QED
    BY <2>1, <1>3, EmptyQueue
<1>10. /\ r.current_level \in Level
       /\ r.running[r.current_level] # <<>>
       /\ \A lv \in Level : lv > r.current_level => r.running[lv] = <<>>
  <2>1. CASE s.level_changed \/ q = <<>>
    <3>1. r.current_level = HighestLevel(r.running, cl)
      BY <2>1, <1>3
    <3>2. PICK lv1 \in Level : r.running[lv1] # <<>>
      BY <1>9
    <3>3. IsHighest(r.running, r.current_level) /\ r.current_level \in Level
      <4> DEFINE run == r.running
      <4>1. run \in [Level -> Seq(TaskId)] /\ run[lv1] # <<>> /\ cl \in Level
        BY <1>1, <1>3, <3>2
      <4> HIDE DEF run, cl
      <4>2. HighestLevel(run, cl) \in Level /\ IsHighest(run, HighestLevel(run, cl))
        BY <4>1, HighestLevelFound
      <4> QED
        BY <3>1, <4>2 DEF run
    <3> QED
      BY <3>3 DEF IsHighest
  <2>2. CASE ~(s.level_changed \/ q = <<>>)
    <3>1. r.current_level = cl /\ r.running[cl] = q /\ q # <<>>
      BY <2>2, <1>1, <1>3
    <3>2. \A lv \in Level : lv > cl => s.running[lv] = <<>>
      BY <2>2 DEF SchedInv, RescanDue
    <3>3. \A lv \in Level : lv > cl => r.running[lv] = s.running[lv]
      BY <1>1, <1>3, LevelAssumption DEF Level
    <3> QED
      BY <3>1, <3>2, <3>3, <1>1
  <2> QED
    BY <2>1, <2>2
<1>11. z \in SchedType
  BY <1>1, <1>3, <1>4, <1>10 DEF SchedType
<1>12. RescanDue(z) /\ LevelQueue(z) # <<>>
  BY <1>4, <1>10 DEF RescanDue, LevelQueue
<1>13. SchedInv(z)
  BY <1>7, <1>8, <1>11, <1>12 DEF SchedInv
<1> QED
  BY <1>3, <1>4, <1>13 DEF r, q, c

\* When a preempted task keeps the processor, it is the only one at the
\* highest level: the others of its level are queued before it.
LEMMA RotateTakesTurns ==
    ASSUME NEW s, SchedInv(s)
    PROVE  LET r == RotateCurrentRunQueue(s, FALSE)
           IN  CurrentTask(r) = CurrentTask(s) =>
                   {t \in r.awake : r.level[t] = r.current_level} = {CurrentTask(s)}
<1> DEFINE c == CurrentTask(s)
           cl == s.current_level
           q == s.running[cl]
           r == RotateCurrentRunQueue(s, FALSE)
<1> SUFFICES ASSUME CurrentTask(r) = c
             PROVE  {t \in r.awake : r.level[t] = r.current_level} = {c}
  OBVIOUS
<1>1. SchedInv(r) /\ r.level = s.level /\ r.awake = s.awake
      /\ r.running = [s.running EXCEPT ![cl] = RotatedQueue(s, FALSE)]
  <2>1. r.awake = s.awake /\ r = [r EXCEPT !.awake = @ \ {}]
    BY RotateFields DEF SchedInv
  <2> QED
    BY <2>1, RotateInv
<1>2. c \in TaskId /\ s.level[c] = cl /\ r.level[c] = r.current_level
  BY <1>1, CurrentTaskQueued
<1>3. r.current_level = cl
  BY <1>1, <1>2
<1>4. /\ cl \in Level /\ q \in Seq(TaskId) /\ q # <<>> /\ c = Head(q) /\ Distinct(q)
      /\ s.running \in [Level -> Seq(TaskId)]
  BY DEF SchedInv, SchedType, LevelQueue, QueuesHoldAwake, CurrentTask
<1>5. /\ r.running[cl] = Append(Tail(q), c)
      /\ c = Head(Append(Tail(q), c))
  BY <1>1, <1>3, <1>4 DEF RotatedQueue, LevelQueue, CurrentTask
<1>6. /\ Tail(q) \in Seq(TaskId)
      /\ Elems(Tail(q)) = Elems(q) \ {c}
  BY <1>4, TailQueue
<1>7. Tail(q) = <<>>
  <2> SUFFICES ASSUME Tail(q) # <<>> PROVE FALSE
    OBVIOUS
  <2>1. c = Head(Tail(q))
    BY <1>2, <1>5, <1>6, AppendQueue
  <2> QED
    BY <2>1, <1>6, TailQueue
<1>8. Elems(r.running[cl]) = {c}
  <2>1. Elems(Tail(q)) = {}
    BY <1>6, <1>7, EmptyQueue
  <2> QED
    BY <2>1, <1>2, <1>5, <1>6, AppendQueue
<1> QED
  BY <1>1, <1>3, <1>4, <1>8 DEF SchedInv, QueuesHoldAwake

\* Waking a sleeping task queues it and leaves the current task in place.
LEMMA WakeSleeperInv ==
    ASSUME NEW s, SchedInv(s), NEW t \in TaskId, t \notin s.awake,
           NEW lv \in Level
    PROVE  LET z == [s EXCEPT !.level[t] = lv,
                              !.awake = @ \cup {t},
                              !.running[lv] = Append(@, t),
                              !.level_changed = @ \/ lv > s.current_level]
           IN  /\ SchedInv(z)
               /\ CurrentTask(z) = CurrentTask(s)
               /\ z.awake = s.awake \cup {t}
               /\ z.level = [s.level EXCEPT ![t] = lv]
<1> DEFINE cl == s.current_level
           q  == Append(s.running[lv], t)
           z  == [s EXCEPT !.level[t] = lv,
                           !.awake = @ \cup {t},
                           !.running[lv] = Append(@, t),
                           !.level_changed = @ \/ lv > s.current_level]
<1>1. /\ s \in SchedType /\ cl \in Level /\ s.running \in [Level -> Seq(TaskId)]
      /\ s.level \in [TaskId -> Level] /\ s.awake \in SUBSET TaskId
      /\ s.level_changed \in BOOLEAN
      /\ s.running[cl] # <<>>
      /\ \A l \in Level : /\ Elems(s.running[l]) = {u \in s.awake : s.level[u] = l}
                          /\ Distinct(s.running[l])
      /\ s.level_changed \/ \A l \in Level : l > cl => s.running[l] = <<>>
      /\ Idle \in s.awake
  BY DEF SchedInv, SchedType, LevelQueue, QueuesHoldAwake, RescanDue
<1>2. /\ q \in Seq(TaskId) /\ q # <<>> /\ Elems(q) = Elems(s.running[lv]) \cup {t}
      /\ Distinct(q)
      /\ s.running[lv] # <<>> => Head(q) = Head(s.running[lv])
  BY <1>1, AppendQueue
<1>3. /\ z.running = [s.running EXCEPT ![lv] = q]
      /\ z.level = [s.level EXCEPT ![t] = lv]
      /\ z.awake = s.awake \cup {t}
      /\ z.current_level = cl
      /\ z.level_changed = (s.level_changed \/ lv > cl)
      /\ z \in SchedType
  BY <1>1, <1>2 DEF SchedType
<1> HIDE DEF z, q
<1>4. QueuesHoldAwake(z)
  <2> SUFFICES ASSUME NEW l \in Level
               PROVE  /\ Elems(z.running[l]) = {u \in z.awake : z.level[u] = l}
                      /\ Distinct(z.running[l])
    BY DEF QueuesHoldAwake
  <2>1. CASE l = lv
    BY <2>1, <1>1, <1>2, <1>3
  <2>2. CASE l # lv
    BY <2>2, <1>1, <1>3
  <2> QED
    BY <2>1, <2>2
<1>5. RescanDue(z)
  <2> SUFFICES ASSUME ~z.level_changed, NEW l \in Level, l > cl
               PROVE  z.running[l] = <<>>
    BY <1>3 DEF RescanDue
  <2>1. ~s.level_changed /\ ~(lv > cl)
    BY <1>3
  <2>2. s.running[l] = <<>>
    BY <1>1, <2>1
  <2>3. l # lv
    BY <2>1
  <2> QED
    BY <2>2, <2>3, <1>1, <1>3
<1>6. LevelQueue(z) # <<>> /\ CurrentTask(z) = CurrentTask(s)
  <2>1. CASE cl = lv
    BY <2>1, <1>1, <1>2, <1>3 DEF LevelQueue, CurrentTask
  <2>2. CASE cl # lv
    BY <2>2, <1>1, <1>3 DEF LevelQueue, CurrentTask
  <2> QED
    BY <2>1, <2>2
<1>7. SchedInv(z)
  BY <1>1, <1>3, <1>4, <1>5, <1>6 DEF SchedInv
<1> QED
  BY <1>3, <1>6, <1>7 DEF z

\* Moving an awake task that is not current leaves the current one in place.
LEMMA MoveOtherInv ==
    ASSUME NEW s, SchedInv(s), NEW t \in s.awake, t # CurrentTask(s),
           NEW lv \in Level, lv # s.level[t]
    PROVE  LET z == MoveOther(s, t, lv)
           IN  /\ SchedInv(z)
               /\ CurrentTask(z) = CurrentTask(s)
               /\ z.awake = s.awake
               /\ z.level = [s.level EXCEPT ![t] = lv]
<1> DEFINE cl == s.current_level
           lt == s.level[t]
           e  == Erase(s.running[lt], t)
           q  == Append(s.running[lv], t)
           z  == MoveOther(s, t, lv)
<1>1. /\ s \in SchedType /\ cl \in Level /\ s.running \in [Level -> Seq(TaskId)]
      /\ s.level \in [TaskId -> Level] /\ s.awake \in SUBSET TaskId
      /\ s.level_changed \in BOOLEAN
      /\ s.running[cl] # <<>>
      /\ \A l \in Level : /\ Elems(s.running[l]) = {u \in s.awake : s.level[u] = l}
                          /\ Distinct(s.running[l])
      /\ s.level_changed \/ \A l \in Level : l > cl => s.running[l] = <<>>
      /\ Idle \in s.awake
      /\ t \in TaskId /\ lt \in Level
  BY DEF SchedInv, SchedType, LevelQueue, QueuesHoldAwake, RescanDue
<1>2. /\ q \in Seq(TaskId) /\ q # <<>> /\ Elems(q) = Elems(s.running[lv]) \cup {t}
      /\ Distinct(q)
      /\ s.running[lv] # <<>> => Head(q) = Head(s.running[lv])
  BY <1>1, AppendQueue
<1>3. /\ e \in Seq(TaskId) /\ Elems(e) = Elems(s.running[lt]) \ {t} /\ Distinct(e)
      /\ s.running[lt] # <<>> /\ t # Head(s.running[lt]) =>
             e # <<>> /\ Head(e) = Head(s.running[lt])
  BY <1>1, EraseQueue
<1>4. /\ z.running = [[s.running EXCEPT ![lt] = e] EXCEPT ![lv] = q]
      /\ z.level = [s.level EXCEPT ![t] = lv]
      /\ z.awake = s.awake
      /\ z.current_level = cl
      /\ z.level_changed = (s.level_changed \/ lv > cl)
      /\ z \in SchedType
  BY <1>1, <1>2, <1>3 DEF SchedType, MoveOther
<1> HIDE DEF z, q, e
<1>5. /\ z.running[lt] = e /\ z.running[lv] = q
      /\ \A l \in Level : l # lt /\ l # lv => z.running[l] = s.running[l]
  BY <1>1, <1>4
<1>6. QueuesHoldAwake(z)
  <2> SUFFICES ASSUME NEW l \in Level
               PROVE  /\ Elems(z.running[l]) = {u \in z.awake : z.level[u] = l}
                      /\ Distinct(z.running[l])
    BY DEF QueuesHoldAwake
  <2>1. CASE l = lv
    BY <2>1, <1>1, <1>2, <1>4, <1>5
  <2>2. CASE l = lt
    BY <2>2, <1>1, <1>3, <1>4, <1>5
  <2>3. CASE l # lv /\ l # lt
    BY <2>3, <1>1, <1>4, <1>5
  <2> QED
    BY <2>1, <2>2, <2>3
<1>7. RescanDue(z)
  <2> SUFFICES ASSUME ~z.level_changed, NEW l \in Level, l > cl
               PROVE  z.running[l] = <<>>
    BY <1>4 DEF RescanDue
  <2>1. ~s.level_changed /\ ~(lv > cl)
    BY <1>4
  <2>2. s.running[l] = <<>> /\ l # lv
    BY <1>1, <2>1
  <2>3. l # lt
    <3>1. t \in Elems(s.running[lt])
      BY <1>1
    <3> QED
      BY <3>1, <2>2, <1>1, EmptyQueue
  <2> QED
    BY <2>2, <2>3, <1>5
<1>8. LevelQueue(z) # <<>> /\ CurrentTask(z) = CurrentTask(s)
  <2>1. CASE cl = lv
    BY <2>1, <1>1, <1>2, <1>4, <1>5 DEF LevelQueue, CurrentTask
  <2>2. CASE cl = lt
    BY <2>2, <1>1, <1>3, <1>4, <1>5 DEF LevelQueue, CurrentTask
  <2>3. CASE cl # lv /\ cl # lt
    BY <2>3, <1>1, <1>4, <1>5 DEF LevelQueue, CurrentTask
  <2> QED
    BY <2>1, <2>2, <2>3
<1>9. SchedInv(z)
  BY <1>1, <1>4, <1>6, <1>7, <1>8 DEF SchedInv
<1> QED
  BY <1>4, <1>8, <1>9 DEF z

\* Moving the current task takes the current level with it, so it stays current.
LEMMA MoveCurrentInv ==
    ASSUME NEW s, SchedInv(s), NEW lv \in Level, lv # s.current_level
    PROVE  LET t == CurrentTask(s)
               z == MoveCurrent(s, t, lv)
           IN  /\ SchedInv(z)
               /\ CurrentTask(z) = t
               /\ z.awake = s.awake
               /\ z.level = [s.level EXCEPT ![t] = lv]
<1> DEFINE cl == s.current_level
           t  == CurrentTask(s)
           e  == Tail(s.running[cl])
           q  == <<t>> \o s.running[lv]
           z  == MoveCurrent(s, t, lv)
<1>1. /\ s \in SchedType /\ cl \in Level /\ s.running \in [Level -> Seq(TaskId)]
      /\ s.level \in [TaskId -> Level] /\ s.awake \in SUBSET TaskId
      /\ s.level_changed \in BOOLEAN
      /\ s.running[cl] # <<>>
      /\ \A l \in Level : /\ Elems(s.running[l]) = {u \in s.awake : s.level[u] = l}
                          /\ Distinct(s.running[l])
      /\ s.level_changed \/ \A l \in Level : l > cl => s.running[l] = <<>>
      /\ Idle \in s.awake
      /\ t = Head(s.running[cl])
  BY DEF SchedInv, SchedType, LevelQueue, QueuesHoldAwake, RescanDue, CurrentTask
<1>2. t \in TaskId /\ t \in s.awake /\ s.level[t] = cl
  BY CurrentTaskQueued
<1>3. /\ e \in Seq(TaskId) /\ Elems(e) = Elems(s.running[cl]) \ {t} /\ Distinct(e)
  BY <1>1, TailQueue
<1> HIDE DEF t
<1>4. /\ q \in Seq(TaskId) /\ q # <<>> /\ Elems(q) = Elems(s.running[lv]) \cup {t}
      /\ Distinct(q)
      /\ Head(q) = t
  BY <1>1, <1>2, ConsQueue
<1>5. /\ z.running = [[s.running EXCEPT ![cl] = e] EXCEPT ![lv] = q]
      /\ z.level = [s.level EXCEPT ![t] = lv]
      /\ z.awake = s.awake
      /\ z.current_level = lv
      /\ z.level_changed = (s.level_changed \/ lv < cl)
      /\ z \in SchedType
  BY <1>1, <1>2, <1>3, <1>4 DEF SchedType, MoveCurrent
<1> HIDE DEF z, q, e
<1>6. /\ z.running[cl] = e /\ z.running[lv] = q
      /\ \A l \in Level : l # cl /\ l # lv => z.running[l] = s.running[l]
  BY <1>1, <1>5
<1>7. QueuesHoldAwake(z)
  <2> SUFFICES ASSUME NEW l \in Level
               PROVE  /\ Elems(z.running[l]) = {u \in z.awake : z.level[u] = l}
                      /\ Distinct(z.running[l])
    BY DEF QueuesHoldAwake
  <2>1. CASE l = lv
    BY <2>1, <1>1, <1>2, <1>4, <1>5, <1>6
  <2>2. CASE l = cl
    BY <2>2, <1>1, <1>2, <1>3, <1>5, <1>6
  <2>3. CASE l # lv /\ l # cl
    BY <2>3, <1>1, <1>2, <1>5, <1>6
  <2> QED
    BY <2>1, <2>2, <2>3
<1>8. RescanDue(z)
  <2> SUFFICES ASSUME ~z.level_changed, NEW l \in Level, l > lv
               PROVE  z.running[l] = <<>>
    BY <1>5 DEF RescanDue
  <2>1. ~s.level_changed /\ ~(lv < cl)
    BY <1>5
  <2>2. l > cl
    BY <1>1, <2>1, LevelAssumption DEF Level
  <2>3. s.running[l] = <<>> /\ l # lv /\ l # cl
    BY <1>1, <2>1, <2>2, LevelAssumption DEF Level
  <2> QED
    BY <2>3, <1>6
<1>9. LevelQueue(z) # <<>> /\ CurrentTask(z) = t
  BY <1>4, <1>5, <1>6 DEF LevelQueue, CurrentTask
<1>10. SchedInv(z)
  BY <1>1, <1>5, <1>7, <1>8, <1>9 DEF SchedInv
<1> QED
  BY <1>5, <1>9, <1>10 DEF z, t

\* Wakeup keeps the scheduler consistent and never moves the processor.
LEMMA WakeupInv ==
    ASSUME NEW s, SchedInv(s), NEW t \in TaskId, NEW level \in -1..kMaxLevel
    PROVE  LET z == Wakeup(s, t, level)
           IN  /\ SchedInv(z)
               /\ CurrentTask(z) = CurrentTask(s)
               /\ z.awake = s.awake \cup {t}
               /\ \E lv \in Level : z.level = [s.level EXCEPT ![t] = lv]
<1>1. s.level \in [TaskId -> Level] /\ s.level[t] \in Level
  BY DEF SchedInv, SchedType
<1>2. ~(level < 0) => level \in Level
  BY LevelAssumption DEF Level
<1>3. CASE t \notin s.awake
  <2> DEFINE lv == IF level < 0 THEN s.level[t] ELSE level
             z == [s EXCEPT !.level[t] = lv,
                            !.awake = @ \cup {t},
                            !.running[lv] = Append(@, t),
                            !.level_changed = @ \/ lv > s.current_level]
  <2>1. lv \in Level
    BY <1>1, <1>2
  <2>2. Wakeup(s, t, level) = z
    BY <1>3 DEF Wakeup
  <2> HIDE DEF lv
  <2>3. /\ SchedInv(z)
        /\ CurrentTask(z) = CurrentTask(s)
        /\ z.awake = s.awake \cup {t}
        /\ z.level = [s.level EXCEPT ![t] = lv]
    BY <1>3, <2>1, WakeSleeperInv
  <2> HIDE DEF z
  <2> QED
    BY <2>1, <2>2, <2>3
<1>4. CASE t \in s.awake
  <2>1. Wakeup(s, t, level) = ChangeLevelRunning(s, t, level)
    BY <1>4 DEF Wakeup
  <2>2. CASE level < 0 \/ level = s.level[t]
    <3>1. Wakeup(s, t, level) = s
      BY <2>1, <2>2 DEF ChangeLevelRunning
    <3>2. s.level = [s.level EXCEPT ![t] = s.level[t]]
      BY <1>1
    <3> QED
      BY <3>1, <3>2, <1>1, <1>4
  <2>3. CASE ~(level < 0 \/ level = s.level[t]) /\ t # CurrentTask(s)
    <3>1. Wakeup(s, t, level) = MoveOther(s, t, level)
      BY <2>1, <2>3 DEF ChangeLevelRunning
    <3>2. /\ SchedInv(MoveOther(s, t, level))
          /\ CurrentTask(MoveOther(s, t, level)) = CurrentTask(s)
          /\ MoveOther(s, t, level).awake = s.awake
          /\ MoveOther(s, t, level).level = [s.level EXCEPT ![t] = level]
      BY <2>3, <1>2, <1>4, MoveOtherInv
    <3>3. level \in Level /\ s.awake = s.awake \cup {t}
      BY <2>3, <1>2, <1>4
    <3> QED
      BY <3>1, <3>2, <3>3
  <2>4. CASE ~(level < 0 \/ level = s.level[t]) /\ t = CurrentTask(s)
    <3>1. Wakeup(s, t, level) = MoveCurrent(s, t, level)
      BY <2>1, <2>4 DEF ChangeLevelRunning
    <3>2. level # s.current_level
      BY <2>4, CurrentTaskQueued
    <3>3. level \in Level /\ s.awake = s.awake \cup {t}
      BY <2>4, <1>2, <1>4
    <3>4. /\ SchedInv(MoveCurrent(s, t, level))
          /\ CurrentTask(MoveCurrent(s, t, level)) = CurrentTask(s)
          /\ MoveCurrent(s, t, level).awake = s.awake
          /\ MoveCurrent(s, t, level).level = [s.level EXCEPT ![t] = level]
      BY <3>2, <3>3, <2>4, MoveCurrentInv
    <3> QED
      BY <3>1, <3>3, <3>4
  <2> QED
    BY <2>2, <2>3, <2>4
<1> QED
  BY <1>3, <1>4

\* Sleep of a task that is not current takes it out of its queue.
LEMMA SleepOtherInv ==
    ASSUME NEW s, SchedInv(s), NEW t \in TaskId, t # CurrentTask(s), t # Idle
    PROVE  LET z == Sleep(s, t)
           IN  /\ SchedInv(z)
               /\ CurrentTask(z) = CurrentTask(s)
               /\ z.awake = s.awake \ {t}
               /\ z.level = s.level
<1>1. CASE t \notin s.awake
  BY <1>1 DEF Sleep
<1>2. CASE t \in s.awake
  <2> DEFINE cl == s.current_level
             lt == s.level[t]
             e  == Erase(s.running[lt], t)
             z  == Sleep(s, t)
  <2>1. /\ s \in SchedType /\ cl \in Level /\ s.running \in [Level -> Seq(TaskId)]
        /\ s.level \in [TaskId -> Level] /\ s.awake \in SUBSET TaskId
        /\ s.level_changed \in BOOLEAN
        /\ s.running[cl] # <<>>
        /\ \A l \in Level : /\ Elems(s.running[l]) = {u \in s.awake : s.level[u] = l}
                            /\ Distinct(s.running[l])
        /\ s.level_changed \/ \A l \in Level : l > cl => s.running[l] = <<>>
        /\ Idle \in s.awake
        /\ lt \in Level
    BY DEF SchedInv, SchedType, LevelQueue, QueuesHoldAwake, RescanDue
  <2>2. /\ e \in Seq(TaskId) /\ Elems(e) = Elems(s.running[lt]) \ {t} /\ Distinct(e)
        /\ s.running[lt] # <<>> /\ t # Head(s.running[lt]) =>
               e # <<>> /\ Head(e) = Head(s.running[lt])
    BY <2>1, EraseQueue
  <2>3. /\ z.running = [s.running EXCEPT ![lt] = e]
        /\ z.level = s.level
        /\ z.awake = s.awake \ {t}
        /\ z.current_level = cl
        /\ z.level_changed = s.level_changed
        /\ z \in SchedType
    BY <1>2, <2>1, <2>2 DEF SchedType, Sleep
  <2> HIDE DEF z, e
  <2>4. QueuesHoldAwake(z)
    <3> SUFFICES ASSUME NEW l \in Level
                 PROVE  /\ Elems(z.running[l]) = {u \in z.awake : z.level[u] = l}
                        /\ Distinct(z.running[l])
      BY DEF QueuesHoldAwake
    <3>1. CASE l = lt
      BY <3>1, <2>1, <2>2, <2>3
    <3>2. CASE l # lt
      BY <3>2, <2>1, <2>3
    <3> QED
      BY <3>1, <3>2
  <2>5. RescanDue(z)
    <3> SUFFICES ASSUME ~z.level_changed, NEW l \in Level, l > cl
                 PROVE  z.running[l] = <<>>
      BY <2>3 DEF RescanDue
    <3>1. s.running[l] = <<>>
      BY <2>1, <2>3
    <3>2. l # lt
      <4>1. t \in Elems(s.running[lt])
        BY <1>2, <2>1
      <4> QED
        BY <4>1, <3>1, <2>1, EmptyQueue
    <3> QED
      BY <3>1, <3>2, <2>1, <2>3
  <2>6. LevelQueue(z) # <<>> /\ CurrentTask(z) = CurrentTask(s)
    <3>1. CASE cl = lt
      BY <3>1, <2>1, <2>2, <2>3 DEF LevelQueue, CurrentTask
    <3>2. CASE cl # lt
      BY <3>2, <2>1, <2>3 DEF LevelQueue, CurrentTask
    <3> QED
      BY <3>1, <3>2
  <2>7. SchedInv(z)
    BY <2>1, <2>3, <2>4, <2>5, <2>6 DEF SchedInv
  <2> QED
    BY <2>3, <2>6, <2>7 DEF z
<1> QED
  BY <1>1, <1>2

\* RotateCurrentRunQueue does not look at the running flags.
LEMMA RotateAwake ==
    ASSUME NEW s \in SchedType, NEW b \in BOOLEAN, LevelQueue(s) # <<>>,
           NEW A \in SUBSET TaskId
    PROVE  RotateCurrentRunQueue([s EXCEPT !.awake = A], b)
               = [RotateCurrentRunQueue(s, b) EXCEPT !.awake = A]
<1> DEFINE a == [s EXCEPT !.awake = A]
           ra == RotateCurrentRunQueue(a, b)
           rs == RotateCurrentRunQueue(s, b)
<1>1. /\ a \in SchedType /\ a.running = s.running /\ a.level = s.level
      /\ a.current_level = s.current_level /\ a.level_changed = s.level_changed
      /\ a.awake = A
  BY DEF SchedType
<1> HIDE DEF a
<1>2. LevelQueue(a) = LevelQueue(s) /\ LevelQueue(a) # <<>>
      /\ CurrentTask(a) = CurrentTask(s)
  BY <1>1 DEF LevelQueue, CurrentTask
<1>3. RotatedQueue(a, b) = RotatedQueue(s, b)
  BY <1>2, Zenon DEF RotatedQueue
<1>4. /\ rs.running = [s.running EXCEPT ![s.current_level] = RotatedQueue(s, b)]
      /\ rs.level = s.level /\ rs.awake = s.awake /\ rs.level_changed = FALSE
      /\ rs.current_level = IF s.level_changed \/ RotatedQueue(s, b) = <<>>
                            THEN HighestLevel(rs.running, s.current_level)
                            ELSE s.current_level
      /\ rs = [running |-> rs.running, current_level |-> rs.current_level,
              level_changed |-> rs.level_changed, level |-> rs.level,
              awake |-> rs.awake]
  BY RotateFields
<1>5. /\ ra.running = [a.running EXCEPT ![a.current_level] = RotatedQueue(a, b)]
      /\ ra.level = a.level /\ ra.awake = a.awake /\ ra.level_changed = FALSE
      /\ ra.current_level = IF a.level_changed \/ RotatedQueue(a, b) = <<>>
                            THEN HighestLevel(ra.running, a.current_level)
                            ELSE a.current_level
      /\ ra = [running |-> ra.running, current_level |-> ra.current_level,
              level_changed |-> ra.level_changed, level |-> ra.level,
              awake |-> ra.awake]
  BY <1>1, <1>2, RotateFields
<1> HIDE DEF ra, rs
<1>6. ra.running = rs.running
  BY <1>1, <1>3, <1>4, <1>5, Zenon
<1>7. ra.level = rs.level /\ ra.level_changed = rs.level_changed /\ ra.awake = A
  BY <1>1, <1>4, <1>5, Zenon
<1>8. ra.current_level = rs.current_level
  BY <1>1, <1>3, <1>4, <1>5, <1>6, Zenon
<1>9. ra = [rs EXCEPT !.awake = A]
  BY <1>4, <1>5, <1>6, <1>7, <1>8
<1> QED
  BY <1>9 DEF ra, rs, a

\* Sleep of the current task: the processor goes to the highest ready level.
LEMMA SleepCurrentInv ==
    ASSUME NEW s, SchedInv(s), CurrentTask(s) # Idle
    PROVE  LET z == Sleep(s, CurrentTask(s))
           IN  /\ SchedInv(z)
               /\ z.awake = s.awake \ {CurrentTask(s)}
               /\ z.level = s.level
               /\ ~z.level_changed
<1> DEFINE c == CurrentTask(s)
           a == [s EXCEPT !.awake = @ \ {c}]
           z == [RotateCurrentRunQueue(s, TRUE) EXCEPT !.awake = @ \ {c}]
<1>1. c \in s.awake
  BY CurrentTaskQueued
<1>2. Sleep(s, c) = RotateCurrentRunQueue(a, TRUE)
  BY <1>1 DEF Sleep
<1>3. RotateCurrentRunQueue(a, TRUE) = z
  <2>1. s \in SchedType /\ LevelQueue(s) # <<>> /\ s.awake \ {c} \in SUBSET TaskId
    BY DEF SchedInv, SchedType
  <2>2. RotateCurrentRunQueue(s, TRUE).awake = s.awake
    BY <2>1, RotateFields
  <2>3. RotateCurrentRunQueue([s EXCEPT !.awake = s.awake \ {c}], TRUE)
            = [RotateCurrentRunQueue(s, TRUE) EXCEPT !.awake = s.awake \ {c}]
    <3> HIDE DEF c
    <3> QED
      BY <2>1, RotateAwake
  <2> QED
    BY <2>2, <2>3
<1>4. SchedInv(z) /\ z.level = s.level /\ z.awake = s.awake \ {c} /\ ~z.level_changed
  BY RotateInv
<1> QED
  BY <1>2, <1>3, <1>4

\* The constructor leaves a consistent scheduler with Main in front.
LEMMA InitSchedInv == SchedInv(InitSched) /\ CurrentTask(InitSched) = Main
<1> USE LevelAssumption, TaskAssumption DEF Level, TaskId, Main, Idle
<1> DEFINE Q(lv) == IF lv = kMaxLevel THEN <<Main>>
                    ELSE IF lv = 0 THEN <<Idle>> ELSE <<>>
           L(t) == IF t = Main THEN kMaxLevel
                   ELSE IF t = Idle THEN 0 ELSE kDefaultLevel
<1>1. /\ InitSched.running = [lv \in Level |-> Q(lv)]
      /\ InitSched.level = [t \in TaskId |-> L(t)]
      /\ InitSched.awake = {1, 2}
  BY DEF InitSched
<1>2. InitSched \in SchedType
  <2>1. \A lv \in Level : Q(lv) \in Seq(TaskId)
    <3>1. <<1>> \in Seq(TaskId) /\ <<2>> \in Seq(TaskId) /\ <<>> \in Seq(TaskId)
      OBVIOUS
    <3> QED
      BY <3>1
  <2>2. \A t \in TaskId : L(t) \in Level
    BY DEF kDefaultLevel
  <2>3. /\ InitSched.running \in [Level -> Seq(TaskId)]
        /\ InitSched.level \in [TaskId -> Level]
        /\ InitSched.awake \in SUBSET TaskId
    <3>1. {1, 2} \in SUBSET TaskId
      OBVIOUS
    <3> HIDE DEF Q, L, Level, TaskId
    <3> QED
      BY <1>1, <2>1, <2>2, <3>1
  <2> HIDE DEF Level, TaskId
  <2>4. kMaxLevel \in Level
    BY DEF Level
  <2> QED
    BY <2>3, <2>4 DEF InitSched, SchedType
<1>7. QueuesHoldAwake(InitSched)
  <2> SUFFICES ASSUME NEW lv \in Level
               PROVE  /\ Elems(Q(lv)) = {t \in {1, 2} : L(t) = lv}
                      /\ Distinct(Q(lv))
    <3>1. {1, 2} \subseteq TaskId
      OBVIOUS
    <3> HIDE DEF Q, L, Level, TaskId
    <3>2. \A lv \in Level :
              /\ InitSched.running[lv] = Q(lv)
              /\ {t \in InitSched.awake : InitSched.level[t] = lv}
                     = {t \in {1, 2} : L(t) = lv}
      BY <1>1, <3>1
    <3> QED
      BY <3>2 DEF QueuesHoldAwake
  <2>1. /\ Elems(<<>>) = {} /\ Distinct(<<>>)
        /\ Elems(<<1>>) = {1} /\ Distinct(<<1>>)
        /\ Elems(<<2>>) = {2} /\ Distinct(<<2>>)
    BY DEF Elems, Distinct
  <2>2. CASE lv = kMaxLevel
    BY <2>1, <2>2
  <2>3. CASE lv = 0
    BY <2>1, <2>3
  <2>4. CASE lv # 0 /\ lv # kMaxLevel
    BY <2>1, <2>4
  <2> QED
    BY <2>2, <2>3, <2>4
<1>3. RescanDue(InitSched)
  BY DEF RescanDue, InitSched
<1>4. LevelQueue(InitSched) # <<>> /\ CurrentTask(InitSched) = Main
  BY DEF LevelQueue, CurrentTask, InitSched
<1>5. Idle \in InitSched.awake
  BY DEF InitSched
<1> QED
  BY <1>2, <1>3, <1>4, <1>5, <1>7 DEF SchedInv
=============================================================================
