----------------------------- MODULE ShellProofs -----------------------------
(***************************************************************************)
(* The shell's safety properties hold for every set of stages, every       *)
(* number of tasks and keys, however long the pipelines.                   *)
(***************************************************************************)
EXTENDS Shell, SequenceTheorems, WellFoundedInduction, TLAPS

\* A task still has its subtask to write to or to wait for; it may still write.
Attached == {"redirect", "run", "finish_write", "wait"}
Writing == {"redirect", "run", "finish_write"}

\* The terminal, the stages that live and those whose exit code nobody has taken.
Present == {t \in ShellTask : t = Terminal \/ t \in tasks \/ finish_tasks[t] # NoExit}

Written(c) == \E t \in TaskId : loc[t].child = c /\ loc[t].pc \in Writing
EndIsQueued(c) == msgs[c] # <<>> /\ msgs[c][Len(msgs[c])] = Message("eof")

\* Ids: those above latest_id are unused, a stage lives until it has finished, and only
\* stages finish.
IdPart ==
    /\ Main \in tasks /\ Terminal \in tasks
    /\ \A t \in tasks : t <= latest_id
    /\ \A t \in TaskId : t > latest_id => msgs[t] = <<>>
    /\ \A t \in TaskId : t > latest_id \/ t \notin ShellTask => loc[t] = Local("prompt", <<>>)
    /\ \A t \in Subtask : t <= latest_id => (t \in tasks <=> loc[t].pc # "ended")
    /\ \A t \in TaskId : finish_tasks[t] # NoExit => t \in Subtask /\ t \notin tasks /\ t <= latest_id
    /\ loc[Terminal].pc \notin {"finish", "ended"}

\* A stage has at most one subtask, created after it, and no two have the same.
LinkPart ==
    /\ \A t \in TaskId :
           /\ loc[t].child # NoTask =>
                  loc[t].child \in Subtask /\ loc[t].child <= latest_id /\ t < loc[t].child
           /\ loc[t].out \in {NoTask, loc[t].child}
           /\ loc[t].pc = "pipe" => loc[t].child = NoTask /\ loc[t].line # <<>>
           /\ loc[t].pc = "prompt" /\ t # Terminal => loc[t].child = NoTask
           /\ loc[t].pc \in {"finish_write", "wait"} => loc[t].child # NoTask
           /\ loc[t].pc \in {"redirect", "run"} => (Len(loc[t].line) = 1 <=> loc[t].child = NoTask)
    /\ \A t, u \in TaskId : loc[t].child = loc[u].child /\ loc[t].child # NoTask => t = u

\* A stage gets messages from its pipe only.
QueuePart == \A c \in Subtask : msgs[c] \in Seq(PipeMessage)

\* What was written into a pipe is read or queued, in front of the end of the input, which
\* comes when nobody writes any more.
PipePart ==
    \A c \in Subtask :
        /\ loc[c].eof => /\ loc[c].got = loc[c].fed
                         /\ msgs[c] = <<>>
                         /\ ~Written(c)
        /\ ~loc[c].eof /\ loc[c].pc \notin {"prompt", "ended"} =>
               /\ \A i \in 1..Len(msgs[c]) : msgs[c][i] = Message("eof") => i = Len(msgs[c])
               /\ loc[c].fed + (IF EndIsQueued(c) THEN 1 ELSE 0) = loc[c].got + Len(msgs[c])
               /\ EndIsQueued(c) => ~Written(c)

\* A stage whose command has ended has read its input to the end, or history tells.
QuitPart ==
    /\ \A t \in Subtask : loc[t].pc \in {"finish_write", "wait", "set_code", "finish", "ended"} =>
           loc[t].eof \/ history.quit \/ history.failed
    /\ history.freed => history.quit \/ history.failed

\* The subtask of a stage that may wait for it lives or has left its exit code; a
\* registered waiter waits.
WaitPart ==
    /\ \A t \in TaskId : loc[t].pc \in Attached /\ loc[t].child # NoTask =>
           loc[t].child \in tasks \/ finish_tasks[loc[t].child] # NoExit
    /\ \A c \in TaskId : finish_waiter[c] # NoTask =>
           /\ c \in tasks
           /\ loc[finish_waiter[c]].pc = "wait" /\ loc[finish_waiter[c]].child = c

\* A task sleeps only with nothing to do, or registered as the waiter of its subtask.
SleepPart ==
    /\ Main \notin awake => msgs[Main] = <<>> /\ main_msg = <<>>
    /\ \A t \in ShellTask \cap tasks : t \notin awake =>
           \/ loc[t].pc = "prompt" /\ msgs[t] = <<>>
           \/ loc[t].pc = "wait" /\ finish_waiter[loc[t].child] = t

\* Until a redirect fails the stages form one chain in the order of their ids: all but the
\* last are attached to the next.
ChainPart ==
    ~history.failed =>
        \A u, v \in Present : u < v =>
            /\ loc[u].pc \in Attached
            /\ loc[u].child # NoTask /\ loc[u].child <= v

\* Whoever is done with its command and its subtask has the result of the last stage.
ResultPart ==
    ~history.failed =>
        /\ loc[Terminal].pc = "prompt" => last_exit_code = history.result
        /\ \A t \in ShellTask : loc[t].pc = "set_code" => loc[t].exit_code = history.result
        /\ \A t \in ShellTask : loc[t].pc = "finish" => last_exit_code = history.result
        /\ \A t \in TaskId : finish_tasks[t] # NoExit => finish_tasks[t] = history.result

\* The inductive invariant.
IInv ==
    /\ TypeOK
    /\ IdPart
    /\ LinkPart
    /\ QueuePart
    /\ PipePart
    /\ QuitPart
    /\ WaitPart
    /\ SleepPart
    /\ ChainPart
    /\ ResultPart

-----------------------------------------------------------------------------
(* What the parts say of one state. *)

LEMMA Ids ==
    /\ Main \in TaskId /\ Terminal \in TaskId /\ Terminal \in ShellTask
    /\ Subtask \subseteq TaskId /\ Subtask \subseteq ShellTask /\ ShellTask \subseteq TaskId
    /\ Main \notin ShellTask /\ Terminal \notin Subtask /\ NoTask \notin TaskId
    /\ Main # Terminal /\ Main \notin Subtask
    /\ \A t \in ShellTask : t = Terminal \/ t \in Subtask
    /\ \A t \in Subtask : Terminal < t
    /\ TaskId \subseteq Nat
  BY BoundAssumption DEF TaskId, Subtask, ShellTask, Main, Terminal, NoTask

\* The fields of the locals.
LEMMA LocFacts ==
    ASSUME TypeOK, NEW t \in TaskId
    PROVE  /\ loc \in [TaskId -> LocalType] /\ loc[t] \in LocalType
           /\ loc[t].pc \in Pc /\ loc[t].line \in Seq(Stage \cup {NotFound})
           /\ loc[t].out \in TaskId \cup {NoTask} /\ loc[t].child \in TaskId \cup {NoTask}
           /\ loc[t].exit_code \in ExitCode /\ loc[t].writes \in 0..MaxWrites
           /\ loc[t].eof \in BOOLEAN /\ loc[t].fed \in Nat /\ loc[t].got \in Nat
<1>1. loc \in [TaskId -> LocalType]
  BY DEF TypeOK
<1>2. loc[t] \in LocalType
  BY <1>1
<1> QED
  BY <1>1, <1>2 DEF LocalType

\* A step that gives task t other locals.
LEMMA LocSet ==
    ASSUME TypeOK, NEW t \in TaskId, NEW r \in LocalType, loc' = [loc EXCEPT ![t] = r]
    PROVE  /\ loc' \in [TaskId -> LocalType]
           /\ loc'[t] = r
           /\ \A u \in TaskId : u # t => loc'[u] = loc[u]
<1>1. loc \in [TaskId -> LocalType]
  BY DEF TypeOK
<1> QED
  BY <1>1

LEMMA FreshLocal ==
    ASSUME NEW line \in Seq(Stage \cup {NotFound}), NEW pc \in Pc
    PROVE  /\ Local(pc, line) \in LocalType
           /\ Local(pc, line).pc = pc /\ Local(pc, line).line = line
           /\ Local(pc, line).child = NoTask /\ Local(pc, line).out = NoTask
           /\ Local(pc, line).eof = FALSE
           /\ Local(pc, line).fed = 0 /\ Local(pc, line).got = 0
  BY BoundAssumption DEF Local, LocalType, ExitCode

LEMMA AppendQueue ==
    ASSUME NEW S, NEW q \in Seq(S), NEW m \in S
    PROVE  /\ Append(q, m) \in Seq(S) /\ Append(q, m) # <<>>
           /\ Len(q) \in Nat /\ Len(Append(q, m)) = Len(q) + 1
           /\ \A i \in 1..Len(q) : Append(q, m)[i] = q[i]
           /\ Append(q, m)[Len(q) + 1] = m
  OBVIOUS

LEMMA TailQueue ==
    ASSUME NEW S, NEW q \in Seq(S), q # <<>>
    PROVE  /\ Tail(q) \in Seq(S) /\ Head(q) \in S
           /\ Len(q) \in Nat /\ Len(q) >= 1 /\ Len(Tail(q)) = Len(q) - 1
           /\ Head(q) = q[1]
           /\ \A i \in 1..(Len(q) - 1) : Tail(q)[i] = q[i + 1]
           /\ Tail(q) = <<>> <=> Len(q) = 1
<1>1. /\ Tail(q) \in Seq(S) /\ Head(q) \in S
      /\ Len(q) \in Nat /\ Len(q) >= 1 /\ Len(Tail(q)) = Len(q) - 1
      /\ Head(q) = q[1]
      /\ \A i \in 1..(Len(q) - 1) : Tail(q)[i] = q[i + 1]
  OBVIOUS
<1>2. \A e \in Seq(S) : e = <<>> <=> Len(e) = 0
  OBVIOUS
<1>3. Tail(q) = <<>> <=> Len(Tail(q)) = 0
  BY <1>1, <1>2
<1>4. Len(q) - 1 = 0 <=> Len(q) = 1
  BY <1>1
<1> QED
  BY <1>1, <1>3, <1>4

\* A task that is in the middle of a command is a live task of the shell.
LEMMA BusyIsLive ==
    ASSUME IInv, NEW t \in TaskId, loc[t].pc \notin {"prompt", "ended"}
    PROVE  t \in ShellTask /\ t \in tasks /\ t <= latest_id
<1>1. Local("prompt", <<>>).pc = "prompt"
  BY DEF Local
<1>2. t \in ShellTask /\ ~(t > latest_id)
  BY <1>1 DEF IInv, IdPart
<1>3. latest_id \in Nat /\ t \in Nat
  BY Ids, BoundAssumption DEF IInv, TypeOK
<1> QED
  BY <1>2, <1>3, Ids DEF IInv, IdPart

\* A task that takes a step, and where it is.
LEMMA AtFacts ==
    ASSUME IInv, NEW t \in ShellTask, NEW pc, At(t, pc)
    PROVE  /\ t \in tasks /\ t \in awake /\ t \in TaskId /\ loc[t].pc = pc
           /\ t \in Present /\ ~halted
  BY Ids DEF At, Runs, Present

\* The initial state.
LEMMA InitIInv == Init => IInv
<1> SUFFICES ASSUME Init PROVE IInv
  OBVIOUS
<1> USE DEF Init
<1> DEFINE L == Local("prompt", <<>>)
<1>1. /\ L \in LocalType /\ L.pc = "prompt" /\ L.child = NoTask /\ L.out = NoTask
      /\ L.eof = FALSE
  <2>1. <<>> \in Seq(Stage \cup {NotFound}) /\ "prompt" \in Pc
    BY DEF Pc
  <2> QED
    BY <2>1, FreshLocal
<1>2. \A t \in TaskId : /\ loc[t] = L /\ msgs[t] = <<>>
                        /\ finish_tasks[t] = NoExit /\ finish_waiter[t] = NoTask
  OBVIOUS
<1> HIDE DEF L
<1>3. TypeOK
  <2>1. 1..3 \subseteq TaskId /\ {Main, Terminal} \subseteq 1..3
    BY BoundAssumption DEF TaskId, Main, Terminal
  <2>2. loc \in [TaskId -> LocalType]
    BY <1>1 DEF L
  <2>3. msgs \in [TaskId -> Seq(KeyMessage \cup PipeMessage)]
    <3>1. <<>> \in Seq(KeyMessage \cup PipeMessage)
      OBVIOUS
    <3> QED
      BY <3>1
  <2>4. 0 \in ExitCode /\ latest_id \in 3..MaxTasks /\ keys \in 0..MaxKeys
    BY BoundAssumption DEF ExitCode
  <2>5. main_msg \in Seq(KeyMessage \cup PipeMessage) /\ line_buf \in Seq(Stage)
    OBVIOUS
  <2>6. /\ finish_tasks \in [TaskId -> ExitCode \cup {NoExit}]
        /\ finish_waiter \in [TaskId -> TaskId \cup {NoTask}]
    OBVIOUS
  <2>7. history \in [failed : BOOLEAN, quit : BOOLEAN, freed : BOOLEAN, result : ExitCode]
    BY <2>4
  <2>8. tasks \subseteq TaskId /\ awake \subseteq tasks /\ halted \in BOOLEAN
        /\ last_exit_code \in ExitCode
    BY <2>1, <2>4
  <2> QED
    BY <2>2, <2>3, <2>4, <2>5, <2>6, <2>7, <2>8 DEF TypeOK
<1>4. IdPart
  <2>1. Main \in 1..3 /\ Terminal \in 1..3 /\ \A t \in 1..3 : t <= 3
    BY DEF Main, Terminal
  <2>2. \A t \in Subtask : ~(t <= 3)
    BY BoundAssumption DEF Subtask
  <2>3. loc[Terminal].pc = "prompt"
    BY <1>1, <1>2, Ids
  <2> QED
    BY <1>2, <2>1, <2>2, <2>3 DEF IdPart, L
<1>5. LinkPart
  BY <1>1, <1>2 DEF LinkPart
<1>6. QueuePart /\ PipePart /\ QuitPart
  BY <1>1, <1>2, Ids DEF QueuePart, PipePart, QuitPart
<1>7. WaitPart /\ SleepPart
  <2>1. \A t \in ShellTask \cap tasks : t \in awake
    BY BoundAssumption DEF ShellTask, Subtask, Terminal
  <2> QED
    BY <1>1, <1>2, <2>1 DEF WaitPart, SleepPart, Attached
<1>8. ChainPart
  <2>1. Present \subseteq {Terminal}
    <3>1. \A t \in Subtask : t \notin tasks /\ finish_tasks[t] = NoExit
      BY <1>2, Ids, BoundAssumption DEF Subtask
    <3> QED
      BY <3>1, Ids DEF Present
  <2>2. ~(Terminal < Terminal)
    BY DEF Terminal
  <2> QED
    BY <2>1, <2>2 DEF ChainPart
<1>9. ResultPart
  BY <1>1, <1>2, Ids DEF ResultPart
<1> QED
  BY <1>3, <1>4, <1>5, <1>6, <1>7, <1>8, <1>9 DEF IInv

-----------------------------------------------------------------------------
(* Steps that leave the commands alone. *)

\* A step that changes no locals, and no queue of a stage but one at the prompt.
LEMMA LocKept ==
    ASSUME IInv,
           UNCHANGED <<tasks, latest_id, loc, finish_tasks, finish_waiter, last_exit_code, history>>,
           \A t \in TaskId : t > latest_id => msgs'[t] = <<>>,
           \A c \in Subtask : \/ msgs'[c] = msgs[c]
                              \/ /\ loc[c].pc = "prompt" /\ ~loc[c].eof
                                 /\ msgs'[c] \in Seq(PipeMessage)
    PROVE  /\ IdPart' /\ LinkPart' /\ QueuePart' /\ PipePart'
           /\ QuitPart' /\ WaitPart' /\ ChainPart' /\ ResultPart'
<1>1. \A c : Written(c)' <=> Written(c)
  BY DEF Written
<1>2. Present' = Present
  BY DEF Present
<1>3. IdPart'
  BY DEF IInv, IdPart
<1>4. LinkPart'
  BY DEF IInv, LinkPart
<1>5. QueuePart'
  BY DEF IInv, QueuePart
<1>6. PipePart'
  <2> SUFFICES ASSUME NEW c \in Subtask
               PROVE  /\ loc[c].eof => /\ loc[c].got = loc[c].fed
                                       /\ msgs'[c] = <<>>
                                       /\ ~Written(c)
                      /\ ~loc[c].eof /\ loc[c].pc \notin {"prompt", "ended"} =>
                             /\ \A i \in 1..Len(msgs'[c]) : msgs'[c][i] = Message("eof") => i = Len(msgs'[c])
                             /\ loc[c].fed + (IF EndIsQueued(c)' THEN 1 ELSE 0)
                                    = loc[c].got + Len(msgs'[c])
                             /\ EndIsQueued(c)' => ~Written(c)
    BY <1>1 DEF PipePart
  <2>1. CASE msgs'[c] = msgs[c]
    <3>1. EndIsQueued(c)' <=> EndIsQueued(c)
      BY <2>1 DEF EndIsQueued
    <3> QED
      BY <2>1, <3>1 DEF IInv, PipePart
  <2>2. CASE loc[c].pc = "prompt" /\ ~loc[c].eof
    BY <2>2
  <2> QED
    BY <2>1, <2>2
<1>7. QuitPart' /\ WaitPart'
  BY DEF IInv, QuitPart, WaitPart
<1>8. ChainPart' /\ ResultPart'
  BY <1>2 DEF IInv, ChainPart, ResultPart
<1> QED
  BY <1>3, <1>4, <1>5, <1>6, <1>7, <1>8

\* The queues of tasks not yet created stay empty when a live task's queue changes.
LEMMA UnusedQueues ==
    ASSUME IInv, NEW t \in tasks, NEW q, msgs' = [msgs EXCEPT ![t] = q]
    PROVE  /\ \A u \in TaskId : u > latest_id => msgs'[u] = <<>>
           /\ msgs'[t] = q
           /\ \A u \in TaskId : u # t => msgs'[u] = msgs[u]
<1>1. msgs \in [TaskId -> Seq(KeyMessage \cup PipeMessage)] /\ t \in TaskId
      /\ latest_id \in Nat /\ t \in Nat /\ t <= latest_id
  BY Ids, BoundAssumption DEF IInv, TypeOK, IdPart
<1>2. ~(t > latest_id)
  BY <1>1
<1> QED
  BY <1>1, <1>2 DEF IInv, IdPart

LEMMA TypeKeyStep ==
    ASSUME IInv, NEW k \in KeyMessage, TypeKey(k)
    PROVE  IInv'
<1>1. /\ keys < MaxKeys /\ keys' = keys + 1
      /\ msgs' = [msgs EXCEPT ![Main] = Append(msgs[Main], k)]
      /\ awake' = awake \cup {Main}
      /\ UNCHANGED <<tasks, latest_id, loc, main_msg, line_buf, finish_tasks,
                     finish_waiter, last_exit_code, halted, history>>
  BY DEF TypeKey
<1>2. Main \in tasks /\ Main \in TaskId /\ msgs[Main] \in Seq(KeyMessage \cup PipeMessage)
  BY Ids DEF IInv, IdPart, TypeOK
<1>3. Append(msgs[Main], k) \in Seq(KeyMessage \cup PipeMessage)
  BY <1>2, AppendQueue
<1>4. /\ \A u \in TaskId : u > latest_id => msgs'[u] = <<>>
      /\ \A u \in TaskId : u # Main => msgs'[u] = msgs[u]
  <2> DEFINE q == Append(msgs[Main], k)
  <2>1. msgs' = [msgs EXCEPT ![Main] = q]
    BY <1>1
  <2> HIDE DEF q
  <2> QED
    BY <1>2, <2>1, UnusedQueues
<1>5. TypeOK'
  <2>1. msgs' \in [TaskId -> Seq(KeyMessage \cup PipeMessage)]
    BY <1>1, <1>3 DEF IInv, TypeOK
  <2>2. keys' \in 0..MaxKeys
    BY <1>1, BoundAssumption DEF IInv, TypeOK
  <2>3. awake' \subseteq tasks'
    BY <1>1, <1>2 DEF IInv, TypeOK
  <2> QED
    BY <1>1, <2>1, <2>2, <2>3 DEF IInv, TypeOK
<1>6. SleepPart'
  BY <1>1, <1>4, Ids DEF IInv, SleepPart
<1> QED
  BY <1>1, <1>4, <1>5, <1>6, LocKept, Ids DEF IInv

LEMMA MainReceiveStep ==
    ASSUME IInv, MainReceive
    PROVE  IInv'
<1>1. UNCHANGED <<tasks, latest_id, loc, line_buf, finish_tasks, finish_waiter,
                  last_exit_code, halted, keys, history>>
  BY DEF MainReceive
<1>2. Main \in tasks /\ Main \in TaskId /\ msgs[Main] \in Seq(KeyMessage \cup PipeMessage)
      /\ main_msg = <<>> /\ Main \in awake
  BY Ids DEF IInv, IdPart, TypeOK, MainReceive, Runs
<1>3. CASE msgs[Main] = <<>>
  <2>1. awake' = awake \ {Main} /\ msgs' = msgs /\ main_msg' = main_msg
    BY <1>3 DEF MainReceive
  <2>2. TypeOK'
    BY <1>1, <2>1 DEF IInv, TypeOK
  <2>3. SleepPart'
    BY <1>1, <1>2, <1>3, <2>1, Ids DEF IInv, SleepPart
  <2>4. \A t \in TaskId : t > latest_id => msgs'[t] = <<>>
    BY <2>1 DEF IInv, IdPart
  <2> QED
    BY <1>1, <2>1, <2>2, <2>3, <2>4, LocKept DEF IInv
<1>4. CASE msgs[Main] # <<>>
  <2>1. /\ main_msg' = <<Head(msgs[Main])>> /\ awake' = awake
        /\ msgs' = [msgs EXCEPT ![Main] = Tail(msgs[Main])]
    BY <1>4 DEF MainReceive
  <2>2. /\ Tail(msgs[Main]) \in Seq(KeyMessage \cup PipeMessage)
        /\ Head(msgs[Main]) \in KeyMessage \cup PipeMessage
    BY <1>2, <1>4, TailQueue
  <2> DEFINE q == Tail(msgs[Main])
             m == Head(msgs[Main])
  <2>3. msgs' = [msgs EXCEPT ![Main] = q] /\ main_msg' = <<m>>
    BY <2>1
  <2>4. <<m>> \in Seq(KeyMessage \cup PipeMessage)
    <3>1. m \in KeyMessage \cup PipeMessage
      BY <2>2
    <3> HIDE DEF m
    <3> QED
      BY <3>1
  <2>5. msgs' \in [TaskId -> Seq(KeyMessage \cup PipeMessage)]
    BY <2>1, <2>2 DEF IInv, TypeOK
  <2> HIDE DEF q, m
  <2>6. /\ \A u \in TaskId : u > latest_id => msgs'[u] = <<>>
        /\ \A u \in TaskId : u # Main => msgs'[u] = msgs[u]
    BY <1>2, <2>3, UnusedQueues
  <2>7. TypeOK'
    BY <1>1, <2>1, <2>3, <2>4, <2>5 DEF IInv, TypeOK
  <2>8. SleepPart'
    BY <1>1, <1>2, <2>1, <2>6, Ids DEF IInv, SleepPart
  <2> QED
    BY <1>1, <2>6, <2>7, <2>8, LocKept, Ids DEF IInv
<1> QED
  BY <1>3, <1>4

LEMMA MainForwardStep ==
    ASSUME IInv, MainForward
    PROVE  IInv'
<1>1. /\ main_msg # <<>> /\ main_msg' = <<>> /\ awake' = awake \cup {Terminal}
      /\ msgs' = [msgs EXCEPT ![Terminal] = Append(msgs[Terminal], Head(main_msg))]
      /\ UNCHANGED <<tasks, latest_id, loc, line_buf, finish_tasks, finish_waiter,
                     last_exit_code, halted, keys, history>>
  BY DEF MainForward
<1>2. /\ Terminal \in tasks /\ Terminal \in TaskId /\ Main \in awake
      /\ msgs[Terminal] \in Seq(KeyMessage \cup PipeMessage)
      /\ main_msg \in Seq(KeyMessage \cup PipeMessage)
  BY Ids DEF IInv, IdPart, TypeOK, MainForward, Runs
<1>3. Append(msgs[Terminal], Head(main_msg)) \in Seq(KeyMessage \cup PipeMessage)
  <2>1. Head(main_msg) \in KeyMessage \cup PipeMessage
    BY <1>1, <1>2, TailQueue
  <2> HIDE DEF KeyMessage, PipeMessage
  <2> QED
    BY <1>2, <2>1, AppendQueue
<1>4. /\ \A u \in TaskId : u > latest_id => msgs'[u] = <<>>
      /\ \A u \in TaskId : u # Terminal => msgs'[u] = msgs[u]
  <2> DEFINE q == Append(msgs[Terminal], Head(main_msg))
  <2>1. msgs' = [msgs EXCEPT ![Terminal] = q]
    BY <1>1
  <2> HIDE DEF q
  <2> QED
    BY <1>2, <2>1, UnusedQueues
<1>5. TypeOK'
  <2>1. msgs' \in [TaskId -> Seq(KeyMessage \cup PipeMessage)]
    BY <1>1, <1>3 DEF IInv, TypeOK
  <2>2. awake' \subseteq tasks' /\ main_msg' \in Seq(KeyMessage \cup PipeMessage)
    BY <1>1, <1>2 DEF IInv, TypeOK
  <2> QED
    BY <1>1, <2>1, <2>2 DEF IInv, TypeOK
<1>6. SleepPart'
  BY <1>1, <1>2, <1>4, Ids DEF IInv, SleepPart
<1> QED
  BY <1>1, <1>4, <1>5, <1>6, LocKept, Ids DEF IInv

LEMMA TerminalSleepStep ==
    ASSUME IInv, NEW t \in ShellTask, TerminalSleep(t)
    PROVE  IInv'
<1>1. /\ At(t, "prompt") /\ msgs[t] = <<>> /\ awake' = awake \ {t}
      /\ UNCHANGED <<tasks, latest_id, msgs, loc, main_msg, line_buf, finish_tasks,
                     finish_waiter, last_exit_code, halted, keys, history>>
  BY DEF TerminalSleep
<1>2. t \in tasks /\ t \in TaskId /\ loc[t].pc = "prompt" /\ t # Main
  BY <1>1, AtFacts, Ids
<1>3. TypeOK'
  BY <1>1 DEF IInv, TypeOK
<1>4. SleepPart'
  BY <1>1, <1>2 DEF IInv, SleepPart
<1>5. \A u \in TaskId : u > latest_id => msgs'[u] = <<>>
  BY <1>1 DEF IInv, IdPart
<1> QED
  BY <1>1, <1>3, <1>4, <1>5, LocKept DEF IInv

\* A message is taken off the queue of a task that is awake.
LEMMA TakeStep ==
    ASSUME IInv, NEW t \in ShellTask, t \in tasks, t \in awake, msgs[t] # <<>>,
           msgs' = [msgs EXCEPT ![t] = Tail(@)],
           t \in Subtask => loc[t].pc = "prompt",
           line_buf' \in Seq(Stage),
           UNCHANGED <<tasks, latest_id, awake, loc, main_msg, finish_tasks,
                       finish_waiter, last_exit_code, halted, keys, history>>
    PROVE  IInv'
<1>1. t \in TaskId /\ t # Main /\ msgs[t] \in Seq(KeyMessage \cup PipeMessage)
  BY Ids DEF IInv, TypeOK
<1>2. Tail(msgs[t]) \in Seq(KeyMessage \cup PipeMessage)
  BY <1>1, TailQueue
<1>3. /\ \A u \in TaskId : u > latest_id => msgs'[u] = <<>>
      /\ msgs'[t] = Tail(msgs[t])
      /\ \A u \in TaskId : u # t => msgs'[u] = msgs[u]
  <2> DEFINE q == Tail(msgs[t])
  <2>1. msgs' = [msgs EXCEPT ![t] = q]
    OBVIOUS
  <2>2. q = Tail(msgs[t])
    OBVIOUS
  <2> HIDE DEF q
  <2> QED
    BY <2>1, <2>2, UnusedQueues
<1>4. TypeOK'
  <2>1. msgs' \in [TaskId -> Seq(KeyMessage \cup PipeMessage)]
    BY <1>2 DEF IInv, TypeOK
  <2> QED
    BY <2>1 DEF IInv, TypeOK
<1>5. SleepPart'
  BY <1>1, <1>3, Ids DEF IInv, SleepPart
<1>6. ASSUME NEW c \in Subtask
      PROVE  \/ msgs'[c] = msgs[c]
             \/ /\ loc[c].pc = "prompt" /\ ~loc[c].eof
                /\ msgs'[c] \in Seq(PipeMessage)
  <2>1. CASE c # t
    BY <1>3, <2>1, Ids
  <2>2. CASE c = t
    <3>1. ~loc[c].eof /\ msgs[c] \in Seq(PipeMessage)
      BY <2>2 DEF IInv, PipePart, QueuePart
    <3>2. Tail(msgs[c]) \in Seq(PipeMessage)
      BY <2>2, <3>1, TailQueue
    <3> QED
      BY <1>3, <2>2, <3>1, <3>2
  <2> QED
    BY <2>1, <2>2
<1> QED
  BY <1>3, <1>4, <1>5, <1>6, LocKept DEF IInv

LEMMA ReadTerminalStep ==
    ASSUME IInv, NEW t \in ShellTask, ReadTerminal(t)
    PROVE  IInv'
<1>1. /\ At(t, "run") /\ t = Terminal /\ msgs[t] # <<>> /\ msgs' = [msgs EXCEPT ![t] = Tail(@)]
      /\ UNCHANGED <<tasks, latest_id, awake, loc, main_msg, line_buf, finish_tasks,
                     finish_waiter, last_exit_code, halted, keys, history>>
  BY DEF ReadTerminal
<1>2. t \in tasks /\ t \in awake /\ t \notin Subtask
  BY <1>1, AtFacts, Ids
<1>3. line_buf' \in Seq(Stage)
  BY <1>1 DEF IInv, TypeOK
<1> QED
  BY <1>1, <1>2, <1>3, TakeStep

-----------------------------------------------------------------------------
(* Steps of a command. *)

\* Who is not attached to a next stage is the last of the chain, and the only such.
LEMMA LastInChain ==
    ASSUME IInv, ~history.failed, NEW t \in Present,
           loc[t].pc \notin Attached \/ loc[t].child = NoTask
    PROVE  /\ \A v \in Present : ~(t < v)
           /\ \A v \in Present : loc[v].pc \notin Attached \/ loc[v].child = NoTask => v = t
<1>1. Present \subseteq Nat
  BY Ids DEF Present
<1>2. \A v \in Present : ~(t < v)
  BY DEF IInv, ChainPart
<1>3. ASSUME NEW v \in Present, loc[v].pc \notin Attached \/ loc[v].child = NoTask
      PROVE  ~(v < t)
  BY <1>3 DEF IInv, ChainPart
<1> QED
  BY <1>1, <1>2, <1>3

\* A task's locals change, and with them nothing of what its pipe holds.
LEMMA LocalStep ==
    ASSUME IInv, NEW t \in ShellTask, t \in tasks, t \in awake,
           NEW r \in LocalType, loc' = [loc EXCEPT ![t] = r],
           UNCHANGED <<tasks, latest_id, awake, main_msg, finish_tasks, finish_waiter>>,
           \A u \in TaskId : u # Terminal => msgs'[u] = msgs[u],
           loc[t].pc \notin {"wait", "ended"}, r.pc # "ended",
           t = Terminal => r.pc # "finish",
           t # Terminal => loc[t].pc # "prompt" /\ r.pc # "prompt",
           r.child = loc[t].child \/ r.child = NoTask,
           r.out \in {NoTask, r.child},
           r.pc = "pipe" => r.child = NoTask /\ r.line # <<>>,
           r.pc \in {"finish_write", "wait"} => r.child # NoTask,
           r.pc \in {"redirect", "run"} => (Len(r.line) = 1 <=> r.child = NoTask),
           t # Terminal => r.eof = loc[t].eof /\ r.fed = loc[t].fed /\ r.got = loc[t].got,
           r.child # NoTask /\ r.pc \in Writing => loc[t].pc \in Writing,
           r.child # NoTask /\ r.pc \in Attached => loc[t].pc \in Attached
    PROVE  /\ IdPart' /\ LinkPart' /\ QueuePart' /\ PipePart' /\ WaitPart'
           /\ (t = Terminal \/ msgs' = msgs => SleepPart')
           /\ Present' = Present
           /\ loc' \in [TaskId -> LocalType] /\ loc'[t] = r
           /\ \A u \in TaskId : u # t => loc'[u] = loc[u]
<1>1. t \in TaskId /\ t <= latest_id /\ latest_id \in Nat /\ t \in Nat
  BY Ids, BoundAssumption DEF IInv, IdPart, TypeOK
<1>2. /\ loc' \in [TaskId -> LocalType] /\ loc'[t] = r
      /\ \A u \in TaskId : u # t => loc'[u] = loc[u]
  BY <1>1, LocSet DEF IInv
<1>3. Present' = Present
  BY DEF Present
<1>4. ~(t > latest_id)
  BY <1>1
<1>5. IdPart'
  <2>1. \A u \in TaskId : u > latest_id => msgs'[u] = <<>>
    <3>1. ~(Terminal > latest_id)
      <4>1. Terminal <= latest_id
        BY DEF IInv, IdPart
      <4> QED
        BY <1>1, <4>1 DEF Terminal
    <3> QED
      BY <3>1 DEF IInv, IdPart
  <2>2. \A u \in TaskId : u > latest_id \/ u \notin ShellTask => loc'[u] = Local("prompt", <<>>)
    BY <1>2, <1>4 DEF IInv, IdPart
  <2>3. \A u \in Subtask : u <= latest_id => (u \in tasks <=> loc'[u].pc # "ended")
    BY <1>2, Ids DEF IInv, IdPart
  <2>4. loc'[Terminal].pc \notin {"finish", "ended"}
    BY <1>2, Ids DEF IInv, IdPart
  <2> QED
    BY <2>1, <2>2, <2>3, <2>4 DEF IInv, IdPart
<1>6. LinkPart'
  <2>1. ASSUME NEW u \in TaskId
        PROVE  /\ loc'[u].child # NoTask =>
                      loc'[u].child \in Subtask /\ loc'[u].child <= latest_id /\ u < loc'[u].child
               /\ loc'[u].out \in {NoTask, loc'[u].child}
               /\ loc'[u].pc = "pipe" => loc'[u].child = NoTask /\ loc'[u].line # <<>>
               /\ loc'[u].pc = "prompt" /\ u # Terminal => loc'[u].child = NoTask
               /\ loc'[u].pc \in {"finish_write", "wait"} => loc'[u].child # NoTask
               /\ loc'[u].pc \in {"redirect", "run"} =>
                      (Len(loc'[u].line) = 1 <=> loc'[u].child = NoTask)
    <3>1. CASE u = t
      BY <1>1, <1>2, <3>1 DEF IInv, LinkPart
    <3>2. CASE u # t
      BY <1>2, <3>2 DEF IInv, LinkPart
    <3> QED
      BY <3>1, <3>2
  <2>2. \A u \in TaskId : loc'[u].child = loc[u].child \/ loc'[u].child = NoTask
    BY <1>2
  <2>3. ASSUME NEW u \in TaskId, NEW v \in TaskId,
               loc'[u].child = loc'[v].child, loc'[u].child # NoTask
        PROVE  u = v
    BY <2>2, <2>3 DEF IInv, LinkPart
  <2> QED
    BY <2>1, <2>3 DEF LinkPart
<1>7. QueuePart'
  BY Ids DEF IInv, QueuePart
<1>8. PipePart'
  <2>1. ASSUME NEW c \in Subtask, Written(c)' PROVE Written(c)
    <3>1. PICK u \in TaskId : loc'[u].child = c /\ loc'[u].pc \in Writing
      BY <2>1 DEF Written
    <3>2. loc[u].child = c /\ loc[u].pc \in Writing
      BY <1>2, <3>1, Ids DEF NoTask
    <3> QED
      BY <3>2 DEF Written
  <2>2. ASSUME NEW c \in Subtask
        PROVE  /\ loc'[c].eof = loc[c].eof /\ loc'[c].got = loc[c].got /\ loc'[c].fed = loc[c].fed
               /\ msgs'[c] = msgs[c] /\ (EndIsQueued(c)' <=> EndIsQueued(c))
               /\ loc'[c].pc \notin {"prompt", "ended"} => loc[c].pc \notin {"prompt", "ended"}
    <3>1. msgs'[c] = msgs[c]
      BY Ids
    <3>2. EndIsQueued(c)' <=> EndIsQueued(c)
      BY <3>1 DEF EndIsQueued
    <3> QED
      BY <1>2, <3>1, <3>2, Ids
  <2> QED
    BY <2>1, <2>2 DEF IInv, PipePart
<1>9. WaitPart'
  <2>1. ASSUME NEW u \in TaskId, loc'[u].pc \in Attached, loc'[u].child # NoTask
        PROVE  loc'[u].child \in tasks \/ finish_tasks[loc'[u].child] # NoExit
    <3>1. loc[u].pc \in Attached /\ loc[u].child = loc'[u].child
      BY <1>2, <2>1
    <3> QED
      BY <2>1, <3>1 DEF IInv, WaitPart
  <2>2. ASSUME NEW c \in TaskId, finish_waiter[c] # NoTask
        PROVE  /\ c \in tasks
               /\ loc'[finish_waiter[c]].pc = "wait" /\ loc'[finish_waiter[c]].child = c
    <3>1. /\ c \in tasks /\ finish_waiter[c] \in TaskId
          /\ loc[finish_waiter[c]].pc = "wait" /\ loc[finish_waiter[c]].child = c
      BY <2>2 DEF IInv, WaitPart, TypeOK
    <3>2. finish_waiter[c] # t
      BY <3>1
    <3> QED
      BY <1>2, <3>1, <3>2
  <2> QED
    BY <2>1, <2>2 DEF WaitPart
<1>10. ASSUME t = Terminal \/ msgs' = msgs PROVE SleepPart'
  <2>1. ASSUME NEW u \in ShellTask \cap tasks, u \notin awake
        PROVE  \/ loc'[u].pc = "prompt" /\ msgs'[u] = <<>>
               \/ loc'[u].pc = "wait" /\ finish_waiter[loc'[u].child] = u
    <3>1. u # t /\ u \in TaskId
      BY <2>1, Ids
    <3>2. loc'[u] = loc[u] /\ msgs'[u] = msgs[u]
      BY <1>2, <1>10, <3>1
    <3> QED
      BY <2>1, <3>2 DEF IInv, SleepPart
  <2>2. msgs'[Main] = msgs[Main]
    BY Ids
  <2> QED
    BY <2>1, <2>2 DEF IInv, SleepPart
<1> QED
  BY <1>2, <1>3, <1>5, <1>6, <1>7, <1>8, <1>9, <1>10

LEMMA TerminalReceiveStep ==
    ASSUME IInv, NEW t \in ShellTask, TerminalReceive(t)
    PROVE  IInv'
<1> DEFINE m == Head(msgs[t])
<1>1. /\ At(t, "prompt") /\ msgs[t] # <<>> /\ msgs' = [msgs EXCEPT ![t] = Tail(@)]
      /\ UNCHANGED <<tasks, latest_id, awake, main_msg, finish_tasks, finish_waiter,
                     last_exit_code, halted, keys, history>>
  BY DEF TerminalReceive
<1>2. t \in tasks /\ t \in awake /\ t \in TaskId /\ loc[t].pc = "prompt" /\ t \in Present
  BY <1>1, AtFacts
<1>3. /\ m \in KeyMessage \cup PipeMessage /\ line_buf \in Seq(Stage)
      /\ msgs \in [TaskId -> Seq(KeyMessage \cup PipeMessage)]
      /\ Tail(msgs[t]) \in Seq(KeyMessage \cup PipeMessage)
  <2>1. msgs[t] \in Seq(KeyMessage \cup PipeMessage) /\ line_buf \in Seq(Stage)
        /\ msgs \in [TaskId -> Seq(KeyMessage \cup PipeMessage)]
    BY <1>2 DEF IInv, TypeOK
  <2> QED
    BY <1>1, <2>1, TailQueue
<1>4. ASSUME m.type = "enter" PROVE t = Terminal
  <2> SUFFICES ASSUME t \in Subtask PROVE FALSE
    BY Ids
  <2>1. msgs[t] \in Seq(PipeMessage)
    BY DEF IInv, QueuePart
  <2>2. m \in PipeMessage
    BY <1>1, <2>1, TailQueue
  <2> QED
    BY <1>4, <2>2 DEF PipeMessage, Message
<1>5. CASE line_buf' = line_buf /\ loc' = loc
  BY <1>1, <1>2, <1>3, <1>5, TakeStep
<1>6. CASE m.type = "char" /\ line_buf' = line_buf \o m.text /\ loc' = loc
  <2>1. m.text \in Seq(Stage)
    <3>1. m \in [type : {"char"}, text : {<<s>> : s \in Stage}]
      BY <1>3, <1>6 DEF KeyMessage, PipeMessage, Message
    <3> HIDE DEF m
    <3>2. PICK s \in Stage : m.text = <<s>>
      BY <3>1
    <3> QED
      BY <3>2
  <2>2. line_buf' \in Seq(Stage)
    <3> DEFINE x == m.text
    <3>1. x \in Seq(Stage) /\ line_buf' = line_buf \o x
      BY <1>6, <2>1
    <3> HIDE DEF x
    <3> QED
      BY <1>3, <3>1, ConcatProperties
  <2> QED
    BY <1>1, <1>2, <1>6, <2>2, TakeStep
<1>7. ASSUME NEW L, L = (IF line_buf = <<>> THEN <<NotFound>> ELSE line_buf),
             m.type = "enter", line_buf' = <<>>, loc' = [loc EXCEPT ![t] = Local("pipe", L)]
      PROVE  IInv'
  <2>1. L \in Seq(Stage \cup {NotFound}) /\ L # <<>>
    <3>1. <<NotFound>> \in Seq(Stage \cup {NotFound}) /\ <<NotFound>> # <<>>
      OBVIOUS
    <3>2. line_buf \in Seq(Stage \cup {NotFound})
      BY <1>3
    <3> QED
      BY <1>7, <3>1, <3>2
  <2> DEFINE r == Local("pipe", L)
  <2>2. r \in LocalType /\ r.pc = "pipe" /\ r.line = L /\ r.child = NoTask /\ r.out = NoTask
    <3>1. "pipe" \in Pc
      BY DEF Pc
    <3> QED
      BY <2>1, <3>1, FreshLocal
  <2>3. loc' = [loc EXCEPT ![t] = r]
    BY <1>7
  <2> HIDE DEF r
  <2>4. t = Terminal
    BY <1>4, <1>7
  <2>5. \A u \in TaskId : u # Terminal => msgs'[u] = msgs[u]
    BY <1>1, <1>3, <2>4
  <2>6. /\ IdPart' /\ LinkPart' /\ QueuePart' /\ PipePart' /\ WaitPart' /\ SleepPart'
        /\ Present' = Present
        /\ loc' \in [TaskId -> LocalType] /\ loc'[t] = r
        /\ \A u \in TaskId : u # t => loc'[u] = loc[u]
    BY <1>1, <1>2, <2>1, <2>2, <2>3, <2>4, <2>5, LocalStep
  <2>7. TypeOK'
    <3>1. msgs' \in [TaskId -> Seq(KeyMessage \cup PipeMessage)] /\ line_buf' \in Seq(Stage)
      BY <1>1, <1>2, <1>3, <1>7
    <3> QED
      BY <1>1, <2>6, <3>1 DEF IInv, TypeOK
  <2>8. QuitPart'
    BY <1>1, <2>4, <2>6, Ids DEF IInv, QuitPart
  <2>9. ChainPart'
    <3> SUFFICES ASSUME ~history.failed, NEW u \in Present, NEW v \in Present, u < v
                 PROVE  /\ loc'[u].pc \in Attached
                        /\ loc'[u].child # NoTask /\ loc'[u].child <= v
      BY <1>1, <2>6 DEF ChainPart
    <3>1. u # t
      BY <1>2, LastInChain DEF Attached
    <3>2. u \in TaskId
      BY Ids DEF Present
    <3> QED
      BY <2>6, <3>1, <3>2 DEF IInv, ChainPart
  <2>10. ResultPart'
    BY <1>1, <2>2, <2>4, <2>6, Ids DEF IInv, ResultPart
  <2> QED
    BY <2>6, <2>7, <2>8, <2>9, <2>10 DEF IInv
<1>8. \/ line_buf' = line_buf /\ loc' = loc
      \/ m.type = "char" /\ line_buf' = line_buf \o m.text /\ loc' = loc
      \/ /\ m.type = "enter" /\ line_buf' = <<>>
         /\ loc' = [loc EXCEPT ![t] = Local("pipe", IF line_buf = <<>> THEN <<NotFound>> ELSE line_buf)]
  BY DEF TerminalReceive
<1> QED
  BY <1>5, <1>6, <1>7, <1>8

\* A redirect leaves the stage attached, unless it fails.
LEMMA RedirectStep ==
    ASSUME IInv, NEW t \in ShellTask, Redirect(t)
    PROVE  IInv'
<1> DEFINE f == FirstRedir(loc[t].line)
           b == IF f = "error" THEN Returned(t) ELSE "run"
           o == IF f = "no" THEN loc[t].out ELSE NoTask
           r == [loc[t] EXCEPT !.pc = b, !.out = o]
<1>1. /\ At(t, "redirect") /\ loc' = [loc EXCEPT ![t] = r]
      /\ history' = [history EXCEPT !.failed = @ \/ f = "error"]
      /\ UNCHANGED <<tasks, latest_id, awake, msgs, main_msg, line_buf, finish_tasks,
                     finish_waiter, last_exit_code, halted, keys>>
  BY DEF Redirect
<1>2. t \in tasks /\ t \in awake /\ t \in TaskId /\ loc[t].pc = "redirect" /\ t \in Present
  BY <1>1, AtFacts
<1>3. /\ b \in {"prompt", "finish", "run"} /\ b \in Pc
      /\ t = Terminal => b # "finish"
      /\ t # Terminal => b # "prompt"
      /\ f # "error" => b = "run"
  BY DEF Returned, Pc
<1>4. o \in {NoTask, loc[t].child} /\ o \in TaskId \cup {NoTask}
  BY <1>2, LocFacts DEF IInv, LinkPart
<1>5. history'.failed = (history.failed \/ f = "error")
      /\ history'.quit = history.quit /\ history'.freed = history.freed
      /\ history'.result = history.result
      /\ history' \in [failed : BOOLEAN, quit : BOOLEAN, freed : BOOLEAN, result : ExitCode]
  <2>1. history \in [failed : BOOLEAN, quit : BOOLEAN, freed : BOOLEAN, result : ExitCode]
    BY DEF IInv, TypeOK
  <2> HIDE DEF f
  <2> QED
    BY <1>1, <2>1
<1> HIDE DEF f, b, o
<1>6. /\ r \in LocalType /\ r.pc = b /\ r.out = o /\ r.child = loc[t].child
      /\ r.line = loc[t].line /\ r.eof = loc[t].eof /\ r.fed = loc[t].fed /\ r.got = loc[t].got
      /\ r.exit_code = loc[t].exit_code
  <2>1. loc[t] \in LocalType
    BY <1>2, LocFacts DEF IInv
  <2> QED
    BY <1>3, <1>4, <2>1 DEF LocalType
<1> HIDE DEF r
<1>7. Len(loc[t].line) = 1 <=> loc[t].child = NoTask
  BY <1>2 DEF IInv, LinkPart
<1>8. /\ IdPart' /\ LinkPart' /\ QueuePart' /\ PipePart' /\ WaitPart' /\ SleepPart'
      /\ Present' = Present
      /\ loc' \in [TaskId -> LocalType] /\ loc'[t] = r
      /\ \A u \in TaskId : u # t => loc'[u] = loc[u]
  <2>1. r.out \in {NoTask, r.child}
    BY <1>4, <1>6
  <2>2. loc[t].pc \in Attached /\ loc[t].pc \in Writing
    BY <1>2 DEF Attached, Writing
  <2>3. r.pc \in {"redirect", "run"} => (Len(r.line) = 1 <=> r.child = NoTask)
    BY <1>6, <1>7
  <2>4. r.pc \notin {"pipe", "ended", "finish_write", "wait"}
    BY <1>3, <1>6
  <2> QED
    BY <1>1, <1>2, <1>3, <1>6, <2>1, <2>2, <2>3, <2>4, LocalStep
<1>9. TypeOK'
  BY <1>1, <1>5, <1>8 DEF IInv, TypeOK
<1>10. QuitPart'
  <2>1. r.pc = "finish" => f = "error"
    BY <1>3, <1>6 DEF b
  <2> QED
    BY <1>3, <1>5, <1>6, <1>8, <2>1, Ids DEF IInv, QuitPart
<1>11. ChainPart' /\ ResultPart'
  <2>1. CASE f = "error"
    BY <1>5, <2>1 DEF ChainPart, ResultPart
  <2>2. CASE f # "error"
    <3>1. history'.failed = history.failed
      BY <1>5, <2>2 DEF IInv, TypeOK
    <3>2. r.pc = "run" /\ "run" \in Attached /\ "redirect" \in Attached
      BY <1>3, <1>6, <2>2 DEF Attached
    <3>3. ChainPart'
      <4> SUFFICES ASSUME ~history.failed, NEW u \in Present, NEW v \in Present, u < v
                   PROVE  /\ loc'[u].pc \in Attached
                          /\ loc'[u].child # NoTask /\ loc'[u].child <= v
        BY <1>8, <3>1 DEF ChainPart
      <4>1. loc'[u].child = loc[u].child /\ (loc[u].pc \in Attached => loc'[u].pc \in Attached)
        <5>1. u \in TaskId
          BY Ids DEF Present
        <5> QED
          BY <1>6, <1>8, <3>2, <5>1
      <4> QED
        BY <4>1 DEF IInv, ChainPart
    <3>4. ResultPart'
      BY <1>1, <1>2, <1>5, <1>8, <3>1, <3>2, Ids DEF IInv, ResultPart
    <3> QED
      BY <3>3, <3>4
  <2> QED
    BY <2>1, <2>2
<1> QED
  BY <1>8, <1>9, <1>10, <1>11 DEF IInv

\* The command of a stage ends; the last stage gives the result.
LEMMA ExitStep ==
    ASSUME IInv, NEW t \in ShellTask, NEW code \in ExitCode, Exit(t, code)
    PROVE  IInv'
<1> DEFINE b == IF loc[t].child = NoTask THEN "set_code" ELSE "finish_write"
           r == [loc[t] EXCEPT !.exit_code = code, !.pc = b]
           q == t \in Subtask /\ ~loc[t].eof
           res == IF Len(loc[t].line) = 1 THEN code ELSE history.result
<1>1. /\ At(t, "run") /\ loc' = [loc EXCEPT ![t] = r]
      /\ history' = [history EXCEPT !.quit = @ \/ q, !.result = res]
      /\ UNCHANGED <<tasks, latest_id, awake, msgs, main_msg, line_buf, finish_tasks,
                     finish_waiter, last_exit_code, halted, keys>>
  BY DEF Exit
<1>2. t \in tasks /\ t \in awake /\ t \in TaskId /\ loc[t].pc = "run" /\ t \in Present
  BY <1>1, AtFacts
<1>3. /\ b \in {"set_code", "finish_write"} /\ b \in Pc
      /\ b = "set_code" <=> loc[t].child = NoTask
  BY DEF Pc
<1>4. /\ history'.failed = history.failed /\ history'.freed = history.freed
      /\ history'.quit = (history.quit \/ q) /\ history'.result = res
      /\ history' \in [failed : BOOLEAN, quit : BOOLEAN, freed : BOOLEAN, result : ExitCode]
  <2>1. history \in [failed : BOOLEAN, quit : BOOLEAN, freed : BOOLEAN, result : ExitCode]
    BY DEF IInv, TypeOK
  <2>2. res \in ExitCode
    BY <2>1
  <2>3. q \in BOOLEAN
    OBVIOUS
  <2> HIDE DEF q, res
  <2> QED
    BY <1>1, <2>1, <2>2, <2>3
<1> HIDE DEF b
<1>5. /\ r \in LocalType /\ r.pc = b /\ r.out = loc[t].out /\ r.child = loc[t].child
      /\ r.line = loc[t].line /\ r.eof = loc[t].eof /\ r.fed = loc[t].fed /\ r.got = loc[t].got
      /\ r.exit_code = code
  <2>1. loc[t] \in LocalType
    BY <1>2, LocFacts DEF IInv
  <2> QED
    BY <1>3, <2>1 DEF LocalType
<1> HIDE DEF r
<1>6. /\ Len(loc[t].line) = 1 <=> loc[t].child = NoTask
      /\ loc[t].out \in {NoTask, loc[t].child}
  BY <1>2 DEF IInv, LinkPart
<1>7. /\ IdPart' /\ LinkPart' /\ QueuePart' /\ PipePart' /\ WaitPart' /\ SleepPart'
      /\ Present' = Present
      /\ loc' \in [TaskId -> LocalType] /\ loc'[t] = r
      /\ \A u \in TaskId : u # t => loc'[u] = loc[u]
  <2>1. r.out \in {NoTask, r.child}
    BY <1>5, <1>6
  <2>2. loc[t].pc \in Attached /\ loc[t].pc \in Writing
    BY <1>2 DEF Attached, Writing
  <2>3. r.pc \in {"finish_write", "wait"} => r.child # NoTask
    BY <1>3, <1>5
  <2>4. r.pc \notin {"pipe", "ended", "redirect", "run", "prompt", "finish"}
    BY <1>3, <1>5
  <2> QED
    BY <1>1, <1>2, <1>5, <2>1, <2>2, <2>3, <2>4, LocalStep
<1>8. TypeOK'
  BY <1>1, <1>4, <1>7 DEF IInv, TypeOK
<1>9. QuitPart'
  <2>1. t \in Subtask => loc[t].eof \/ history'.quit
    BY <1>4
  <2> QED
    BY <1>4, <1>5, <1>7, <2>1, Ids DEF IInv, QuitPart
<1>10. ChainPart'
  <2> SUFFICES ASSUME ~history.failed, NEW u \in Present, NEW v \in Present, u < v
               PROVE  /\ loc'[u].pc \in Attached
                      /\ loc'[u].child # NoTask /\ loc'[u].child <= v
    BY <1>4, <1>7 DEF ChainPart
  <2>1. loc[u].pc \in Attached /\ loc[u].child # NoTask /\ loc[u].child <= v
    BY DEF IInv, ChainPart
  <2>2. u \in TaskId
    BY Ids DEF Present
  <2>3. CASE u = t
    BY <1>3, <1>5, <1>7, <2>1, <2>3 DEF Attached
  <2>4. CASE u # t
    BY <1>7, <2>1, <2>2, <2>4
  <2> QED
    BY <2>3, <2>4
<1>11. ResultPart'
  <2> SUFFICES ASSUME ~history.failed
               PROVE  /\ loc'[Terminal].pc = "prompt" => last_exit_code = res
                      /\ \A u \in ShellTask : loc'[u].pc = "set_code" => loc'[u].exit_code = res
                      /\ \A u \in ShellTask : loc'[u].pc = "finish" => last_exit_code = res
                      /\ \A u \in TaskId : finish_tasks[u] # NoExit => finish_tasks[u] = res
    BY <1>1, <1>4 DEF ResultPart
  <2>1. CASE loc[t].child # NoTask
    <3>1. res = history.result /\ r.pc = "finish_write"
      BY <1>3, <1>5, <1>6, <2>1
    <3> HIDE DEF res
    <3> QED
      BY <1>2, <1>7, <3>1, Ids DEF IInv, ResultPart
  \* Without a subtask the stage is the last, so that nobody has a result yet.
  <2>2. CASE loc[t].child = NoTask
    <3>1. res = code
      BY <1>6, <2>2
    <3> HIDE DEF res
    <3>2. \A v \in Present : loc[v].pc \notin Attached => v = t
      BY <1>2, <2>2, LastInChain
    <3>3. \A v \in Present : loc[v].pc \notin {"prompt", "set_code", "finish", "ended"}
      <4> SUFFICES ASSUME NEW v \in Present, loc[v].pc \in {"prompt", "set_code", "finish", "ended"}
                   PROVE  FALSE
        OBVIOUS
      <4>1. v = t
        BY <3>2 DEF Attached
      <4> QED
        BY <1>2, <4>1
    <3>4. loc[Terminal].pc # "prompt"
      BY <3>3, Ids DEF Present
    <3>5. ASSUME NEW u \in ShellTask, loc[u].pc \in {"set_code", "finish"} PROVE FALSE
      <4>1. u \in tasks
        BY <3>5, BusyIsLive, Ids
      <4> QED
        BY <3>3, <3>5, <4>1 DEF Present
    <3>6. ASSUME NEW u \in TaskId, finish_tasks[u] # NoExit PROVE FALSE
      <4>1. u \in Subtask /\ u \notin tasks /\ u <= latest_id
        BY <3>6 DEF IInv, IdPart
      <4>2. loc[u].pc = "ended"
        BY <4>1 DEF IInv, IdPart
      <4> QED
        BY <3>3, <3>6, <4>1, <4>2, Ids DEF Present
    <3> QED
      BY <1>2, <1>3, <1>5, <1>7, <2>2, <3>1, <3>4, <3>5, <3>6, Ids
  <2> QED
    BY <2>1, <2>2
<1> QED
  BY <1>7, <1>8, <1>9, <1>10, <1>11 DEF IInv

\* The exit code of the last stage reaches the global variable.
LEMMA SetExitCodeStep ==
    ASSUME IInv, NEW t \in ShellTask, SetExitCode(t)
    PROVE  IInv'
<1> DEFINE b == Returned(t)
           r == [loc[t] EXCEPT !.pc = b]
<1>1. /\ At(t, "set_code") /\ loc' = [loc EXCEPT ![t] = r]
      /\ last_exit_code' = loc[t].exit_code
      /\ UNCHANGED <<tasks, latest_id, awake, msgs, main_msg, line_buf, finish_tasks,
                     finish_waiter, halted, keys, history>>
  BY DEF SetExitCode
<1>2. t \in tasks /\ t \in awake /\ t \in TaskId /\ loc[t].pc = "set_code" /\ t \in Present
  BY <1>1, AtFacts
<1>3. /\ b \in {"prompt", "finish"} /\ b \in Pc
      /\ t = Terminal => b # "finish"
      /\ t # Terminal => b # "prompt"
  BY DEF Returned, Pc
<1>4. loc[t].exit_code \in ExitCode /\ loc[t].out \in {NoTask, loc[t].child}
  BY <1>2, LocFacts DEF IInv, LinkPart
<1> HIDE DEF b
<1>5. /\ r \in LocalType /\ r.pc = b /\ r.out = loc[t].out /\ r.child = loc[t].child
      /\ r.line = loc[t].line /\ r.eof = loc[t].eof /\ r.fed = loc[t].fed /\ r.got = loc[t].got
  <2>1. loc[t] \in LocalType
    BY <1>2, LocFacts DEF IInv
  <2> QED
    BY <1>3, <2>1 DEF LocalType
<1> HIDE DEF r
<1>6. /\ IdPart' /\ LinkPart' /\ QueuePart' /\ PipePart' /\ WaitPart' /\ SleepPart'
      /\ Present' = Present
      /\ loc' \in [TaskId -> LocalType] /\ loc'[t] = r
      /\ \A u \in TaskId : u # t => loc'[u] = loc[u]
  <2>1. r.out \in {NoTask, r.child}
    BY <1>4, <1>5
  <2>2. r.pc \notin Attached /\ r.pc \notin Writing
    BY <1>3, <1>5 DEF Attached, Writing
  <2>3. r.pc \notin {"pipe", "ended", "redirect", "run", "finish_write", "wait"}
    BY <1>3, <1>5
  <2> QED
    BY <1>1, <1>2, <1>3, <1>5, <2>1, <2>2, <2>3, LocalStep
<1>7. TypeOK'
  BY <1>1, <1>4, <1>6 DEF IInv, TypeOK
<1>8. QuitPart'
  BY <1>1, <1>2, <1>5, <1>6, Ids DEF IInv, QuitPart
<1>9. ChainPart'
  <2> SUFFICES ASSUME ~history.failed, NEW u \in Present, NEW v \in Present, u < v
               PROVE  /\ loc'[u].pc \in Attached
                      /\ loc'[u].child # NoTask /\ loc'[u].child <= v
    BY <1>1, <1>6 DEF ChainPart
  <2>1. loc[u].pc \in Attached /\ loc[u].child # NoTask /\ loc[u].child <= v
    BY DEF IInv, ChainPart
  <2>2. u \in TaskId /\ u # t
    BY <1>2, <2>1, Ids DEF Present, Attached
  <2> QED
    BY <1>6, <2>1, <2>2
<1>10. ResultPart'
  <2>1. ~history.failed => last_exit_code' = history.result
    BY <1>1, <1>2 DEF IInv, ResultPart
  <2> QED
    BY <1>1, <1>3, <1>5, <1>6, <2>1, Ids DEF IInv, ResultPart
<1> QED
  BY <1>6, <1>7, <1>8, <1>9, <1>10 DEF IInv

\* The stage without a '|' goes on; the chain stays as it is.
LEMMA SpawnNothingStep ==
    ASSUME IInv, NEW t \in ShellTask, Spawn(t), Len(loc[t].line) = 1
    PROVE  IInv'
<1> DEFINE r == [loc[t] EXCEPT !.pc = "redirect"]
<1>1. /\ At(t, "pipe") /\ loc' = [loc EXCEPT ![t] = r]
      /\ UNCHANGED <<tasks, latest_id, awake, msgs, main_msg, line_buf, finish_tasks,
                     finish_waiter, last_exit_code, halted, keys, history>>
  BY DEF Spawn
<1>2. t \in tasks /\ t \in awake /\ t \in TaskId /\ loc[t].pc = "pipe" /\ t \in Present
  BY <1>1, AtFacts
<1>3. /\ r \in LocalType /\ r.pc = "redirect" /\ r.out = loc[t].out /\ r.child = loc[t].child
      /\ r.line = loc[t].line /\ r.eof = loc[t].eof /\ r.fed = loc[t].fed /\ r.got = loc[t].got
      /\ r.exit_code = loc[t].exit_code
  <2>1. loc[t] \in LocalType /\ "redirect" \in Pc
    BY <1>2, LocFacts DEF IInv, Pc
  <2> QED
    BY <2>1 DEF LocalType
<1> HIDE DEF r
<1>4. loc[t].child = NoTask /\ loc[t].out \in {NoTask, loc[t].child}
  BY <1>2 DEF IInv, LinkPart
<1>5. /\ IdPart' /\ LinkPart' /\ QueuePart' /\ PipePart' /\ WaitPart' /\ SleepPart'
      /\ Present' = Present
      /\ loc' \in [TaskId -> LocalType] /\ loc'[t] = r
      /\ \A u \in TaskId : u # t => loc'[u] = loc[u]
  BY <1>1, <1>2, <1>3, <1>4, LocalStep
<1>6. TypeOK'
  BY <1>1, <1>5 DEF IInv, TypeOK
<1>7. QuitPart'
  BY <1>1, <1>3, <1>5, Ids DEF IInv, QuitPart
<1>8. ChainPart'
  <2> SUFFICES ASSUME ~history.failed, NEW u \in Present, NEW v \in Present, u < v
               PROVE  /\ loc'[u].pc \in Attached
                      /\ loc'[u].child # NoTask /\ loc'[u].child <= v
    BY <1>1, <1>5 DEF ChainPart
  <2>1. loc[u].pc \in Attached /\ loc[u].child # NoTask /\ loc[u].child <= v
    BY DEF IInv, ChainPart
  <2>2. u \in TaskId /\ u # t
    BY <1>2, <2>1, Ids DEF Present, Attached
  <2> QED
    BY <1>5, <2>1, <2>2
<1>9. ResultPart'
  BY <1>1, <1>2, <1>3, <1>5, Ids DEF IInv, ResultPart
<1> QED
  BY <1>5, <1>6, <1>7, <1>8, <1>9 DEF IInv

\* The last stage starts the next one, which becomes the last.
LEMMA SpawnTaskStep ==
    ASSUME IInv, NEW t \in ShellTask, Spawn(t), Len(loc[t].line) # 1
    PROVE  IInv'
<1> DEFINE c == latest_id + 1
           rest == Tail(loc[t].line)
           a == IF Len(rest) = 1 /\ Head(rest) = [kind |-> "none", redir |-> "no"]
                THEN "prompt" ELSE "pipe"
           L == Local(a, rest)
           r == [loc[t] EXCEPT !.pc = "redirect", !.out = c, !.child = c]
<1>1. /\ At(t, "pipe") /\ c \in Subtask /\ latest_id' = c
      /\ tasks' = tasks \cup {c} /\ awake' = awake \cup {c}
      /\ loc' = [loc EXCEPT ![c] = L, ![t].pc = "redirect", ![t].out = c, ![t].child = c]
      /\ UNCHANGED <<msgs, main_msg, line_buf, finish_tasks, finish_waiter,
                     last_exit_code, halted, keys, history>>
  BY DEF Spawn
<1>2. t \in tasks /\ t \in awake /\ t \in TaskId /\ loc[t].pc = "pipe" /\ t \in Present
  BY <1>1, AtFacts
<1>3. /\ loc[t].child = NoTask /\ loc[t].line # <<>>
      /\ loc[t].line \in Seq(Stage \cup {NotFound}) /\ loc \in [TaskId -> LocalType]
      /\ loc[t] \in LocalType
  BY <1>2, LocFacts DEF IInv, LinkPart
<1>4. rest \in Seq(Stage \cup {NotFound}) /\ rest # <<>>
  BY <1>3, TailQueue
<1>5. /\ L \in LocalType /\ L.pc = a /\ L.line = rest /\ L.child = NoTask /\ L.out = NoTask
      /\ L.eof = FALSE /\ L.fed = 0 /\ L.got = 0 /\ a \in {"prompt", "pipe"}
  <2>1. a \in {"prompt", "pipe"} /\ a \in Pc
    BY DEF Pc
  <2> HIDE DEF a, rest
  <2> QED
    BY <1>4, <2>1, FreshLocal
<1>6. /\ c \in TaskId /\ c \in ShellTask /\ c # NoTask /\ c # Terminal /\ c # Main
      /\ c > latest_id /\ ~(c <= latest_id)
      /\ latest_id \in Nat /\ t <= latest_id /\ t < c /\ c # t
      /\ \A u \in TaskId : u > c => u > latest_id /\ u # c
      /\ \A u \in TaskId : u <= latest_id => u <= c
      /\ \A u \in TaskId : u <= c /\ u # c => u <= latest_id
      /\ c \in 3..MaxTasks
  <2>1. latest_id \in 3..MaxTasks /\ t <= latest_id
    BY <1>2 DEF IInv, TypeOK, IdPart
  <2>2. c \in Subtask
    BY <1>1
  <2> QED
    BY <1>2, <2>1, <2>2, BoundAssumption
       DEF TaskId, Subtask, ShellTask, NoTask, Terminal, Main
<1>7. r \in LocalType /\ r.pc = "redirect" /\ r.out = c /\ r.child = c
      /\ r.line = loc[t].line /\ r.eof = loc[t].eof /\ r.fed = loc[t].fed /\ r.got = loc[t].got
  <2>1. "redirect" \in Pc
    BY DEF Pc
  <2> HIDE DEF c
  <2> QED
    BY <1>3, <1>6, <2>1 DEF LocalType
<1>8. /\ loc'[c] = L /\ loc'[t] = r /\ loc' \in [TaskId -> LocalType]
      /\ \A u \in TaskId : u # t /\ u # c => loc'[u] = loc[u]
  <2> HIDE DEF c, L
  <2>1. loc' = [[loc EXCEPT ![c] = L] EXCEPT ![t] = r]
    BY <1>1, <1>2, <1>3, <1>6
  <2> HIDE DEF r
  <2> QED
    BY <1>2, <1>3, <1>5, <1>6, <1>7, <2>1
<1> HIDE DEF c, rest, a, L, r
<1>9. /\ c \notin tasks /\ msgs[c] = <<>> /\ finish_tasks[c] = NoExit /\ finish_waiter[c] = NoTask
      /\ loc[c].pc = "prompt" /\ loc[c].child = NoTask
      /\ \A u \in TaskId : loc[u].child # c
  <2>1. loc[c] = Local("prompt", <<>>)
    BY <1>6 DEF IInv, IdPart
  <2>2. loc[c].pc = "prompt" /\ loc[c].child = NoTask
    BY <2>1 DEF Local
  <2>3. c \notin tasks /\ msgs[c] = <<>> /\ finish_tasks[c] = NoExit
    BY <1>6 DEF IInv, IdPart
  <2>4. finish_waiter[c] = NoTask
    BY <1>6, <2>3 DEF IInv, WaitPart
  <2>5. \A u \in TaskId : loc[u].child # c
    BY <1>6 DEF IInv, LinkPart
  <2> QED
    BY <2>2, <2>3, <2>4, <2>5
<1>10. Present' = Present \cup {c}
  BY <1>1, <1>6 DEF Present
<1>11. TypeOK'
  <2>1. tasks' \subseteq TaskId /\ awake' \subseteq tasks' /\ latest_id' \in 3..MaxTasks
    BY <1>1, <1>6 DEF IInv, TypeOK
  <2> QED
    BY <1>1, <1>8, <2>1 DEF IInv, TypeOK
<1>12. IdPart'
  <2>1. Main \in tasks' /\ Terminal \in tasks' /\ \A u \in tasks' : u <= c
    <3>1. \A u \in tasks : u \in TaskId /\ u <= latest_id
      BY DEF IInv, IdPart, TypeOK
    <3>2. c <= c
      BY <1>6
    <3> QED
      BY <1>1, <1>6, <3>1, <3>2 DEF IInv, IdPart
  <2>2. \A u \in TaskId : u > c => msgs[u] = <<>>
    BY <1>6 DEF IInv, IdPart
  <2>3. \A u \in TaskId : u > c \/ u \notin ShellTask => loc'[u] = Local("prompt", <<>>)
    <3>1. \A u \in TaskId : u > c \/ u \notin ShellTask => u # t /\ u # c
      BY <1>6
    <3>2. \A u \in TaskId : u > c \/ u \notin ShellTask => loc[u] = Local("prompt", <<>>)
      BY <1>6 DEF IInv, IdPart
    <3> QED
      BY <1>8, <3>1, <3>2
  <2>4. \A u \in Subtask : u <= c => (u \in tasks' <=> loc'[u].pc # "ended")
    <3> SUFFICES ASSUME NEW u \in Subtask, u <= c PROVE u \in tasks' <=> loc'[u].pc # "ended"
      OBVIOUS
    <3>1. CASE u = c
      BY <1>1, <1>5, <1>8, <3>1
    <3>2. CASE u = t
      BY <1>1, <1>2, <1>7, <1>8, <3>2
    <3>3. CASE u # c /\ u # t
      BY <1>1, <1>6, <1>8, <3>3, Ids DEF IInv, IdPart
    <3> QED
      BY <3>1, <3>2, <3>3
  <2>5. \A u \in TaskId : finish_tasks[u] # NoExit => u \in Subtask /\ u \notin tasks' /\ u <= c
    BY <1>1, <1>6, <1>9 DEF IInv, IdPart
  <2>6. loc'[Terminal].pc \notin {"finish", "ended"}
    BY <1>6, <1>7, <1>8, Ids DEF IInv, IdPart
  <2> QED
    BY <1>1, <2>1, <2>2, <2>3, <2>4, <2>5, <2>6 DEF IdPart
<1>13. LinkPart'
  <2>1. ASSUME NEW u \in TaskId
        PROVE  /\ loc'[u].child # NoTask =>
                      loc'[u].child \in Subtask /\ loc'[u].child <= c /\ u < loc'[u].child
               /\ loc'[u].out \in {NoTask, loc'[u].child}
               /\ loc'[u].pc = "pipe" => loc'[u].child = NoTask /\ loc'[u].line # <<>>
               /\ loc'[u].pc = "prompt" /\ u # Terminal => loc'[u].child = NoTask
               /\ loc'[u].pc \in {"finish_write", "wait"} => loc'[u].child # NoTask
               /\ loc'[u].pc \in {"redirect", "run"} =>
                      (Len(loc'[u].line) = 1 <=> loc'[u].child = NoTask)
    <3>1. CASE u = t
      BY <1>1, <1>6, <1>7, <1>8, <3>1
    <3>2. CASE u = c
      BY <1>4, <1>5, <1>8, <3>2
    <3>3. CASE u # t /\ u # c
      <4>1. loc'[u] = loc[u]
        BY <1>8, <3>3
      <4>2. loc[u].child # NoTask =>
                loc[u].child \in Subtask /\ loc[u].child <= latest_id /\ u < loc[u].child
        BY DEF IInv, LinkPart
      <4>3. loc[u].child # NoTask => loc[u].child <= c
        BY <1>6, <4>2, Ids
      <4> QED
        BY <4>1, <4>2, <4>3 DEF IInv, LinkPart
    <3> QED
      BY <3>1, <3>2, <3>3
  <2>2. ASSUME NEW u \in TaskId, NEW v \in TaskId,
               loc'[u].child = loc'[v].child, loc'[u].child # NoTask
        PROVE  u = v
    <3>1. CASE u = t \/ v = t
      BY <1>5, <1>6, <1>7, <1>8, <1>9, <2>2, <3>1
    <3>2. CASE u # t /\ v # t
      <4>1. u # c /\ v # c
        BY <1>5, <1>8, <2>2
      <4> QED
        BY <1>8, <2>2, <3>2, <4>1 DEF IInv, LinkPart
    <3> QED
      BY <3>1, <3>2
  <2> QED
    BY <1>1, <2>1, <2>2 DEF LinkPart
<1>14. QueuePart'
  BY <1>1 DEF IInv, QueuePart
<1>15. PipePart'
  <2>1. \A d \in Subtask : EndIsQueued(d)' <=> EndIsQueued(d)
    BY <1>1 DEF EndIsQueued
  <2>2. ASSUME NEW d \in Subtask, d # c, Written(d)' PROVE Written(d)
    <3>1. PICK u \in TaskId : loc'[u].child = d /\ loc'[u].pc \in Writing
      BY <2>2 DEF Written
    <3>2. u # t /\ u # c
      BY <1>5, <1>7, <1>8, <2>2, <3>1, Ids
    <3> QED
      BY <1>8, <3>1, <3>2 DEF Written
  <2> SUFFICES ASSUME NEW d \in Subtask
               PROVE  /\ loc'[d].eof => /\ loc'[d].got = loc'[d].fed
                                        /\ msgs[d] = <<>>
                                        /\ ~Written(d)'
                      /\ ~loc'[d].eof /\ loc'[d].pc \notin {"prompt", "ended"} =>
                             /\ \A i \in 1..Len(msgs[d]) :
                                    msgs[d][i] = Message("eof") => i = Len(msgs[d])
                             /\ loc'[d].fed + (IF EndIsQueued(d) THEN 1 ELSE 0)
                                    = loc'[d].got + Len(msgs[d])
                             /\ EndIsQueued(d) => ~Written(d)'
    BY <1>1, <2>1 DEF PipePart
  <2>3. CASE d = c
    <3>1. ~EndIsQueued(d) /\ Len(msgs[d]) = 0
      BY <1>9, <2>3 DEF EndIsQueued
    <3> QED
      BY <1>5, <1>8, <2>3, <3>1
  <2>4. CASE d # c
    <3>1. /\ loc'[d].eof = loc[d].eof /\ loc'[d].got = loc[d].got /\ loc'[d].fed = loc[d].fed
          /\ loc'[d].pc \notin {"prompt", "ended"} => loc[d].pc \notin {"prompt", "ended"}
      BY <1>2, <1>7, <1>8, <2>4, Ids
    <3> QED
      BY <2>2, <2>4, <3>1 DEF IInv, PipePart
  <2> QED
    BY <2>3, <2>4
<1>16. QuitPart'
  <2>1. \A u \in Subtask : u # t /\ u # c => loc'[u] = loc[u]
    BY <1>8, Ids
  <2> QED
    BY <1>1, <1>5, <1>7, <1>8, <2>1 DEF IInv, QuitPart
<1>17. WaitPart'
  <2>1. ASSUME NEW u \in TaskId, loc'[u].pc \in Attached, loc'[u].child # NoTask
        PROVE  loc'[u].child \in tasks' \/ finish_tasks[loc'[u].child] # NoExit
    <3>1. CASE u = t
      BY <1>1, <1>7, <1>8, <3>1
    <3>2. CASE u # t
      <4>1. u # c
        BY <1>5, <1>8, <2>1
      <4> QED
        BY <1>1, <1>8, <2>1, <3>2, <4>1 DEF IInv, WaitPart
    <3> QED
      BY <3>1, <3>2
  <2>2. ASSUME NEW d \in TaskId, finish_waiter[d] # NoTask
        PROVE  /\ d \in tasks'
               /\ loc'[finish_waiter[d]].pc = "wait" /\ loc'[finish_waiter[d]].child = d
    <3>1. /\ d \in tasks /\ finish_waiter[d] \in TaskId
          /\ loc[finish_waiter[d]].pc = "wait" /\ loc[finish_waiter[d]].child = d
      BY <2>2 DEF IInv, WaitPart, TypeOK
    <3>2. finish_waiter[d] # t /\ finish_waiter[d] # c
      BY <1>2, <1>9, <3>1
    <3> QED
      BY <1>1, <1>8, <3>1, <3>2
  <2> QED
    BY <1>1, <2>1, <2>2 DEF WaitPart
<1>18. SleepPart'
  <2>1. ASSUME NEW u \in ShellTask \cap tasks', u \notin awake'
        PROVE  \/ loc'[u].pc = "prompt" /\ msgs[u] = <<>>
               \/ loc'[u].pc = "wait" /\ finish_waiter[loc'[u].child] = u
    <3>1. u # t /\ u # c /\ u \in tasks /\ u \notin awake /\ u \in TaskId
      BY <1>1, <1>2, <2>1, Ids
    <3> QED
      BY <1>8, <3>1 DEF IInv, SleepPart
  <2> QED
    BY <1>1, <1>6, <2>1 DEF IInv, SleepPart
<1>19. ChainPart'
  <2> SUFFICES ASSUME ~history.failed, NEW u \in Present \cup {c}, NEW v \in Present \cup {c}, u < v
               PROVE  /\ loc'[u].pc \in Attached
                      /\ loc'[u].child # NoTask /\ loc'[u].child <= v
    BY <1>1, <1>10 DEF ChainPart
  <2>1. /\ u \in Nat /\ v \in Nat /\ u \in TaskId /\ c \in Nat
        /\ \A w \in Present : w \in Nat /\ w <= c
    <3>1. \A w \in Present : w \in TaskId /\ w <= latest_id
      <4>1. \A w \in tasks : w \in TaskId /\ w <= latest_id
        BY DEF IInv, IdPart, TypeOK
      <4>2. Terminal \in tasks
        BY DEF IInv, IdPart
      <4> QED
        BY <4>1, <4>2, Ids DEF Present, IInv, IdPart
    <3> QED
      BY <1>6, <3>1, Ids
  <2>2. \A w \in Present : ~(t < w)
    BY <1>2, LastInChain DEF Attached
  <2>3. CASE u = t
    <3>1. v = c
      BY <2>2, <2>3
    <3> QED
      BY <1>6, <1>7, <1>8, <2>1, <2>3, <3>1 DEF Attached
  <2>4. CASE u # t
    <3>1. u \in Present /\ u # c
      BY <2>1
    <3>2. u < t
      <4>1. ~(t < u) /\ t \in Nat
        BY <1>2, <2>1, <2>2, <3>1
      <4> QED
        BY <2>1, <2>4, <4>1
    <3>3. loc[u].pc \in Attached /\ loc[u].child # NoTask /\ loc[u].child <= t
      BY <1>2, <3>1, <3>2 DEF IInv, ChainPart
    <3>4. v \in Present => loc[u].child <= v
      BY <3>1 DEF IInv, ChainPart
    <3>5. loc[u].child <= c
      <4>1. loc[u].child \in Nat /\ t \in Nat
        BY <1>2, <2>1, <3>3, Ids, LocFacts DEF IInv
      <4> QED
        BY <1>6, <2>1, <3>3, <4>1
    <3> QED
      BY <1>8, <2>1, <2>4, <3>1, <3>3, <3>4, <3>5
  <2> QED
    BY <2>3, <2>4
<1>20. ResultPart'
  <2>1. \A u \in ShellTask : u # t /\ u # c => loc'[u] = loc[u]
    BY <1>8, Ids
  <2> QED
    BY <1>1, <1>5, <1>6, <1>7, <1>8, <2>1, Ids DEF IInv, ResultPart
<1> QED
  BY <1>11, <1>12, <1>13, <1>14, <1>15, <1>16, <1>17, <1>18, <1>19, <1>20 DEF IInv

-----------------------------------------------------------------------------
(* Pipes. *)

\* A stage sends through its pipe: data while its command runs, the end after that.
LEMMA SendStep ==
    ASSUME IInv, NEW t \in ShellTask, t \in tasks, t \in awake,
           NEW c, c = loc[t].child, c # NoTask,
           NEW m \in PipeMessage, SendToPipe(c, m),
           NEW r \in LocalType, NEW e \in LocalType,
           loc' \in [TaskId -> LocalType], loc'[t] = r, loc'[c] = e,
           \A u \in TaskId : u # t /\ u # c => loc'[u] = loc[u],
           UNCHANGED <<tasks, latest_id, main_msg, line_buf, finish_tasks,
                       finish_waiter, last_exit_code, keys>>,
           r.line = loc[t].line, r.out = loc[t].out, r.child = c,
           r.eof = loc[t].eof, r.fed = loc[t].fed, r.got = loc[t].got,
           e.pc = loc[c].pc, e.line = loc[c].line, e.out = loc[c].out, e.child = loc[c].child,
           e.exit_code = loc[c].exit_code, e.eof = loc[c].eof, e.got = loc[c].got,
           \/ m = Message("data") /\ loc[t].pc = "run" /\ r.pc = "run" /\ e.fed = loc[c].fed + 1
           \/ m = Message("eof") /\ loc[t].pc = "finish_write" /\ r.pc = "wait" /\ e.fed = loc[c].fed
    PROVE  IInv'
<1>1. /\ t \in TaskId /\ c \in Subtask /\ c \in TaskId /\ c <= latest_id /\ t < c /\ t # c
      /\ latest_id \in Nat /\ c # Main /\ c # Terminal /\ ~(c > latest_id) /\ ~(t > latest_id)
      /\ c \in ShellTask
  <2>1. t \in TaskId /\ t <= latest_id /\ latest_id \in Nat
    BY Ids, BoundAssumption DEF IInv, IdPart, TypeOK
  <2>2. c \in Subtask /\ c <= latest_id /\ t < c
    BY <2>1 DEF IInv, LinkPart
  <2> QED
    BY <2>1, <2>2, Ids
<1>2. loc[t].pc \in Writing /\ loc[t].pc \in Attached /\ r.pc \in Attached /\ Written(c)
  BY <1>1 DEF Writing, Attached, Written
<1>3. /\ loc' \in [TaskId -> LocalType] /\ loc'[t] = r /\ loc'[c] = e
      /\ \A u \in TaskId : u # t /\ u # c => loc'[u] = loc[u]
  OBVIOUS
<1>4. \A u \in TaskId :
          /\ loc'[u].line = loc[u].line /\ loc'[u].out = loc[u].out /\ loc'[u].child = loc[u].child
          /\ loc'[u].eof = loc[u].eof /\ loc'[u].got = loc[u].got
          /\ u # c => loc'[u].fed = loc[u].fed
          /\ u # t => loc'[u].pc = loc[u].pc /\ loc'[u].exit_code = loc[u].exit_code
          /\ loc[u].pc \in Attached => loc'[u].pc \in Attached
          /\ loc'[u].pc \in Attached => loc[u].pc \in Attached
  BY <1>1, <1>2, <1>3
<1>5. Message("data") # Message("eof")
  BY DEF Message
<1>6. ~loc[c].eof
  BY <1>1, <1>2 DEF IInv, PipePart
<1>7. c \notin tasks => history.quit \/ history.failed
  <2>1. c \notin tasks => loc[c].pc = "ended"
    BY <1>1 DEF IInv, IdPart
  <2> QED
    BY <1>1, <1>6, <2>1 DEF IInv, QuitPart
<1>8. \/ /\ c \in tasks /\ msgs' = [msgs EXCEPT ![c] = Append(@, m)] /\ awake' = awake \cup {c}
         /\ halted' = halted /\ history' = history
      \/ /\ c \notin tasks /\ history' = [history EXCEPT !.freed = TRUE] /\ halted' \in BOOLEAN
         /\ msgs' = msgs /\ awake' = awake
  BY DEF SendToPipe
<1>9. /\ history'.failed = history.failed /\ history'.quit = history.quit
      /\ history'.result = history.result
      /\ history'.freed => history.freed \/ history.quit \/ history.failed
      /\ history' \in [failed : BOOLEAN, quit : BOOLEAN, freed : BOOLEAN, result : ExitCode]
  <2>1. history \in [failed : BOOLEAN, quit : BOOLEAN, freed : BOOLEAN, result : ExitCode]
    BY DEF IInv, TypeOK
  <2>2. CASE history' = history
    BY <2>1, <2>2
  <2>3. CASE c \notin tasks /\ history' = [history EXCEPT !.freed = TRUE]
    BY <1>7, <2>1, <2>3
  <2> QED
    BY <1>8, <2>2, <2>3
<1>10. /\ msgs \in [TaskId -> Seq(KeyMessage \cup PipeMessage)]
       /\ msgs[c] \in Seq(PipeMessage)
  BY <1>1 DEF IInv, TypeOK, QueuePart
<1>11. /\ \A u \in TaskId : u # c => msgs'[u] = msgs[u]
       /\ c \in tasks => msgs'[c] = Append(msgs[c], m)
       /\ c \notin tasks => msgs'[c] = msgs[c]
  BY <1>1, <1>8, <1>10
<1>12. Present' = Present
  BY DEF Present
<1>13. TypeOK'
  <2>1. msgs' \in [TaskId -> Seq(KeyMessage \cup PipeMessage)]
    <3>1. Append(msgs[c], m) \in Seq(KeyMessage \cup PipeMessage)
      <4>1. msgs[c] \in Seq(KeyMessage \cup PipeMessage) /\ m \in KeyMessage \cup PipeMessage
        BY <1>1, <1>10
      <4> QED
        BY <4>1, AppendQueue
    <3> QED
      BY <1>8, <1>10, <3>1
  <2>2. awake' \subseteq tasks' /\ halted' \in BOOLEAN
    BY <1>8 DEF IInv, TypeOK
  <2> QED
    BY <1>3, <1>9, <2>1, <2>2 DEF IInv, TypeOK
<1>14. IdPart'
  <2>1. \A u \in TaskId : u > latest_id => msgs'[u] = <<>>
    BY <1>1, <1>11 DEF IInv, IdPart
  <2>2. \A u \in TaskId : u > latest_id \/ u \notin ShellTask => loc'[u] = Local("prompt", <<>>)
    BY <1>1, <1>3 DEF IInv, IdPart
  <2>3. \A u \in Subtask : u <= latest_id => (u \in tasks <=> loc'[u].pc # "ended")
    BY <1>3, <1>4, Ids DEF IInv, IdPart
  <2>4. loc'[Terminal].pc \notin {"finish", "ended"}
    BY <1>3, <1>4, Ids DEF IInv, IdPart
  <2> QED
    BY <2>1, <2>2, <2>3, <2>4 DEF IInv, IdPart
<1>15. LinkPart'
  <2>1. ASSUME NEW u \in TaskId
        PROVE  /\ loc'[u].child # NoTask =>
                      loc'[u].child \in Subtask /\ loc'[u].child <= latest_id /\ u < loc'[u].child
               /\ loc'[u].out \in {NoTask, loc'[u].child}
               /\ loc'[u].pc = "pipe" => loc'[u].child = NoTask /\ loc'[u].line # <<>>
               /\ loc'[u].pc = "prompt" /\ u # Terminal => loc'[u].child = NoTask
               /\ loc'[u].pc \in {"finish_write", "wait"} => loc'[u].child # NoTask
               /\ loc'[u].pc \in {"redirect", "run"} =>
                      (Len(loc'[u].line) = 1 <=> loc'[u].child = NoTask)
    <3>1. CASE u = t
      BY <1>3, <1>4, <3>1 DEF IInv, LinkPart
    <3>2. CASE u # t
      <4>1. /\ loc'[u].line = loc[u].line /\ loc'[u].out = loc[u].out
            /\ loc'[u].child = loc[u].child /\ loc'[u].pc = loc[u].pc
        BY <1>4, <3>2
      <4>2. /\ loc[u].child # NoTask =>
                   loc[u].child \in Subtask /\ loc[u].child <= latest_id /\ u < loc[u].child
            /\ loc[u].out \in {NoTask, loc[u].child}
            /\ loc[u].pc = "pipe" => loc[u].child = NoTask /\ loc[u].line # <<>>
            /\ loc[u].pc = "prompt" /\ u # Terminal => loc[u].child = NoTask
            /\ loc[u].pc \in {"finish_write", "wait"} => loc[u].child # NoTask
            /\ loc[u].pc \in {"redirect", "run"} => (Len(loc[u].line) = 1 <=> loc[u].child = NoTask)
        BY DEF IInv, LinkPart
      <4> QED
        BY ONLY <4>1, <4>2
    <3> QED
      BY <3>1, <3>2
  <2>2. \A u, v \in TaskId : loc'[u].child = loc'[v].child /\ loc'[u].child # NoTask => u = v
    BY <1>4 DEF IInv, LinkPart
  <2> QED
    BY <2>1, <2>2 DEF LinkPart
<1>16. QueuePart'
  <2>1. Append(msgs[c], m) \in Seq(PipeMessage)
    BY <1>10, AppendQueue
  <2> QED
    BY <1>10, <1>11, <2>1, Ids DEF IInv, QueuePart
<1>17. PipePart'
  <2>1. ASSUME NEW d \in Subtask, Written(d)' PROVE Written(d)
    <3>1. PICK u \in TaskId : loc'[u].child = d /\ loc'[u].pc \in Writing
      BY <2>1 DEF Written
    <3>2. loc[u].child = d /\ loc[u].pc \in Writing
      BY <1>2, <1>4, <3>1
    <3> QED
      BY <3>2 DEF Written
  <2>2. r.pc = "wait" => ~Written(c)'
    <3> SUFFICES ASSUME r.pc = "wait", NEW u \in TaskId, loc'[u].child = c, loc'[u].pc \in Writing
                 PROVE  FALSE
      BY DEF Written
    <3>1. loc[u].child = c
      BY <1>4
    <3>2. u = t
      BY <1>1, <3>1 DEF IInv, LinkPart
    <3> QED
      BY <1>3, <3>2 DEF Writing
  <2> SUFFICES ASSUME NEW d \in Subtask
               PROVE  /\ loc'[d].eof => /\ loc'[d].got = loc'[d].fed
                                        /\ msgs'[d] = <<>>
                                        /\ ~Written(d)'
                      /\ ~loc'[d].eof /\ loc'[d].pc \notin {"prompt", "ended"} =>
                             /\ \A i \in 1..Len(msgs'[d]) :
                                    msgs'[d][i] = Message("eof") => i = Len(msgs'[d])
                             /\ loc'[d].fed + (IF EndIsQueued(d)' THEN 1 ELSE 0)
                                    = loc'[d].got + Len(msgs'[d])
                             /\ EndIsQueued(d)' => ~Written(d)'
    BY DEF PipePart
  <2>3. CASE d # c
    <3>1. msgs'[d] = msgs[d]
      BY <1>11, <2>3, Ids
    <3>2. EndIsQueued(d)' <=> EndIsQueued(d)
      BY <3>1 DEF EndIsQueued
    <3>3. /\ loc'[d].eof = loc[d].eof /\ loc'[d].got = loc[d].got /\ loc'[d].fed = loc[d].fed
          /\ loc'[d].pc \notin {"prompt", "ended"} => loc[d].pc \notin {"prompt", "ended"}
      <4>1. CASE d = t
        <5>1. loc[d].pc \notin {"prompt", "ended"}
          BY <4>1
        <5>2. loc'[d].eof = loc[d].eof /\ loc'[d].got = loc[d].got /\ loc'[d].fed = loc[d].fed
          BY <1>4, <2>3, Ids
        <5> QED
          BY <5>1, <5>2
      <4>2. CASE d # t
        BY <1>4, <2>3, <4>2, Ids
      <4> QED
        BY <4>1, <4>2
    <3> QED
      BY <2>1, <3>1, <3>2, <3>3 DEF IInv, PipePart
  <2>4. CASE d = c
    <3>1. ~loc'[c].eof /\ loc'[c].pc = loc[c].pc /\ loc'[c].got = loc[c].got /\ loc'[c].fed = e.fed
      BY <1>1, <1>3, <1>4, <1>6
    <3> SUFFICES ASSUME loc[c].pc \notin {"prompt", "ended"}
                 PROVE  /\ \A i \in 1..Len(msgs'[c]) :
                               msgs'[c][i] = Message("eof") => i = Len(msgs'[c])
                        /\ e.fed + (IF EndIsQueued(c)' THEN 1 ELSE 0) = loc[c].got + Len(msgs'[c])
                        /\ EndIsQueued(c)' => ~Written(c)'
      BY <2>4, <3>1
    <3>2. c \in tasks
      BY <1>1, BusyIsLive
    <3> DEFINE n == Len(msgs[c])
    <3>3. /\ msgs'[c] # <<>> /\ n \in Nat /\ Len(msgs'[c]) = n + 1
          /\ \A i \in 1..n : msgs'[c][i] = msgs[c][i]
          /\ msgs'[c][n + 1] = m
      <4>1. msgs'[c] = Append(msgs[c], m)
        BY <1>11, <3>2
      <4> QED
        BY ONLY <1>10, <4>1, m \in PipeMessage, AppendQueue
    <3>4. /\ \A i \in 1..n : msgs[c][i] = Message("eof") => i = n
          /\ loc[c].fed + (IF EndIsQueued(c) THEN 1 ELSE 0) = loc[c].got + n
          /\ ~EndIsQueued(c)
      BY <1>1, <1>2, <1>6 DEF IInv, PipePart
    <3>5. \A i \in 1..n : msgs[c][i] # Message("eof")
      <4>1. \A i \in 1..n : msgs[c] # <<>>
        BY <1>10
      <4> QED
        BY <3>4, <4>1 DEF EndIsQueued
    <3>6. EndIsQueued(c)' <=> m = Message("eof")
      BY <3>3 DEF EndIsQueued
    <3>7. loc[c].fed \in Nat /\ loc[c].got \in Nat
      BY <1>1, LocFacts DEF IInv
    <3>8. loc[c].fed = loc[c].got + n
      BY <3>4, <3>7
    <3> HIDE DEF n
    <3>9. \A i \in 1..Len(msgs'[c]) : msgs'[c][i] = Message("eof") => i = Len(msgs'[c])
      <4> SUFFICES ASSUME NEW i \in 1..(n + 1), i # n + 1 PROVE msgs'[c][i] # Message("eof")
        BY <3>3
      <4>1. i \in 1..n
        BY <3>3
      <4> QED
        BY <3>3, <3>5, <4>1
    <3>10. e.fed + (IF EndIsQueued(c)' THEN 1 ELSE 0) = loc[c].got + Len(msgs'[c])
      <4> DEFINE f == loc[c].fed
                 g == loc[c].got
                 l == Len(msgs'[c])
                 ef == e.fed
      <4>1. f \in Nat /\ g \in Nat /\ n \in Nat /\ l = n + 1 /\ f = g + n
        BY ONLY <3>3, <3>7, <3>8
      <4>2. \/ ef = f /\ EndIsQueued(c)'
            \/ ef = f + 1 /\ ~EndIsQueued(c)'
        BY <1>5, <3>6
      <4> HIDE DEF f, g, l, ef
      <4>3. ef + (IF EndIsQueued(c)' THEN 1 ELSE 0) = g + l
        BY ONLY <4>1, <4>2
      <4> QED
        BY ONLY <4>3 DEF ef, g, l
    <3>11. EndIsQueued(c)' => ~Written(c)'
      BY <1>5, <2>2, <3>6
    <3> QED
      BY <3>9, <3>10, <3>11
  <2> QED
    BY <2>3, <2>4
<1>18. QuitPart'
  <2>1. ASSUME NEW u \in Subtask,
               loc'[u].pc \in {"finish_write", "wait", "set_code", "finish", "ended"}
        PROVE  loc'[u].eof \/ history.quit \/ history.failed
    <3>1. loc[u].pc \in {"finish_write", "wait", "set_code", "finish", "ended"}
      <4>1. CASE u = t
        BY <1>3, <2>1, <4>1
      <4>2. CASE u # t
        BY <1>4, <2>1, <4>2, Ids
      <4> QED
        BY <4>1, <4>2
    <3>2. loc[u].eof \/ history.quit \/ history.failed
      BY <3>1 DEF IInv, QuitPart
    <3>3. loc'[u].eof = loc[u].eof
      BY <1>4, Ids
    <3> QED
      BY ONLY <3>2, <3>3
  <2> QED
    BY <1>9, <2>1 DEF IInv, QuitPart
<1>19. WaitPart'
  <2>1. ASSUME NEW u \in TaskId, loc'[u].pc \in Attached, loc'[u].child # NoTask
        PROVE  loc'[u].child \in tasks \/ finish_tasks[loc'[u].child] # NoExit
    <3>1. loc[u].pc \in Attached /\ loc'[u].child = loc[u].child
      BY <1>4, <2>1
    <3> QED
      BY <2>1, <3>1 DEF IInv, WaitPart
  <2>2. ASSUME NEW d \in TaskId, finish_waiter[d] # NoTask
        PROVE  /\ d \in tasks
               /\ loc'[finish_waiter[d]].pc = "wait" /\ loc'[finish_waiter[d]].child = d
    <3>1. /\ d \in tasks /\ finish_waiter[d] \in TaskId
          /\ loc[finish_waiter[d]].pc = "wait" /\ loc[finish_waiter[d]].child = d
      BY <2>2 DEF IInv, WaitPart, TypeOK
    <3>2. finish_waiter[d] # t
      BY <3>1
    <3> QED
      BY <1>4, <3>1, <3>2
  <2> QED
    BY <2>1, <2>2 DEF WaitPart
<1>20. SleepPart'
  <2>1. Main \notin awake' => msgs'[Main] = <<>> /\ main_msg = <<>>
    BY <1>1, <1>8, <1>11, Ids DEF IInv, SleepPart
  <2>2. ASSUME NEW u \in ShellTask \cap tasks, u \notin awake'
        PROVE  \/ loc'[u].pc = "prompt" /\ msgs'[u] = <<>>
               \/ loc'[u].pc = "wait" /\ finish_waiter[loc'[u].child] = u
    <3>1. u # t /\ u # c /\ u \notin awake /\ u \in TaskId
      BY <1>8, <2>2, Ids
    <3> QED
      BY <1>3, <1>11, <2>2, <3>1 DEF IInv, SleepPart
  <2> QED
    BY <2>1, <2>2 DEF SleepPart
<1>21. ChainPart'
  <2> SUFFICES ASSUME ~history.failed, NEW u \in Present, NEW v \in Present, u < v
               PROVE  /\ loc'[u].pc \in Attached
                      /\ loc'[u].child # NoTask /\ loc'[u].child <= v
    BY <1>9, <1>12 DEF ChainPart
  <2>1. loc[u].pc \in Attached /\ loc[u].child # NoTask /\ loc[u].child <= v
    BY DEF IInv, ChainPart
  <2>2. u \in TaskId
    BY Ids DEF Present
  <2> QED
    BY <1>4, <2>1, <2>2
<1>22. ResultPart'
  BY <1>3, <1>4, <1>9, Ids DEF IInv, ResultPart
<1> QED
  BY <1>13, <1>14, <1>15, <1>16, <1>17, <1>18, <1>19, <1>20, <1>21, <1>22 DEF IInv

LEMMA WriteStep ==
    ASSUME IInv, NEW t \in ShellTask, Write(t)
    PROVE  IInv'
<1> DEFINE c == loc[t].child
           r == [loc[t] EXCEPT !.writes = @ + 1]
           e == [loc[c] EXCEPT !.fed = @ + 1]
<1>1. /\ At(t, "run") /\ loc[t].out # NoTask /\ loc[t].writes < MaxWrites
      /\ SendToPipe(loc[t].out, Message("data"))
      /\ loc' = [loc EXCEPT ![t].writes = @ + 1, ![loc[t].out].fed = @ + 1]
      /\ UNCHANGED <<tasks, latest_id, main_msg, line_buf, finish_tasks,
                     finish_waiter, last_exit_code, keys>>
  BY DEF Write
<1>2. t \in tasks /\ t \in awake /\ t \in TaskId /\ loc[t].pc = "run"
  BY <1>1, AtFacts
<1>3. loc[t].out = c /\ c # NoTask /\ c \in TaskId /\ c # t
  BY <1>1, <1>2, Ids DEF IInv, LinkPart
<1>4. loc[t] \in LocalType /\ loc[c] \in LocalType /\ loc \in [TaskId -> LocalType]
      /\ loc[t].writes \in 0..MaxWrites /\ loc[c].fed \in Nat
  <2> HIDE DEF c
  <2> QED
    BY <1>2, <1>3, LocFacts DEF IInv
<1>5. SendToPipe(c, Message("data")) /\ Message("data") \in PipeMessage
  BY <1>1, <1>3 DEF PipeMessage
<1>6. loc' = [loc EXCEPT ![t] = r, ![c] = e]
  BY <1>1, <1>2, <1>3, <1>4
<1>7. c = loc[t].child
  OBVIOUS
<1> HIDE DEF c
<1>8. /\ r \in LocalType /\ r.pc = "run" /\ r.line = loc[t].line /\ r.out = loc[t].out
      /\ r.child = c /\ r.eof = loc[t].eof /\ r.fed = loc[t].fed /\ r.got = loc[t].got
  <2>1. loc[t].writes + 1 \in 0..MaxWrites
    BY <1>1, <1>4, BoundAssumption
  <2> QED
    BY <1>2, <1>4, <1>7, <2>1 DEF LocalType
<1>9. /\ e \in LocalType /\ e.pc = loc[c].pc /\ e.line = loc[c].line /\ e.out = loc[c].out
      /\ e.child = loc[c].child /\ e.exit_code = loc[c].exit_code /\ e.eof = loc[c].eof
      /\ e.got = loc[c].got /\ e.fed = loc[c].fed + 1
  <2>1. loc[c].fed + 1 \in Nat
    BY <1>4
  <2> QED
    BY <1>4, <2>1 DEF LocalType
<1> HIDE DEF r, e
<1>10. /\ loc' \in [TaskId -> LocalType] /\ loc'[t] = r /\ loc'[c] = e
       /\ \A u \in TaskId : u # t /\ u # c => loc'[u] = loc[u]
  BY ONLY <1>2, <1>3, <1>4, <1>6, <1>8, <1>9
<1> QED
  BY ONLY IInv, t \in ShellTask, <1>1, <1>2, <1>3, <1>5, <1>7, <1>8, <1>9, <1>10, SendStep

LEMMA FinishWriteStep ==
    ASSUME IInv, NEW t \in ShellTask, FinishWrite(t)
    PROVE  IInv'
<1> DEFINE c == loc[t].child
           r == [loc[t] EXCEPT !.pc = "wait"]
           e == loc[c]
<1>1. /\ At(t, "finish_write") /\ SendToPipe(c, Message("eof"))
      /\ loc' = [loc EXCEPT ![t].pc = "wait"]
      /\ UNCHANGED <<tasks, latest_id, main_msg, line_buf, finish_tasks,
                     finish_waiter, last_exit_code, keys>>
  BY DEF FinishWrite
<1>2. t \in tasks /\ t \in awake /\ t \in TaskId /\ loc[t].pc = "finish_write"
  BY <1>1, AtFacts
<1>3. c # NoTask /\ c \in TaskId /\ c # t
  <2>1. c # NoTask
    BY <1>2 DEF IInv, LinkPart
  <2>2. c \in Subtask /\ t < c
    BY <1>2, <2>1 DEF IInv, LinkPart
  <2> HIDE DEF c
  <2>3. c \in Nat /\ t \in Nat /\ c \in TaskId
    BY <1>2, <2>2, Ids
  <2>4. c # t
    BY ONLY <2>2, <2>3
  <2> QED
    BY <2>1, <2>3, <2>4
<1>4. loc[t] \in LocalType /\ e \in LocalType /\ loc \in [TaskId -> LocalType]
  <2> HIDE DEF c
  <2> QED
    BY <1>2, <1>3, LocFacts DEF IInv
<1>5. loc' = [loc EXCEPT ![t] = r, ![c] = e]
  <2> HIDE DEF c
  <2> QED
    BY <1>1, <1>2, <1>3, <1>4
<1>6. /\ r \in LocalType /\ r.pc = "wait" /\ r.line = loc[t].line /\ r.out = loc[t].out
      /\ r.child = c /\ r.eof = loc[t].eof /\ r.fed = loc[t].fed /\ r.got = loc[t].got
  BY <1>4 DEF LocalType, Pc
<1>7. c = loc[t].child /\ e = loc[c] /\ Message("eof") \in PipeMessage
  BY DEF PipeMessage
<1> HIDE DEF c, r, e
<1>8. /\ loc' \in [TaskId -> LocalType] /\ loc'[t] = r /\ loc'[c] = e
      /\ \A u \in TaskId : u # t /\ u # c => loc'[u] = loc[u]
  BY ONLY <1>2, <1>3, <1>4, <1>5, <1>6
<1> QED
  BY ONLY IInv, t \in ShellTask, <1>1, <1>2, <1>3, <1>4, <1>6, <1>7, <1>8, SendStep

\* A stage reads from its pipe: the message at the front counts as read, and the end comes
\* last.
LEMMA ReadPipeStep ==
    ASSUME IInv, NEW t \in ShellTask, ReadPipe(t)
    PROVE  IInv'
<1>1. /\ At(t, "run") /\ t \in Subtask /\ ~loc[t].eof
      /\ UNCHANGED <<tasks, latest_id, awake, main_msg, line_buf, finish_tasks,
                     finish_waiter, last_exit_code, keys, history>>
  BY DEF ReadPipe
<1>2. /\ t \in tasks /\ t \in awake /\ t \in TaskId /\ loc[t].pc = "run"
      /\ t # Main /\ t # Terminal
  BY <1>1, AtFacts, Ids
<1>3. CASE msgs[t] = <<>>
  <2>1. halted' = TRUE /\ msgs' = msgs /\ loc' = loc
    BY <1>3 DEF ReadPipe
  <2>2. TypeOK'
    BY <1>1, <2>1 DEF IInv, TypeOK
  <2>3. SleepPart'
    BY <1>1, <2>1 DEF IInv, SleepPart
  <2>4. \A u \in TaskId : u > latest_id => msgs'[u] = <<>>
    BY <2>1 DEF IInv, IdPart
  <2> QED
    BY <1>1, <2>1, <2>2, <2>3, <2>4, LocKept DEF IInv
<1>4. CASE msgs[t] # <<>>
  <2> DEFINE n == Len(msgs[t])
             r == IF Head(msgs[t]).type = "eof" THEN [loc[t] EXCEPT !.eof = TRUE]
                                                ELSE [loc[t] EXCEPT !.got = @ + 1]
  <2>1. /\ msgs' = [msgs EXCEPT ![t] = Tail(msgs[t])] /\ halted' = halted
        /\ loc' = [loc EXCEPT ![t] = r]
    BY <1>4 DEF ReadPipe
  <2>2. /\ msgs[t] \in Seq(PipeMessage) /\ msgs \in [TaskId -> Seq(KeyMessage \cup PipeMessage)]
        /\ msgs[t] \in Seq(KeyMessage \cup PipeMessage)
    BY <1>1, <1>2 DEF IInv, QueuePart, TypeOK
  <2>3. /\ Tail(msgs[t]) \in Seq(PipeMessage) /\ Head(msgs[t]) \in PipeMessage
        /\ n \in Nat /\ n >= 1 /\ Len(Tail(msgs[t])) = n - 1
        /\ Head(msgs[t]) = msgs[t][1]
        /\ \A i \in 1..(n - 1) : Tail(msgs[t])[i] = msgs[t][i + 1]
        /\ Tail(msgs[t]) = <<>> <=> n = 1
    BY <1>4, <2>2, TailQueue
  <2>4. Tail(msgs[t]) \in Seq(KeyMessage \cup PipeMessage)
    BY <1>4, <2>2, TailQueue
  <2>5. Head(msgs[t]).type = "eof" <=> Head(msgs[t]) = Message("eof")
    BY <2>3 DEF PipeMessage, Message
  <2>6. /\ loc[t] \in LocalType /\ loc \in [TaskId -> LocalType]
        /\ loc[t].got \in Nat /\ loc[t].fed \in Nat
    BY <1>2, LocFacts DEF IInv
  <2>7. /\ r \in LocalType /\ r.pc = "run" /\ r.line = loc[t].line /\ r.out = loc[t].out
        /\ r.child = loc[t].child /\ r.fed = loc[t].fed
        /\ Head(msgs[t]) = Message("eof") => r.eof = TRUE /\ r.got = loc[t].got
        /\ Head(msgs[t]) # Message("eof") => r.eof = FALSE /\ r.got = loc[t].got + 1
    <3>1. loc[t].got + 1 \in Nat
      BY <2>6
    <3>2. CASE Head(msgs[t]) = Message("eof")
      BY <1>2, <2>5, <2>6, <3>2 DEF LocalType
    <3>3. CASE Head(msgs[t]) # Message("eof")
      BY <1>1, <1>2, <2>5, <2>6, <3>1, <3>3 DEF LocalType
    <3> QED
      BY <3>2, <3>3
  <2> HIDE DEF r
  <2>8. /\ loc' \in [TaskId -> LocalType] /\ loc'[t] = r
        /\ \A u \in TaskId : u # t => loc'[u] = loc[u]
    BY <1>2, <2>1, <2>6, <2>7
  <2>9. /\ msgs'[t] = Tail(msgs[t]) /\ \A u \in TaskId : u # t => msgs'[u] = msgs[u]
        /\ msgs' \in [TaskId -> Seq(KeyMessage \cup PipeMessage)]
    BY <1>2, <2>1, <2>2, <2>4
  <2>10. \A u \in TaskId :
            /\ loc'[u].pc = loc[u].pc /\ loc'[u].line = loc[u].line /\ loc'[u].out = loc[u].out
            /\ loc'[u].child = loc[u].child
    BY <1>2, <2>7, <2>8
  <2>11. TypeOK'
    BY <1>1, <2>1, <2>8, <2>9 DEF IInv, TypeOK
  <2>12. t <= latest_id /\ ~(t > latest_id)
    <3>1. t <= latest_id /\ t \in Nat /\ latest_id \in Nat
      BY <1>2, Ids, BoundAssumption DEF IInv, IdPart, TypeOK
    <3> QED
      BY ONLY <3>1
  <2>13. IdPart'
    <3>1. \A u \in TaskId : u > latest_id => msgs'[u] = <<>>
      BY <2>9, <2>12 DEF IInv, IdPart
    <3>2. \A u \in TaskId : u > latest_id \/ u \notin ShellTask => loc'[u] = Local("prompt", <<>>)
      BY <2>8, <2>12 DEF IInv, IdPart
    <3>3. \A u \in Subtask : u <= latest_id => (u \in tasks <=> loc'[u].pc # "ended")
      BY <2>10, Ids DEF IInv, IdPart
    <3>4. loc'[Terminal].pc \notin {"finish", "ended"}
      BY <2>10, Ids DEF IInv, IdPart
    <3> QED
      BY <1>1, <3>1, <3>2, <3>3, <3>4 DEF IInv, IdPart
  <2>14. LinkPart'
    BY <1>1, <2>10 DEF IInv, LinkPart
  <2>15. QueuePart'
    BY <2>3, <2>9, Ids DEF IInv, QueuePart
  <2>16. PipePart'
    <3>1. \A d : Written(d)' <=> Written(d)
      BY <2>10 DEF Written
    <3> SUFFICES ASSUME NEW d \in Subtask
                 PROVE  /\ loc'[d].eof => /\ loc'[d].got = loc'[d].fed
                                          /\ msgs'[d] = <<>>
                                          /\ ~Written(d)
                        /\ ~loc'[d].eof /\ loc'[d].pc \notin {"prompt", "ended"} =>
                               /\ \A i \in 1..Len(msgs'[d]) :
                                      msgs'[d][i] = Message("eof") => i = Len(msgs'[d])
                               /\ loc'[d].fed + (IF EndIsQueued(d)' THEN 1 ELSE 0)
                                      = loc'[d].got + Len(msgs'[d])
                               /\ EndIsQueued(d)' => ~Written(d)
      BY <3>1 DEF PipePart
    <3>2. CASE d # t
      <4>1. msgs'[d] = msgs[d] /\ loc'[d] = loc[d]
        BY <2>8, <2>9, <3>2, Ids
      <4>2. EndIsQueued(d)' <=> EndIsQueued(d)
        BY <4>1 DEF EndIsQueued
      <4> QED
        BY <4>1, <4>2 DEF IInv, PipePart
    <3>3. CASE d = t
      <4>1. /\ \A i \in 1..n : msgs[t][i] = Message("eof") => i = n
            /\ loc[t].fed + (IF EndIsQueued(t) THEN 1 ELSE 0) = loc[t].got + n
            /\ EndIsQueued(t) => ~Written(t)
        BY <1>1, <1>2 DEF IInv, PipePart
      <4>2. EndIsQueued(t) <=> msgs[t][n] = Message("eof")
        BY <1>4 DEF EndIsQueued
      <4>3. 1 \in 1..n
        BY <2>3
      <4> HIDE DEF n
      <4>4. CASE Head(msgs[t]) = Message("eof")
        <5>1. n = 1 /\ EndIsQueued(t)
          BY <2>3, <4>1, <4>2, <4>3, <4>4
        <5>2. loc[t].fed + 1 = loc[t].got + 1
          BY <4>1, <5>1
        <5>3. loc[t].fed = loc[t].got
          BY ONLY <2>6, <5>2
        <5>4. msgs'[t] = <<>> /\ ~Written(t)
          BY <2>3, <2>9, <4>1, <5>1
        <5>5. loc'[t].eof = TRUE /\ loc'[t].got = loc'[t].fed
          BY <2>7, <2>8, <4>4, <5>3
        <5> QED
          BY <3>3, <5>4, <5>5
      <4>5. CASE Head(msgs[t]) # Message("eof")
        <5>1. loc'[t].eof = FALSE /\ loc'[t].got = loc[t].got + 1 /\ loc'[t].fed = loc[t].fed
          BY <2>7, <2>8, <4>5
        <5>2. Len(msgs'[t]) = n - 1
          BY <2>3, <2>9
        <5>3. \A i \in 1..(n - 1) : msgs'[t][i] = msgs[t][i + 1]
          BY <2>3, <2>9
        <5>4. ASSUME NEW i \in 1..(n - 1), msgs'[t][i] = Message("eof") PROVE i = n - 1
          <6>1. i + 1 \in 1..n
            BY <2>3
          <6>2. i + 1 = n
            BY <4>1, <5>3, <5>4, <6>1
          <6> QED
            BY <2>3, <6>2
        <5>5. EndIsQueued(t)' <=> EndIsQueued(t)
          <6>1. CASE n = 1
            <7>1. msgs'[t] = <<>>
              BY <2>3, <2>9, <6>1
            <7>2. msgs[t][n] # Message("eof")
              BY <2>3, <4>5, <6>1
            <7> QED
              BY <4>2, <7>1, <7>2 DEF EndIsQueued
          <6>2. CASE n # 1
            <7>1. n - 1 \in 1..(n - 1) /\ (n - 1) + 1 = n
              BY <2>3, <6>2
            <7>2. msgs'[t][n - 1] = msgs[t][n]
              BY <5>3, <7>1
            <7>3. msgs'[t] # <<>>
              BY <2>3, <2>9, <6>2
            <7> QED
              BY <4>2, <5>2, <7>2, <7>3 DEF EndIsQueued
          <6> QED
            BY <6>1, <6>2
        <5>6. loc[t].fed + (IF EndIsQueued(t) THEN 1 ELSE 0) = loc'[t].got + Len(msgs'[t])
          <6>1. (loc[t].got + 1) + (n - 1) = loc[t].got + n
            BY <2>3, <2>6
          <6> QED
            BY <4>1, <5>1, <5>2, <6>1
        <5> QED
          BY <3>3, <4>1, <5>1, <5>2, <5>4, <5>5, <5>6
      <4> QED
        BY <4>4, <4>5
    <3> QED
      BY <3>2, <3>3
  <2>17. QuitPart'
    <3>1. \A u \in Subtask : loc'[u].pc = loc[u].pc /\ (u # t => loc'[u].eof = loc[u].eof)
      BY <2>8, <2>10, Ids
    <3> QED
      BY <1>1, <1>2, <3>1 DEF IInv, QuitPart
  <2>18. WaitPart'
    <3>1. \A u \in TaskId : finish_waiter[u] # NoTask => finish_waiter[u] \in TaskId
      BY DEF IInv, TypeOK
    <3> QED
      BY <1>1, <2>10, <3>1 DEF IInv, WaitPart
  <2>19. SleepPart'
    <3>1. \A u \in ShellTask \cap tasks : u \notin awake =>
              u # t /\ msgs'[u] = msgs[u] /\ loc'[u] = loc[u]
      BY <1>2, <2>8, <2>9, Ids
    <3>2. msgs'[Main] = msgs[Main]
      BY <1>2, <2>9, Ids
    <3> QED
      BY <1>1, <3>1, <3>2 DEF IInv, SleepPart
  <2>20. ChainPart'
    <3>1. Present' = Present
      BY <1>1 DEF Present
    <3>2. \A u \in Present : loc'[u].pc = loc[u].pc /\ loc'[u].child = loc[u].child
      BY <2>10, Ids DEF Present
    <3> QED
      BY <1>1, <3>1, <3>2 DEF IInv, ChainPart
  <2>21. ResultPart'
    <3>1. \A u \in ShellTask : loc'[u].pc = loc[u].pc
                               /\ (u # t => loc'[u].exit_code = loc[u].exit_code)
      BY <2>8, <2>10, Ids
    <3> QED
      BY <1>1, <1>2, <3>1, Ids DEF IInv, ResultPart
  <2> QED
    BY <2>11, <2>13, <2>14, <2>15, <2>16, <2>17, <2>18, <2>19, <2>20, <2>21 DEF IInv
<1> QED
  BY <1>3, <1>4

-----------------------------------------------------------------------------
(* The end of a stage. *)

\* A stage takes the exit code of its subtask and becomes the last of the chain.
LEMMA CollectStep ==
    ASSUME IInv, NEW t \in ShellTask, At(t, "wait"),
           NEW c, c = loc[t].child, finish_tasks[c] # NoExit,
           finish_tasks' = [finish_tasks EXCEPT ![c] = NoExit],
           loc' = [loc EXCEPT ![t].pc = "set_code", ![t].exit_code = finish_tasks[c]],
           UNCHANGED <<tasks, latest_id, awake, msgs, main_msg, line_buf, finish_waiter,
                       last_exit_code, halted, keys, history>>
    PROVE  IInv'
<1> DEFINE r == [loc[t] EXCEPT !.pc = "set_code", !.exit_code = finish_tasks[c]]
<1>1. t \in tasks /\ t \in awake /\ t \in TaskId /\ loc[t].pc = "wait" /\ t \in Present
  BY AtFacts
<1>2. c # NoTask /\ c \in Subtask /\ c \in TaskId /\ c <= latest_id
  BY <1>1, Ids DEF IInv, LinkPart
<1>3. c \notin tasks /\ finish_tasks[c] \in ExitCode /\ loc[c].pc = "ended"
  <2>1. c \notin tasks
    BY <1>2 DEF IInv, IdPart
  <2>2. finish_tasks[c] \in ExitCode \cup {NoExit}
    BY <1>2 DEF IInv, TypeOK
  <2> QED
    BY <1>2, <2>1, <2>2 DEF IInv, IdPart
<1>4. loc[t] \in LocalType /\ loc \in [TaskId -> LocalType]
  BY <1>1, LocFacts DEF IInv
<1>5. /\ r \in LocalType /\ r.pc = "set_code" /\ r.exit_code = finish_tasks[c] /\ r.child = c
      /\ r.out = loc[t].out /\ r.line = loc[t].line /\ r.eof = loc[t].eof
      /\ r.fed = loc[t].fed /\ r.got = loc[t].got
  BY <1>3, <1>4 DEF LocalType, Pc
<1>6. loc' = [loc EXCEPT ![t] = r]
  BY <1>1, <1>4
<1> HIDE DEF r
<1>7. /\ loc' \in [TaskId -> LocalType] /\ loc'[t] = r
      /\ \A u \in TaskId : u # t => loc'[u] = loc[u]
  BY ONLY <1>1, <1>4, <1>5, <1>6
<1>8. /\ finish_tasks' \in [TaskId -> ExitCode \cup {NoExit}] /\ finish_tasks'[c] = NoExit
      /\ \A u \in TaskId : u # c => finish_tasks'[u] = finish_tasks[u]
  <2>1. finish_tasks \in [TaskId -> ExitCode \cup {NoExit}]
    BY DEF IInv, TypeOK
  <2> QED
    BY <1>2, <2>1
<1>9. \A u \in TaskId :
          /\ loc'[u].line = loc[u].line /\ loc'[u].out = loc[u].out /\ loc'[u].child = loc[u].child
          /\ loc'[u].eof = loc[u].eof /\ loc'[u].got = loc[u].got /\ loc'[u].fed = loc[u].fed
          /\ loc'[u].pc = loc[u].pc \/ (u = t /\ loc'[u].pc = "set_code")
  BY <1>5, <1>7
<1>10. ~(t > latest_id)
  <2>1. t <= latest_id /\ t \in Nat /\ latest_id \in Nat
    BY <1>1, Ids, BoundAssumption DEF IInv, IdPart, TypeOK
  <2> QED
    BY ONLY <2>1
<1>11. TypeOK'
  BY <1>7, <1>8 DEF IInv, TypeOK
<1>12. IdPart'
  <2>1. \A u \in TaskId : u > latest_id \/ u \notin ShellTask => loc'[u] = Local("prompt", <<>>)
    BY <1>7, <1>10 DEF IInv, IdPart
  <2>2. \A u \in Subtask : u <= latest_id => (u \in tasks <=> loc'[u].pc # "ended")
    <3> SUFFICES ASSUME NEW u \in Subtask, u <= latest_id
                 PROVE  u \in tasks <=> loc'[u].pc # "ended"
      OBVIOUS
    <3>1. CASE u = t
      BY <1>1, <1>5, <1>7, <3>1
    <3>2. CASE u # t
      BY <1>7, <3>2, Ids DEF IInv, IdPart
    <3> QED
      BY <3>1, <3>2
  <2>3. \A u \in TaskId : finish_tasks'[u] # NoExit =>
            u \in Subtask /\ u \notin tasks /\ u <= latest_id
    BY <1>8 DEF IInv, IdPart
  <2>4. loc'[Terminal].pc \notin {"finish", "ended"}
    BY <1>9, Ids DEF IInv, IdPart
  <2> QED
    BY <2>1, <2>2, <2>3, <2>4 DEF IInv, IdPart
<1>13. LinkPart'
  <2>1. ASSUME NEW u \in TaskId
        PROVE  /\ loc'[u].child # NoTask =>
                      loc'[u].child \in Subtask /\ loc'[u].child <= latest_id /\ u < loc'[u].child
               /\ loc'[u].out \in {NoTask, loc'[u].child}
               /\ loc'[u].pc = "pipe" => loc'[u].child = NoTask /\ loc'[u].line # <<>>
               /\ loc'[u].pc = "prompt" /\ u # Terminal => loc'[u].child = NoTask
               /\ loc'[u].pc \in {"finish_write", "wait"} => loc'[u].child # NoTask
               /\ loc'[u].pc \in {"redirect", "run"} =>
                      (Len(loc'[u].line) = 1 <=> loc'[u].child = NoTask)
    <3>1. CASE loc'[u].pc = "set_code"
      BY <1>9, <3>1 DEF IInv, LinkPart
    <3>2. CASE loc'[u] = loc[u]
      BY <3>2 DEF IInv, LinkPart
    <3> QED
      BY <1>5, <1>7, <3>1, <3>2
  <2>2. \A u, v \in TaskId : loc'[u].child = loc'[v].child /\ loc'[u].child # NoTask => u = v
    BY <1>9 DEF IInv, LinkPart
  <2> QED
    BY <2>1, <2>2 DEF LinkPart
<1>14. QueuePart'
  BY DEF IInv, QueuePart
<1>15. PipePart'
  <2>1. \A d : Written(d)' => Written(d)
    BY <1>9 DEF Written, Writing
  <2>2. \A d : EndIsQueued(d)' <=> EndIsQueued(d)
    BY DEF EndIsQueued
  <2>3. \A d \in Subtask :
            /\ loc'[d].eof = loc[d].eof /\ loc'[d].got = loc[d].got /\ loc'[d].fed = loc[d].fed
            /\ loc'[d].pc \notin {"prompt", "ended"} => loc[d].pc \notin {"prompt", "ended"}
    BY <1>1, <1>9, Ids
  <2> SUFFICES ASSUME NEW d \in Subtask
               PROVE  /\ loc'[d].eof => /\ loc'[d].got = loc'[d].fed
                                        /\ msgs[d] = <<>>
                                        /\ ~Written(d)'
                      /\ ~loc'[d].eof /\ loc'[d].pc \notin {"prompt", "ended"} =>
                             /\ \A i \in 1..Len(msgs[d]) :
                                    msgs[d][i] = Message("eof") => i = Len(msgs[d])
                             /\ loc'[d].fed + (IF EndIsQueued(d) THEN 1 ELSE 0)
                                    = loc'[d].got + Len(msgs[d])
                             /\ EndIsQueued(d) => ~Written(d)'
    BY <2>2 DEF PipePart
  <2> QED
    BY <2>1, <2>3 DEF IInv, PipePart
<1>16. QuitPart'
  <2>1. \A u \in Subtask :
            loc'[u].pc \in {"finish_write", "wait", "set_code", "finish", "ended"} =>
                loc[u].pc \in {"finish_write", "wait", "set_code", "finish", "ended"}
    BY <1>1, <1>9, Ids
  <2>2. \A u \in Subtask : loc'[u].eof = loc[u].eof
    BY <1>9, Ids
  <2> QED
    BY <2>1, <2>2 DEF IInv, QuitPart
<1>17. WaitPart'
  <2>1. ASSUME NEW u \in TaskId, loc'[u].pc \in Attached, loc'[u].child # NoTask
        PROVE  loc'[u].child \in tasks \/ finish_tasks'[loc'[u].child] # NoExit
    <3>1. u # t
      BY <1>5, <1>7, <2>1 DEF Attached
    <3>2. loc'[u] = loc[u] /\ loc[u].child # c /\ loc[u].child \in TaskId
      BY <1>1, <1>7, <2>1, <3>1, Ids DEF IInv, LinkPart
    <3> QED
      BY <1>8, <2>1, <3>2 DEF IInv, WaitPart
  <2>2. ASSUME NEW d \in TaskId, finish_waiter[d] # NoTask
        PROVE  /\ d \in tasks
               /\ loc'[finish_waiter[d]].pc = "wait" /\ loc'[finish_waiter[d]].child = d
    <3>1. /\ d \in tasks /\ finish_waiter[d] \in TaskId
          /\ loc[finish_waiter[d]].pc = "wait" /\ loc[finish_waiter[d]].child = d
      BY <2>2 DEF IInv, WaitPart, TypeOK
    <3>2. finish_waiter[d] # t
      BY <1>3, <3>1
    <3> QED
      BY <1>7, <3>1, <3>2
  <2> QED
    BY <2>1, <2>2 DEF WaitPart
<1>18. SleepPart'
  <2>1. \A u \in ShellTask \cap tasks : u \notin awake => loc'[u] = loc[u]
    BY <1>1, <1>7, Ids
  <2> QED
    BY <2>1 DEF IInv, SleepPart
<1>19. ChainPart'
  <2>1. Present' = Present \ {c}
    BY <1>2, <1>3, <1>8, Ids DEF Present
  <2>2. c \in Present
    BY <1>2, Ids DEF Present
  <2> SUFFICES ASSUME ~history.failed, NEW u \in Present, NEW v \in Present, v # c, u < v
               PROVE  /\ loc'[u].pc \in Attached
                      /\ loc'[u].child # NoTask /\ loc'[u].child <= v
    BY <2>1 DEF ChainPart
  <2>3. loc[u].pc \in Attached /\ loc[u].child # NoTask /\ loc[u].child <= v
    BY DEF IInv, ChainPart
  <2>4. ~(c < v)
    BY <1>3, <2>2, LastInChain DEF Attached
  <2>5. c \in Nat /\ v \in Nat /\ u \in TaskId
    BY <1>2, Ids DEF Present
  <2>6. u # t
    <3> SUFFICES ASSUME u = t PROVE FALSE
      OBVIOUS
    <3>1. c <= v
      BY <2>3
    <3> QED
      BY ONLY <2>4, <2>5, <3>1, v # c
  <2> QED
    BY <1>7, <2>3, <2>5, <2>6
<1>20. ResultPart'
  <2> SUFFICES ASSUME ~history.failed
               PROVE  /\ loc'[Terminal].pc = "prompt" => last_exit_code = history.result
                      /\ \A u \in ShellTask :
                             loc'[u].pc = "set_code" => loc'[u].exit_code = history.result
                      /\ \A u \in ShellTask : loc'[u].pc = "finish" => last_exit_code = history.result
                      /\ \A u \in TaskId : finish_tasks'[u] # NoExit => finish_tasks'[u] = history.result
    BY DEF ResultPart
  <2>1. finish_tasks[c] = history.result
    BY <1>2 DEF IInv, ResultPart
  <2> QED
    BY <1>5, <1>7, <1>8, <2>1, Ids DEF IInv, ResultPart
<1> QED
  BY <1>11, <1>12, <1>13, <1>14, <1>15, <1>16, <1>17, <1>18, <1>19, <1>20 DEF IInv

\* A stage registers as the waiter of its subtask and sleeps.
LEMMA RegisterStep ==
    ASSUME IInv, NEW t \in ShellTask, At(t, "wait"),
           NEW c, c = loc[t].child, finish_tasks[c] = NoExit,
           finish_waiter' = [finish_waiter EXCEPT ![c] = t],
           awake' = awake \ {t},
           UNCHANGED <<tasks, latest_id, msgs, loc, main_msg, line_buf, finish_tasks,
                       last_exit_code, halted, keys, history>>
    PROVE  IInv'
<1>1. t \in tasks /\ t \in awake /\ t \in TaskId /\ loc[t].pc = "wait" /\ t # Main
  BY AtFacts, Ids
<1>2. c # NoTask /\ c \in Subtask /\ c \in TaskId
  BY <1>1, Ids DEF IInv, LinkPart
<1>3. c \in tasks
  BY <1>1, <1>2 DEF IInv, WaitPart, Attached
<1>4. /\ finish_waiter' \in [TaskId -> TaskId \cup {NoTask}] /\ finish_waiter'[c] = t
      /\ \A d \in TaskId : d # c => finish_waiter'[d] = finish_waiter[d]
  <2>1. finish_waiter \in [TaskId -> TaskId \cup {NoTask}]
    BY DEF IInv, TypeOK
  <2> QED
    BY <1>1, <1>2, <2>1
<1>5. TypeOK'
  BY <1>4 DEF IInv, TypeOK
<1>6. IdPart' /\ LinkPart' /\ QueuePart' /\ QuitPart'
  BY DEF IInv, IdPart, LinkPart, QueuePart, QuitPart
<1>7. PipePart'
  <2>1. \A d : (Written(d)' <=> Written(d)) /\ (EndIsQueued(d)' <=> EndIsQueued(d))
    BY DEF Written, EndIsQueued
  <2> QED
    BY <2>1 DEF IInv, PipePart
<1>8. WaitPart'
  BY <1>1, <1>3, <1>4 DEF IInv, WaitPart
<1>9. SleepPart'
  <2>1. ASSUME NEW u \in ShellTask \cap tasks, u \notin awake \ {t}
        PROVE  \/ loc[u].pc = "prompt" /\ msgs[u] = <<>>
               \/ loc[u].pc = "wait" /\ finish_waiter'[loc[u].child] = u
    <3>1. CASE u = t
      BY <1>1, <1>4, <3>1
    <3>2. CASE u # t
      <4>1. u \in TaskId /\ u \notin awake
        BY <2>1, <3>2, Ids
      <4>2. CASE loc[u].pc = "prompt" /\ msgs[u] = <<>>
        BY <4>2
      <4>3. CASE loc[u].pc = "wait" /\ finish_waiter[loc[u].child] = u
        <5>1. loc[u].child # NoTask
          BY <4>1, <4>3 DEF IInv, LinkPart
        <5>2. loc[u].child # c /\ loc[u].child \in TaskId
          BY <1>1, <3>2, <4>1, <5>1, Ids DEF IInv, LinkPart
        <5> QED
          BY <1>4, <4>3, <5>2
      <4> QED
        BY <2>1, <4>1, <4>2, <4>3 DEF IInv, SleepPart
    <3> QED
      BY <3>1, <3>2
  <2> QED
    BY <1>1, <2>1 DEF IInv, SleepPart
<1>10. ChainPart' /\ ResultPart'
  <2>1. Present' = Present
    BY DEF Present
  <2> QED
    BY <2>1 DEF IInv, ChainPart, ResultPart
<1> QED
  BY <1>5, <1>6, <1>7, <1>8, <1>9, <1>10 DEF IInv

LEMMA WaitFinishStep ==
    ASSUME IInv, NEW t \in ShellTask, WaitFinish(t)
    PROVE  IInv'
<1> DEFINE c == loc[t].child
<1>1. At(t, "wait") /\ c = loc[t].child
      /\ UNCHANGED <<tasks, latest_id, msgs, main_msg, line_buf, last_exit_code,
                     halted, keys, history>>
  BY DEF WaitFinish
<1>2. \/ /\ finish_tasks[c] # NoExit
         /\ finish_tasks' = [finish_tasks EXCEPT ![c] = NoExit]
         /\ loc' = [loc EXCEPT ![t].pc = "set_code", ![t].exit_code = finish_tasks[c]]
         /\ UNCHANGED <<finish_waiter, awake>>
      \/ /\ finish_tasks[c] = NoExit
         /\ finish_waiter' = [finish_waiter EXCEPT ![c] = t]
         /\ awake' = awake \ {t}
         /\ UNCHANGED <<finish_tasks, loc>>
  BY DEF WaitFinish
<1> HIDE DEF c
<1>3. CASE finish_tasks[c] # NoExit
  BY <1>1, <1>2, <1>3, CollectStep
<1>4. CASE finish_tasks[c] = NoExit
  BY <1>1, <1>2, <1>4, RegisterStep
<1> QED
  BY <1>3, <1>4

\* A stage ends: it leaves its exit code, and its waiter wakes.
LEMMA FinishStep ==
    ASSUME IInv, NEW t \in ShellTask, Finish(t)
    PROVE  IInv'
<1> DEFINE w == finish_waiter[t]
           r == [loc[t] EXCEPT !.pc = "ended"]
<1>1. /\ At(t, "finish") /\ tasks' = tasks \ {t} /\ msgs' = [msgs EXCEPT ![t] = <<>>]
      /\ finish_tasks' = [finish_tasks EXCEPT ![t] = last_exit_code]
      /\ finish_waiter' = [finish_waiter EXCEPT ![t] = NoTask]
      /\ awake' = (awake \ {t}) \cup ({w} \ {NoTask})
      /\ loc' = [loc EXCEPT ![t] = r]
      /\ UNCHANGED <<latest_id, main_msg, line_buf, last_exit_code, halted, keys, history>>
  BY DEF Finish
<1>2. t \in tasks /\ t \in awake /\ t \in TaskId /\ loc[t].pc = "finish" /\ t \in Present
  BY <1>1, AtFacts
<1>3. t \in Subtask /\ t # Main /\ t # Terminal /\ t <= latest_id /\ ~(t > latest_id)
  <2>1. t <= latest_id /\ t \in Nat /\ latest_id \in Nat
    BY <1>2, Ids, BoundAssumption DEF IInv, IdPart, TypeOK
  <2>2. ~(t > latest_id)
    BY ONLY <2>1
  <2>3. t # Terminal
    BY <1>2 DEF IInv, IdPart
  <2> QED
    BY <1>2, <2>1, <2>2, <2>3, Ids
<1>4. w # NoTask => w \in TaskId /\ loc[w].pc = "wait" /\ w \in tasks /\ w # t
  <2>1. w # NoTask => w \in TaskId /\ loc[w].pc = "wait"
    BY <1>2 DEF IInv, WaitPart, TypeOK
  <2> HIDE DEF w
  <2> QED
    BY <1>2, <2>1, BusyIsLive
<1>5. loc[t] \in LocalType /\ loc \in [TaskId -> LocalType]
  BY <1>2, LocFacts DEF IInv
<1>6. /\ r \in LocalType /\ r.pc = "ended" /\ r.child = loc[t].child /\ r.out = loc[t].out
      /\ r.eof = loc[t].eof /\ r.fed = loc[t].fed /\ r.got = loc[t].got
  BY <1>5 DEF LocalType, Pc
<1> HIDE DEF r
<1>7. /\ loc' \in [TaskId -> LocalType] /\ loc'[t] = r
      /\ \A u \in TaskId : u # t => loc'[u] = loc[u]
  BY ONLY <1>1, <1>2, <1>5, <1>6
<1>8. /\ last_exit_code \in ExitCode /\ last_exit_code # NoExit
      /\ finish_tasks' \in [TaskId -> ExitCode \cup {NoExit}] /\ finish_tasks'[t] = last_exit_code
      /\ \A u \in TaskId : u # t => finish_tasks'[u] = finish_tasks[u]
  <2>1. finish_tasks \in [TaskId -> ExitCode \cup {NoExit}] /\ last_exit_code \in ExitCode
    BY DEF IInv, TypeOK
  <2>2. last_exit_code # NoExit
    BY <2>1, ExitAssumption
  <2> QED
    BY <1>1, <1>2, <2>1, <2>2
<1>9. /\ finish_waiter' \in [TaskId -> TaskId \cup {NoTask}] /\ finish_waiter'[t] = NoTask
      /\ \A u \in TaskId : u # t => finish_waiter'[u] = finish_waiter[u]
  <2>1. finish_waiter \in [TaskId -> TaskId \cup {NoTask}]
    BY DEF IInv, TypeOK
  <2> QED
    BY <1>1, <1>2, <2>1
<1>10. /\ msgs' \in [TaskId -> Seq(KeyMessage \cup PipeMessage)] /\ msgs'[t] = <<>>
       /\ \A u \in TaskId : u # t => msgs'[u] = msgs[u]
  <2>1. msgs \in [TaskId -> Seq(KeyMessage \cup PipeMessage)]
        /\ <<>> \in Seq(KeyMessage \cup PipeMessage)
    BY DEF IInv, TypeOK
  <2> QED
    BY <1>1, <1>2, <2>1
<1>11. \A u \in TaskId :
           /\ loc'[u].out = loc[u].out /\ loc'[u].child = loc[u].child
           /\ loc'[u].eof = loc[u].eof /\ loc'[u].got = loc[u].got /\ loc'[u].fed = loc[u].fed
           /\ loc'[u].pc # "ended" => loc'[u] = loc[u]
  BY <1>6, <1>7
<1>12. Present' = Present
  BY <1>1, <1>2, <1>8, Ids DEF Present
<1>13. TypeOK'
  <2>1. tasks' \subseteq TaskId /\ awake' \subseteq tasks'
    <3> HIDE DEF w
    <3> QED
      BY <1>1, <1>4 DEF IInv, TypeOK
  <2> QED
    BY <1>1, <1>7, <1>8, <1>9, <1>10, <2>1 DEF IInv, TypeOK
<1>14. IdPart'
  <2>1. Main \in tasks' /\ Terminal \in tasks' /\ \A u \in tasks' : u <= latest_id
    BY <1>1, <1>3 DEF IInv, IdPart
  <2>2. \A u \in TaskId : u > latest_id => msgs'[u] = <<>>
    BY <1>10 DEF IInv, IdPart
  <2>3. \A u \in TaskId : u > latest_id \/ u \notin ShellTask => loc'[u] = Local("prompt", <<>>)
    BY <1>3, <1>7 DEF IInv, IdPart
  <2>4. \A u \in Subtask : u <= latest_id => (u \in tasks' <=> loc'[u].pc # "ended")
    BY <1>1, <1>6, <1>7, Ids DEF IInv, IdPart
  <2>5. \A u \in TaskId : finish_tasks'[u] # NoExit =>
            u \in Subtask /\ u \notin tasks' /\ u <= latest_id
    BY <1>1, <1>3, <1>8 DEF IInv, IdPart
  <2>6. loc'[Terminal].pc \notin {"finish", "ended"}
    BY <1>3, <1>7, Ids DEF IInv, IdPart
  <2> QED
    BY <1>1, <2>1, <2>2, <2>3, <2>4, <2>5, <2>6 DEF IdPart
<1>15. LinkPart'
  <2>1. ASSUME NEW u \in TaskId
        PROVE  /\ loc'[u].child # NoTask =>
                      loc'[u].child \in Subtask /\ loc'[u].child <= latest_id /\ u < loc'[u].child
               /\ loc'[u].out \in {NoTask, loc'[u].child}
               /\ loc'[u].pc = "pipe" => loc'[u].child = NoTask /\ loc'[u].line # <<>>
               /\ loc'[u].pc = "prompt" /\ u # Terminal => loc'[u].child = NoTask
               /\ loc'[u].pc \in {"finish_write", "wait"} => loc'[u].child # NoTask
               /\ loc'[u].pc \in {"redirect", "run"} =>
                      (Len(loc'[u].line) = 1 <=> loc'[u].child = NoTask)
    <3>1. CASE loc'[u].pc = "ended"
      BY <1>11, <3>1 DEF IInv, LinkPart
    <3>2. CASE loc'[u] = loc[u]
      BY <3>2 DEF IInv, LinkPart
    <3> QED
      BY <1>11, <3>1, <3>2
  <2>2. \A u, v \in TaskId : loc'[u].child = loc'[v].child /\ loc'[u].child # NoTask => u = v
    BY <1>11 DEF IInv, LinkPart
  <2> QED
    BY <1>1, <2>1, <2>2 DEF LinkPart
<1>16. QueuePart'
  <2>1. <<>> \in Seq(PipeMessage)
    OBVIOUS
  <2> QED
    BY <1>10, <2>1, Ids DEF IInv, QueuePart
<1>17. PipePart'
  <2>1. \A d : Written(d)' => Written(d)
    <3>1. \A u \in TaskId : loc'[u].pc \in Writing => loc'[u] = loc[u]
      BY <1>11 DEF Writing
    <3> QED
      BY <3>1 DEF Written
  <2> SUFFICES ASSUME NEW d \in Subtask
               PROVE  /\ loc'[d].eof => /\ loc'[d].got = loc'[d].fed
                                        /\ msgs'[d] = <<>>
                                        /\ ~Written(d)'
                      /\ ~loc'[d].eof /\ loc'[d].pc \notin {"prompt", "ended"} =>
                             /\ \A i \in 1..Len(msgs'[d]) :
                                    msgs'[d][i] = Message("eof") => i = Len(msgs'[d])
                             /\ loc'[d].fed + (IF EndIsQueued(d)' THEN 1 ELSE 0)
                                    = loc'[d].got + Len(msgs'[d])
                             /\ EndIsQueued(d)' => ~Written(d)'
    BY DEF PipePart
  <2>2. CASE d = t
    <3>1. loc'[t].pc = "ended" /\ msgs'[t] = <<>>
      BY <1>6, <1>7, <1>10
    <3>2. loc[t].eof => loc[t].got = loc[t].fed /\ ~Written(t)
      BY <1>3 DEF IInv, PipePart
    <3> QED
      BY <1>2, <1>11, <2>1, <2>2, <3>1, <3>2
  <2>3. CASE d # t
    <3>1. loc'[d] = loc[d] /\ msgs'[d] = msgs[d]
      BY <1>7, <1>10, <2>3, Ids
    <3>2. EndIsQueued(d)' <=> EndIsQueued(d)
      BY <3>1 DEF EndIsQueued
    <3> QED
      BY <2>1, <3>1, <3>2 DEF IInv, PipePart
  <2> QED
    BY <2>2, <2>3
<1>18. QuitPart'
  <2>1. loc[t].eof \/ history.quit \/ history.failed
    BY <1>2, <1>3 DEF IInv, QuitPart
  <2> QED
    BY <1>1, <1>6, <1>7, <2>1, Ids DEF IInv, QuitPart
<1>19. WaitPart'
  <2>1. ASSUME NEW u \in TaskId, loc'[u].pc \in Attached, loc'[u].child # NoTask
        PROVE  loc'[u].child \in tasks' \/ finish_tasks'[loc'[u].child] # NoExit
    <3>1. loc'[u] = loc[u]
      BY <1>11, <2>1 DEF Attached
    <3>2. loc[u].child \in TaskId
      BY <2>1, <3>1, Ids DEF IInv, LinkPart
    <3>3. loc[u].child \in tasks \/ finish_tasks[loc[u].child] # NoExit
      BY <2>1, <3>1 DEF IInv, WaitPart
    <3> QED
      BY <1>1, <1>8, <3>1, <3>2, <3>3
  <2>2. ASSUME NEW d \in TaskId, finish_waiter'[d] # NoTask
        PROVE  /\ d \in tasks'
               /\ loc'[finish_waiter'[d]].pc = "wait" /\ loc'[finish_waiter'[d]].child = d
    <3>1. d # t /\ finish_waiter'[d] = finish_waiter[d]
      BY <1>9, <2>2
    <3>2. /\ d \in tasks /\ finish_waiter[d] \in TaskId
          /\ loc[finish_waiter[d]].pc = "wait" /\ loc[finish_waiter[d]].child = d
      BY <2>2, <3>1 DEF IInv, WaitPart, TypeOK
    <3>3. finish_waiter[d] # t
      BY <1>2, <3>2
    <3> QED
      BY <1>1, <1>7, <3>1, <3>2, <3>3
  <2> QED
    BY <2>1, <2>2 DEF WaitPart
<1>20. SleepPart'
  <2>1. ASSUME NEW u \in ShellTask \cap tasks', u \notin awake'
        PROVE  \/ loc'[u].pc = "prompt" /\ msgs'[u] = <<>>
               \/ loc'[u].pc = "wait" /\ finish_waiter'[loc'[u].child] = u
    <3>1. u # t /\ u \in tasks /\ u \in TaskId
      BY <1>1, <2>1, Ids
    <3>2. u \notin awake /\ u # w
      <4>1. u # NoTask
        BY <3>1, Ids
      <4> QED
        BY <1>1, <2>1, <3>1, <4>1
    <3>3. loc'[u] = loc[u] /\ msgs'[u] = msgs[u]
      BY <1>7, <1>10, <3>1
    <3>4. CASE loc[u].pc = "prompt" /\ msgs[u] = <<>>
      BY <3>3, <3>4
    <3>5. CASE loc[u].pc = "wait" /\ finish_waiter[loc[u].child] = u
      <4>1. loc[u].child # NoTask
        BY <3>1, <3>5 DEF IInv, LinkPart
      <4>2. loc[u].child \in TaskId /\ loc[u].child # t
        BY <3>1, <3>2, <3>5, <4>1, Ids DEF IInv, LinkPart
      <4> QED
        BY <1>9, <3>3, <3>5, <4>2
    <3> QED
      BY <2>1, <3>1, <3>2, <3>4, <3>5 DEF IInv, SleepPart
  <2>2. Main \notin awake' => msgs'[Main] = <<>> /\ main_msg' = <<>>
    <3>1. Main \notin awake' => Main \notin awake
      BY <1>1, <1>3
    <3>2. msgs'[Main] = msgs[Main]
      BY <1>3, <1>10, Ids
    <3> QED
      BY <1>1, <3>1, <3>2 DEF IInv, SleepPart
  <2> QED
    BY <2>1, <2>2 DEF SleepPart
<1>21. ChainPart'
  <2> SUFFICES ASSUME ~history.failed, NEW u \in Present, NEW v \in Present, u < v
               PROVE  /\ loc'[u].pc \in Attached
                      /\ loc'[u].child # NoTask /\ loc'[u].child <= v
    BY <1>1, <1>12 DEF ChainPart
  <2>1. loc[u].pc \in Attached /\ loc[u].child # NoTask /\ loc[u].child <= v
    BY DEF IInv, ChainPart
  <2>2. u \in TaskId /\ u # t
    BY <1>2, <2>1, Ids DEF Present, Attached
  <2> QED
    BY <1>7, <2>1, <2>2
<1>22. ResultPart'
  <2> SUFFICES ASSUME ~history.failed
               PROVE  /\ loc'[Terminal].pc = "prompt" => last_exit_code = history.result
                      /\ \A u \in ShellTask :
                             loc'[u].pc = "set_code" => loc'[u].exit_code = history.result
                      /\ \A u \in ShellTask : loc'[u].pc = "finish" => last_exit_code = history.result
                      /\ \A u \in TaskId : finish_tasks'[u] # NoExit => finish_tasks'[u] = history.result
    BY <1>1 DEF ResultPart
  <2>1. last_exit_code = history.result
    BY <1>2 DEF IInv, ResultPart
  <2> QED
    BY <1>6, <1>7, <1>8, <2>1, Ids DEF IInv, ResultPart
<1> QED
  BY <1>13, <1>14, <1>15, <1>16, <1>17, <1>18, <1>19, <1>20, <1>21, <1>22 DEF IInv

-----------------------------------------------------------------------------
(* The theorems. *)

LEMMA NextIInv == IInv /\ [Next]_vars => IInv'
<1> SUFFICES ASSUME IInv, [Next]_vars PROVE IInv'
  OBVIOUS
<1>1. CASE UNCHANGED vars
  <2>1. UNCHANGED <<tasks, latest_id, awake, msgs, loc, main_msg, line_buf, finish_tasks,
                    finish_waiter, last_exit_code, halted, keys, history>>
    BY <1>1 DEF vars
  <2>2. TypeOK' /\ SleepPart'
    BY <2>1 DEF IInv, TypeOK, SleepPart
  <2>3. \A u \in TaskId : u > latest_id => msgs'[u] = <<>>
    BY <2>1 DEF IInv, IdPart
  <2> QED
    BY <2>1, <2>2, <2>3, LocKept DEF IInv
<1>2. CASE \E k \in KeyMessage : TypeKey(k)
  BY <1>2, TypeKeyStep
<1>3. CASE MainReceive
  BY <1>3, MainReceiveStep
<1>4. CASE MainForward
  BY <1>4, MainForwardStep
<1>5. ASSUME NEW t \in ShellTask, Step(t) PROVE IInv'
  <2>1. CASE TerminalSleep(t)
    BY <2>1, TerminalSleepStep
  <2>2. CASE TerminalReceive(t)
    BY <2>2, TerminalReceiveStep
  <2>3. CASE Spawn(t)
    BY <2>3, SpawnNothingStep, SpawnTaskStep
  <2>4. CASE Redirect(t)
    BY <2>4, RedirectStep
  <2>5. CASE Write(t)
    BY <2>5, WriteStep
  <2>6. CASE ReadPipe(t)
    BY <2>6, ReadPipeStep
  <2>7. CASE ReadTerminal(t)
    BY <2>7, ReadTerminalStep
  <2>8. CASE \E code \in ExitCode : Exit(t, code)
    BY <2>8, ExitStep
  <2>9. CASE FinishWrite(t)
    BY <2>9, FinishWriteStep
  <2>10. CASE WaitFinish(t)
    BY <2>10, WaitFinishStep
  <2>11. CASE SetExitCode(t)
    BY <2>11, SetExitCodeStep
  <2>12. CASE Finish(t)
    BY <2>12, FinishStep
  <2> QED
    BY <1>5, <2>1, <2>2, <2>3, <2>4, <2>5, <2>6, <2>7, <2>8, <2>9, <2>10, <2>11, <2>12 DEF Step
<1> QED
  BY <1>1, <1>2, <1>3, <1>4, <1>5 DEF Next

LEMMA AlwaysIInv == Spec => []IInv
  BY InitIInv, NextIInv, PTL DEF Spec

\* Every variable of the shell keeps its type; in particular WaitFinish(subtask_id) never
\* returns without an exit code (terminal.cpp:570-579).
THEOREM TypeCorrect == Spec => []TypeOK
<1>1. IInv => TypeOK
  BY DEF IInv
<1> QED
  BY <1>1, AlwaysIInv, PTL

\* A set of tasks that is not empty has a greatest.
LEMMA GreatestTask ==
    ASSUME NEW T, T \subseteq TaskId, T # {}
    PROVE  \E g \in T : \A t \in T : t <= g
<1> DEFINE R == OpToRel(<, Nat)
           Room == {MaxTasks - t : t \in T}
<1>1. IsWellFoundedOn(R, Nat)
  BY NatLessThanWellFounded
<1>2. \A m, n \in Nat : m < n => <<m, n>> \in R
  BY DEF OpToRel
<1>3. \A t \in T : t \in Nat /\ MaxTasks - t \in Nat
  BY BoundAssumption DEF TaskId
<1>4. Room \subseteq Nat /\ Room # {}
  BY <1>3
<1> HIDE DEF R
<1>5. PICK n \in Room : \A m \in Room : ~(<<m, n>> \in R)
  <2> HIDE DEF Room
  <2> QED
    BY <1>1, <1>4, WFMin
<1>6. PICK g \in T : n = MaxTasks - g
  OBVIOUS
<1>7. ASSUME NEW t \in T PROVE t <= g
  <2>1. MaxTasks - t \in Room /\ MaxTasks - t \in Nat /\ MaxTasks - g \in Nat
    BY <1>3
  <2>2. ~(<<MaxTasks - t, MaxTasks - g>> \in R)
    BY <1>5, <1>6, <2>1
  <2>3. ~(MaxTasks - t < MaxTasks - g)
    BY <1>2, <2>1, <2>2
  <2>4. t \in Nat /\ g \in Nat /\ MaxTasks \in Nat
    BY <1>3, BoundAssumption
  <2> QED
    BY ONLY <2>3, <2>4
<1> QED
  BY <1>7

\* When every task sleeps (Main.cpp:59, terminal.cpp:616, task.cpp:240) the terminal is at its
\* prompt with no key left, or it waits for a stage that became an interactive terminal: the
\* youngest stage has no subtask to wait for.
THEOREM IdleAtPrompt == Spec => []IdleOnlyAtPrompt
<1>1. IInv => IdleOnlyAtPrompt
  <2> SUFFICES ASSUME IInv, awake = {}
               PROVE  /\ msgs[Main] = <<>> /\ main_msg = <<>>
                      /\ \/ loc[Terminal].pc = "prompt" /\ msgs[Terminal] = <<>>
                         \/ InteractiveStage
    BY DEF IdleOnlyAtPrompt
  <2>1. msgs[Main] = <<>> /\ main_msg = <<>>
    BY DEF IInv, SleepPart
  <2>2. ASSUME NEW t \in ShellTask \cap tasks
        PROVE  \/ loc[t].pc = "prompt" /\ msgs[t] = <<>>
               \/ loc[t].pc = "wait" /\ loc[t].child \in Subtask \cap tasks /\ t < loc[t].child
    <3>1. t \in TaskId /\ t # NoTask
      BY Ids
    <3>2. CASE loc[t].pc = "wait" /\ finish_waiter[loc[t].child] = t
      <4>1. loc[t].child \in Subtask /\ t < loc[t].child
        BY <3>1, <3>2 DEF IInv, LinkPart
      <4>2. loc[t].child \in tasks
        BY <3>1, <3>2, <4>1, Ids DEF IInv, WaitPart
      <4> QED
        BY <3>2, <4>1, <4>2
    <3> QED
      BY <3>2 DEF IInv, SleepPart
  <2>3. ASSUME loc[Terminal].pc = "wait" PROVE InteractiveStage
    <3>1. Terminal \in ShellTask \cap tasks
      BY Ids DEF IInv, IdPart
    <3>2. Subtask \cap tasks # {}
      BY <2>2, <2>3, <3>1
    <3>3. PICK g \in Subtask \cap tasks : \A t \in Subtask \cap tasks : t <= g
      <4>1. Subtask \cap tasks \subseteq TaskId
        BY Ids
      <4> QED
        BY <3>2, <4>1, GreatestTask
    <3>4. ASSUME loc[g].child \in Subtask \cap tasks, g < loc[g].child PROVE FALSE
      <4>1. loc[g].child <= g /\ loc[g].child \in Nat /\ g \in Nat
        BY <3>3, <3>4, Ids
      <4> QED
        BY ONLY <3>4, <4>1
    <3>5. loc[g].pc = "prompt"
      BY <2>2, <3>4, Ids
    <3> QED
      BY <3>5 DEF InteractiveStage
  <2> QED
    BY <2>1, <2>2, <2>3, Ids DEF IInv, IdPart
<1> QED
  BY <1>1, AlwaysIInv, PTL

\* At the prompt (terminal.cpp:612) every stage of the pipeline has ended and WaitFinish has
\* taken every exit code, unless a redirect failed.
THEOREM PipelineLeavesNothing == Spec => []NothingLeftBehind
<1>1. IInv => NothingLeftBehind
  <2> SUFFICES ASSUME IInv, loc[Terminal].pc = "prompt", ~history.failed
               PROVE  /\ tasks \cap Subtask = {}
                      /\ \A t \in TaskId : finish_tasks[t] = NoExit
    BY DEF NothingLeftBehind
  <2>1. Terminal \in Present /\ loc[Terminal].pc \notin Attached
    BY Ids DEF Present, Attached
  <2>2. \A v \in Present : ~(Terminal < v)
    BY <2>1, LastInChain
  <2>3. \A v \in Subtask : v \notin Present
    BY <2>2, Ids
  <2>4. tasks \cap Subtask = {}
    BY <2>3, Ids DEF Present
  <2>5. ASSUME NEW t \in TaskId, finish_tasks[t] # NoExit PROVE FALSE
    <3>1. t \in Subtask
      BY <2>5 DEF IInv, IdPart
    <3> QED
      BY <2>3, <2>5, <3>1, Ids DEF Present
  <2> QED
    BY <2>4, <2>5
<1> QED
  BY <1>1, AlwaysIInv, PTL

\* The shared last_exit_code (terminal.cpp:581, read again at terminal.cpp:607) is at the
\* prompt the exit code of the last stage of the line, unless a redirect failed.
THEOREM PromptHasLastExitCode == Spec => []ExitCodeOfLastStage
<1>1. IInv => ExitCodeOfLastStage
  BY DEF IInv, ResultPart, ExitCodeOfLastStage
<1> QED
  BY <1>1, AlwaysIInv, PTL

\* PipeDescriptor::Read (terminal.cpp:323) reports the end only after every chunk that
\* PipeDescriptor::Write has sent.
THEOREM EofComesLast == Spec => []EofAfterAllData
<1>1. IInv => EofAfterAllData
  BY DEF IInv, PipePart, EofAfterAllData
<1> QED
  BY <1>1, AlwaysIInv, PTL

\* FinishWrite (terminal.cpp:377-383) and Write use the Task of a reader that has finished only
\* if a stage ended before it read its input to the end, or a redirect failed.
THEOREM FreedReadersQuitEarly == Spec => []FreedReaderQuitEarly
<1>1. IInv => FreedReaderQuitEarly
  BY DEF IInv, QuitPart, FreedReaderQuitEarly
<1> QED
  BY <1>1, AlwaysIInv, PTL

=============================================================================
