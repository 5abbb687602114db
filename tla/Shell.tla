------------------------------- MODULE Shell -------------------------------
(***************************************************************************)
(* The shell: the keyboard interrupt, the main loop that forwards keys,    *)
(* the terminal task, and the pipelines it runs, one task per stage        *)
(* (kernel/terminal.cpp, Main.cpp, keyboard.cpp, syscall.cpp).             *)
(*                                                                         *)
(* A step is a stretch of a task's code that no other task can see inside. *)
(* Any awake task may take the next step: of the scheduler only what       *)
(* TaskManager's refinement of PriorityScheduler gives is used, that the   *)
(* task that runs is ready.  What programs do is left open: a command      *)
(* writes, reads and exits as it likes.  Output to the console or a file,  *)
(* and reads after the end of the input, change nothing modelled here.     *)
(***************************************************************************)
EXTENDS Naturals, Sequences, FiniteSets

CONSTANTS
    Stage,      \* stages a user can type: records [kind, redir]
    MaxKeys,    \* bound on the keys typed
    MaxWrites,  \* bound on the messages a command writes into a pipe
    MaxTasks,   \* bound on latest_id_; enough for every pipeline typed
    NoExit      \* no entry in finish_tasks_

\* kind "none" is what follows a '|' at the end of a line; redir says whether
\* the stage holds a '>' and whether the file behind it can be opened.
ASSUME StageAssumption ==
    Stage \subseteq [kind : {"builtin", "app", "none"}, redir : {"no", "file", "error"}]
ASSUME BoundAssumption ==
    /\ MaxKeys \in Nat /\ MaxWrites \in Nat
    /\ MaxTasks \in Nat /\ MaxTasks >= 3 /\ MaxTasks > MaxKeys
ExitCode == {0, 1}
ASSUME ExitAssumption == NoExit \notin ExitCode

NoTask == 0
Main == 1       \* KernelMainNewStack
Terminal == 3   \* the task that runs TaskTerminal without a descriptor
TaskId == 1..MaxTasks
Subtask == 4..MaxTasks

\* Messages: kKeyboardPush (one "char" stands for the keys that type a stage)
\* and kPipe, of which the one of length 0 is "eof".
Message(type) == [type |-> type, text |-> <<>>]
KeyMessage == [type : {"char"}, text : {<<s>> : s \in Stage}]
                  \cup {Message("enter"), Message("ctrl_d")}
PipeMessage == {Message("data"), Message("eof")}

VARIABLES
    tasks,           \* live tasks
    latest_id,       \* latest_id_
    awake,           \* tasks in a run queue
    msgs,            \* message queues
    loc,             \* where each task is in its code, and its local variables
    main_msg,        \* the message the main loop is acting on, if any
    line_buf,        \* line_buf of the terminal
    finish_tasks,    \* finish_tasks_
    finish_waiter,   \* finish_waiter_
    last_exit_code,  \* the global of that name
    halted,          \* the processor is in a fault handler's hlt loop
    keys,            \* keys typed so far
    history          \* what happened, for the properties
vars == <<tasks, latest_id, awake, msgs, loc, main_msg, line_buf, finish_tasks,
          finish_waiter, last_exit_code, halted, keys, history>>

\* The locals of ExecuteCommand: line is the part of the command line this task
\* executes, out the subtask whose pipe is files[1] (NoTask: console or file),
\* child is subtask_id; eof, fed and got belong to the pipe the task reads.
Local(pc, line) ==
    [pc |-> pc, line |-> line, out |-> NoTask, child |-> NoTask, exit_code |-> 0,
     writes |-> 0, eof |-> FALSE, fed |-> 0, got |-> 0]

\* Boot has created the terminal task; 2 is the idle task.
Init ==
    /\ tasks = 1..3
    /\ latest_id = 3
    /\ awake = {Main, Terminal}
    /\ msgs = [t \in TaskId |-> <<>>]
    /\ loc = [t \in TaskId |-> Local("prompt", <<>>)]
    /\ main_msg = <<>>
    /\ line_buf = <<>>
    /\ finish_tasks = [t \in TaskId |-> NoExit]
    /\ finish_waiter = [t \in TaskId |-> NoTask]
    /\ last_exit_code = 0
    /\ halted = FALSE
    /\ keys = 0
    /\ history = [failed |-> FALSE, quit |-> FALSE, freed |-> FALSE, result |-> 0]

Runs(t) == ~halted /\ t \in tasks /\ t \in awake
At(t, pc) == Runs(t) /\ loc[t].pc = pc

-----------------------------------------------------------------------------
(* Keys. *)

\* KeyboardOnInterrupt: SendMessage(1, m).
TypeKey(k) ==
    /\ ~halted
    /\ keys < MaxKeys
    /\ keys' = keys + 1
    /\ msgs' = [msgs EXCEPT ![Main] = Append(@, k)]
    /\ awake' = awake \cup {Main}
    /\ UNCHANGED <<tasks, latest_id, loc, main_msg, line_buf, finish_tasks,
                   finish_waiter, last_exit_code, halted, history>>

\* The main loop: receive a message or sleep, in one critical section.
MainReceive ==
    /\ Runs(Main)
    /\ main_msg = <<>>
    /\ IF msgs[Main] = <<>>
       THEN awake' = awake \ {Main} /\ UNCHANGED <<msgs, main_msg>>
       ELSE /\ main_msg' = <<Head(msgs[Main])>>
            /\ msgs' = [msgs EXCEPT ![Main] = Tail(@)]
            /\ UNCHANGED awake
    /\ UNCHANGED <<tasks, latest_id, loc, line_buf, finish_tasks, finish_waiter,
                   last_exit_code, halted, keys, history>>

\* case kKeyboardPush: SendMessage(terminal_task.ID(), msg).
MainForward ==
    /\ Runs(Main)
    /\ main_msg # <<>>
    /\ msgs' = [msgs EXCEPT ![Terminal] = Append(@, Head(main_msg))]
    /\ awake' = awake \cup {Terminal}
    /\ main_msg' = <<>>
    /\ UNCHANGED <<tasks, latest_id, loc, line_buf, finish_tasks, finish_waiter,
                   last_exit_code, halted, keys, history>>

-----------------------------------------------------------------------------
(* TaskTerminal, for the terminal and for a subtask whose command line is    *)
(* empty, which becomes a second interactive terminal.                       *)

\* Fault: a message that came since the queue was tested is not seen.
TerminalSleep_NoTest(t) ==
    /\ At(t, "prompt")
    /\ awake' = awake \ {t}
    /\ UNCHANGED <<tasks, latest_id, msgs, loc, main_msg, line_buf, finish_tasks,
                   finish_waiter, last_exit_code, halted, keys, history>>

\* No message: Sleep, in the critical section of the test.
TerminalSleep(t) ==
    /\ At(t, "prompt")
    /\ msgs[t] = <<>>
    /\ awake' = awake \ {t}
    /\ UNCHANGED <<tasks, latest_id, msgs, loc, main_msg, line_buf, finish_tasks,
                   finish_waiter, last_exit_code, halted, keys, history>>

\* A key extends the line, Enter executes it (an empty line is a command that
\* is not found), and a pipe message is dropped.  The prompt ignores Ctrl, so
\* Ctrl-D only changes the text of the line.
NotFound == [kind |-> "builtin", redir |-> "no"]
TerminalReceive(t) ==
    /\ At(t, "prompt")
    /\ msgs[t] # <<>>
    /\ msgs' = [msgs EXCEPT ![t] = Tail(@)]
    /\ LET m == Head(msgs[t])
       IN  \/ /\ m \in PipeMessage \/ m.type = "ctrl_d"
              /\ UNCHANGED <<line_buf, loc>>
           \/ /\ m.type = "char"
              /\ line_buf' = line_buf \o m.text
              /\ UNCHANGED loc
           \/ /\ m.type = "enter"
              /\ loc' = [loc EXCEPT ![t] =
                     Local("pipe", IF line_buf = <<>> THEN <<NotFound>> ELSE line_buf)]
              /\ line_buf' = <<>>
    /\ UNCHANGED <<tasks, latest_id, awake, main_msg, finish_tasks, finish_waiter,
                   last_exit_code, halted, keys, history>>

-----------------------------------------------------------------------------
(* ExecuteCommand. *)

\* Where a task goes when ExecuteCommand returns.
Returned(t) == IF t = Terminal THEN "prompt" ELSE "finish"

\* With a '|', a new task executes the rest of the line, reading from a pipe
\* into which files[1] now leads.
Spawn(t) ==
    /\ At(t, "pipe")
    /\ IF Len(loc[t].line) = 1
       THEN /\ loc' = [loc EXCEPT ![t].pc = "redirect"]
            /\ UNCHANGED <<tasks, latest_id, awake>>
       ELSE LET c    == latest_id + 1
                rest == Tail(loc[t].line)
                idle == Len(rest) = 1 /\ Head(rest) = [kind |-> "none", redir |-> "no"]
            IN  /\ c \in Subtask
                /\ latest_id' = c
                /\ tasks' = tasks \cup {c}
                /\ awake' = awake \cup {c}
                /\ loc' = [loc EXCEPT
                       ![c] = Local(IF idle THEN "prompt" ELSE "pipe", rest),
                       ![t].pc = "redirect", ![t].out = c, ![t].child = c]
    /\ UNCHANGED <<msgs, main_msg, line_buf, finish_tasks, finish_waiter,
                   last_exit_code, halted, keys, history>>

\* redir_char is the first '>' of the whole line, later stages included.
FirstRedir(line) ==
    LET at == {i \in 1..Len(line) : line[i].redir # "no"}
    IN  IF at = {} THEN "no"
        ELSE line[CHOOSE i \in at : \A j \in at : i <= j].redir

\* A redirect replaces files[1]; one that fails returns from ExecuteCommand,
\* whatever was spawned before.
Redirect(t) ==
    /\ At(t, "redirect")
    /\ LET r == FirstRedir(loc[t].line)
       IN  /\ loc' = [loc EXCEPT
                  ![t].pc = IF r = "error" THEN Returned(t) ELSE "run",
                  ![t].out = IF r = "no" THEN @ ELSE NoTask]
           /\ history' = [history EXCEPT !.failed = @ \/ r = "error"]
    /\ UNCHANGED <<tasks, latest_id, awake, msgs, main_msg, line_buf, finish_tasks,
                   finish_waiter, last_exit_code, halted, keys>>

\* task_.SendMessage(msg) of a PipeDescriptor that refers to task c.  When c
\* has finished its Task is freed memory: what is written there is lost, or the
\* processor faults.
SendToPipe(c, m) ==
    \/ /\ c \in tasks
       /\ msgs' = [msgs EXCEPT ![c] = Append(@, m)]
       /\ awake' = awake \cup {c}
       /\ UNCHANGED <<halted, history>>
    \/ /\ c \notin tasks
       /\ history' = [history EXCEPT !.freed = TRUE]
       /\ halted' \in BOOLEAN
       /\ UNCHANGED <<msgs, awake>>

\* The command writes into its pipe.
Write(t) ==
    /\ At(t, "run")
    /\ Head(loc[t].line).kind # "none"
    /\ loc[t].out # NoTask
    /\ loc[t].writes < MaxWrites
    /\ SendToPipe(loc[t].out, Message("data"))
    /\ loc' = [loc EXCEPT ![t].writes = @ + 1, ![loc[t].out].fed = @ + 1]
    /\ UNCHANGED <<tasks, latest_id, main_msg, line_buf, finish_tasks,
                   finish_waiter, last_exit_code, keys>>

\* Fault: an empty queue reads as the end of the input.
ReadPipe_EmptyIsEof(t) ==
    /\ At(t, "run")
    /\ Head(loc[t].line).kind = "app"
    /\ t \in Subtask /\ ~loc[t].eof
    /\ IF msgs[t] = <<>>
       THEN loc' = [loc EXCEPT ![t].eof = TRUE] /\ UNCHANGED msgs
       ELSE /\ msgs' = [msgs EXCEPT ![t] = Tail(@)]
            /\ loc' = IF Head(msgs[t]).type = "eof" THEN [loc EXCEPT ![t].eof = TRUE]
                                             ELSE [loc EXCEPT ![t].got = @ + 1]
    /\ UNCHANGED <<tasks, latest_id, awake, main_msg, line_buf, finish_tasks,
                   finish_waiter, last_exit_code, halted, keys, history>>

\* Only applications read: PipeDescriptor::Read runs inside a system call, on
\* the application's stack.  With no message it sleeps there, and the switch
\* pops the next task's frame from a stack its address space does not map: the
\* fault comes from kernel code, so its handler halts.
ReadPipe(t) ==
    /\ At(t, "run")
    /\ Head(loc[t].line).kind = "app"
    /\ t \in Subtask /\ ~loc[t].eof
    /\ IF msgs[t] = <<>>
       THEN halted' = TRUE /\ UNCHANGED <<msgs, loc>>
       ELSE /\ msgs' = [msgs EXCEPT ![t] = Tail(@)]
            /\ loc' = IF Head(msgs[t]).type = "eof" THEN [loc EXCEPT ![t].eof = TRUE]
                                             ELSE [loc EXCEPT ![t].got = @ + 1]
            /\ UNCHANGED halted
    /\ UNCHANGED <<tasks, latest_id, awake, main_msg, line_buf, finish_tasks,
                   finish_waiter, last_exit_code, keys, history>>

\* TerminalFileDescriptor::Read takes keys from the terminal's own queue.  It
\* polls: with no message it changes nothing.
ReadTerminal(t) ==
    /\ At(t, "run")
    /\ Head(loc[t].line).kind = "app"
    /\ t = Terminal
    /\ msgs[t] # <<>>
    /\ msgs' = [msgs EXCEPT ![t] = Tail(@)]
    /\ UNCHANGED <<tasks, latest_id, awake, loc, main_msg, line_buf, finish_tasks,
                   finish_waiter, last_exit_code, halted, keys, history>>

\* The command ends: a builtin, an application that exits or is killed, or a
\* file that cannot be executed.
Exit(t, code) ==
    /\ At(t, "run")
    /\ Head(loc[t].line).kind = "none" => code = 0   \* no such command
    /\ loc' = [loc EXCEPT
           ![t].exit_code = code,
           ![t].pc = IF loc[t].child = NoTask THEN "set_code" ELSE "finish_write"]
    /\ history' = [history EXCEPT
           !.quit = @ \/ (t \in Subtask /\ ~loc[t].eof),
           !.result = IF Len(loc[t].line) = 1 THEN code ELSE @]
    /\ UNCHANGED <<tasks, latest_id, awake, msgs, main_msg, line_buf, finish_tasks,
                   finish_waiter, last_exit_code, halted, keys>>

\* FinishWrite: a chunk of length 0 ends the pipe.
FinishWrite(t) ==
    /\ At(t, "finish_write")
    /\ SendToPipe(loc[t].child, Message("eof"))
    /\ loc' = [loc EXCEPT ![t].pc = "wait"]
    /\ UNCHANGED <<tasks, latest_id, main_msg, line_buf, finish_tasks,
                   finish_waiter, last_exit_code, keys>>

\* Fault: the exit code of the subtask is ignored.
WaitFinish_OwnCode(t) ==
    /\ At(t, "wait")
    /\ LET c == loc[t].child
       IN  \/ /\ finish_tasks[c] # NoExit
              /\ finish_tasks' = [finish_tasks EXCEPT ![c] = NoExit]
              /\ loc' = [loc EXCEPT ![t].pc = "set_code"]
              /\ UNCHANGED <<finish_waiter, awake>>
           \/ /\ finish_tasks[c] = NoExit
              /\ finish_waiter' = [finish_waiter EXCEPT ![c] = t]
              /\ awake' = awake \ {t}
              /\ UNCHANGED <<finish_tasks, loc>>
    /\ UNCHANGED <<tasks, latest_id, msgs, main_msg, line_buf, last_exit_code,
                   halted, keys, history>>

\* Fault: whatever wakes the waiter is taken for the end of the subtask.
WaitFinish_NoLoop(t) ==
    /\ At(t, "wait")
    /\ LET c == loc[t].child
       IN  \/ /\ finish_tasks[c] # NoExit \/ finish_waiter[c] = t
              /\ finish_tasks' = [finish_tasks EXCEPT ![c] = NoExit]
              /\ loc' = [loc EXCEPT ![t].pc = "set_code",
                                    ![t].exit_code = finish_tasks[c]]
              /\ UNCHANGED <<finish_waiter, awake>>
           \/ /\ finish_tasks[c] = NoExit /\ finish_waiter[c] # t
              /\ finish_waiter' = [finish_waiter EXCEPT ![c] = t]
              /\ awake' = awake \ {t}
              /\ UNCHANGED <<finish_tasks, loc>>
    /\ UNCHANGED <<tasks, latest_id, msgs, main_msg, line_buf, last_exit_code,
                   halted, keys, history>>

\* A turn of WaitFinish(subtask_id), interrupts off throughout; a key may wake
\* the terminal before the subtask ends.
WaitFinish(t) ==
    /\ At(t, "wait")
    /\ LET c == loc[t].child
       IN  \/ /\ finish_tasks[c] # NoExit
              /\ finish_tasks' = [finish_tasks EXCEPT ![c] = NoExit]
              /\ loc' = [loc EXCEPT ![t].pc = "set_code",
                                    ![t].exit_code = finish_tasks[c]]
              /\ UNCHANGED <<finish_waiter, awake>>
           \/ /\ finish_tasks[c] = NoExit
              /\ finish_waiter' = [finish_waiter EXCEPT ![c] = t]
              /\ awake' = awake \ {t}
              /\ UNCHANGED <<finish_tasks, loc>>
    /\ UNCHANGED <<tasks, latest_id, msgs, main_msg, line_buf, last_exit_code,
                   halted, keys, history>>

\* last_exit_code = exit_code, and ExecuteCommand returns.
SetExitCode(t) ==
    /\ At(t, "set_code")
    /\ last_exit_code' = loc[t].exit_code
    /\ loc' = [loc EXCEPT ![t].pc = Returned(t)]
    /\ UNCHANGED <<tasks, latest_id, awake, msgs, main_msg, line_buf, finish_tasks,
                   finish_waiter, halted, keys, history>>

\* Fault: the waiter is not woken.
Finish_NoWakeup(t) ==
    /\ At(t, "finish")
    /\ tasks' = tasks \ {t}
    /\ msgs' = [msgs EXCEPT ![t] = <<>>]
    /\ finish_tasks' = [finish_tasks EXCEPT ![t] = last_exit_code]
    /\ finish_waiter' = [finish_waiter EXCEPT ![t] = NoTask]
    /\ awake' = awake \ {t}
    /\ loc' = [loc EXCEPT ![t].pc = "ended"]
    /\ UNCHANGED <<latest_id, main_msg, line_buf, last_exit_code, halted, keys,
                   history>>

\* Finish(last_exit_code), the end of a subtask: the global is read again.
Finish(t) ==
    /\ At(t, "finish")
    /\ tasks' = tasks \ {t}
    /\ msgs' = [msgs EXCEPT ![t] = <<>>]
    /\ finish_tasks' = [finish_tasks EXCEPT ![t] = last_exit_code]
    /\ finish_waiter' = [finish_waiter EXCEPT ![t] = NoTask]
    /\ awake' = (awake \ {t}) \cup ({finish_waiter[t]} \ {NoTask})
    /\ loc' = [loc EXCEPT ![t].pc = "ended"]
    /\ UNCHANGED <<latest_id, main_msg, line_buf, last_exit_code, halted, keys,
                   history>>

-----------------------------------------------------------------------------
ShellTask == {Terminal} \cup Subtask

Step(t) ==
    \/ TerminalSleep(t)
    \/ TerminalReceive(t)
    \/ Spawn(t)
    \/ Redirect(t)
    \/ Write(t)
    \/ ReadPipe(t)
    \/ ReadTerminal(t)
    \/ \E code \in ExitCode : Exit(t, code)
    \/ FinishWrite(t)
    \/ WaitFinish(t)
    \/ SetExitCode(t)
    \/ Finish(t)

Next ==
    \/ \E k \in KeyMessage : TypeKey(k)
    \/ MainReceive
    \/ MainForward
    \/ \E t \in ShellTask : Step(t)

Spec == Init /\ [][Next]_vars

\* Round robin gives every awake task its turns; programs end, since MaxWrites
\* bounds what they write and nothing else they do repeats for ever.
FairSpec ==
    /\ Spec
    /\ WF_vars(MainReceive \/ MainForward)
    /\ \A t \in ShellTask : WF_vars(Step(t))

-----------------------------------------------------------------------------
(* Properties. *)

Pc == {"prompt", "pipe", "redirect", "run", "finish_write", "wait", "set_code",
       "finish", "ended"}
LocalType ==
    [pc : Pc, line : Seq(Stage \cup {NotFound}), out : TaskId \cup {NoTask},
     child : TaskId \cup {NoTask}, exit_code : ExitCode, writes : 0..MaxWrites,
     eof : BOOLEAN, fed : Nat, got : Nat]

\* Every variable holds a value of the type of the C++ variable it stands for;
\* in particular no wait returns without an exit code.
TypeOK ==
    /\ tasks \subseteq TaskId /\ awake \subseteq tasks
    /\ latest_id \in 3..MaxTasks
    /\ msgs \in [TaskId -> Seq(KeyMessage \cup PipeMessage)]
    /\ loc \in [TaskId -> LocalType]
    /\ main_msg \in Seq(KeyMessage \cup PipeMessage)
    /\ line_buf \in Seq(Stage)
    /\ finish_tasks \in [TaskId -> ExitCode \cup {NoExit}]
    /\ finish_waiter \in [TaskId -> TaskId \cup {NoTask}]
    /\ last_exit_code \in ExitCode
    /\ halted \in BOOLEAN
    /\ keys \in 0..MaxKeys
    /\ history \in [failed : BOOLEAN, quit : BOOLEAN, freed : BOOLEAN, result : ExitCode]

\* The system never goes idle with work left: when every task sleeps, the
\* terminal is at its prompt with nothing typed ahead, or it waits, possibly
\* through other stages, for a stage that became an interactive terminal.
InteractiveStage == \E t \in Subtask \cap tasks : loc[t].pc = "prompt"
IdleOnlyAtPrompt ==
    awake = {} /\ ~halted =>
        /\ msgs[Main] = <<>> /\ main_msg = <<>>
        /\ \/ loc[Terminal].pc = "prompt" /\ msgs[Terminal] = <<>>
           \/ InteractiveStage

\* When the prompt comes back the whole pipeline is gone: every subtask has
\* ended and every exit code is collected, unless a redirect failed, whose
\* early return abandons the stages spawned before it.
NothingLeftBehind ==
    loc[Terminal].pc = "prompt" /\ ~history.failed =>
        /\ tasks \cap Subtask = {}
        /\ \A t \in TaskId : finish_tasks[t] = NoExit

\* At the prompt the shared last_exit_code is the exit code of the last stage
\* of the last line, handed from Finish to WaitFinish stage by stage, unless a
\* redirect failed.
ExitCodeOfLastStage ==
    loc[Terminal].pc = "prompt" /\ ~history.failed => last_exit_code = history.result

\* A stage that reads the end of its pipe has read every chunk written into it.
EofAfterAllData ==
    \A t \in Subtask : loc[t].eof => loc[t].got = loc[t].fed

\* A pipe refers to the task that reads it.  The writer uses it after that task
\* was freed only if some reader ended before it read the end of its pipe:
\* stages that read their input to the end are safe.
FreedReaderQuitEarly ==
    history.freed => history.quit \/ history.failed

\* No application sleeps inside a system call: the comment in
\* TerminalFileDescriptor::Read reports that a read cannot Sleep.
NoSleepInSyscall == halted => history.freed

\* Every command line returns to the prompt, however its stages interleave
\* with each other and with the keys typed meanwhile, unless the machine halts
\* or a stage has become an interactive terminal.
PromptReturns ==
    (loc[Terminal].pc = "pipe")
        ~> (loc[Terminal].pc = "prompt" \/ halted \/ InteractiveStage)

=============================================================================
