---------------------------- MODULE TerminalIO -----------------------------
(***************************************************************************)
(* From the keys to the screen: the keyboard's bytes, the driver, the queue *)
(* of the terminal's task, its prompt, the programs it runs and what they   *)
(* read and print (kernel/terminal.cpp: TaskTerminal and                    *)
(* TerminalFileDescriptor).                                                 *)
(*                                                                         *)
(* The main loop passes keys on in order (Shell models it), so one queue    *)
(* stands for both.  Lines are not interpreted: Enter starts a program in   *)
(* the terminal's task and, as in a pipeline, one in a subtask.             *)
(***************************************************************************)
EXTENDS Keyboard, Console

CONSTANTS
    Terminal, Subtask,   \* the two writers
    Output,              \* characters that programs print
    MaxEvents            \* bound on bytes from the keyboard and characters printed

ASSUME WriterAssumption == Writer = {Terminal, Subtask} /\ Terminal # Subtask

VARIABLES
    down,      \* keys held down
    doubled,   \* modifiers both of whose keys are or were down together
    wire,      \* bytes the controller has for the interrupt handler
    kb,        \* keyShiftPressed, keyCtrlPressed, keyAltPressed
    queue,     \* messages to the terminal's task
    mode,      \* of the terminal's task: starts, prompt, enter, runs, reads
    events     \* bytes from the keyboard and characters printed by programs so far
ioVars == <<down, doubled, wire, kb, queue, mode, events>>
vars == <<consoleVars, ioVars>>

\* Keys by name: scan code, and whether a prefix byte comes before it.
Code == [LShift |-> 42, RShift |-> 54, LCtrl |-> 29, RCtrl |-> 29, LAlt |-> 56, RAlt |-> 56,
         D |-> 32, Enter |-> 28, F1 |-> 59]
Extended == {"RCtrl", "RAlt"}
Key == DOMAIN Code
KeysOf == [shift |-> {"LShift", "RShift"}, ctrl |-> {"LCtrl", "RCtrl"}, alt |-> {"LAlt", "RAlt"}]

KeyBytes(key, break) ==
    (IF key \in Extended THEN <<224>> ELSE <<>>) \o <<Code[key] + break>>

Init ==
    /\ ConsoleInit
    /\ down = {} /\ doubled = {} /\ wire = <<>>
    /\ kb = [shift |-> {}, ctrl |-> FALSE, alt |-> FALSE]
    /\ queue = <<>>
    /\ mode = "starts"
    /\ events = 0

-----------------------------------------------------------------------------
(* The keyboard and its interrupt. *)

PressOrRelease(key) ==
    LET sent == KeyBytes(key, IF key \in down THEN kBreakMask ELSE 0)
        held == IF key \in down THEN down \ {key} ELSE down \cup {key}
    IN  /\ wire = <<>>
        /\ events + Len(sent) <= MaxEvents
        /\ events' = events + Len(sent)
        /\ wire' = sent
        /\ down' = held
        /\ doubled' = {m \in DOMAIN KeysOf : \/ KeysOf[m] \subseteq held
                                             \/ m \in doubled /\ KeysOf[m] \cap held # {}}
        /\ UNCHANGED <<consoleVars, kb, queue, mode>>

KeyboardOnInterrupt ==
    /\ wire # <<>>
    /\ wire' = Tail(wire)
    /\ kb' = Modifiers(kb, Head(wire))
    /\ queue' = queue \o KeyMessages(kb, Head(wire))
    /\ UNCHANGED <<consoleVars, down, doubled, mode, events>>

-----------------------------------------------------------------------------
(* The terminal's task. *)

PutString(w, s) ==
    /\ put' = [put EXCEPT ![w].text = s]
    /\ UNCHANGED <<buffer, screen, cursor_row, cursor_column, overlapped, raced, returned>>

\* The prompt is printed at the start and after each command.
PrintPrompt ==
    /\ mode = "starts" /\ put[Terminal].text = <<>>
    /\ PutString(Terminal, CString(<<">", " ">>))
    /\ mode' = "prompt"
    /\ UNCHANGED <<down, doubled, wire, kb, queue, events>>

\* A key at the prompt is echoed, whatever its modifiers; Enter executes the line.
PromptKey ==
    /\ mode = "prompt" /\ put[Terminal].text = <<>> /\ queue # <<>>
    /\ queue' = Tail(queue)
    /\ PutString(Terminal, <<Head(queue).char>>)
    /\ mode' = IF Head(queue).char = "NL" THEN "enter" ELSE "prompt"
    /\ UNCHANGED <<down, doubled, wire, kb, events>>

ExecuteCommand ==
    /\ mode = "enter" /\ put[Terminal].text = <<>>
    /\ mode' = "runs"
    /\ UNCHANGED <<consoleVars, down, doubled, wire, kb, queue, events>>

\* The terminal waits for the subtask before it prints its prompt.
CommandEnds ==
    /\ mode = "runs" /\ \A w \in Writer : put[w].text = <<>>
    /\ mode' = "starts"
    /\ UNCHANGED <<consoleVars, down, doubled, wire, kb, queue, events>>

\* The command is clear.
CommandClear ==
    /\ mode = "runs"
    /\ Clear(Terminal)
    /\ UNCHANGED ioVars

\* A program calls Read on the terminal.
ReadBegin ==
    /\ mode = "runs" /\ put[Terminal].text = <<>>
    /\ mode' = "reads"
    /\ UNCHANGED <<consoleVars, down, doubled, wire, kb, queue, events>>

\* A turn of Read's loop: a key with Ctrl is shown as ^ and its upper case, and
\* ends the input if it is d; another key is echoed and returned.
ReadKey ==
    LET key == Head(queue)
        upper == IF key.char = "d" THEN "D" ELSE key.char
    IN  /\ mode = "reads" /\ put[Terminal].text = <<>> /\ queue # <<>>
        /\ queue' = Tail(queue)
        /\ PutString(Terminal, IF key.ctrl THEN CString(<<"^", upper>>) ELSE <<key.char>>)
        /\ mode' = IF key.ctrl /\ key.char # "d" THEN "reads" ELSE "runs"
        /\ UNCHANGED <<down, doubled, wire, kb, events>>

\* TerminalFileDescriptor::Write of a program, in either task.
ProgramPrints(w, c) ==
    /\ mode = "runs" \/ (w = Subtask /\ mode = "reads")
    /\ put[w].text = <<>>
    /\ events < MaxEvents
    /\ events' = events + 1
    /\ PutString(w, <<c>>)
    /\ UNCHANGED <<down, doubled, wire, kb, queue, mode>>

Next ==
    \/ \E key \in Key : PressOrRelease(key)
    \/ KeyboardOnInterrupt
    \/ PrintPrompt
    \/ PromptKey
    \/ ExecuteCommand
    \/ CommandEnds
    \/ CommandClear
    \/ ReadBegin
    \/ ReadKey
    \/ \E w \in Writer, c \in Output : ProgramPrints(w, c)
    \/ \E w \in Writer : PutChar(w) /\ UNCHANGED ioVars

Spec == Init /\ [][Next]_vars

-----------------------------------------------------------------------------
(* Properties. *)

\* When all bytes are handled the driver's modifiers are those held down.  Only
\* Ctrl and Alt can be wrong, in one way: the prefix of the right key is taken
\* for a release of nothing, so of two keys held the first released counts.
ModifiersFollowKeys ==
    wire = <<>> =>
        /\ (kb.shift # {}) = (KeysOf["shift"] \cap down # {})
        /\ \A m \in {"ctrl", "alt"} :
               /\ kb[m] => KeysOf[m] \cap down # {}
               /\ ~kb[m] /\ m \notin doubled => KeysOf[m] \cap down = {}

=============================================================================
