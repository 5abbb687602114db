-------------------------------- MODULE Pipe --------------------------------
(***************************************************************************)
(* PipeDescriptor (kernel/terminal.cpp), byte by byte: a Write is cut into *)
(* messages of at most kPipeData bytes, a Read returns at most one message *)
(* and keeps what is left of it in data_, and a message of length 0 ends   *)
(* the pipe.  The n-th byte written is the number n.                       *)
(*                                                                         *)
(* Reader and writer are two tasks.  The message queue is the reader's; it *)
(* is used with interrupts off.  Every Read of a pipe is made in a system  *)
(* call, where Sleep does not return: the switch to a task with another    *)
(* page map faults in the kernel and the machine stops (Shell shows it).   *)
(***************************************************************************)
EXTENDS Naturals, Sequences

CONSTANTS
    kPipeData,   \* sizeof(Message::arg.pipe.data); 16 in the code
    WriteSizes,  \* the sizes of the writes
    ReadSizes,   \* the sizes of the reads
    MaxBytes     \* bound on the bytes written

ASSUME DataAssumption == kPipeData \in Nat \ {0}
ASSUME SizeAssumption == WriteSizes \subseteq Nat /\ ReadSizes \subseteq Nat
ASSUME BytesAssumption == MaxBytes \in Nat

VARIABLES
    msgs,      \* the reader's message queue; <<>> in it is the end
    data,      \* data_[0..len_)
    closed,    \* closed_
    reading,   \* <<len>> while a Read waits for a message
    unsent,    \* what is left to send of the Write under way
    finished,  \* FinishWrite was called
    written,   \* number of bytes passed to Write
    got,       \* bytes returned by Read
    halted     \* the reader has slept in its system call
vars == <<msgs, data, closed, reading, unsent, finished, written, got, halted>>

Least(m, n) == IF m < n THEN m ELSE n
First(s, n) == SubSeq(s, 1, n)
From(s, n) == SubSeq(s, n + 1, Len(s))

Init ==
    /\ msgs = <<>>
    /\ data = <<>>
    /\ closed = FALSE
    /\ reading = <<>>
    /\ unsent = <<>>
    /\ finished = FALSE
    /\ written = 0
    /\ got = <<>>
    /\ halted = FALSE

-----------------------------------------------------------------------------
(* The writer. *)

\* Write(buf, len) begins; a Write of no byte sends nothing.
WriteBegin(len) ==
    /\ unsent = <<>> /\ ~finished
    /\ written + len <= MaxBytes
    /\ unsent' = [i \in 1..len |-> written + i]
    /\ written' = written + len
    /\ UNCHANGED <<msgs, data, closed, reading, finished, got, halted>>

\* A turn of Write's loop: the next message, sent with interrupts off.  Its Wakeup
\* finds the reader in a run queue.
WriteChunk ==
    /\ unsent # <<>>
    /\ LET n == Least(Len(unsent), kPipeData)
       IN  /\ msgs' = Append(msgs, First(unsent, n))
           /\ unsent' = From(unsent, n)
    /\ UNCHANGED <<data, closed, reading, finished, written, got, halted>>

\* Fault: a pipe that nothing was written to is given no end.
FinishWrite_IfWritten ==
    /\ unsent = <<>> /\ ~finished
    /\ finished' = TRUE
    /\ msgs' = IF written = 0 THEN msgs ELSE Append(msgs, <<>>)
    /\ UNCHANGED <<data, closed, reading, unsent, written, got, halted>>

\* FinishWrite, after the last Write has returned.
FinishWrite ==
    /\ unsent = <<>> /\ ~finished
    /\ finished' = TRUE
    /\ msgs' = Append(msgs, <<>>)
    /\ UNCHANGED <<data, closed, reading, unsent, written, got, halted>>

-----------------------------------------------------------------------------
(* The reader. *)

\* Read(buf, len) with bytes left from the last message.
ReadLeftover(len) ==
    /\ reading = <<>>
    /\ data # <<>>
    /\ LET n == Least(Len(data), len)
       IN  got' = got \o First(data, n) /\ data' = From(data, n)
    /\ UNCHANGED <<msgs, closed, reading, unsent, finished, written, halted>>

\* Read with nothing left: 0 at once if the end was seen, else it waits.
ReadBegin(len) ==
    /\ reading = <<>>
    /\ data = <<>> /\ ~closed
    /\ reading' = <<len>>
    /\ UNCHANGED <<msgs, data, closed, unsent, finished, written, got, halted>>

\* No message: Sleep, in the critical section of the test, and in a system call.
ReadSleep ==
    /\ reading # <<>>
    /\ msgs = <<>>
    /\ halted' = TRUE
    /\ UNCHANGED <<msgs, data, closed, reading, unsent, finished, written, got>>

\* Fault: what does not fit into the caller's buffer is dropped.
ReadMessage_DropsRest ==
    /\ reading # <<>>
    /\ msgs # <<>>
    /\ LET m == Head(msgs)
       IN  IF m = <<>>
           THEN closed' = TRUE /\ UNCHANGED <<data, got>>
           ELSE /\ got' = got \o First(m, Least(Len(m), Head(reading)))
                /\ UNCHANGED <<data, closed>>
    /\ msgs' = Tail(msgs)
    /\ reading' = <<>>
    /\ UNCHANGED <<unsent, finished, written, halted>>

\* Fault: a Read of no byte takes any message for the end.
ReadMessage_ZeroCloses ==
    /\ reading # <<>>
    /\ msgs # <<>>
    /\ LET m == Head(msgs)
           n == Least(Len(m), Head(reading))
       IN  IF n = 0
           THEN closed' = TRUE /\ UNCHANGED <<data, got>>
           ELSE got' = got \o First(m, n) /\ data' = From(m, n) /\ UNCHANGED closed
    /\ msgs' = Tail(msgs)
    /\ reading' = <<>>
    /\ UNCHANGED <<unsent, finished, written, halted>>

\* A message arrives: the end, or bytes of which the first len are returned
\* and the others kept.
ReadMessage ==
    /\ reading # <<>>
    /\ msgs # <<>>
    /\ LET m == Head(msgs)
           n == Least(Len(m), Head(reading))
       IN  IF m = <<>>
           THEN closed' = TRUE /\ UNCHANGED <<data, got>>
           ELSE got' = got \o First(m, n) /\ data' = From(m, n) /\ UNCHANGED closed
    /\ msgs' = Tail(msgs)
    /\ reading' = <<>>
    /\ UNCHANGED <<unsent, finished, written, halted>>

Reader ==
    \/ \E len \in ReadSizes : ReadLeftover(len)
    \/ \E len \in ReadSizes : ReadBegin(len)
    \/ ReadSleep
    \/ ReadMessage

Next ==
    /\ ~halted
    /\ \/ \E len \in WriteSizes : WriteBegin(len)
       \/ WriteChunk
       \/ FinishWrite
       \/ Reader

Spec == Init /\ [][Next]_vars

\* The writer's command ends and FinishWrite is called; the reader gets its
\* turns and goes on reading into a buffer that is not empty.
FairSpec ==
    /\ Spec
    /\ WF_vars(~halted /\ WriteChunk) /\ WF_vars(~halted /\ FinishWrite)
    /\ WF_vars(~halted /\ (ReadSleep \/ ReadMessage))
    /\ \A len \in ReadSizes \ {0} :
          WF_vars(~halted /\ ReadLeftover(len)) /\ WF_vars(~halted /\ ReadBegin(len))

-----------------------------------------------------------------------------
(* Properties. *)

\* Every variable holds a value of the type of the C++ variable it stands for;
\* a message, and what is left of one, fits into its 16 bytes.
TypeOK ==
    /\ msgs \in Seq(Seq(1..MaxBytes))
    /\ \A i \in 1..Len(msgs) : Len(msgs[i]) <= kPipeData
    /\ data \in Seq(1..MaxBytes) /\ Len(data) <= kPipeData
    /\ closed \in BOOLEAN
    /\ reading \in Seq(ReadSizes) /\ Len(reading) <= 1
    /\ unsent \in Seq(1..MaxBytes)
    /\ finished \in BOOLEAN
    /\ written \in 0..MaxBytes
    /\ got \in Seq(1..MaxBytes)
    /\ halted \in BOOLEAN

\* The bytes of the messages queued, in order.
Queued ==
    LET f[i \in 0..Len(msgs)] == IF i = 0 THEN <<>> ELSE f[i - 1] \o msgs[i]
    IN  f[Len(msgs)]

\* However writes are cut into messages and messages into reads, every byte is
\* in one place and in its place: returned, left over, queued or to be sent.
EveryByteInOrder ==
    got \o data \o Queued \o unsent = [i \in 1..written |-> i]

\* The pipe is a byte stream: what is left over and what is queued is the
\* stream, and the reader's closed_ is its end.
BS == INSTANCE ByteStream WITH stream <- data \o Queued, ended <- closed
ImplementsByteStream == BS!Spec

\* A reader that goes on reading sees the end, after every byte, unless it catches
\* up with its writer: a Read that has returned every byte sent and finds nothing more
\* before FinishWrite stops the machine.  No Read waits for what will not come.
ReaderSeesAll ==
    <>[](\/ closed /\ Len(got) = written
         \/ halted /\ ~finished /\ Len(got) = written - Len(unsent))

=============================================================================
