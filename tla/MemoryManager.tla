--------------------------- MODULE MemoryManager ---------------------------
(***************************************************************************)
(* BitmapMemoryManager (kernel/memory_manager.cpp): the bitmap of physical *)
(* frames, built from the firmware's memory map at boot, and Allocate and  *)
(* Free as the tasks that execute programs call them.                      *)
(*                                                                         *)
(* No caller turns interrupts off, so the timer may switch tasks between   *)
(* any two bits of the bitmap that a call reads or writes: a step of a     *)
(* client is one turn of a loop.  SetBit reads and writes the word of 64   *)
(* bits that its bit is in.  It is taken to be one instruction with a      *)
(* memory operand, as compilers make of |= and &=; a load and a store that *)
(* an interrupt separates would undo what others do to that word meanwhile. *)
(***************************************************************************)
EXTENDS Naturals, Sequences, FiniteSets

CONSTANTS
    MemoryMaps,      \* memory maps the firmware may hand over, in frames
    kBytesPerFrame,  \* 4096 in the code
    MaxFrames,       \* the largest block a client asks for
    MaxBlocks,       \* bound on the blocks a client holds
    Client           \* tasks that allocate and free frames

\* A memory map: regions in address order, [start, pages, available].
ASSUME MapAssumption ==
    \A map \in MemoryMaps :
        /\ map \in Seq([start : Nat, pages : Nat \ {0}, available : BOOLEAN])
        /\ \A i \in 1..(Len(map) - 1) : map[i].start + map[i].pages <= map[i + 1].start
ASSUME FrameAssumption == kBytesPerFrame \in Nat \ {0} /\ MaxFrames \in Nat \ {0}
ASSUME BlocksAssumption == MaxBlocks \in Nat \ {0}

Frames(start, n) == start..(start + n - 1)

VARIABLES
    memory_map,   \* the map the machine booted with
    alloc_map,    \* frames whose bit is set
    range_end,    \* range_end_
    call,         \* the call each client is in, and its local variables
    blocks,       \* blocks each client was given and has not freed
    overlapped,   \* two calls of Allocate have been under way at once
    quiet         \* clients in whose Allocate no bit was cleared so far
vars == <<memory_map, alloc_map, range_end, call, blocks, overlapped, quiet>>

range_begin == 1   \* range_begin_

-----------------------------------------------------------------------------
(* InitializeMemoryManager: one pass over the memory map. *)

\* available_end after the first i regions.
AvailableEnd(map) ==
    LET f[i \in 0..Len(map)] ==
            IF i = 0 THEN 0
            ELSE IF map[i].available THEN map[i].start + map[i].pages ELSE f[i - 1]
    IN  f

\* Fault: holes between the regions are not marked.
Marked_NoHoles(map, i) ==
    IF map[i].available THEN {} ELSE Frames(map[i].start, map[i].pages)

\* Frames that region i marks: the hole or the unavailable regions before it,
\* and the region itself unless it is available.
Marked(map, i) ==
    LET end == AvailableEnd(map)[i - 1]
    IN  (IF end < map[i].start THEN Frames(end, map[i].start - end) ELSE {})
        \cup (IF map[i].available THEN {} ELSE Frames(map[i].start, map[i].pages))

BootMap(map) == UNION {Marked(map, i) : i \in 1..Len(map)}
MemoryEnd(map) == AvailableEnd(map)[Len(map)]

Idle == [op |-> "idle", start |-> 0, n |-> 0, i |-> 0]

\* SetMemoryRange is given the address of the end of memory, not its frame.
\* InitializeHeap is the first call of Allocate, whichever client makes it here.
Init ==
    /\ memory_map \in MemoryMaps
    /\ alloc_map = BootMap(memory_map)
    /\ range_end = MemoryEnd(memory_map) * kBytesPerFrame
    /\ call = [c \in Client |-> Idle]
    /\ blocks = [c \in Client |-> {}]
    /\ overlapped = FALSE
    /\ quiet = {}

-----------------------------------------------------------------------------
(* Allocate(num_frames) and Free(start_frame, num_frames). *)

Allocating(c) == call[c].op \in {"scan", "mark"}

AllocateBegin(c, n) ==
    /\ call[c].op = "idle"
    /\ Cardinality(blocks[c]) < MaxBlocks
    /\ call' = [call EXCEPT ![c] = [op |-> "scan", start |-> range_begin, n |-> n, i |-> 0]]
    /\ overlapped' = (overlapped \/ \E d \in Client : Allocating(d))
    /\ quiet' = quiet \cup {c}
    /\ UNCHANGED <<memory_map, alloc_map, range_end, blocks>>

\* Fault: after a frame in use the search skips a whole block.
AllocateScan_SkipsBlock(c) ==
    LET a == call[c]
    IN  /\ a.op = "scan"
        /\ \/ /\ a.i = a.n
              /\ call' = [call EXCEPT ![c].op = "mark", ![c].i = 0]
           \/ /\ a.i < a.n
              /\ a.start + a.i >= range_end
              /\ call' = [call EXCEPT ![c] = Idle]
           \/ /\ a.i < a.n
              /\ a.start + a.i < range_end
              /\ call' = IF a.start + a.i \in alloc_map
                         THEN [call EXCEPT ![c].start = a.start + a.n + 1, ![c].i = 0]
                         ELSE [call EXCEPT ![c].i = a.i + 1]
        /\ UNCHANGED <<memory_map, alloc_map, range_end, blocks, overlapped, quiet>>

\* A turn of the search: every bit of the block was clear, the block leaves the
\* range (kNoEnoughMemory), or another bit is looked at.
AllocateScan(c) ==
    LET a == call[c]
    IN  /\ a.op = "scan"
        /\ \/ /\ a.i = a.n
              /\ call' = [call EXCEPT ![c].op = "mark", ![c].i = 0]
           \/ /\ a.i < a.n
              /\ a.start + a.i >= range_end
              /\ call' = [call EXCEPT ![c] = Idle]
           \/ /\ a.i < a.n
              /\ a.start + a.i < range_end
              /\ call' = IF a.start + a.i \in alloc_map
                         THEN [call EXCEPT ![c].start = a.start + a.i + 1, ![c].i = 0]
                         ELSE [call EXCEPT ![c].i = a.i + 1]
        /\ UNCHANGED <<memory_map, alloc_map, range_end, blocks, overlapped, quiet>>

\* Fault: the last frame of the block is not marked.
AllocateMark_OneShort(c) ==
    LET a == call[c]
    IN  /\ a.op = "mark"
        /\ \/ /\ a.i < a.n - 1
              /\ alloc_map' = alloc_map \cup {a.start + a.i}
              /\ call' = [call EXCEPT ![c].i = a.i + 1]
              /\ UNCHANGED blocks
           \/ /\ a.i >= a.n - 1
              /\ blocks' = [blocks EXCEPT ![c] = @ \cup {<<a.start, a.n>>}]
              /\ call' = [call EXCEPT ![c] = Idle]
              /\ UNCHANGED alloc_map
        /\ UNCHANGED <<memory_map, range_end, overlapped, quiet>>

\* A turn of MarkAllocated, or the return of the block.
AllocateMark(c) ==
    LET a == call[c]
    IN  /\ a.op = "mark"
        /\ \/ /\ a.i < a.n
              /\ alloc_map' = alloc_map \cup {a.start + a.i}
              /\ call' = [call EXCEPT ![c].i = a.i + 1]
              /\ UNCHANGED blocks
           \/ /\ a.i = a.n
              /\ blocks' = [blocks EXCEPT ![c] = @ \cup {<<a.start, a.n>>}]
              /\ call' = [call EXCEPT ![c] = Idle]
              /\ UNCHANGED alloc_map
        /\ UNCHANGED <<memory_map, range_end, overlapped, quiet>>

\* Free of a block the client was given.
FreeBegin(c, b) ==
    /\ call[c].op = "idle"
    /\ blocks' = [blocks EXCEPT ![c] = @ \ {b}]
    /\ call' = [call EXCEPT ![c] = [op |-> "free", start |-> b[1], n |-> b[2], i |-> 0]]
    /\ UNCHANGED <<memory_map, alloc_map, range_end, overlapped, quiet>>

\* Fault: one frame too many is freed.
FreeStep_OneMore(c) ==
    LET a == call[c]
    IN  /\ a.op = "free"
        /\ \/ /\ a.i <= a.n
              /\ alloc_map' = alloc_map \ {a.start + a.i}
              /\ call' = [call EXCEPT ![c].i = a.i + 1]
              /\ quiet' = {}
           \/ /\ a.i > a.n
              /\ call' = [call EXCEPT ![c] = Idle]
              /\ UNCHANGED <<alloc_map, quiet>>
        /\ UNCHANGED <<memory_map, range_end, blocks, overlapped>>

FreeStep(c) ==
    LET a == call[c]
    IN  /\ a.op = "free"
        /\ \/ /\ a.i < a.n
              /\ alloc_map' = alloc_map \ {a.start + a.i}
              /\ call' = [call EXCEPT ![c].i = a.i + 1]
              /\ quiet' = {}
           \/ /\ a.i = a.n
              /\ call' = [call EXCEPT ![c] = Idle]
              /\ UNCHANGED <<alloc_map, quiet>>
        /\ UNCHANGED <<memory_map, range_end, blocks, overlapped>>

Next ==
    \E c \in Client :
        \/ \E n \in 1..MaxFrames : AllocateBegin(c, n)
        \/ AllocateScan(c)
        \/ AllocateMark(c)
        \/ \E b \in blocks[c] : FreeBegin(c, b)
        \/ FreeStep(c)

Spec == Init /\ [][Next]_vars

-----------------------------------------------------------------------------
(* Properties. *)

\* Every variable holds a value of the type of the C++ variable it stands for.
TypeOK ==
    /\ memory_map \in MemoryMaps
    /\ alloc_map \subseteq Nat
    /\ range_end \in Nat
    /\ call \in [Client -> [op : {"idle", "scan", "mark", "free"}, start : Nat,
                            n : 0..MaxFrames, i : Nat]]
    /\ \A c \in Client : call[c].i <= call[c].n
    /\ blocks \in [Client -> SUBSET (Nat \X (1..MaxFrames))]
    /\ overlapped \in BOOLEAN
    /\ quiet \subseteq Client

\* Frames of the blocks a client holds, and of its call's block that it has
\* marked, or not yet cleared.
Held(c) == UNION {Frames(b[1], b[2]) : b \in blocks[c]}
InCall(c) ==
    LET a == call[c]
    IN  CASE a.op = "mark" -> Frames(a.start, a.i)
          [] a.op = "free" -> Frames(a.start + a.i, a.n - a.i)
          [] OTHER         -> {}

\* As long as no two calls of Allocate overlap, whatever calls of Free they
\* interleave with, no frame has two owners: two blocks have no frame in common,
\* and neither has a block with the frames another call is taking or freeing.
NoFrameOwnedTwice ==
    ~overlapped =>
        /\ \A c, d \in Client : c # d =>
               (Held(c) \cup InCall(c)) \cap (Held(d) \cup InCall(d)) = {}
        /\ \A c \in Client : \A b, e \in blocks[c] :
               b # e => Frames(b[1], b[2]) \cap Frames(e[1], e[2]) = {}

\* And the bitmap is exact: the set bits are those of the boot, of the blocks
\* held and of the calls under way, so no frame leaks.
BitmapExact ==
    ~overlapped =>
        alloc_map = BootMap(memory_map) \cup UNION {Held(c) \cup InCall(c) : c \in Client}

\* Of the frames below the end of memory only those that the firmware reported as
\* available are ever handed out, even when calls overlap, and nowhere one that it
\* reported as unavailable.  Frames beyond the end are handed out although there is
\* no memory: range_end_ is that end in bytes and does not keep them out.  That
\* happens only to a call that found no room for its block in memory, if no bit was
\* cleared meanwhile.
InMap(f, available) ==
    \E i \in 1..Len(memory_map) :
        /\ memory_map[i].available = available
        /\ f \in Frames(memory_map[i].start, memory_map[i].pages)
BeyondMemory(f) == f >= MemoryEnd(memory_map)
UnavailableStaysOut ==
    \A c \in Client :
        /\ \A f \in Held(c) : ~InMap(f, FALSE) /\ (InMap(f, TRUE) \/ BeyondMemory(f))
        /\ c \in quiet /\ call[c].op = "mark" /\ BeyondMemory(call[c].start + call[c].n - 1)
               => \A s \in range_begin..MemoryEnd(memory_map) :
                      s + call[c].n <= MemoryEnd(memory_map)
                          => Frames(s, call[c].n) \cap alloc_map # {}

\* The search misses no room: every block it has passed over has a frame in
\* use, if no bit was cleared meanwhile.
SearchMissesNothing ==
    \A c \in quiet : call[c].op \in {"scan", "mark"} =>
        \A s \in range_begin..(call[c].start - 1) :
            Frames(s, call[c].n) \cap alloc_map # {}

=============================================================================
