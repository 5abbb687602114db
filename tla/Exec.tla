-------------------------------- MODULE Exec --------------------------------
(***************************************************************************)
(* ExecuteFile (kernel/terminal.cpp): a task gives itself a page map, loads *)
(* the segments of a program, its arguments and a stack page, calls it, and *)
(* takes the maps down when the program has ended.                          *)
(*                                                                         *)
(* All of it runs with interrupts on, so the timer may switch to the other  *)
(* task at any step.  A step takes or gives back one frame.  Allocate and   *)
(* Free are one step each (MemoryManager shows when that may be assumed),   *)
(* and which free frame Allocate returns makes no difference here: frames   *)
(* are named after the task that takes them.  The virtual address space     *)
(* keeps its shape, with fewer levels, entries and bytes than the machine.  *)
(***************************************************************************)
EXTENDS Integers, Sequences, FiniteSets, FiniteSetsExt

CONSTANTS
    Task,          \* tasks that execute programs
    Program,       \* [elf, exec, segs, args]: file, load segments, lengths of the arguments
    kLevels,       \* levels of page maps, 4 on the machine
    kEntries,      \* entries of a page map, 512 on the machine
    kPageBytes,    \* 4096 on the machine
    kFrames,       \* frames the memory manager has
    kArgvLen,      \* argv_len: 32
    kArgbufLen,    \* argbuf_len: what argv leaves of the page
    MaxExecs,      \* bound on the calls of ExecuteFile
    MaxFiles,      \* bound on the descriptors of a task
    KernelPML4, IdentityMap, NotPresent

\* Pages that a page map of each level covers.
Span == LET f[l \in 0..kLevels] == IF l = 0 THEN 1 ELSE kEntries * f[l - 1] IN f
Pages == Span[kLevels]
UpperHalf == (Pages \div 2) * kPageBytes   \* 0xffff800000000000
Frame == Task \X (1..kFrames)
Index == 0..(kEntries - 1)

ASSUME ShapeAssumption ==
    /\ kLevels \in Nat \ {0, 1} /\ kEntries \in Nat \ {0, 1} /\ kPageBytes \in Nat \ {0}
    /\ kFrames \in Nat /\ kArgvLen \in Nat /\ kArgbufLen \in Nat
ASSUME EntryAssumption ==
    /\ {KernelPML4, IdentityMap, NotPresent} \cap Frame = {}
    /\ Cardinality({KernelPML4, IdentityMap, NotPresent}) = 3
\* All of a program lies in the half of the address space its first segment is
\* in (LoadELF looks at the first only), below the stack page.  The first argument
\* is the command.
ASSUME ProgramAssumption ==
    /\ Program # {}
    /\ \A p \in Program :
          /\ DOMAIN p.segs = 1..Len(p.segs) /\ Len(p.segs) \in Nat
          /\ DOMAIN p.args = 1..Len(p.args) /\ Len(p.args) \in Nat \ {0}
          /\ \A i \in 1..Len(p.args) : p.args[i] \in Nat
          /\ \A i \in 1..Len(p.segs) :
                /\ p.segs[i].vaddr \in Nat /\ p.segs[i].memsz \in Nat \ {0}
                /\ p.segs[i].vaddr + p.segs[i].memsz <= (Pages - 2) * kPageBytes
                /\ (p.segs[i].vaddr >= UpperHalf) = (p.segs[1].vaddr >= UpperHalf)

VARIABLES
    cur,       \* the task that runs
    cr3,       \* the register
    context,   \* context_.cr3 of each task
    mem,       \* the page map in each frame (and in the kernel's pml4_table)
    data,      \* the segments whose bytes each frame holds
    used,      \* frames that are allocated
    run,       \* ExecuteFile of each task and its local variables
    files,     \* files_ of each task
    taken,     \* frames the last or current ExecuteFile took and did not free
    execs,     \* calls of ExecuteFile so far
    halted     \* a fault handler in kernel mode has stopped the machine
execVars == <<cur, cr3, context, mem, data, used, run, files, taken, execs, halted>>

EmptyMap == [i \in Index |-> NotPresent]
Returned(p, ok) == [op |-> "idle", prog |-> p, seg |-> 0, page |-> 0, left |-> 0,
                    map |-> NotPresent, ok |-> ok]

\* SetupIdentityPageTable: the kernel's memory is the first entry.
ExecInit ==
    /\ cur \in Task
    /\ cr3 = KernelPML4
    /\ context = [t \in Task |-> KernelPML4]
    /\ mem = [f \in Frame \cup {KernelPML4} |->
                 IF f = KernelPML4 THEN [EmptyMap EXCEPT ![0] = IdentityMap] ELSE EmptyMap]
    /\ data = [f \in Frame |-> {}]
    /\ used = {}
    /\ run = [t \in Task |-> Returned(CHOOSE p \in Program : TRUE, FALSE)]
    /\ files = [t \in Task |-> <<>>]
    /\ taken = [t \in Task |-> {}]
    /\ execs = 0
    /\ halted = FALSE

-----------------------------------------------------------------------------
(* Page maps. *)

\* LinearAddress4Level::Part.
Part(page, level) == (page \div Span[level - 1]) % kEntries

\* The maps of each level on the way to a page, and the page's frame at 0.
Walk(root, page) ==
    LET f[l \in 0..kLevels] ==
            IF l = kLevels THEN root
            ELSE IF f[l + 1] \in Frame THEN mem[f[l + 1]][Part(page, l + 1)]
            ELSE NotPresent
    IN  f

\* memory_manager->Allocate(1).
CanAllocate == Cardinality(used) < kFrames
NewFrame(t) == <<t, Min({n \in 1..kFrames : <<t, n>> \notin used})>>
Take(t, f) ==
    /\ used' = used \cup {f}
    /\ taken' = [taken EXCEPT ![t] = @ \cup {f}]
    /\ data' = [data EXCEPT ![f] = {}]
Give(t, f) ==
    /\ used' = used \ {f}
    /\ taken' = [taken EXCEPT ![t] = @ \ {f}]

\* An early return of ExecuteFile.
Fail(t) ==
    /\ run' = [run EXCEPT ![t] = Returned(@.prog, FALSE)]
    /\ UNCHANGED <<cr3, context, mem, data, used, files, taken, halted>>

-----------------------------------------------------------------------------
(* ExecuteFile up to the call of the program. *)

ExecuteFile(t, p) ==
    /\ run[t].op = "idle"
    /\ execs < MaxExecs
    /\ execs' = execs + 1
    /\ taken' = [taken EXCEPT ![t] = {}]
    /\ run' = [run EXCEPT ![t] = IF p.elf THEN [Returned(p, FALSE) EXCEPT !.op = "pml4"]
                                   ELSE Returned(p, FALSE)]
    /\ UNCHANGED <<cr3, context, mem, data, used, files, halted>>

\* Fault: all entries are copied, the previous program's with them.
KernelEntries_All(root) == mem[root]

\* What SetupPML4 copies: the entries of the lower half of the current map.
KernelEntries(root) ==
    [i \in Index |-> IF i < kEntries \div 2 THEN mem[root][i] ELSE NotPresent]

SetupPML4(t) ==
    /\ run[t].op = "pml4"
    /\ UNCHANGED execs
    /\ IF ~CanAllocate
       THEN Fail(t)
       ELSE LET f == NewFrame(t)
            IN  /\ Take(t, f)
                /\ mem' = [mem EXCEPT ![f] = KernelEntries(cr3)]
                /\ cr3' = f
                /\ context' = [context EXCEPT ![t] = f]
                /\ run' = [run EXCEPT ![t].op = "load"]
                /\ UNCHANGED <<files, halted>>

\* Fault: a segment that does not fill its last page loses it.
NumPages_Down(memsz) == memsz \div kPageBytes

\* Pages that CopyLoadSegments and ExecuteFile ask SetupPageMaps for, in order:
\* the segments, the arguments, the stack.
NumPages(memsz) == (memsz + kPageBytes - 1) \div kPageBytes

MapTarget(c, i) ==
    LET segs == c.prog.segs
        page == IF i <= Len(segs) THEN segs[i].vaddr \div kPageBytes ELSE Pages - (i - Len(segs))
        left == IF i <= Len(segs) THEN NumPages(segs[i].memsz) ELSE 1
    IN  [c EXCEPT !.op = IF left = 0 THEN "mapped" ELSE "map",
                  !.seg = i, !.page = page, !.left = left]

GetFirstLoadAddress(p) == IF p.segs = <<>> THEN 0 ELSE p.segs[1].vaddr

LoadELF(t) ==
    /\ run[t].op = "load"
    /\ UNCHANGED execs
    /\ IF ~run[t].prog.exec \/ GetFirstLoadAddress(run[t].prog) < UpperHalf
       THEN Fail(t)
       ELSE /\ run' = [run EXCEPT ![t] = MapTarget(@, 1)]
            /\ UNCHANGED <<cr3, context, mem, data, used, files, taken, halted>>

\* Fault: the page is given a new frame even if it has one.
Missing_Replaces(way) == {l \in 0..(kLevels - 1) : l = 0 \/ way[l] = NotPresent}

\* Levels at which the way to the page ends: SetNewPageMapIfNotPresent.
Missing(way) == {l \in 0..(kLevels - 1) : way[l] = NotPresent}

\* A turn of SetupPageMap's loops: a map that is missing, or a page.  The next
\* page carries into the entries above; the last page of the address space ends
\* the loop.
SetupPageMap(t) ==
    LET c == run[t]
        way == Walk(cr3, c.page)
        miss == Missing(way)
        level == IF miss = {} THEN 0 ELSE Max(miss)
        left == IF c.page = Pages - 1 THEN 0 ELSE c.left - 1
    IN  /\ c.op = "map"
        /\ UNCHANGED execs
        /\ IF miss # {} /\ ~CanAllocate
           THEN Fail(t)
           ELSE /\ IF miss = {}
                   THEN UNCHANGED <<mem, data, used, taken>>
                   ELSE LET f == NewFrame(t)
                        IN  /\ Take(t, f)
                            /\ mem' = [mem EXCEPT ![f] = EmptyMap,
                                                  ![way[level + 1]][Part(c.page, level + 1)] = f]
                /\ run' = [run EXCEPT ![t] =
                               IF level > 0 THEN c
                               ELSE [c EXCEPT !.left = left, !.page = @ + 1,
                                              !.op = IF left = 0 THEN "mapped" ELSE "map"]]
                /\ UNCHANGED <<cr3, context, files, halted>>

\* The pages that the bytes of a segment lie in.
Touched(seg) == (seg.vaddr \div kPageBytes)..((seg.vaddr + seg.memsz - 1) \div kPageBytes)

\* The memcpy and memset of a segment; a page that is not mapped is a page fault
\* in kernel mode, whose handler stops the machine.
CopyLoadSegment(t) ==
    LET c == run[t]
        frames == {Walk(cr3, page)[0] : page \in Touched(c.prog.segs[c.seg])}
    IN  /\ c.op = "mapped" /\ c.seg <= Len(c.prog.segs)
        /\ IF NotPresent \in frames
           THEN halted' = TRUE /\ UNCHANGED <<data, run>>
           ELSE /\ data' = [f \in Frame |-> IF f \in frames THEN data[f] \cup {c.seg} ELSE data[f]]
                /\ run' = [run EXCEPT ![t] = MapTarget(c, c.seg + 1)]
                /\ UNCHANGED halted
        /\ UNCHANGED <<cr3, context, mem, used, files, taken, execs>>

\* argbuf_index after n arguments.
ArgEnd(args, n) ==
    LET f[k \in 0..Len(args)] == IF k = 0 THEN 0 ELSE f[k - 1] + args[k] + 1
    IN  f[n]

\* push_to_argv returns kFull for some argument: before it is copied, and
\* without regard to its own length.
ArgsFull(args) ==
    \E n \in 1..Len(args) : n - 1 >= kArgvLen \/ ArgEnd(args, n - 1) >= kArgbufLen

MakeArgVector(t) ==
    LET c == run[t]
    IN  /\ c.op = "mapped" /\ c.seg = Len(c.prog.segs) + 1
        /\ UNCHANGED execs
        /\ IF ArgsFull(c.prog.args)
           THEN Fail(t)
           ELSE /\ run' = [run EXCEPT ![t] = MapTarget(c, c.seg + 1)]
                /\ UNCHANGED <<cr3, context, mem, data, used, files, taken, halted>>

CallApp(t) ==
    /\ run[t].op = "mapped" /\ run[t].seg = Len(run[t].prog.segs) + 2
    /\ files' = [files EXCEPT ![t] = @ \o <<"std", "std", "std">>]
    /\ run' = [run EXCEPT ![t].op = "app"]
    /\ UNCHANGED <<cr3, context, mem, data, used, taken, execs, halted>>

-----------------------------------------------------------------------------
(* The program, and ExecuteFile after it. *)

\* The program is in the kernel, on its own stack and with the pointers it passed.
SyscallEntry(t) ==
    /\ run[t].op = "app"
    /\ run' = [run EXCEPT ![t].op = "syscall"]
    /\ UNCHANGED <<cr3, context, mem, data, used, files, taken, execs, halted>>

\* read and write, and open where it fails or finds @stdin.
SyscallReturn(t) ==
    /\ run[t].op = "syscall"
    /\ run' = [run EXCEPT ![t].op = "app"]
    /\ UNCHANGED <<cr3, context, mem, data, used, files, taken, execs, halted>>

\* open: AllocateFD gives the next descriptor, since none is ever closed.
Open(t) ==
    /\ run[t].op = "syscall"
    /\ Len(files[t]) < MaxFiles
    /\ files' = [files EXCEPT ![t] = Append(@, "file")]
    /\ run' = [run EXCEPT ![t].op = "app"]
    /\ UNCHANGED <<cr3, context, mem, data, used, taken, execs, halted>>

\* The vectors of the faults a program can cause, and of those for which the
\* processor pushes an error code.
ProgramFaults == {0, 1, 3, 4, 6, 7, 11, 12, 13, 14, 16, 17, 19}
PushesErrorCode == {8, 10, 11, 12, 13, 14, 17}

\* The handlers that InitializeInterrupt sets from vector 0 on, and the ones
\* defined to expect an error code.
IdtEntries == <<"DE", "DB", "", "DP", "OF", "BR", "UD", "NM", "DF", "", "TS", "NP", "", "SS", "GP",
                "PF", "MF", "AC", "MC", "XM", "VE">>
FaultHandlerWithError == {"DF", "TS", "NP", "SS", "GP", "PF", "AC"}

\* A stack fault finds no handler and becomes a double fault.
Delivered(v) == IF IdtEntries[v + 1] = "" THEN 8 ELSE v

\* A handler of the wrong kind would take another word of the stack for the
\* program's code segment.
FrameIsRead(v) == (IdtEntries[v + 1] \in FaultHandlerWithError) = (v \in PushesErrorCode)

\* A fault of the program: KillApp, which turns interrupts on while it still runs
\* on the stack that the next interrupt starts at the top of again.  A fault in a
\* system call (an address or a stack pointer of the program's that is not mapped,
\* a call number outside syscall_table, the switch of a Read that sleeps) is one at
\* CPL 0: KillApp returns and the handler stops the machine.
KillApp(t, v) ==
    /\ \/ /\ run[t].op = "app"
          /\ run' = [run EXCEPT ![t].op = "kill"]
          /\ halted' = ~FrameIsRead(Delivered(v))
       \/ /\ run[t].op = "syscall"
          /\ halted' = TRUE
          /\ UNCHANGED run
    /\ UNCHANGED <<cr3, context, mem, data, used, files, taken, execs>>

\* The top-level entry of the first load address.
LoadEntry(p) == Part(GetFirstLoadAddress(p) \div kPageBytes, kLevels)

\* exit and ExitApp return from CallApp; the descriptors are cleared, and
\* CleanPageMaps unlinks the map of the first load address.
ExitApp(t) ==
    LET c == run[t]
        entry == LoadEntry(c.prog)
    IN  /\ c.op \in {"syscall", "kill", "kill_hit"}
        /\ files' = [files EXCEPT ![t] = <<>>]
        /\ run' = [run EXCEPT ![t].op = "clean", ![t].map = mem[cr3][entry]]
        /\ mem' = [mem EXCEPT ![cr3][entry] = NotPresent]
        /\ UNCHANGED <<cr3, context, data, used, taken, execs, halted>>

\* Or, the stack of KillApp having been overwritten, it does not get there.
KillAppLost(t) ==
    /\ run[t].op = "kill_hit"
    /\ halted' = TRUE
    /\ UNCHANGED <<cr3, context, mem, data, used, run, files, taken, execs>>

Present(m) == {i \in Index : mem[m][i] # NotPresent}

\* Fault: a map is freed without what it leads to.
NextToClean_TopOnly(top) == top

\* Where CleanPageMap is: the map whose first entry is to be freed next.
NextToClean(top) ==
    LET f[l \in 1..(kLevels - 1)] ==
            IF l = kLevels - 1 THEN top
            ELSE LET above == f[l + 1]
                 IN  IF Present(above) = {} THEN above
                     ELSE LET child == mem[above][Min(Present(above))]
                          IN  IF Present(child) = {} THEN above ELSE child
    IN  f[1]

\* A turn of CleanPageMap: children first, then the map itself; at the end the
\* map that CleanPageMaps unlinked.
CleanPageMap(t) ==
    LET c == run[t]
        m == NextToClean(c.map)
        i == Min(Present(m))
    IN  /\ c.op = "clean"
        /\ IF Present(m) = {}
           THEN /\ Give(t, c.map)
                /\ run' = [run EXCEPT ![t].op = "drop"]
                /\ UNCHANGED mem
           ELSE /\ Give(t, mem[m][i])
                /\ mem' = [mem EXCEPT ![m][i] = NotPresent]
                /\ UNCHANGED run
        /\ UNCHANGED <<cr3, context, data, files, execs, halted>>

\* FreePML4: forget the map, load the kernel's, free the map.
FreePML4(t) ==
    LET c == run[t]
    IN  /\ \/ /\ c.op = "drop"
              /\ run' = [run EXCEPT ![t].op = "reset", ![t].map = context[t]]
              /\ context' = [context EXCEPT ![t] = NotPresent]
              /\ UNCHANGED <<cr3, used, taken>>
           \/ /\ c.op = "reset"
              /\ cr3' = KernelPML4
              /\ run' = [run EXCEPT ![t].op = "free"]
              /\ UNCHANGED <<context, used, taken>>
           \/ /\ c.op = "free"
              /\ Give(t, c.map)
              /\ run' = [run EXCEPT ![t] = Returned(c.prog, TRUE)]
              /\ UNCHANGED <<cr3, context>>
        /\ UNCHANGED <<mem, data, files, execs, halted>>

-----------------------------------------------------------------------------
(* Tasks. *)

\* The timer interrupt saves the context of the current task, CR3 with it, and
\* restores that of the next, if it is another.
TimerInterrupt(t) ==
    /\ cur' = t
    /\ context' = [context EXCEPT ![cur] = cr3]
    /\ cr3' = IF t = cur THEN cr3 ELSE context[t]
    /\ run' = IF run[cur].op = "kill" THEN [run EXCEPT ![cur].op = "kill_hit"] ELSE run
    /\ UNCHANGED <<mem, data, used, files, taken, execs, halted>>

\* The current task creates another: InitContext gives it the CR3 of its creator.
InitContext(t) ==
    /\ t # cur
    /\ run[cur].op = "idle" /\ run[t].op = "idle"
    /\ context' = [context EXCEPT ![t] = cr3]
    /\ files' = [files EXCEPT ![t] = <<>>]
    /\ taken' = [taken EXCEPT ![t] = {}]
    /\ run' = [run EXCEPT ![t] = Returned(@.prog, FALSE)]
    /\ UNCHANGED <<cr3, mem, data, used, execs, halted>>

Step(t) ==
    \/ \E p \in Program : ExecuteFile(t, p)
    \/ SetupPML4(t)
    \/ LoadELF(t)
    \/ SetupPageMap(t)
    \/ CopyLoadSegment(t)
    \/ MakeArgVector(t)
    \/ CallApp(t)
    \/ SyscallEntry(t)
    \/ SyscallReturn(t)
    \/ Open(t)
    \/ \E v \in ProgramFaults : KillApp(t, v)
    \/ ExitApp(t)
    \/ KillAppLost(t)
    \/ CleanPageMap(t)
    \/ FreePML4(t)

ExecNext ==
    \/ ~halted /\ Step(cur) /\ UNCHANGED cur
    \/ \E t \in Task : ~halted /\ TimerInterrupt(t)
    \/ \E t \in Task : ~halted /\ InitContext(t) /\ UNCHANGED cur

ExecSpec == ExecInit /\ [][ExecNext]_execVars

-----------------------------------------------------------------------------
(* Properties. *)

\* The maps and pages reached through the upper half of a page map, and the
\* entries that lead to them.
Level(root) ==
    LET f[l \in 0..(kLevels - 1)] ==
            (IF l = kLevels - 1
             THEN {mem[root][i] : i \in {j \in Index : j >= kEntries \div 2}}
             ELSE UNION {{mem[m][i] : i \in Index} : m \in f[l + 1]}) \ {NotPresent}
    IN  f
Reach(root) == UNION {Level(root)[l] : l \in 0..(kLevels - 1)}
Links(root) ==
    {k \in ({root} \cup Reach(root)) \X Index :
        /\ mem[k[1]][k[2]] # NotPresent
        /\ k[1] = root => k[2] >= kEntries \div 2}

\* CR3 as each task finds it when it runs.
CR3(t) == IF t = cur THEN cr3 ELSE context[t]

\* Whatever is switched, failed or inherited: the page map that a task runs on
\* is allocated, maps the kernel, and in its upper half is a tree of allocated
\* frames, of which no other page map in use has any.
MapsOwnTheirFrames ==
    LET roots == {CR3(t) : t \in Task}
    IN  /\ \A r \in roots :
               /\ r \in used \cup {KernelPML4}
               /\ mem[r][0] = IdentityMap
               /\ Reach(r) \subseteq used \ {r}
               /\ Cardinality(Links(r)) = Cardinality(Reach(r))
        /\ \A r, s \in roots : r # s => ({r} \cup Reach(r)) \cap ({s} \cup Reach(s)) = {}
        /\ Reach(KernelPML4) = {}

\* Frames that it takes to map a set of pages, the root apart.
FramesFor(pages) ==
    Cardinality(UNION {{<<l, g \div Span[l]>> : g \in pages} : l \in 0..(kLevels - 1)})

\* The pages of a program, and those that do not hang on the entry cleaned.
ProgramPages(p) ==
    (UNION {Touched(p.segs[i]) : i \in 1..Len(p.segs)}) \cup {Pages - 1, Pages - 2}
KeptPages(p) == {g \in ProgramPages(p) : Part(g, kLevels) # LoadEntry(p)}

\* What ExecuteFile leaves allocated.  After a program: the maps and pages of
\* the top-level entries other than that of its first segment, which are the
\* arguments and the stack unless the program is linked that high.  After an
\* error: all that was taken, and the task still runs on that page map.
FramesGivenBack ==
    \A t \in Task : run[t].op = "idle" =>
        IF run[t].ok
        THEN Cardinality(taken[t]) = FramesFor(KeptPages(run[t].prog))
        ELSE taken[t] # {} => taken[t] = {CR3(t)} \cup Reach(CR3(t))

\* A program that runs finds every byte of its segments, each page in a frame of
\* its own, a stack page, the descriptors of its stage as the first three, and its
\* arguments in their page, except that the last one may be too long for it.
ProgramComplete ==
    \A t \in Task : run[t].op \in {"app", "syscall"} =>
        LET p == run[t].prog
            root == CR3(t)
        IN  /\ \A i \in 1..Len(p.segs) : \A g \in Touched(p.segs[i]) :
                   Walk(root, g)[0] \in Frame /\ i \in data[Walk(root, g)[0]]
            /\ {Walk(root, Pages - 1)[0], Walk(root, Pages - 2)[0]} \subseteq Frame
            /\ \A g, h \in ProgramPages(p) : g # h => Walk(root, g)[0] # Walk(root, h)[0]
            /\ SubSeq(files[t], 1, 3) = <<"std", "std", "std">>
            /\ "std" \notin {files[t][i] : i \in 4..Len(files[t])}
            /\ Len(p.args) <= kArgvLen
            /\ ArgEnd(p.args, Len(p.args) - 1) < kArgbufLen

\* The machine stops in a fault handler for three reasons only: a segment that
\* begins within a page and so reaches one page more than its size was rounded up
\* to, an interrupt that hit KillApp on the interrupt stack, or a fault in a system
\* call.  The fault of a program in its own code, of whatever kind, ends that program.
HaltedForCause ==
    halted =>
        LET c == run[cur]
        IN  \/ c.op \in {"kill_hit", "syscall"}
            \/ /\ c.op = "mapped"
               /\ LET seg == c.prog.segs[c.seg]
                  IN  /\ seg.vaddr % kPageBytes # 0
                      /\ (Cardinality(Touched(seg)) - 1) * kPageBytes >= seg.memsz

=============================================================================
