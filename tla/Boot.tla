-------------------------------- MODULE Boot --------------------------------
(***************************************************************************)
(* From the firmware to the first task: the UEFI loader                     *)
(* (MoxiaLoaderPkg/Main.c), which loads the kernel and the volume image and *)
(* leaves boot services, and the order in which the kernel initialises      *)
(* itself (kernel/Main.cpp).                                                *)
(*                                                                         *)
(* The firmware is external: until boot services end it may allocate memory *)
(* between any two steps, which makes a memory map taken earlier stale; any *)
(* of its calls may fail.  Memory is a small number of frames, each with    *)
(* the type the firmware's map gives it.                                    *)
(***************************************************************************)
EXTENDS Integers, Sequences, FiniteSets, FiniteSetsExt

CONSTANTS
    NumFrames,     \* frames of memory
    UefiStack,     \* frames the loader's stack may be in
    Runtime,       \* frames of the firmware's runtime services
    KernelImages,  \* load segments of kernel.elf, [vaddr, memsz]
    kUefiPageBytes,    \* 4096
    kHeapFrames,   \* frames of the heap
    MaxFirmware    \* bound on what the firmware allocates meanwhile

BootFrame == 0..(NumFrames - 1)
ASSUME BootAssumption ==
    /\ NumFrames \in Nat /\ kUefiPageBytes \in Nat \ {0} /\ kHeapFrames \in Nat /\ MaxFirmware \in Nat
    /\ UefiStack \subseteq BootFrame /\ Runtime \subseteq BootFrame /\ UefiStack \cap Runtime = {}
    /\ \A image \in KernelImages :
           /\ image # <<>> /\ DOMAIN image = 1..Len(image) /\ Len(image) \in Nat
           /\ \A i \in 1..Len(image) : image[i].vaddr \in Nat /\ image[i].memsz \in Nat \ {0}

VARIABLES
    pc,          \* the loader's next step, then "kernel"
    segs,        \* load segments of the kernel file
    stack,       \* the frame of the loader's stack: memmap_buf, memmap, config
    types,       \* the firmware's memory map: the type of each frame
    map_key,     \* its key
    memmap,      \* the loader's copy: types and key
    kernel_buffer, volume_image,   \* frames of the two files, or none
    firmware,    \* allocations of the firmware so far
    step,        \* steps of KernelMainNewStack done
    unavailable, \* frames the memory manager has marked from the map
    handed,      \* frames it has handed out
    ready,       \* what has been initialised
    interrupts,  \* the interrupt flag
    entered_on,  \* the flag as the kernel was entered
    outcome      \* "", "halt" (the loader gave up) or "crash"
loaderVars == <<segs, stack, types, map_key, memmap, kernel_buffer, volume_image, firmware>>
kernelVars == <<step, unavailable, handed, ready, interrupts, entered_on>>
bootVars == <<pc, loaderVars, kernelVars, outcome>>

None == NumFrames
NoMap == [types |-> [f \in BootFrame |-> "none"], key |-> 0]

\* The stack belongs to the boot services, the loader's code is left out.
BootInit ==
    /\ pc = "map"
    /\ segs \in KernelImages
    /\ stack \in UefiStack
    /\ types = [f \in BootFrame |-> IF f = stack THEN "BootServicesData"
                                ELSE IF f \in Runtime THEN "RuntimeServicesData"
                                ELSE "ConventionalMemory"]
    /\ map_key = 1
    /\ memmap = NoMap
    /\ kernel_buffer = None /\ volume_image = None
    /\ firmware = 0
    /\ step = 0
    /\ unavailable = {} /\ handed = {} /\ ready = {}
    /\ interrupts \in BOOLEAN /\ entered_on = interrupts
    /\ outcome = ""

Running == outcome = ""
BootServices == pc \notin {"config", "kernel"}
Conventional == {f \in BootFrame : types[f] = "ConventionalMemory"}

-----------------------------------------------------------------------------
(* The firmware. *)

SetType(frames, type) ==
    /\ types' = [f \in BootFrame |-> IF f \in frames THEN type ELSE types[f]]
    /\ map_key' = map_key + 1

FirmwareAllocates(f) ==
    /\ Running /\ BootServices
    /\ firmware < MaxFirmware
    /\ firmware' = firmware + 1
    /\ SetType({f}, "BootServicesData")
    /\ UNCHANGED <<pc, segs, stack, memmap, kernel_buffer, volume_image, kernelVars, outcome>>

Halt ==
    /\ outcome' = "halt"
    /\ UNCHANGED <<pc, loaderVars, kernelVars>>

-----------------------------------------------------------------------------
(* UefiMain. *)

\* The first GetMemoryMap is not checked: it may fail and leave no map.
GetMemoryMap ==
    /\ Running /\ pc = "map"
    /\ memmap' \in {[types |-> types, key |-> map_key], NoMap}
    /\ pc' = "kernel_file"
    /\ UNCHANGED <<segs, stack, types, map_key, kernel_buffer, volume_image, firmware,
                   kernelVars, outcome>>

\* ReadFile of kernel.elf, into the pool.
ReadKernelFile ==
    /\ Running /\ pc = "kernel_file"
    /\ \/ Halt
       \/ \E f \in Conventional :
              /\ SetType({f}, "LoaderData")
              /\ kernel_buffer' = f
              /\ pc' = "kernel_pages"
              /\ UNCHANGED <<segs, stack, memmap, volume_image, firmware, kernelVars, outcome>>

\* CalcLoadAddressRange, whatever the order of the segments.
FirstAddr == Min({segs[i].vaddr : i \in 1..Len(segs)})
LastAddr == Max({segs[i].vaddr + segs[i].memsz : i \in 1..Len(segs)})
TouchedFrames(seg) == (seg.vaddr \div kUefiPageBytes)..((seg.vaddr + seg.memsz - 1) \div kUefiPageBytes)
KernelFrames == UNION {TouchedFrames(segs[i]) : i \in 1..Len(segs)}

\* The num_pages pages from the first address on.
KernelPages ==
    LET n == (LastAddr - FirstAddr + kUefiPageBytes - 1) \div kUefiPageBytes
    IN  (FirstAddr \div kUefiPageBytes)..(FirstAddr \div kUefiPageBytes + n - 1)

\* AllocatePages at the address of the kernel, which must be that of a page and
\* free; CopyLoadSegments; FreePool of the file.
LoadKernel ==
    /\ Running /\ pc = "kernel_pages"
    /\ \/ Halt
       \/ /\ FirstAddr % kUefiPageBytes = 0 /\ KernelPages \subseteq Conventional
          /\ types' = [f \in BootFrame |-> IF f \in KernelPages THEN "LoaderData"
                                       ELSE IF f = kernel_buffer THEN "ConventionalMemory"
                                       ELSE types[f]]
          /\ map_key' = map_key + 2
          /\ kernel_buffer' = None
          /\ pc' = "volume"
          /\ UNCHANGED <<segs, stack, memmap, volume_image, firmware, kernelVars, outcome>>

\* The volume image: from a file, or the first blocks of the boot device.
ReadVolume ==
    /\ Running /\ pc = "volume"
    /\ \/ Halt
       \/ \E f \in Conventional :
              /\ SetType({f}, "LoaderData")
              /\ volume_image' = f
              /\ pc' = "exit"
              /\ UNCHANGED <<segs, stack, memmap, kernel_buffer, firmware, kernelVars, outcome>>

\* ExitBootServices, which the firmware refuses if the map is not the current one.
ExitBootServices ==
    /\ Running /\ pc \in {"exit", "exit_again"}
    /\ \/ /\ memmap.key = map_key
          /\ pc' = "config"
          /\ UNCHANGED outcome
       \/ /\ memmap.key # map_key
          /\ IF pc = "exit" THEN pc' = "map_again" /\ UNCHANGED outcome
             ELSE outcome' = "halt" /\ UNCHANGED pc
    /\ UNCHANGED <<loaderVars, kernelVars>>

GetMemoryMapAgain ==
    /\ Running /\ pc = "map_again"
    /\ \/ Halt
       \/ /\ memmap' = [types |-> types, key |-> map_key]
          /\ pc' = "exit_again"
          /\ UNCHANGED <<segs, stack, types, map_key, kernel_buffer, volume_image, firmware,
                         kernelVars, outcome>>

\* The pixel format, which may be one the kernel does not know, and the jump.
EnterKernel ==
    /\ Running /\ pc = "config"
    /\ \/ Halt
       \/ pc' = "kernel" /\ UNCHANGED <<loaderVars, kernelVars, outcome>>

-----------------------------------------------------------------------------
(* KernelMainNewStack. *)

\* Fault: interrupts go on before the task manager exists.
KernelOrder_StiFirst ==
    <<"graphics", "console", "segments", "paging", "memory", "pic", "tss", "idt", "fat", "timer",
      "syscall", "sti", "task_manager", "terminal">>

\* The calls in order; InitializeTask is two steps, the second of which ends with
\* the first sti of the kernel.
KernelOrder ==
    <<"graphics", "console", "segments", "paging", "memory", "pic", "tss", "idt", "fat", "timer",
      "syscall", "task_manager", "sti", "terminal">>

\* What a step uses of the ones before.
Uses(s) ==
    CASE s = "console"      -> {"graphics"}
      [] s = "memory"       -> {"console", "paging"}
      [] s = "tss"          -> {"memory", "segments"}
      [] s = "idt"          -> {"tss", "pic"}
      [] s = "timer"        -> {"memory", "idt"}
      [] s = "task_manager" -> {"memory"}
      [] s = "sti"          -> {"timer"}
      [] s = "terminal"     -> {"memory", "task_manager"}
      [] OTHER              -> {}

\* Fault: what the loader allocated is taken to be free.
IsAvailable_Loader(type) ==
    type \in {"LoaderData", "BootServicesCode", "BootServicesData", "ConventionalMemory"}

IsAvailable(type) == type \in {"BootServicesCode", "BootServicesData", "ConventionalMemory"}

\* The first block of n frames that Allocate finds; beyond the end of memory no
\* frame is marked but what was handed out there.
FirstFit(taken, n) ==
    Min({f \in 1..(NumFrames + kHeapFrames + n) : \A g \in f..(f + n - 1) : g \notin taken})
Block(taken, n) == LET f == FirstFit(taken, n) IN f..(f + n - 1)

\* Frames that a step takes: the heap, the two stacks of the task state segment.
TakenBy(s, marked) ==
    CASE s = "memory" -> Block(marked, kHeapFrames)
      [] s = "tss"    -> LET rsp0 == Block(marked \cup handed, 1)
                         IN  rsp0 \cup Block(marked \cup handed \cup rsp0, 1)
      [] OTHER        -> {}

KernelStep ==
    LET s == KernelOrder[step + 1]
        marked == IF s = "memory" THEN {f \in BootFrame : ~IsAvailable(memmap.types[f])}
                  ELSE unavailable
    IN  /\ Running /\ pc = "kernel" /\ step < Len(KernelOrder)
        /\ step' = step + 1
        /\ ready' = ready \cup {s}
        /\ unavailable' = marked
        /\ handed' = handed \cup TakenBy(s, marked)
        /\ interrupts' = (interrupts \/ s = "sti")
        /\ outcome' = IF Uses(s) \subseteq ready THEN "" ELSE "crash"
        /\ UNCHANGED <<pc, loaderVars, entered_on>>

\* What the handler of an interrupt uses; without the kernel's table it is the
\* firmware's handler, whose selectors are gone.
HandlerUses(i) ==
    IF i = "timer" THEN {"idt", "timer", "task_manager"} ELSE {"idt", "task_manager"}

\* A key may come as soon as the controller lets it through, a tick once the
\* local APIC has been started.
Interrupt(i) ==
    /\ Running /\ pc = "kernel" /\ interrupts
    /\ (IF i = "timer" THEN "timer" ELSE "pic") \in ready
    /\ ~HandlerUses(i) \subseteq ready
    /\ outcome' = "crash"
    /\ UNCHANGED <<pc, loaderVars, kernelVars>>

BootNext ==
    \/ \E f \in Conventional : FirmwareAllocates(f)
    \/ GetMemoryMap
    \/ ReadKernelFile
    \/ LoadKernel
    \/ ReadVolume
    \/ ExitBootServices
    \/ GetMemoryMapAgain
    \/ EnterKernel
    \/ KernelStep
    \/ \E i \in {"timer", "key"} : Interrupt(i)

BootSpec == BootInit /\ [][BootNext]_bootVars

-----------------------------------------------------------------------------
(* Properties. *)

\* However stale the first map was, the kernel allocates only memory that was
\* free at the end of boot services, and none that still holds something it
\* uses: itself, whole, and the volume, but for one thing, the description of the
\* screen, which stays on the loader's stack.
LoaderDataKept ==
    pc = "kernel" =>
        /\ \A f \in handed \cap BootFrame : types[f] \in {"BootServicesData", "ConventionalMemory"}
        /\ handed \cap (KernelFrames \cup {volume_image, stack}) \subseteq {stack}

\* Every step of the initialisation and every interrupt handler finds what it
\* uses, if the firmware leaves interrupts off.
NoEarlyUse == outcome = "crash" => entered_on

=============================================================================
