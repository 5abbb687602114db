---------------------------- MODULE MemoryProofs ----------------------------
(***************************************************************************)
(* Proofs about memory: the frame allocator (MemoryManager), the loader and *)
(* the kernel's initialisation up to it (Boot), and the page maps that      *)
(* ExecuteFile builds and takes down (Exec).                                *)
(***************************************************************************)
EXTENDS MemoryManager, Boot, Exec, SequenceTheorems, FiniteSetTheorems,
        WellFoundedInduction, TLAPS

-----------------------------------------------------------------------------
(* The memory map. *)

\* A set of natural numbers that is not empty has a least element.
LEMMA LeastNat ==
    ASSUME NEW T, T \subseteq Nat, T # {}
    PROVE  \E n \in T : \A m \in T : n <= m
<1> DEFINE R == OpToRel(<, Nat)
<1>1. IsWellFoundedOn(R, Nat)
  BY NatLessThanWellFounded
<1>2. \A m, n \in Nat : m < n => <<m, n>> \in R
  BY DEF OpToRel
<1> HIDE DEF R
<1>3. PICK n \in T : \A m \in T : ~(<<m, n>> \in R)
  BY <1>1, WFMin
<1>4. ASSUME NEW m \in T PROVE n <= m
  <2>1. m \in Nat /\ n \in Nat /\ ~(<<m, n>> \in R)
    BY <1>3
  <2>2. ~(m < n)
    BY <1>2, <2>1, Zenon
  <2> QED
    BY <2>1, <2>2
<1> QED
  BY <1>4

\* The regions of a map are records of the map's type.
LEMMA RegionType ==
    ASSUME NEW map \in MemoryMaps
    PROVE  /\ Len(map) \in Nat
           /\ \A i \in 1..Len(map) :
                  /\ map[i].start \in Nat
                  /\ map[i].pages \in Nat \ {0}
                  /\ map[i].available \in BOOLEAN
<1>1. map \in Seq([start : Nat, pages : Nat \ {0}, available : BOOLEAN])
  BY MapAssumption
<1>2. Len(map) \in Nat
  BY <1>1
<1>3. ASSUME NEW i \in 1..Len(map)
      PROVE  /\ map[i].start \in Nat
             /\ map[i].pages \in Nat \ {0}
             /\ map[i].available \in BOOLEAN
  <2>1. map[i] \in [start : Nat, pages : Nat \ {0}, available : BOOLEAN]
    BY <1>1, ElementOfSeq
  <2>2. map[i].start \in Nat /\ map[i].pages \in Nat \ {0}
    BY <2>1
  <2>3. map[i].available \in BOOLEAN
    BY <2>1, Zenon
  <2> QED
    BY <2>2, <2>3, Zenon
<1> QED
  BY <1>2, <1>3

\* The pass over the map, up to region n.
EndUpTo(map, n, f) ==
    f = [i \in 0..n |->
            IF i = 0 THEN 0
            ELSE IF map[i].available THEN map[i].start + map[i].pages ELSE f[i - 1]]

\* The pass is defined for a map of any length.
LEMMA EndExists ==
    ASSUME NEW map
    PROVE  \A n \in Nat : \E f : EndUpTo(map, n, f)
<1> DEFINE Bad == {n \in Nat : ~ \E f : EndUpTo(map, n, f)}
<1> SUFFICES ASSUME Bad # {} PROVE FALSE
  OBVIOUS
<1>1. PICK n \in Bad : \A m \in Bad : n <= m
  BY LeastNat, Bad \subseteq Nat
<1>2. CASE n = 0
  <2>1. EndUpTo(map, 0, [i \in 0..0 |-> 0])
    BY DEF EndUpTo
  <2> QED
    BY <1>1, <1>2, <2>1
<1>3. CASE n # 0
  <2>1. n - 1 \in Nat /\ n \in Nat /\ n - 1 \notin Bad
    BY <1>1, <1>3
  <2>2. PICK f : EndUpTo(map, n - 1, f)
    BY <2>1
  <2> DEFINE g == [i \in 0..n |->
                      IF i < n THEN f[i]
                      ELSE IF map[n].available THEN map[n].start + map[n].pages
                      ELSE f[n - 1]]
  <2>3. EndUpTo(map, n, g)
    <3>1. \A i \in 0..(n - 1) : f[i] = IF i = 0 THEN 0
                                      ELSE IF map[i].available THEN map[i].start + map[i].pages
                                      ELSE f[i - 1]
      BY <2>2 DEF EndUpTo
    <3>2. ASSUME NEW i \in 0..n
          PROVE  g[i] = IF i = 0 THEN 0
                        ELSE IF map[i].available THEN map[i].start + map[i].pages
                        ELSE g[i - 1]
      BY <3>1, <2>1, <1>3
    <3>3. g = [i \in 0..n |-> g[i]]
      OBVIOUS
    <3> HIDE DEF g
    <3> QED
      BY <3>2, <3>3 DEF EndUpTo
  <2> QED
    BY <2>3, <2>1, <1>1
<1> QED
  BY <1>2, <1>3

\* What available_end is after each region.
LEMMA EndEquation ==
    ASSUME NEW map \in MemoryMaps
    PROVE  EndUpTo(map, Len(map), AvailableEnd(map))
<1>1. \E f : EndUpTo(map, Len(map), f)
  BY EndExists, RegionType
<1>2. EndUpTo(map, Len(map), CHOOSE f : EndUpTo(map, Len(map), f))
  BY <1>1, Zenon
<1>3. AvailableEnd(map) = CHOOSE f : EndUpTo(map, Len(map), f)
  BY Zenon DEF AvailableEnd, EndUpTo
<1> QED
  BY <1>2, <1>3, Zenon

\* available_end is a frame number, and follows the available regions.
LEMMA EndStep ==
    ASSUME NEW map \in MemoryMaps
    PROVE  /\ AvailableEnd(map)[0] = 0
           /\ \A i \in 1..Len(map) :
                  AvailableEnd(map)[i] = IF map[i].available THEN map[i].start + map[i].pages
                                         ELSE AvailableEnd(map)[i - 1]
           /\ \A i \in 0..Len(map) : AvailableEnd(map)[i] \in Nat
<1> DEFINE E == AvailableEnd(map)
<1>1. Len(map) \in Nat
  BY RegionType
<1>2. \A i \in 0..Len(map) :
          E[i] = IF i = 0 THEN 0
                 ELSE IF map[i].available THEN map[i].start + map[i].pages ELSE E[i - 1]
  BY <1>1, EndEquation DEF EndUpTo
<1> HIDE DEF E
<1> DEFINE Bad == {i \in Nat : i <= Len(map) /\ E[i] \notin Nat}
<1>3. ASSUME Bad # {} PROVE FALSE
  <2>1. PICK i \in Bad : \A j \in Bad : i <= j
    BY <1>3, LeastNat, Bad \subseteq Nat
  <2>2. i # 0
    BY <1>1, <1>2, <2>1
  <2>3. E[i - 1] \in Nat
    BY <2>1, <2>2, <1>1
  <2>4. i \in 1..Len(map) /\ i \in 0..Len(map)
    BY <2>1, <2>2, <1>1
  <2>5. map[i].start + map[i].pages \in Nat
    BY <2>4, RegionType
  <2> QED
    BY <1>2, <2>1, <2>2, <2>3, <2>4, <2>5
<1>4. \A i \in 0..Len(map) : E[i] \in Nat
  BY <1>1, <1>3
<1>5. E[0] = 0 /\ \A i \in 1..Len(map) :
          E[i] = IF map[i].available THEN map[i].start + map[i].pages ELSE E[i - 1]
  BY <1>1, <1>2
<1> QED
  BY <1>4, <1>5, Zenon DEF E

\* The end of memory is a frame number.
LEMMA MemoryEndType ==
    ASSUME NEW map \in MemoryMaps
    PROVE  MemoryEnd(map) \in Nat
BY EndStep, RegionType DEF MemoryEnd

\* Below the end of memory the boot marks every frame that is in no available
\* region.
LEMMA BootMarksTheRest ==
    ASSUME NEW map \in MemoryMaps, NEW f \in Nat,
           f < MemoryEnd(map), f \notin BootMap(map)
    PROVE  \E i \in 1..Len(map) :
               /\ map[i].available = TRUE
               /\ f \in Frames(map[i].start, map[i].pages)
<1> DEFINE E == AvailableEnd(map)
<1> DEFINE Below == {i \in Nat : i <= Len(map) /\ f < E[i]}
<1>1. Len(map) \in Nat /\ Len(map) \in Below
  BY RegionType DEF MemoryEnd
<1>2. PICK i \in Below : \A j \in Below : i <= j
  BY <1>1, LeastNat, Below \subseteq Nat
<1>3. i \in 1..Len(map) /\ i - 1 \in 0..Len(map) /\ i - 1 \in Nat
  BY <1>1, <1>2, EndStep
<1>4. E[i - 1] \in Nat /\ E[i - 1] <= f
  <2>1. E[i - 1] \in Nat
    BY <1>3, EndStep
  <2>2. i - 1 \notin Below
    BY <1>2, <1>3
  <2> QED
    BY <2>1, <2>2, <1>1, <1>3
<1>5. map[i].available /\ f < map[i].start + map[i].pages
  BY <1>2, <1>3, <1>4, EndStep
<1>6. f \notin Marked(map, i)
  BY <1>3 DEF BootMap
<1>7. map[i].start <= f
  <2>1. map[i].start \in Nat
    BY <1>3, RegionType
  <2>2. ASSUME f < map[i].start PROVE f \in Marked(map, i)
    BY <1>4, <2>1, <2>2 DEF Marked, Frames
  <2> QED
    BY <2>1, <2>2, <1>6
<1>8. map[i].available = TRUE
  BY <1>3, <1>5, RegionType, Zenon
<1>9. f \in Frames(map[i].start, map[i].pages)
  BY <1>3, <1>5, <1>7, RegionType DEF Frames
<1> QED
  BY <1>3, <1>8, <1>9

-----------------------------------------------------------------------------
(* The inductive invariant. *)

\* Frames whose bit the call of a client has found clear, or is giving back.
Seen(c) ==
    LET a == call[c]
    IN  CASE a.op = "scan" -> Frames(a.start, a.i)
          [] a.op \in {"mark", "free"} -> Frames(a.start, a.n)
          [] OTHER -> {}

\* The bits set at boot stay set, and no call touches them.
BootPart ==
    /\ BootMap(memory_map) \subseteq alloc_map
    /\ \A c \in Client : Seen(c) \cap BootMap(memory_map) = {}
    /\ \A c \in Client : \A b \in blocks[c] :
           Frames(b[1], b[2]) \cap BootMap(memory_map) = {}

OneAllocates == \A c, d \in Client : Allocating(c) /\ Allocating(d) => c = d

\* Blocks and the frames of the calls under way are pairwise disjoint.
Disjoint ==
    /\ \A c, d \in Client : \A b \in blocks[c], e \in blocks[d] :
           c # d \/ b # e => Frames(b[1], b[2]) \cap Frames(e[1], e[2]) = {}
    /\ \A c, d \in Client : \A b \in blocks[c] : Frames(b[1], b[2]) \cap InCall(d) = {}
    /\ \A c, d \in Client : c # d => InCall(c) \cap InCall(d) = {}

\* Their bits are set, and no others but those of the boot.
Owned ==
    /\ \A c \in Client : InCall(c) \subseteq alloc_map
    /\ \A c \in Client : \A b \in blocks[c] : Frames(b[1], b[2]) \subseteq alloc_map
    /\ \A f \in alloc_map \ BootMap(memory_map) : \E c \in Client :
           f \in InCall(c) \/ \E b \in blocks[c] : f \in Frames(b[1], b[2])

\* The bits Allocate has found clear and not yet set are still clear.
StillClear ==
    \A c \in Client :
        LET a == call[c]
        IN  /\ a.op = "scan" => Frames(a.start, a.i) \cap alloc_map = {}
            /\ a.op = "mark" => Frames(a.start + a.i, a.n - a.i) \cap alloc_map = {}

\* Nobody asks for a block of no frame.
Sized == \A c \in Client : call[c].op # "idle" => call[c].n > 0

IInv ==
    /\ TypeOK
    /\ Sized
    /\ BootPart
    /\ ~overlapped => OneAllocates /\ Disjoint /\ Owned /\ StillClear
    /\ SearchMissesNothing

\* Boot establishes the invariant.
LEMMA InitIInv == Init => IInv
<1> SUFFICES ASSUME Init PROVE IInv
  OBVIOUS
<1> USE DEF Init, Idle
<1>1. MemoryEnd(memory_map) \in Nat
  BY RegionType, EndStep DEF MemoryEnd
<1>2. BootMap(memory_map) \subseteq Nat
  <2>1. ASSUME NEW i \in 1..Len(memory_map) PROVE Marked(memory_map, i) \subseteq Nat
    <3>1. AvailableEnd(memory_map)[i - 1] \in Nat
      BY RegionType, EndStep
    <3>2. memory_map[i].start \in Nat /\ memory_map[i].pages \in Nat
      BY RegionType
    <3> QED
      BY <3>1, <3>2 DEF Marked, Frames
  <2> QED
    BY <2>1 DEF BootMap
<1>3. TypeOK
  <2>1. range_end \in Nat
    BY <1>1, FrameAssumption
  <2>2. call \in [Client -> [op : {"idle", "scan", "mark", "free"}, start : Nat,
                             n : 0..MaxFrames, i : Nat]]
    BY FrameAssumption
  <2>3. /\ \A c \in Client : call[c].i <= call[c].n
        /\ blocks \in [Client -> SUBSET (Nat \X (1..MaxFrames))]
    OBVIOUS
  <2> QED
    BY <1>2, <2>1, <2>2, <2>3 DEF TypeOK
<1>4. BootPart
  BY DEF BootPart, Seen
<1>5. OneAllocates /\ Disjoint /\ Owned /\ StillClear
  BY DEF OneAllocates, Allocating, Disjoint, Owned, StillClear, InCall
<1>6. SearchMissesNothing /\ Sized
  BY DEF SearchMissesNothing, Sized
<1> QED
  BY <1>3, <1>4, <1>5, <1>6 DEF IInv

\* A call is a record of its type.
LEMMA CallType ==
    ASSUME TypeOK, NEW c \in Client
    PROVE  /\ call[c].op \in {"idle", "scan", "mark", "free"}
           /\ call[c].start \in Nat /\ call[c].n \in 0..MaxFrames /\ call[c].i \in Nat
           /\ call[c].i <= call[c].n /\ call[c].n \in Nat
           /\ blocks[c] \subseteq Nat \X (1..MaxFrames)
BY FrameAssumption DEF TypeOK

\* Allocate starts to look: no bitmap changes.
LEMMA AllocateBeginStep ==
    ASSUME IInv, NEW c \in Client, NEW n \in 1..MaxFrames, AllocateBegin(c, n)
    PROVE  IInv'
<1> USE DEF AllocateBegin
<1>1. TypeOK /\ BootPart /\ SearchMissesNothing
  BY DEF IInv
<1>2. call'[c] = [op |-> "scan", start |-> 1, n |-> n, i |-> 0]
  BY <1>1 DEF TypeOK, range_begin
<1>3. \A d \in Client : d # c => call'[d] = call[d]
  BY <1>1 DEF TypeOK
<1>4. \A d \in Client : InCall(d)' = InCall(d)
  BY <1>2, <1>3 DEF InCall
<1>5. TypeOK'
  <2>1. call' \in [Client -> [op : {"idle", "scan", "mark", "free"}, start : Nat,
                              n : 0..MaxFrames, i : Nat]]
    BY <1>1, FrameAssumption DEF TypeOK, range_begin
  <2>2. \A d \in Client : call'[d].i <= call'[d].n
    BY <1>1, <1>2, <1>3 DEF TypeOK
  <2>3. overlapped' \in BOOLEAN /\ quiet' \subseteq Client
    BY <1>1 DEF TypeOK
  <2> QED
    BY <1>1, <2>1, <2>2, <2>3 DEF TypeOK
<1>6. BootPart'
  <2>1. Seen(c)' = {}
    BY <1>2 DEF Seen, Frames
  <2>2. \A d \in Client : d # c => Seen(d)' = Seen(d)
    BY <1>3 DEF Seen
  <2> QED
    BY <1>1, <2>1, <2>2 DEF BootPart
<1>7. ASSUME ~overlapped' PROVE (OneAllocates /\ Disjoint /\ Owned /\ StillClear)'
  <2>1. ~overlapped /\ \A d \in Client : ~Allocating(d)
    BY <1>7
  <2>2. OneAllocates'
    BY <2>1, <1>2, <1>3 DEF OneAllocates, Allocating
  <2>3. Disjoint' /\ Owned'
    BY <2>1, <1>4 DEF IInv, Disjoint, Owned
  <2>4. StillClear'
    BY <2>1, <1>2, <1>3 DEF IInv, StillClear, Frames
  <2> QED
    BY <2>2, <2>3, <2>4
<1>8. SearchMissesNothing'
  BY <1>1, <1>2, <1>3 DEF SearchMissesNothing, range_begin
<1>9. Sized'
  BY <1>2, <1>3 DEF IInv, Sized
<1> QED
  BY <1>5, <1>6, <1>7, <1>8, <1>9 DEF IInv

\* A turn of the search changes neither the bitmap nor what anybody owns.
LEMMA AllocateScanStep ==
    ASSUME IInv, NEW c \in Client, AllocateScan(c)
    PROVE  IInv'
<1> DEFINE a == call[c]
<1>1. TypeOK /\ BootPart /\ SearchMissesNothing
  BY DEF IInv
<1>2. /\ a.op = "scan"
      /\ a.start \in Nat /\ a.n \in Nat /\ a.i \in Nat /\ a.n <= MaxFrames /\ a.i <= a.n
      /\ UNCHANGED <<memory_map, alloc_map, range_end, blocks, overlapped, quiet>>
  BY <1>1, CallType DEF AllocateScan
\* The clients other than c are not concerned; c owns nothing before and after.
<1>3. ASSUME call' \in [Client -> [op : {"idle", "scan", "mark", "free"}, start : Nat,
                                   n : 0..MaxFrames, i : Nat]],
             \A d \in Client : d # c => call'[d] = call[d],
             call'[c].i <= call'[c].n,
             InCall(c)' = {},
             call'[c].op \in {"idle", "scan", "mark"},
             Seen(c)' \cap BootMap(memory_map) = {},
             StillClear => StillClear',
             call'[c].op # "idle" => call'[c].n = a.n,
             call'[c].op # "idle" => \A s \in a.start..(call'[c].start - 1) :
                                         Frames(s, a.n) \cap alloc_map # {}
      PROVE  IInv'
  <2>1. TypeOK'
    BY <1>1, <1>2, <1>3 DEF TypeOK
  <2>2. \A d \in Client : d # c => Seen(d)' = Seen(d)
    BY <1>3 DEF Seen
  <2>3. BootPart'
    BY <1>1, <1>2, <1>3, <2>2 DEF BootPart
  <2>4. InCall(c) = {}
    BY <1>2 DEF InCall
  <2>5. \A d \in Client : InCall(d)' = InCall(d)
    BY <1>3, <2>4 DEF InCall
  <2>6. ~overlapped => (OneAllocates /\ Disjoint /\ Owned /\ StillClear)'
    <3>1. OneAllocates => OneAllocates'
      BY <1>2, <1>3 DEF OneAllocates, Allocating
    <3>2. Disjoint /\ Owned => Disjoint' /\ Owned'
      BY <1>2, <2>5 DEF Disjoint, Owned
    <3> QED
      BY <3>1, <3>2, <1>3 DEF IInv
  <2>7. SearchMissesNothing'
    <3> SUFFICES ASSUME NEW d \in quiet, call'[d].op \in {"scan", "mark"},
                        NEW s \in 1..(call'[d].start - 1)
                 PROVE  Frames(s, call'[d].n) \cap alloc_map # {}
      BY <1>2 DEF SearchMissesNothing, range_begin
    <3>1. d \in Client
      BY <1>1 DEF TypeOK
    <3>2. CASE d # c
      BY <3>1, <3>2, <1>1, <1>3 DEF SearchMissesNothing, range_begin
    <3>3. CASE d = c
      <4>1. call'[c].n = a.n /\ call'[c].start \in Nat
        BY <1>3, <3>3
      <4>2. CASE s < a.start
        BY <4>1, <4>2, <3>3, <1>1, <1>2 DEF SearchMissesNothing, range_begin
      <4>3. CASE s >= a.start
        BY <4>1, <4>3, <3>3, <1>2, <1>3
      <4> QED
        BY <4>2, <4>3, <1>2, <4>1
    <3> QED
      BY <3>2, <3>3
  <2>8. Sized'
    BY <1>2, <1>3 DEF IInv, Sized
  <2> QED
    BY <2>1, <2>3, <2>6, <2>7, <2>8, <1>2 DEF IInv
<1>4. CASE a.i = a.n /\ call' = [call EXCEPT ![c].op = "mark", ![c].i = 0]
  <2>1. call'[c] = [a EXCEPT !.op = "mark", !.i = 0]
    BY <1>1, <1>4 DEF TypeOK
  <2>2. /\ call'[c].op = "mark" /\ call'[c].i = 0 /\ call'[c].n = a.n
        /\ call'[c].start = a.start
    BY <2>1, <1>1 DEF TypeOK
  <2>3. \A d \in Client : d # c => call'[d] = call[d]
    BY <1>4, <1>1 DEF TypeOK
  <2>4. InCall(c)' = {}
    BY <2>2, <1>2 DEF InCall, Frames
  <2>5. Seen(c)' = Seen(c)
    BY <2>2, <1>2, <1>4 DEF Seen
  <2>6. StillClear => StillClear'
    <3>1. Frames(call'[c].start + call'[c].i, call'[c].n - call'[c].i) = Frames(a.start, a.i)
      BY <2>2, <1>2, <1>4
    <3> QED
      BY <2>2, <2>3, <3>1, <1>2 DEF StillClear
  <2>7. call' \in [Client -> [op : {"idle", "scan", "mark", "free"}, start : Nat,
                              n : 0..MaxFrames, i : Nat]]
    BY <1>1, <1>4 DEF TypeOK
  <2>8. Seen(c)' \cap BootMap(memory_map) = {}
    BY <1>1, <2>5 DEF BootPart
  <2>9. \A s \in a.start..(call'[c].start - 1) : Frames(s, a.n) \cap alloc_map # {}
    BY <2>2, <1>2
  <2> QED
    BY <2>2, <2>3, <2>4, <2>6, <2>7, <2>8, <2>9, <1>2, <1>3
<1>5. CASE call' = [call EXCEPT ![c] = Idle]
  <2>1. call'[c] = Idle /\ \A d \in Client : d # c => call'[d] = call[d]
    BY <1>5, <1>1 DEF TypeOK
  <2>2. InCall(c)' = {} /\ Seen(c)' = {}
    BY <2>1 DEF InCall, Seen, Idle
  <2>3. StillClear => StillClear'
    BY <2>1, <1>2 DEF StillClear, Idle
  <2>4. call' \in [Client -> [op : {"idle", "scan", "mark", "free"}, start : Nat,
                              n : 0..MaxFrames, i : Nat]]
    BY <1>1, <1>5, FrameAssumption DEF TypeOK, Idle
  <2>5. call'[c].i <= call'[c].n /\ call'[c].op = "idle"
    BY <2>1 DEF Idle
  <2> QED
    BY <2>1, <2>2, <2>3, <2>4, <2>5, <1>3
<1>6. CASE /\ a.i < a.n /\ a.start + a.i \in alloc_map
           /\ call' = [call EXCEPT ![c].start = a.start + a.i + 1, ![c].i = 0]
  <2>1. call'[c] = [a EXCEPT !.start = a.start + a.i + 1, !.i = 0]
    BY <1>1, <1>6 DEF TypeOK
  <2>2. /\ call'[c].op = "scan" /\ call'[c].i = 0 /\ call'[c].n = a.n
        /\ call'[c].start = a.start + a.i + 1
    BY <2>1, <1>1, <1>2 DEF TypeOK
  <2>3. \A d \in Client : d # c => call'[d] = call[d]
    BY <1>6, <1>1 DEF TypeOK
  <2>4. InCall(c)' = {} /\ Seen(c)' = {}
    BY <2>2, <1>2 DEF InCall, Seen, Frames
  <2>5. StillClear => StillClear'
    BY <2>2, <2>3, <1>2 DEF StillClear, Frames
  <2>6. call' \in [Client -> [op : {"idle", "scan", "mark", "free"}, start : Nat,
                              n : 0..MaxFrames, i : Nat]]
    <3>1. a.start + a.i + 1 \in Nat
      BY <1>2
    <3> QED
      BY <3>1, <1>1, <1>6 DEF TypeOK
  <2>7. \A s \in a.start..(call'[c].start - 1) : a.start + a.i \in Frames(s, a.n)
    BY <2>2, <1>2, <1>6 DEF Frames
  <2> QED
    BY <2>2, <2>3, <2>4, <2>5, <2>6, <2>7, <1>2, <1>3, <1>6
<1>7. CASE /\ a.i < a.n /\ a.start + a.i \notin alloc_map
           /\ call' = [call EXCEPT ![c].i = a.i + 1]
  <2>1. call'[c] = [a EXCEPT !.i = a.i + 1]
    BY <1>1, <1>7 DEF TypeOK
  <2>2. /\ call'[c].op = "scan" /\ call'[c].i = a.i + 1 /\ call'[c].n = a.n
        /\ call'[c].start = a.start
    BY <2>1, <1>1, <1>2 DEF TypeOK
  <2>3. \A d \in Client : d # c => call'[d] = call[d]
    BY <1>7, <1>1 DEF TypeOK
  <2>4. InCall(c)' = {}
    BY <2>2 DEF InCall
  <2>5. Frames(a.start, a.i + 1) = Frames(a.start, a.i) \cup {a.start + a.i}
    BY <1>2 DEF Frames
  <2>6. Seen(c)' = Seen(c) \cup {a.start + a.i}
    BY <2>2, <2>5, <1>2 DEF Seen
  <2>7. Seen(c)' \cap BootMap(memory_map) = {}
    BY <2>6, <1>1, <1>7 DEF BootPart
  <2>8. StillClear => StillClear'
    BY <2>2, <2>3, <2>5, <1>2, <1>7 DEF StillClear
  <2>9. call' \in [Client -> [op : {"idle", "scan", "mark", "free"}, start : Nat,
                              n : 0..MaxFrames, i : Nat]]
    BY <1>1, <1>7, <1>2 DEF TypeOK
  <2>10. \A s \in a.start..(call'[c].start - 1) : Frames(s, a.n) \cap alloc_map # {}
    BY <2>2, <1>2
  <2> QED
    BY <2>2, <2>3, <2>4, <2>7, <2>8, <2>9, <2>10, <1>2, <1>3, <1>7
<1> QED
  BY <1>4, <1>5, <1>6, <1>7 DEF AllocateScan

\* MarkAllocated sets bits that were found clear and, as nobody else allocates,
\* still are.
LEMMA AllocateMarkStep ==
    ASSUME IInv, NEW c \in Client, AllocateMark(c)
    PROVE  IInv'
<1> DEFINE a == call[c]
<1> DEFINE g == a.start + a.i
<1>1. TypeOK /\ BootPart /\ SearchMissesNothing
  BY DEF IInv
<1>2. /\ a.op = "mark"
      /\ a.start \in Nat /\ a.n \in Nat /\ a.i \in Nat /\ a.n <= MaxFrames /\ a.i <= a.n
      /\ UNCHANGED <<memory_map, range_end, overlapped, quiet>>
  BY <1>1, CallType DEF AllocateMark
<1>3. CASE /\ a.i < a.n
           /\ alloc_map' = alloc_map \cup {g}
           /\ call' = [call EXCEPT ![c].i = a.i + 1]
           /\ UNCHANGED blocks
  <2>1. call'[c] = [a EXCEPT !.i = a.i + 1]
    BY <1>1, <1>3 DEF TypeOK
  <2>2. /\ call'[c].op = "mark" /\ call'[c].i = a.i + 1 /\ call'[c].n = a.n
        /\ call'[c].start = a.start
    BY <2>1, <1>1, <1>2 DEF TypeOK
  <2>3. \A d \in Client : d # c => call'[d] = call[d]
    BY <1>3, <1>1 DEF TypeOK
  <2>4. TypeOK'
    <3>1. a.i + 1 \in Nat /\ g \in Nat
      BY <1>2
    <3>2. call' \in [Client -> [op : {"idle", "scan", "mark", "free"}, start : Nat,
                                n : 0..MaxFrames, i : Nat]]
      BY <1>1, <1>3, <3>1 DEF TypeOK
    <3>3. \A d \in Client : call'[d].i <= call'[d].n
      BY <1>1, <1>2, <1>3, <2>2, <2>3 DEF TypeOK
    <3> QED
      BY <3>1, <3>2, <3>3, <1>1, <1>2, <1>3 DEF TypeOK
  <2>5. \A d \in Client : Seen(d)' = Seen(d)
    BY <1>2, <2>2, <2>3 DEF Seen
  <2>6. BootPart'
    BY <1>1, <1>2, <1>3, <2>5 DEF BootPart
  <2>7. InCall(c)' = InCall(c) \cup {g}
    BY <1>2, <2>2 DEF InCall, Frames
  <2>8. \A d \in Client : d # c => InCall(d)' = InCall(d)
    BY <2>3 DEF InCall
  <2>9. ASSUME ~overlapped PROVE (OneAllocates /\ Disjoint /\ Owned /\ StillClear)'
    <3>1. OneAllocates /\ Disjoint /\ Owned /\ StillClear
      BY <2>9 DEF IInv
    <3>2. g \notin alloc_map
      BY <3>1, <1>2, <1>3 DEF StillClear, Frames
    <3>3. /\ \A d \in Client : g \notin InCall(d)
          /\ \A d \in Client : \A b \in blocks[d] : g \notin Frames(b[1], b[2])
      BY <3>1, <3>2 DEF Owned
    <3>4. Disjoint'
      BY <3>1, <3>3, <2>7, <2>8, <1>3, SMTT(30) DEF Disjoint
    <3>5. Owned'
      BY <3>1, <2>7, <2>8, <1>2, <1>3 DEF Owned
    <3>6. OneAllocates'
      BY <3>1, <2>2, <2>3, <1>2 DEF OneAllocates, Allocating
    <3>7. StillClear'
      <4>1. Frames(a.start + (a.i + 1), a.n - (a.i + 1)) \cap alloc_map' = {}
        <5>1. Frames(g, a.n - a.i) \cap alloc_map = {}
          BY <3>1, <1>2 DEF StillClear
        <5>2. \A f \in Frames(a.start + (a.i + 1), a.n - (a.i + 1)) :
                  f \in Frames(g, a.n - a.i) /\ f # g
          BY <1>2, <1>3 DEF Frames
        <5> QED
          BY <5>1, <5>2, <1>3
      <4>2. ASSUME NEW d \in Client, d # c, Allocating(d) PROVE FALSE
        BY <4>2, <3>1, <1>2 DEF OneAllocates, Allocating
      <4>3. \A d \in Client : d # c => call'[d].op \notin {"scan", "mark"}
        BY <4>2, <2>3 DEF Allocating
      <4> QED
        BY <4>1, <4>3, <2>2 DEF StillClear
    <3> QED
      BY <3>4, <3>5, <3>6, <3>7
  <2>10. SearchMissesNothing'
    BY <1>1, <1>2, <1>3, <2>2, <2>3 DEF SearchMissesNothing, TypeOK
  <2>11. Sized'
    BY <1>2, <2>2, <2>3 DEF IInv, Sized
  <2> QED
    BY <2>4, <2>6, <2>9, <2>10, <2>11, <1>2 DEF IInv
<1>4. CASE /\ a.i = a.n
           /\ blocks' = [blocks EXCEPT ![c] = @ \cup {<<a.start, a.n>>}]
           /\ call' = [call EXCEPT ![c] = Idle]
           /\ UNCHANGED alloc_map
           /\ a.n > 0
  <2>1. call'[c] = Idle /\ \A d \in Client : d # c => call'[d] = call[d]
    BY <1>4, <1>1 DEF TypeOK
  <2>2. /\ blocks'[c] = blocks[c] \cup {<<a.start, a.n>>}
        /\ \A d \in Client : d # c => blocks'[d] = blocks[d]
    BY <1>4, <1>1 DEF TypeOK
  <2>3. TypeOK'
    <3>1. call' \in [Client -> [op : {"idle", "scan", "mark", "free"}, start : Nat,
                                n : 0..MaxFrames, i : Nat]]
      BY <1>1, <1>4, FrameAssumption DEF TypeOK, Idle
    <3>2. \A d \in Client : call'[d].i <= call'[d].n
      BY <1>1, <2>1 DEF TypeOK, Idle
    <3>3. <<a.start, a.n>> \in Nat \X (1..MaxFrames)
      BY <1>2, <1>4, FrameAssumption
    <3>4. blocks' \in [Client -> SUBSET (Nat \X (1..MaxFrames))]
      BY <1>1, <1>4, <3>3 DEF TypeOK
    <3> QED
      BY <3>1, <3>2, <3>4, <1>1, <1>2, <1>4 DEF TypeOK
  <2>4. /\ Seen(c) = Frames(a.start, a.n) /\ Seen(c)' = {}
        /\ \A d \in Client : d # c => Seen(d)' = Seen(d)
    BY <1>2, <2>1 DEF Seen, Idle
  <2>5. BootPart'
    <3>1. \A d \in Client : Seen(d)' \cap BootMap(memory_map) = {}
      BY <1>1, <2>4 DEF BootPart
    <3>2. \A d \in Client : \A b \in blocks'[d] :
              Frames(b[1], b[2]) \cap BootMap(memory_map) = {}
      BY <1>1, <2>2, <2>4 DEF BootPart
    <3> QED
      BY <3>1, <3>2, <1>1, <1>2, <1>4 DEF BootPart
  <2>6. /\ InCall(c) = Frames(a.start, a.n) /\ InCall(c)' = {}
        /\ \A d \in Client : d # c => InCall(d)' = InCall(d)
    BY <1>2, <1>4, <2>1 DEF InCall, Idle
  <2>7. ASSUME ~overlapped PROVE (OneAllocates /\ Disjoint /\ Owned /\ StillClear)'
    <3>1. OneAllocates /\ Disjoint /\ Owned /\ StillClear
      BY <2>7 DEF IInv
    <3>2. Disjoint'
      <4>1. ASSUME NEW d \in Client, NEW e \in Client, NEW b \in blocks'[d],
                   NEW f \in blocks'[e], d # e \/ b # f
            PROVE  Frames(b[1], b[2]) \cap Frames(f[1], f[2]) = {}
        <5>1. (b \in blocks[d] \/ (d = c /\ b = <<a.start, a.n>>))
                /\ (f \in blocks[e] \/ (e = c /\ f = <<a.start, a.n>>))
          BY <2>2
        <5>2. CASE b \in blocks[d] /\ f \in blocks[e]
          BY <5>2, <4>1, <3>1 DEF Disjoint
        <5>3. CASE b \in blocks[d] /\ e = c /\ f = <<a.start, a.n>>
          BY <5>3, <3>1, <2>6 DEF Disjoint
        <5>4. CASE d = c /\ b = <<a.start, a.n>> /\ f \in blocks[e]
          BY <5>4, <3>1, <2>6 DEF Disjoint
        <5> QED
          BY <4>1, <5>1, <5>2, <5>3, <5>4
      <4>2. ASSUME NEW d \in Client, NEW e \in Client, NEW b \in blocks'[d]
            PROVE  Frames(b[1], b[2]) \cap InCall(e)' = {}
        <5>1. CASE e = c
          BY <5>1, <2>6
        <5>2. CASE e # c /\ b \in blocks[d]
          BY <5>2, <2>6, <3>1 DEF Disjoint
        <5>3. CASE e # c /\ d = c /\ b = <<a.start, a.n>>
          BY <5>3, <2>6, <3>1 DEF Disjoint
        <5> QED
          BY <5>1, <5>2, <5>3, <2>2
      <4>3. \A d, e \in Client : d # e => InCall(d)' \cap InCall(e)' = {}
        BY <2>6, <3>1 DEF Disjoint
      <4> QED
        BY <4>1, <4>2, <4>3 DEF Disjoint
    <3>3. Owned'
      <4>1. \A d \in Client : InCall(d)' \subseteq alloc_map
        BY <3>1, <2>6 DEF Owned
      <4>2. \A d \in Client : \A b \in blocks'[d] : Frames(b[1], b[2]) \subseteq alloc_map
        BY <3>1, <2>2, <2>6 DEF Owned
      <4>3. ASSUME NEW f \in alloc_map \ BootMap(memory_map)
            PROVE  \E d \in Client :
                      f \in InCall(d)' \/ \E b \in blocks'[d] : f \in Frames(b[1], b[2])
        <5>1. PICK d \in Client :
                  f \in InCall(d) \/ \E b \in blocks[d] : f \in Frames(b[1], b[2])
          BY <3>1 DEF Owned
        <5>2. CASE f \in InCall(c)
          <6>1. <<a.start, a.n>> \in blocks'[c] /\ f \in Frames(<<a.start, a.n>>[1], <<a.start, a.n>>[2])
            BY <5>2, <2>2, <2>6
          <6> QED
            BY <6>1
        <5>3. CASE f \in InCall(d) /\ d # c
          BY <5>3, <2>6
        <5>4. CASE \E b \in blocks[d] : f \in Frames(b[1], b[2])
          BY <5>4, <2>2
        <5> QED
          BY <5>1, <5>2, <5>3, <5>4
      <4> QED
        BY <4>1, <4>2, <4>3, <1>2, <1>4 DEF Owned
    <3>4. OneAllocates'
      BY <3>1, <2>1 DEF OneAllocates, Allocating, Idle
    <3>5. StillClear'
      BY <3>1, <2>1, <1>4 DEF StillClear, Idle
    <3> QED
      BY <3>2, <3>3, <3>4, <3>5
  <2>8. SearchMissesNothing'
    BY <1>1, <1>2, <1>4, <2>1 DEF SearchMissesNothing, TypeOK, Idle
  <2>9. Sized'
    BY <2>1 DEF IInv, Sized, Idle
  <2> QED
    BY <2>3, <2>5, <2>7, <2>8, <2>9, <1>2 DEF IInv
<1>5. a.n > 0
  BY <1>2 DEF IInv, Sized
<1> QED
  BY <1>3, <1>4, <1>5 DEF AllocateMark

\* A block given to Free belongs from then on to the call.
LEMMA FreeBeginStep ==
    ASSUME IInv, NEW c \in Client, NEW b \in blocks[c], FreeBegin(c, b)
    PROVE  IInv'
<1> USE DEF FreeBegin
<1>1. TypeOK /\ BootPart /\ SearchMissesNothing /\ Sized
  BY DEF IInv
<1>2. b[1] \in Nat /\ b[2] \in 1..MaxFrames
  <2>1. b \in Nat \X (1..MaxFrames)
    BY <1>1, CallType
  <2> QED
    BY <2>1
<1>3. /\ call'[c] = [op |-> "free", start |-> b[1], n |-> b[2], i |-> 0]
      /\ \A d \in Client : d # c => call'[d] = call[d]
  BY <1>1 DEF TypeOK
<1>4. /\ blocks'[c] = blocks[c] \ {b}
      /\ \A d \in Client : d # c => blocks'[d] = blocks[d]
  BY <1>1 DEF TypeOK
<1>5. TypeOK'
  <2>1. call' \in [Client -> [op : {"idle", "scan", "mark", "free"}, start : Nat,
                              n : 0..MaxFrames, i : Nat]]
    <3>1. b[2] \in 0..MaxFrames
      BY <1>2, FrameAssumption
    <3>2. [op |-> "free", start |-> b[1], n |-> b[2], i |-> 0]
             \in [op : {"idle", "scan", "mark", "free"}, start : Nat, n : 0..MaxFrames, i : Nat]
      BY <1>2, <3>1
    <3> QED
      BY <3>2, <1>1 DEF TypeOK
  <2>2. \A d \in Client : call'[d].i <= call'[d].n
    BY <1>1, <1>2, <1>3, FrameAssumption DEF TypeOK
  <2>3. blocks' \in [Client -> SUBSET (Nat \X (1..MaxFrames))]
    BY <1>1 DEF TypeOK
  <2> QED
    BY <2>1, <2>2, <2>3, <1>1 DEF TypeOK
<1>6. /\ Seen(c)' = Frames(b[1], b[2]) /\ InCall(c)' = Frames(b[1], b[2]) /\ InCall(c) = {}
      /\ \A d \in Client : d # c => Seen(d)' = Seen(d) /\ InCall(d)' = InCall(d)
  <2>1. b[1] + 0 = b[1] /\ b[2] - 0 = b[2]
    BY <1>2, FrameAssumption
  <2> QED
    BY <1>3, <2>1 DEF Seen, InCall
<1>7. BootPart'
  <2>1. \A d \in Client : Seen(d)' \cap BootMap(memory_map) = {}
    BY <1>1, <1>6 DEF BootPart
  <2>2. \A d \in Client : \A e \in blocks'[d] :
            Frames(e[1], e[2]) \cap BootMap(memory_map) = {}
    BY <1>1, <1>4 DEF BootPart
  <2> QED
    BY <2>1, <2>2, <1>1 DEF BootPart
<1>8. ASSUME ~overlapped PROVE (OneAllocates /\ Disjoint /\ Owned /\ StillClear)'
  <2>1. OneAllocates /\ Disjoint /\ Owned /\ StillClear
    BY <1>8 DEF IInv
  <2>2. OneAllocates'
    BY <2>1, <1>3 DEF OneAllocates, Allocating
  <2>3. StillClear'
    BY <2>1, <1>3 DEF StillClear
  <2>4. Disjoint'
    <3>1. ASSUME NEW d \in Client, NEW e \in Client, NEW u \in blocks'[d],
                 NEW v \in blocks'[e], d # e \/ u # v
          PROVE  Frames(u[1], u[2]) \cap Frames(v[1], v[2]) = {}
      BY <3>1, <2>1, <1>4 DEF Disjoint
    <3>2. ASSUME NEW d \in Client, NEW e \in Client, NEW u \in blocks'[d]
          PROVE  Frames(u[1], u[2]) \cap InCall(e)' = {}
      <4>1. u \in blocks[d] /\ (d # c \/ u # b)
        BY <1>4
      <4>2. CASE e = c
        BY <4>1, <4>2, <2>1, <1>6 DEF Disjoint
      <4>3. CASE e # c
        BY <4>1, <4>3, <2>1, <1>6 DEF Disjoint
      <4> QED
        BY <4>2, <4>3
    <3>3. ASSUME NEW d \in Client, NEW e \in Client, d # e
          PROVE  InCall(d)' \cap InCall(e)' = {}
      BY <3>3, <2>1, <1>6 DEF Disjoint
    <3> QED
      BY <3>1, <3>2, <3>3 DEF Disjoint
  <2>5. Owned'
    <3>1. \A d \in Client : InCall(d)' \subseteq alloc_map
      BY <2>1, <1>6 DEF Owned
    <3>2. \A d \in Client : \A e \in blocks'[d] : Frames(e[1], e[2]) \subseteq alloc_map
      BY <2>1, <1>4 DEF Owned
    <3>3. ASSUME NEW f \in alloc_map \ BootMap(memory_map)
          PROVE  \E d \in Client :
                     f \in InCall(d)' \/ \E e \in blocks'[d] : f \in Frames(e[1], e[2])
      <4>1. PICK d \in Client :
                f \in InCall(d) \/ \E e \in blocks[d] : f \in Frames(e[1], e[2])
        BY <2>1 DEF Owned
      <4>2. CASE f \in InCall(d)
        BY <4>2, <1>6
      <4>3. ASSUME NEW e \in blocks[d], f \in Frames(e[1], e[2])
            PROVE  \E k \in Client :
                       f \in InCall(k)' \/ \E u \in blocks'[k] : f \in Frames(u[1], u[2])
        <5>1. CASE d = c /\ e = b
          BY <5>1, <4>3, <1>6
        <5>2. CASE d # c \/ e # b
          BY <5>2, <4>3, <1>4
        <5> QED
          BY <5>1, <5>2
      <4> QED
        BY <4>1, <4>2, <4>3
    <3> QED
      BY <3>1, <3>2, <3>3 DEF Owned
  <2> QED
    BY <2>2, <2>3, <2>4, <2>5
<1>9. SearchMissesNothing'
  BY <1>1, <1>3 DEF SearchMissesNothing, TypeOK
<1>10. Sized'
  BY <1>1, <1>2, <1>3 DEF Sized
<1> QED
  BY <1>5, <1>7, <1>8, <1>9, <1>10 DEF IInv

\* A turn of Free clears a bit that no block and no other call owns.
LEMMA FreeStepStep ==
    ASSUME IInv, NEW c \in Client, FreeStep(c)
    PROVE  IInv'
<1> DEFINE a == call[c]
<1> DEFINE g == a.start + a.i
<1>1. TypeOK /\ BootPart /\ SearchMissesNothing /\ Sized
  BY DEF IInv
<1>2. /\ a.op = "free"
      /\ a.start \in Nat /\ a.n \in Nat /\ a.i \in Nat /\ a.n <= MaxFrames /\ a.i <= a.n
      /\ UNCHANGED <<memory_map, range_end, blocks, overlapped>>
  BY <1>1, CallType DEF FreeStep
<1>3. CASE /\ a.i < a.n
           /\ alloc_map' = alloc_map \ {g}
           /\ call' = [call EXCEPT ![c].i = a.i + 1]
           /\ quiet' = {}
  <2>1. call'[c] = [a EXCEPT !.i = a.i + 1]
    BY <1>1, <1>3 DEF TypeOK
  <2>2. /\ call'[c].op = "free" /\ call'[c].i = a.i + 1 /\ call'[c].n = a.n
        /\ call'[c].start = a.start
    BY <2>1, <1>1, <1>2 DEF TypeOK
  <2>3. \A d \in Client : d # c => call'[d] = call[d]
    BY <1>3, <1>1 DEF TypeOK
  <2>4. TypeOK'
    <3>1. a.i + 1 \in Nat
      BY <1>2
    <3>2. call' \in [Client -> [op : {"idle", "scan", "mark", "free"}, start : Nat,
                                n : 0..MaxFrames, i : Nat]]
      BY <1>1, <1>3, <3>1 DEF TypeOK
    <3>3. \A d \in Client : call'[d].i <= call'[d].n
      BY <1>1, <1>2, <1>3, <2>2, <2>3 DEF TypeOK
    <3> QED
      BY <3>2, <3>3, <1>1, <1>2, <1>3 DEF TypeOK
  <2>5. \A d \in Client : Seen(d)' = Seen(d)
    BY <1>2, <2>2, <2>3 DEF Seen
  <2>6. g \in Seen(c) /\ g \in InCall(c)
    BY <1>2, <1>3 DEF Seen, InCall, Frames
  <2>7. BootPart'
    BY <1>1, <1>2, <1>3, <2>5, <2>6 DEF BootPart
  <2>8. InCall(c)' = InCall(c) \ {g}
    BY <1>2, <2>2 DEF InCall, Frames
  <2>9. \A d \in Client : d # c => InCall(d)' = InCall(d)
    BY <2>3 DEF InCall
  <2>10. ASSUME ~overlapped PROVE (OneAllocates /\ Disjoint /\ Owned /\ StillClear)'
    <3>1. OneAllocates /\ Disjoint /\ Owned /\ StillClear
      BY <2>10 DEF IInv
    <3>2. /\ \A d \in Client : d # c => g \notin InCall(d)
          /\ \A d \in Client : \A b \in blocks[d] : g \notin Frames(b[1], b[2])
      BY <3>1, <2>6 DEF Disjoint
    <3>3. Disjoint'
      BY <3>1, <2>8, <2>9, <1>2 DEF Disjoint
    <3>4. Owned'
      BY <3>1, <3>2, <2>8, <2>9, <1>2, <1>3 DEF Owned
    <3>5. OneAllocates'
      BY <3>1, <2>2, <2>3, <1>2 DEF OneAllocates, Allocating
    <3>6. StillClear'
      BY <3>1, <2>2, <2>3, <1>3 DEF StillClear
    <3> QED
      BY <3>3, <3>4, <3>5, <3>6
  <2>11. SearchMissesNothing' /\ Sized'
    BY <1>1, <1>2, <1>3, <2>2, <2>3 DEF SearchMissesNothing, Sized
  <2> QED
    BY <2>4, <2>7, <2>10, <2>11, <1>2 DEF IInv
<1>4. CASE /\ a.i = a.n
           /\ call' = [call EXCEPT ![c] = Idle]
           /\ UNCHANGED <<alloc_map, quiet>>
  <2>1. call'[c] = Idle /\ \A d \in Client : d # c => call'[d] = call[d]
    BY <1>4, <1>1 DEF TypeOK
  <2>2. TypeOK'
    <3>1. call' \in [Client -> [op : {"idle", "scan", "mark", "free"}, start : Nat,
                                n : 0..MaxFrames, i : Nat]]
      BY <1>1, <1>4, FrameAssumption DEF TypeOK, Idle
    <3>2. \A d \in Client : call'[d].i <= call'[d].n
      BY <1>1, <2>1 DEF TypeOK, Idle
    <3> QED
      BY <3>1, <3>2, <1>1, <1>2, <1>4 DEF TypeOK
  <2>3. Seen(c)' = {} /\ \A d \in Client : d # c => Seen(d)' = Seen(d)
    BY <2>1 DEF Seen, Idle
  <2>4. BootPart'
    BY <1>1, <1>2, <1>4, <2>3 DEF BootPart
  <2>5. InCall(c) = {}
    BY <1>2, <1>4 DEF InCall, Frames
  <2>6. \A d \in Client : InCall(d)' = InCall(d)
    BY <2>1, <2>5 DEF InCall, Idle
  <2>7. ASSUME ~overlapped PROVE (OneAllocates /\ Disjoint /\ Owned /\ StillClear)'
    <3>1. OneAllocates /\ Disjoint /\ Owned /\ StillClear
      BY <2>7 DEF IInv
    <3>2. Disjoint' /\ Owned'
      BY <3>1, <2>6, <1>2, <1>4 DEF Disjoint, Owned
    <3>3. OneAllocates' /\ StillClear'
      BY <3>1, <2>1, <1>4 DEF OneAllocates, Allocating, StillClear, Idle
    <3> QED
      BY <3>2, <3>3
  <2>8. SearchMissesNothing' /\ Sized'
    BY <1>1, <1>2, <1>4, <2>1 DEF SearchMissesNothing, Sized, TypeOK, Idle
  <2> QED
    BY <2>2, <2>4, <2>7, <2>8, <1>2 DEF IInv
<1> QED
  BY <1>3, <1>4 DEF FreeStep

\* Every step preserves the invariant.
LEMMA NextIInv == IInv /\ [Next]_vars => IInv'
<1> SUFFICES ASSUME IInv, [Next]_vars PROVE IInv'
  OBVIOUS
<1>1. CASE UNCHANGED vars
  <2> USE <1>1 DEF vars
  <2>1. TypeOK => TypeOK'
    BY DEF TypeOK
  <2>2. BootPart => BootPart'
    BY DEF BootPart, Seen
  <2>3. \A c \in Client : InCall(c)' = InCall(c)
    BY DEF InCall
  <2>4. Disjoint /\ Owned => Disjoint' /\ Owned'
    BY <2>3 DEF Disjoint, Owned
  <2>5. OneAllocates /\ StillClear => OneAllocates' /\ StillClear'
    BY DEF OneAllocates, Allocating, StillClear
  <2>6. SearchMissesNothing /\ Sized => SearchMissesNothing' /\ Sized'
    BY DEF SearchMissesNothing, Sized
  <2> QED
    BY <2>1, <2>2, <2>4, <2>5, <2>6 DEF IInv
<1>2. CASE Next
  <2> PICK c \in Client :
          \/ \E n \in 1..MaxFrames : AllocateBegin(c, n)
          \/ AllocateScan(c)
          \/ AllocateMark(c)
          \/ \E b \in blocks[c] : FreeBegin(c, b)
          \/ FreeStep(c)
    BY <1>2 DEF Next
  <2>1. CASE \E n \in 1..MaxFrames : AllocateBegin(c, n)
    BY <2>1, AllocateBeginStep
  <2>2. CASE AllocateScan(c)
    BY <2>2, AllocateScanStep
  <2>3. CASE AllocateMark(c)
    BY <2>3, AllocateMarkStep
  <2>4. CASE \E b \in blocks[c] : FreeBegin(c, b)
    BY <2>4, FreeBeginStep
  <2>5. CASE FreeStep(c)
    BY <2>5, FreeStepStep
  <2> QED
    BY <2>1, <2>2, <2>3, <2>4, <2>5
<1> QED
  BY <1>1, <1>2

\* The invariant holds in every reachable state.
LEMMA AlwaysIInv == Spec => []IInv
BY InitIInv, NextIInv, PTL DEF Spec

-----------------------------------------------------------------------------
(* The properties. *)

\* The bitmap, the ranges and the calls of Allocate and Free under way always hold values
\* of their C++ types.
THEOREM TypeCorrect == Spec => []TypeOK
<1>1. IInv => TypeOK
  BY DEF IInv
<1> QED
  BY <1>1, AlwaysIInv, PTL

\* Allocate gives no frame to two owners, as long as no two calls of it overlap; Free may
\* overlap with anything.
THEOREM FramesHaveOneOwner == Spec => []NoFrameOwnedTwice
<1>1. IInv => NoFrameOwnedTwice
  <2> SUFFICES ASSUME Disjoint PROVE NoFrameOwnedTwice
    BY DEF IInv, NoFrameOwnedTwice
  <2>1. ASSUME NEW c \in Client, NEW d \in Client, c # d
        PROVE  (Held(c) \cup InCall(c)) \cap (Held(d) \cup InCall(d)) = {}
    BY <2>1 DEF Disjoint, Held
  <2>2. \A c \in Client : \A b, e \in blocks[c] :
            b # e => Frames(b[1], b[2]) \cap Frames(e[1], e[2]) = {}
    BY DEF Disjoint
  <2> QED
    BY <2>1, <2>2 DEF NoFrameOwnedTwice
<1> QED
  BY <1>1, AlwaysIInv, PTL

\* Nor do Allocate and Free leak a frame or clear the bit of one in use then.
THEOREM BitmapIsExact == Spec => []BitmapExact
<1>1. IInv => BitmapExact
  <2> SUFFICES ASSUME Owned, BootPart PROVE BitmapExact
    BY DEF IInv, BitmapExact
  <2>1. \A c \in Client : Held(c) \subseteq alloc_map /\ InCall(c) \subseteq alloc_map
    BY DEF Owned, Held
  <2>2. ASSUME NEW f \in alloc_map, f \notin BootMap(memory_map)
        PROVE  \E c \in Client : f \in Held(c) \cup InCall(c)
    BY <2>2 DEF Owned, Held
  <2> QED
    BY <2>1, <2>2 DEF BitmapExact, BootPart
<1> QED
  BY <1>1, AlwaysIInv, PTL

\* Memory the firmware did not report as available is never handed out, even by
\* calls that overlap, for every memory map; what lies beyond the end of memory is handed
\* out only to a call that found no room in memory.
THEOREM UnavailableIsNeverHandedOut == Spec => []UnavailableStaysOut
<1>1. ASSUME IInv, NEW c \in Client, NEW f \in Held(c)
      PROVE  ~InMap(f, FALSE) /\ (InMap(f, TRUE) \/ BeyondMemory(f))
  <2>1. PICK b \in blocks[c] : f \in Frames(b[1], b[2])
    BY DEF Held
  <2>2. b \in Nat \X (1..MaxFrames)
    BY <1>1, CallType DEF IInv
  <2>3. f \in Nat
    BY <2>1, <2>2, FrameAssumption DEF Frames
  <2>4. f \notin BootMap(memory_map)
    BY <1>1, <2>1 DEF IInv, BootPart
  <2>5. memory_map \in MemoryMaps /\ MemoryEnd(memory_map) \in Nat
    BY <1>1, MemoryEndType DEF IInv, TypeOK
  <2>6. InMap(f, TRUE) \/ BeyondMemory(f)
    <3>1. CASE f < MemoryEnd(memory_map)
      <4>1. PICK i \in 1..Len(memory_map) :
                /\ memory_map[i].available = TRUE
                /\ f \in Frames(memory_map[i].start, memory_map[i].pages)
        BY <2>3, <2>4, <2>5, <3>1, BootMarksTheRest
      <4> QED
        BY <4>1 DEF InMap
    <3>2. CASE ~(f < MemoryEnd(memory_map))
      <4>1. PICK e : e = MemoryEnd(memory_map)
        OBVIOUS
      <4>2. f >= e
        BY <2>3, <2>5, <3>2, <4>1
      <4> QED
        BY <4>1, <4>2 DEF BeyondMemory
    <3> QED
      BY <3>1, <3>2
  <2>7. ~InMap(f, FALSE)
    <3>1. ASSUME NEW i \in 1..Len(memory_map), memory_map[i].available = FALSE,
                 f \in Frames(memory_map[i].start, memory_map[i].pages)
          PROVE  FALSE
      <4>1. f \in Marked(memory_map, i)
        BY <3>1, Zenon DEF Marked
      <4> QED
        BY <2>4, <4>1 DEF BootMap
    <3> QED
      BY <3>1 DEF InMap
  <2> QED
    BY <2>6, <2>7
<1>2. ASSUME IInv, NEW c \in Client, c \in quiet, call[c].op = "mark",
             BeyondMemory(call[c].start + call[c].n - 1),
             NEW s \in range_begin..MemoryEnd(memory_map), s + call[c].n <= MemoryEnd(memory_map)
      PROVE  Frames(s, call[c].n) \cap alloc_map # {}
  <2>1. MemoryEnd(memory_map) \in Nat
    BY <1>2, MemoryEndType DEF IInv, TypeOK
  <2>2. call[c].start \in Nat /\ call[c].n \in Nat
    BY <1>2, CallType, FrameAssumption DEF IInv
  <2>3. s \in range_begin..(call[c].start - 1)
    BY <1>2, <2>1, <2>2 DEF BeyondMemory, range_begin
  <2> QED
    BY <1>2, <2>3 DEF IInv, SearchMissesNothing
<1>3. IInv => UnavailableStaysOut
  BY <1>1, <1>2 DEF UnavailableStaysOut
<1> QED
  BY <1>3, AlwaysIInv, PTL

\* Allocate never passes over room that was there all the time it searched.
THEOREM SearchIsComplete == Spec => []SearchMissesNothing
<1>1. IInv => SearchMissesNothing
  BY DEF IInv
<1> QED
  BY <1>1, AlwaysIInv, PTL

-----------------------------------------------------------------------------
(* Boot: the loader's frames and the kernel's first allocations. *)

\* Pages of x bytes: what div gives.
LEMMA DivBounds ==
    ASSUME NEW x \in Int, NEW p \in Nat \ {0}
    PROVE  /\ x \div p \in Int
           /\ (x \div p) * p <= x
           /\ x < (x \div p) * p + p
OBVIOUS

\* Division keeps the order.
LEMMA DivMonotone ==
    ASSUME NEW x \in Int, NEW y \in Int, x <= y, NEW p \in Nat \ {0}
    PROVE  x \div p <= y \div p
OBVIOUS

\* An address below page q lies in a page below q.
LEMMA DivBelow ==
    ASSUME NEW x \in Int, NEW p \in Nat \ {0}, NEW q \in Int, x < q * p
    PROVE  x \div p < q
OBVIOUS

\* A sequence of numbers has a greatest.
LEMMA GreatestOf ==
    ASSUME NEW n \in Nat \ {0}, NEW f \in [1..n -> Nat]
    PROVE  \E k \in 1..n : \A j \in 1..n : f[j] <= f[k]
<1> DEFINE Bad == {m \in Nat : m \in 1..n /\ ~\E k \in 1..m : \A j \in 1..m : f[j] <= f[k]}
<1>1. ASSUME Bad # {} PROVE FALSE
  <2>1. PICK m \in Bad : \A l \in Bad : m <= l
    <3>1. Bad \subseteq Nat
      OBVIOUS
    <3> HIDE DEF Bad
    <3> QED
      BY <1>1, <3>1, LeastNat
  <2>2. m # 1
    BY <2>1
  <2>3. m \in Nat /\ m - 1 \in Nat /\ m - 1 \in 1..n /\ m - 1 \notin Bad
    <3>1. m \in Nat /\ m \in 1..n /\ m - 1 \in Nat /\ m - 1 \in 1..n /\ ~(m <= m - 1)
      BY <2>1, <2>2
    <3> HIDE DEF Bad
    <3> QED
      BY <2>1, <3>1
  <2>4. PICK k \in 1..(m - 1) : \A j \in 1..(m - 1) : f[j] <= f[k]
    BY <2>3
  <2>5. CASE f[m] <= f[k]
    <3>1. \A j \in 1..m : f[j] <= f[k]
      BY <2>1, <2>4, <2>5
    <3> QED
      BY <2>1, <3>1
  <2>6. CASE f[m] > f[k]
    <3>1. \A j \in 1..m : f[j] <= f[m]
      BY <2>1, <2>4, <2>6
    <3> QED
      BY <2>1, <3>1
  <2> QED
    BY <2>1, <2>4, <2>5, <2>6
<1>2. n \in Nat /\ n \in 1..n /\ n \notin Bad
  <2>1. n \in Nat /\ n \in 1..n
    OBVIOUS
  <2> HIDE DEF Bad
  <2> QED
    BY <1>1, <2>1
<1> QED
  BY <1>2

\* The pages that the loader allocates at the kernel's address hold every byte of
\* every load segment, if that address is that of a page.
LEMMA PagesHoldKernel ==
    ASSUME segs \in KernelImages, FirstAddr % kUefiPageBytes = 0
    PROVE  KernelFrames \subseteq KernelPages
<1> DEFINE P == kUefiPageBytes
<1> DEFINE starts == {segs[i].vaddr : i \in 1..Len(segs)}
<1> DEFINE ends == {segs[i].vaddr + segs[i].memsz : i \in 1..Len(segs)}
<1>1. /\ P \in Nat \ {0} /\ Len(segs) \in Nat
      /\ \A i \in 1..Len(segs) : segs[i].vaddr \in Nat /\ segs[i].memsz \in Nat \ {0}
  BY BootAssumption
<1>2. SUFFICES ASSUME NEW i \in 1..Len(segs) PROVE TouchedFrames(segs[i]) \subseteq KernelPages
  BY DEF KernelFrames
<1> DEFINE v == segs[i].vaddr
<1> DEFINE w == segs[i].vaddr + segs[i].memsz
<1>3. v \in Nat /\ w \in Nat /\ v < w /\ v \in starts /\ w \in ends
  BY <1>1
<1>4. FirstAddr \in Nat /\ FirstAddr <= v
  <2>1. starts \subseteq Nat /\ starts # {}
    BY <1>1, <1>3
  <2>2. PICK n \in starts : \A m \in starts : n <= m
    BY ONLY <2>1, LeastNat
  <2>3. FirstAddr = CHOOSE x \in starts : \A y \in starts : x <= y
    BY DEF FirstAddr, Min
  <2>4. FirstAddr \in starts /\ \A y \in starts : FirstAddr <= y
    BY ONLY <2>2, <2>3
  <2> QED
    BY <1>3, <2>1, <2>4
<1>5. LastAddr \in Nat /\ w <= LastAddr
  <2>1. ends \subseteq Nat /\ ends # {}
    <3>1. \A j \in 1..Len(segs) : segs[j].vaddr + segs[j].memsz \in Nat
      BY <1>1
    <3> QED
      BY <1>3, <3>1
  <2>2. PICK n \in ends : \A m \in ends : m <= n
    <3> DEFINE f == [j \in 1..Len(segs) |-> segs[j].vaddr + segs[j].memsz]
    <3>1. f \in [1..Len(segs) -> Nat] /\ Len(segs) \in Nat \ {0}
      BY <1>1
    <3>2. PICK k \in 1..Len(segs) : \A j \in 1..Len(segs) : f[j] <= f[k]
      <4> HIDE DEF f
      <4> QED
        BY <3>1, GreatestOf
    <3> QED
      BY <3>2
  <2>3. LastAddr = CHOOSE x \in ends : \A y \in ends : x >= y
    BY DEF LastAddr, Max
  <2>4. LastAddr \in ends /\ \A y \in ends : LastAddr >= y
    BY <2>1, <2>2, <2>3
  <2> QED
    BY <1>3, <2>1, <2>4
<1> HIDE DEF v, w, starts, ends
<1> DEFINE F == FirstAddr
<1> DEFINE d == LastAddr - F + P - 1
<1> DEFINE n == d \div P
<1>6. n \in Int /\ d < n * P + P /\ d \in Int
  BY <1>1, <1>4, <1>5, DivBounds
<1>7. (F \div P) \in Int /\ F = (F \div P) * P
  BY <1>1, <1>4
<1>8. w - 1 < (F \div P + n) * P
  <2>1. LastAddr - F <= n * P
    BY <1>1, <1>4, <1>5, <1>6
  <2>2. (F \div P + n) * P = (F \div P) * P + n * P
    BY <1>1, <1>6, <1>7
  <2> HIDE DEF F, n, d, P
  <2> QED
    BY <1>1, <1>3, <1>4, <1>5, <1>6, <1>7, <2>1, <2>2 DEF F
<1> DEFINE q == F \div P + n
           y == w - 1
<1>9. y \div P < q
  <2>1. q \in Int /\ y \in Int /\ P \in Nat \ {0} /\ y < q * P
    BY <1>1, <1>3, <1>6, <1>7, <1>8
  <2> HIDE DEF q, y, P
  <2> QED
    BY ONLY <2>1, DivBelow
<1>10. F \div P <= v \div P
  <2>1. F \in Int /\ v \in Int /\ P \in Nat \ {0} /\ F <= v
    BY <1>1, <1>3, <1>4
  <2> HIDE DEF F, P
  <2> QED
    BY ONLY <2>1, DivMonotone
<1>11. KernelPages = (F \div P)..(F \div P + n - 1)
  BY DEF KernelPages
<1>12. TouchedFrames(segs[i]) = (v \div P)..((w - 1) \div P)
  BY <1>1, <1>3 DEF TouchedFrames, v, w
<1>13. v \div P \in Int /\ (w - 1) \div P \in Int
  BY <1>1, <1>3
<1> HIDE DEF F, n, d, P
<1> QED
  BY <1>6, <1>7, <1>9, <1>10, <1>11, <1>12, <1>13
\* What Allocate returns at boot: a block of frames none of which is taken.
LEMMA BlockIsFree ==
    ASSUME NEW busy, NEW n \in Nat, NEW top \in Nat \ {0}, top <= NumFrames + kHeapFrames + n,
           \A f \in busy : f < top /\ f \in Nat
    PROVE  /\ Block(busy, n) \subseteq Nat
           /\ Block(busy, n) \cap busy = {}
           /\ \A f \in Block(busy, n) : f < top + n
<1> DEFINE fits == {f \in 1..(NumFrames + kHeapFrames + n) : \A g \in f..(f + n - 1) : g \notin busy}
<1>1. NumFrames \in Nat /\ kHeapFrames \in Nat
  BY BootAssumption
<1>2. top \in fits
  <2>1. top \in 1..(NumFrames + kHeapFrames + n)
    BY <1>1
  <2>2. \A g \in top..(top + n - 1) : ~(g < top)
    OBVIOUS
  <2> QED
    BY <2>1, <2>2
<1>3. fits \subseteq Nat
  OBVIOUS
<1>4. FirstFit(busy, n) = CHOOSE x \in fits : \A y \in fits : x <= y
  BY DEF FirstFit, Min
<1> DEFINE f == FirstFit(busy, n)
<1>5. f \in fits /\ f <= top
  <2> HIDE DEF fits
  <2>1. \E x \in fits : \A y \in fits : x <= y
    BY <1>2, <1>3, LeastNat
  <2> QED
    BY <1>2, <1>4, <2>1
<1>6. Block(busy, n) = f..(f + n - 1)
  BY DEF Block
<1>7. f \in Nat /\ \A g \in f..(f + n - 1) : g \notin busy /\ g \in Nat /\ g < top + n
  <2>1. f \in Nat /\ f <= top /\ \A g \in f..(f + n - 1) : g \notin busy
    BY <1>5
  <2> HIDE DEF f, fits
  <2> QED
    BY <2>1
<1> QED
  BY <1>6, <1>7

\* The loader's steps after which the kernel, and the volume, are in memory.
WithVolume == {"exit", "map_again", "exit_again", "config", "kernel"}
WithKernel == {"volume"} \cup WithVolume

FrameType == {"BootServicesData", "RuntimeServicesData", "ConventionalMemory", "LoaderData"}

BootTypes ==
    /\ pc \in {"map", "kernel_file", "kernel_pages"} \cup WithKernel
    /\ segs \in KernelImages
    /\ NumFrames # 0
    /\ types \in [BootFrame -> FrameType]
    /\ map_key \in Nat \ {0}
    /\ memmap \in [types : [BootFrame -> FrameType \cup {"none"}], key : Nat]

\* A copy of the map with the current key is the current map.
MapIsCurrent ==
    /\ memmap.key = map_key => memmap.types = types
    /\ memmap.key <= map_key
    /\ pc \in {"config", "kernel"} => memmap.key = map_key

\* The frames of the kernel and of the volume are the loader's.
LoadedIsKept ==
    /\ pc \in WithKernel =>
         /\ FirstAddr % kUefiPageBytes = 0
         /\ \A f \in KernelPages : f \in BootFrame /\ types[f] = "LoaderData"
    /\ pc \in WithVolume => volume_image \in BootFrame /\ types[volume_image] = "LoaderData"

\* What is marked and what is handed out, by the steps that are done: the memory
\* manager's is the fifth, the task state segment's the seventh.
HandedOut ==
    /\ step \in 0..Len(KernelOrder)
    /\ pc # "kernel" => step = 0
    /\ step < 5 => handed = {} /\ unavailable = {}
    /\ step >= 5 => unavailable = {f \in BootFrame : ~IsAvailable(memmap.types[f])}
    /\ handed \subseteq Nat /\ handed \cap unavailable = {}
    /\ step < 7 => \A f \in handed : f < NumFrames + kHeapFrames

\* What is ready, and that interrupts go on with the thirteenth step.
ReadyInOrder ==
    /\ ready = {KernelOrder[i] : i \in 1..step}
    /\ interrupts \in BOOLEAN /\ entered_on \in BOOLEAN
    /\ interrupts => entered_on \/ step >= 13
    /\ outcome = "crash" => entered_on

BootInv == BootTypes /\ MapIsCurrent /\ LoadedIsKept /\ HandedOut /\ ReadyInOrder

\* The firmware hands over to the loader with nothing allocated.
LEMMA BootInitInv == BootInit => BootInv
<1> SUFFICES ASSUME BootInit PROVE BootInv
  OBVIOUS
<1>1. BootTypes
  <2>1. NumFrames # 0
    <3>1. stack \in 0..(NumFrames - 1) /\ NumFrames \in Nat
      BY BootAssumption DEF BootInit, BootFrame
    <3> QED
      BY ONLY <3>1
  <2>2. types \in [BootFrame -> FrameType]
    BY DEF BootInit, FrameType
  <2>3. memmap \in [types : [BootFrame -> FrameType \cup {"none"}], key : Nat] /\ map_key \in Nat \ {0}
    <3>1. memmap = [types |-> [f \in BootFrame |-> "none"], key |-> 0] /\ map_key = 1
      BY DEF BootInit, NoMap
    <3>2. [f \in BootFrame |-> "none"] \in [BootFrame -> FrameType \cup {"none"}]
      OBVIOUS
    <3> QED
      BY ONLY <3>1, <3>2
  <2>4. pc \in {"map"} /\ segs \in KernelImages
    BY DEF BootInit
  <2> QED
    BY <2>1, <2>2, <2>3, <2>4 DEF BootTypes
<1>2. MapIsCurrent /\ LoadedIsKept
  <2>1. memmap.key = 0 /\ map_key = 1 /\ pc = "map"
    BY DEF BootInit, NoMap
  <2> QED
    BY ONLY <2>1 DEF MapIsCurrent, LoadedIsKept, WithKernel, WithVolume
<1>3. HandedOut
  <2>1. step = 0 /\ handed = {} /\ unavailable = {} /\ Len(KernelOrder) = 14
    BY DEF BootInit, KernelOrder
  <2> QED
    BY ONLY <2>1 DEF HandedOut
<1>4. ReadyInOrder
  <2>1. step = 0 /\ ready = {} /\ interrupts \in BOOLEAN /\ entered_on = interrupts /\ outcome = ""
    BY DEF BootInit
  <2>2. ready = {KernelOrder[i] : i \in 1..step}
    <3>1. step = 0 /\ ready = {}
      BY <2>1
    <3>2. 1..step = {}
      BY ONLY <3>1
    <3> QED
      BY ONLY <3>1, <3>2
  <2> QED
    BY ONLY <2>1, <2>2 DEF ReadyInOrder
<1> QED
  BY <1>1, <1>2, <1>3, <1>4 DEF BootInv

\* The operators on segs are those of the segments, which no step changes.
LEMMA SameSegments ==
    ASSUME UNCHANGED segs
    PROVE  FirstAddr' = FirstAddr /\ KernelPages' = KernelPages /\ KernelFrames' = KernelFrames
BY DEF FirstAddr, LastAddr, KernelPages, KernelFrames, TouchedFrames

\* A step of the loader that leaves the kernel's variables alone.
LEMMA LoaderKeepsKernelPart ==
    ASSUME BootInv, UNCHANGED kernelVars, step = 0, outcome' # "crash"
    PROVE  HandedOut' /\ ReadyInOrder'
BY DEF BootInv, HandedOut, ReadyInOrder, kernelVars

\* Until it is entered the kernel has made no step.
LEMMA BeforeKernel == ASSUME BootInv, pc # "kernel" PROVE step = 0
BY DEF BootInv, HandedOut

\* A step that changes the map gives it a new key.
LEMMA NewKey ==
    ASSUME BootInv, map_key' = map_key + 1 \/ map_key' = map_key + 2, UNCHANGED memmap,
           pc' \notin {"config", "kernel"}
    PROVE  MapIsCurrent' /\ map_key' \in Nat \ {0}
<1>1. /\ map_key \in Nat \ {0} /\ memmap.key \in Nat /\ memmap.key <= map_key
  BY DEF BootInv, BootTypes, MapIsCurrent
<1>2. memmap'.key < map_key' /\ map_key' \in Nat \ {0}
  BY <1>1
<1> QED
  BY <1>1, <1>2 DEF MapIsCurrent

\* A step of the loader that reads no segment and no map.
LEMMA TypesStep ==
    ASSUME BootInv, UNCHANGED <<segs, memmap>>, map_key' \in Nat \ {0},
           types' \in [BootFrame -> FrameType],
           pc' \in {"map", "kernel_file", "kernel_pages"} \cup WithKernel
    PROVE  BootTypes'
BY DEF BootInv, BootTypes

\* The firmware changes the type of a conventional frame, none of the loader's.
LEMMA FirmwareStep ==
    ASSUME BootInv, NEW f \in Conventional, FirmwareAllocates(f)
    PROVE  BootInv'
<1>1. f \in BootFrame /\ types[f] = "ConventionalMemory"
  BY DEF Conventional
<1>2. /\ types' = [g \in BootFrame |-> IF g = f THEN "BootServicesData" ELSE types[g]]
      /\ map_key' = map_key + 1 /\ outcome = "" /\ pc \notin {"config", "kernel"}
      /\ UNCHANGED <<pc, segs, memmap, volume_image, kernelVars, outcome>>
  BY DEF FirmwareAllocates, SetType, Running, BootServices
<1>3. MapIsCurrent' /\ map_key' \in Nat \ {0}
  BY <1>2, NewKey
<1>4. types' \in [BootFrame -> FrameType]
  BY <1>2 DEF BootInv, BootTypes, FrameType
<1>5. BootTypes'
  <2>1. pc' \in {"map", "kernel_file", "kernel_pages"} \cup WithKernel
    BY <1>2 DEF BootInv, BootTypes
  <2> QED
    BY <1>2, <1>3, <1>4, <2>1, TypesStep
<1>6. LoadedIsKept'
  BY <1>1, <1>2, SameSegments DEF BootInv, BootTypes, LoadedIsKept
<1> QED
  BY <1>2, <1>3, <1>5, <1>6, BeforeKernel, LoaderKeepsKernelPart DEF BootInv

\* The loader stops on an error and changes nothing.
LEMMA HaltStep == ASSUME BootInv, Halt PROVE BootInv'
BY SameSegments DEF BootInv, BootTypes, MapIsCurrent, LoadedIsKept, HandedOut, ReadyInOrder, Halt,
       loaderVars, kernelVars

\* GetMemoryMap: the copy is that of the frames' types.
LEMMA GetMemoryMapStep ==
    ASSUME BootInv, GetMemoryMap \/ GetMemoryMapAgain
    PROVE  BootInv'
<1>1. CASE Halt
  BY <1>1, HaltStep
<1>2. CASE ~Halt
  <2>1. /\ memmap' = [types |-> types, key |-> map_key] \/ memmap' = NoMap
        /\ pc' \in {"kernel_file", "exit_again"} /\ (pc' = "exit_again" => pc = "map_again")
        /\ pc # "kernel"
        /\ UNCHANGED <<segs, types, map_key, volume_image, kernelVars, outcome>> /\ outcome = ""
    BY <1>2 DEF GetMemoryMap, GetMemoryMapAgain, Running
  <2>2. /\ memmap' \in [types : [BootFrame -> FrameType \cup {"none"}], key : Nat]
        /\ map_key \in Nat \ {0}
        /\ \/ memmap'.key = map_key /\ memmap'.types = types
           \/ memmap'.key = 0
    <3>1. types \in [BootFrame -> FrameType \cup {"none"}] /\ map_key \in Nat \ {0}
      BY DEF BootInv, BootTypes
    <3>2. [f \in BootFrame |-> "none"] \in [BootFrame -> FrameType \cup {"none"}]
      OBVIOUS
    <3>3. \/ memmap' = [types |-> types, key |-> map_key]
          \/ memmap' = [types |-> [f \in BootFrame |-> "none"], key |-> 0]
      BY <2>1 DEF NoMap
    <3> QED
      BY ONLY <3>1, <3>2, <3>3
  <2>3. BootTypes'
    BY <2>1, <2>2 DEF BootInv, BootTypes, WithKernel, WithVolume
  <2>4. MapIsCurrent'
    <3>1. pc' \notin {"config", "kernel"} /\ map_key' = map_key /\ types' = types
      BY <2>1
    <3> QED
      BY ONLY <2>2, <3>1 DEF MapIsCurrent
  <2>5. LoadedIsKept'
    BY <2>1, SameSegments DEF BootInv, LoadedIsKept, WithKernel, WithVolume
  <2> QED
    BY <2>1, <2>3, <2>4, <2>5, BeforeKernel, LoaderKeepsKernelPart DEF BootInv
<1> QED
  BY <1>1, <1>2

\* The kernel file and the volume are read into frames that are the loader's from then on.
LEMMA ReadFileStep ==
    ASSUME BootInv, ReadKernelFile \/ ReadVolume
    PROVE  BootInv'
<1>1. CASE Halt
  BY <1>1, HaltStep
<1>2. CASE ~Halt
  <2>1. PICK f \in Conventional :
           /\ SetType({f}, "LoaderData")
           /\ \/ pc = "kernel_file" /\ pc' = "kernel_pages"
              \/ pc = "volume" /\ pc' = "exit" /\ volume_image' = f
           /\ UNCHANGED <<segs, memmap, kernelVars, outcome>> /\ outcome = ""
    BY <1>2 DEF ReadKernelFile, ReadVolume, Running
  <2>2. f \in BootFrame /\ types' = [g \in BootFrame |-> IF g = f THEN "LoaderData" ELSE types[g]]
        /\ map_key' = map_key + 1
    BY <2>1 DEF Conventional, SetType
  <2>3. MapIsCurrent' /\ map_key' \in Nat \ {0}
    BY <2>1, <2>2, NewKey
  <2>4. types' \in [BootFrame -> FrameType]
    BY <2>2 DEF BootInv, BootTypes, FrameType
  <2>5. BootTypes'
    BY <2>1, <2>3, <2>4, TypesStep DEF WithKernel, WithVolume
  <2>6. LoadedIsKept'
    BY <2>1, <2>2, SameSegments DEF BootInv, LoadedIsKept, WithKernel, WithVolume
  <2> QED
    BY <2>1, <2>3, <2>5, <2>6, BeforeKernel, LoaderKeepsKernelPart DEF BootInv
<1> QED
  BY <1>1, <1>2

\* LoadKernel: the pages of the kernel's segments are allocated, the file's are freed.
LEMMA LoadKernelStep == ASSUME BootInv, LoadKernel PROVE BootInv'
<1>1. CASE Halt
  BY <1>1, HaltStep
<1>2. CASE ~Halt
  <2>1. /\ FirstAddr % kUefiPageBytes = 0 /\ KernelPages \subseteq BootFrame
        /\ types' = [f \in BootFrame |-> IF f \in KernelPages THEN "LoaderData"
                                         ELSE IF f = kernel_buffer THEN "ConventionalMemory"
                                         ELSE types[f]]
        /\ map_key' = map_key + 2 /\ pc = "kernel_pages" /\ pc' = "volume" /\ outcome = ""
        /\ UNCHANGED <<segs, memmap, kernelVars, outcome>>
    BY <1>2 DEF LoadKernel, Running, Conventional
  <2>2. MapIsCurrent' /\ map_key' \in Nat \ {0}
    BY <2>1, NewKey
  <2>3. types' \in [BootFrame -> FrameType]
    BY <2>1 DEF BootInv, BootTypes, FrameType
  <2>4. BootTypes'
    BY <2>1, <2>2, <2>3, TypesStep DEF WithKernel, WithVolume
  <2>5. LoadedIsKept'
    BY <2>1, SameSegments DEF LoadedIsKept, WithKernel, WithVolume
  <2> QED
    BY <2>1, <2>2, <2>4, <2>5, BeforeKernel, LoaderKeepsKernelPart DEF BootInv
<1> QED
  BY <1>1, <1>2

\* ExitBootServices, with the key of the current map, and the jump into the kernel.
LEMMA LeaveLoaderStep ==
    ASSUME BootInv, ExitBootServices \/ EnterKernel
    PROVE  BootInv'
<1>1. /\ UNCHANGED <<loaderVars, kernelVars>> /\ outcome' # "crash" /\ pc # "kernel"
      /\ \/ pc' = pc
         \/ pc = "exit" /\ pc' = "map_again"
         \/ pc \in {"exit", "exit_again"} /\ pc' = "config" /\ memmap.key = map_key
         \/ pc = "config" /\ pc' = "kernel"
  BY DEF ExitBootServices, EnterKernel, Halt, Running
<1>2. pc' \in {"map", "kernel_file", "kernel_pages"} \cup WithKernel
  BY <1>1 DEF BootInv, BootTypes, WithKernel, WithVolume
<1>3. BootTypes' /\ MapIsCurrent'
  BY <1>1, <1>2 DEF BootInv, BootTypes, MapIsCurrent, loaderVars
<1>4. LoadedIsKept'
  BY <1>1, SameSegments DEF BootInv, LoadedIsKept, loaderVars, WithKernel, WithVolume
<1> QED
  BY <1>1, <1>3, <1>4, BeforeKernel, LoaderKeepsKernelPart DEF BootInv
-----------------------------------------------------------------------------
\* The calls of KernelMainNewStack, one by one.
LEMMA OrderIs ==
    /\ Len(KernelOrder) = 14
    /\ KernelOrder[1] = "graphics" /\ KernelOrder[2] = "console" /\ KernelOrder[3] = "segments"
    /\ KernelOrder[4] = "paging" /\ KernelOrder[5] = "memory" /\ KernelOrder[6] = "pic"
    /\ KernelOrder[7] = "tss" /\ KernelOrder[8] = "idt" /\ KernelOrder[9] = "fat"
    /\ KernelOrder[10] = "timer" /\ KernelOrder[11] = "syscall"
    /\ KernelOrder[12] = "task_manager" /\ KernelOrder[13] = "sti" /\ KernelOrder[14] = "terminal"
BY DEF KernelOrder

\* Where the steps are that allocate, and the one that turns interrupts on.
LEMMA StepsOfNote ==
    ASSUME NEW k \in 1..14
    PROVE  /\ KernelOrder[k] = "memory" <=> k = 5
           /\ KernelOrder[k] = "tss" <=> k = 7
           /\ KernelOrder[k] = "sti" <=> k = 13
BY OrderIs

\* What is done by a step is done by the later ones.
LEMMA DoneBefore ==
    ASSUME NEW n \in Nat, NEW k \in 1..n
    PROVE  KernelOrder[k] \in {KernelOrder[i] : i \in 1..n}
OBVIOUS

\* No call of KernelMainNewStack uses what a later one initialises.
LEMMA UsesEarlier ==
    ASSUME NEW k \in 1..14
    PROVE  Uses(KernelOrder[k]) \subseteq {KernelOrder[i] : i \in 1..(k - 1)}
<1> DEFINE done == {KernelOrder[i] : i \in 1..(k - 1)}
<1>1. \A i \in 1..(k - 1) : KernelOrder[i] \in done
  OBVIOUS
<1> HIDE DEF done
<1>2. CASE k \in {1, 3, 4, 6, 9, 11}
  BY <1>2, OrderIs DEF Uses
<1>3. CASE k = 2
  <2>1. KernelOrder[1] \in done
    BY <1>1, <1>3
  <2> QED
    BY <1>3, <2>1, OrderIs DEF Uses
<1>4. CASE k = 5
  <2>1. KernelOrder[2] \in done /\ KernelOrder[4] \in done
    BY <1>1, <1>4
  <2> QED
    BY <1>4, <2>1, OrderIs DEF Uses
<1>5. CASE k = 7
  <2>1. KernelOrder[5] \in done /\ KernelOrder[3] \in done
    BY <1>1, <1>5
  <2> QED
    BY <1>5, <2>1, OrderIs DEF Uses
<1>6. CASE k = 8
  <2>1. KernelOrder[7] \in done /\ KernelOrder[6] \in done
    BY <1>1, <1>6
  <2> QED
    BY <1>6, <2>1, OrderIs DEF Uses
<1>7. CASE k = 10
  <2>1. KernelOrder[5] \in done /\ KernelOrder[8] \in done
    BY <1>1, <1>7
  <2> QED
    BY <1>7, <2>1, OrderIs DEF Uses
<1>8. CASE k = 12
  <2>1. KernelOrder[5] \in done
    BY <1>1, <1>8
  <2> QED
    BY <1>8, <2>1, OrderIs DEF Uses
<1>9. CASE k = 13
  <2>1. KernelOrder[10] \in done
    BY <1>1, <1>9
  <2> QED
    BY <1>9, <2>1, OrderIs DEF Uses
<1>10. CASE k = 14
  <2>1. KernelOrder[5] \in done /\ KernelOrder[12] \in done
    BY <1>1, <1>10
  <2> QED
    BY <1>10, <2>1, OrderIs DEF Uses
<1>11. k \in {1, 3, 4, 6, 9, 11} \/ k \in {2, 5, 7, 8, 10, 12, 13, 14}
  OBVIOUS
<1> QED
  BY <1>2, <1>3, <1>4, <1>5, <1>6, <1>7, <1>8, <1>9, <1>10, <1>11 DEF done

\* The step of the kernel with its LET opened.
LEMMA KernelStepIs ==
    ASSUME BootInv, KernelStep
    PROVE  LET s == KernelOrder[step + 1]
               marked == IF s = "memory" THEN {f \in BootFrame : ~IsAvailable(memmap.types[f])}
                         ELSE unavailable
           IN  /\ outcome = "" /\ pc = "kernel" /\ step \in 0..13 /\ step' = step + 1
               /\ ready' = ready \cup {s} /\ unavailable' = marked
               /\ handed' = handed \cup TakenBy(s, marked)
               /\ UNCHANGED <<pc, loaderVars, entered_on>>
<1>1. step \in 0..14
  BY OrderIs DEF BootInv, HandedOut
<1>2. step < 14
  BY OrderIs DEF KernelStep
<1>3. step \in 0..13
  BY <1>1, <1>2
<1> QED
  BY <1>3 DEF KernelStep, Running

\* The memory manager marks what the current map calls unavailable, and hands out
\* nothing of that.
LEMMA KernelStepHands == ASSUME BootInv, KernelStep PROVE HandedOut'
<1> DEFINE bad == {f \in BootFrame : ~IsAvailable(memmap.types[f])}
<1>0. /\ NumFrames \in Nat /\ kHeapFrames \in Nat /\ NumFrames # 0
      /\ \A f \in bad : f < NumFrames /\ f \in Nat
  BY BootAssumption DEF BootFrame, BootInv, BootTypes
<1>1. /\ pc' = "kernel" /\ memmap' = memmap /\ step \in 0..13 /\ step' = step + 1 /\ step' \in 0..14
  <2>1. pc' = "kernel" /\ memmap' = memmap /\ step \in 0..13 /\ step' = step + 1
    BY KernelStepIs DEF loaderVars
  <2>2. step + 1 \in 0..14
    BY <2>1
  <2> QED
    BY <2>1, <2>2
<1>2. handed \subseteq Nat /\ handed \cap unavailable = {}
  BY DEF BootInv, HandedOut
<1>3. CASE step = 4
  <2>1. unavailable' = bad /\ handed' = Block(bad, kHeapFrames)
    <3>1. KernelOrder[step + 1] = "memory" /\ handed = {}
      BY <1>3, OrderIs DEF BootInv, HandedOut
    <3> QED
      BY <3>1, KernelStepIs DEF TakenBy
  <2>2. /\ handed' \subseteq Nat /\ handed' \cap unavailable' = {}
        /\ \A f \in handed' : f < NumFrames + kHeapFrames
    <3> HIDE DEF bad
    <3>1. NumFrames \in Nat \ {0} /\ NumFrames <= NumFrames + kHeapFrames + kHeapFrames
      BY <1>0
    <3> QED
      BY <1>0, <2>1, <3>1, BlockIsFree
  <2>3. step' = 5
    BY <1>1, <1>3
  <2> QED
    BY <1>1, <2>1, <2>2, <2>3, OrderIs DEF HandedOut
<1>4. CASE step = 6
  <2> DEFINE busy == unavailable \cup handed
             rsp0 == Block(busy, 1)
             top == NumFrames + kHeapFrames
  <2>1. unavailable = bad /\ unavailable' = bad
        /\ handed' = handed \cup (rsp0 \cup Block(busy \cup rsp0, 1))
    <3>1. KernelOrder[step + 1] = "tss" /\ unavailable = bad
      BY <1>4, OrderIs DEF BootInv, HandedOut
    <3>2. TakenBy("tss", unavailable) = rsp0 \cup Block(busy \cup rsp0, 1)
      BY DEF TakenBy
    <3> QED
      BY <3>1, <3>2, KernelStepIs
  <2>2. \A f \in busy : f < top /\ f \in Nat
    <3>1. \A f \in handed : f < top /\ f \in Nat
      BY <1>4 DEF BootInv, HandedOut
    <3>2. \A f \in bad : f < top /\ f \in Nat
      BY <1>0
    <3> QED
      BY <2>1, <3>1, <3>2
  <2>3. top \in Nat \ {0} /\ top <= NumFrames + kHeapFrames + 1
    BY <1>0
  <2>4. rsp0 \subseteq Nat /\ rsp0 \cap busy = {} /\ \A f \in rsp0 : f < top + 1
    <3> HIDE DEF busy, top
    <3> QED
      BY <1>0, <2>2, <2>3, BlockIsFree
  <2>5. Block(busy \cup rsp0, 1) \subseteq Nat /\ Block(busy \cup rsp0, 1) \cap busy = {}
    <3>1. top + 1 \in Nat \ {0} /\ top + 1 <= NumFrames + kHeapFrames + 1
      BY <1>0
    <3>2. \A f \in busy \cup rsp0 : f < top + 1 /\ f \in Nat
      BY <2>2, <2>3, <2>4
    <3> DEFINE u == busy \cup rsp0
               v == top + 1
    <3>3. \A f \in u : f < v /\ f \in Nat
      BY <3>2
    <3> HIDE DEF u, v
    <3>4. Block(u, 1) \subseteq Nat /\ Block(u, 1) \cap u = {}
      BY <1>0, <3>1, <3>3, BlockIsFree DEF v
    <3> QED
      BY <3>4 DEF u
  <2>6. handed' \subseteq Nat /\ handed' \cap unavailable' = {}
    BY <1>2, <2>1, <2>4, <2>5
  <2>7. step' = 7
    BY <1>1, <1>4
  <2> QED
    <3>1. pc' = "kernel" /\ step' \in 0..14 /\ memmap' = memmap
      BY <1>1
    <3>2. unavailable' = {f \in BootFrame : ~IsAvailable(memmap'.types[f])}
      BY <2>1, <3>1
    <3>3. ~(step' < 5) /\ step' >= 5 /\ ~(step' < 7)
      BY ONLY <2>7
    <3> QED
      BY ONLY <2>6, <3>1, <3>2, <3>3, OrderIs DEF HandedOut
<1>5. CASE step # 4 /\ step # 6
  <2>1. KernelOrder[step + 1] # "memory" /\ KernelOrder[step + 1] # "tss"
    <3>1. step + 1 \in 1..14 /\ step + 1 # 5 /\ step + 1 # 7
      BY <1>1, <1>5
    <3> QED
      BY <3>1, StepsOfNote
  <2>2. handed' = handed /\ unavailable' = unavailable
    BY <2>1, KernelStepIs DEF TakenBy
  <2>3. step' < 5 => step < 5
    BY <1>1
  <2>4. step' >= 5 => step >= 5
    BY <1>1, <1>5
  <2>5. step' < 7 => step < 7
    BY <1>1
  <2> QED
    BY <1>1, <2>2, <2>3, <2>4, <2>5, OrderIs DEF BootInv, HandedOut
<1> QED
  BY <1>3, <1>4, <1>5

\* A call of KernelMainNewStack makes one more thing ready, in order.
LEMMA KernelStepReady == ASSUME BootInv, KernelStep PROVE ReadyInOrder'
<1>1. step \in 0..13 /\ step' = step + 1 /\ ready' = ready \cup {KernelOrder[step + 1]}
      /\ ready = {KernelOrder[i] : i \in 1..step}
  BY KernelStepIs DEF BootInv, ReadyInOrder
<1>2. ready' = {KernelOrder[i] : i \in 1..step'}
  <2>1. 1..step' = (1..step) \cup {step + 1}
    BY <1>1
  <2> QED
    BY <1>1, <2>1
<1>3. Uses(KernelOrder[step + 1]) \subseteq ready
  <2>1. step + 1 \in 1..14 /\ (step + 1) - 1 = step
    BY <1>1
  <2> QED
    BY <1>1, <2>1, UsesEarlier
<1>4. interrupts' => entered_on \/ step' >= 13
  <2>1. KernelOrder[step + 1] = "sti" => step' >= 13
    <3>1. step + 1 \in 1..14 /\ step' = step + 1
      BY <1>1
    <3> QED
      BY <3>1, StepsOfNote
  <2>2. step >= 13 => step' >= 13
    BY <1>1
  <2>3. interrupts' = (interrupts \/ KernelOrder[step + 1] = "sti")
    BY DEF KernelStep
  <2> QED
    BY <2>1, <2>2, <2>3, Zenon DEF BootInv, ReadyInOrder
<1>5. interrupts' \in BOOLEAN /\ entered_on' = entered_on /\ entered_on \in BOOLEAN
  BY Zenon DEF KernelStep, BootInv, ReadyInOrder
<1>6. outcome' = ""
  BY <1>3, Zenon DEF KernelStep
<1> QED
  BY <1>2, <1>4, <1>5, <1>6, Zenon DEF ReadyInOrder

\* A call of KernelMainNewStack keeps the invariant.
LEMMA KernelStepStep == ASSUME BootInv, KernelStep PROVE BootInv'
<1>1. UNCHANGED <<pc, loaderVars>>
  BY KernelStepIs
<1>2. BootTypes' /\ MapIsCurrent'
  BY <1>1 DEF BootInv, BootTypes, MapIsCurrent, loaderVars
<1>3. LoadedIsKept'
  BY <1>1, SameSegments DEF BootInv, LoadedIsKept, loaderVars
<1> QED
  BY <1>2, <1>3, KernelStepHands, KernelStepReady DEF BootInv

\* Once the kernel has turned interrupts on, every handler finds what it uses.
LEMMA InterruptStep ==
    ASSUME BootInv, NEW i \in {"timer", "key"}, Interrupt(i)
    PROVE  BootInv'
<1>1. /\ UNCHANGED <<pc, loaderVars, kernelVars>> /\ interrupts
      /\ ~(HandlerUses(i) \subseteq ready)
  BY Zenon DEF Interrupt
<1>2. ASSUME step >= 13 PROVE FALSE
  <2>1. step \in Nat /\ ready = {KernelOrder[j] : j \in 1..step}
    BY OrderIs DEF BootInv, HandedOut, ReadyInOrder
  <2>2. KernelOrder[8] \in ready /\ KernelOrder[10] \in ready /\ KernelOrder[12] \in ready
    <3>1. 8 \in 1..step /\ 10 \in 1..step /\ 12 \in 1..step
      BY <1>2, <2>1
    <3> QED
      BY <2>1, <3>1
  <2>3. {"idt", "timer", "task_manager"} \subseteq ready
    BY <2>2, OrderIs
  <2> QED
    BY <1>1, <2>3 DEF HandlerUses
<1>3. entered_on
  BY <1>1, <1>2, Zenon DEF BootInv, ReadyInOrder
<1>4. BootTypes' /\ MapIsCurrent'
  BY <1>1 DEF BootInv, BootTypes, MapIsCurrent, loaderVars
<1>5. LoadedIsKept'
  BY <1>1, SameSegments DEF BootInv, LoadedIsKept, loaderVars
<1>6. HandedOut'
  BY <1>1 DEF BootInv, HandedOut, loaderVars, kernelVars
<1>7. ReadyInOrder'
  BY <1>1, <1>3, Zenon DEF BootInv, ReadyInOrder, kernelVars
<1> QED
  BY <1>4, <1>5, <1>6, <1>7 DEF BootInv

\* Every step of the loader and the kernel's initialisation keeps the invariant.
LEMMA BootNextInv == BootInv /\ [BootNext]_bootVars => BootInv'
<1> SUFFICES ASSUME BootInv, [BootNext]_bootVars PROVE BootInv'
  OBVIOUS
<1>1. ASSUME NEW f \in Conventional, FirmwareAllocates(f) PROVE BootInv'
  BY <1>1, FirmwareStep
<1>2. CASE GetMemoryMap \/ GetMemoryMapAgain
  BY <1>2, GetMemoryMapStep
<1>3. CASE ReadKernelFile \/ ReadVolume
  BY <1>3, ReadFileStep
<1>4. CASE LoadKernel
  BY <1>4, LoadKernelStep
<1>5. CASE ExitBootServices \/ EnterKernel
  BY <1>5, LeaveLoaderStep
<1>6. CASE KernelStep
  BY <1>6, KernelStepStep
<1>7. ASSUME NEW i \in {"timer", "key"}, Interrupt(i) PROVE BootInv'
  BY <1>7, InterruptStep
<1>8. CASE UNCHANGED bootVars
  <2>1. UNCHANGED <<pc, loaderVars, kernelVars, outcome>>
    BY <1>8 DEF bootVars
  <2>2. BootTypes' /\ MapIsCurrent'
    BY <2>1 DEF BootInv, BootTypes, MapIsCurrent, loaderVars
  <2>3. LoadedIsKept'
    BY <2>1, SameSegments DEF BootInv, LoadedIsKept, loaderVars
  <2>4. HandedOut'
    BY <2>1 DEF BootInv, HandedOut, loaderVars, kernelVars
  <2>5. ReadyInOrder'
    BY <2>1, Zenon DEF BootInv, ReadyInOrder, kernelVars
  <2> QED
    BY <2>2, <2>3, <2>4, <2>5 DEF BootInv
<1> QED
  BY <1>1, <1>2, <1>3, <1>4, <1>5, <1>6, <1>7, <1>8 DEF BootNext

\* The invariant of the loader and the kernel's initialisation.
LEMMA AlwaysBootInv == BootSpec => []BootInv
<1> QED
  BY BootInitInv, BootNextInv, PTL DEF BootSpec

\* However stale the first memory map of UefiMain was and whatever the firmware
\* allocated meanwhile, the heap and the stacks that the kernel allocates at boot lie
\* in memory that was free when boot services ended, and spare the kernel and the
\* volume image, for every memory, kernel image and heap size.
THEOREM LoaderDataIsKept == BootSpec => []LoaderDataKept
<1>1. BootInv => LoaderDataKept
  <2> SUFFICES ASSUME BootInv, pc = "kernel" PROVE
               /\ \A f \in handed \cap BootFrame : types[f] \in {"BootServicesData", "ConventionalMemory"}
               /\ handed \cap (KernelFrames \cup {volume_image, stack}) \subseteq {stack}
    BY DEF LoaderDataKept
  <2>1. memmap.types = types
    BY DEF BootInv, MapIsCurrent
  <2>2. ASSUME NEW f \in handed, f \in BootFrame
        PROVE  types[f] \in {"BootServicesData", "ConventionalMemory"}
    <3>1. step >= 5
      <4>1. step < 5 => FALSE
        BY DEF BootInv, HandedOut
      <4>2. step \in Nat
        BY OrderIs DEF BootInv, HandedOut
      <4> QED
        BY ONLY <4>1, <4>2
    <3>2. f \notin unavailable /\ unavailable = {g \in BootFrame : ~IsAvailable(types[g])}
      BY <2>1, <3>1 DEF BootInv, HandedOut
    <3>3. IsAvailable(types[f])
      BY <2>2, <3>2
    <3>4. types[f] \in FrameType
      BY <2>2 DEF BootInv, BootTypes
    <3> QED
      BY <3>3, <3>4 DEF IsAvailable, FrameType
  <2>3. \A f \in KernelFrames : f \in BootFrame /\ types[f] = "LoaderData"
    <3>1. pc \in WithKernel
      BY DEF WithKernel, WithVolume
    <3>2. /\ FirstAddr % kUefiPageBytes = 0 /\ segs \in KernelImages
          /\ \A f \in KernelPages : f \in BootFrame /\ types[f] = "LoaderData"
      BY <3>1 DEF BootInv, BootTypes, LoadedIsKept
    <3> QED
      BY <3>2, PagesHoldKernel
  <2>4. volume_image \in BootFrame /\ types[volume_image] = "LoaderData"
    <3>1. pc \in WithVolume
      BY DEF WithVolume
    <3> QED
      BY <3>1 DEF BootInv, LoadedIsKept
  <2> QED
    BY <2>2, <2>3, <2>4
<1> QED
  BY <1>1, AlwaysBootInv, PTL

\* No call of KernelMainNewStack and no interrupt handler meets something that is
\* not initialised yet, unless the firmware left interrupts on.
THEOREM NothingUsedEarly == BootSpec => []NoEarlyUse
<1>1. BootInv => NoEarlyUse
  BY Zenon DEF BootInv, ReadyInOrder, NoEarlyUse
<1> QED
  BY <1>1, AlwaysBootInv, PTL

-----------------------------------------------------------------------------
(* Exec: recursive definitions. *)

\* A function that is defined step by step from its first value.
Stepwise(n, S, a, G, f) ==
    /\ f \in [0..n -> S]
    /\ f[0] = a
    /\ \A k \in 1..n : f[k] = G[k][f[k - 1]]

\* There is one for every first value and every step: a recursive definition over an
\* initial segment of the naturals has a value.
LEMMA StepwiseExists ==
    ASSUME NEW n \in Nat, NEW S, NEW a \in S, NEW G \in [1..n -> [S -> S]]
    PROVE  \E f : Stepwise(n, S, a, G, f)
<1> DEFINE Good(m) == \E f \in [0..m -> S] : f[0] = a /\ \A k \in 1..m : f[k] = G[k][f[k - 1]]
           Bad == {m \in 0..n : ~Good(m)}
<1>1. Good(0)
  <2>1. [k \in 0..0 |-> a] \in [0..0 -> S]
    OBVIOUS
  <2>2. [k \in 0..0 |-> a][0] = a /\ 1..0 = {}
    OBVIOUS
  <2> QED
    BY <2>1, <2>2
<1>2. ASSUME NEW m \in 1..n, Good(m - 1) PROVE Good(m)
  <2>1. PICK f \in [0..(m - 1) -> S] : f[0] = a /\ \A k \in 1..(m - 1) : f[k] = G[k][f[k - 1]]
    BY <1>2
  <2> DEFINE g == [k \in 0..m |-> IF k = m THEN G[m][f[m - 1]] ELSE f[k]]
  <2>2. f[m - 1] \in S /\ G[m][f[m - 1]] \in S
    BY <2>1
  <2>3. g \in [0..m -> S]
    BY <2>1, <2>2
  <2>4. g[0] = a
    BY <2>1
  <2>5. ASSUME NEW k \in 1..m PROVE g[k] = G[k][g[k - 1]]
    <3>1. CASE k = m
      <4>1. g[m] = G[m][f[m - 1]] /\ g[m - 1] = f[m - 1]
        OBVIOUS
      <4> QED
        BY <3>1, <4>1
    <3>2. CASE k # m
      <4>1. k \in 1..(m - 1) /\ g[k] = f[k] /\ g[k - 1] = f[k - 1]
        BY <3>2
      <4> QED
        BY <2>1, <4>1
    <3> QED
      BY <3>1, <3>2
  <2> QED
    BY <2>3, <2>4, <2>5
<1>3. Bad = {}
  <2>1. SUFFICES ASSUME Bad # {} PROVE FALSE
    OBVIOUS
  <2>2. Bad \subseteq Nat
    OBVIOUS
  <2>3. PICK m \in Bad : \A l \in Bad : m <= l
    <3> HIDE DEF Bad
    <3> QED
      BY <2>1, <2>2, LeastNat
  <2>4. m \in 0..n /\ ~Good(m)
    BY <2>3
  <2>5. m # 0
    <3> HIDE DEF Good
    <3> QED
      BY <1>1, <2>4
  <2>6. m - 1 \in 0..n /\ m \in 1..n /\ m - 1 < m
    BY <2>4, <2>5
  <2>7. Good(m - 1)
    <3> HIDE DEF Good
    <3> QED
      BY <2>3, <2>6
  <2> HIDE DEF Good, Bad
  <2> QED
    BY <1>2, <2>4, <2>6, <2>7
<1>4. n \in 0..n
  OBVIOUS
<1>5. Good(n)
  <2> HIDE DEF Good
  <2> QED
    BY <1>3, <1>4
<1> QED
  BY <1>5 DEF Stepwise

-----------------------------------------------------------------------------
(* Addresses. *)

\* A map covers kEntries times what its entries cover.
LEMMA SpanIs ==
    /\ DOMAIN Span = 0..kLevels
    /\ Span[0] = 1
    /\ \A l \in 1..kLevels : Span[l] = kEntries * Span[l - 1]
    /\ \A l \in 0..kLevels : Span[l] \in Nat \ {0}
<1> DEFINE S == Nat \ {0}
           G == [k \in 1..kLevels |-> [x \in S |-> kEntries * x]]
<1>1. kLevels \in Nat /\ kEntries \in Nat /\ kEntries > 1
  BY ShapeAssumption
<1>2. \A x \in S : kEntries * x \in S
  BY <1>1
<1>3. G \in [1..kLevels -> [S -> S]]
  BY <1>2
<1>4. PICK f : Stepwise(kLevels, S, 1, G, f)
  <2>1. 1 \in S
    OBVIOUS
  <2> HIDE DEF G, S
  <2> QED
    BY <1>1, <1>3, <2>1, StepwiseExists
<1>5. /\ f \in [0..kLevels -> S] /\ f[0] = 1
      /\ \A k \in 1..kLevels : f[k] = kEntries * f[k - 1]
  <2>1. f \in [0..kLevels -> S] /\ f[0] = 1 /\ \A k \in 1..kLevels : f[k] = G[k][f[k - 1]]
    BY <1>4 DEF Stepwise
  <2>2. ASSUME NEW k \in 1..kLevels PROVE f[k] = kEntries * f[k - 1]
    <3>1. f[k - 1] \in S
      BY <1>1, <2>1
    <3> QED
      BY <2>1, <3>1
  <2> QED
    BY <2>1, <2>2
<1>6. f = [l \in 0..kLevels |-> IF l = 0 THEN 1 ELSE kEntries * f[l - 1]]
  BY <1>1, <1>5
<1>7. Span = CHOOSE g : g = [l \in 0..kLevels |-> IF l = 0 THEN 1 ELSE kEntries * g[l - 1]]
  BY DEF Span
<1>8. Span = [l \in 0..kLevels |-> IF l = 0 THEN 1 ELSE kEntries * Span[l - 1]]
  BY <1>6, <1>7
<1>9. DOMAIN Span = 0..kLevels /\ Span[0] = 1 /\ \A l \in 1..kLevels : Span[l] = kEntries * Span[l - 1]
  BY ONLY <1>1, <1>8
<1>10. ASSUME NEW l \in 0..kLevels PROVE Span[l] \in Nat \ {0}
  <2> DEFINE Bad == {m \in 0..kLevels : Span[m] \notin Nat \ {0}}
  <2>1. SUFFICES ASSUME Bad # {} PROVE FALSE
    OBVIOUS
  <2>2. Bad \subseteq Nat
    OBVIOUS
  <2>3. PICK m \in Bad : \A k \in Bad : m <= k
    <3> HIDE DEF Bad
    <3> QED
      BY <2>1, <2>2, LeastNat
  <2>4. m # 0
    BY <1>9
  <2>5. m \in 1..kLevels /\ m - 1 \in 0..kLevels /\ ~(m <= m - 1)
    BY <1>1, <2>4
  <2>6. Span[m - 1] \in Nat \ {0}
    BY <2>3, <2>5
  <2>7. Span[m] = kEntries * Span[m - 1]
    BY <1>9, <2>5
  <2>8. kEntries * Span[m - 1] \in Nat \ {0}
    BY <1>1, <2>6
  <2> QED
    BY <2>7, <2>8
<1> QED
  BY <1>9, <1>10

\* Dividing twice.
LEMMA DivDiv ==
    ASSUME NEW g \in Nat, NEW s \in Nat \ {0}, NEW e \in Nat \ {0}
    PROVE  g \div (e * s) = (g \div s) \div e
<1> DEFINE x == g \div s
           y == x \div e
<1>1. x \in Nat /\ x * s <= g /\ g < x * s + s
  OBVIOUS
<1>2. y \in Nat /\ y * e <= x /\ x < y * e + e
  BY <1>1
<1>3. x + 1 <= (y + 1) * e
  BY <1>1, <1>2
<1> HIDE DEF x, y
<1>4. \A a, b \in Nat : a <= b => a * s <= b * s
  OBVIOUS
<1>5. (y * e) * s <= x * s /\ (x + 1) * s <= ((y + 1) * e) * s
  BY ONLY <1>1, <1>2, <1>3, <1>4, e \in Nat \ {0}
<1>6. y * (e * s) <= g /\ g < (y + 1) * (e * s)
  <2>1. y * (e * s) = (y * e) * s /\ (y + 1) * (e * s) = ((y + 1) * e) * s /\ (x + 1) * s = x * s + s
    BY <1>1, <1>2
  <2>2. x * s \in Nat /\ y * (e * s) \in Nat /\ (y + 1) * (e * s) \in Nat
    BY <1>1, <1>2
  <2> QED
    BY <1>1, <1>5, <2>1, <2>2
<1>7. e * s \in Nat \ {0}
  OBVIOUS
<1>8. ASSUME NEW d \in Nat \ {0}, y * d <= g, g < (y + 1) * d PROVE g \div d = y
  BY <1>2, <1>8
<1> QED
  BY <1>6, <1>7, <1>8 DEF x, y

Upper == (Pages \div 2)..(Pages - 1)
TopOf(g) == g \div Span[kLevels - 1]

\* The entries on the way to a page are the digits of its number.
LEMMA PartIs ==
    ASSUME NEW g \in Nat, NEW l \in 0..(kLevels - 1)
    PROVE  /\ Part(g, l + 1) \in Index
           /\ Part(g, l + 1) = (g \div Span[l]) % kEntries
           /\ g \div Span[l] \in Nat /\ g \div Span[l + 1] \in Nat
           /\ g \div Span[l + 1] = (g \div Span[l]) \div kEntries
           /\ g \div Span[l] = (g \div Span[l + 1]) * kEntries + Part(g, l + 1)
<1>1. kLevels \in Nat /\ kEntries \in Nat \ {0}
  BY ShapeAssumption
<1>2. l \in 0..kLevels /\ l + 1 \in 1..kLevels /\ (l + 1) - 1 = l
  BY <1>1
<1>3. Span[l] \in Nat \ {0} /\ Span[l + 1] = kEntries * Span[l]
  BY <1>2, SpanIs
<1> DEFINE x == g \div Span[l]
<1>4. x \in Nat
  BY <1>3
<1>5. Part(g, l + 1) = x % kEntries
  BY <1>2 DEF Part
<1>6. g \div Span[l + 1] = x \div kEntries
  BY <1>1, <1>3, DivDiv
<1> HIDE DEF x
<1>7. x % kEntries \in 0..(kEntries - 1) /\ x \div kEntries \in Nat
      /\ x = (x \div kEntries) * kEntries + (x % kEntries)
  BY <1>1, <1>4
<1> QED
  BY <1>4, <1>5, <1>6, <1>7 DEF x, Index

\* The address space, and its upper half, are not empty.
LEMMA PagesIs ==
    /\ Pages \in Nat /\ Pages >= 4
    /\ Pages = kEntries * Span[kLevels - 1]
    /\ Span[kLevels - 1] \in Nat \ {0}
    /\ UpperHalf \in Nat /\ UpperHalf > 0
<1>1. kLevels \in Nat /\ kLevels - 1 \in 1..kLevels /\ kLevels \in 1..kLevels
      /\ kLevels - 1 \in 0..kLevels /\ kLevels - 2 \in 0..kLevels /\ (kLevels - 1) - 1 = kLevels - 2
  BY ShapeAssumption
<1>2. kEntries \in Nat /\ kEntries >= 2 /\ kPageBytes \in Nat \ {0}
  BY ShapeAssumption
<1>3. Pages = kEntries * Span[kLevels - 1] /\ Span[kLevels - 1] = kEntries * Span[kLevels - 2]
  BY <1>1, SpanIs DEF Pages
<1>4. Span[kLevels - 1] \in Nat \ {0} /\ Span[kLevels - 2] \in Nat \ {0}
  BY <1>1, SpanIs
<1>5. Span[kLevels - 1] >= 2
  BY <1>2, <1>3, <1>4
<1>6. Pages \in Nat /\ Pages >= 4
  BY <1>2, <1>3, <1>4, <1>5
<1>7. Pages \div 2 \in Nat \ {0}
  BY <1>6
<1>8. UpperHalf \in Nat /\ UpperHalf > 0
  BY <1>2, <1>7 DEF UpperHalf
<1> QED
  BY <1>3, <1>4, <1>6, <1>8

\* A page of the upper half hangs on an entry of the upper half of the root.
LEMMA UpperIs ==
    ASSUME NEW g \in Upper
    PROVE  /\ g \in Nat /\ g < Pages
           /\ g \div Span[kLevels] = 0
           /\ g \div Span[0] = g
           /\ Part(g, kLevels) = TopOf(g)
           /\ TopOf(g) \in Index /\ TopOf(g) >= kEntries \div 2
<1> DEFINE s == Span[kLevels - 1]
<1>1. Pages \in Nat /\ Pages >= 4 /\ Pages = kEntries * s /\ s \in Nat \ {0} /\ kEntries \in Nat /\ kEntries >= 2
  BY PagesIs, ShapeAssumption
<1>2. g \in Nat /\ g < Pages /\ g >= Pages \div 2
  BY <1>1 DEF Upper
<1>3. kLevels - 1 \in 0..(kLevels - 1) /\ (kLevels - 1) + 1 = kLevels
  BY ShapeAssumption
<1>4. Part(g, kLevels) = (g \div s) % kEntries /\ Part(g, kLevels) \in Index
  BY <1>2, <1>3, PartIs
<1>5. Span[kLevels] = Pages
  BY DEF Pages
<1> HIDE DEF s
<1>6. g \div s \in Nat /\ g \div s < kEntries
  BY <1>1, <1>2, DivBelow
<1>7. (g \div s) % kEntries = g \div s
  BY <1>1, <1>6
<1>8. g \div s >= kEntries \div 2
  <2> DEFINE e == kEntries \div 2
  <2>1. e \in Nat /\ 2 * e <= kEntries
    BY <1>1
  <2> HIDE DEF e
  <2>2. (2 * e) * s <= kEntries * s /\ (2 * e) * s = 2 * (e * s) /\ e * s \in Nat
    BY <1>1, <2>1
  <2>3. e * s <= Pages \div 2
    BY <1>1, <2>2
  <2>4. e * s <= g
    BY <1>1, <1>2, <2>2, <2>3
  <2>5. (e * s) \div s <= g \div s
    BY <1>1, <1>2, <2>2, <2>4, DivMonotone
  <2>6. (e * s) \div s = e
    BY <1>1, <2>1
  <2> QED
    BY <2>5, <2>6 DEF e
<1>9. g \div Pages = 0 /\ g \div 1 = g
  BY <1>1, <1>2
<1> QED
  BY <1>2, <1>4, <1>5, <1>7, <1>8, <1>9, SpanIs DEF TopOf, s

-----------------------------------------------------------------------------
(* Segments. *)

\* LoadELF accepts the program.
Loadable(p) == p.segs # <<>> /\ p.segs[1].vaddr >= UpperHalf

\* What is assumed of programs.
LEMMA ProgramIs ==
    ASSUME NEW p \in Program
    PROVE  /\ DOMAIN p.segs = 1..Len(p.segs) /\ Len(p.segs) \in Nat
           /\ Len(p.args) \in Nat \ {0}
           /\ \A i \in 1..Len(p.args) : p.args[i] \in Nat
           /\ \A i \in 1..Len(p.segs) : p.segs[i].vaddr \in Nat /\ p.segs[i].memsz \in Nat \ {0}
BY ProgramAssumption

\* The pages that a segment is given are among those its bytes lie in.
LEMMA SegmentIs ==
    ASSUME NEW v \in Nat, NEW m \in Nat \ {0}, v + m <= (Pages - 2) * kPageBytes, v >= UpperHalf
    PROVE  LET a == v \div kPageBytes
               b == (v + m - 1) \div kPageBytes
               n == NumPages(m)
           IN  /\ a \in Nat /\ b \in Nat /\ n \in Nat \ {0}
               /\ a >= Pages \div 2 /\ b < Pages - 2
               /\ a + n - 1 <= b
               /\ a + n <= b => v % kPageBytes # 0 /\ (b - a) * kPageBytes >= m
<1> DEFINE q == kPageBytes
           a == v \div q
           b == (v + m - 1) \div q
           n == NumPages(m)
<1>1. q \in Nat \ {0} /\ Pages \in Nat /\ Pages >= 4
  BY PagesIs, ShapeAssumption
<1>2. n = (m + q - 1) \div q
  BY DEF NumPages
<1>3. v >= (Pages \div 2) * q /\ v + m <= (Pages - 2) * q
  BY DEF UpperHalf
<1> HIDE DEF q
<1>4. m + q - 1 \in Int /\ v + m - 1 \in Int
  BY <1>1
<1>5. /\ n \in Int /\ n * q <= m + q - 1 /\ m + q - 1 < n * q + q
      /\ a \in Int /\ a * q <= v /\ v < a * q + q
      /\ b \in Int /\ b * q <= v + m - 1 /\ v + m - 1 < b * q + q
  BY <1>1, <1>2, <1>4, DivBounds
<1>6. a >= 0 /\ b >= 0 /\ n >= 1
  BY <1>1, <1>2
<1>7. a >= Pages \div 2
  <2> DEFINE h == Pages \div 2
  <2>1. h \in Nat
    BY <1>1
  <2> HIDE DEF h
  <2>2. (h * q) \div q = h /\ h * q \in Int
    BY <1>1, <2>1
  <2>3. (h * q) \div q <= v \div q
    BY <1>1, <1>3, <2>2, DivMonotone DEF h
  <2> QED
    BY <2>2, <2>3 DEF h
<1>8. b < Pages - 2
  BY <1>1, <1>3, <1>4, DivBelow
<1> HIDE DEF a, b, n
<1>9. a + n - 1 <= b
  <2>1. SUFFICES ASSUME b + 1 <= a + n - 1 PROVE FALSE
    BY <1>5
  <2>2. (b + 1) * q <= (a + n - 1) * q
    BY <1>1, <1>5, <2>1
  <2>3. (b + 1) * q = b * q + q /\ (a + n - 1) * q = a * q + n * q - q
    BY <1>1, <1>5
  <2>4. a * q \in Int /\ b * q \in Int /\ n * q \in Int
    BY <1>1, <1>5
  <2> QED
    BY <1>1, <1>5, <2>2, <2>3, <2>4
<1>10. ASSUME a + n <= b PROVE v % q # 0 /\ (b - a) * q >= m
  <2>1. (a + n) * q <= b * q
    BY <1>1, <1>5, <1>10
  <2>2. a * q \in Int /\ b * q \in Int /\ n * q \in Int
        /\ (a + n) * q = a * q + n * q /\ (b - a) * q = b * q - a * q
    BY <1>1, <1>5
  <2>3. (b - a) * q >= m
    BY <1>1, <1>5, <2>1, <2>2
  <2>4. v = a * q + (v % q)
    BY <1>1 DEF a
  <2>5. v % q # 0
    <3>1. SUFFICES ASSUME v = a * q PROVE FALSE
      BY <1>1, <2>2, <2>4
    <3> QED
      BY <1>1, <1>5, <2>1, <2>2, <3>1
  <2> QED
    BY <2>3, <2>5
<1> QED
  BY <1>5, <1>6, <1>7, <1>8, <1>9, <1>10 DEF a, b, n, q

\* The pages of a program that LoadELF accepts.
LEMMA LoadableIs ==
    ASSUME NEW p \in Program, Loadable(p), NEW i \in 1..Len(p.segs)
    PROVE  LET s == p.segs[i]
               a == s.vaddr \div kPageBytes
               b == (s.vaddr + s.memsz - 1) \div kPageBytes
               n == NumPages(s.memsz)
           IN  /\ Touched(s) = a..b
               /\ a \in Nat /\ b \in Nat /\ n \in Nat \ {0}
               /\ a >= Pages \div 2 /\ b < Pages - 2
               /\ a + n - 1 <= b
               /\ a + n <= b => s.vaddr % kPageBytes # 0 /\ (b - a) * kPageBytes >= s.memsz
<1> DEFINE s == p.segs[i]
<1>1. s.vaddr \in Nat /\ s.memsz \in Nat \ {0} /\ s.vaddr + s.memsz <= (Pages - 2) * kPageBytes
  BY ProgramAssumption
<1>2. s.vaddr >= UpperHalf
  BY ProgramAssumption DEF Loadable
<1>3. Touched(s) = (s.vaddr \div kPageBytes)..((s.vaddr + s.memsz - 1) \div kPageBytes)
  BY DEF Touched
<1> HIDE DEF s
<1> QED
  BY <1>1, <1>2, <1>3, SegmentIs DEF s

\* Induction over the levels, downwards and upwards.
LEMMA UpFrom ==
    ASSUME NEW n \in Nat, NEW T, 0 \in T, \A l \in 0..(n - 1) : l \in T => l + 1 \in T
    PROVE  0..n \subseteq T
<1> DEFINE Bad == {l \in 0..n : l \notin T}
<1>1. SUFFICES ASSUME Bad # {} PROVE FALSE
  OBVIOUS
<1>2. Bad \subseteq Nat
  OBVIOUS
<1>3. PICK m \in Bad : \A k \in Bad : m <= k
  <2> HIDE DEF Bad
  <2> QED
    BY <1>1, <1>2, LeastNat
<1>4. m \in 0..n /\ m \notin T /\ m # 0
  BY <1>3
<1>5. m - 1 \in 0..(n - 1) /\ m - 1 \in 0..n /\ ~(m <= m - 1) /\ (m - 1) + 1 = m
  BY <1>4
<1>6. m - 1 \in T
  BY <1>3, <1>5
<1> QED
  BY <1>4, <1>5, <1>6

\* What holds at n and of each number below one it holds of, holds down to 0.
LEMMA DownFrom ==
    ASSUME NEW n \in Nat, NEW T, n \in T, \A l \in 0..(n - 1) : l + 1 \in T => l \in T
    PROVE  0..n \subseteq T
<1> DEFINE U == {k \in 0..n : n - k \in T}
<1>1. 0 \in U
  OBVIOUS
<1>2. ASSUME NEW k \in 0..(n - 1), k \in U PROVE k + 1 \in U
  <2>1. (n - (k + 1)) \in 0..(n - 1) /\ (n - (k + 1)) + 1 = n - k /\ k + 1 \in 0..n
    BY <1>2
  <2> QED
    BY <1>2, <2>1
<1>3. 0..n \subseteq U
  <2> HIDE DEF U
  <2> QED
    BY <1>1, <1>2, UpFrom
<1>4. ASSUME NEW l \in 0..n PROVE l \in T
  <2>1. n - l \in 0..n /\ n - (n - l) = l
    OBVIOUS
  <2>2. n - l \in U
    BY <1>3, <2>1
  <2> QED
    BY <2>1, <2>2
<1> QED
  BY <1>4

\* A set of numbers has a least element.
LEMMA MinIs ==
    ASSUME NEW X, X \subseteq Nat, X # {}
    PROVE  Min(X) \in X /\ \A y \in X : Min(X) <= y
<1>1. \E x \in X : \A y \in X : x <= y
  BY LeastNat
<1> QED
  BY <1>1 DEF Min

\* A bounded set of numbers has a greatest element.
LEMMA MaxIs ==
    ASSUME NEW n \in Nat, NEW X, X \subseteq 0..n, X # {}
    PROVE  Max(X) \in X /\ \A y \in X : Max(X) >= y
<1> DEFINE Y == {k \in 0..n : n - k \in X}
<1>1. Y \subseteq Nat
  OBVIOUS
<1>2. Y # {}
  <2>1. PICK x \in X : TRUE
    OBVIOUS
  <2>2. n - x \in Y
    BY <2>1
  <2> QED
    BY <2>2
<1>3. PICK k \in Y : \A j \in Y : k <= j
  <2> HIDE DEF Y
  <2> QED
    BY <1>1, <1>2, LeastNat
<1>4. ASSUME NEW y \in X PROVE n - k >= y
  <2>1. y \in 0..n /\ n - y \in 0..n /\ n - (n - y) = y
    OBVIOUS
  <2>2. n - y \in Y
    BY <2>1
  <2>3. k <= n - y
    BY <1>3, <2>2
  <2> QED
    BY <1>3, <2>1, <2>3
<1>5. \E x \in X : \A y \in X : x >= y
  <2>1. n - k \in X
    BY <1>3
  <2> QED
    BY <1>4, <2>1
<1> QED
  BY <1>5 DEF Max

\* Two numbers with the same digits are the same.
LEMMA DigitsDiffer ==
    ASSUME NEW x \in Nat, NEW y \in Nat, NEW i \in Index, NEW j \in Index,
           x * kEntries + i = y * kEntries + j
    PROVE  x = y /\ i = j
<1>1. kEntries \in Nat \ {0} /\ i \in 0..(kEntries - 1) /\ j \in 0..(kEntries - 1)
  BY ShapeAssumption DEF Index
<1>2. ASSUME NEW e \in Nat \ {0}, NEW a \in 0..(e - 1) PROVE (x * e + a) \div e = x /\ (y * e + a) \div e = y
  OBVIOUS
<1>3. x = y
  BY <1>1, <1>2
<1>4. x * kEntries \in Nat
  BY <1>1
<1> QED
  BY <1>1, <1>3, <1>4

\* push_to_argv counts bytes.
LEMMA ArgEndIs ==
    ASSUME NEW p \in Program, NEW n \in 0..Len(p.args)
    PROVE  ArgEnd(p.args, n) \in Nat
<1> DEFINE args == p.args
           N == Len(args)
           G == [k \in 1..N |-> [x \in Nat |-> x + args[k] + 1]]
           g == CHOOSE f : f = [k \in 0..N |-> IF k = 0 THEN 0 ELSE f[k - 1] + args[k] + 1]
<1>1. N \in Nat /\ \A i \in 1..N : args[i] \in Nat
  BY ProgramIs
<1>2. ArgEnd(args, n) = g[n]
  BY DEF ArgEnd
<1> HIDE DEF args
<1>3. G \in [1..N -> [Nat -> Nat]]
  BY <1>1
<1>4. PICK h : Stepwise(N, Nat, 0, G, h)
  <2> HIDE DEF G, N
  <2> QED
    BY <1>1, <1>3, StepwiseExists
<1>5. h \in [0..N -> Nat] /\ h[0] = 0 /\ \A k \in 1..N : h[k] = G[k][h[k - 1]]
  BY <1>4 DEF Stepwise
<1>6. ASSUME NEW k \in 1..N PROVE h[k] = h[k - 1] + args[k] + 1
  <2>1. k - 1 \in 0..N
    BY <1>1
  <2>2. h[k - 1] \in Nat
    <3> HIDE DEF G, N
    <3> QED
      BY <1>5, <2>1
  <2> QED
    BY <1>5, <2>2
<1>7. h = [k \in 0..N |-> IF k = 0 THEN 0 ELSE h[k - 1] + args[k] + 1]
  BY <1>1, <1>5, <1>6
<1>8. g = [k \in 0..N |-> IF k = 0 THEN 0 ELSE g[k - 1] + args[k] + 1]
  BY <1>7
<1> HIDE DEF g
<1> DEFINE T == {k \in 0..N : g[k] \in Nat}
<1>9. 0 \in T
  BY <1>1, <1>8
<1>10. ASSUME NEW k \in 0..(N - 1), k \in T PROVE k + 1 \in T
  <2>1. k + 1 \in 1..N /\ k + 1 \in 0..N /\ (k + 1) - 1 = k /\ k + 1 # 0
    BY <1>1
  <2>2. g[k + 1] = g[k] + args[k + 1] + 1
    BY <1>8, <2>1
  <2> QED
    BY <1>1, <1>10, <2>1, <2>2
<1>11. 0..N \subseteq T
  <2> HIDE DEF T, N
  <2> QED
    BY <1>1, <1>9, <1>10, UpFrom
<1> QED
  BY <1>2, <1>11 DEF args

-----------------------------------------------------------------------------
(* Trees of page maps. *)

\* ExecuteFile has a page map of its own at these places.
BusyOps == {"load", "map", "mapped", "app", "syscall", "kill", "kill_hit", "clean", "drop", "reset", "free"}
RunTypes == [op : BusyOps \cup {"idle", "pml4"}, prog : Program, seg : Nat, page : Nat,
             left : Nat, map : Frame \cup {NotPresent}, ok : BOOLEAN]
ExecTypes ==
    /\ cur \in Task
    /\ cr3 \in Frame \cup {KernelPML4}
    /\ context \in [Task -> Frame \cup {KernelPML4, NotPresent}]
    /\ mem \in [Frame \cup {KernelPML4} -> [Index -> Frame \cup {NotPresent, IdentityMap}]]
    /\ data \in [Frame -> SUBSET Nat]
    /\ used \in SUBSET Frame
    /\ IsFiniteSet(used)
    /\ run \in [Task -> RunTypes]
    /\ files \in [Task -> Seq({"std", "file"})]
    /\ taken \in [Task -> SUBSET Frame]

\* Where an allocated frame is: the root of its tree, its level, its number among
\* all maps or pages of the level, the top-level entry it hangs on.  A frame that
\* no root leads to any more is in no tree.
Places == [own : Frame \cup {NotPresent}, lev : 0..kLevels, pre : Nat, top : Nat]

\* Frames that some root leads to, the frames of a tree, and its root.
InTrees(lab) == {f \in used : lab[f].own \in Frame}
TreeOf(lab, r) == {f \in used : lab[f].own = r}
IsRoot(lab, r, l) ==
    /\ r \in used /\ lab[r].own = r /\ lab[r].lev = l
    /\ l = kLevels => lab[r].pre = 0

KernelEntry(i) == IF i = 0 THEN IdentityMap ELSE NotPresent

\* A frame is placed in the tree of a root, below it; an entry leads to the frame whose
\* place it is; the lower half of a root is the kernel's; a frame that is not a root is
\* entered from its tree; no two frames of a tree have the same place.
OwnersAreRoots(lab) ==
    \A f \in InTrees(lab) :
        /\ lab[f].own \in used /\ lab[lab[f].own].own = lab[f].own
        /\ lab[f].lev <= lab[lab[f].own].lev
IsChild(lab, f, i, c) ==
    /\ c \in used /\ lab[c].own = lab[f].own /\ c # lab[f].own
    /\ lab[f].lev = lab[c].lev + 1
    /\ lab[c].pre = lab[f].pre * kEntries + i
    /\ lab[c].top = IF lab[f].lev = kLevels THEN i ELSE lab[f].top
ChildrenPlaced(lab) ==
    \A f \in InTrees(lab) : \A i \in Index :
        mem[f][i] \in Frame => IsChild(lab, f, i, mem[f][i])
EntriesGood(lab) ==
    \A f \in InTrees(lab) : \A i \in Index :
        IF lab[f].lev = kLevels /\ i < kEntries \div 2 THEN mem[f][i] = KernelEntry(i)
        ELSE mem[f][i] \in Frame \cup {NotPresent}
HaveParents(lab) ==
    \A f \in InTrees(lab) : lab[f].own # f =>
        \E p \in InTrees(lab) : \E i \in Index : lab[p].own = lab[f].own /\ mem[p][i] = f
PlacesDiffer(lab) ==
    \A f, g \in InTrees(lab) :
        lab[f].own = lab[g].own /\ lab[f].lev = lab[g].lev /\ lab[f].pre = lab[g].pre => f = g
Forest(lab) ==
    /\ lab \in [Frame -> Places]
    /\ OwnersAreRoots(lab)
    /\ ChildrenPlaced(lab)
    /\ EntriesGood(lab)
    /\ HaveParents(lab)
    /\ PlacesDiffer(lab)

\* Neither the kernel's map nor its identity map is a frame, and no frame is absent.
LEMMA EntriesDiffer ==
    /\ KernelPML4 \notin Frame /\ IdentityMap \notin Frame /\ NotPresent \notin Frame
    /\ KernelPML4 # IdentityMap /\ KernelPML4 # NotPresent /\ IdentityMap # NotPresent
<1>1. KernelPML4 \notin Frame /\ IdentityMap \notin Frame /\ NotPresent \notin Frame
  BY EntryAssumption
<1>2. ASSUME NEW a, NEW b PROVE Cardinality({a, b}) # 3
  <2>1. IsFiniteSet({a}) /\ Cardinality({a}) = 1
    BY FS_Singleton
  <2>2. {a, b} = {a} \cup {b}
    OBVIOUS
  <2>3. Cardinality({a} \cup {b}) = IF b \in {a} THEN Cardinality({a}) ELSE Cardinality({a}) + 1
    BY <2>1, FS_AddElement
  <2> QED
    BY <2>1, <2>2, <2>3
<1>3. Cardinality({KernelPML4, IdentityMap, NotPresent}) = 3
  BY EntryAssumption
<1>4. KernelPML4 # IdentityMap
  <2>1. KernelPML4 = IdentityMap => {KernelPML4, IdentityMap, NotPresent} = {KernelPML4, NotPresent}
    OBVIOUS
  <2> QED
    BY <1>2, <1>3, <2>1
<1>5. KernelPML4 # NotPresent
  <2>1. KernelPML4 = NotPresent => {KernelPML4, IdentityMap, NotPresent} = {IdentityMap, NotPresent}
    OBVIOUS
  <2> QED
    BY <1>2, <1>3, <2>1
<1>6. IdentityMap # NotPresent
  <2>1. IdentityMap = NotPresent => {KernelPML4, IdentityMap, NotPresent} = {KernelPML4, NotPresent}
    OBVIOUS
  <2> QED
    BY <1>2, <1>3, <2>1
<1> QED
  BY <1>1, <1>4, <1>5, <1>6

\* Allocate finds a frame that is not used.
LEMMA NewFrameIs ==
    ASSUME ExecTypes, CanAllocate, NEW t \in Task
    PROVE  NewFrame(t) \in Frame /\ NewFrame(t) \notin used
<1> DEFINE X == {n \in 1..kFrames : <<t, n>> \notin used}
<1>1. kFrames \in Nat
  BY ShapeAssumption
<1>2. X # {}
  <2>1. SUFFICES ASSUME X = {} PROVE FALSE
    OBVIOUS
  <2> DEFINE f == [n \in 1..kFrames |-> <<t, n>>]
  <2>2. \A n \in 1..kFrames : <<t, n>> \in used
    BY <2>1
  <2>3. f \in Injection(1..kFrames, used)
    BY <2>2 DEF Injection, IsInjective
  <2>4. IsFiniteSet(used) /\ Cardinality(used) \in Nat
    BY FS_CardinalityType DEF ExecTypes
  <2>5. Cardinality(1..kFrames) <= Cardinality(used)
    <3> HIDE DEF f
    <3> QED
      BY <2>3, <2>4, FS_Injection
  <2>6. Cardinality(1..kFrames) = IF 1 > kFrames THEN 0 ELSE kFrames - 1 + 1
    BY <1>1, FS_Interval
  <2> QED
    BY <1>1, <2>4, <2>5, <2>6 DEF CanAllocate
<1>3. X \subseteq Nat
  OBVIOUS
<1>4. Min(X) \in X
  <2> HIDE DEF X
  <2> QED
    BY <1>2, <1>3, MinIs
<1>5. NewFrame(t) = <<t, Min(X)>>
  BY DEF NewFrame
<1> QED
  BY <1>4, <1>5 DEF Frame

\* The way to a page satisfies the equation that defines it.
LEMMA WalkIs ==
    ASSUME ExecTypes, NEW r \in Frame, NEW g \in Nat
    PROVE  Walk(r, g) = [l \in 0..kLevels |->
               IF l = kLevels THEN r
               ELSE IF Walk(r, g)[l + 1] \in Frame THEN mem[Walk(r, g)[l + 1]][Part(g, l + 1)]
               ELSE NotPresent]
<1> DEFINE S == Frame \cup {NotPresent, IdentityMap}
           G == [k \in 1..kLevels |->
                   [x \in S |-> IF x \in Frame THEN mem[x][Part(g, kLevels - k + 1)] ELSE NotPresent]]
<1>1. kLevels \in Nat
  BY ShapeAssumption
<1>2. ASSUME NEW l \in 0..(kLevels - 1) PROVE Part(g, l + 1) \in Index
  BY PartIs
<1>3. ASSUME NEW k \in 1..kLevels, NEW x \in S
      PROVE  (IF x \in Frame THEN mem[x][Part(g, kLevels - k + 1)] ELSE NotPresent) \in S
  <2>1. kLevels - k \in 0..(kLevels - 1)
    BY <1>1
  <2>2. Part(g, kLevels - k + 1) \in Index
    BY <1>2, <2>1
  <2> QED
    BY <2>2 DEF ExecTypes
<1>4. G \in [1..kLevels -> [S -> S]]
  BY <1>3
<1>5. r \in S
  OBVIOUS
<1>6. PICK h : Stepwise(kLevels, S, r, G, h)
  <2> HIDE DEF G, S
  <2> QED
    BY <1>1, <1>4, <1>5, StepwiseExists
<1>7. h \in [0..kLevels -> S] /\ h[0] = r /\ \A k \in 1..kLevels : h[k] = G[k][h[k - 1]]
  BY <1>6 DEF Stepwise
<1> DEFINE f == [l \in 0..kLevels |-> h[kLevels - l]]
<1>8. ASSUME NEW l \in 0..(kLevels - 1)
      PROVE  f[l] = IF f[l + 1] \in Frame THEN mem[f[l + 1]][Part(g, l + 1)] ELSE NotPresent
  <2>1. kLevels - l \in 1..kLevels /\ (kLevels - l) - 1 = kLevels - (l + 1)
        /\ kLevels - (l + 1) \in 0..kLevels /\ kLevels - (kLevels - l) + 1 = l + 1 /\ l + 1 \in 0..kLevels
        /\ l \in 0..kLevels
    BY <1>1
  <2>2. f[l] = h[kLevels - l] /\ f[l + 1] = h[kLevels - (l + 1)] /\ h[kLevels - (l + 1)] \in S
    <3> HIDE DEF G, S
    <3> QED
      BY <1>7, <2>1
  <2>3. h[kLevels - l] = G[kLevels - l][h[kLevels - (l + 1)]]
    <3> HIDE DEF G, S
    <3> QED
      BY <1>7, <2>1
  <2>4. \A x \in S : G[kLevels - l][x] = IF x \in Frame THEN mem[x][Part(g, l + 1)] ELSE NotPresent
    BY <2>1
  <2> HIDE DEF G, S, f
  <2> QED
    BY <2>2, <2>3, <2>4
<1>9. f = [l \in 0..kLevels |->
               IF l = kLevels THEN r
               ELSE IF f[l + 1] \in Frame THEN mem[f[l + 1]][Part(g, l + 1)] ELSE NotPresent]
  <2>1. f[kLevels] = r /\ f = [l \in 0..kLevels |-> f[l]]
    BY <1>1, <1>7
  <2> HIDE DEF f
  <2>2. ASSUME NEW l \in 0..kLevels, l # kLevels PROVE l \in 0..(kLevels - 1)
    BY <1>1, <2>2
  <2>3. ASSUME NEW l \in 0..kLevels
        PROVE  f[l] = IF l = kLevels THEN r
                      ELSE IF f[l + 1] \in Frame THEN mem[f[l + 1]][Part(g, l + 1)] ELSE NotPresent
    BY <1>8, <2>1, <2>2
  <2> QED
    BY <2>1, <2>3
<1>10. Walk(r, g) = CHOOSE w : w = [l \in 0..kLevels |->
               IF l = kLevels THEN r
               ELSE IF w[l + 1] \in Frame THEN mem[w[l + 1]][Part(g, l + 1)] ELSE NotPresent]
  BY DEF Walk
<1> HIDE DEF f
<1> QED
  BY <1>9, <1>10

\* What lies on the way to a page is the page's, at each level.
LEMMA WalkPlaced ==
    ASSUME ExecTypes, NEW lab, Forest(lab), NEW r, IsRoot(lab, r, kLevels), NEW g \in Upper,
           NEW l \in 0..kLevels
    PROVE  LET f == Walk(r, g)[l]
           IN  /\ f \in used \cup {NotPresent}
               /\ f # NotPresent =>
                     /\ lab[f].own = r /\ lab[f].lev = l /\ lab[f].pre = g \div Span[l]
                     /\ l < kLevels => lab[f].top = TopOf(g)
<1> DEFINE W == Walk(r, g)
           Good(k) == /\ W[k] \in used \cup {NotPresent}
                      /\ W[k] # NotPresent =>
                           /\ lab[W[k]].own = r /\ lab[W[k]].lev = k /\ lab[W[k]].pre = g \div Span[k]
                           /\ k < kLevels => lab[W[k]].top = TopOf(g)
           T == {k \in 0..kLevels : Good(k)}
<1>1. kLevels \in Nat /\ used \subseteq Frame /\ r \in Frame /\ r \in used
  BY ShapeAssumption DEF ExecTypes, IsRoot
<1>2. g \in Nat /\ g \div Span[kLevels] = 0 /\ Part(g, kLevels) = TopOf(g) /\ TopOf(g) >= kEntries \div 2
  BY UpperIs
<1>3. W = [k \in 0..kLevels |-> IF k = kLevels THEN r
               ELSE IF W[k + 1] \in Frame THEN mem[W[k + 1]][Part(g, k + 1)] ELSE NotPresent]
  BY <1>1, <1>2, WalkIs
<1> HIDE DEF W
<1>4. kLevels \in T
  <2>1. W[kLevels] = r
    BY <1>1, <1>3
  <2> QED
    BY <1>1, <1>2, <2>1 DEF IsRoot
<1>5. ASSUME NEW k \in 0..(kLevels - 1), k + 1 \in T PROVE k \in T
  <2>1. k \in 0..kLevels /\ k # kLevels /\ k < kLevels
    BY <1>1
  <2>2. W[k] = IF W[k + 1] \in Frame THEN mem[W[k + 1]][Part(g, k + 1)] ELSE NotPresent
    BY <1>3, <2>1
  <2>3. CASE W[k + 1] \notin Frame
    BY <2>1, <2>2, <2>3
  <2>4. CASE W[k + 1] \in Frame
    <3> DEFINE f == W[k + 1]
               i == Part(g, k + 1)
    <3>1. f # NotPresent /\ f \in used /\ lab[f].own = r /\ lab[f].lev = k + 1
          /\ lab[f].pre = g \div Span[k + 1] /\ (k + 1 < kLevels => lab[f].top = TopOf(g))
      BY <1>1, <1>5, <2>4, EntriesDiffer
    <3>2. i \in Index /\ g \div Span[k] = (g \div Span[k + 1]) * kEntries + i
      BY <1>2, PartIs
    <3>3. f \in InTrees(lab)
      BY <1>1, <3>1 DEF InTrees
    <3>4. ~(lab[f].lev = kLevels /\ i < kEntries \div 2)
      <4>1. SUFFICES ASSUME k + 1 = kLevels PROVE ~(i < kEntries \div 2)
        BY <3>1
      <4>2. i = TopOf(g)
        BY <1>2, <4>1
      <4>3. i \in Nat /\ kEntries \div 2 \in Nat
        BY <3>2, ShapeAssumption DEF Index
      <4> QED
        BY <1>2, <4>2, <4>3
    <3>5. mem[f][i] \in Frame \cup {NotPresent}
      BY <3>2, <3>3, <3>4 DEF Forest, EntriesGood
    <3>6. CASE mem[f][i] = NotPresent
      BY <2>1, <2>2, <2>4, <3>6
    <3>7. CASE mem[f][i] # NotPresent
      <4> DEFINE c == mem[f][i]
      <4>1. c \in Frame
        BY <3>5, <3>7
      <4>2. IsChild(lab, f, i, c)
        BY <3>2, <3>3, <4>1 DEF Forest, ChildrenPlaced
      <4>3. c \in used /\ lab[c].own = r /\ lab[c].pre = g \div Span[k]
        BY <3>1, <3>2, <4>2 DEF IsChild
      <4>4. lab[c].lev = k
        <5>1. lab[c].lev \in Nat
          BY <4>1 DEF Forest, Places
        <5> QED
          BY <3>1, <4>2, <5>1 DEF IsChild
      <4>5. lab[c].top = TopOf(g)
        <5>1. CASE k + 1 = kLevels
          BY <1>2, <3>1, <4>2, <5>1 DEF IsChild
        <5>2. CASE k + 1 # kLevels
          BY <1>1, <3>1, <4>2, <5>2 DEF IsChild
        <5> QED
          BY <5>1, <5>2
      <4> HIDE DEF c
      <4>6. W[k] = c
        BY <2>2, <2>4 DEF c
      <4> QED
        BY <2>1, <4>3, <4>4, <4>5, <4>6
    <3> QED
      BY <3>6, <3>7
  <2> QED
    BY <2>3, <2>4
<1>6. 0..kLevels \subseteq T
  <2> HIDE DEF T
  <2> QED
    BY <1>1, <1>4, <1>5, DownFrom
<1> QED
  BY <1>6 DEF W

\* A page has its frame, and all the maps above it.
Have(lab, r, g) ==
    \A l \in 0..(kLevels - 1) : \E f \in used :
        lab[f].own = r /\ lab[f].lev = l /\ lab[f].pre = g \div Span[l] /\ lab[f].top = TopOf(g)

\* The parent of a frame is where its place says.
LEMMA ParentIs ==
    ASSUME ExecTypes, NEW lab, Forest(lab), NEW f \in InTrees(lab), lab[f].own # f,
           NEW p \in InTrees(lab), NEW i \in Index, lab[p].own = lab[f].own,
           NEW x \in Nat, lab[p].lev = lab[f].lev + 1, lab[p].pre = x,
           lab[f].pre = x * kEntries + i
    PROVE  mem[p][i] = f
<1>1. PICK q \in InTrees(lab), j \in Index : lab[q].own = lab[f].own /\ mem[q][j] = f
  BY DEF Forest, HaveParents
<1>2. f \in Frame /\ q \in Frame
  BY DEF InTrees, ExecTypes
<1>3. IsChild(lab, q, j, f)
  BY <1>1, <1>2 DEF Forest, ChildrenPlaced
<1>4. lab[q].lev = lab[f].lev + 1 /\ lab[f].pre = lab[q].pre * kEntries + j
  BY <1>3 DEF IsChild
<1>5. lab[q].pre \in Nat
  BY <1>2 DEF Forest, Places
<1>6. lab[q].pre = x /\ j = i
  BY <1>4, <1>5, DigitsDiffer
<1>7. q = p
  BY <1>1, <1>4, <1>6 DEF Forest, PlacesDiffer
<1> QED
  BY <1>1, <1>6, <1>7

\* A page that has a frame, and maps above it, is found.
LEMMA WalkFinds ==
    ASSUME ExecTypes, NEW lab, Forest(lab), NEW r, IsRoot(lab, r, kLevels), NEW g \in Upper,
           Have(lab, r, g), NEW l \in 0..kLevels
    PROVE  Walk(r, g)[l] \in used
<1> DEFINE W == Walk(r, g)
           T == {k \in 0..kLevels : W[k] \in used}
<1>1. kLevels \in Nat /\ used \subseteq Frame /\ r \in Frame /\ r \in used
  BY ShapeAssumption DEF ExecTypes, IsRoot
<1>2. g \in Nat
  BY UpperIs
<1>3. W = [k \in 0..kLevels |-> IF k = kLevels THEN r
               ELSE IF W[k + 1] \in Frame THEN mem[W[k + 1]][Part(g, k + 1)] ELSE NotPresent]
  BY <1>1, <1>2, WalkIs
<1>4. kLevels \in T
  BY <1>1, <1>3
<1>5. ASSUME NEW k \in 0..(kLevels - 1), k + 1 \in T PROVE k \in T
  <2>1. k \in 0..kLevels /\ k # kLevels /\ k + 1 \in 0..kLevels
    BY <1>1
  <2>2. W[k] = mem[W[k + 1]][Part(g, k + 1)] /\ W[k + 1] \in Frame /\ W[k + 1] \in used
    BY <1>1, <1>3, <1>5, <2>1
  <2> DEFINE p == W[k + 1]
             i == Part(g, k + 1)
  <2>3. p # NotPresent
    BY <2>2, EntriesDiffer
  <2>4. lab[p].own = r /\ lab[p].lev = k + 1 /\ lab[p].pre = g \div Span[k + 1]
    BY <2>1, <2>3, WalkPlaced
  <2>5. PICK f \in used : lab[f].own = r /\ lab[f].lev = k /\ lab[f].pre = g \div Span[k]
    BY DEF Have
  <2>6. lab[f].own # f
    BY <1>1, <2>5, <2>1 DEF IsRoot
  <2>7. f \in InTrees(lab) /\ p \in InTrees(lab)
    BY <1>1, <2>2, <2>4, <2>5 DEF InTrees
  <2>8. i \in Index /\ g \div Span[k + 1] \in Nat /\ g \div Span[k] = (g \div Span[k + 1]) * kEntries + i
    BY <1>2, PartIs
  <2> HIDE DEF W, p, i
  <2>9. mem[p][i] = f
    BY <2>4, <2>5, <2>6, <2>7, <2>8, ParentIs
  <2> QED
    BY <2>1, <2>2, <2>5, <2>9 DEF p, i
<1>6. 0..kLevels \subseteq T
  <2> HIDE DEF T
  <2> QED
    BY <1>1, <1>4, <1>5, DownFrom
<1> QED
  BY <1>6

\* The frames in the entries of a set of maps, and in the upper half of a root.
Entered(X) == (UNION {{mem[m][i] : i \in Index} : m \in X}) \ {NotPresent}
UpperEntries(r) == {mem[r][i] : i \in {j \in Index : j >= kEntries \div 2}} \ {NotPresent}

\* The levels of a page map are the sets that satisfy the equation of Level.
LEMMA LevelIs ==
    ASSUME NEW r, NEW F, DOMAIN F = 0..(kLevels - 1), F[kLevels - 1] = UpperEntries(r),
           F = [l \in 0..(kLevels - 1) |-> F[l]],
           \A l \in 0..(kLevels - 2) : F[l] = Entered(F[l + 1])
    PROVE  Level(r) = F
<1> DEFINE Body(X, l) == (IF l = kLevels - 1
                          THEN {mem[r][i] : i \in {j \in Index : j >= kEntries \div 2}}
                          ELSE UNION {{mem[m][i] : i \in Index} : m \in X}) \ {NotPresent}
<1>1. kLevels \in Nat /\ kLevels - 1 \in Nat /\ kLevels - 1 \in 0..(kLevels - 1)
  BY ShapeAssumption
<1>2. ASSUME NEW X, NEW l PROVE Body(X, l) = IF l = kLevels - 1 THEN UpperEntries(r) ELSE Entered(X)
  BY DEF UpperEntries, Entered
<1>3. Level(r) = CHOOSE f : f = [l \in 0..(kLevels - 1) |-> Body(f[l + 1], l)]
  BY DEF Level
<1> HIDE DEF Body
<1>4. ASSUME NEW l \in 0..(kLevels - 1) PROVE F[l] = Body(F[l + 1], l)
  <2>1. CASE l = kLevels - 1
    BY <1>2, <2>1
  <2>2. CASE l # kLevels - 1
    <3>1. l \in 0..(kLevels - 2)
      BY <1>1, <2>2
    <3> QED
      BY <1>2, <2>2, <3>1
  <2> QED
    BY <2>1, <2>2
<1>5. F = [l \in 0..(kLevels - 1) |-> Body(F[l + 1], l)]
  BY <1>4
<1> DEFINE L == Level(r)
<1>6. L = [l \in 0..(kLevels - 1) |-> Body(L[l + 1], l)]
  BY <1>3, <1>5
<1> HIDE DEF L
<1> DEFINE T == {l \in 0..(kLevels - 1) : L[l] = F[l]}
<1>7. kLevels - 1 \in T
  <2>1. L[kLevels - 1] = Body(L[kLevels - 1 + 1], kLevels - 1)
    BY <1>1, <1>6
  <2> QED
    BY <1>1, <1>2, <2>1
<1>8. ASSUME NEW l \in 0..((kLevels - 1) - 1), l + 1 \in T PROVE l \in T
  <2>1. l \in 0..(kLevels - 1)
    BY <1>1
  <2>2. L[l] = Body(L[l + 1], l) /\ L[l + 1] = F[l + 1]
    BY <1>6, <1>8, <2>1
  <2> QED
    BY <1>4, <2>1, <2>2
<1>9. 0..(kLevels - 1) \subseteq T
  <2> HIDE DEF T
  <2> QED
    BY <1>1, <1>7, <1>8, DownFrom
<1>10. \A l \in 0..(kLevels - 1) : L[l] = F[l]
  BY <1>9
<1>11. L = [l \in 0..(kLevels - 1) |-> L[l]]
  BY <1>6
<1> QED
  BY <1>10, <1>11 DEF L

\* A frame of a tree that is not its root is below the root's level.
LEMMA BelowRoot ==
    ASSUME ExecTypes, NEW lab, Forest(lab), NEW f \in InTrees(lab), lab[f].own # f
    PROVE  \E p \in InTrees(lab) : \E i \in Index :
               mem[p][i] = f /\ IsChild(lab, p, i, f) /\ lab[p].own = lab[f].own /\ lab[f].lev < kLevels
<1>1. PICK p \in InTrees(lab), i \in Index : lab[p].own = lab[f].own /\ mem[p][i] = f
  BY DEF Forest, HaveParents
<1>2. f \in Frame /\ p \in Frame
  BY DEF InTrees, ExecTypes
<1>3. IsChild(lab, p, i, f)
  BY <1>1, <1>2 DEF Forest, ChildrenPlaced
<1>4. lab[p].lev \in 0..kLevels /\ lab[f].lev \in 0..kLevels /\ kLevels \in Nat
  BY <1>2, ShapeAssumption DEF Forest, Places
<1>5. lab[f].lev < kLevels
  BY <1>3, <1>4 DEF IsChild
<1> QED
  BY <1>1, <1>3, <1>5

\* What a root reaches is its tree.
LEMMA ReachIs ==
    ASSUME ExecTypes, NEW lab, Forest(lab), NEW r, IsRoot(lab, r, kLevels)
    PROVE  /\ Reach(r) = TreeOf(lab, r) \ {r}
           /\ r \in TreeOf(lab, r)
<1> DEFINE At(l) == {f \in used : lab[f].own = r /\ lab[f].lev = l}
           F == [l \in 0..(kLevels - 1) |-> At(l)]
<1>1. kLevels \in Nat /\ kLevels - 1 \in 0..(kLevels - 1) /\ used \subseteq Frame /\ r \in Frame /\ r \in used
      /\ lab[r].own = r /\ lab[r].lev = kLevels
  BY ShapeAssumption DEF ExecTypes, IsRoot
<1>2. \A f \in used : lab[f].lev \in 0..kLevels
  BY <1>1 DEF Forest, Places
<1>3. ASSUME NEW f \in used, lab[f].own = r, f # r
      PROVE  lab[f].lev \in 0..(kLevels - 1)
             /\ \E p \in used : \E i \in Index :
                    mem[p][i] = f /\ lab[p].own = r /\ IsChild(lab, p, i, f)
  <2>1. f \in InTrees(lab)
    BY <1>1, <1>3 DEF InTrees
  <2>2. PICK p \in InTrees(lab), i \in Index :
            mem[p][i] = f /\ IsChild(lab, p, i, f) /\ lab[p].own = lab[f].own /\ lab[f].lev < kLevels
    BY <1>3, <2>1, BelowRoot
  <2>3. p \in used
    BY DEF InTrees
  <2> QED
    BY <1>1, <1>2, <1>3, <2>2, <2>3
<1>4. ASSUME NEW l \in 0..(kLevels - 2) PROVE At(l) = Entered(At(l + 1))
  <2>1. ASSUME NEW f \in At(l) PROVE f \in Entered(At(l + 1))
    <3>1. f # r /\ f \in used /\ lab[f].own = r /\ lab[f].lev = l /\ f \in Frame
      BY <1>1
    <3>2. PICK p \in used, i \in Index : mem[p][i] = f /\ lab[p].own = r /\ IsChild(lab, p, i, f)
      BY <1>3, <3>1
    <3>3. p \in At(l + 1)
      BY <3>1, <3>2 DEF IsChild
    <3>4. f # NotPresent
      BY <3>1, EntriesDiffer
    <3> QED
      BY <3>2, <3>3, <3>4 DEF Entered
  <2>2. ASSUME NEW f \in Entered(At(l + 1)) PROVE f \in At(l)
    <3>1. PICK m \in At(l + 1), i \in Index : f = mem[m][i] /\ f # NotPresent
      BY <2>2 DEF Entered
    <3>2. m \in used /\ lab[m].own = r /\ lab[m].lev = l + 1 /\ lab[m].lev # kLevels /\ m \in InTrees(lab)
      BY <1>1 DEF InTrees
    <3>3. f \in Frame
      BY <3>1, <3>2 DEF Forest, EntriesGood
    <3>4. IsChild(lab, m, i, f)
      BY <3>1, <3>2, <3>3 DEF Forest, ChildrenPlaced
    <3>5. lab[f].lev \in Int /\ f \in used
      BY <1>2, <3>4 DEF IsChild
    <3> QED
      BY <3>2, <3>4, <3>5 DEF IsChild
  <2> QED
    BY <2>1, <2>2
<1>5. At(kLevels - 1) = UpperEntries(r)
  <2>1. ASSUME NEW f \in At(kLevels - 1) PROVE f \in UpperEntries(r)
    <3>1. f # r /\ f \in used /\ lab[f].own = r /\ lab[f].lev = kLevels - 1 /\ f \in Frame
      BY <1>1
    <3>2. PICK p \in used, i \in Index : mem[p][i] = f /\ lab[p].own = r /\ IsChild(lab, p, i, f)
      BY <1>3, <3>1
    <3>3. lab[p].lev = kLevels
      BY <1>1, <3>1, <3>2 DEF IsChild
    <3>4. p = r
      BY <1>1, <1>3, <3>2, <3>3
    <3>5. f # NotPresent /\ f # IdentityMap
      BY <3>1, EntriesDiffer
    <3>6. r \in InTrees(lab)
      BY <1>1 DEF InTrees
    <3>7. ~(i < kEntries \div 2)
      BY <1>1, <3>2, <3>4, <3>5, <3>6 DEF Forest, EntriesGood, KernelEntry
    <3>8. i >= kEntries \div 2
      BY <3>7, ShapeAssumption DEF Index
    <3> QED
      BY <3>2, <3>4, <3>5, <3>8 DEF UpperEntries
  <2>2. ASSUME NEW f \in UpperEntries(r) PROVE f \in At(kLevels - 1)
    <3>1. PICK i \in Index : i >= kEntries \div 2 /\ f = mem[r][i] /\ f # NotPresent
      BY <2>2 DEF UpperEntries
    <3>2. r \in InTrees(lab)
      BY <1>1 DEF InTrees
    <3>3. ~(i < kEntries \div 2)
      BY <3>1, ShapeAssumption DEF Index
    <3>4. f \in Frame
      BY <3>1, <3>2, <3>3 DEF Forest, EntriesGood
    <3>5. IsChild(lab, r, i, f)
      BY <3>1, <3>2, <3>4 DEF Forest, ChildrenPlaced
    <3>6. lab[f].lev \in Int /\ f \in used
      BY <1>2, <3>5 DEF IsChild
    <3> QED
      BY <1>1, <3>5, <3>6 DEF IsChild
  <2> QED
    BY <2>1, <2>2
<1>6. Level(r) = F
  <2>1. DOMAIN F = 0..(kLevels - 1) /\ F[kLevels - 1] = UpperEntries(r) /\ F = [l \in 0..(kLevels - 1) |-> F[l]]
    BY <1>1, <1>5
  <2>2. ASSUME NEW l \in 0..(kLevels - 2) PROVE F[l] = Entered(F[l + 1])
    <3>1. l \in 0..(kLevels - 1) /\ l + 1 \in 0..(kLevels - 1)
      BY <1>1
    <3>2. F[l] = At(l) /\ F[l + 1] = At(l + 1)
      BY <3>1
    <3> HIDE DEF F, At
    <3> QED
      BY <1>4, <3>2
  <2> HIDE DEF F
  <2> QED
    BY <2>1, <2>2, LevelIs
<1>7. Reach(r) = UNION {At(l) : l \in 0..(kLevels - 1)}
  BY <1>6 DEF Reach
<1>8. ASSUME NEW f \in TreeOf(lab, r) \ {r} PROVE f \in Reach(r)
  <2>1. f \in used /\ lab[f].own = r
    BY DEF TreeOf
  <2>2. lab[f].lev \in 0..(kLevels - 1)
    BY <1>3, <2>1
  <2> QED
    BY <1>7, <2>1, <2>2
<1>9. ASSUME NEW f \in Reach(r) PROVE f \in TreeOf(lab, r) \ {r}
  <2>1. PICK l \in 0..(kLevels - 1) : f \in At(l)
    BY <1>7
  <2>2. f # r
    BY <1>1, <2>1
  <2> QED
    BY <2>1, <2>2 DEF TreeOf
<1> QED
  BY <1>1, <1>8, <1>9 DEF TreeOf

\* A root without entries is alone.
LEMMA EmptyTree ==
    ASSUME ExecTypes, NEW lab, Forest(lab), NEW m \in InTrees(lab), lab[m].own = m, Present(m) = {}
    PROVE  TreeOf(lab, m) = {m}
<1> DEFINE X == {n \in 0..kLevels : \E f \in TreeOf(lab, m) \ {m} : lab[f].lev = n}
<1>1. kLevels \in Nat /\ m \in used /\ m \in Frame
  BY ShapeAssumption DEF InTrees, ExecTypes
<1>2. SUFFICES ASSUME TreeOf(lab, m) # {m} PROVE FALSE
  OBVIOUS
<1>3. X # {}
  <2>1. m \in TreeOf(lab, m)
    BY <1>1 DEF TreeOf
  <2>2. PICK f \in TreeOf(lab, m) : f # m
    BY <1>2, <2>1
  <2>3. lab[f].lev \in 0..kLevels
    BY DEF TreeOf, ExecTypes, Forest, Places
  <2> QED
    BY <2>2, <2>3
<1>4. Max(X) \in X /\ \A y \in X : Max(X) >= y
  <2>1. X \subseteq 0..kLevels
    OBVIOUS
  <2> HIDE DEF X
  <2> QED
    BY <1>1, <1>3, <2>1, MaxIs
<1>5. PICK f \in TreeOf(lab, m) \ {m} : lab[f].lev = Max(X)
  BY <1>4
<1>6. f \in InTrees(lab) /\ lab[f].own = m /\ lab[f].own # f
  BY <1>1 DEF TreeOf, InTrees
<1>7. PICK p \in InTrees(lab), i \in Index :
          mem[p][i] = f /\ IsChild(lab, p, i, f) /\ lab[p].own = lab[f].own /\ lab[f].lev < kLevels
  BY <1>6, BelowRoot
<1>8. p # m
  <2>1. f # NotPresent
    BY <1>6, EntriesDiffer DEF InTrees, ExecTypes
  <2> QED
    BY <1>7, <2>1 DEF Present
<1>9. p \in TreeOf(lab, m) \ {m} /\ lab[p].lev \in 0..kLevels /\ lab[p].lev = lab[f].lev + 1
  BY <1>6, <1>7, <1>8 DEF TreeOf, InTrees, ExecTypes, Forest, Places, IsChild
<1>10. lab[p].lev \in X
  BY <1>9
<1>11. Max(X) >= Max(X) + 1 /\ Max(X) \in Nat
  BY <1>4, <1>5, <1>9, <1>10
<1> QED
  BY <1>11

\* A turn of NextToClean.
FirstChild(m) == mem[m][Min(Present(m))]
Deeper(m) == IF Present(m) = {} THEN m
             ELSE IF Present(FirstChild(m)) = {} THEN m ELSE FirstChild(m)

\* A map that CleanPageMap comes through, having gone down to level l.
OnTheWay(lab, top, l, m) ==
    /\ m \in TreeOf(lab, top) /\ lab[m].lev > 0
    /\ Present(m) = {} => m = top
    /\ \/ lab[m].lev = l
       \/ Present(m) = {}
       \/ Present(FirstChild(m)) = {}

\* The entries of a map below the roots lead to frames of its tree.
LEMMA FirstChildIs ==
    ASSUME ExecTypes, NEW lab, Forest(lab), NEW m \in InTrees(lab), lab[m].lev # kLevels,
           Present(m) # {}
    PROVE  LET i == Min(Present(m))
               c == FirstChild(m)
           IN  /\ i \in Index /\ i \in Present(m)
               /\ c = mem[m][i] /\ c \in Frame /\ IsChild(lab, m, i, c)
<1> DEFINE i == Min(Present(m))
<1>1. Present(m) \subseteq Index /\ Index \subseteq Nat
  BY DEF Present, Index
<1>2. i \in Present(m) /\ i \in Index
  BY <1>1, MinIs
<1>3. mem[m][i] \in Frame
  BY <1>2 DEF Forest, EntriesGood, Present
<1> QED
  BY <1>2, <1>3 DEF FirstChild, Forest, ChildrenPlaced

\* A page has no entries: SetupPageMap gives it zeroed, and only maps are written to.
LEMMA PageIsEmpty ==
    ASSUME ExecTypes, NEW lab, Forest(lab), NEW m \in InTrees(lab), lab[m].lev = 0
    PROVE  Present(m) = {}
<1>1. SUFFICES ASSUME NEW i \in Index, mem[m][i] # NotPresent PROVE FALSE
  BY DEF Present
<1>2. kLevels \in Nat \ {0}
  BY ShapeAssumption
<1>3. mem[m][i] \in Frame
  BY <1>1, <1>2 DEF Forest, EntriesGood
<1>4. IsChild(lab, m, i, mem[m][i])
  BY <1>3 DEF Forest, ChildrenPlaced
<1>5. lab[mem[m][i]].lev \in Nat
  BY <1>3 DEF Forest, Places
<1> QED
  BY <1>4, <1>5 DEF IsChild

\* CleanPageMap goes on to the first child, unless that child is to be freed next.
LEMMA DeeperIs ==
    ASSUME ExecTypes, NEW lab, Forest(lab), NEW top, IsRoot(lab, top, kLevels - 1),
           NEW l \in Nat \ {0}, NEW m, OnTheWay(lab, top, l + 1, m)
    PROVE  OnTheWay(lab, top, l, Deeper(m))
<1>1. top \in used /\ top \in Frame /\ lab[top].own = top /\ lab[top].lev = kLevels - 1
      /\ kLevels \in Nat /\ kLevels # 0
  BY ShapeAssumption DEF IsRoot, ExecTypes
<1>2. m \in InTrees(lab) /\ lab[m].own = top /\ m \in used
  BY <1>1 DEF OnTheWay, TreeOf, InTrees
<1>3. lab[m].lev # kLevels
  <2>1. CASE m = top
    BY <1>1, <2>1
  <2>2. CASE m # top
    BY <1>1, <1>2, <2>2, BelowRoot
  <2> QED
    BY <2>1, <2>2
<1>4. CASE Present(m) = {}
  BY <1>4 DEF OnTheWay, Deeper
<1>5. CASE Present(m) # {} /\ Present(FirstChild(m)) = {}
  BY <1>5 DEF OnTheWay, Deeper
<1>6. CASE Present(m) # {} /\ Present(FirstChild(m)) # {}
  <2> DEFINE c == FirstChild(m)
  <2>1. Deeper(m) = c
    BY <1>6 DEF Deeper
  <2>2. lab[m].lev = l + 1
    BY <1>6 DEF OnTheWay
  <2>3. c \in Frame /\ IsChild(lab, m, Min(Present(m)), c)
    BY <1>2, <1>3, <1>6, FirstChildIs
  <2>4. c \in used /\ lab[c].own = top /\ lab[c].lev \in Nat /\ lab[m].lev = lab[c].lev + 1
    BY <1>2, <2>3 DEF IsChild, Forest, Places
  <2>5. lab[c].lev = l
    BY <2>2, <2>4
  <2>6. Present(c) # {}
    BY <1>6
  <2> HIDE DEF c
  <2> QED
    BY <2>1, <2>4, <2>5, <2>6 DEF OnTheWay, TreeOf
<1> QED
  BY <1>4, <1>5, <1>6

\* CleanPageMap comes to a map whose first entry leads to an empty one, or back to
\* an empty top.
LEMMA NextToCleanIs ==
    ASSUME ExecTypes, NEW lab, Forest(lab), NEW top, IsRoot(lab, top, kLevels - 1)
    PROVE  OnTheWay(lab, top, 1, NextToClean(top))
<1> DEFINE n == kLevels - 2
           S == Frame
           D(x) == IF Deeper(x) \in Frame THEN Deeper(x) ELSE x
           G == [k \in 1..n |-> [x \in S |-> D(x)]]
<1>1. top \in used /\ top \in Frame /\ lab[top].own = top /\ lab[top].lev = kLevels - 1
      /\ kLevels \in Nat /\ n \in Nat /\ kLevels - 1 > 0 /\ used \subseteq Frame
  BY ShapeAssumption DEF IsRoot, ExecTypes
<1>2. OnTheWay(lab, top, kLevels - 1, top)
  BY <1>1 DEF OnTheWay, TreeOf
<1>3. ASSUME NEW l, NEW m, OnTheWay(lab, top, l, m) PROVE m \in Frame
  BY <1>1, <1>3 DEF OnTheWay, TreeOf
<1>4. G \in [1..n -> [S -> S]]
  OBVIOUS
<1>5. PICK h : Stepwise(n, S, top, G, h)
  <2> HIDE DEF G, S, n
  <2>1. top \in S
    BY <1>1 DEF S
  <2> QED
    BY <1>1, <1>4, <2>1, StepwiseExists
<1>6. h \in [0..n -> S] /\ h[0] = top /\ \A k \in 1..n : h[k] = G[k][h[k - 1]]
  BY <1>5 DEF Stepwise
<1>7. ASSUME NEW k \in 1..n PROVE h[k] = D(h[k - 1])
  <2>1. k - 1 \in 0..n
    BY <1>1
  <2>2. h[k - 1] \in S /\ h[k] = G[k][h[k - 1]]
    <3> HIDE DEF G, S, n
    <3> QED
      BY <1>6, <2>1
  <2>3. ASSUME NEW x \in S PROVE G[k][x] = D(x)
    OBVIOUS
  <2> HIDE DEF D, G, S
  <2> QED
    BY <2>2, <2>3
<1> HIDE DEF G
<1> DEFINE T == {k \in 0..n : OnTheWay(lab, top, kLevels - 1 - k, h[k])}
<1>8. 0 \in T
  BY <1>1, <1>2, <1>6
<1>9. ASSUME NEW k \in 0..(n - 1), k \in T PROVE k + 1 \in T /\ h[k + 1] = Deeper(h[k])
  <2>1. k + 1 \in 1..n /\ (k + 1) - 1 = k /\ kLevels - 1 - (k + 1) \in Nat \ {0}
        /\ kLevels - 1 - k = (kLevels - 1 - (k + 1)) + 1
    BY <1>1
  <2>2. OnTheWay(lab, top, (kLevels - 1 - (k + 1)) + 1, h[k])
    BY <1>9, <2>1
  <2>3. OnTheWay(lab, top, kLevels - 1 - (k + 1), Deeper(h[k]))
    <3> DEFINE l == kLevels - 1 - (k + 1)
    <3>1. l \in Nat \ {0} /\ OnTheWay(lab, top, l + 1, h[k])
      BY <2>1, <2>2
    <3> HIDE DEF l
    <3>2. OnTheWay(lab, top, l, Deeper(h[k]))
      BY <3>1, DeeperIs
    <3> QED
      BY <3>2 DEF l
  <2>4. Deeper(h[k]) \in Frame
    BY <1>3, <2>3
  <2>5. h[k + 1] = D(h[k])
    BY <1>7, <2>1
  <2>6. h[k + 1] = Deeper(h[k])
    BY <2>4, <2>5
  <2>7. k + 1 \in 0..n
    BY <2>1
  <2> QED
    BY <2>3, <2>6, <2>7
<1>10. 0..n \subseteq T
  <2> HIDE DEF T, n
  <2> QED
    BY <1>1, <1>8, <1>9, UpFrom
<1> DEFINE f == [l \in 1..(kLevels - 1) |-> h[kLevels - 1 - l]]
           Body(l, x) == IF l = kLevels - 1 THEN top ELSE Deeper(x)
<1>11. ASSUME NEW l \in 1..(kLevels - 1) PROVE f[l] = Body(l, f[l + 1])
  <2>1. CASE l = kLevels - 1
    BY <1>1, <1>6, <2>1
  <2>2. CASE l # kLevels - 1
    <3> DEFINE k == kLevels - 1 - (l + 1)
    <3>1. k \in 0..(n - 1) /\ k \in 0..n /\ l + 1 \in 1..(kLevels - 1) /\ k + 1 = kLevels - 1 - l
      BY <1>1, <2>2
    <3>2. h[k + 1] = Deeper(h[k])
      <4> HIDE DEF T, k, n
      <4> QED
        BY <1>9, <1>10, <3>1
    <3>3. f[l] = h[k + 1] /\ f[l + 1] = h[k]
      BY <3>1
    <3> QED
      BY <2>2, <3>2, <3>3
  <2> QED
    BY <2>1, <2>2
<1>12. f = [l \in 1..(kLevels - 1) |-> Body(l, f[l + 1])]
  <2>1. f = [l \in 1..(kLevels - 1) |-> f[l]]
    OBVIOUS
  <2> HIDE DEF f, Body
  <2> QED
    BY <1>11, <2>1
<1> DEFINE g == CHOOSE w : w = [l \in 1..(kLevels - 1) |-> Body(l, w[l + 1])]
<1>13. NextToClean(top) = g[1]
  BY DEF NextToClean, Deeper, FirstChild
<1>14. g = [l \in 1..(kLevels - 1) |-> Body(l, g[l + 1])]
  <2> HIDE DEF f, Body
  <2> QED
    BY <1>12
<1> HIDE DEF g
<1> DEFINE U == {k \in 0..n : OnTheWay(lab, top, kLevels - 1 - k, g[kLevels - 1 - k])}
<1>15. 0 \in U
  <2>1. g[kLevels - 1] = top /\ kLevels - 1 - 0 = kLevels - 1
    BY <1>1, <1>14
  <2> QED
    BY <1>1, <1>2, <2>1
<1>16. ASSUME NEW k \in 0..(n - 1), k \in U PROVE k + 1 \in U
  <2> DEFINE l == kLevels - 1 - (k + 1)
  <2>1. l \in Nat \ {0} /\ kLevels - 1 - k = l + 1 /\ l \in 1..(kLevels - 1) /\ l # kLevels - 1
        /\ k + 1 \in 0..n
    BY <1>1
  <2>2. OnTheWay(lab, top, l + 1, g[l + 1])
    BY <1>16, <2>1
  <2> HIDE DEF l
  <2>3. OnTheWay(lab, top, l, Deeper(g[l + 1]))
    BY <2>1, <2>2, DeeperIs
  <2>4. g[l] = Deeper(g[l + 1])
    BY <1>14, <2>1
  <2> QED
    BY <2>1, <2>3, <2>4 DEF l
<1>17. 0..n \subseteq U
  <2> HIDE DEF U, n
  <2> QED
    BY <1>1, <1>15, <1>16, UpFrom
<1>18. n \in U /\ kLevels - 1 - n = 1
  BY <1>1, <1>17
<1> QED
  BY <1>13, <1>18

\* What CleanPageMap frees next is empty.
LEMMA FreedIsEmpty ==
    ASSUME ExecTypes, NEW lab, Forest(lab), NEW top, IsRoot(lab, top, kLevels - 1)
    PROVE  LET m == NextToClean(top)
               i == Min(Present(m))
               c == mem[m][i]
           IN  /\ m \in TreeOf(lab, top) /\ m \in InTrees(lab) /\ m \in Frame
               /\ Present(m) = {} => m = top
               /\ Present(m) # {} =>
                     i \in Index /\ c \in Frame /\ IsChild(lab, m, i, c) /\ Present(c) = {}
<1> DEFINE m == NextToClean(top)
           i == Min(Present(m))
<1>1. OnTheWay(lab, top, 1, m)
  BY NextToCleanIs
<1>2. top \in used /\ top \in Frame /\ lab[top].own = top /\ lab[top].lev = kLevels - 1
      /\ kLevels \in Nat /\ kLevels # 0 /\ used \subseteq Frame
  BY ShapeAssumption DEF IsRoot, ExecTypes
<1> HIDE DEF m
<1>3. m \in InTrees(lab) /\ lab[m].own = top /\ m \in used /\ m \in Frame
  BY <1>1, <1>2 DEF OnTheWay, TreeOf, InTrees
<1>4. lab[m].lev # kLevels
  <2>1. CASE m = top
    BY <1>2, <2>1
  <2>2. CASE m # top
    BY <1>2, <1>3, <2>2, BelowRoot
  <2> QED
    BY <2>1, <2>2
<1>5. ASSUME Present(m) # {}
      PROVE  i \in Index /\ mem[m][i] \in Frame /\ IsChild(lab, m, i, mem[m][i]) /\ Present(mem[m][i]) = {}
  <2> DEFINE c == FirstChild(m)
  <2>1. i \in Index /\ c = mem[m][i] /\ c \in Frame /\ IsChild(lab, m, i, c)
    BY <1>3, <1>4, <1>5, FirstChildIs
  <2>2. Present(c) = {}
    <3>1. CASE lab[m].lev = 1
      <4>1. c \in InTrees(lab) /\ lab[c].lev \in Nat /\ lab[m].lev = lab[c].lev + 1
        BY <1>2, <1>3, <2>1 DEF IsChild, InTrees, Forest, Places
      <4> HIDE DEF c
      <4> QED
        BY <3>1, <4>1, PageIsEmpty
    <3>2. CASE lab[m].lev # 1
      BY <1>1, <1>5, <3>2 DEF OnTheWay
    <3> QED
      BY <3>1, <3>2
  <2> QED
    BY <2>1, <2>2
<1> QED
  BY <1>1, <1>3, <1>5 DEF OnTheWay, m

-----------------------------------------------------------------------------
(* What ExecuteFile does to the trees. *)

\* The tree of r is left alone, and what its frames hold is kept.
SameTree(lab, lab2, r) ==
    \A f \in Frame :
        /\ (f \in used' /\ lab2[f].own = r) <=> (f \in used /\ lab[f].own = r)
        /\ f \in used /\ lab[f].own = r =>
              /\ lab2[f].lev = lab[f].lev /\ lab2[f].pre = lab[f].pre /\ lab2[f].top = lab[f].top
              /\ data[f] \subseteq data'[f]

\* Nothing that is in use leads to a frame that is not.
LEMMA NotEntered ==
    ASSUME ExecTypes, NEW lab, Forest(lab), NEW f \in Frame, f \notin used
    PROVE  /\ \A g \in InTrees(lab) : g # f /\ lab[g].own # f
           /\ \A g \in InTrees(lab) : \A i \in Index : mem[g][i] # f
<1>1. ASSUME NEW g \in InTrees(lab) PROVE g # f /\ lab[g].own # f
  BY DEF InTrees, Forest, OwnersAreRoots
<1>2. ASSUME NEW g \in InTrees(lab), NEW i \in Index, mem[g][i] = f PROVE FALSE
  BY <1>2 DEF Forest, ChildrenPlaced, IsChild
<1> QED
  BY <1>1, <1>2

\* SetupPML4: a new frame with the kernel's entries becomes a root.
LEMMA AddRoot ==
    ASSUME ExecTypes, NEW lab, Forest(lab), NEW f \in Frame, f \notin used,
           NEW M \in [Index -> Frame \cup {NotPresent, IdentityMap}],
           \A i \in Index : M[i] = IF i < kEntries \div 2 THEN KernelEntry(i) ELSE NotPresent,
           used' = used \cup {f}, mem' = [mem EXCEPT ![f] = M], data' = [data EXCEPT ![f] = {}],
           NEW lab2, lab2 = [lab EXCEPT ![f] = [own |-> f, lev |-> kLevels, pre |-> 0, top |-> 0]]
    PROVE  /\ Forest(lab2)'
           /\ IsRoot(lab2, f, kLevels)'
           /\ TreeOf(lab2, f)' = {f}
           /\ \A r : r # f => SameTree(lab, lab2, r)
<1>1. kLevels \in Nat /\ used \subseteq Frame /\ lab \in [Frame -> Places] /\ data \in [Frame -> SUBSET Nat]
      /\ mem \in [Frame \cup {KernelPML4} -> [Index -> Frame \cup {NotPresent, IdentityMap}]]
  BY ShapeAssumption DEF ExecTypes, Forest
<1>2. lab2 \in [Frame -> Places]
  BY <1>1 DEF Places
<1>3. lab2[f] = [own |-> f, lev |-> kLevels, pre |-> 0, top |-> 0] /\ mem'[f] = M
  BY <1>1
<1>4. ASSUME NEW g \in Frame, g # f PROVE lab2[g] = lab[g] /\ mem'[g] = mem[g] /\ data'[g] = data[g]
  BY <1>1, <1>4
<1>5. InTrees(lab2)' = InTrees(lab) \cup {f}
  BY <1>1, <1>3, <1>4 DEF InTrees
<1>6. \A g \in InTrees(lab) : g # f /\ lab[g].own # f /\ g \in Frame /\ g \in used /\ lab[g].own \in Frame
  BY <1>1, NotEntered DEF InTrees
<1>7. \A g \in InTrees(lab) : \A i \in Index : mem[g][i] # f
  BY NotEntered
<1>8. \A i \in Index : M[i] \notin Frame
  BY EntriesDiffer DEF KernelEntry
<1>9. OwnersAreRoots(lab2)'
  <2>1. ASSUME NEW g \in InTrees(lab)
        PROVE  lab2[g].own \in used' /\ lab2[lab2[g].own].own = lab2[g].own
               /\ lab2[g].lev <= lab2[lab2[g].own].lev
    <3>1. lab2[g] = lab[g] /\ lab2[lab[g].own] = lab[lab[g].own]
      BY ONLY <1>4, <1>6, <2>1
    <3> QED
      BY <3>1 DEF Forest, OwnersAreRoots
  <2>2. lab2[f].own \in used' /\ lab2[lab2[f].own].own = lab2[f].own /\ lab2[f].lev <= lab2[lab2[f].own].lev
    BY ONLY <1>1, <1>3, used' = used \cup {f}
  <2> QED
    BY ONLY <1>5, <2>1, <2>2 DEF OwnersAreRoots
<1>10. ChildrenPlaced(lab2)'
  <2>1. ASSUME NEW g \in InTrees(lab), NEW i \in Index, mem'[g][i] \in Frame
        PROVE  IsChild(lab2, g, i, mem[g][i])'
    <3>1. mem'[g][i] = mem[g][i] /\ lab2[g] = lab[g] /\ mem[g][i] # f
      BY <1>4, <1>6, <1>7
    <3>2. lab2[mem[g][i]] = lab[mem[g][i]]
      BY <1>4, <2>1, <3>1
    <3>3. IsChild(lab, g, i, mem[g][i])
      BY <2>1, <3>1 DEF Forest, ChildrenPlaced
    <3> QED
      BY <3>1, <3>2, <3>3 DEF IsChild
  <2> QED
    BY <1>3, <1>5, <1>8, <2>1 DEF ChildrenPlaced
<1>11. EntriesGood(lab2)'
  <2>1. ASSUME NEW g \in InTrees(lab), NEW i \in Index
        PROVE  IF lab2[g].lev = kLevels /\ i < kEntries \div 2 THEN mem'[g][i] = KernelEntry(i)
               ELSE mem'[g][i] \in Frame \cup {NotPresent}
    BY <1>4, <1>6 DEF Forest, EntriesGood
  <2>2. ASSUME NEW i \in Index
        PROVE  IF lab2[f].lev = kLevels /\ i < kEntries \div 2 THEN mem'[f][i] = KernelEntry(i)
               ELSE mem'[f][i] \in Frame \cup {NotPresent}
    BY <1>3
  <2> QED
    BY <1>5, <2>1, <2>2 DEF EntriesGood
<1>12. HaveParents(lab2)'
  <2>1. ASSUME NEW g \in InTrees(lab), lab2[g].own # g
        PROVE  \E p \in InTrees(lab2)' : \E i \in Index : lab2[p].own = lab2[g].own /\ mem'[p][i] = g
    <3>1. PICK p \in InTrees(lab), i \in Index : lab[p].own = lab[g].own /\ mem[p][i] = g
      BY <1>4, <1>6, <2>1 DEF Forest, HaveParents
    <3> QED
      BY <1>4, <1>5, <1>6, <3>1
  <2>2. lab2[f].own = f
    BY <1>3
  <2> QED
    BY ONLY <1>5, <2>1, <2>2 DEF HaveParents
<1>13. PlacesDiffer(lab2)'
  BY <1>3, <1>4, <1>5, <1>6 DEF Forest, PlacesDiffer
<1>14. IsRoot(lab2, f, kLevels)'
  BY <1>3 DEF IsRoot
<1>15. TreeOf(lab2, f)' = {f}
  <2>1. ASSUME NEW g \in used, lab2[g].own = f PROVE g = f
    BY <1>1, <1>4, <1>6, <2>1 DEF InTrees
  <2> QED
    BY <1>3, <2>1 DEF TreeOf
<1>16. ASSUME NEW r, r # f PROVE SameTree(lab, lab2, r)
  BY <1>3, <1>4, <1>16 DEF SameTree
<1> QED
  BY <1>2, <1>9, <1>10, <1>11, <1>12, <1>13, <1>14, <1>15, <1>16 DEF Forest

\* A frame becomes an empty map or page that an entry of another leads to.
ChildMaps(f, p, i) == [mem EXCEPT ![f] = EmptyMap, ![p][i] = f]
PlaceAt(lab, f, o, l, x, e) == [lab EXCEPT ![f] = [own |-> o, lev |-> l, pre |-> x, top |-> e]]

\* An entry without a frame, and the place of what it would lead to.
FreeEntry(lab, p, i, l, x, e) ==
    /\ p \in InTrees(lab) /\ i \in Index /\ mem[p][i] = NotPresent
    /\ l \in 0..(kLevels - 1) /\ lab[p].lev = l + 1
    /\ ~(lab[p].lev = kLevels /\ i < kEntries \div 2)
    /\ x = lab[p].pre * kEntries + i
    /\ e \in Nat /\ e = IF l + 1 = kLevels THEN i ELSE lab[p].top

\* A frame that is not in use takes such a place.
AddsChild(lab, f, p, i, l, x, e, lab2) ==
    /\ f \in Frame /\ f \notin used
    /\ FreeEntry(lab, p, i, l, x, e)
    /\ used' = used \cup {f} /\ mem' = ChildMaps(f, p, i) /\ data' = [data EXCEPT ![f] = {}]
    /\ lab2 = PlaceAt(lab, f, lab[p].own, l, x, e)

\* SetNewPageMapIfNotPresent: a new frame is placed below the entry that leads to it.
LEMMA AddChild ==
    ASSUME ExecTypes, NEW lab, Forest(lab), NEW f, NEW p, NEW i, NEW l, NEW x, NEW e, NEW lab2,
           AddsChild(lab, f, p, i, l, x, e, lab2)
    PROVE  /\ Forest(lab2)'
           /\ \A r : r # lab[p].own => SameTree(lab, lab2, r)
           /\ lab2[f].own = lab[p].own /\ lab2[f].lev = l /\ lab2[f].pre = x
           /\ lab2[f].top = e
           /\ \A g \in used : lab2[g] = lab[g] /\ data'[g] = data[g]
<1>0. /\ p \in InTrees(lab) /\ i \in Index /\ mem[p][i] = NotPresent
      /\ l \in 0..(kLevels - 1) /\ lab[p].lev = l + 1
      /\ ~(lab[p].lev = kLevels /\ i < kEntries \div 2)
      /\ e \in Nat /\ e = IF l + 1 = kLevels THEN i ELSE lab[p].top
      /\ x = lab[p].pre * kEntries + i
      /\ f \in Frame /\ f \notin used
      /\ used' = used \cup {f} /\ mem' = ChildMaps(f, p, i) /\ data' = [data EXCEPT ![f] = {}]
      /\ lab2 = PlaceAt(lab, f, lab[p].own, l, x, e)
  BY DEF FreeEntry, AddsChild
<1>1. kLevels \in Nat /\ used \subseteq Frame /\ lab \in [Frame -> Places] /\ data \in [Frame -> SUBSET Nat]
      /\ mem \in [Frame \cup {KernelPML4} -> [Index -> Frame \cup {NotPresent, IdentityMap}]]
      /\ kEntries \in Nat
  BY ShapeAssumption DEF ExecTypes, Forest
<1> DEFINE o == lab[p].own
<1>2. p # f /\ p \in Frame /\ p \in used /\ o \in Frame /\ o # f /\ o \in used /\ lab[o].own = o
  BY <1>0, <1>1, NotEntered DEF InTrees, Forest, OwnersAreRoots
<1>3. lab[p].pre \in Nat /\ i \in Nat /\ x \in Nat
  <2>1. lab[p].pre \in Nat /\ i \in Nat
    BY <1>0, <1>1, <1>2 DEF Places, Index
  <2>2. \A a, b \in Nat : a * b \in Nat
    BY <1>0
  <2>3. lab[p].pre * kEntries \in Nat
    BY ONLY <1>0, <1>1, <2>1, <2>2
  <2> QED
    BY ONLY <1>0, <2>1, <2>3
<1>4. l \in 0..kLevels
  BY <1>0, <1>1
<1>5. lab2 \in [Frame -> Places]
  BY <1>0, <1>1, <1>2, <1>3, <1>4 DEF Places, PlaceAt
<1>6. lab2[f] = [own |-> o, lev |-> l, pre |-> x, top |-> e]
  BY <1>0, <1>1 DEF PlaceAt
<1>7. ASSUME NEW g \in Frame, g # f PROVE lab2[g] = lab[g] /\ data'[g] = data[g]
  BY <1>0, <1>1, <1>7 DEF PlaceAt
<1>8. mem'[f] = EmptyMap /\ mem'[p] = [mem[p] EXCEPT ![i] = f]
  BY <1>0, <1>1, <1>2 DEF ChildMaps
<1>9. ASSUME NEW g \in Frame, g # f, g # p PROVE mem'[g] = mem[g]
  BY <1>0, <1>1, <1>9 DEF ChildMaps
<1>10. mem'[p][i] = f /\ \A j \in Index : j # i => mem'[p][j] = mem[p][j]
  BY <1>0, <1>1, <1>2, <1>8
<1>11. InTrees(lab2)' = InTrees(lab) \cup {f}
  BY <1>0, <1>1, <1>2, <1>6, <1>7 DEF InTrees
<1>12. \A g \in InTrees(lab) : g # f /\ lab[g].own # f /\ g \in Frame /\ g \in used /\ lab[g].own \in Frame
  BY <1>0, <1>1, NotEntered DEF InTrees
<1>13. \A g \in InTrees(lab) : \A j \in Index : mem[g][j] # f
  BY <1>0, NotEntered
<1>14. \A j \in Index : EmptyMap[j] = NotPresent
  BY DEF EmptyMap
<1>15. ASSUME NEW g \in InTrees(lab), NEW j \in Index
       PROVE  mem'[g][j] = IF g = p /\ j = i THEN f ELSE mem[g][j]
  <2>1. CASE g = p
    BY ONLY <1>0, <1>10, <2>1, j \in Index
  <2>2. CASE g # p
    <3>1. mem'[g] = mem[g]
      BY <1>0, <1>9, <1>12, <2>2
    <3> QED
      BY ONLY <1>0, <2>2, <3>1
  <2> QED
    BY <1>0, <2>1, <2>2
<1>16. OwnersAreRoots(lab2)'
  <2>1. \A g \in InTrees(lab) : lab[g].own \in used /\ lab[lab[g].own].own = lab[g].own
                                /\ lab[g].lev <= lab[lab[g].own].lev
    BY <1>0 DEF Forest, OwnersAreRoots
  <2>2. l <= lab[o].lev
    <3>1. lab[o].lev \in Nat
      BY <1>0, <1>1, <1>2 DEF Places
    <3> QED
      BY ONLY <1>0, <2>1, <3>1
  <2>3. ASSUME NEW g \in InTrees(lab)
        PROVE  lab2[g].own \in used' /\ lab2[lab2[g].own].own = lab2[g].own
               /\ lab2[g].lev <= lab2[lab2[g].own].lev
    <3>1. lab2[g] = lab[g] /\ lab2[lab[g].own] = lab[lab[g].own]
      BY ONLY <1>0, <1>7, <1>12, <2>3
    <3> QED
      BY <1>0, <2>1, <3>1
  <2>4. lab2[f].own \in used' /\ lab2[lab2[f].own].own = lab2[f].own /\ lab2[f].lev <= lab2[lab2[f].own].lev
    BY ONLY <1>0, <1>2, <1>6, <1>7, <2>2
  <2> QED
    BY ONLY <1>11, <2>3, <2>4 DEF OwnersAreRoots
<1>17. ChildrenPlaced(lab2)'
  <2>1. ASSUME NEW g \in InTrees(lab), NEW j \in Index, mem'[g][j] \in Frame
        PROVE  IsChild(lab2, g, j, mem[g][j])'
    <3>1. CASE g = p /\ j = i
      <4>1. mem'[g][j] = f /\ lab2[g] = lab[p]
        BY <1>0, <1>2, <1>7, <1>10, <3>1
      <4> QED
        BY <1>0, <1>2, <1>6, <3>1, <4>1 DEF IsChild
    <3>2. CASE ~(g = p /\ j = i)
      <4>1. mem'[g][j] = mem[g][j] /\ lab2[g] = lab[g] /\ mem[g][j] # f
        BY ONLY <1>0, <1>7, <1>12, <1>13, <1>15, <2>1, <3>2
      <4>2. lab2[mem[g][j]] = lab[mem[g][j]]
        BY <1>0, <1>7, <2>1, <4>1
      <4>3. IsChild(lab, g, j, mem[g][j])
        BY <1>0, <2>1, <4>1 DEF Forest, ChildrenPlaced
      <4> QED
        BY <1>0, <4>1, <4>2, <4>3 DEF IsChild
    <3> QED
      BY <1>0, <3>1, <3>2
  <2> QED
    BY <1>0, <1>8, <1>11, <1>14, <2>1, EntriesDiffer DEF ChildrenPlaced
<1>18. EntriesGood(lab2)'
  <2>1. ASSUME NEW g \in InTrees(lab), NEW j \in Index
        PROVE  IF lab2[g].lev = kLevels /\ j < kEntries \div 2 THEN mem'[g][j] = KernelEntry(j)
               ELSE mem'[g][j] \in Frame \cup {NotPresent}
    <3>1. lab2[g] = lab[g]
      BY <1>0, <1>7, <1>12
    <3>2. IF lab[g].lev = kLevels /\ j < kEntries \div 2 THEN mem[g][j] = KernelEntry(j)
          ELSE mem[g][j] \in Frame \cup {NotPresent}
      BY <1>0 DEF Forest, EntriesGood
    <3>3. ~(g = p /\ lab[g].lev = kLevels /\ i < kEntries \div 2)
      BY <1>0
    <3> QED
      BY ONLY <1>0, <1>15, <2>1, <3>1, <3>2, <3>3
  <2>2. ASSUME NEW j \in Index
        PROVE  lab2[f].lev # kLevels /\ mem'[f][j] \in Frame \cup {NotPresent}
    BY <1>0, <1>1, <1>6, <1>8, <1>14
  <2> QED
    BY <1>0, <1>11, <2>1, <2>2 DEF EntriesGood
<1>19. HaveParents(lab2)'
  <2>1. ASSUME NEW g \in InTrees(lab), lab2[g].own # g
        PROVE  \E q \in InTrees(lab2)' : \E j \in Index : lab2[q].own = lab2[g].own /\ mem'[q][j] = g
    <3>1. PICK q \in InTrees(lab), j \in Index : lab[q].own = lab[g].own /\ mem[q][j] = g
      BY <1>0, <1>7, <1>12, <2>1 DEF Forest, HaveParents
    <3>2. mem'[q][j] = g
      <4>1. ~(q = p /\ j = i)
        BY <1>0, <1>12, <3>1, EntriesDiffer
      <4> QED
        BY ONLY <1>0, <1>15, <3>1, <4>1
    <3>3. q \in InTrees(lab2)' /\ lab2[q] = lab[q] /\ lab2[g] = lab[g]
      BY ONLY <1>0, <1>7, <1>11, <1>12, <2>1, <3>1
    <3> QED
      BY ONLY <1>0, <3>1, <3>2, <3>3
  <2>2. \E q \in InTrees(lab2)' : \E j \in Index : lab2[q].own = lab2[f].own /\ mem'[q][j] = f
    <3>1. p \in InTrees(lab2)' /\ lab2[p].own = lab2[f].own /\ mem'[p][i] = f
      BY ONLY <1>0, <1>2, <1>6, <1>7, <1>10, <1>11
    <3> QED
      BY <1>0, <3>1
  <2> QED
    BY ONLY <1>0, <1>11, <2>1, <2>2 DEF HaveParents
<1>20. PlacesDiffer(lab2)'
  <2>1. ASSUME NEW g \in InTrees(lab), lab[g].own = o, lab[g].lev = l, lab[g].pre = x PROVE FALSE
    <3>1. lab[g].own # g
      <4>1. SUFFICES ASSUME g = o PROVE FALSE
        BY <1>0, <2>1
      <4>2. lab[p].lev <= lab[o].lev /\ lab[o].lev \in Nat
        BY <1>0, <1>1, <1>2 DEF Forest, OwnersAreRoots, Places
      <4> QED
        BY ONLY <1>0, <2>1, <4>1, <4>2
    <3>2. mem[p][i] = g
      BY <1>0, <1>3, <2>1, <3>1, ParentIs
    <3> QED
      BY ONLY <1>0, <1>12, <2>1, <3>2, EntriesDiffer
  <2>2. ASSUME NEW g \in InTrees(lab), NEW h \in InTrees(lab),
               lab2[g].own = lab2[h].own /\ lab2[g].lev = lab2[h].lev /\ lab2[g].pre = lab2[h].pre
        PROVE  g = h
    BY <1>0, <1>7, <1>12, <2>2 DEF Forest, PlacesDiffer
  <2>3. ASSUME NEW g \in InTrees(lab),
               lab2[g].own = lab2[f].own /\ lab2[g].lev = lab2[f].lev /\ lab2[g].pre = lab2[f].pre
        PROVE  FALSE
    BY <1>0, <1>6, <1>7, <1>12, <2>1, <2>3
  <2> QED
    BY ONLY <1>11, <2>2, <2>3 DEF PlacesDiffer
<1>21. ASSUME NEW r, r # o PROVE SameTree(lab, lab2, r)
  BY <1>0, <1>6, <1>7, <1>21 DEF SameTree
<1> QED
  BY <1>0, <1>1, <1>5, <1>6, <1>7, <1>16, <1>17, <1>18, <1>19, <1>20, <1>21 DEF Forest

\* An entry is cleared; a subtree gets a root of its own; a tree is given up.
Cleared(m, i) == [mem EXCEPT ![m][i] = NotPresent]
Unlinked(lab, r, e, c) ==
    [f \in Frame |-> IF lab[f].own = r /\ f # r /\ lab[f].top = e
                     THEN [lab[f] EXCEPT !.own = c] ELSE lab[f]]
Dropped(lab, r) ==
    [f \in Frame |-> IF lab[f].own = r THEN [lab[f] EXCEPT !.own = NotPresent] ELSE lab[f]]

\* CleanPageMaps: an upper entry of a root is cleared, and what hung on it is now a tree.
Unlinks(lab, r, e, c, lab2) ==
    /\ e \in Index /\ e >= kEntries \div 2 /\ c \in Frame /\ mem[r][e] = c
    /\ used' = used /\ data' = data /\ mem' = Cleared(r, e)
    /\ lab2 = Unlinked(lab, r, e, c)

\* CleanPageMaps unlinks a subtree: its top becomes a root.
LEMMA Unlink ==
    ASSUME ExecTypes, NEW lab, Forest(lab), NEW r, IsRoot(lab, r, kLevels), NEW e, NEW c, NEW lab2,
           Unlinks(lab, r, e, c, lab2)
    PROVE  /\ Forest(lab2)'
           /\ IsRoot(lab2, c, kLevels - 1)' /\ IsRoot(lab2, r, kLevels)'
           /\ c # r /\ lab[c].own = r
           /\ \A s : s # r /\ s # c => SameTree(lab, lab2, s)
           /\ \A f \in Frame :
                 /\ lab2[f].own = IF lab[f].own = r /\ f # r /\ lab[f].top = e THEN c ELSE lab[f].own
                 /\ lab2[f].lev = lab[f].lev /\ lab2[f].pre = lab[f].pre /\ lab2[f].top = lab[f].top
           /\ \A f \in used : lab[f].own # c
<1> USE DEF Cleared, Unlinked
<1>0. /\ e \in Index /\ e >= kEntries \div 2 /\ c \in Frame /\ mem[r][e] = c
      /\ used' = used /\ data' = data /\ mem' = Cleared(r, e)
      /\ lab2 = Unlinked(lab, r, e, c)
  BY DEF Unlinks
<1> USE <1>0
<1> DEFINE Moved(f) == lab[f].own = r /\ f # r /\ lab[f].top = e
<1>1. kLevels \in Nat /\ kLevels # 0 /\ used \subseteq Frame /\ lab \in [Frame -> Places]
      /\ mem \in [Frame \cup {KernelPML4} -> [Index -> Frame \cup {NotPresent, IdentityMap}]]
  BY ShapeAssumption DEF ExecTypes, Forest
<1>2. r \in used /\ r \in Frame /\ lab[r].own = r /\ lab[r].lev = kLevels /\ r \in InTrees(lab) /\ lab[r].pre = 0
  BY <1>1 DEF IsRoot, InTrees
<1>3. \A f \in Frame : lab[f] \in Places
  BY <1>1
<1>4. ASSUME NEW f \in Frame
      PROVE  /\ lab2[f].own = IF Moved(f) THEN c ELSE lab[f].own
             /\ lab2[f].lev = lab[f].lev /\ lab2[f].pre = lab[f].pre /\ lab2[f].top = lab[f].top
             /\ lab2[f] \in Places
  <2>1. lab[f] \in Places
    BY <1>3
  <2>2. lab2[f] = IF Moved(f) THEN [lab[f] EXCEPT !.own = c] ELSE lab[f]
    OBVIOUS
  <2> HIDE DEF Moved
  <2> QED
    BY ONLY <2>1, <2>2, c \in Frame DEF Places
<1>5. lab2 \in [Frame -> Places]
  <2>1. lab2 = [f \in Frame |-> lab2[f]]
    OBVIOUS
  <2> QED
    BY ONLY <1>4, <2>1
<1>6. IsChild(lab, r, e, c)
  BY <1>2 DEF Forest, ChildrenPlaced
<1>7. c \in used /\ lab[c].own = r /\ c # r /\ lab[c].lev = kLevels - 1 /\ lab[c].top = e /\ c \in InTrees(lab)
  <2>1. lab[c].lev \in Nat
    BY <1>3 DEF Places
  <2>2. c \in used /\ lab[c].own = r /\ c # r /\ lab[r].lev = lab[c].lev + 1 /\ lab[c].top = e
    BY ONLY <1>2, <1>6 DEF IsChild
  <2>3. lab[c].lev = kLevels - 1
    BY ONLY <1>1, <1>2, <2>1, <2>2
  <2> QED
    BY ONLY <1>2, <2>2, <2>3 DEF InTrees
<1>8. \A f \in used : lab[f].own # c
  BY <1>1, <1>7 DEF Forest, OwnersAreRoots, InTrees
<1>9. InTrees(lab2)' = InTrees(lab)
  <2>1. \A f \in used : lab2[f].own \in Frame <=> lab[f].own \in Frame
    BY ONLY <1>1, <1>2, <1>4, c \in Frame
  <2> QED
    BY ONLY <2>1, used' = used DEF InTrees
<1>10. \A f \in InTrees(lab) : f \in used /\ f \in Frame /\ lab[f].own \in Frame
  BY <1>1 DEF InTrees
<1>11. ASSUME NEW f \in InTrees(lab), lab[f].own # f PROVE lab[f].lev < kLevels
  BY <1>11, BelowRoot
<1>12. ASSUME NEW f \in InTrees(lab), NEW i \in Index
       PROVE  mem'[f][i] = IF f = r /\ i = e THEN NotPresent ELSE mem[f][i]
  <2>1. mem'[r] = [mem[r] EXCEPT ![e] = NotPresent] /\ mem[r] \in [Index -> Frame \cup {NotPresent, IdentityMap}]
    BY <1>1, <1>2
  <2>2. CASE f = r
    BY ONLY <2>1, <2>2, i \in Index, e \in Index
  <2>3. CASE f # r
    <3>1. mem'[f] = mem[f]
      BY <1>1, <1>10, <2>3
    <3> QED
      BY ONLY <2>3, <3>1
  <2> QED
    BY <2>2, <2>3
<1>13. ASSUME NEW f \in InTrees(lab), NEW i \in Index, mem[f][i] \in Frame, ~(f = r /\ i = e)
       PROVE  /\ Moved(f) <=> Moved(mem[f][i])
              /\ Moved(f) => mem[f][i] # c
  <2> DEFINE d == mem[f][i]
  <2>1. IsChild(lab, f, i, d)
    BY <1>13 DEF Forest, ChildrenPlaced
  <2>2. lab[d].own = lab[f].own /\ d # lab[f].own /\ lab[d].lev \in Nat /\ lab[f].lev = lab[d].lev + 1
        /\ lab[d].top = IF lab[f].lev = kLevels THEN i ELSE lab[f].top
    BY <1>3, <1>13, <2>1 DEF IsChild, Places
  <2> HIDE DEF d
  <2>3. CASE lab[f].own # r
    BY ONLY <2>2, <2>3 DEF d
  <2>4. CASE lab[f].own = r /\ f = r
    <3>1. lab[d].top = i /\ i # e
      BY ONLY <1>2, <1>13, <2>2, <2>4
    <3> QED
      BY ONLY <2>4, <3>1 DEF d
  <2>5. CASE lab[f].own = r /\ f # r
    <3>1. lab[f].lev < kLevels
      BY <1>11, <2>5
    <3>2. lab[f].lev \in Nat
      BY <1>3, <1>10 DEF Places
    <3>3. lab[d].top = lab[f].top /\ d # r
      BY ONLY <1>1, <2>2, <2>5, <3>1, <3>2
    <3>4. lab[d].lev # kLevels - 1
      BY ONLY <1>1, <2>2, <3>1, <3>2
    <3>5. d # c
      BY ONLY <1>7, <3>4
    <3> QED
      BY ONLY <2>2, <2>5, <3>3, <3>5 DEF d
  <2> QED
    BY ONLY <2>3, <2>4, <2>5
<1> HIDE DEF Moved
<1>14. Moved(c) /\ ~Moved(r)
  BY <1>2, <1>7 DEF Moved
<1>15. OwnersAreRoots(lab2)'
  <2>1. ASSUME NEW f \in InTrees(lab)
        PROVE  lab2[f].own \in used' /\ lab2[lab2[f].own].own = lab2[f].own /\ lab2[f].lev <= lab2[lab2[f].own].lev
    <3>1. lab[f].own \in used /\ lab[lab[f].own].own = lab[f].own /\ lab[f].lev <= lab[lab[f].own].lev
      BY DEF Forest, OwnersAreRoots
    <3>2. CASE Moved(f)
      <4>1. lab2[f].own = c /\ lab2[c].own = c
        BY ONLY <1>4, <1>7, <1>10, <1>14, <2>1, <3>2, c \in Frame
      <4>2. lab[f].lev < kLevels /\ lab[f].lev \in Nat
        BY <1>3, <1>10, <1>11, <3>2 DEF Moved, Places
      <4>3. lab2[f].lev = lab[f].lev /\ lab2[c].lev = kLevels - 1
        BY ONLY <1>4, <1>7, <1>10, <2>1, c \in Frame
      <4> QED
        BY ONLY <1>1, <1>7, <4>1, <4>2, <4>3, used' = used
    <3>3. CASE ~Moved(f)
      <4>1. lab2[f].own = lab[f].own /\ ~Moved(lab[f].own)
        BY ONLY <1>4, <1>10, <2>1, <3>1, <3>3 DEF Moved
      <4>2. lab2[lab[f].own].own = lab[lab[f].own].own /\ lab2[lab[f].own].lev = lab[lab[f].own].lev
            /\ lab2[f].lev = lab[f].lev
        BY ONLY <1>4, <1>10, <2>1, <4>1
      <4> QED
        BY ONLY <3>1, <4>1, <4>2, used' = used
    <3> QED
      BY <3>2, <3>3
  <2> QED
    BY ONLY <1>9, <2>1 DEF OwnersAreRoots
<1>16. ChildrenPlaced(lab2)'
  <2>1. ASSUME NEW f \in InTrees(lab), NEW i \in Index, mem'[f][i] \in Frame
        PROVE  IsChild(lab2, f, i, mem[f][i])'
    <3> DEFINE d == mem[f][i]
    <3>1. mem'[f][i] = d /\ ~(f = r /\ i = e) /\ d \in Frame
      BY ONLY <1>12, <2>1, EntriesDiffer
    <3>2. IsChild(lab, f, i, d)
      BY <3>1 DEF Forest, ChildrenPlaced
    <3>3. (Moved(f) <=> Moved(d)) /\ (Moved(f) => d # c)
      BY <1>13, <3>1
    <3>4. /\ lab2[f].own = IF Moved(f) THEN c ELSE lab[f].own
          /\ lab2[f].lev = lab[f].lev /\ lab2[f].pre = lab[f].pre /\ lab2[f].top = lab[f].top
          /\ lab2[d].own = IF Moved(d) THEN c ELSE lab[d].own
          /\ lab2[d].lev = lab[d].lev /\ lab2[d].pre = lab[d].pre /\ lab2[d].top = lab[d].top
      BY ONLY <1>4, <1>10, <2>1, <3>1
    <3> HIDE DEF d
    <3> QED
      BY ONLY <3>1, <3>2, <3>3, <3>4, used' = used DEF IsChild
  <2> QED
    BY ONLY <1>9, <2>1 DEF ChildrenPlaced
<1>17. EntriesGood(lab2)'
  <2>1. ASSUME NEW f \in InTrees(lab), NEW i \in Index
        PROVE  IF lab2[f].lev = kLevels /\ i < kEntries \div 2 THEN mem'[f][i] = KernelEntry(i)
               ELSE mem'[f][i] \in Frame \cup {NotPresent}
    <3>1. IF lab[f].lev = kLevels /\ i < kEntries \div 2 THEN mem[f][i] = KernelEntry(i)
          ELSE mem[f][i] \in Frame \cup {NotPresent}
      BY DEF Forest, EntriesGood
    <3>2. lab2[f].lev = lab[f].lev
      BY ONLY <1>4, <1>10, <2>1
    <3>3. ~(e < kEntries \div 2)
      BY ShapeAssumption DEF Index
    <3> QED
      BY ONLY <1>12, <2>1, <3>1, <3>2, <3>3
  <2> QED
    BY ONLY <1>9, <2>1 DEF EntriesGood
<1>18. HaveParents(lab2)'
  <2>1. ASSUME NEW f \in InTrees(lab), lab2[f].own # f
        PROVE  \E p \in InTrees(lab) : \E i \in Index : lab2[p].own = lab2[f].own /\ mem'[p][i] = f
    <3>1. f # c /\ f \in Frame
      BY ONLY <1>4, <1>10, <1>14, <2>1
    <3>2. lab[f].own # f
      BY ONLY <1>4, <1>10, <2>1 DEF Moved
    <3>3. PICK p \in InTrees(lab), i \in Index : lab[p].own = lab[f].own /\ mem[p][i] = f
      BY <3>2 DEF Forest, HaveParents
    <3>4. ~(p = r /\ i = e)
      BY <3>1, <3>3
    <3>5. mem'[p][i] = f
      BY ONLY <1>12, <3>3, <3>4
    <3>6. Moved(p) <=> Moved(f)
      BY ONLY <1>13, <3>1, <3>3, <3>4
    <3>7. lab2[p].own = lab2[f].own
      BY ONLY <1>4, <1>10, <3>1, <3>3, <3>6
    <3> QED
      BY ONLY <3>3, <3>5, <3>7
  <2> QED
    BY ONLY <1>9, <2>1 DEF HaveParents
<1>19. PlacesDiffer(lab2)'
  <2>1. ASSUME NEW f \in InTrees(lab), NEW g \in InTrees(lab),
               lab2[f].own = lab2[g].own, lab2[f].lev = lab2[g].lev, lab2[f].pre = lab2[g].pre
        PROVE  f = g
    <3>1. lab[f].lev = lab[g].lev /\ lab[f].pre = lab[g].pre
      BY ONLY <1>4, <1>10, <2>1
    <3>2. lab[f].own = lab[g].own
      BY ONLY <1>4, <1>8, <1>10, <2>1 DEF Moved
    <3> QED
      BY <3>1, <3>2 DEF Forest, PlacesDiffer
  <2> QED
    BY ONLY <1>9, <2>1 DEF PlacesDiffer
<1>20. IsRoot(lab2, c, kLevels - 1)' /\ IsRoot(lab2, r, kLevels)'
  <2>1. lab2[c].own = c /\ lab2[c].lev = kLevels - 1 /\ lab2[r].own = r /\ lab2[r].lev = kLevels /\ lab2[r].pre = 0
    BY ONLY <1>2, <1>4, <1>7, <1>14, c \in Frame
  <2>2. kLevels - 1 # kLevels
    BY <1>1
  <2> QED
    BY ONLY <1>2, <1>7, <2>1, <2>2, used' = used DEF IsRoot
<1>21. ASSUME NEW s, s # r, s # c PROVE SameTree(lab, lab2, s)
  BY ONLY <1>4, <1>21, used' = used, data' = data DEF SameTree, Moved
<1> QED
  BY ONLY <1>4, <1>5, <1>7, <1>8, <1>15, <1>16, <1>17, <1>18, <1>19, <1>20, <1>21 DEF Forest, Moved

\* A frame without entries is freed, and the entry that led to it cleared.
LEMMA RemoveLeaf ==
    ASSUME ExecTypes, NEW lab, Forest(lab), NEW p \in InTrees(lab), NEW i \in Index, NEW c \in Frame,
           mem[p][i] = c, lab[p].lev # kLevels, Present(c) = {},
           used' = used \ {c}, data' = data, mem' = Cleared(p, i)
    PROVE  /\ Forest(lab)'
           /\ lab[c].own = lab[p].own /\ c # lab[p].own /\ c \in used
           /\ \A r : r # lab[p].own => SameTree(lab, lab, r)
<1> USE DEF Cleared
<1>1. kLevels \in Nat /\ used \subseteq Frame /\ lab \in [Frame -> Places]
      /\ mem \in [Frame \cup {KernelPML4} -> [Index -> Frame \cup {NotPresent, IdentityMap}]]
  BY ShapeAssumption DEF ExecTypes, Forest
<1>2. IsChild(lab, p, i, c)
  BY DEF Forest, ChildrenPlaced
<1>3. c \in used /\ lab[c].own = lab[p].own /\ c # lab[p].own /\ lab[p].own \in Frame /\ p \in Frame
  BY <1>1, <1>2 DEF IsChild, InTrees
<1>4. \A j \in Index : mem[c][j] = NotPresent
  BY DEF Present
<1>5. p # c
  BY <1>4, EntriesDiffer
<1>6. InTrees(lab)' = InTrees(lab) \ {c}
  BY DEF InTrees
<1>7. \A f \in InTrees(lab) : f \in used /\ f \in Frame /\ lab[f].own \in Frame /\ lab[f].own # c
      /\ lab[f].own \in used /\ lab[lab[f].own].own = lab[f].own /\ lab[f].lev <= lab[lab[f].own].lev
  BY <1>1, <1>3 DEF InTrees, Forest, OwnersAreRoots
<1>8. ASSUME NEW f \in InTrees(lab), NEW j \in Index
      PROVE  mem'[f][j] = IF f = p /\ j = i THEN NotPresent ELSE mem[f][j]
  <2>1. mem'[p] = [mem[p] EXCEPT ![i] = NotPresent] /\ mem[p] \in [Index -> Frame \cup {NotPresent, IdentityMap}]
    BY <1>1, <1>3
  <2>2. CASE f = p
    BY ONLY <2>1, <2>2, i \in Index, j \in Index
  <2>3. CASE f # p
    <3>1. mem'[f] = mem[f]
      BY <1>1, <1>7, <2>3
    <3> QED
      BY ONLY <2>3, <3>1
  <2> QED
    BY <2>2, <2>3
<1>9. ASSUME NEW f \in InTrees(lab), NEW j \in Index, mem[f][j] = c PROVE f = p /\ j = i
  <2>1. IsChild(lab, f, j, c)
    BY <1>9 DEF Forest, ChildrenPlaced
  <2>2. lab[f].own = lab[p].own /\ lab[f].lev = lab[p].lev
        /\ lab[p].pre * kEntries + i = lab[f].pre * kEntries + j
    BY ONLY <1>2, <2>1 DEF IsChild
  <2>3. lab[p].pre \in Nat /\ lab[f].pre \in Nat
    BY <1>1, <1>3, <1>7 DEF Places
  <2>4. lab[p].pre = lab[f].pre /\ i = j
    BY <2>2, <2>3, DigitsDiffer
  <2> QED
    BY <2>2, <2>4 DEF Forest, PlacesDiffer
<1>10. OwnersAreRoots(lab)'
  BY ONLY <1>6, <1>7, used' = used \ {c} DEF OwnersAreRoots
<1>11. ChildrenPlaced(lab)'
  <2>1. ASSUME NEW f \in InTrees(lab), NEW j \in Index, mem'[f][j] \in Frame
        PROVE  IsChild(lab, f, j, mem[f][j])'
    <3>1. mem'[f][j] = mem[f][j] /\ ~(f = p /\ j = i)
      BY ONLY <1>8, <2>1, EntriesDiffer
    <3>2. mem[f][j] # c
      BY ONLY <1>9, <2>1, <3>1
    <3>3. IsChild(lab, f, j, mem[f][j])
      BY <2>1, <3>1 DEF Forest, ChildrenPlaced
    <3> QED
      BY ONLY <3>1, <3>2, <3>3, used' = used \ {c} DEF IsChild
  <2> QED
    BY ONLY <1>6, <2>1 DEF ChildrenPlaced
<1>12. EntriesGood(lab)'
  <2>1. ASSUME NEW f \in InTrees(lab), NEW j \in Index
        PROVE  IF lab[f].lev = kLevels /\ j < kEntries \div 2 THEN mem'[f][j] = KernelEntry(j)
               ELSE mem'[f][j] \in Frame \cup {NotPresent}
    <3>1. IF lab[f].lev = kLevels /\ j < kEntries \div 2 THEN mem[f][j] = KernelEntry(j)
          ELSE mem[f][j] \in Frame \cup {NotPresent}
      BY DEF Forest, EntriesGood
    <3> QED
      BY ONLY <1>8, <2>1, <3>1, lab[p].lev # kLevels
  <2> QED
    BY ONLY <1>6, <2>1 DEF EntriesGood
<1>13. HaveParents(lab)'
  <2>1. ASSUME NEW f \in InTrees(lab), f # c, lab[f].own # f
        PROVE  \E q \in InTrees(lab) \ {c} : \E j \in Index : lab[q].own = lab[f].own /\ mem'[q][j] = f
    <3>1. PICK q \in InTrees(lab), j \in Index : lab[q].own = lab[f].own /\ mem[q][j] = f
      BY <2>1 DEF Forest, HaveParents
    <3>2. q # c
      BY ONLY <1>4, <1>7, <2>1, <3>1, EntriesDiffer
    <3>3. mem'[q][j] = f
      BY ONLY <1>8, <2>1, <3>1, mem[p][i] = c
    <3> QED
      BY ONLY <3>1, <3>2, <3>3
  <2> QED
    BY ONLY <1>6, <2>1 DEF HaveParents
<1>14. PlacesDiffer(lab)'
  BY ONLY <1>6, Forest(lab) DEF Forest, PlacesDiffer
<1>15. ASSUME NEW r, r # lab[p].own PROVE SameTree(lab, lab, r)
  BY ONLY <1>3, <1>15, used' = used \ {c}, data' = data DEF SameTree
<1> QED
  BY ONLY <1>1, <1>3, <1>10, <1>11, <1>12, <1>13, <1>14, <1>15 DEF Forest

\* A root that is alone is freed.
LEMMA RemoveAlone ==
    ASSUME ExecTypes, NEW lab, Forest(lab), NEW m \in InTrees(lab), lab[m].own = m, TreeOf(lab, m) = {m},
           used' = used \ {m}, data' = data, mem' = mem
    PROVE  /\ Forest(lab)'
           /\ \A r : r # m => SameTree(lab, lab, r)
<1>1. used \subseteq Frame /\ lab \in [Frame -> Places]
  BY DEF ExecTypes, Forest
<1>2. InTrees(lab)' = InTrees(lab) \ {m}
  BY DEF InTrees
<1>3. \A f \in InTrees(lab) : f # m => f \in used /\ f \in Frame /\ lab[f].own \in Frame /\ lab[f].own # m
      /\ lab[f].own \in used /\ lab[lab[f].own].own = lab[f].own /\ lab[f].lev <= lab[lab[f].own].lev
  BY <1>1 DEF InTrees, Forest, OwnersAreRoots, TreeOf
<1>4. OwnersAreRoots(lab)'
  BY ONLY <1>2, <1>3, used' = used \ {m} DEF OwnersAreRoots
<1>5. ChildrenPlaced(lab)'
  <2>1. ASSUME NEW f \in InTrees(lab), f # m, NEW i \in Index, mem[f][i] \in Frame
        PROVE  IsChild(lab, f, i, mem[f][i])'
    <3>1. IsChild(lab, f, i, mem[f][i])
      BY <2>1 DEF Forest, ChildrenPlaced
    <3>2. mem[f][i] # m
      BY ONLY <1>3, <2>1, <3>1, lab[m].own = m DEF IsChild
    <3> QED
      BY ONLY <3>1, <3>2, used' = used \ {m}, mem' = mem DEF IsChild
  <2> QED
    BY ONLY <1>2, <2>1, mem' = mem DEF ChildrenPlaced
<1>6. EntriesGood(lab)'
  BY ONLY <1>2, Forest(lab), mem' = mem DEF Forest, EntriesGood
<1>7. HaveParents(lab)'
  <2>1. ASSUME NEW f \in InTrees(lab), f # m, lab[f].own # f
        PROVE  \E q \in InTrees(lab) \ {m} : \E j \in Index : lab[q].own = lab[f].own /\ mem[q][j] = f
    <3>1. PICK q \in InTrees(lab), j \in Index : lab[q].own = lab[f].own /\ mem[q][j] = f
      BY <2>1 DEF Forest, HaveParents
    <3>2. q # m
      BY ONLY <1>3, <2>1, <3>1, lab[m].own = m
    <3> QED
      BY ONLY <3>1, <3>2
  <2> QED
    BY ONLY <1>2, <2>1, mem' = mem DEF HaveParents
<1>8. PlacesDiffer(lab)'
  BY ONLY <1>2, Forest(lab) DEF Forest, PlacesDiffer
<1>9. ASSUME NEW r, r # m PROVE SameTree(lab, lab, r)
  BY ONLY <1>9, lab[m].own = m, used' = used \ {m}, data' = data DEF SameTree
<1> QED
  BY ONLY <1>1, <1>4, <1>5, <1>6, <1>7, <1>8, <1>9 DEF Forest

\* FreePML4 frees a root: what hung on it is in no tree any more.
LEMMA DropTree ==
    ASSUME ExecTypes, NEW lab, Forest(lab), NEW r \in Frame, lab[r].own = r,
           used' = used \ {r}, data' = data, mem' = mem,
           NEW lab2, lab2 = Dropped(lab, r)
    PROVE  /\ Forest(lab2)'
           /\ \A s : s # r /\ s # NotPresent => SameTree(lab, lab2, s)
<1> USE DEF Dropped
<1>1. used \subseteq Frame /\ lab \in [Frame -> Places]
  BY DEF ExecTypes, Forest
<1>2. \A f \in Frame : lab[f] \in Places
  BY <1>1
<1>3. ASSUME NEW f \in Frame
      PROVE  /\ lab[f].own = r => lab2[f].own = NotPresent
             /\ lab[f].own # r => lab2[f].own = lab[f].own
             /\ lab2[f].lev = lab[f].lev /\ lab2[f].pre = lab[f].pre /\ lab2[f].top = lab[f].top
             /\ lab2[f] \in Places
  <2>1. lab[f] \in Places
    BY <1>2
  <2>2. lab2[f] = IF lab[f].own = r THEN [lab[f] EXCEPT !.own = NotPresent] ELSE lab[f]
    OBVIOUS
  <2> QED
    BY ONLY <2>1, <2>2 DEF Places
<1>4. lab2 \in [Frame -> Places]
  <2>1. lab2 = [f \in Frame |-> lab2[f]]
    OBVIOUS
  <2> QED
    BY ONLY <1>3, <2>1
<1>5. InTrees(lab2)' = {f \in InTrees(lab) : lab[f].own # r}
  <2>1. \A f \in Frame : lab2[f].own \in Frame <=> (lab[f].own \in Frame /\ lab[f].own # r)
    BY ONLY <1>3, EntriesDiffer
  <2> QED
    BY ONLY <1>1, <2>1, used' = used \ {r}, lab[r].own = r DEF InTrees
<1>6. \A f \in InTrees(lab) : f \in used /\ f \in Frame /\ lab[f].own \in Frame
      /\ lab[f].own \in used /\ lab[lab[f].own].own = lab[f].own /\ lab[f].lev <= lab[lab[f].own].lev
  BY <1>1 DEF InTrees, Forest, OwnersAreRoots
<1>7. OwnersAreRoots(lab2)'
  <2>1. ASSUME NEW f \in InTrees(lab), lab[f].own # r
        PROVE  lab2[f].own \in used' /\ lab2[lab2[f].own].own = lab2[f].own /\ lab2[f].lev <= lab2[lab2[f].own].lev
    <3>1. lab2[f].own = lab[f].own /\ lab2[f].lev = lab[f].lev
      BY ONLY <1>3, <1>6, <2>1
    <3>2. lab2[lab[f].own].own = lab[lab[f].own].own /\ lab2[lab[f].own].lev = lab[lab[f].own].lev
      BY ONLY <1>3, <1>6, <2>1
    <3> QED
      BY ONLY <1>6, <2>1, <3>1, <3>2, used' = used \ {r}
  <2> QED
    BY ONLY <1>5, <2>1 DEF OwnersAreRoots
<1>8. ChildrenPlaced(lab2)'
  <2>1. ASSUME NEW f \in InTrees(lab), lab[f].own # r, NEW i \in Index, mem[f][i] \in Frame
        PROVE  IsChild(lab2, f, i, mem[f][i])'
    <3> DEFINE d == mem[f][i]
    <3>1. IsChild(lab, f, i, d)
      BY <2>1 DEF Forest, ChildrenPlaced
    <3>2. lab[d].own # r /\ d # r /\ d \in used
      BY ONLY <2>1, <3>1, lab[r].own = r DEF IsChild
    <3>3. /\ lab2[f].own = lab[f].own
          /\ lab2[f].lev = lab[f].lev /\ lab2[f].pre = lab[f].pre /\ lab2[f].top = lab[f].top
          /\ lab2[d].own = lab[d].own
          /\ lab2[d].lev = lab[d].lev /\ lab2[d].pre = lab[d].pre /\ lab2[d].top = lab[d].top
      BY ONLY <1>3, <1>6, <2>1, <3>2
    <3>4. mem'[f][i] = d
      OBVIOUS
    <3> HIDE DEF d
    <3> QED
      BY ONLY <3>1, <3>2, <3>3, <3>4, used' = used \ {r} DEF IsChild
  <2> QED
    BY ONLY <1>5, <2>1, mem' = mem DEF ChildrenPlaced
<1>9. EntriesGood(lab2)'
  <2>1. ASSUME NEW f \in InTrees(lab), NEW j \in Index
        PROVE  IF lab2[f].lev = kLevels /\ j < kEntries \div 2 THEN mem[f][j] = KernelEntry(j)
               ELSE mem[f][j] \in Frame \cup {NotPresent}
    <3>1. lab2[f].lev = lab[f].lev
      BY ONLY <1>3, <1>6, <2>1
    <3> QED
      BY ONLY <2>1, <3>1, Forest(lab) DEF Forest, EntriesGood
  <2> QED
    BY ONLY <1>5, <2>1, mem' = mem DEF EntriesGood
<1>10. HaveParents(lab2)'
  <2>1. ASSUME NEW f \in InTrees(lab), lab[f].own # r, lab2[f].own # f
        PROVE  \E q \in {g \in InTrees(lab) : lab[g].own # r} : \E j \in Index :
                   lab2[q].own = lab2[f].own /\ mem[q][j] = f
    <3>1. lab2[f].own = lab[f].own
      BY ONLY <1>3, <1>6, <2>1
    <3>2. PICK q \in InTrees(lab), j \in Index : lab[q].own = lab[f].own /\ mem[q][j] = f
      BY <2>1, <3>1 DEF Forest, HaveParents
    <3>3. lab2[q].own = lab[q].own
      BY ONLY <1>3, <1>6, <2>1, <3>2
    <3> QED
      BY ONLY <2>1, <3>1, <3>2, <3>3
  <2> QED
    BY ONLY <1>5, <2>1, mem' = mem DEF HaveParents
<1>11. PlacesDiffer(lab2)'
  <2>1. ASSUME NEW f \in InTrees(lab), NEW g \in InTrees(lab), lab[f].own # r, lab[g].own # r,
               lab2[f].own = lab2[g].own, lab2[f].lev = lab2[g].lev, lab2[f].pre = lab2[g].pre
        PROVE  f = g
    <3>1. lab[f].lev = lab[g].lev /\ lab[f].pre = lab[g].pre /\ lab[f].own = lab[g].own
      BY ONLY <1>3, <1>6, <2>1
    <3> QED
      BY <3>1 DEF Forest, PlacesDiffer
  <2> QED
    BY ONLY <1>5, <2>1 DEF PlacesDiffer
<1>12. ASSUME NEW s, s # r, s # NotPresent PROVE SameTree(lab, lab2, s)
  BY ONLY <1>3, <1>12, EntriesDiffer, used' = used \ {r}, data' = data, lab[r].own = r DEF SameTree
<1> QED
  BY ONLY <1>4, <1>7, <1>8, <1>9, <1>10, <1>11, <1>12 DEF Forest

-----------------------------------------------------------------------------
(* The invariant. *)

\* ExecuteFile runs on a page map of its own: its root, until it is freed.
Busy(t) == run[t].op \in BusyOps
RootOf(t) == IF run[t].op = "free" THEN run[t].map ELSE CR3(t)

\* The kernel's own map never changes.
KernelMapped == mem[KernelPML4] = [i \in Index |-> KernelEntry(i)]

\* Every task runs on the kernel's map or on a root, and a task in ExecuteFile on
\* one that no other task has.
RunOnRoots(lab) == \A t \in Task : CR3(t) = KernelPML4 \/ IsRoot(lab, CR3(t), kLevels)
RootsApart(lab) ==
    \A t \in Task : Busy(t) =>
        /\ IsRoot(lab, RootOf(t), kLevels)
        /\ \A u \in Task \ {t} : CR3(u) # RootOf(t) /\ (Busy(u) => RootOf(u) # RootOf(t))
Registers ==
    /\ run[cur].op \in BusyOps \ {"reset", "free"} => context[cur] = cr3
    /\ \A t \in Task : run[t].op = "reset" => run[t].map = CR3(t)
    /\ \A t \in Task : run[t].op = "free" => CR3(t) = KernelPML4
CleanMaps(lab) ==
    /\ \A t \in Task : run[t].op = "clean" => IsRoot(lab, run[t].map, kLevels - 1)
    /\ \A t, u \in Task :
          t # u /\ run[t].op = "clean" /\ run[u].op = "clean" => run[t].map # run[u].map

\* What ExecuteFile has taken is the tree, and the subtree it is cleaning.
TakenIs(lab, t) ==
    /\ Busy(t) => taken[t] = {f \in used : \/ lab[f].own = RootOf(t)
                                           \/ run[t].op = "clean" /\ lab[f].own = run[t].map}
    /\ run[t].op = "pml4" => taken[t] = {}
    /\ run[t].op = "idle" /\ ~run[t].ok /\ taken[t] # {} => taken[t] = TreeOf(lab, CR3(t))
    /\ run[t].op = "idle" /\ run[t].ok =>
          Cardinality(taken[t]) = FramesFor(KeptPages(run[t].prog))

\* Before and after the subtree of the first load address is unlinked.
LoadOps == {"load", "map", "mapped", "app", "syscall", "kill", "kill_hit"}
AfterOps == {"clean", "drop", "reset", "free"}

\* The tree has nothing but the program's pages and the maps above them, and in the
\* end nothing on the entry cleaned.
CoversProgram(lab, t) ==
    Busy(t) => \A f \in used : lab[f].own = RootOf(t) /\ f # RootOf(t) =>
        /\ \E g \in ProgramPages(run[t].prog) :
              lab[f].pre = g \div Span[lab[f].lev] /\ lab[f].top = TopOf(g)
        /\ run[t].op \in AfterOps => lab[f].top # LoadEntry(run[t].prog)

\* The pages that are asked for with part i of a program, and those it consists of.
FirstPage(p, i) == IF i <= Len(p.segs) THEN p.segs[i].vaddr \div kPageBytes ELSE Pages - (i - Len(p.segs))
PagesAsked(p, i) == IF i <= Len(p.segs) THEN NumPages(p.segs[i].memsz) ELSE 1
PartPages(p, i) == IF i <= Len(p.segs) THEN Touched(p.segs[i]) ELSE {Pages - (i - Len(p.segs))}

\* The pages asked for so far have frames, and the maps above them.
Progress(lab, t) ==
    LET c == run[t]
        r == RootOf(t)
    IN  /\ Busy(t) /\ c.op # "load" => Loadable(c.prog)
        /\ c.op \in {"map", "mapped"} =>
              /\ c.seg \in 1..(Len(c.prog.segs) + 2)
              /\ \A i \in 1..(c.seg - 1) : \A g \in PartPages(c.prog, i) : Have(lab, r, g)
        /\ c.op = "map" =>
              /\ c.left > 0 /\ FirstPage(c.prog, c.seg) <= c.page
              /\ c.page + c.left = FirstPage(c.prog, c.seg) + PagesAsked(c.prog, c.seg)
              /\ \A g \in FirstPage(c.prog, c.seg)..(c.page - 1) : Have(lab, r, g)
        /\ c.op = "mapped" =>
              \A g \in FirstPage(c.prog, c.seg)..(FirstPage(c.prog, c.seg) + PagesAsked(c.prog, c.seg) - 1) :
                  Have(lab, r, g)
        /\ c.op \in {"app", "syscall", "kill", "kill_hit"} => \A g \in ProgramPages(c.prog) : Have(lab, r, g)
        /\ c.op \in AfterOps => \A g \in KeptPages(c.prog) : Have(lab, r, g)

\* The segments copied so far are in the frames of their pages.
Holds(lab, r, i, g) ==
    \E f \in used : lab[f].own = r /\ lab[f].lev = 0 /\ lab[f].pre = g /\ i \in data[f]
Copied(lab, t) ==
    run[t].op \in {"map", "mapped", "app", "syscall"} =>
        \A i \in 1..Len(run[t].prog.segs) : run[t].op \in {"app", "syscall"} \/ i < run[t].seg =>
            \A g \in Touched(run[t].prog.segs[i]) : Holds(lab, RootOf(t), i, g)

\* MakeArgVector has accepted the arguments; the descriptors are the program's.
ArgsFit(t) ==
    \/ run[t].op \in {"app", "syscall"}
    \/ run[t].op \in {"map", "mapped"} /\ run[t].seg = Len(run[t].prog.segs) + 2
    => ~ArgsFull(run[t].prog.args)

FilesAre(t) ==
    /\ run[t].op \notin {"app", "syscall", "kill", "kill_hit"} => files[t] = <<>>
    /\ run[t].op \in {"app", "syscall"} =>
          /\ Len(files[t]) >= 3
          /\ \A i \in 1..Len(files[t]) : files[t][i] = IF i <= 3 THEN "std" ELSE "file"

\* What holds of each task, of the page maps, and of the machine, with the frames placed
\* by lab.
TaskInv(lab, t) ==
    /\ TakenIs(lab, t)
    /\ CoversProgram(lab, t)
    /\ Progress(lab, t)
    /\ Copied(lab, t)
    /\ ArgsFit(t)
    /\ FilesAre(t)

MapsInv(lab) ==
    /\ RunOnRoots(lab)
    /\ RootsApart(lab)
    /\ Registers
    /\ CleanMaps(lab)

ExecInvOf(lab) ==
    /\ ExecTypes
    /\ KernelMapped
    /\ Forest(lab)
    /\ MapsInv(lab)
    /\ \A t \in Task : TaskInv(lab, t)
    /\ HaltedForCause
ExecInv == \E lab : ExecInvOf(lab)

-----------------------------------------------------------------------------
(* What leaves a task alone. *)

\* A tree that is as it was has the pages and the bytes that it had.
LEMMA HaveKept ==
    ASSUME NEW lab, NEW lab2, NEW r, SameTree(lab, lab2, r), used \subseteq Frame, NEW g
    PROVE  /\ Have(lab, r, g) => Have(lab2, r, g)'
           /\ \A i : Holds(lab, r, i, g) => Holds(lab2, r, i, g)'
           /\ TreeOf(lab2, r)' = TreeOf(lab, r) \/ ~(used' \subseteq Frame)
<1>1. ASSUME NEW f \in used, lab[f].own = r
      PROVE  /\ f \in used' /\ lab2[f].own = r /\ lab2[f].lev = lab[f].lev /\ lab2[f].pre = lab[f].pre
             /\ lab2[f].top = lab[f].top /\ data[f] \subseteq data'[f]
  BY <1>1 DEF SameTree
<1>2. Have(lab, r, g) => Have(lab2, r, g)'
  BY ONLY <1>1 DEF Have
<1>3. \A i : Holds(lab, r, i, g) => Holds(lab2, r, i, g)'
  BY ONLY <1>1 DEF Holds
<1>4. used' \subseteq Frame => TreeOf(lab2, r)' = TreeOf(lab, r)
  BY DEF SameTree, TreeOf
<1> QED
  BY <1>2, <1>3, <1>4

\* A task whose variables and trees are as they were keeps its part of the invariant.
LEMMA TaskKept ==
    ASSUME NEW lab, NEW lab2, NEW t \in Task, TaskInv(lab, t),
           used \subseteq Frame, used' \subseteq Frame,
           run'[t] = run[t], CR3(t)' = CR3(t), taken'[t] = taken[t], files'[t] = files[t],
           SameTree(lab, lab2, CR3(t)),
           run[t].op \in {"clean", "free"} => SameTree(lab, lab2, run[t].map)
    PROVE  TaskInv(lab2, t)'
<1> DEFINE r == RootOf(t)
<1>1. RootOf(t)' = r /\ SameTree(lab, lab2, r)
  BY DEF RootOf
<1>2. ASSUME NEW s, SameTree(lab, lab2, s), NEW f
      PROVE  /\ (f \in used' /\ lab2[f].own = s) <=> (f \in used /\ lab[f].own = s)
             /\ f \in used /\ lab[f].own = s =>
                  lab2[f].lev = lab[f].lev /\ lab2[f].pre = lab[f].pre /\ lab2[f].top = lab[f].top
  BY <1>2 DEF SameTree
<1>3. ASSUME NEW g PROVE Have(lab, r, g) => Have(lab2, r, g)'
  BY <1>1, HaveKept
<1>4. ASSUME NEW g, NEW i PROVE Holds(lab, r, i, g) => Holds(lab2, r, i, g)'
  BY <1>1, HaveKept
<1>5. TreeOf(lab2, CR3(t))' = TreeOf(lab, CR3(t))
  BY ONLY <1>2, SameTree(lab, lab2, CR3(t)), CR3(t)' = CR3(t) DEF TreeOf
<1> HIDE DEF r
<1>6. TakenIs(lab2, t)'
  <2>1. {f \in used' : lab2[f].own = r \/ (run[t].op = "clean" /\ lab2[f].own = run[t].map)}
        = {f \in used : lab[f].own = r \/ (run[t].op = "clean" /\ lab[f].own = run[t].map)}
    BY ONLY <1>1, <1>2, run[t].op \in {"clean", "free"} => SameTree(lab, lab2, run[t].map)
  <2> QED
    BY ONLY <1>1, <1>5, <2>1, TaskInv(lab, t), run'[t] = run[t], taken'[t] = taken[t]
    DEF TakenIs, TaskInv, Busy, r
<1>7. CoversProgram(lab2, t)'
  BY ONLY <1>1, <1>2, TaskInv(lab, t), run'[t] = run[t] DEF CoversProgram, TaskInv, Busy, r
<1>8. Progress(lab2, t)'
  BY ONLY <1>1, <1>3, TaskInv(lab, t), run'[t] = run[t] DEF Progress, TaskInv, Busy, r
<1>9. Copied(lab2, t)'
  BY ONLY <1>1, <1>4, TaskInv(lab, t), run'[t] = run[t] DEF Copied, TaskInv, r
<1>10. ArgsFit(t)' /\ FilesAre(t)'
  BY ONLY TaskInv(lab, t), run'[t] = run[t], files'[t] = files[t] DEF ArgsFit, FilesAre, TaskInv
<1> QED
  BY ONLY <1>6, <1>7, <1>8, <1>9, <1>10 DEF TaskInv

-----------------------------------------------------------------------------
(* The pages of a program. *)

\* The pages asked for with a part of a program are pages of that part.
LEMMA PartPagesAre ==
    ASSUME NEW p \in Program, Loadable(p), NEW i \in 1..(Len(p.segs) + 2)
    PROVE  /\ FirstPage(p, i) \in Nat /\ PagesAsked(p, i) \in Nat \ {0}
           /\ FirstPage(p, i) + PagesAsked(p, i) <= Pages
           /\ FirstPage(p, i)..(FirstPage(p, i) + PagesAsked(p, i) - 1) \subseteq PartPages(p, i)
           /\ PartPages(p, i) \subseteq Upper
           /\ PartPages(p, i) \subseteq ProgramPages(p)
           /\ i > Len(p.segs) =>
                 PartPages(p, i) = FirstPage(p, i)..(FirstPage(p, i) + PagesAsked(p, i) - 1)
<1>1. Len(p.segs) \in Nat
  BY ProgramIs
<1>2. CASE i <= Len(p.segs)
  <2>1. i \in 1..Len(p.segs)
    BY <1>1, <1>2
  <2> DEFINE a == p.segs[i].vaddr \div kPageBytes
             b == (p.segs[i].vaddr + p.segs[i].memsz - 1) \div kPageBytes
             n == NumPages(p.segs[i].memsz)
  <2>2. /\ Touched(p.segs[i]) = a..b
        /\ a \in Nat /\ b \in Nat /\ n \in Nat \ {0}
        /\ a >= Pages \div 2 /\ b < Pages - 2
        /\ a + n - 1 <= b
    BY <2>1, LoadableIs
  <2>3. FirstPage(p, i) = a /\ PagesAsked(p, i) = n /\ PartPages(p, i) = a..b
    BY <1>2, <2>2 DEF FirstPage, PagesAsked, PartPages
  <2>4. PartPages(p, i) \subseteq ProgramPages(p)
    BY <2>1, <2>2, <2>3 DEF ProgramPages
  <2> HIDE DEF a, b, n
  <2>5. a + n <= Pages /\ a..(a + n - 1) \subseteq a..b /\ a..b \subseteq Upper
    <3>1. Pages \in Nat /\ Pages \div 2 \in Nat
      BY PagesIs
    <3>2. a + n <= Pages /\ a + n - 1 <= b /\ b <= Pages - 1
      BY ONLY <2>2, <3>1
    <3> QED
      BY ONLY <2>2, <3>1, <3>2 DEF Upper
  <2> QED
    BY <1>1, <1>2, <2>2, <2>3, <2>4, <2>5
<1>3. CASE i > Len(p.segs)
  <2>1. Pages - (i - Len(p.segs)) \in {Pages - 1, Pages - 2}
    <3>1. i - Len(p.segs) = 1 \/ i - Len(p.segs) = 2
      BY <1>1, <1>3
    <3> QED
      BY ONLY <3>1
  <2>2. FirstPage(p, i) = Pages - (i - Len(p.segs)) /\ PagesAsked(p, i) = 1
        /\ PartPages(p, i) = {Pages - (i - Len(p.segs))}
    BY <1>1, <1>3 DEF FirstPage, PagesAsked, PartPages
  <2>3. {Pages - 1, Pages - 2} \subseteq Upper /\ {Pages - 1, Pages - 2} \subseteq ProgramPages(p)
    <3>1. Pages \in Nat /\ Pages >= 4 /\ Pages \div 2 <= Pages - 2
      BY PagesIs
    <3>2. {Pages - 1, Pages - 2} \subseteq Upper
      BY ONLY <3>1 DEF Upper
    <3>3. {Pages - 1, Pages - 2} \subseteq ProgramPages(p)
      BY ONLY Zenon DEF ProgramPages
    <3> QED
      BY <3>2, <3>3
  <2> HIDE DEF FirstPage, PagesAsked, PartPages
  <2> DEFINE a == Pages - (i - Len(p.segs))
  <2>4. a \in Nat /\ a + 1 <= Pages /\ a + 1 - 1 = a
    BY <2>1, PagesIs
  <2> HIDE DEF a
  <2>5. a..a = {a}
    BY <2>4
  <2> QED
    BY <2>1, <2>2, <2>3, <2>4, <2>5 DEF a
<1> QED
  BY <1>1, <1>2, <1>3

\* A program's pages are those of its parts, all in the upper half, and the first
\* of them hangs on the entry that CleanPageMaps clears.
LEMMA ProgramPagesAre ==
    ASSUME NEW p \in Program, Loadable(p)
    PROVE  /\ ProgramPages(p) \subseteq Upper
           /\ \A g \in ProgramPages(p) : \E i \in 1..(Len(p.segs) + 2) : g \in PartPages(p, i)
           /\ LoadEntry(p) \in Index /\ LoadEntry(p) >= kEntries \div 2
           /\ 1 \in 1..Len(p.segs)
           /\ FirstPage(p, 1) \in ProgramPages(p) /\ TopOf(FirstPage(p, 1)) = LoadEntry(p)
           /\ KeptPages(p) = {g \in ProgramPages(p) : TopOf(g) # LoadEntry(p)}
<1>1. Len(p.segs) \in Nat /\ DOMAIN p.segs = 1..Len(p.segs)
  BY ProgramIs
<1>2. 1 \in 1..Len(p.segs) /\ p.segs # <<>>
  BY <1>1, ProgramAssumption DEF Loadable
<1>3. ASSUME NEW g \in ProgramPages(p)
      PROVE  \E i \in 1..(Len(p.segs) + 2) : g \in PartPages(p, i)
  <2>1. CASE g = Pages - 1
    <3>1. g \in PartPages(p, Len(p.segs) + 1)
      BY <1>1, <2>1 DEF PartPages
    <3> QED
      BY <1>1, <3>1
  <2>2. CASE g = Pages - 2
    <3>1. g \in PartPages(p, Len(p.segs) + 2)
      BY <1>1, <2>2 DEF PartPages
    <3> QED
      BY <1>1, <3>1
  <2>3. ASSUME NEW i \in 1..Len(p.segs), g \in Touched(p.segs[i])
        PROVE  i \in 1..(Len(p.segs) + 2) /\ g \in PartPages(p, i)
    BY <1>1, <2>3 DEF PartPages
  <2>4. \/ g = Pages - 1 \/ g = Pages - 2
        \/ \E i \in 1..Len(p.segs) : g \in Touched(p.segs[i])
    BY g \in ProgramPages(p), Zenon DEF ProgramPages
  <2> QED
    BY ONLY <2>1, <2>2, <2>3, <2>4
<1>4. ProgramPages(p) \subseteq Upper
  BY <1>3, PartPagesAre
<1>5. 1 \in 1..(Len(p.segs) + 2) /\ 1 <= Len(p.segs)
  BY <1>1, <1>2
<1>6. FirstPage(p, 1) \in ProgramPages(p)
  <2>1. FirstPage(p, 1) \in FirstPage(p, 1)..(FirstPage(p, 1) + PagesAsked(p, 1) - 1)
    BY <1>5, PartPagesAre
  <2> QED
    BY <1>5, <2>1, PartPagesAre
<1>7. LoadEntry(p) = Part(FirstPage(p, 1), kLevels)
  BY <1>2, <1>5 DEF LoadEntry, FirstPage, GetFirstLoadAddress
<1>8. \A g \in ProgramPages(p) : Part(g, kLevels) = TopOf(g) /\ TopOf(g) \in Index /\ TopOf(g) >= kEntries \div 2
  BY <1>4, UpperIs
<1> QED
  BY <1>2, <1>3, <1>4, <1>6, <1>7, <1>8 DEF KeptPages

-----------------------------------------------------------------------------
(* A step of the task that runs. *)

\* What the others have is as it was.
OthersAlone(lab, lab2) ==
    /\ cur' = cur
    /\ \A u \in Task \ {cur} :
          /\ run'[u] = run[u] /\ taken'[u] = taken[u] /\ files'[u] = files[u]
          /\ context'[u] = context[u]
          /\ SameTree(lab, lab2, CR3(u))
          /\ run[u].op \in {"clean", "free"} => SameTree(lab, lab2, run[u].map)

\* What becomes of the roots of the task that runs.
RootsMove(lab2) ==
    /\ cr3' = KernelPML4 \/ IsRoot(lab2, cr3, kLevels)'
    /\ \A u \in Task \ {cur} : Busy(u) => cr3' # RootOf(u)
    /\ Busy(cur)' =>
          /\ IsRoot(lab2, RootOf(cur), kLevels)'
          /\ \A u \in Task \ {cur} : CR3(u) # RootOf(cur)' /\ (Busy(u) => RootOf(u) # RootOf(cur)')
    /\ run'[cur].op \in BusyOps \ {"reset", "free"} => context'[cur] = cr3'
    /\ run'[cur].op = "reset" => run'[cur].map = cr3'
    /\ run'[cur].op = "free" => cr3' = KernelPML4
    /\ run'[cur].op = "clean" =>
          /\ IsRoot(lab2, run[cur].map, kLevels - 1)'
          /\ \A u \in Task \ {cur} : run[u].op = "clean" => run[u].map # run'[cur].map

\* The root of a tree that is as it was is still one.
LEMMA RootKept ==
    ASSUME NEW lab, NEW lab2, NEW r, NEW l, SameTree(lab, lab2, r), IsRoot(lab, r, l), used \subseteq Frame
    PROVE  IsRoot(lab2, r, l)'
BY DEF SameTree, IsRoot

\* The roots of all tasks after a step of the one that runs.
LEMMA MapsStep ==
    ASSUME NEW lab, NEW lab2, ExecInvOf(lab), OthersAlone(lab, lab2), RootsMove(lab2)
    PROVE  MapsInv(lab2)'
<1> DEFINE t == cur
<1>1. /\ used \subseteq Frame /\ t \in Task
      /\ RunOnRoots(lab) /\ RootsApart(lab) /\ Registers /\ CleanMaps(lab)
  BY DEF ExecInvOf, ExecTypes, MapsInv
<1>2. CR3(t)' = cr3' /\ t' = t
  BY DEF OthersAlone, CR3
<1>3. ASSUME NEW u \in Task \ {t}
      PROVE  /\ CR3(u)' = CR3(u) /\ run'[u] = run[u] /\ RootOf(u)' = RootOf(u) /\ (Busy(u)' <=> Busy(u))
             /\ SameTree(lab, lab2, CR3(u)) /\ SameTree(lab, lab2, RootOf(u))
             /\ run[u].op \in {"clean", "free"} => SameTree(lab, lab2, run[u].map)
  BY DEF OthersAlone, CR3, RootOf, Busy
<1>4. \A u \in Task : u = t \/ u \in Task \ {t}
  OBVIOUS
<1>5. RunOnRoots(lab2)'
  <2>1. ASSUME NEW u \in Task \ {t} PROVE (CR3(u) = KernelPML4 \/ IsRoot(lab2, CR3(u), kLevels))'
    <3>1. CR3(u) = KernelPML4 \/ IsRoot(lab, CR3(u), kLevels)
      BY <1>1 DEF RunOnRoots
    <3>2. IsRoot(lab, CR3(u), kLevels) => IsRoot(lab2, CR3(u), kLevels)'
      <4>1. ASSUME NEW r, r = CR3(u), IsRoot(lab, r, kLevels) PROVE IsRoot(lab2, r, kLevels)'
        BY ONLY <1>1, <1>3, <4>1, RootKept
      <4> QED
        BY ONLY <1>3, <4>1 DEF IsRoot
    <3> QED
      BY ONLY <1>3, <3>1, <3>2
  <2>2. (CR3(t) = KernelPML4 \/ IsRoot(lab2, CR3(t), kLevels))'
    BY <1>2 DEF RootsMove, IsRoot
  <2> QED
    BY ONLY <1>2, <1>4, <2>1, <2>2 DEF RunOnRoots
<1>6. RootsApart(lab2)'
  <2>1. ASSUME NEW u \in Task \ {t}, Busy(u)
        PROVE  /\ IsRoot(lab2, RootOf(u), kLevels)'
               /\ \A v \in Task \ {u} : CR3(v)' # RootOf(u)' /\ (Busy(v)' => RootOf(v)' # RootOf(u)')
    <3>1. IsRoot(lab, RootOf(u), kLevels)
          /\ \A v \in Task \ {u} : CR3(v) # RootOf(u) /\ (Busy(v) => RootOf(v) # RootOf(u))
      BY <1>1, <2>1 DEF RootsApart
    <3>2. IsRoot(lab2, RootOf(u), kLevels)'
      <4>1. ASSUME NEW r, r = RootOf(u) PROVE IsRoot(lab2, r, kLevels)'
        BY ONLY <1>1, <1>3, <3>1, <4>1, RootKept
      <4> QED
        BY ONLY <1>3, <4>1 DEF IsRoot
    <3>3. CR3(t)' # RootOf(u) /\ (Busy(t)' => RootOf(t)' # RootOf(u))
      BY <1>2, <2>1 DEF RootsMove
    <3> QED
      BY ONLY <1>2, <1>3, <1>4, <3>1, <3>2, <3>3
  <2>2. Busy(t)' => /\ IsRoot(lab2, RootOf(t), kLevels)'
                    /\ \A v \in Task \ {t} : CR3(v)' # RootOf(t)' /\ (Busy(v)' => RootOf(v)' # RootOf(t)')
    BY <1>3 DEF RootsMove
  <2> QED
    BY ONLY <1>2, <1>3, <1>4, <2>1, <2>2 DEF RootsApart
<1>7. Registers'
  <2>1. run'[t].op \in BusyOps \ {"reset", "free"} => context'[t] = cr3'
    BY DEF RootsMove
  <2>2. run'[t].op = "reset" => run'[t].map = CR3(t)'
    BY <1>2 DEF RootsMove
  <2>3. run'[t].op = "free" => CR3(t)' = KernelPML4
    BY <1>2 DEF RootsMove
  <2>4. ASSUME NEW u \in Task \ {t}
        PROVE  /\ run'[u].op = "reset" => run'[u].map = CR3(u)'
               /\ run'[u].op = "free" => CR3(u)' = KernelPML4
    BY <1>1, <1>3 DEF Registers
  <2> QED
    BY ONLY <1>2, <1>4, <2>1, <2>2, <2>3, <2>4 DEF Registers
<1>8. CleanMaps(lab2)'
  <2>1. ASSUME NEW u \in Task \ {t}, run[u].op = "clean" PROVE IsRoot(lab2, run[u].map, kLevels - 1)'
    <3>1. IsRoot(lab, run[u].map, kLevels - 1)
      BY <1>1, <2>1 DEF CleanMaps
    <3>2. ASSUME NEW r, r = run[u].map PROVE IsRoot(lab2, r, kLevels - 1)'
      BY ONLY <1>1, <1>3, <2>1, <3>1, <3>2, RootKept
    <3> QED
      BY ONLY <1>3, <3>2 DEF IsRoot
  <2>2. run'[t].op = "clean" =>
          /\ IsRoot(lab2, run[t].map, kLevels - 1)'
          /\ \A u \in Task \ {t} : run[u].op = "clean" => run[u].map # run'[t].map
    BY DEF RootsMove
  <2>3. \A u, v \in Task \ {t} : u # v /\ run[u].op = "clean" /\ run[v].op = "clean" => run[u].map # run[v].map
    BY <1>1 DEF CleanMaps
  <2> QED
    BY ONLY <1>2, <1>3, <1>4, <2>1, <2>2, <2>3 DEF CleanMaps
<1> QED
  BY ONLY <1>5, <1>6, <1>7, <1>8 DEF MapsInv

\* A step of the task that runs keeps the invariant if it leaves the others alone and
\* keeps the task's own part.
LEMMA CurStep ==
    ASSUME NEW lab, NEW lab2, ExecInvOf(lab), OthersAlone(lab, lab2), RootsMove(lab2),
           ExecTypes', Forest(lab2)', KernelMapped', TaskInv(lab2, cur)', HaltedForCause'
    PROVE  ExecInv'
<1>1. MapsInv(lab2)'
  BY ONLY MapsStep, ExecInvOf(lab), OthersAlone(lab, lab2), RootsMove(lab2)
<1>2. ASSUME NEW u \in Task \ {cur} PROVE TaskInv(lab2, u)'
  <2>1. TaskInv(lab, u) /\ used \subseteq Frame /\ used' \subseteq Frame
    BY DEF ExecInvOf, ExecTypes
  <2>2. CR3(u)' = CR3(u) /\ run'[u] = run[u] /\ taken'[u] = taken[u] /\ files'[u] = files[u]
        /\ SameTree(lab, lab2, CR3(u))
        /\ (run[u].op \in {"clean", "free"} => SameTree(lab, lab2, run[u].map))
    BY DEF OthersAlone, CR3
  <2> QED
    BY ONLY <2>1, <2>2, u \in Task, TaskKept
<1>3. \A u \in Task : TaskInv(lab2, u)'
  BY <1>2 DEF OthersAlone
<1>4. ExecInvOf(lab2)'
  BY ONLY <1>1, <1>3, ExecTypes', Forest(lab2)', KernelMapped', HaltedForCause' DEF ExecInvOf
<1> QED
  BY ONLY <1>4 DEF ExecInv

\* At first no frame is in use.
LEMMA ExecInitInv ==
    ASSUME ExecInit
    PROVE  ExecInv
<1> DEFINE nowhere == [own |-> NotPresent, lev |-> 0, pre |-> 0, top |-> 0]
           lab == [f \in Frame |-> nowhere]
           p0 == CHOOSE p \in Program : TRUE
<1>1. p0 \in Program
  BY ProgramAssumption
<1>2. ExecTypes
  <2>1. 0 \in Index /\ kLevels \in Nat
    BY ShapeAssumption DEF Index
  <2>2. EmptyMap \in [Index -> Frame \cup {NotPresent, IdentityMap}]
    BY DEF EmptyMap
  <2>3. [EmptyMap EXCEPT ![0] = IdentityMap] \in [Index -> Frame \cup {NotPresent, IdentityMap}]
    BY <2>1, <2>2
  <2>4. mem \in [Frame \cup {KernelPML4} -> [Index -> Frame \cup {NotPresent, IdentityMap}]]
    BY <2>2, <2>3 DEF ExecInit
  <2>5. Returned(p0, FALSE) \in RunTypes
    BY <1>1 DEF Returned, RunTypes
  <2>6. run \in [Task -> RunTypes]
    BY <2>5 DEF ExecInit
  <2>7. IsFiniteSet(used)
    BY FS_EmptySet DEF ExecInit
  <2>8. files \in [Task -> Seq({"std", "file"})]
    BY DEF ExecInit
  <2> QED
    BY <2>4, <2>6, <2>7, <2>8 DEF ExecInit, ExecTypes
<1>3. KernelMapped
  <2>1. mem[KernelPML4] = [EmptyMap EXCEPT ![0] = IdentityMap]
    BY DEF ExecInit
  <2>2. 0 \in Index
    BY ShapeAssumption DEF Index
  <2> QED
    BY <2>1, <2>2 DEF KernelMapped, EmptyMap, KernelEntry
<1>4. InTrees(lab) = {}
  BY DEF ExecInit, InTrees
<1>5. Forest(lab)
  <2>1. nowhere \in Places
    BY ShapeAssumption DEF Places
  <2> QED
    BY <1>4, <2>1 DEF Forest, OwnersAreRoots, ChildrenPlaced, EntriesGood, HaveParents, PlacesDiffer
<1>6. \A t \in Task : run[t].op = "idle" /\ run[t].ok = FALSE
                       /\ taken[t] = {} /\ files[t] = <<>> /\ CR3(t) = KernelPML4
  BY DEF ExecInit, Returned, CR3
<1>7. MapsInv(lab)
  BY ONLY <1>2, <1>6 DEF MapsInv, RunOnRoots, RootsApart, Registers, CleanMaps, Busy, BusyOps, ExecTypes
<1>8. ASSUME NEW t \in Task PROVE TaskInv(lab, t)
  BY ONLY <1>6, <1>8
  DEF TaskInv, TakenIs, CoversProgram, Progress, Copied, ArgsFit, FilesAre, Busy, BusyOps, AfterOps
<1>9. HaltedForCause
  BY DEF HaltedForCause, ExecInit
<1> HIDE DEF lab
<1> QED
  BY ONLY <1>2, <1>3, <1>5, <1>7, <1>8, <1>9 DEF ExecInv, ExecInvOf

\* A step that leaves all page maps alone.
MapsAlone ==
    /\ cur' = cur /\ cr3' = cr3 /\ mem' = mem /\ used' = used
    /\ \A f \in Frame : data[f] \subseteq data'[f]
    /\ \A u \in Task \ {cur} : /\ run'[u] = run[u] /\ taken'[u] = taken[u] /\ files'[u] = files[u]
                               /\ context'[u] = context[u]
    /\ data' \in [Frame -> SUBSET Nat]
    /\ run' \in [Task -> RunTypes]
    /\ files' \in [Task -> Seq({"std", "file"})]
    /\ taken' \in [Task -> SUBSET Frame]
    /\ context' \in [Task -> Frame \cup {KernelPML4, NotPresent}]

\* It keeps the trees, under the same places.
LEMMA MapsAloneKeeps ==
    ASSUME NEW lab, ExecInvOf(lab), MapsAlone
    PROVE  /\ \A r : SameTree(lab, lab, r)
           /\ OthersAlone(lab, lab) /\ ExecTypes' /\ Forest(lab)' /\ KernelMapped'
<1>1. \A r : SameTree(lab, lab, r)
  BY DEF SameTree, MapsAlone
<1>2. OthersAlone(lab, lab)
  BY <1>1 DEF OthersAlone, MapsAlone
<1>3. ExecTypes'
  BY DEF ExecInvOf, ExecTypes, MapsAlone
<1>4. Forest(lab)'
  BY DEF ExecInvOf, MapsAlone, Forest, OwnersAreRoots, ChildrenPlaced, IsChild, EntriesGood,
         HaveParents, PlacesDiffer, InTrees
<1>5. KernelMapped'
  BY DEF ExecInvOf, MapsAlone, KernelMapped
<1> QED
  BY <1>1, <1>2, <1>3, <1>4, <1>5

\* ExecuteFile between the new page map and the end of the program, when it takes
\* no frame.
LEMMA LoadStep ==
    ASSUME NEW lab, ExecInvOf(lab), MapsAlone, taken'[cur] = taken[cur], context'[cur] = context[cur],
           run[cur].op \in LoadOps, run'[cur].op \in LoadOps, run'[cur].prog = run[cur].prog,
           Progress(lab, cur)', Copied(lab, cur)', ArgsFit(cur)', FilesAre(cur)', HaltedForCause'
    PROVE  ExecInv'
<1>1. /\ OthersAlone(lab, lab) /\ ExecTypes' /\ Forest(lab)' /\ KernelMapped' /\ used' = used
      /\ cur' = cur /\ cr3' = cr3
  BY MapsAloneKeeps DEF MapsAlone
<1>2. /\ cur \in Task /\ Busy(cur) /\ Busy(cur)' /\ RootOf(cur) = cr3 /\ RootOf(cur)' = cr3 /\ CR3(cur) = cr3
      /\ run[cur].op \notin {"clean", "free", "pml4", "idle", "reset"}
      /\ run'[cur].op \notin {"clean", "free", "pml4", "idle", "reset"} \cup AfterOps
  BY <1>1 DEF ExecInvOf, ExecTypes, Busy, BusyOps, LoadOps, RootOf, CR3, AfterOps
<1>3. RunOnRoots(lab) /\ RootsApart(lab) /\ Registers /\ TakenIs(lab, cur) /\ CoversProgram(lab, cur)
  BY <1>2 DEF ExecInvOf, MapsInv, TaskInv
<1>4. RootsMove(lab)
  <2>1. IsRoot(lab, cr3, kLevels)
        /\ \A u \in Task \ {cur} : CR3(u) # cr3 /\ (Busy(u) => RootOf(u) # cr3)
    BY <1>2, <1>3 DEF RootsApart
  <2>2. IsRoot(lab, cr3, kLevels)'
    BY <1>1, <2>1 DEF IsRoot
  <2>3. context[cur] = cr3
    BY <1>2, <1>3 DEF Registers, Busy
  <2> QED
    BY ONLY <1>1, <1>2, <2>1, <2>2, <2>3, context'[cur] = context[cur] DEF RootsMove
<1>5. TakenIs(lab, cur)'
  BY ONLY <1>1, <1>2, <1>3, taken'[cur] = taken[cur] DEF TakenIs
<1>6. CoversProgram(lab, cur)'
  BY ONLY <1>1, <1>2, <1>3, run'[cur].prog = run[cur].prog DEF CoversProgram
<1>7. TaskInv(lab, cur)'
  BY ONLY <1>5, <1>6, Progress(lab, cur)', Copied(lab, cur)', ArgsFit(cur)', FilesAre(cur)' DEF TaskInv
<1> QED
  BY ONLY <1>1, <1>4, <1>7, ExecInvOf(lab), HaltedForCause', CurStep

\* An early return: the task stays on the page map it has.
LEMMA FailStep ==
    ASSUME NEW lab, ExecInvOf(lab), ~halted, cur' = cur, Fail(cur),
           run[cur].op \in {"pml4", "load", "map", "mapped"}
    PROVE  ExecInv'
<1>1. /\ cur \in Task /\ run[cur] \in RunTypes /\ run \in [Task -> RunTypes]
      /\ data \in [Frame -> SUBSET Nat] /\ files \in [Task -> Seq({"std", "file"})]
      /\ taken \in [Task -> SUBSET Frame] /\ context \in [Task -> Frame \cup {KernelPML4, NotPresent}]
  BY DEF ExecInvOf, ExecTypes
<1>2. Returned(run[cur].prog, FALSE) \in RunTypes
  BY <1>1 DEF RunTypes, Returned
<1>3. /\ run'[cur] = Returned(run[cur].prog, FALSE) /\ run' \in [Task -> RunTypes]
      /\ \A u \in Task \ {cur} : run'[u] = run[u]
      /\ cr3' = cr3 /\ context' = context /\ mem' = mem /\ data' = data /\ used' = used
      /\ files' = files /\ taken' = taken /\ halted' = halted
  BY <1>1, <1>2 DEF Fail
<1>4. MapsAlone
  BY ONLY <1>1, <1>3, cur' = cur DEF MapsAlone
<1>5. OthersAlone(lab, lab) /\ ExecTypes' /\ Forest(lab)' /\ KernelMapped'
  BY <1>4, MapsAloneKeeps
<1>6. /\ run'[cur].op = "idle" /\ ~Busy(cur)' /\ run'[cur].ok = FALSE
      /\ CR3(cur) = cr3 /\ CR3(cur)' = cr3
  BY <1>3, cur' = cur DEF Returned, Busy, BusyOps, CR3
<1>7. RunOnRoots(lab) /\ RootsApart(lab) /\ TakenIs(lab, cur) /\ FilesAre(cur)
  BY <1>1 DEF ExecInvOf, MapsInv, TaskInv
<1>8. RootsMove(lab)
  <2>1. cr3 = KernelPML4 \/ IsRoot(lab, cr3, kLevels)
    BY ONLY <1>1, <1>6, <1>7 DEF RunOnRoots
  <2>2. cr3' = KernelPML4 \/ IsRoot(lab, cr3, kLevels)'
    BY ONLY <1>3, <2>1 DEF IsRoot
  <2>3. \A u \in Task \ {cur} : Busy(u) => cr3' # RootOf(u)
    BY ONLY <1>1, <1>3, <1>6, <1>7 DEF RootsApart
  <2> QED
    BY ONLY <1>6, <2>2, <2>3, cur' = cur DEF RootsMove, BusyOps
<1>9. TakenIs(lab, cur)'
  <2>1. taken[cur] # {} => taken[cur] = TreeOf(lab, cr3)
    BY ONLY <1>6, <1>7, run[cur].op \in {"pml4", "load", "map", "mapped"}
    DEF TakenIs, TreeOf, Busy, BusyOps, RootOf
  <2>2. taken'[cur] # {} => taken'[cur] = TreeOf(lab, CR3(cur))'
    BY ONLY <1>3, <1>6, <2>1, cur' = cur DEF TreeOf
  <2> QED
    BY ONLY <1>6, <2>2, cur' = cur DEF TakenIs
<1>10. FilesAre(cur)'
  BY ONLY <1>3, <1>6, <1>7, cur' = cur, run[cur].op \in {"pml4", "load", "map", "mapped"} DEF FilesAre
<1>11. TaskInv(lab, cur)'
  BY ONLY <1>6, <1>9, <1>10, cur' = cur DEF TaskInv, CoversProgram, Progress, Copied, ArgsFit, AfterOps
<1>12. HaltedForCause'
  BY ONLY <1>3, ~halted DEF HaltedForCause
<1> QED
  BY ONLY <1>5, <1>8, <1>11, <1>12, ExecInvOf(lab), CurStep

\* A page to which the way does not end has a frame, and maps above it.
LEMMA WalkHas ==
    ASSUME ExecTypes, NEW lab, Forest(lab), NEW r, IsRoot(lab, r, kLevels), NEW g \in Upper,
           \A l \in 0..(kLevels - 1) : Walk(r, g)[l] # NotPresent
    PROVE  Have(lab, r, g)
<1>1. kLevels \in Nat
  BY ShapeAssumption
<1>2. ASSUME NEW l \in 0..(kLevels - 1)
      PROVE  \E f \in used : /\ lab[f].own = r /\ lab[f].lev = l /\ lab[f].pre = g \div Span[l]
                             /\ lab[f].top = TopOf(g)
  <2>1. l \in 0..kLevels /\ l < kLevels /\ Walk(r, g)[l] # NotPresent
    BY <1>1
  <2> QED
    BY <2>1, WalkPlaced
<1> QED
  BY ONLY <1>2 DEF Have

\* A page that is mapped has maps at all levels.
LEMMA WalkUp ==
    ASSUME ExecTypes, NEW r \in Frame, NEW g \in Nat, Walk(r, g)[0] # NotPresent
    PROVE  \A l \in 0..(kLevels - 1) : Walk(r, g)[l] # NotPresent
<1> DEFINE w == Walk(r, g)
           T == {l \in 0..kLevels : w[l] # NotPresent}
<1>1. kLevels \in Nat /\ kLevels > 0
  BY ShapeAssumption
<1>2. ASSUME NEW l \in 0..(kLevels - 1), l \in T PROVE l + 1 \in T
  <2>1. w[l] = IF w[l + 1] \in Frame THEN mem[w[l + 1]][Part(g, l + 1)] ELSE NotPresent
    BY <1>1, WalkIs
  <2>2. w[l + 1] # NotPresent
    BY <1>2, <2>1, EntriesDiffer
  <2> QED
    BY <1>1, <2>2
<1>3. 0 \in T
  BY <1>1
<1> HIDE DEF T
<1>4. 0..kLevels \subseteq T
  BY ONLY <1>1, <1>2, <1>3, UpFrom
<1> QED
  BY <1>1, <1>4 DEF T

\* The next part of a program starts with its first page, and all of its pages left.
LEMMA MapTargetIs ==
    ASSUME NEW c \in RunTypes, Loadable(c.prog), NEW i \in 1..(Len(c.prog.segs) + 2)
    PROVE  LET d == MapTarget(c, i)
           IN  /\ d \in RunTypes
               /\ d.op = "map" /\ d.seg = i /\ d.prog = c.prog
               /\ d.page = FirstPage(c.prog, i) /\ d.left = PagesAsked(c.prog, i)
<1> DEFINE a == FirstPage(c.prog, i)
           n == PagesAsked(c.prog, i)
<1>1. c.prog \in Program
  BY DEF RunTypes
<1>2. a \in Nat /\ n \in Nat \ {0}
  BY <1>1, PartPagesAre
<1>3. i \in Nat
  BY <1>1, ProgramIs
<1>4. MapTarget(c, i) = [c EXCEPT !.op = IF n = 0 THEN "mapped" ELSE "map",
                                  !.seg = i, !.page = a, !.left = n]
  BY DEF MapTarget, FirstPage, PagesAsked
<1> HIDE DEF a, n
<1>5. MapTarget(c, i) = [c EXCEPT !.op = "map", !.seg = i, !.page = a, !.left = n]
  BY <1>2, <1>4
<1>6. LET d == [c EXCEPT !.op = "map", !.seg = i, !.page = a, !.left = n]
      IN  /\ d \in RunTypes
          /\ d.op = "map" /\ d.seg = i /\ d.prog = c.prog /\ d.page = a /\ d.left = n
  BY ONLY <1>2, <1>3, c \in RunTypes DEF RunTypes, BusyOps
<1> QED
  BY ONLY <1>5, <1>6 DEF a, n

\* ExecuteFile goes on to the next part of the program.
LEMMA NextPart ==
    ASSUME NEW lab, ExecInvOf(lab), MapsAlone, run[cur].op = "mapped",
           run[cur].seg <= Len(run[cur].prog.segs) + 1, run'[cur] = MapTarget(run[cur], run[cur].seg + 1),
           \A g \in PartPages(run[cur].prog, run[cur].seg) : Have(lab, cr3, g)
    PROVE  /\ Progress(lab, cur)'
           /\ run'[cur].op = "map" /\ run'[cur].seg = run[cur].seg + 1 /\ run'[cur].prog = run[cur].prog
           /\ RootOf(cur)' = cr3 /\ RootOf(cur) = cr3
<1> DEFINE c == run[cur]
           d == run'[cur]
<1>1. cur \in Task /\ c \in RunTypes /\ c.prog \in Program /\ cur' = cur /\ cr3' = cr3
  BY DEF ExecInvOf, ExecTypes, RunTypes, MapsAlone
<1>2. RootOf(cur) = cr3
  BY DEF RootOf, CR3
<1>3. /\ Loadable(c.prog) /\ c.seg \in 1..(Len(c.prog.segs) + 2)
      /\ \A i \in 1..(c.seg - 1) : \A g \in PartPages(c.prog, i) : Have(lab, cr3, g)
  BY <1>1, <1>2 DEF ExecInvOf, TaskInv, Progress, Busy, BusyOps
<1>4. Len(c.prog.segs) \in Nat
  BY <1>1, ProgramIs
<1>5. c.seg \in Nat /\ c.seg + 1 \in 1..(Len(c.prog.segs) + 2)
  BY <1>3, <1>4
<1>6. /\ d.op = "map" /\ d.seg = c.seg + 1 /\ d.prog = c.prog
      /\ d.page = FirstPage(c.prog, c.seg + 1) /\ d.left = PagesAsked(c.prog, c.seg + 1)
  BY <1>1, <1>3, <1>5, MapTargetIs
<1>7. RootOf(cur)' = cr3
  BY <1>1, <1>6 DEF RootOf, CR3
<1>8. d.page \in Nat /\ d.left \in Nat \ {0}
  BY <1>1, <1>3, <1>5, <1>6, PartPagesAre
<1>9. \A g : Have(lab, cr3, g) => Have(lab, cr3, g)'
  <2>1. SameTree(lab, lab, cr3) /\ used \subseteq Frame
    BY MapsAloneKeeps DEF ExecInvOf, ExecTypes
  <2>2. ASSUME NEW r, r = cr3, NEW g, Have(lab, cr3, g) PROVE Have(lab, r, g)'
    BY ONLY <2>1, <2>2, HaveKept
  <2>3. \A g : Have(lab, cr3, g) => Have(lab, cr3, g)'
    BY ONLY <1>1, <2>2 DEF Have
  <2> QED
    BY <2>3
<1>10. \A i \in 1..(d.seg - 1) : \A g \in PartPages(d.prog, i) : Have(lab, cr3, g)'
  <2>1. \A i \in 1..(d.seg - 1) : i = c.seg \/ i \in 1..(c.seg - 1)
    BY ONLY <1>5, <1>6
  <2> QED
    BY ONLY <1>3, <1>6, <1>9, <2>1, \A g \in PartPages(run[cur].prog, run[cur].seg) : Have(lab, cr3, g)
<1>11. \A g \in FirstPage(d.prog, d.seg)..(d.page - 1) : FALSE
  BY ONLY <1>6, <1>8
<1>12. /\ d.left > 0 /\ FirstPage(d.prog, d.seg) <= d.page
       /\ d.page + d.left = FirstPage(d.prog, d.seg) + PagesAsked(d.prog, d.seg)
  BY ONLY <1>6, <1>8
<1>13. Loadable(d.prog) /\ d.seg \in 1..(Len(d.prog.segs) + 2)
  BY ONLY <1>3, <1>5, <1>6
<1>14. Progress(lab, cur)'
  <2> HIDE DEF c, d
  <2>1. \A i \in 1..(d.seg - 1) : \A g \in PartPages(d.prog, i) : Have(lab, RootOf(cur), g)'
    BY ONLY <1>1, <1>7, <1>10 DEF Have
  <2> QED
    BY ONLY <1>1, <1>6, <1>11, <1>12, <1>13, <2>1 DEF Progress, AfterOps, d
<1> QED
  BY <1>2, <1>6, <1>7, <1>14

\* ExecuteFile is called: nothing is taken yet.
LEMMA ExecuteFileKeeps ==
    ASSUME NEW lab, ExecInvOf(lab), ~halted, cur' = cur, NEW p \in Program, ExecuteFile(cur, p)
    PROVE  ExecInv'
<1>1. /\ cur \in Task /\ run \in [Task -> RunTypes] /\ run[cur].op = "idle"
      /\ data \in [Frame -> SUBSET Nat] /\ files \in [Task -> Seq({"std", "file"})]
      /\ taken \in [Task -> SUBSET Frame] /\ context \in [Task -> Frame \cup {KernelPML4, NotPresent}]
  BY DEF ExecInvOf, ExecTypes, ExecuteFile
<1> DEFINE d == IF p.elf THEN [Returned(p, FALSE) EXCEPT !.op = "pml4"] ELSE Returned(p, FALSE)
<1>2. d \in RunTypes /\ d.op \in {"idle", "pml4"} /\ d.ok = FALSE
  BY DEF RunTypes, Returned, BusyOps
<1> HIDE DEF d
<1>3. /\ run' = [run EXCEPT ![cur] = d] /\ taken' = [taken EXCEPT ![cur] = {}]
      /\ cr3' = cr3 /\ context' = context /\ mem' = mem /\ data' = data /\ used' = used
      /\ files' = files /\ halted' = halted
  BY DEF ExecuteFile, d
<1>4. /\ run'[cur] = d /\ run' \in [Task -> RunTypes] /\ \A u \in Task \ {cur} : run'[u] = run[u]
      /\ taken'[cur] = {} /\ taken' \in [Task -> SUBSET Frame] /\ \A u \in Task \ {cur} : taken'[u] = taken[u]
  BY ONLY <1>1, <1>2, <1>3
<1>5. MapsAlone
  BY ONLY <1>1, <1>3, <1>4, cur' = cur DEF MapsAlone
<1>6. OthersAlone(lab, lab) /\ ExecTypes' /\ Forest(lab)' /\ KernelMapped'
  BY <1>5, MapsAloneKeeps
<1>7. /\ run'[cur].op \in {"idle", "pml4"} /\ ~Busy(cur)' /\ run'[cur].ok = FALSE /\ CR3(cur) = cr3
  BY <1>2, <1>4, cur' = cur DEF Busy, BusyOps, CR3
<1>8. RunOnRoots(lab) /\ RootsApart(lab) /\ FilesAre(cur)
  BY <1>1 DEF ExecInvOf, MapsInv, TaskInv
<1>9. RootsMove(lab)
  <2>1. cr3 = KernelPML4 \/ IsRoot(lab, cr3, kLevels)
    BY ONLY <1>1, <1>7, <1>8 DEF RunOnRoots
  <2>2. cr3' = KernelPML4 \/ IsRoot(lab, cr3, kLevels)'
    BY ONLY <1>3, <2>1 DEF IsRoot
  <2>3. \A u \in Task \ {cur} : Busy(u) => cr3' # RootOf(u)
    BY ONLY <1>1, <1>3, <1>7, <1>8 DEF RootsApart
  <2> QED
    BY ONLY <1>7, <2>2, <2>3, cur' = cur DEF RootsMove, BusyOps
<1>10. TaskInv(lab, cur)'
  <2>1. TakenIs(lab, cur)'
    BY ONLY <1>4, <1>7, cur' = cur DEF TakenIs
  <2>2. FilesAre(cur)'
    BY ONLY <1>1, <1>3, <1>7, <1>8, cur' = cur DEF FilesAre
  <2> QED
    BY ONLY <1>7, <2>1, <2>2, cur' = cur DEF TaskInv, CoversProgram, Progress, Copied, ArgsFit, AfterOps
<1>11. HaltedForCause'
  BY ONLY <1>3, ~halted DEF HaltedForCause
<1> QED
  BY ONLY <1>6, <1>9, <1>10, <1>11, ExecInvOf(lab), CurStep

\* A change of the local variables of ExecuteFile alone.
LEMMA LocalStep ==
    ASSUME NEW lab, ExecInvOf(lab), cur' = cur, NEW d \in RunTypes, run' = [run EXCEPT ![cur] = d],
           cr3' = cr3, context' = context, mem' = mem, data' = data, used' = used, taken' = taken,
           files' \in [Task -> Seq({"std", "file"})], \A u \in Task \ {cur} : files'[u] = files[u]
    PROVE  /\ MapsAlone /\ cur \in Task /\ run'[cur] = d
           /\ taken'[cur] = taken[cur] /\ context'[cur] = context[cur]
<1>1. /\ cur \in Task /\ run \in [Task -> RunTypes]
      /\ data \in [Frame -> SUBSET Nat]
      /\ taken \in [Task -> SUBSET Frame] /\ context \in [Task -> Frame \cup {KernelPML4, NotPresent}]
  BY DEF ExecInvOf, ExecTypes
<1>2. run'[cur] = d /\ run' \in [Task -> RunTypes] /\ \A u \in Task \ {cur} : run'[u] = run[u]
  BY ONLY <1>1, d \in RunTypes, run' = [run EXCEPT ![cur] = d]
<1> QED
  BY ONLY <1>1, <1>2, cur' = cur, cr3' = cr3, context' = context, mem' = mem, data' = data, used' = used,
     taken' = taken, files' \in [Task -> Seq({"std", "file"})], \A u \in Task \ {cur} : files'[u] = files[u]
  DEF MapsAlone

\* LoadELF: only a program in the upper half is loaded.
LEMMA LoadELFKeeps ==
    ASSUME NEW lab, ExecInvOf(lab), ~halted, cur' = cur, LoadELF(cur)
    PROVE  ExecInv'
<1> DEFINE c == run[cur]
<1>1. /\ cur \in Task /\ c \in RunTypes /\ c.prog \in Program /\ c.op = "load"
      /\ files \in [Task -> Seq({"std", "file"})]
  BY DEF ExecInvOf, ExecTypes, RunTypes, LoadELF
<1>2. CASE ~c.prog.exec \/ GetFirstLoadAddress(c.prog) < UpperHalf
  BY <1>1, <1>2, FailStep DEF LoadELF
<1>3. CASE ~(~c.prog.exec \/ GetFirstLoadAddress(c.prog) < UpperHalf)
  <2>1. Len(c.prog.segs) \in Nat /\ Loadable(c.prog) /\ 1 \in 1..Len(c.prog.segs)
    <3>1. c.prog.segs # <<>> => c.prog.segs[1].vaddr \in Nat /\ 1 \in 1..Len(c.prog.segs)
      BY <1>1, ProgramIs, ProgramAssumption
    <3> QED
      BY <1>1, <1>3, <3>1, PagesIs, ProgramIs DEF GetFirstLoadAddress, Loadable
  <2> DEFINE d == MapTarget(c, 1)
  <2>2. 1 \in 1..(Len(c.prog.segs) + 2)
    BY <2>1
  <2>3. /\ d \in RunTypes
        /\ d.op = "map" /\ d.seg = 1 /\ d.prog = c.prog
        /\ d.page = FirstPage(c.prog, 1) /\ d.left = PagesAsked(c.prog, 1)
    BY <1>1, <2>1, <2>2, MapTargetIs
  <2>4. d.page \in Nat /\ d.left \in Nat \ {0}
    BY <1>1, <2>1, <2>2, <2>3, PartPagesAre
  <2>5. /\ run' = [run EXCEPT ![cur] = d] /\ cr3' = cr3 /\ context' = context /\ mem' = mem /\ data' = data
        /\ used' = used /\ taken' = taken /\ files' = files /\ halted' = halted
    BY <1>3 DEF LoadELF
  <2> HIDE DEF d
  <2>6. MapsAlone /\ run'[cur] = d /\ taken'[cur] = taken[cur] /\ context'[cur] = context[cur]
    <3>1. files' \in [Task -> Seq({"std", "file"})] /\ \A u \in Task \ {cur} : files'[u] = files[u]
      BY <1>1, <2>5
    <3> QED
      BY ONLY <2>3, <2>5, <3>1, ExecInvOf(lab), cur' = cur, LocalStep
  <2>7. Progress(lab, cur)'
    <3>1. \A i \in 1..(d.seg - 1) : FALSE
      BY ONLY <2>3
    <3>2. \A g \in FirstPage(d.prog, d.seg)..(d.page - 1) : FALSE
      BY ONLY <2>3, <2>4
    <3>3. /\ d.left > 0 /\ FirstPage(d.prog, d.seg) <= d.page /\ d.seg \in 1..(Len(d.prog.segs) + 2)
          /\ d.page + d.left = FirstPage(d.prog, d.seg) + PagesAsked(d.prog, d.seg)
          /\ Loadable(d.prog)
      BY ONLY <2>1, <2>2, <2>3, <2>4
    <3> QED
      BY ONLY <2>3, <2>6, <3>1, <3>2, <3>3, cur' = cur DEF Progress, AfterOps
  <2>8. Copied(lab, cur)' /\ ArgsFit(cur)'
    <3>1. \A i \in 1..Len(d.prog.segs) : ~(i < d.seg)
      BY ONLY <2>1, <2>3
    <3>2. d.seg # Len(d.prog.segs) + 2
      BY ONLY <2>1, <2>3
    <3> QED
      BY ONLY <2>3, <2>6, <3>1, <3>2, cur' = cur DEF Copied, ArgsFit
  <2>9. FilesAre(cur)'
    <3>1. FilesAre(cur)
      BY <1>1 DEF ExecInvOf, TaskInv
    <3> QED
      BY ONLY <1>1, <2>3, <2>5, <2>6, <3>1, cur' = cur DEF FilesAre
  <2>10. HaltedForCause'
    BY ONLY <2>5, ~halted DEF HaltedForCause
  <2>11. run[cur].op \in LoadOps /\ run'[cur].op \in LoadOps /\ run'[cur].prog = run[cur].prog
    BY <1>1, <2>3, <2>6 DEF LoadOps
  <2> QED
    BY ONLY <2>6, <2>7, <2>8, <2>9, <2>10, <2>11, ExecInvOf(lab), LoadStep
<1> QED
  BY <1>2, <1>3

\* The machine stops.
LEMMA StopStep ==
    ASSUME NEW lab, ExecInvOf(lab), cur' = cur, run' = run, cr3' = cr3, context' = context, mem' = mem,
           data' = data, used' = used, taken' = taken, files' = files, run[cur].op \in LoadOps,
           HaltedForCause'
    PROVE  ExecInv'
<1>1. /\ cur \in Task /\ run \in [Task -> RunTypes] /\ files \in [Task -> Seq({"std", "file"})]
      /\ data \in [Frame -> SUBSET Nat] /\ used \subseteq Frame
      /\ taken \in [Task -> SUBSET Frame] /\ context \in [Task -> Frame \cup {KernelPML4, NotPresent}]
  BY DEF ExecInvOf, ExecTypes
<1>2. MapsAlone
  BY <1>1 DEF MapsAlone
<1>3. \A r : SameTree(lab, lab, r)
  BY ONLY <1>2, ExecInvOf(lab), MapsAloneKeeps
<1>4. CR3(cur)' = CR3(cur) /\ TaskInv(lab, cur) /\ used' \subseteq Frame
  BY <1>1 DEF CR3, ExecInvOf
<1>5. ASSUME NEW t, t = cur PROVE TaskInv(lab, t)'
  <2>1. CR3(t)' = CR3(t) /\ TaskInv(lab, t) /\ t \in Task
    BY <1>1, <1>4, <1>5 DEF CR3
  <2> QED
    BY ONLY <1>1, <1>3, <1>4, <2>1, run' = run, taken' = taken, files' = files, TaskKept
<1>6. Progress(lab, cur)' /\ Copied(lab, cur)' /\ ArgsFit(cur)' /\ FilesAre(cur)'
  BY ONLY <1>5, cur' = cur DEF TaskInv
<1> QED
  BY ONLY <1>2, <1>6, run' = run, taken' = taken, context' = context, run[cur].op \in LoadOps, ExecInvOf(lab),
     HaltedForCause', LoadStep

\* CopyLoadSegments writes into the frames of the segment's pages, and stops the machine
\* only if the segment reaches a page more than was asked for.
LEMMA CopyLoadSegmentKeeps ==
    ASSUME NEW lab, ExecInvOf(lab), ~halted, cur' = cur, CopyLoadSegment(cur)
    PROVE  ExecInv'
<1> DEFINE c == run[cur]
           i == c.seg
           p == c.prog
           s == p.segs[i]
           w(g) == Walk(cr3, g)[0]
           frames == {w(g) : g \in Touched(s)}
<1>1. /\ cur \in Task /\ c \in RunTypes /\ p \in Program /\ c.op = "mapped" /\ i \in Nat
      /\ files \in [Task -> Seq({"std", "file"})] /\ ExecTypes /\ Forest(lab) /\ TaskInv(lab, cur)
      /\ RootsApart(lab)
  BY DEF ExecInvOf, MapsInv, ExecTypes, RunTypes, CopyLoadSegment
<1>2. RootOf(cur) = cr3 /\ Busy(cur)
  BY <1>1 DEF RootOf, CR3, Busy, BusyOps
<1>3. /\ Loadable(p) /\ i \in 1..(Len(p.segs) + 2)
      /\ \A g \in FirstPage(p, i)..(FirstPage(p, i) + PagesAsked(p, i) - 1) : Have(lab, cr3, g)
  BY ONLY <1>1, <1>2 DEF TaskInv, Progress
<1>4. Len(p.segs) \in Nat /\ i <= Len(p.segs) /\ i \in 1..Len(p.segs) /\ i <= Len(p.segs) + 1
  BY <1>1, <1>3, ProgramIs DEF CopyLoadSegment
<1>5. IsRoot(lab, cr3, kLevels) /\ cr3 \in Frame
  BY <1>1, <1>2 DEF RootsApart, IsRoot, ExecTypes
<1>6. PartPages(p, i) = Touched(s) /\ Touched(s) \subseteq Upper
  BY <1>1, <1>3, <1>4, PartPagesAre DEF PartPages
<1>7. kLevels \in Nat /\ kLevels > 0
  BY ShapeAssumption
<1>8. CASE NotPresent \in frames
  <2>1. /\ run' = run /\ cr3' = cr3 /\ context' = context /\ mem' = mem /\ data' = data /\ used' = used
        /\ taken' = taken /\ files' = files
    BY <1>8 DEF CopyLoadSegment
  <2>2. PICK g \in Touched(s) : w(g) = NotPresent
    BY <1>8
  <2>3. ~Have(lab, cr3, g)
    <3>1. g \in Upper /\ 0 \in 0..kLevels
      BY <1>6, <1>7
    <3>2. Have(lab, cr3, g) => Walk(cr3, g)[0] \in used
      BY ONLY <1>1, <1>5, <3>1, WalkFinds
    <3>3. NotPresent \notin used
      BY <1>1, EntriesDiffer DEF ExecTypes
    <3> QED
      BY <2>2, <3>2, <3>3
  <2> DEFINE a == s.vaddr \div kPageBytes
             b == (s.vaddr + s.memsz - 1) \div kPageBytes
             n == NumPages(s.memsz)
  <2>4. /\ Touched(s) = a..b /\ a \in Nat /\ b \in Nat /\ n \in Nat \ {0}
        /\ a + n - 1 <= b
        /\ a + n <= b => s.vaddr % kPageBytes # 0 /\ (b - a) * kPageBytes >= s.memsz
    BY <1>1, <1>3, <1>4, LoadableIs
  <2>5. FirstPage(p, i) = a /\ PagesAsked(p, i) = n
    BY <1>4 DEF FirstPage, PagesAsked
  <2> HIDE DEF a, b, n, s, frames
  <2>6. a + n <= b /\ a <= b
    BY ONLY <1>3, <2>2, <2>3, <2>4, <2>5
  <2>7. Cardinality(Touched(s)) = b - a + 1
    BY <2>4, <2>6, FS_Interval
  <2>8. s.vaddr % kPageBytes # 0 /\ (Cardinality(Touched(s)) - 1) * kPageBytes >= s.memsz
    <3>1. (b - a + 1) - 1 = b - a
      BY ONLY <2>4
    <3> QED
      BY ONLY <2>4, <2>6, <2>7, <3>1
  <2>9. HaltedForCause'
    BY ONLY <1>1, <2>1, <2>8, cur' = cur DEF HaltedForCause, s
  <2>10. run[cur].op \in LoadOps
    BY <1>1 DEF LoadOps
  <2> QED
    BY ONLY <2>1, <2>9, <2>10, cur' = cur, ExecInvOf(lab), StopStep
<1>9. CASE NotPresent \notin frames
  <2> DEFINE d == MapTarget(c, i + 1)
  <2>1. /\ run' = [run EXCEPT ![cur] = d] /\ cr3' = cr3 /\ context' = context /\ mem' = mem /\ used' = used
        /\ data' = [f \in Frame |-> IF f \in frames THEN data[f] \cup {i} ELSE data[f]]
        /\ taken' = taken /\ files' = files /\ halted' = halted
    BY <1>9 DEF CopyLoadSegment
  <2>2. i + 1 \in 1..(Len(p.segs) + 2)
    BY ONLY <1>4
  <2>3. d \in RunTypes
    BY <1>1, <1>3, <2>2, MapTargetIs
  <2> HIDE DEF d
  <2>4. MapsAlone /\ run'[cur] = d
    <3>1. /\ run \in [Task -> RunTypes]
          /\ data \in [Frame -> SUBSET Nat]
          /\ taken \in [Task -> SUBSET Frame] /\ context \in [Task -> Frame \cup {KernelPML4, NotPresent}]
      BY <1>1 DEF ExecTypes
    <3>2. run'[cur] = d /\ run' \in [Task -> RunTypes] /\ \A u \in Task \ {cur} : run'[u] = run[u]
      BY ONLY <1>1, <2>1, <2>3, <3>1
    <3>3. data' \in [Frame -> SUBSET Nat] /\ \A f \in Frame : data[f] \subseteq data'[f]
      BY ONLY <1>1, <2>1, <3>1
    <3> QED
      BY ONLY <1>1, <2>1, <3>1, <3>2, <3>3, cur' = cur DEF MapsAlone
  <2>5. ASSUME NEW g \in Touched(s)
        PROVE  /\ Have(lab, cr3, g)
               /\ w(g) \in used /\ lab[w(g)].own = cr3 /\ lab[w(g)].lev = 0 /\ lab[w(g)].pre = g
    <3>1. g \in Upper /\ g \in Nat /\ g \div Span[0] = g /\ w(g) # NotPresent
      BY <1>6, <1>9, UpperIs
    <3>2. Have(lab, cr3, g)
      BY ONLY <1>1, <1>5, <3>1, WalkHas, WalkUp
    <3>3. 0 \in 0..kLevels
      BY <1>7
    <3>4. /\ w(g) \in used \cup {NotPresent}
          /\ w(g) # NotPresent => lab[w(g)].own = cr3 /\ lab[w(g)].lev = 0 /\ lab[w(g)].pre = g \div Span[0]
      BY ONLY <1>1, <1>5, <3>1, <3>3, WalkPlaced
    <3> QED
      BY ONLY <3>1, <3>2, <3>4
  <2>6. /\ Progress(lab, cur)'
        /\ run'[cur].op = "map" /\ run'[cur].seg = i + 1 /\ run'[cur].prog = p
        /\ RootOf(cur)' = cr3
    <3>1. \A g \in PartPages(p, i) : Have(lab, cr3, g)
      BY ONLY <1>6, <2>5
    <3> QED
      BY ONLY <1>1, <1>4, <2>4, <3>1, ExecInvOf(lab), NextPart DEF d
  <2>7. Copied(lab, cur)'
    <3>1. ASSUME NEW j, j = i, NEW g \in Touched(s) PROVE Holds(lab, cr3, j, g)'
      <4>1. w(g) \in frames /\ w(g) \in Frame
        BY <2>5 DEF ExecInvOf, ExecTypes
      <4>2. j \in data'[w(g)]
        BY ONLY <2>1, <3>1, <4>1
      <4>3. \E f \in used' : lab[f].own = cr3' /\ lab[f].lev = 0 /\ lab[f].pre = g /\ j \in data'[f]
        BY ONLY <2>1, <2>5, <4>2
      <4> QED
        BY ONLY <4>3 DEF Holds
    <3>2. ASSUME NEW j \in 1..Len(p.segs), j < i, NEW g \in Touched(p.segs[j]) PROVE Holds(lab, cr3, j, g)'
      <4>1. Holds(lab, cr3, j, g)
        BY ONLY <1>1, <1>2, <3>2 DEF TaskInv, Copied
      <4>2. SameTree(lab, lab, cr3) /\ used \subseteq Frame
        BY <2>4, MapsAloneKeeps DEF ExecInvOf, ExecTypes
      <4>3. ASSUME NEW r, r = cr3 PROVE Holds(lab, r, j, g)'
        BY ONLY <4>1, <4>2, <4>3, HaveKept
      <4> QED
        BY ONLY <2>1, <4>3 DEF Holds
    <3>3. \A j \in 1..Len(p.segs) : j < i + 1 => j = i \/ j < i
      BY ONLY <1>1, <1>4
    <3>4. \A j \in 1..Len(p.segs) : j < i + 1 => \A g \in Touched(p.segs[j]) : Holds(lab, cr3, j, g)'
      BY ONLY <3>1, <3>2, <3>3
    <3>5. \A j \in 1..Len(p.segs) : j < i + 1 => \A g \in Touched(p.segs[j]) : Holds(lab, RootOf(cur), j, g)'
      <4>1. ASSUME NEW j, NEW g, Holds(lab, cr3, j, g)' PROVE Holds(lab, RootOf(cur), j, g)'
        BY ONLY <2>1, <2>6, <4>1 DEF Holds
      <4> QED
        BY ONLY <3>4, <4>1
    <3> HIDE DEF i, p
    <3> QED
      BY ONLY <2>6, <3>5, cur' = cur DEF Copied
  <2>8. ArgsFit(cur)'
    <3>1. i + 1 # Len(p.segs) + 2
      BY ONLY <1>1, <1>4
    <3> QED
      BY ONLY <2>6, <3>1, cur' = cur DEF ArgsFit
  <2>9. FilesAre(cur)'
    BY ONLY <1>1, <2>1, <2>6, cur' = cur DEF TaskInv, FilesAre
  <2>10. HaltedForCause'
    BY ONLY <2>1, ~halted DEF HaltedForCause
  <2>11. /\ run[cur].op \in LoadOps /\ run'[cur].op \in LoadOps /\ run'[cur].prog = run[cur].prog
         /\ taken'[cur] = taken[cur] /\ context'[cur] = context[cur]
    BY <1>1, <2>1, <2>6 DEF LoadOps
  <2> QED
    BY ONLY <2>4, <2>6, <2>7, <2>8, <2>9, <2>10, <2>11, ExecInvOf(lab), LoadStep
<1> QED
  BY <1>8, <1>9

\* What is in the frames of a page map that is left alone.
LEMMA RootSame ==
    ASSUME NEW lab, ExecInvOf(lab), MapsAlone, RootOf(cur) = cr3, RootOf(cur)' = cr3
    PROVE  /\ \A g : Have(lab, cr3, g) => Have(lab, RootOf(cur), g)'
           /\ \A i, g : Holds(lab, cr3, i, g) => Holds(lab, RootOf(cur), i, g)'
<1>1. SameTree(lab, lab, cr3) /\ used \subseteq Frame
  BY MapsAloneKeeps DEF ExecInvOf, ExecTypes
<1>2. PICK r : r = cr3
  OBVIOUS
<1>3. ASSUME NEW g, Have(lab, cr3, g) PROVE Have(lab, RootOf(cur), g)'
  <2>1. Have(lab, r, g)'
    BY ONLY <1>1, <1>2, <1>3, HaveKept
  <2>2. RootOf(cur)' = r
    BY ONLY <1>2, RootOf(cur)' = cr3
  <2> QED
    BY ONLY <2>1, <2>2 DEF Have
<1>4. ASSUME NEW i, NEW g, Holds(lab, cr3, i, g) PROVE Holds(lab, RootOf(cur), i, g)'
  <2>1. Holds(lab, r, i, g)'
    BY ONLY <1>1, <1>2, <1>4, HaveKept
  <2>2. RootOf(cur)' = r
    BY ONLY <1>2, RootOf(cur)' = cr3
  <2> QED
    BY ONLY <2>1, <2>2 DEF Holds
<1> QED
  BY ONLY <1>3, <1>4

\* MakeArgVector: the arguments fit, or ExecuteFile returns.
LEMMA MakeArgVectorKeeps ==
    ASSUME NEW lab, ExecInvOf(lab), ~halted, cur' = cur, MakeArgVector(cur)
    PROVE  ExecInv'
<1> DEFINE c == run[cur]
           p == c.prog
<1>1. /\ cur \in Task /\ c \in RunTypes /\ p \in Program /\ c.op = "mapped" /\ c.seg = Len(p.segs) + 1
      /\ files \in [Task -> Seq({"std", "file"})] /\ TaskInv(lab, cur) /\ Len(p.segs) \in Nat
  BY ProgramIs DEF ExecInvOf, ExecTypes, RunTypes, MakeArgVector
<1>2. CASE ArgsFull(p.args)
  BY <1>1, <1>2, FailStep DEF MakeArgVector
<1>3. CASE ~ArgsFull(p.args)
  <2> DEFINE d == MapTarget(c, c.seg + 1)
  <2>1. /\ run' = [run EXCEPT ![cur] = d] /\ cr3' = cr3 /\ context' = context /\ mem' = mem /\ data' = data
        /\ used' = used /\ taken' = taken /\ files' = files /\ halted' = halted
    BY <1>3 DEF MakeArgVector
  <2>2. RootOf(cur) = cr3 /\ Busy(cur)
    BY <1>1 DEF RootOf, CR3, Busy, BusyOps
  <2>3. /\ Loadable(p) /\ c.seg \in 1..(Len(p.segs) + 2)
        /\ \A g \in FirstPage(p, c.seg)..(FirstPage(p, c.seg) + PagesAsked(p, c.seg) - 1) : Have(lab, cr3, g)
    BY ONLY <1>1, <2>2 DEF TaskInv, Progress
  <2>4. c.seg + 1 \in 1..(Len(p.segs) + 2) /\ c.seg <= Len(p.segs) + 1 /\ c.seg > Len(p.segs)
    <3>1. Len(p.segs) \in Nat /\ c.seg = Len(p.segs) + 1
      BY ONLY <1>1
    <3> HIDE DEF c, p
    <3> QED
      BY ONLY <3>1
  <2>5. d \in RunTypes
    BY <1>1, <2>3, <2>4, MapTargetIs
  <2> HIDE DEF d
  <2>6. MapsAlone /\ run'[cur] = d /\ taken'[cur] = taken[cur] /\ context'[cur] = context[cur]
    <3>1. files' \in [Task -> Seq({"std", "file"})] /\ \A u \in Task \ {cur} : files'[u] = files[u]
      BY <1>1, <2>1
    <3> QED
      BY ONLY <2>1, <2>5, <3>1, ExecInvOf(lab), cur' = cur, LocalStep
  <2>7. /\ Progress(lab, cur)'
        /\ run'[cur].op = "map" /\ run'[cur].seg = c.seg + 1 /\ run'[cur].prog = p
        /\ RootOf(cur)' = cr3
    <3>1. \A g \in PartPages(p, c.seg) : Have(lab, cr3, g)
      BY <1>1, <2>3, <2>4, PartPagesAre
    <3> QED
      BY ONLY <1>1, <2>4, <2>6, <3>1, ExecInvOf(lab), NextPart DEF d
  <2>8. Copied(lab, cur)'
    <3>1. ASSUME NEW j \in 1..Len(p.segs), NEW g \in Touched(p.segs[j]) PROVE Holds(lab, RootOf(cur), j, g)'
      <4>1. j < c.seg
        BY ONLY <1>1, <3>1
      <4>2. Holds(lab, cr3, j, g)
        BY ONLY <1>1, <2>2, <3>1, <4>1 DEF TaskInv, Copied
      <4> QED
        BY ONLY <2>2, <2>6, <2>7, <4>2, ExecInvOf(lab), RootSame
    <3> HIDE DEF p
    <3> QED
      BY ONLY <2>7, <3>1, cur' = cur DEF Copied
  <2>9. ArgsFit(cur)'
    BY ONLY <1>3, <2>7, cur' = cur DEF ArgsFit, ArgsFull
  <2>10. FilesAre(cur)'
    BY ONLY <1>1, <2>1, <2>7, cur' = cur DEF TaskInv, FilesAre
  <2>11. HaltedForCause'
    BY ONLY <2>1, ~halted DEF HaltedForCause
  <2>12. /\ run[cur].op \in LoadOps /\ run'[cur].op \in LoadOps /\ run'[cur].prog = run[cur].prog
    BY <1>1, <2>7 DEF LoadOps
  <2> QED
    BY ONLY <2>6, <2>7, <2>8, <2>9, <2>10, <2>11, <2>12, ExecInvOf(lab), LoadStep
<1> QED
  BY <1>2, <1>3

\* CallApp: the program finds all its pages and three descriptors.
LEMMA CallAppKeeps ==
    ASSUME NEW lab, ExecInvOf(lab), ~halted, cur' = cur, CallApp(cur)
    PROVE  ExecInv'
<1> DEFINE c == run[cur]
           p == c.prog
           d == [c EXCEPT !.op = "app"]
<1>1. /\ cur \in Task /\ c \in RunTypes /\ p \in Program /\ c.op = "mapped" /\ c.seg = Len(p.segs) + 2
      /\ run \in [Task -> RunTypes]
      /\ files \in [Task -> Seq({"std", "file"})] /\ TaskInv(lab, cur) /\ Len(p.segs) \in Nat
  BY ProgramIs DEF ExecInvOf, ExecTypes, RunTypes, CallApp
<1>2. files[cur] = <<>>
  BY ONLY <1>1 DEF TaskInv, FilesAre
<1>3. /\ run' = [run EXCEPT ![cur] = d] /\ cr3' = cr3 /\ context' = context /\ mem' = mem /\ data' = data
      /\ used' = used /\ taken' = taken /\ halted' = halted
      /\ files' = [files EXCEPT ![cur] = @ \o <<"std", "std", "std">>]
  BY <1>1 DEF CallApp
<1>4. /\ files'[cur] = <<"std", "std", "std">> /\ files' \in [Task -> Seq({"std", "file"})]
      /\ \A u \in Task \ {cur} : files'[u] = files[u]
  BY <1>1, <1>2, <1>3
<1>5. RootOf(cur) = cr3 /\ Busy(cur)
  BY <1>1 DEF RootOf, CR3, Busy, BusyOps
<1>6. d \in RunTypes /\ d.op = "app" /\ d.prog = p /\ d.seg = c.seg
  BY <1>1 DEF RunTypes, BusyOps
<1> HIDE DEF d
<1>7. MapsAlone /\ run'[cur] = d /\ taken'[cur] = taken[cur] /\ context'[cur] = context[cur]
  BY ONLY <1>3, <1>4, <1>6, ExecInvOf(lab), cur' = cur, LocalStep
<1>8. RootOf(cur)' = cr3
  BY ONLY <1>3, <1>6, <1>7, cur' = cur DEF RootOf, CR3
<1>9. Loadable(p) /\ \A g \in ProgramPages(p) : Have(lab, cr3, g)
  <2>1. /\ Loadable(p) /\ c.seg \in 1..(Len(p.segs) + 2)
        /\ \A i \in 1..(c.seg - 1) : \A g \in PartPages(p, i) : Have(lab, cr3, g)
        /\ \A g \in FirstPage(p, c.seg)..(FirstPage(p, c.seg) + PagesAsked(p, c.seg) - 1) : Have(lab, cr3, g)
    BY ONLY <1>1, <1>5 DEF TaskInv, Progress
  <2>2. c.seg > Len(p.segs) /\ \A i \in 1..(Len(p.segs) + 2) : i = c.seg \/ i \in 1..(c.seg - 1)
    BY ONLY <1>1
  <2>3. \A g \in PartPages(p, c.seg) : Have(lab, cr3, g)
    BY <1>1, <2>1, <2>2, PartPagesAre
  <2>4. \A g \in ProgramPages(p) : \E i \in 1..(Len(p.segs) + 2) : g \in PartPages(p, i)
    BY ONLY <1>1, <2>1, ProgramPagesAre
  <2> QED
    BY ONLY <2>1, <2>2, <2>3, <2>4
<1>10. Progress(lab, cur)'
  <2>1. \A g \in ProgramPages(p) : Have(lab, RootOf(cur), g)'
    BY ONLY <1>5, <1>7, <1>8, <1>9, ExecInvOf(lab), RootSame
  <2> HIDE DEF p
  <2> QED
    BY ONLY <1>6, <1>7, <1>9, <2>1, cur' = cur DEF Progress, AfterOps
<1>11. Copied(lab, cur)'
  <2>1. ASSUME NEW j \in 1..Len(p.segs), NEW g \in Touched(p.segs[j]) PROVE Holds(lab, RootOf(cur), j, g)'
    <3>1. j < c.seg
      BY ONLY <1>1, <2>1
    <3>2. Holds(lab, cr3, j, g)
      BY ONLY <1>1, <1>5, <2>1, <3>1 DEF TaskInv, Copied
    <3> QED
      BY ONLY <1>5, <1>7, <1>8, <3>2, ExecInvOf(lab), RootSame
  <2> HIDE DEF p
  <2> QED
    BY ONLY <1>6, <1>7, <2>1, cur' = cur DEF Copied
<1>12. ArgsFit(cur)'
  BY ONLY <1>1, <1>6, <1>7, cur' = cur DEF ArgsFit, ArgsFull, TaskInv
<1>13. FilesAre(cur)'
  <2>1. ASSUME NEW f, f = <<"std", "std", "std">>
        PROVE  Len(f) >= 3 /\ \A i \in 1..Len(f) : f[i] = IF i <= 3 THEN "std" ELSE "file"
    BY ONLY <2>1
  <2> QED
    BY ONLY <1>4, <1>6, <1>7, <2>1, cur' = cur DEF FilesAre
<1>14. HaltedForCause'
  BY ONLY <1>3, ~halted DEF HaltedForCause
<1>15. /\ run[cur].op \in LoadOps /\ run'[cur].op \in LoadOps /\ run'[cur].prog = run[cur].prog
  BY <1>1, <1>6, <1>7 DEF LoadOps
<1> QED
  BY ONLY <1>7, <1>10, <1>11, <1>12, <1>13, <1>14, <1>15, ExecInvOf(lab), LoadStep

\* The handlers of the faults of a program find the error code where they expect it.
LEMMA FaultsAreRead ==
    ASSUME NEW v \in ProgramFaults
    PROVE  FrameIsRead(Delivered(v))
<1>1. /\ IdtEntries[1] = "DE" /\ IdtEntries[2] = "DB" /\ IdtEntries[4] = "DP"
      /\ IdtEntries[5] = "OF" /\ IdtEntries[7] = "UD" /\ IdtEntries[8] = "NM"
      /\ IdtEntries[9] = "DF" /\ IdtEntries[12] = "NP" /\ IdtEntries[14] = "SS"
      /\ IdtEntries[15] = "GP" /\ IdtEntries[17] = "MF" /\ IdtEntries[18] = "AC"
      /\ IdtEntries[20] = "XM"
  BY DEF IdtEntries
<1>2. ASSUME NEW u
      PROVE  /\ (u = 0 => IdtEntries[u + 1] = "DE") /\ (u = 1 => IdtEntries[u + 1] = "DB")
             /\ (u = 3 => IdtEntries[u + 1] = "DP") /\ (u = 4 => IdtEntries[u + 1] = "OF")
             /\ (u = 6 => IdtEntries[u + 1] = "UD") /\ (u = 7 => IdtEntries[u + 1] = "NM")
             /\ (u = 8 => IdtEntries[u + 1] = "DF") /\ (u = 11 => IdtEntries[u + 1] = "NP")
             /\ (u = 13 => IdtEntries[u + 1] = "SS") /\ (u = 14 => IdtEntries[u + 1] = "GP")
             /\ (u = 16 => IdtEntries[u + 1] = "MF") /\ (u = 17 => IdtEntries[u + 1] = "AC")
             /\ (u = 19 => IdtEntries[u + 1] = "XM")
  <2>1. /\ u = 0 => IdtEntries[u + 1] = "DE"
        /\ u = 1 => IdtEntries[u + 1] = "DB"
        /\ u = 3 => IdtEntries[u + 1] = "DP"
    <3>1. /\ IdtEntries[1] = "DE" /\ IdtEntries[2] = "DB" /\ IdtEntries[4] = "DP"
      BY ONLY <1>1
    <3> QED
      BY ONLY <3>1
  <2>2. /\ u = 4 => IdtEntries[u + 1] = "OF"
        /\ u = 6 => IdtEntries[u + 1] = "UD"
        /\ u = 7 => IdtEntries[u + 1] = "NM"
    <3>1. /\ IdtEntries[5] = "OF" /\ IdtEntries[7] = "UD" /\ IdtEntries[8] = "NM"
      BY ONLY <1>1
    <3> QED
      BY ONLY <3>1
  <2>3. /\ u = 8 => IdtEntries[u + 1] = "DF"
        /\ u = 11 => IdtEntries[u + 1] = "NP"
        /\ u = 13 => IdtEntries[u + 1] = "SS"
    <3>1. /\ IdtEntries[9] = "DF" /\ IdtEntries[12] = "NP" /\ IdtEntries[14] = "SS"
      BY ONLY <1>1
    <3> QED
      BY ONLY <3>1
  <2>4. /\ u = 14 => IdtEntries[u + 1] = "GP"
        /\ u = 16 => IdtEntries[u + 1] = "MF"
        /\ u = 17 => IdtEntries[u + 1] = "AC"
    <3>1. /\ IdtEntries[15] = "GP" /\ IdtEntries[17] = "MF" /\ IdtEntries[18] = "AC"
      BY ONLY <1>1
    <3> QED
      BY ONLY <3>1
  <2>5. /\ u = 19 => IdtEntries[u + 1] = "XM"
    <3>1. /\ IdtEntries[20] = "XM"
      BY ONLY <1>1
    <3> QED
      BY ONLY <3>1
  <2> QED
    BY ONLY <2>1, <2>2, <2>3, <2>4, <2>5
<1>3. Delivered(v) \in (ProgramFaults \ {12}) \cup {8}
  <2>1. CASE v = 12
    <3>1. 12 + 1 = 13
      OBVIOUS
    <3>2. IdtEntries[13] = ""
      BY DEF IdtEntries
    <3>3. Delivered(12) = 8
      BY ONLY <3>1, <3>2, Zenon DEF Delivered
    <3> QED
      BY ONLY <2>1, <3>3
  <2>2. CASE v # 12
    <3>1. Delivered(v) = v \/ Delivered(v) = 8
      BY DEF Delivered
    <3> QED
      BY ONLY <2>2, <3>1, v \in ProgramFaults
  <2> QED
    BY ONLY <2>1, <2>2
<1>4. ASSUME NEW u \in (ProgramFaults \ {12}) \cup {8}
      PROVE  (IdtEntries[u + 1] \in FaultHandlerWithError) = (u \in PushesErrorCode)
  <2>1. CASE u \in {8, 11, 13, 14, 17}
    <3>1. IdtEntries[u + 1] \in {"DF", "NP", "SS", "GP", "AC"}
      BY ONLY <1>2, <2>1
    <3> QED
      BY ONLY <2>1, <3>1 DEF FaultHandlerWithError, PushesErrorCode
  <2>2. CASE u \in {0, 1, 3, 4, 6, 7, 16, 19}
    <3>1. IdtEntries[u + 1] \in {"DE", "DB", "DP", "OF", "UD", "NM", "MF", "XM"}
      BY ONLY <1>2, <2>2
    <3> QED
      BY ONLY <2>2, <3>1 DEF FaultHandlerWithError, PushesErrorCode
  <2> QED
    BY ONLY <1>4, <2>1, <2>2 DEF ProgramFaults
<1> QED
  BY ONLY <1>3, <1>4 DEF FrameIsRead

\* A step of the program.
LEMMA AppStep ==
    ASSUME NEW lab, ExecInvOf(lab), MapsAlone, taken'[cur] = taken[cur], context'[cur] = context[cur],
           run[cur].op \in {"app", "syscall", "kill", "kill_hit"}, run'[cur].op \in {"app", "syscall", "kill", "kill_hit"},
           run'[cur].op \in {"app", "syscall"} => run[cur].op \in {"app", "syscall"}, run'[cur].prog = run[cur].prog,
           FilesAre(cur)', HaltedForCause'
    PROVE  ExecInv'
<1>1. cur \in Task /\ TaskInv(lab, cur) /\ cur' = cur /\ cr3' = cr3
  BY DEF ExecInvOf, ExecTypes, MapsAlone
<1>2. RootOf(cur) = cr3 /\ RootOf(cur)' = cr3 /\ Busy(cur)
  BY <1>1 DEF RootOf, CR3, Busy, BusyOps
<1>3. /\ \A g : Have(lab, cr3, g) => Have(lab, RootOf(cur), g)'
      /\ \A i, g : Holds(lab, cr3, i, g) => Holds(lab, RootOf(cur), i, g)'
  BY ONLY <1>2, ExecInvOf(lab), MapsAlone, RootSame
<1>4. Progress(lab, cur)'
  <2>1. Loadable(run[cur].prog) /\ \A g \in ProgramPages(run[cur].prog) : Have(lab, cr3, g)
    BY ONLY <1>1, <1>2, run[cur].op \in {"app", "syscall", "kill", "kill_hit"} DEF TaskInv, Progress
  <2> QED
    BY ONLY <1>1, <1>3, <2>1, run'[cur].op \in {"app", "syscall", "kill", "kill_hit"}, run'[cur].prog = run[cur].prog
    DEF Progress, AfterOps
<1>5. Copied(lab, cur)'
  BY ONLY <1>1, <1>2, <1>3, run'[cur].op \in {"app", "syscall", "kill", "kill_hit"},
     run'[cur].op \in {"app", "syscall"} => run[cur].op \in {"app", "syscall"}, run'[cur].prog = run[cur].prog
  DEF TaskInv, Copied
<1>6. ArgsFit(cur)'
  BY ONLY <1>1, run'[cur].op \in {"app", "syscall", "kill", "kill_hit"},
     run'[cur].op \in {"app", "syscall"} => run[cur].op \in {"app", "syscall"}, run'[cur].prog = run[cur].prog
  DEF TaskInv, ArgsFit, ArgsFull
<1>7. run[cur].op \in LoadOps /\ run'[cur].op \in LoadOps
  BY DEF LoadOps
<1> QED
  BY ONLY <1>4, <1>5, <1>6, <1>7, ExecInvOf(lab), MapsAlone, taken'[cur] = taken[cur],
     context'[cur] = context[cur], run'[cur].prog = run[cur].prog, FilesAre(cur)', HaltedForCause', LoadStep

\* A system call is entered, or returns.
LEMMA SyscallKeeps ==
    ASSUME NEW lab, ExecInvOf(lab), ~halted, cur' = cur, SyscallEntry(cur) \/ SyscallReturn(cur)
    PROVE  ExecInv'
<1>1. PICK o \in {"app", "syscall"} :
          /\ run' = [run EXCEPT ![cur].op = o]
          /\ run[cur].op \in {"app", "syscall"}
  BY DEF SyscallEntry, SyscallReturn
<1> DEFINE d == [run[cur] EXCEPT !.op = o]
<1>2. /\ cur \in Task /\ TaskInv(lab, cur) /\ run[cur] \in RunTypes
      /\ run \in [Task -> RunTypes] /\ files \in [Task -> Seq({"std", "file"})]
  BY DEF ExecInvOf, ExecTypes
<1>3. /\ run' = [run EXCEPT ![cur] = d] /\ cr3' = cr3 /\ context' = context /\ mem' = mem /\ data' = data
      /\ used' = used /\ taken' = taken /\ files' = files /\ ~halted'
  BY <1>1, <1>2 DEF SyscallEntry, SyscallReturn
<1>4. d \in RunTypes /\ d.op = o /\ d.prog = run[cur].prog
  BY <1>1, <1>2 DEF RunTypes, BusyOps
<1> HIDE DEF d
<1>5. MapsAlone /\ run'[cur] = d /\ taken'[cur] = taken[cur] /\ context'[cur] = context[cur]
  <2>1. files' \in [Task -> Seq({"std", "file"})] /\ \A u \in Task \ {cur} : files'[u] = files[u]
    BY <1>2, <1>3
  <2> QED
    BY ONLY <1>3, <1>4, <2>1, ExecInvOf(lab), cur' = cur, LocalStep
<1>6. FilesAre(cur)'
  BY ONLY <1>1, <1>2, <1>3, <1>4, <1>5, cur' = cur DEF TaskInv, FilesAre
<1>7. HaltedForCause'
  BY ONLY <1>3 DEF HaltedForCause
<1> QED
  BY ONLY <1>1, <1>2, <1>4, <1>5, <1>6, <1>7, ExecInvOf(lab), AppStep

\* open appends a descriptor after the first three.
LEMMA OpenKeeps ==
    ASSUME NEW lab, ExecInvOf(lab), ~halted, cur' = cur, Open(cur)
    PROVE  ExecInv'
<1> DEFINE d == [run[cur] EXCEPT !.op = "app"]
<1>1. /\ cur \in Task /\ TaskInv(lab, cur) /\ run[cur].op = "syscall" /\ run[cur] \in RunTypes
      /\ run \in [Task -> RunTypes] /\ files \in [Task -> Seq({"std", "file"})]
  BY DEF ExecInvOf, ExecTypes, Open
<1>2. /\ run' = [run EXCEPT ![cur] = d] /\ cr3' = cr3 /\ context' = context /\ mem' = mem /\ data' = data
      /\ used' = used /\ taken' = taken /\ halted' = halted
      /\ files' = [files EXCEPT ![cur] = Append(@, "file")]
  BY <1>1 DEF Open
<1>3. /\ files'[cur] = Append(files[cur], "file") /\ files' \in [Task -> Seq({"std", "file"})]
      /\ \A u \in Task \ {cur} : files'[u] = files[u]
  BY <1>1, <1>2
<1>4. d \in RunTypes /\ d.op = "app" /\ d.prog = run[cur].prog
  BY <1>1 DEF RunTypes, BusyOps
<1> HIDE DEF d
<1>5. MapsAlone /\ run'[cur] = d /\ taken'[cur] = taken[cur] /\ context'[cur] = context[cur]
  BY ONLY <1>2, <1>3, <1>4, ExecInvOf(lab), cur' = cur, LocalStep
<1>6. FilesAre(cur)'
  <2>1. /\ files[cur] \in Seq({"std", "file"}) /\ Len(files[cur]) >= 3
        /\ \A i \in 1..Len(files[cur]) : files[cur][i] = IF i <= 3 THEN "std" ELSE "file"
    BY ONLY <1>1 DEF TaskInv, FilesAre
  <2>2. ASSUME NEW f \in Seq({"std", "file"}), Len(f) >= 3,
               \A i \in 1..Len(f) : f[i] = IF i <= 3 THEN "std" ELSE "file", NEW h, h = Append(f, "file")
        PROVE  Len(h) >= 3 /\ \A i \in 1..Len(h) : h[i] = IF i <= 3 THEN "std" ELSE "file"
    BY ONLY <2>2
  <2>3. PICK h : h = Append(files[cur], "file")
    OBVIOUS
  <2>4. Len(h) >= 3 /\ \A i \in 1..Len(h) : h[i] = IF i <= 3 THEN "std" ELSE "file"
    BY ONLY <2>1, <2>2, <2>3
  <2>5. files'[cur] = h /\ run'[cur].op = "app"
    BY ONLY <1>3, <1>4, <1>5, <2>3
  <2> QED
    BY ONLY <2>4, <2>5, cur' = cur DEF FilesAre
<1>7. HaltedForCause'
  BY ONLY <1>2, ~halted DEF HaltedForCause
<1> QED
  BY ONLY <1>1, <1>4, <1>5, <1>6, <1>7, ExecInvOf(lab), AppStep

\* The fault of a program in its own code finds a handler that reads its frame; one
\* in a system call stops the machine for that cause.
LEMMA KillAppKeeps ==
    ASSUME NEW lab, ExecInvOf(lab), ~halted, cur' = cur, NEW v \in ProgramFaults, KillApp(cur, v)
    PROVE  ExecInv'
<1>1. /\ cur \in Task /\ run[cur] \in RunTypes
      /\ run \in [Task -> RunTypes] /\ files \in [Task -> Seq({"std", "file"})]
  BY DEF ExecInvOf, ExecTypes
<1>2. /\ cr3' = cr3 /\ context' = context /\ mem' = mem /\ data' = data
      /\ used' = used /\ taken' = taken /\ files' = files
  BY DEF KillApp
<1>3. CASE run[cur].op = "app"
  <2> DEFINE d == [run[cur] EXCEPT !.op = "kill"]
  <2>1. run' = [run EXCEPT ![cur] = d] /\ ~halted'
    BY <1>1, <1>3, FaultsAreRead DEF KillApp
  <2>2. d \in RunTypes /\ d.op = "kill" /\ d.prog = run[cur].prog
    BY <1>1 DEF RunTypes, BusyOps
  <2> HIDE DEF d
  <2>3. MapsAlone /\ run'[cur] = d /\ taken'[cur] = taken[cur] /\ context'[cur] = context[cur]
    <3>1. files' \in [Task -> Seq({"std", "file"})] /\ \A u \in Task \ {cur} : files'[u] = files[u]
      BY <1>1, <1>2
    <3> QED
      BY ONLY <1>2, <2>1, <2>2, <3>1, ExecInvOf(lab), cur' = cur, LocalStep
  <2>4. FilesAre(cur)'
    BY ONLY <2>2, <2>3, cur' = cur DEF FilesAre
  <2>5. HaltedForCause'
    BY ONLY <2>1 DEF HaltedForCause
  <2> QED
    BY ONLY <1>1, <1>3, <2>2, <2>3, <2>4, <2>5, ExecInvOf(lab), AppStep
<1>4. CASE run[cur].op = "syscall"
  <2>1. run' = run
    BY <1>4 DEF KillApp
  <2>2. HaltedForCause'
    BY ONLY <1>4, <2>1, cur' = cur DEF HaltedForCause
  <2>3. run[cur].op \in LoadOps
    BY <1>4 DEF LoadOps
  <2> QED
    BY ONLY <1>2, <2>1, <2>2, <2>3, cur' = cur, ExecInvOf(lab), StopStep
<1> QED
  BY <1>3, <1>4 DEF KillApp

\* KillApp loses its stack: the machine stops for that cause.
LEMMA KillAppLostKeeps ==
    ASSUME NEW lab, ExecInvOf(lab), ~halted, cur' = cur, KillAppLost(cur)
    PROVE  ExecInv'
<1>1. /\ run[cur].op = "kill_hit"
      /\ run' = run /\ cr3' = cr3 /\ context' = context /\ mem' = mem /\ data' = data
      /\ used' = used /\ taken' = taken /\ files' = files
  BY DEF KillAppLost
<1>2. HaltedForCause'
  BY ONLY <1>1, cur' = cur DEF HaltedForCause
<1>3. run[cur].op \in LoadOps
  BY <1>1 DEF LoadOps
<1> QED
  BY ONLY <1>1, <1>2, <1>3, cur' = cur, ExecInvOf(lab), StopStep

\* The page maps and subtrees that the other tasks have are allocated, and are not
\* those of a task in ExecuteFile.
LEMMA OthersRoots ==
    ASSUME NEW lab, ExecInvOf(lab), NEW u \in Task
    PROVE  /\ CR3(u) \in used \cup {KernelPML4}
           /\ run[u].op \in {"clean", "free"} => run[u].map \in used
           /\ Busy(u) => RootOf(u) \in used
           /\ Busy(cur) /\ u # cur =>
                 /\ CR3(u) # RootOf(cur)
                 /\ run[u].op \in {"clean", "free"} => run[u].map # RootOf(cur)
<1>1. RunOnRoots(lab) /\ RootsApart(lab) /\ CleanMaps(lab) /\ cur \in Task
  BY DEF ExecInvOf, MapsInv, ExecTypes
<1>2. CR3(u) \in used \cup {KernelPML4}
  BY <1>1 DEF RunOnRoots, IsRoot
<1>3. Busy(u) => RootOf(u) \in used
  BY <1>1 DEF RootsApart, IsRoot
<1>4. run[u].op = "clean" => run[u].map \in used /\ lab[run[u].map].lev = kLevels - 1
  BY <1>1 DEF CleanMaps, IsRoot
<1>5. run[u].op = "free" => run[u].map = RootOf(u) /\ Busy(u)
  BY DEF RootOf, Busy, BusyOps
<1>6. ASSUME Busy(cur), u # cur
      PROVE  CR3(u) # RootOf(cur) /\ (Busy(u) => RootOf(u) # RootOf(cur)) /\ lab[RootOf(cur)].lev = kLevels
  BY <1>1, <1>6 DEF RootsApart, IsRoot
<1>7. kLevels # kLevels - 1
  BY ShapeAssumption
<1> QED
  BY ONLY <1>2, <1>3, <1>4, <1>5, <1>6, <1>7

\* What SetupPML4 copies maps the kernel and nothing else.
LEMMA KernelEntriesAre ==
    ASSUME NEW lab, ExecInvOf(lab)
    PROVE  /\ KernelEntries(cr3) \in [Index -> Frame \cup {NotPresent, IdentityMap}]
           /\ \A i \in Index :
                 KernelEntries(cr3)[i] = IF i < kEntries \div 2 THEN KernelEntry(i) ELSE NotPresent
<1> DEFINE M == KernelEntries(cr3)
<1>1. /\ ExecTypes /\ Forest(lab) /\ KernelMapped /\ RunOnRoots(lab) /\ cur \in Task /\ CR3(cur) = cr3
  BY DEF ExecInvOf, ExecTypes, MapsInv, CR3
<1>2. cr3 = KernelPML4 \/ IsRoot(lab, cr3, kLevels)
  BY ONLY <1>1 DEF RunOnRoots
<1>3. ASSUME NEW i \in Index, i < kEntries \div 2 PROVE mem[cr3][i] = KernelEntry(i)
  <2>1. CASE cr3 = KernelPML4
    BY <1>1, <2>1 DEF KernelMapped
  <2>2. CASE IsRoot(lab, cr3, kLevels)
    BY <1>1, <1>3, <2>2 DEF IsRoot, Forest, EntriesGood, InTrees, ExecTypes
  <2> QED
    BY <1>2, <2>1, <2>2
<1>4. \A i \in Index : M[i] = IF i < kEntries \div 2 THEN KernelEntry(i) ELSE NotPresent
  BY <1>3 DEF KernelEntries
<1>5. DOMAIN M = Index /\ M = [i \in Index |-> M[i]]
  BY DEF KernelEntries
<1> HIDE DEF M
<1>6. \A i \in Index : M[i] \in Frame \cup {NotPresent, IdentityMap}
  BY <1>4 DEF KernelEntry
<1> QED
  BY ONLY <1>4, <1>5, <1>6 DEF M

\* SetupPML4 with a frame: the task leaves its page map for a new root.
LEMMA NewRootStep ==
    ASSUME NEW lab, ExecInvOf(lab), ~halted, cur' = cur, NEW f \in Frame, f \notin used,
           run[cur].op = "pml4", NEW d \in RunTypes, d.op = "load",
           used' = used \cup {f}, taken' = [taken EXCEPT ![cur] = @ \cup {f}],
           data' = [data EXCEPT ![f] = {}], mem' = [mem EXCEPT ![f] = KernelEntries(cr3)], cr3' = f,
           context' = [context EXCEPT ![cur] = f], run' = [run EXCEPT ![cur] = d],
           files' = files, halted' = halted,
           NEW lab2, lab2 = [lab EXCEPT ![f] = [own |-> f, lev |-> kLevels, pre |-> 0, top |-> 0]]
    PROVE  ExecInv'
<1>1. /\ cur \in Task /\ ExecTypes /\ Forest(lab) /\ KernelMapped /\ RunOnRoots(lab) /\ RootsApart(lab)
      /\ TaskInv(lab, cur) /\ used \subseteq Frame
  BY DEF ExecInvOf, ExecTypes, MapsInv
<1>2. PICK M : M = KernelEntries(cr3)
  OBVIOUS
<1>3. /\ M \in [Index -> Frame \cup {NotPresent, IdentityMap}]
      /\ \A i \in Index : M[i] = IF i < kEntries \div 2 THEN KernelEntry(i) ELSE NotPresent
      /\ mem' = [mem EXCEPT ![f] = M]
  BY <1>2, KernelEntriesAre
<1>4. /\ Forest(lab2)' /\ IsRoot(lab2, f, kLevels)' /\ TreeOf(lab2, f)' = {f}
      /\ \A r : r # f => SameTree(lab, lab2, r)
  BY ONLY <1>1, <1>3, f \in Frame, f \notin used, used' = used \cup {f}, data' = [data EXCEPT ![f] = {}],
     lab2 = [lab EXCEPT ![f] = [own |-> f, lev |-> kLevels, pre |-> 0, top |-> 0]], AddRoot
<1>5. /\ run'[cur] = d /\ run' \in [Task -> RunTypes] /\ \A u \in Task \ {cur} : run'[u] = run[u]
  BY ONLY <1>1, d \in RunTypes, run' = [run EXCEPT ![cur] = d] DEF ExecTypes
<1>6. /\ taken'[cur] = taken[cur] \cup {f} /\ taken' \in [Task -> SUBSET Frame]
      /\ \A u \in Task \ {cur} : taken'[u] = taken[u]
  BY ONLY <1>1, f \in Frame, taken' = [taken EXCEPT ![cur] = @ \cup {f}] DEF ExecTypes
<1>7. /\ context'[cur] = f /\ context' \in [Task -> Frame \cup {KernelPML4, NotPresent}]
      /\ \A u \in Task \ {cur} : context'[u] = context[u]
  BY ONLY <1>1, f \in Frame, context' = [context EXCEPT ![cur] = f] DEF ExecTypes
<1>8. mem' \in [Frame \cup {KernelPML4} -> [Index -> Frame \cup {NotPresent, IdentityMap}]]
      /\ mem'[KernelPML4] = mem[KernelPML4]
  BY ONLY <1>1, <1>3, f \in Frame, EntriesDiffer DEF ExecTypes
<1>9. data' \in [Frame -> SUBSET Nat]
  BY ONLY <1>1, data' = [data EXCEPT ![f] = {}] DEF ExecTypes
<1>10. IsFiniteSet(used') /\ used' \in SUBSET Frame
  BY ONLY <1>1, used' = used \cup {f}, f \in Frame, FS_AddElement DEF ExecTypes
<1>11. ExecTypes'
  BY ONLY <1>1, <1>5, <1>6, <1>7, <1>8, <1>9, <1>10, cur' = cur, cr3' = f, f \in Frame, files' = files
  DEF ExecTypes
<1>12. KernelMapped'
  BY ONLY <1>1, <1>8 DEF KernelMapped
<1>13. ASSUME NEW u \in Task
       PROVE  /\ CR3(u) # f /\ (run[u].op \in {"clean", "free"} => run[u].map # f)
              /\ (Busy(u) => RootOf(u) # f)
  BY ONLY <1>1, <1>13, ExecInvOf(lab), OthersRoots, f \notin used, f \in Frame, EntriesDiffer
<1>14. OthersAlone(lab, lab2)
  BY ONLY <1>4, <1>5, <1>6, <1>7, <1>13, cur' = cur, files' = files DEF OthersAlone
<1>15. Busy(cur)' /\ RootOf(cur)' = f
  BY ONLY <1>5, cur' = cur, cr3' = f, d.op = "load" DEF Busy, BusyOps, RootOf, CR3
<1>16. RootsMove(lab2)
  <2>1. IsRoot(lab2, cr3, kLevels)' /\ IsRoot(lab2, RootOf(cur), kLevels)'
    BY ONLY <1>4, <1>15, cr3' = f DEF IsRoot
  <2> QED
    BY ONLY <1>5, <1>7, <1>13, <1>15, <2>1, cur' = cur, cr3' = f, d.op = "load" DEF RootsMove
<1>17. TakenIs(lab2, cur)'
  <2>1. taken[cur] = {}
    BY ONLY <1>1, run[cur].op = "pml4" DEF TaskInv, TakenIs
  <2>2. {x \in used' : lab2[x].own = f} = {f}
    BY ONLY <1>4 DEF TreeOf
  <2>3. taken'[cur] = {x \in used' : lab2[x].own = f}
    BY ONLY <1>6, <2>1, <2>2
  <2> QED
    BY ONLY <1>5, <1>15, <2>3, cur' = cur, d.op = "load" DEF TakenIs
<1>18. CoversProgram(lab2, cur)'
  <2>1. \A x \in used' : lab2[x].own = f => x = f
    BY ONLY <1>4 DEF TreeOf
  <2> QED
    BY ONLY <1>15, <2>1 DEF CoversProgram
<1>19. Progress(lab2, cur)' /\ Copied(lab2, cur)' /\ ArgsFit(cur)'
  BY ONLY <1>5, cur' = cur, d.op = "load" DEF Progress, Copied, ArgsFit, AfterOps
<1>20. FilesAre(cur)'
  BY ONLY <1>1, <1>5, cur' = cur, files' = files, d.op = "load", run[cur].op = "pml4" DEF FilesAre, TaskInv
<1>21. TaskInv(lab2, cur)'
  BY ONLY <1>17, <1>18, <1>19, <1>20 DEF TaskInv
<1>22. HaltedForCause'
  BY ONLY halted' = halted, ~halted DEF HaltedForCause
<1> QED
  BY ONLY <1>4, <1>11, <1>12, <1>14, <1>16, <1>21, <1>22, ExecInvOf(lab), CurStep

\* SetupPML4.
LEMMA SetupPML4Keeps ==
    ASSUME NEW lab, ExecInvOf(lab), ~halted, cur' = cur, SetupPML4(cur)
    PROVE  ExecInv'
<1>1. /\ cur \in Task /\ run[cur] \in RunTypes /\ run[cur].op = "pml4" /\ ExecTypes
  BY DEF ExecInvOf, ExecTypes, SetupPML4
<1>2. CASE ~CanAllocate
  BY <1>1, <1>2, FailStep DEF SetupPML4
<1>3. CASE CanAllocate
  <2>1. PICK f : f = NewFrame(cur)
    OBVIOUS
  <2>2. PICK d : d = [run[cur] EXCEPT !.op = "load"]
    OBVIOUS
  <2>3. f \in Frame /\ f \notin used
    BY <1>1, <1>3, <2>1, NewFrameIs
  <2>4. /\ used' = used \cup {f} /\ taken' = [taken EXCEPT ![cur] = @ \cup {f}]
        /\ data' = [data EXCEPT ![f] = {}] /\ mem' = [mem EXCEPT ![f] = KernelEntries(cr3)] /\ cr3' = f
        /\ context' = [context EXCEPT ![cur] = f] /\ run' = [run EXCEPT ![cur] = d]
        /\ files' = files /\ halted' = halted
    BY <1>1, <1>3, <2>1, <2>2 DEF SetupPML4, Take
  <2>5. d \in RunTypes /\ d.op = "load"
    BY <1>1, <2>2 DEF RunTypes, BusyOps
  <2> QED
    BY ONLY <1>1, <2>3, <2>4, <2>5, ExecInvOf(lab), ~halted, cur' = cur, NewRootStep
<1> QED
  BY <1>2, <1>3

\* The local variables after a turn of SetupPageMap that has given the page its frame.
PageDone(c) ==
    LET left == IF c.page = Pages - 1 THEN 0 ELSE c.left - 1
    IN  [c EXCEPT !.left = left, !.page = @ + 1, !.op = IF left = 0 THEN "mapped" ELSE "map"]

\* While pages are being mapped the next one is a page of the program.
LEMMA PageIs ==
    ASSUME NEW lab, ExecInvOf(lab), run[cur].op = "map"
    PROVE  LET c == run[cur]
               a == FirstPage(c.prog, c.seg)
               n == PagesAsked(c.prog, c.seg)
               d == PageDone(c)
           IN  /\ c.prog \in Program /\ Loadable(c.prog) /\ c.seg \in 1..(Len(c.prog.segs) + 2)
               /\ c.page \in ProgramPages(c.prog) /\ c.page \in Upper /\ c.page \in Nat
               /\ a \in Nat /\ n \in Nat \ {0}
               /\ a <= c.page /\ c.page + c.left = a + n /\ c.left \in Nat \ {0}
               /\ d \in RunTypes /\ d.prog = c.prog /\ d.seg = c.seg
               /\ d.page = c.page + 1 /\ d.left = c.left - 1
               /\ d.op = IF d.left = 0 THEN "mapped" ELSE "map"
<1> DEFINE c == run[cur]
           a == FirstPage(c.prog, c.seg)
           n == PagesAsked(c.prog, c.seg)
           d == PageDone(c)
<1>1. c \in RunTypes /\ c.prog \in Program /\ TaskInv(lab, cur) /\ c.page \in Nat /\ c.left \in Nat
  BY DEF ExecInvOf, ExecTypes, RunTypes
<1>2. /\ Loadable(c.prog) /\ c.seg \in 1..(Len(c.prog.segs) + 2)
      /\ c.left > 0 /\ a <= c.page /\ c.page + c.left = a + n
  BY ONLY <1>1, run[cur].op = "map" DEF TaskInv, Progress, Busy, BusyOps
<1>3. /\ a \in Nat /\ n \in Nat \ {0} /\ a + n <= Pages
      /\ a..(a + n - 1) \subseteq PartPages(c.prog, c.seg)
      /\ PartPages(c.prog, c.seg) \subseteq Upper
      /\ PartPages(c.prog, c.seg) \subseteq ProgramPages(c.prog)
  BY ONLY <1>1, <1>2, PartPagesAre
<1>4. /\ c.page \in a..(a + n - 1) /\ Pages \in Nat /\ c.left \in Nat \ {0}
      /\ (IF c.page = Pages - 1 THEN 0 ELSE c.left - 1) = c.left - 1
  <2>1. Pages \in Nat
    BY PagesIs
  <2> HIDE DEF a, n, c
  <2> QED
    BY ONLY <1>1, <1>2, <1>3, <2>1
<1>5. d = [c EXCEPT !.left = c.left - 1, !.page = c.page + 1,
                    !.op = IF c.left - 1 = 0 THEN "mapped" ELSE "map"]
  <2>1. d = LET left == c.left - 1
            IN  [c EXCEPT !.left = left, !.page = @ + 1, !.op = IF left = 0 THEN "mapped" ELSE "map"]
    BY ONLY <1>4 DEF PageDone
  <2> QED
    BY ONLY <1>1, <2>1 DEF RunTypes
<1>6. /\ d \in RunTypes /\ d.prog = c.prog /\ d.seg = c.seg
      /\ d.page = c.page + 1 /\ d.left = c.left - 1
      /\ d.op = IF d.left = 0 THEN "mapped" ELSE "map"
  <2>1. c.left - 1 \in Nat /\ c.page + 1 \in Nat
    BY ONLY <1>1, <1>4
  <2> HIDE DEF d
  <2> QED
    BY ONLY <1>1, <1>5, <2>1 DEF RunTypes, BusyOps
<1> QED
  BY ONLY <1>1, <1>2, <1>3, <1>4, <1>6

\* A turn of SetupPageMap as far as the task itself is concerned.
LEMMA MapTurn ==
    ASSUME NEW lab, NEW lab2, ExecInvOf(lab), cur' = cur, files' = files, cr3' = cr3, run[cur].op = "map",
           \A g : Have(lab, cr3, g) => Have(lab2, cr3, g)',
           \A i, g : Holds(lab, cr3, i, g) => Holds(lab2, cr3, i, g)',
           NEW d, run'[cur] = d,
           \/ d = run[cur]
           \/ d = PageDone(run[cur]) /\ \A g : g = run[cur].page => Have(lab2, cr3, g)'
    PROVE  /\ Progress(lab2, cur)' /\ Copied(lab2, cur)' /\ ArgsFit(cur)' /\ FilesAre(cur)'
           /\ d.op \in {"map", "mapped"} /\ d.prog = run[cur].prog /\ d \in RunTypes
<1> DEFINE c == run[cur]
           a == FirstPage(c.prog, c.seg)
           n == PagesAsked(c.prog, c.seg)
<1>1. /\ c.prog \in Program /\ Loadable(c.prog) /\ c.seg \in 1..(Len(c.prog.segs) + 2)
      /\ c.page \in Nat /\ a \in Nat /\ n \in Nat \ {0}
      /\ a <= c.page /\ c.page + c.left = a + n /\ c.left \in Nat \ {0}
  BY ONLY ExecInvOf(lab), run[cur].op = "map", PageIs
<1>2. TaskInv(lab, cur) /\ RootOf(cur) = cr3 /\ c \in RunTypes
  BY DEF ExecInvOf, ExecTypes, RootOf, CR3
<1>3. /\ \A i \in 1..(c.seg - 1) : \A g \in PartPages(c.prog, i) : Have(lab, cr3, g)
      /\ \A g \in a..(c.page - 1) : Have(lab, cr3, g)
      /\ \A i \in 1..Len(c.prog.segs) : i < c.seg => \A g \in Touched(c.prog.segs[i]) : Holds(lab, cr3, i, g)
      /\ (c.seg = Len(c.prog.segs) + 2 => ~ArgsFull(c.prog.args))
      /\ files[cur] = <<>>
  BY ONLY <1>2, run[cur].op = "map" DEF TaskInv, Progress, Copied, ArgsFit, FilesAre
<1>4. /\ d.prog = c.prog /\ d.seg = c.seg /\ d.op \in {"map", "mapped"} /\ d \in RunTypes
      /\ \/ d = c
         \/ /\ d.page = c.page + 1 /\ d.left = c.left - 1 /\ d.op = IF d.left = 0 THEN "mapped" ELSE "map"
            /\ \A g : g = c.page => Have(lab2, cr3, g)'
  BY ONLY <1>2, ExecInvOf(lab), run[cur].op = "map", PageIs,
     \/ d = run[cur]
     \/ d = PageDone(run[cur]) /\ \A g : g = run[cur].page => Have(lab2, cr3, g)'
<1>5. RootOf(cur)' = cr3'
  BY ONLY <1>4, run'[cur] = d, cur' = cur DEF RootOf, CR3
<1>6. \A i \in 1..(d.seg - 1) : \A g \in PartPages(d.prog, i) : Have(lab2, cr3, g)'
  BY ONLY <1>3, <1>4, \A g : Have(lab, cr3, g) => Have(lab2, cr3, g)'
<1>7. /\ \A g \in a..(d.page - 1) : Have(lab2, cr3, g)'
      /\ d.page + d.left = a + n /\ a <= d.page
      /\ d.op = "map" => d.left > 0
      /\ d.op = "mapped" => d.page = a + n
  <2>1. CASE d = c
    BY ONLY <1>1, <1>3, <2>1, run[cur].op = "map", \A g : Have(lab, cr3, g) => Have(lab2, cr3, g)'
  <2>2. CASE /\ d.page = c.page + 1 /\ d.left = c.left - 1 /\ d.op = IF d.left = 0 THEN "mapped" ELSE "map"
             /\ \A g : g = c.page => Have(lab2, cr3, g)'
    <3> HIDE DEF c, a, n
    <3>1. \A g \in a..(d.page - 1) : g = c.page \/ g \in a..(c.page - 1)
      BY ONLY <1>1, <2>2
    <3>2. \A g \in a..(d.page - 1) : Have(lab2, cr3, g)'
      BY ONLY <1>3, <2>2, <3>1, \A g : Have(lab, cr3, g) => Have(lab2, cr3, g)'
    <3> QED
      BY ONLY <1>1, <2>2, <3>2
  <2> QED
    BY ONLY <1>4, <2>1, <2>2
<1>8. Progress(lab2, cur)'
  <2>1. ASSUME NEW g, Have(lab2, cr3, g)' PROVE Have(lab2, RootOf(cur), g)'
    BY ONLY <1>5, <2>1 DEF Have
  <2>2. \A i \in 1..(d.seg - 1) : \A g \in PartPages(d.prog, i) : Have(lab2, RootOf(cur), g)'
    BY ONLY <1>6, <2>1
  <2>3. a = FirstPage(d.prog, d.seg) /\ n = PagesAsked(d.prog, d.seg)
        /\ Loadable(d.prog) /\ d.seg \in 1..(Len(d.prog.segs) + 2)
    BY ONLY <1>1, <1>4
  <2>4. \A g \in a..(d.page - 1) : Have(lab2, RootOf(cur), g)'
    BY ONLY <1>7, <2>1
  <2> HIDE DEF a, n, c
  <2>5. CASE d.op = "map"
    BY ONLY <1>7, <2>2, <2>3, <2>4, <2>5, run'[cur] = d, cur' = cur DEF Progress, AfterOps
  <2>6. CASE d.op = "mapped"
    <3>1. \A g \in a..(a + n - 1) : Have(lab2, RootOf(cur), g)'
      <4>1. d.page = a + n
        BY ONLY <1>7, <2>6
      <4>2. a..(d.page - 1) = a..(a + n - 1)
        BY ONLY <1>1, <4>1
      <4> QED
        BY ONLY <2>4, <4>2
    <3> QED
      BY ONLY <2>2, <2>3, <2>6, <3>1, run'[cur] = d, cur' = cur DEF Progress, AfterOps
  <2> QED
    BY ONLY <1>4, <2>5, <2>6
<1>9. Copied(lab2, cur)'
  <2>1. ASSUME NEW i, NEW g, Holds(lab, cr3, i, g) PROVE Holds(lab2, RootOf(cur), i, g)'
    <3>1. Holds(lab2, cr3, i, g)'
      BY ONLY <2>1, \A j, h : Holds(lab, cr3, j, h) => Holds(lab2, cr3, j, h)'
    <3> QED
      BY ONLY <1>5, <3>1 DEF Holds
  <2>2. \A i \in 1..Len(d.prog.segs) : i < d.seg =>
            \A g \in Touched(d.prog.segs[i]) : Holds(lab2, RootOf(cur), i, g)'
    BY ONLY <1>3, <1>4, <2>1
  <2> QED
    BY ONLY <1>4, <2>2, run'[cur] = d, cur' = cur DEF Copied
<1>10. ArgsFit(cur)'
  BY ONLY <1>3, <1>4, run'[cur] = d, cur' = cur DEF ArgsFit, ArgsFull
<1>11. FilesAre(cur)'
  BY ONLY <1>3, <1>4, run'[cur] = d, cur' = cur, files' = files DEF FilesAre
<1> QED
  BY ONLY <1>4, <1>8, <1>9, <1>10, <1>11

\* SetupPageMap gives an entry a new map or page.
TakesChild(lab, f, g, l, p, i, d, lab2) ==
    /\ f \in Frame /\ f \notin used /\ g = run[cur].page
    /\ l \in 0..(kLevels - 1) /\ p = Walk(cr3, g)[l + 1] /\ p # NotPresent
    /\ Walk(cr3, g)[l] = NotPresent /\ i = Part(g, l + 1)
    /\ used' = used \cup {f} /\ taken' = [taken EXCEPT ![cur] = @ \cup {f}]
    /\ data' = [data EXCEPT ![f] = {}] /\ mem' = ChildMaps(f, p, i)
    /\ run' = [run EXCEPT ![cur] = d]
    /\ \/ d = run[cur]
       \/ d = PageDone(run[cur]) /\ l = 0 /\ \A k \in 1..(kLevels - 1) : Walk(cr3, g)[k] # NotPresent
    /\ cr3' = cr3 /\ context' = context /\ files' = files /\ halted' = halted
    /\ lab2 = PlaceAt(lab, f, cr3, l, g \div Span[l], TopOf(g))

\* SetupPageMap with a frame keeps the invariant, the frame in its place.
LEMMA NewChildStep ==
    ASSUME NEW lab, ExecInvOf(lab), ~halted, cur' = cur, run[cur].op = "map",
           NEW f, NEW g, NEW l, NEW p, NEW i, NEW d, NEW lab2, TakesChild(lab, f, g, l, p, i, d, lab2)
    PROVE  ExecInv'
<1>0. /\ f \in Frame /\ f \notin used /\ g = run[cur].page
      /\ l \in 0..(kLevels - 1) /\ p = Walk(cr3, g)[l + 1] /\ p # NotPresent
      /\ Walk(cr3, g)[l] = NotPresent /\ i = Part(g, l + 1)
      /\ used' = used \cup {f} /\ taken' = [taken EXCEPT ![cur] = @ \cup {f}]
      /\ data' = [data EXCEPT ![f] = {}] /\ mem' = ChildMaps(f, p, i)
      /\ run' = [run EXCEPT ![cur] = d]
      /\ \/ d = run[cur]
         \/ d = PageDone(run[cur]) /\ l = 0 /\ \A k \in 1..(kLevels - 1) : Walk(cr3, g)[k] # NotPresent
      /\ cr3' = cr3 /\ context' = context /\ files' = files /\ halted' = halted
      /\ lab2 = PlaceAt(lab, f, cr3, l, g \div Span[l], TopOf(g))
  BY DEF TakesChild
<1>1. /\ cur \in Task /\ ExecTypes /\ Forest(lab) /\ KernelMapped /\ RootsApart(lab) /\ Registers
      /\ TaskInv(lab, cur) /\ used \subseteq Frame
  BY DEF ExecInvOf, ExecTypes, MapsInv
<1>2. /\ g \in ProgramPages(run[cur].prog) /\ g \in Upper /\ g \in Nat
  BY ONLY <1>0, ExecInvOf(lab), run[cur].op = "map", PageIs
<1>3. RootOf(cur) = cr3 /\ Busy(cur) /\ CR3(cur) = cr3
  BY DEF RootOf, CR3, Busy, BusyOps
<1>4. IsRoot(lab, cr3, kLevels) /\ cr3 \in Frame
  BY ONLY <1>1, <1>3 DEF RootsApart, IsRoot
<1>5. kLevels \in Nat /\ l \in Nat /\ l + 1 \in 0..kLevels /\ l \in 0..kLevels /\ l # kLevels
  BY <1>0, ShapeAssumption
<1>6. /\ p \in used /\ lab[p].own = cr3 /\ lab[p].lev = l + 1 /\ lab[p].pre = g \div Span[l + 1]
      /\ l + 1 < kLevels => lab[p].top = TopOf(g)
  BY ONLY <1>0, <1>1, <1>2, <1>4, <1>5, WalkPlaced
<1>7. p \in InTrees(lab) /\ p \in Frame
  BY ONLY <1>1, <1>4, <1>6 DEF InTrees
<1>8. /\ i \in Index /\ g \div Span[l] = (g \div Span[l + 1]) * kEntries + i
      /\ g \div Span[l] \in Nat
  BY ONLY <1>0, <1>2, PartIs
<1>9. mem[p][i] = NotPresent
  <2>1. Walk(cr3, g)[l] = IF Walk(cr3, g)[l + 1] \in Frame THEN mem[Walk(cr3, g)[l + 1]][Part(g, l + 1)]
                          ELSE NotPresent
    BY ONLY <1>1, <1>2, <1>4, <1>5, WalkIs
  <2> QED
    BY ONLY <1>0, <1>7, <2>1
<1>10. /\ Part(g, kLevels) = TopOf(g) /\ TopOf(g) \in Nat
       /\ TopOf(g) >= kEntries \div 2
  BY <1>2, UpperIs DEF Index
<1>11. /\ TopOf(g) = IF l + 1 = kLevels THEN i ELSE lab[p].top
       /\ ~(lab[p].lev = kLevels /\ i < kEntries \div 2)
  <2>1. CASE l + 1 = kLevels
    <3>1. i = TopOf(g) /\ kEntries \in Nat
      BY <1>0, <1>10, <2>1, ShapeAssumption
    <3> QED
      BY ONLY <1>10, <2>1, <3>1
  <2>2. CASE l + 1 # kLevels
    BY ONLY <1>5, <1>6, <2>2
  <2> QED
    BY ONLY <2>1, <2>2
<1>12. /\ Forest(lab2)'
       /\ \A r : r # cr3 => SameTree(lab, lab2, r)
       /\ lab2[f].own = cr3 /\ lab2[f].lev = l /\ lab2[f].pre = g \div Span[l] /\ lab2[f].top = TopOf(g)
       /\ \A x \in used : lab2[x] = lab[x] /\ data'[x] = data[x]
  <2>1. PICK e : e = TopOf(g)
    OBVIOUS
  <2>2. PICK x : x = g \div Span[l]
    OBVIOUS
  <2>3. FreeEntry(lab, p, i, l, x, e)
    BY ONLY <1>0, <1>6, <1>7, <1>8, <1>9, <1>10, <1>11, <2>1, <2>2 DEF FreeEntry
  <2>4. lab2 = PlaceAt(lab, f, lab[p].own, l, x, e)
    BY ONLY <1>0, <1>6, <2>1, <2>2
  <2>5. /\ Forest(lab2)'
        /\ \A r : r # lab[p].own => SameTree(lab, lab2, r)
        /\ lab2[f].own = lab[p].own /\ lab2[f].lev = l /\ lab2[f].pre = x /\ lab2[f].top = e
        /\ \A y \in used : lab2[y] = lab[y] /\ data'[y] = data[y]
    <3>1. AddsChild(lab, f, p, i, l, x, e, lab2)
      BY ONLY <1>0, <2>3, <2>4 DEF AddsChild
    <3> QED
      BY ONLY <1>1, <3>1, AddChild
  <2> QED
    BY ONLY <1>6, <2>1, <2>2, <2>5
<1>13. ASSUME NEW h PROVE Have(lab, cr3, h) => Have(lab2, cr3, h)'
  <2>1. \A x \in used : x \in used' /\ lab2[x] = lab[x]
    BY ONLY <1>0, <1>12
  <2>2. cr3' = cr3
    BY ONLY <1>0
  <2> QED
    BY ONLY <2>1, <2>2 DEF Have
<1>14. ASSUME NEW j, NEW h PROVE Holds(lab, cr3, j, h) => Holds(lab2, cr3, j, h)'
  BY ONLY <1>0, <1>12 DEF Holds
<1>15. \A h : h = run[cur].page => (d = PageDone(run[cur]) => d = run[cur] \/ Have(lab2, cr3, h)')
  <2>1. ASSUME d = PageDone(run[cur]), d # run[cur] PROVE Have(lab2, cr3, g)'
    <3>1. l = 0 /\ \A k \in 1..(kLevels - 1) : Walk(cr3, g)[k] # NotPresent
      BY ONLY <1>0, <2>1
    <3>2. ASSUME NEW k \in 1..(kLevels - 1)
          PROVE  \E y \in used' : /\ lab2[y].own = cr3 /\ lab2[y].lev = k /\ lab2[y].pre = g \div Span[k]
                                  /\ lab2[y].top = TopOf(g)
      <4>1. k \in 0..kLevels /\ k < kLevels
        BY ONLY <1>5, <3>2
      <4>2. PICK y : y = Walk(cr3, g)[k]
        OBVIOUS
      <4>3. /\ y \in used /\ lab[y].own = cr3 /\ lab[y].lev = k /\ lab[y].pre = g \div Span[k]
            /\ lab[y].top = TopOf(g)
        BY ONLY <1>1, <1>2, <1>4, <3>1, <3>2, <4>1, <4>2, WalkPlaced
      <4>4. y \in used' /\ lab2[y] = lab[y]
        BY ONLY <1>0, <1>12, <4>3
      <4> QED
        BY ONLY <4>3, <4>4
    <3>3. \A k \in 0..(kLevels - 1) : k = 0 \/ k \in 1..(kLevels - 1)
      BY ONLY <1>5
    <3>4. f \in used' /\ cr3' = cr3
      BY ONLY <1>0
    <3> QED
      BY ONLY <1>12, <3>1, <3>2, <3>3, <3>4 DEF Have
  <2> QED
    BY ONLY <1>0, <2>1
<1>16. run'[cur] = d
  BY ONLY <1>0, <1>1 DEF ExecTypes
<1>17. /\ Progress(lab2, cur)' /\ Copied(lab2, cur)' /\ ArgsFit(cur)' /\ FilesAre(cur)'
       /\ d.op \in {"map", "mapped"} /\ d.prog = run[cur].prog /\ d \in RunTypes
  <2>1. \/ d = run[cur]
        \/ d = PageDone(run[cur]) /\ \A h : h = run[cur].page => Have(lab2, cr3, h)'
    BY ONLY <1>0, <1>15
  <2> QED
    BY ONLY <1>0, <1>13, <1>14, <1>16, <2>1, ExecInvOf(lab), cur' = cur, run[cur].op = "map", MapTurn
<1>18. /\ run' \in [Task -> RunTypes] /\ \A u \in Task \ {cur} : run'[u] = run[u]
  BY ONLY <1>0, <1>1, <1>17 DEF ExecTypes
<1>19. /\ taken'[cur] = taken[cur] \cup {f} /\ taken' \in [Task -> SUBSET Frame]
       /\ \A u \in Task \ {cur} : taken'[u] = taken[u]
  BY ONLY <1>0, <1>1 DEF ExecTypes
<1>20. mem' \in [Frame \cup {KernelPML4} -> [Index -> Frame \cup {NotPresent, IdentityMap}]]
       /\ mem'[KernelPML4] = mem[KernelPML4]
  <2>1. EmptyMap \in [Index -> Frame \cup {NotPresent, IdentityMap}]
    BY DEF EmptyMap
  <2>2. p # f
    BY ONLY <1>0, <1>6
  <2> QED
    BY ONLY <1>0, <1>1, <1>7, <1>8, <2>1, <2>2, EntriesDiffer DEF ExecTypes, ChildMaps
<1>21. data' \in [Frame -> SUBSET Nat]
  BY ONLY <1>0, <1>1 DEF ExecTypes
<1>22. IsFiniteSet(used') /\ used' \in SUBSET Frame
  BY ONLY <1>0, <1>1, FS_AddElement DEF ExecTypes
<1>23. ExecTypes'
  BY ONLY <1>0, <1>1, <1>18, <1>19, <1>20, <1>21, <1>22, cur' = cur DEF ExecTypes
<1>24. KernelMapped'
  BY ONLY <1>1, <1>20 DEF KernelMapped
<1>25. OthersAlone(lab, lab2)
  <2>1. ASSUME NEW u \in Task \ {cur}
        PROVE  CR3(u) # cr3 /\ (run[u].op \in {"clean", "free"} => run[u].map # cr3)
    BY ONLY <1>3, <2>1, ExecInvOf(lab), OthersRoots
  <2> QED
    BY ONLY <1>0, <1>12, <1>18, <1>19, <2>1, cur' = cur DEF OthersAlone
<1>26. Busy(cur)' /\ RootOf(cur)' = cr3
  BY ONLY <1>0, <1>16, <1>17, cur' = cur DEF Busy, BusyOps, RootOf, CR3
<1>27. RootsMove(lab2)
  <2>1. IsRoot(lab2, cr3, kLevels)'
    BY ONLY <1>0, <1>4, <1>12 DEF IsRoot
  <2>2. IsRoot(lab2, RootOf(cur), kLevels)'
    BY ONLY <1>0, <1>26, <2>1 DEF IsRoot
  <2>3. \A u \in Task \ {cur} : CR3(u) # cr3 /\ (Busy(u) => RootOf(u) # cr3)
    BY ONLY <1>1, <1>3 DEF RootsApart
  <2>4. context[cur] = cr3
    BY ONLY <1>1, run[cur].op = "map" DEF Registers, BusyOps
  <2> QED
    BY ONLY <1>0, <1>16, <1>17, <1>26, <2>1, <2>2, <2>3, <2>4, cur' = cur DEF RootsMove
<1>28. TakenIs(lab2, cur)'
  <2>1. taken[cur] = {y \in used : lab[y].own = cr3}
    BY ONLY <1>1, <1>3, run[cur].op = "map" DEF TaskInv, TakenIs
  <2>2. taken'[cur] = {y \in used' : lab2[y].own = cr3}
    BY ONLY <1>0, <1>12, <1>19, <2>1
  <2> QED
    BY ONLY <1>16, <1>17, <1>26, <2>2, cur' = cur DEF TakenIs
<1>29. CoversProgram(lab2, cur)'
  <2>1. ASSUME NEW y \in used', lab2[y].own = cr3, y # cr3
        PROVE  \E h \in ProgramPages(run[cur].prog) : lab2[y].pre = h \div Span[lab2[y].lev] /\ lab2[y].top = TopOf(h)
    <3>1. CASE y = f
      BY ONLY <1>2, <1>12, <3>1
    <3>2. CASE y \in used
      <4>1. lab2[y] = lab[y]
        BY ONLY <1>12, <3>2
      <4>2. \E h \in ProgramPages(run[cur].prog) : lab[y].pre = h \div Span[lab[y].lev] /\ lab[y].top = TopOf(h)
        BY ONLY <1>1, <1>3, <2>1, <3>2, <4>1 DEF TaskInv, CoversProgram
      <4> QED
        BY ONLY <4>1, <4>2
    <3> QED
      BY ONLY <1>0, <2>1, <3>1, <3>2
  <2> QED
    BY ONLY <1>16, <1>17, <1>26, <2>1, cur' = cur DEF CoversProgram, AfterOps
<1>30. TaskInv(lab2, cur)'
  BY ONLY <1>17, <1>28, <1>29 DEF TaskInv
<1>31. HaltedForCause'
  BY ONLY <1>0, ~halted DEF HaltedForCause
<1>32. Forest(lab2)'
  BY ONLY <1>12
<1> QED
  BY ONLY <1>23, <1>24, <1>25, <1>27, <1>30, <1>31, <1>32, ExecInvOf(lab), CurStep

\* SetupPageMap finds the page mapped already.
LEMMA PageMappedStep ==
    ASSUME NEW lab, ExecInvOf(lab), ~halted, cur' = cur, run[cur].op = "map",
           \A k \in 0..(kLevels - 1) : Walk(cr3, run[cur].page)[k] # NotPresent,
           run' = [run EXCEPT ![cur] = PageDone(run[cur])], mem' = mem, data' = data, used' = used,
           taken' = taken, cr3' = cr3, context' = context, files' = files, halted' = halted
    PROVE  ExecInv'
<1>1. /\ cur \in Task /\ ExecTypes /\ Forest(lab) /\ RootsApart(lab) /\ run[cur] \in RunTypes
      /\ files \in [Task -> Seq({"std", "file"})]
  BY DEF ExecInvOf, ExecTypes, MapsInv
<1>2. PICK d : d = PageDone(run[cur])
  OBVIOUS
<1>3. d \in RunTypes /\ run[cur].page \in Upper
  BY ONLY <1>2, ExecInvOf(lab), run[cur].op = "map", PageIs
<1>4. MapsAlone /\ run'[cur] = d /\ taken'[cur] = taken[cur] /\ context'[cur] = context[cur]
  <2>1. files' \in [Task -> Seq({"std", "file"})] /\ \A u \in Task \ {cur} : files'[u] = files[u]
    BY <1>1
  <2>2. run' = [run EXCEPT ![cur] = d]
    BY <1>2
  <2> QED
    BY ONLY <1>3, <2>1, <2>2, ExecInvOf(lab), cur' = cur, cr3' = cr3, context' = context, mem' = mem,
       data' = data, used' = used, taken' = taken, LocalStep
<1>5. RootOf(cur) = cr3 /\ Busy(cur)
  BY DEF RootOf, CR3, Busy, BusyOps
<1>6. IsRoot(lab, cr3, kLevels)
  BY ONLY <1>1, <1>5 DEF RootsApart
<1>7. Have(lab, cr3, run[cur].page)
  BY ONLY <1>1, <1>3, <1>6, \A k \in 0..(kLevels - 1) : Walk(cr3, run[cur].page)[k] # NotPresent, WalkHas
<1>8. /\ \A g : Have(lab, cr3, g) => Have(lab, cr3, g)'
      /\ \A i, g : Holds(lab, cr3, i, g) => Holds(lab, cr3, i, g)'
  <2>1. ASSUME NEW g PROVE Have(lab, cr3, g) => Have(lab, cr3, g)'
    BY ONLY used' = used, cr3' = cr3 DEF Have
  <2>2. ASSUME NEW i, NEW g PROVE Holds(lab, cr3, i, g) => Holds(lab, cr3, i, g)'
    BY ONLY used' = used, cr3' = cr3, data' = data DEF Holds
  <2> QED
    BY ONLY <2>1, <2>2
<1>9. /\ Progress(lab, cur)' /\ Copied(lab, cur)' /\ ArgsFit(cur)' /\ FilesAre(cur)'
      /\ d.op \in {"map", "mapped"} /\ d.prog = run[cur].prog
  <2>1. \A g : g = run[cur].page => Have(lab, cr3, g)'
    BY ONLY <1>7, <1>8
  <2> QED
    BY ONLY <1>2, <1>4, <1>8, <2>1, ExecInvOf(lab), cur' = cur, files' = files, cr3' = cr3,
       run[cur].op = "map", MapTurn
<1>10. HaltedForCause'
  BY ONLY halted' = halted, ~halted DEF HaltedForCause
<1>11. run[cur].op \in LoadOps /\ run'[cur].op \in LoadOps /\ run'[cur].prog = run[cur].prog
  BY <1>4, <1>9 DEF LoadOps
<1> QED
  BY ONLY <1>4, <1>9, <1>10, <1>11, ExecInvOf(lab), LoadStep

\* A turn of SetupPageMap.
LEMMA SetupPageMapKeeps ==
    ASSUME NEW lab, ExecInvOf(lab), ~halted, cur' = cur, SetupPageMap(cur)
    PROVE  ExecInv'
<1>1. /\ cur \in Task /\ ExecTypes /\ run[cur] \in RunTypes /\ run[cur].op = "map" /\ Forest(lab)
      /\ RootsApart(lab)
  BY DEF ExecInvOf, ExecTypes, MapsInv, SetupPageMap
<1> DEFINE c == run[cur]
           way == Walk(cr3, c.page)
           miss == Missing(way)
           level == IF miss = {} THEN 0 ELSE Max(miss)
           left == IF c.page = Pages - 1 THEN 0 ELSE c.left - 1
<1>2. CASE miss # {} /\ ~CanAllocate
  BY <1>1, <1>2, FailStep DEF SetupPageMap
<1>3. CASE ~(miss # {} /\ ~CanAllocate)
  <2>1. /\ IF miss = {}
           THEN UNCHANGED <<mem, data, used, taken>>
           ELSE /\ Take(cur, NewFrame(cur))
                /\ mem' = [mem EXCEPT ![NewFrame(cur)] = EmptyMap,
                                      ![way[level + 1]][Part(c.page, level + 1)] = NewFrame(cur)]
        /\ run' = [run EXCEPT ![cur] = IF level > 0 THEN c ELSE PageDone(c)]
        /\ cr3' = cr3 /\ context' = context /\ files' = files /\ halted' = halted
    BY <1>3 DEF SetupPageMap, PageDone
  <2>2. kLevels \in Nat /\ kLevels > 0
    BY ShapeAssumption
  <2>3. CASE miss = {}
    <3>1. \A k \in 0..(kLevels - 1) : Walk(cr3, c.page)[k] # NotPresent
      BY <2>3 DEF Missing
    <3>2. run' = [run EXCEPT ![cur] = PageDone(c)] /\ UNCHANGED <<mem, data, used, taken>>
      BY <2>1, <2>3
    <3> QED
      BY ONLY <1>1, <2>1, <3>1, <3>2, ExecInvOf(lab), ~halted, cur' = cur, PageMappedStep
  <2>4. CASE miss # {}
    <3>1. level \in miss /\ \A k \in miss : level >= k
      <4>1. miss \subseteq 0..(kLevels - 1) /\ kLevels - 1 \in Nat
        BY <2>2 DEF Missing
      <4> QED
        BY <2>4, <4>1, MaxIs
    <3>2. PICK l : l = level
      OBVIOUS
    <3>3. /\ l \in 0..(kLevels - 1) /\ way[l] = NotPresent
          /\ \A k \in 0..(kLevels - 1) : k > l => way[k] # NotPresent
      <4>1. /\ level \in 0..(kLevels - 1) /\ way[level] = NotPresent
        BY <3>1 DEF Missing
      <4>2. ASSUME NEW k \in 0..(kLevels - 1), k > level PROVE way[k] # NotPresent
        <5>1. k \notin miss
          BY ONLY <2>2, <3>1, <4>1, <4>2
        <5> QED
          BY ONLY <4>2, <5>1 DEF Missing
      <4> QED
        BY ONLY <3>2, <4>1, <4>2
    <3>4. PICK f : f = NewFrame(cur)
      OBVIOUS
    <3>5. f \in Frame /\ f \notin used
      BY <1>1, <1>3, <2>4, <3>4, NewFrameIs
    <3>6. PICK g : g = c.page
      OBVIOUS
    <3>7. PICK p : p = Walk(cr3, g)[l + 1]
      OBVIOUS
    <3>8. PICK i : i = Part(g, l + 1)
      OBVIOUS
    <3>9. PICK d : d = IF level > 0 THEN c ELSE PageDone(c)
      OBVIOUS
    <3>10. p # NotPresent
      <4>1. cr3 \in Frame
        BY <1>1 DEF RootsApart, Busy, BusyOps, RootOf, CR3, IsRoot, ExecTypes
      <4>2. g \in Nat
        BY ONLY <1>1, <3>6, ExecInvOf(lab), PageIs
      <4>3. Walk(cr3, g)[kLevels] = cr3
        BY ONLY <1>1, <2>2, <4>1, <4>2, WalkIs
      <4>4. l + 1 = kLevels \/ (l + 1 \in 0..(kLevels - 1) /\ l + 1 > l)
        BY ONLY <2>2, <3>3
      <4> QED
        BY ONLY <3>3, <3>6, <3>7, <4>1, <4>3, <4>4, EntriesDiffer
    <3>11. /\ used' = used \cup {f} /\ taken' = [taken EXCEPT ![cur] = @ \cup {f}]
           /\ data' = [data EXCEPT ![f] = {}] /\ mem' = ChildMaps(f, p, i)
      BY ONLY <2>1, <2>4, <3>2, <3>4, <3>6, <3>7, <3>8 DEF Take, ChildMaps
    <3>12. run' = [run EXCEPT ![cur] = d]
      BY ONLY <2>1, <3>9
    <3>13. \/ d = run[cur]
           \/ d = PageDone(run[cur]) /\ l = 0 /\ \A k \in 1..(kLevels - 1) : Walk(cr3, g)[k] # NotPresent
      <4>1. CASE level > 0
        BY ONLY <3>9, <4>1
      <4>2. CASE ~(level > 0)
        <5>1. l = 0 /\ \A k \in 1..(kLevels - 1) : k \in 0..(kLevels - 1) /\ k > l
          BY ONLY <2>2, <3>2, <3>3, <4>2
        <5> QED
          BY ONLY <3>3, <3>6, <3>9, <4>2, <5>1
      <4> QED
        BY ONLY <4>1, <4>2
    <3>14. PICK lab2 : lab2 = PlaceAt(lab, f, cr3, l, g \div Span[l], TopOf(g))
      OBVIOUS
    <3>15. Walk(cr3, g)[l] = NotPresent
      BY ONLY <3>3, <3>6
    <3>16. TakesChild(lab, f, g, l, p, i, d, lab2)
      BY ONLY <2>1, <3>3, <3>5, <3>6, <3>7, <3>8, <3>10, <3>11, <3>12, <3>13, <3>14, <3>15 DEF TakesChild
    <3> QED
      BY ONLY <1>1, <3>16, ExecInvOf(lab), ~halted, cur' = cur, NewChildStep
  <2> QED
    BY <2>3, <2>4
<1> QED
  BY <1>2, <1>3

\* When the program has ended, the entry of its first load address leads to a map.
LEMMA EntryIsMapped ==
    ASSUME NEW lab, ExecInvOf(lab), run[cur].op \in {"app", "syscall", "kill", "kill_hit"}
    PROVE  LET e == LoadEntry(run[cur].prog)
           IN  e \in Index /\ e >= kEntries \div 2 /\ mem[cr3][e] \in Frame
<1> DEFINE p == run[cur].prog
           e == LoadEntry(p)
           g == FirstPage(p, 1)
<1>1. /\ cur \in Task /\ ExecTypes /\ Forest(lab) /\ RootsApart(lab) /\ p \in Program /\ TaskInv(lab, cur)
  BY DEF ExecInvOf, ExecTypes, MapsInv, RunTypes
<1>2. RootOf(cur) = cr3 /\ Busy(cur)
  BY DEF RootOf, CR3, Busy, BusyOps
<1>3. IsRoot(lab, cr3, kLevels) /\ cr3 \in Frame
  BY ONLY <1>1, <1>2 DEF RootsApart, IsRoot, ExecTypes
<1>4. Loadable(p) /\ \A h \in ProgramPages(p) : Have(lab, cr3, h)
  BY ONLY <1>1, <1>2, run[cur].op \in {"app", "syscall", "kill", "kill_hit"} DEF TaskInv, Progress
<1>5. e \in Index /\ e >= kEntries \div 2 /\ g \in ProgramPages(p) /\ TopOf(g) = e
  BY ONLY <1>1, <1>4, ProgramPagesAre
<1> HIDE DEF e, g
<1>6. kLevels \in Nat /\ kLevels - 1 \in 0..(kLevels - 1) /\ (kLevels - 1) + 1 = kLevels
      /\ kLevels - 1 # kLevels
  BY ShapeAssumption
<1>7. PICK f \in used : /\ lab[f].own = cr3 /\ lab[f].lev = kLevels - 1
                        /\ lab[f].pre = g \div Span[kLevels - 1]
  BY ONLY <1>4, <1>5, <1>6 DEF Have
<1>8. lab[f].pre = e /\ f \in Frame /\ f # cr3
  BY ONLY <1>1, <1>3, <1>5, <1>6, <1>7 DEF TopOf, IsRoot, ExecTypes
<1>9. f \in InTrees(lab) /\ cr3 \in InTrees(lab) /\ lab[cr3].own = cr3 /\ lab[cr3].lev = kLevels /\ lab[cr3].pre = 0
  BY ONLY <1>3, <1>7 DEF InTrees, IsRoot
<1>10. lab[f].pre = 0 * kEntries + e /\ 0 \in Nat
  <2>1. e \in Nat /\ kEntries \in Nat
    BY <1>5, ShapeAssumption DEF Index
  <2> QED
    BY ONLY <1>8, <2>1
<1>11. mem[cr3][e] = f
  <2>1. PICK x : x = 0
    OBVIOUS
  <2>2. x \in Nat /\ lab[f].pre = x * kEntries + e /\ lab[cr3].pre = x
    BY ONLY <1>9, <1>10, <2>1
  <2>3. lab[cr3].lev = lab[f].lev + 1 /\ lab[f].own # f /\ lab[cr3].own = lab[f].own
    BY ONLY <1>6, <1>7, <1>8, <1>9
  <2> QED
    BY ONLY <1>1, <1>5, <1>9, <2>2, <2>3, ParentIs
<1> QED
  BY ONLY <1>5, <1>8, <1>11 DEF e

\* CleanPageMaps unlinks that map: its subtree leaves the task's tree.
LEMMA UnlinkStep ==
    ASSUME NEW lab, ExecInvOf(lab), ~halted, cur' = cur, run[cur].op \in {"app", "syscall", "kill", "kill_hit"},
           NEW e, e = LoadEntry(run[cur].prog), NEW c, c = mem[cr3][e],
           files' = [files EXCEPT ![cur] = <<>>],
           NEW d \in RunTypes, d.op = "clean", d.map = c, d.prog = run[cur].prog,
           run' = [run EXCEPT ![cur] = d], mem' = Cleared(cr3, e),
           cr3' = cr3, context' = context, data' = data, used' = used, taken' = taken, halted' = halted
    PROVE  ExecInv'
<1>1. /\ cur \in Task /\ ExecTypes /\ Forest(lab) /\ KernelMapped /\ RootsApart(lab) /\ Registers
      /\ TaskInv(lab, cur) /\ used \subseteq Frame /\ CleanMaps(lab) /\ RunOnRoots(lab)
      /\ run[cur].prog \in Program
  BY DEF ExecInvOf, ExecTypes, MapsInv, RunTypes
<1>2. e \in Index /\ e >= kEntries \div 2 /\ c \in Frame
  BY ONLY ExecInvOf(lab), run[cur].op \in {"app", "syscall", "kill", "kill_hit"}, e = LoadEntry(run[cur].prog),
     c = mem[cr3][e], EntryIsMapped
<1>3. RootOf(cur) = cr3 /\ Busy(cur) /\ CR3(cur) = cr3
  BY DEF RootOf, CR3, Busy, BusyOps
<1>4. PICK r : r = cr3
  OBVIOUS
<1>5. IsRoot(lab, r, kLevels) /\ r \in Frame
  BY ONLY <1>1, <1>3, <1>4 DEF RootsApart, IsRoot, ExecTypes
<1>6. PICK lab2 : lab2 = Unlinked(lab, r, e, c)
  OBVIOUS
<1>7. /\ Forest(lab2)'
      /\ IsRoot(lab2, c, kLevels - 1)' /\ IsRoot(lab2, r, kLevels)'
      /\ c # r /\ lab[c].own = r
      /\ \A s : s # r /\ s # c => SameTree(lab, lab2, s)
      /\ \A f \in Frame :
            /\ lab2[f].own = IF lab[f].own = r /\ f # r /\ lab[f].top = e THEN c ELSE lab[f].own
            /\ lab2[f].lev = lab[f].lev /\ lab2[f].pre = lab[f].pre /\ lab2[f].top = lab[f].top
      /\ \A f \in used : lab[f].own # c
  <2>1. mem[r][e] = c /\ mem' = Cleared(r, e)
    BY ONLY <1>4, c = mem[cr3][e], mem' = Cleared(cr3, e)
  <2>2. Unlinks(lab, r, e, c, lab2)
    BY ONLY <1>2, <1>6, <2>1, used' = used, data' = data DEF Unlinks
  <2> QED
    BY ONLY <1>1, <1>5, <2>2, Unlink
<1>8. /\ run'[cur] = d /\ run' \in [Task -> RunTypes] /\ \A u \in Task \ {cur} : run'[u] = run[u]
  BY ONLY <1>1, d \in RunTypes, run' = [run EXCEPT ![cur] = d] DEF ExecTypes
<1>9. /\ files'[cur] = <<>> /\ files' \in [Task -> Seq({"std", "file"})]
      /\ \A u \in Task \ {cur} : files'[u] = files[u]
  <2>1. <<>> \in Seq({"std", "file"})
    OBVIOUS
  <2> QED
    BY ONLY <1>1, <2>1, files' = [files EXCEPT ![cur] = <<>>] DEF ExecTypes
<1>10. /\ mem' \in [Frame \cup {KernelPML4} -> [Index -> Frame \cup {NotPresent, IdentityMap}]]
       /\ mem'[KernelPML4] = mem[KernelPML4]
  BY ONLY <1>1, <1>2, <1>4, <1>5, mem' = Cleared(cr3, e), EntriesDiffer DEF ExecTypes, Cleared
<1>11. ExecTypes'
  BY ONLY <1>1, <1>8, <1>9, <1>10, cur' = cur, cr3' = cr3, context' = context, data' = data, used' = used,
     taken' = taken DEF ExecTypes
<1>12. KernelMapped'
  BY ONLY <1>1, <1>10 DEF KernelMapped
<1>13. ASSUME NEW u \in Task \ {cur}
       PROVE  /\ CR3(u) # r /\ CR3(u) # c
              /\ run[u].op \in {"clean", "free"} => run[u].map # r /\ run[u].map # c
              /\ Busy(u) => RootOf(u) # r
  <2>1. CR3(u) # r /\ (run[u].op \in {"clean", "free"} => run[u].map # r)
    BY ONLY <1>3, <1>4, <1>13, ExecInvOf(lab), OthersRoots
  <2>2. CR3(u) # c
    BY ONLY <1>1, <1>2, <1>7, <1>13, EntriesDiffer DEF RunOnRoots, IsRoot
  <2>3. run[u].op = "clean" => run[u].map # c
    BY ONLY <1>1, <1>7, <1>13 DEF CleanMaps, IsRoot
  <2>4. run[u].op = "free" => run[u].map # c
    BY ONLY <1>1, <1>7, <1>13 DEF RootsApart, IsRoot, RootOf, Busy, BusyOps
  <2>5. Busy(u) => RootOf(u) # r
    BY ONLY <1>1, <1>3, <1>4, <1>13 DEF RootsApart
  <2> QED
    BY ONLY <2>1, <2>2, <2>3, <2>4, <2>5
<1>14. OthersAlone(lab, lab2)
  BY ONLY <1>7, <1>8, <1>9, <1>13, cur' = cur, context' = context, taken' = taken DEF OthersAlone
<1>15. Busy(cur)' /\ RootOf(cur)' = r /\ cr3' = r
  BY ONLY <1>4, <1>8, cur' = cur, cr3' = cr3, d.op = "clean" DEF Busy, BusyOps, RootOf, CR3
<1>16. RootsMove(lab2)
  <2>1. IsRoot(lab2, cr3, kLevels)' /\ IsRoot(lab2, RootOf(cur), kLevels)'
    BY ONLY <1>7, <1>15 DEF IsRoot
  <2>2. IsRoot(lab2, run[cur].map, kLevels - 1)'
    BY ONLY <1>7, <1>8, cur' = cur, d.map = c DEF IsRoot
  <2>3. context[cur] = cr3
    BY ONLY <1>1, run[cur].op \in {"app", "syscall", "kill", "kill_hit"} DEF Registers, BusyOps
  <2>4. d.op # "reset" /\ d.op # "free"
    BY ONLY d.op = "clean"
  <2> QED
    BY ONLY <1>8, <1>13, <1>15, <2>1, <2>2, <2>3, <2>4, cur' = cur, cr3' = cr3, context' = context, d.map = c
    DEF RootsMove
<1>17. TakenIs(lab2, cur)'
  <2>1. taken[cur] = {y \in used : lab[y].own = r}
    BY ONLY <1>1, <1>3, <1>4, run[cur].op \in {"app", "syscall", "kill", "kill_hit"} DEF TaskInv, TakenIs
  <2>2. taken'[cur] = {y \in used' : lab2[y].own = r \/ lab2[y].own = c}
    BY ONLY <1>1, <1>7, <2>1, used' = used, taken' = taken
  <2> QED
    BY ONLY <1>8, <1>15, <2>2, cur' = cur, d.op = "clean", d.map = c DEF TakenIs
<1>18. CoversProgram(lab2, cur)'
  <2>1. ASSUME NEW y \in used', lab2[y].own = r, y # r
        PROVE  /\ \E h \in ProgramPages(d.prog) : lab2[y].pre = h \div Span[lab2[y].lev] /\ lab2[y].top = TopOf(h)
               /\ lab2[y].top # LoadEntry(d.prog)
    <3>1. y \in used /\ y \in Frame
      BY ONLY <1>1, <2>1, used' = used
    <3>2. lab[y].own = r /\ lab[y].top # e
      BY ONLY <1>7, <2>1, <3>1
    <3>3. \E h \in ProgramPages(run[cur].prog) : lab[y].pre = h \div Span[lab[y].lev] /\ lab[y].top = TopOf(h)
      BY ONLY <1>1, <1>3, <1>4, <2>1, <3>1, <3>2 DEF TaskInv, CoversProgram
    <3> QED
      BY ONLY <1>7, <3>1, <3>2, <3>3, d.prog = run[cur].prog, e = LoadEntry(run[cur].prog)
  <2> QED
    BY ONLY <1>8, <1>15, <2>1, cur' = cur DEF CoversProgram
<1>19. Loadable(run[cur].prog) /\ \A g \in ProgramPages(run[cur].prog) : Have(lab, r, g)
  BY ONLY <1>1, <1>3, <1>4, run[cur].op \in {"app", "syscall", "kill", "kill_hit"} DEF TaskInv, Progress
<1>20. Progress(lab2, cur)'
  <2>1. ASSUME NEW g \in KeptPages(d.prog) PROVE Have(lab2, RootOf(cur), g)'
    <3>1. Have(lab, r, g) /\ TopOf(g) # e
      BY ONLY <1>1, <1>19, <2>1, d.prog = run[cur].prog, e = LoadEntry(run[cur].prog), ProgramPagesAre
    <3> QED
      BY ONLY <1>1, <1>7, <1>15, <3>1, used' = used DEF Have
  <2> QED
    BY ONLY <1>8, <1>19, <2>1, cur' = cur, d.op = "clean", d.prog = run[cur].prog DEF Progress
<1>21. Copied(lab2, cur)' /\ ArgsFit(cur)' /\ FilesAre(cur)'
  BY ONLY <1>8, <1>9, cur' = cur, d.op = "clean" DEF Copied, ArgsFit, FilesAre
<1>22. TaskInv(lab2, cur)'
  BY ONLY <1>17, <1>18, <1>20, <1>21 DEF TaskInv
<1>23. HaltedForCause'
  BY ONLY halted' = halted, ~halted DEF HaltedForCause
<1>24. Forest(lab2)'
  BY ONLY <1>7
<1> QED
  BY ONLY <1>11, <1>12, <1>14, <1>16, <1>22, <1>23, <1>24, ExecInvOf(lab), CurStep

\* The program ends.
LEMMA ExitAppKeeps ==
    ASSUME NEW lab, ExecInvOf(lab), ~halted, cur' = cur, ExitApp(cur)
    PROVE  ExecInv'
<1>1. /\ cur \in Task /\ run[cur] \in RunTypes /\ run \in [Task -> RunTypes] /\ ExecTypes
      /\ run[cur].op \in {"app", "syscall", "kill", "kill_hit"}
  BY DEF ExecInvOf, ExecTypes, ExitApp
<1>2. PICK e : e = LoadEntry(run[cur].prog)
  OBVIOUS
<1>3. PICK c : c = mem[cr3][e]
  OBVIOUS
<1>4. PICK d : d = [run[cur] EXCEPT !.op = "clean", !.map = c]
  OBVIOUS
<1>5. c \in Frame
  BY ONLY <1>1, <1>2, <1>3, ExecInvOf(lab), EntryIsMapped
<1>6. d \in RunTypes /\ d.op = "clean" /\ d.map = c /\ d.prog = run[cur].prog
  BY ONLY <1>1, <1>4, <1>5 DEF RunTypes, BusyOps
<1>7. /\ files' = [files EXCEPT ![cur] = <<>>] /\ mem' = Cleared(cr3, e)
      /\ cr3' = cr3 /\ context' = context /\ data' = data /\ used' = used /\ taken' = taken /\ halted' = halted
  BY <1>2 DEF ExitApp, Cleared
<1>8. run' = [run EXCEPT ![cur] = d]
  BY <1>1, <1>2, <1>3, <1>4 DEF ExitApp
<1> QED
  BY ONLY <1>1, <1>2, <1>3, <1>6, <1>7, <1>8, ExecInvOf(lab), ~halted, cur' = cur, UnlinkStep

\* CleanPageMap frees a frame of the subtree it cleans.
FreesFrame(lab, top, c, d) ==
    /\ run[cur].op = "clean" /\ top = run[cur].map
    /\ c \in used /\ lab[c].own = top
    /\ Forest(lab)' /\ \A s : s # top => SameTree(lab, lab, s)
    /\ used' = used \ {c} /\ taken' = [taken EXCEPT ![cur] = @ \ {c}]
    /\ mem' \in [Frame \cup {KernelPML4} -> [Index -> Frame \cup {NotPresent, IdentityMap}]]
    /\ mem'[KernelPML4] = mem[KernelPML4]
    /\ run' = [run EXCEPT ![cur] = d]
    /\ \/ d = run[cur] /\ c # top
       \/ d \in RunTypes /\ d.op = "drop" /\ d.prog = run[cur].prog /\ TreeOf(lab, top) = {top}
    /\ cr3' = cr3 /\ context' = context /\ data' = data /\ files' = files /\ halted' = halted

\* A frame without entries leaves the subtree, which the task still owns.
LEMMA FreeFrameStep ==
    ASSUME NEW lab, ExecInvOf(lab), ~halted, cur' = cur, NEW top, NEW c, NEW d, FreesFrame(lab, top, c, d)
    PROVE  ExecInv'
<1>1. /\ cur \in Task /\ ExecTypes /\ Forest(lab) /\ KernelMapped /\ RootsApart(lab) /\ Registers
      /\ TaskInv(lab, cur) /\ used \subseteq Frame /\ CleanMaps(lab) /\ RunOnRoots(lab)
      /\ run[cur] \in RunTypes
  BY DEF ExecInvOf, ExecTypes, MapsInv
<1>2. /\ run[cur].op = "clean" /\ top = run[cur].map
      /\ c \in used /\ lab[c].own = top
      /\ Forest(lab)' /\ \A s : s # top => SameTree(lab, lab, s)
      /\ used' = used \ {c} /\ taken' = [taken EXCEPT ![cur] = @ \ {c}]
      /\ mem' \in [Frame \cup {KernelPML4} -> [Index -> Frame \cup {NotPresent, IdentityMap}]]
      /\ mem'[KernelPML4] = mem[KernelPML4]
      /\ run' = [run EXCEPT ![cur] = d]
      /\ \/ d = run[cur] /\ c # top
         \/ d \in RunTypes /\ d.op = "drop" /\ d.prog = run[cur].prog /\ TreeOf(lab, top) = {top}
      /\ cr3' = cr3 /\ context' = context /\ data' = data /\ files' = files /\ halted' = halted
  BY DEF FreesFrame
<1>3. RootOf(cur) = cr3 /\ Busy(cur) /\ CR3(cur) = cr3
  BY ONLY <1>2 DEF RootOf, CR3, Busy, BusyOps
<1>4. PICK r : r = cr3
  OBVIOUS
<1>5. IsRoot(lab, r, kLevels) /\ r \in Frame /\ IsRoot(lab, top, kLevels - 1)
  BY ONLY <1>1, <1>2, <1>3, <1>4 DEF RootsApart, IsRoot, CleanMaps
<1>6. kLevels # kLevels - 1
  BY ShapeAssumption
<1>7. r # top /\ SameTree(lab, lab, r)
  BY ONLY <1>2, <1>5, <1>6 DEF IsRoot
<1>8. d \in RunTypes /\ d.op \in {"clean", "drop"} /\ d.prog = run[cur].prog
      /\ (d.op = "clean" => d = run[cur] /\ c # top)
      /\ (d.op = "drop" => TreeOf(lab, top) = {top})
  BY ONLY <1>1, <1>2
<1>9. /\ run'[cur] = d /\ run' \in [Task -> RunTypes] /\ \A u \in Task \ {cur} : run'[u] = run[u]
  BY ONLY <1>1, <1>2, <1>8 DEF ExecTypes
<1>10. /\ taken'[cur] = taken[cur] \ {c} /\ taken' \in [Task -> SUBSET Frame]
       /\ \A u \in Task \ {cur} : taken'[u] = taken[u]
  BY ONLY <1>1, <1>2 DEF ExecTypes
<1>11. IsFiniteSet(used') /\ used' \in SUBSET Frame
  BY ONLY <1>1, <1>2, FS_RemoveElement DEF ExecTypes
<1>12. ExecTypes'
  BY ONLY <1>1, <1>2, <1>9, <1>10, <1>11, cur' = cur DEF ExecTypes
<1>13. KernelMapped'
  BY ONLY <1>1, <1>2 DEF KernelMapped
<1>14. ASSUME NEW u \in Task \ {cur}
       PROVE  /\ CR3(u) # top /\ (run[u].op \in {"clean", "free"} => run[u].map # top)
              /\ CR3(u) # r /\ (Busy(u) => RootOf(u) # r)
  <2>1. CR3(u) # top
    BY ONLY <1>1, <1>5, <1>6, <1>14, EntriesDiffer DEF RunOnRoots, IsRoot
  <2>2. run[u].op = "clean" => run[u].map # top
    BY ONLY <1>1, <1>2, <1>14 DEF CleanMaps
  <2>3. run[u].op = "free" => run[u].map # top
    BY ONLY <1>1, <1>5, <1>6, <1>14 DEF RootsApart, IsRoot, RootOf, Busy, BusyOps
  <2>4. CR3(u) # r /\ (Busy(u) => RootOf(u) # r)
    BY ONLY <1>1, <1>3, <1>4, <1>14 DEF RootsApart
  <2> QED
    BY ONLY <2>1, <2>2, <2>3, <2>4
<1>15. OthersAlone(lab, lab)
  BY ONLY <1>2, <1>9, <1>10, <1>14, cur' = cur DEF OthersAlone
<1>16. Busy(cur)' /\ RootOf(cur)' = r /\ cr3' = r
  BY ONLY <1>2, <1>4, <1>8, <1>9, cur' = cur DEF Busy, BusyOps, RootOf, CR3
<1>17. RootsMove(lab)
  <2>1. IsRoot(lab, r, kLevels)'
    BY ONLY <1>1, <1>5, <1>7, RootKept
  <2>2. IsRoot(lab, cr3, kLevels)' /\ IsRoot(lab, RootOf(cur), kLevels)'
    BY ONLY <1>16, <2>1 DEF IsRoot
  <2>3. d.op = "clean" => IsRoot(lab, run[cur].map, kLevels - 1)'
    <3>1. d.op = "clean" => IsRoot(lab, top, kLevels - 1)'
      BY ONLY <1>2, <1>5, <1>8 DEF IsRoot
    <3> QED
      BY ONLY <1>2, <1>8, <1>9, <3>1, cur' = cur DEF IsRoot
  <2>4. context[cur] = cr3
    BY ONLY <1>1, <1>2 DEF Registers, BusyOps
  <2>5. \A u \in Task \ {cur} : run[u].op = "clean" => run[u].map # top
    BY ONLY <1>14
  <2> QED
    BY ONLY <1>2, <1>8, <1>9, <1>14, <1>16, <2>2, <2>3, <2>4, <2>5, cur' = cur DEF RootsMove
<1>18. TakenIs(lab, cur)'
  <2>1. taken[cur] = {y \in used : lab[y].own = r \/ lab[y].own = top}
    BY ONLY <1>1, <1>2, <1>3, <1>4 DEF TaskInv, TakenIs
  <2>2. CASE d.op = "clean"
    <3>1. taken'[cur] = {y \in used' : lab[y].own = r \/ lab[y].own = top}
      BY ONLY <1>2, <1>10, <2>1
    <3> QED
      BY ONLY <1>2, <1>8, <1>9, <1>16, <2>2, <3>1, cur' = cur DEF TakenIs
  <2>3. CASE d.op = "drop"
    <3>1. \A y \in used : lab[y].own = top => y = c
      BY ONLY <1>2, <1>8, <2>3 DEF TreeOf
    <3>2. taken'[cur] = {y \in used' : lab[y].own = r}
      BY ONLY <1>2, <1>7, <1>10, <2>1, <3>1
    <3> QED
      BY ONLY <1>9, <1>16, <2>3, <3>2, cur' = cur DEF TakenIs
  <2> QED
    BY ONLY <1>8, <2>2, <2>3
<1>19. CoversProgram(lab, cur)'
  <2>1. ASSUME NEW y \in used', lab[y].own = r, y # r
        PROVE  /\ \E h \in ProgramPages(d.prog) : lab[y].pre = h \div Span[lab[y].lev] /\ lab[y].top = TopOf(h)
               /\ lab[y].top # LoadEntry(d.prog)
    BY ONLY <1>1, <1>2, <1>3, <1>4, <1>8, <2>1 DEF TaskInv, CoversProgram, AfterOps
  <2> QED
    BY ONLY <1>9, <1>16, <2>1, cur' = cur DEF CoversProgram
<1>20. Progress(lab, cur)'
  <2>1. Loadable(run[cur].prog) /\ \A g \in KeptPages(run[cur].prog) : Have(lab, r, g)
    BY ONLY <1>1, <1>2, <1>3, <1>4 DEF TaskInv, Progress, AfterOps
  <2>2. ASSUME NEW g \in KeptPages(d.prog) PROVE Have(lab, RootOf(cur), g)'
    <3>1. Have(lab, r, g)'
      BY ONLY <1>1, <1>7, <1>8, <2>1, <2>2, HaveKept
    <3> QED
      BY ONLY <1>16, <3>1 DEF Have
  <2> QED
    BY ONLY <1>8, <1>9, <2>1, <2>2, cur' = cur DEF Progress
<1>21. Copied(lab, cur)' /\ ArgsFit(cur)' /\ FilesAre(cur)'
  BY ONLY <1>1, <1>2, <1>8, <1>9, cur' = cur DEF Copied, ArgsFit, FilesAre, TaskInv
<1>22. TaskInv(lab, cur)'
  BY ONLY <1>18, <1>19, <1>20, <1>21 DEF TaskInv
<1>23. HaltedForCause'
  BY ONLY <1>2, ~halted DEF HaltedForCause
<1>24. Forest(lab)'
  BY ONLY <1>2
<1> QED
  BY ONLY <1>12, <1>13, <1>15, <1>17, <1>22, <1>23, <1>24, ExecInvOf(lab), CurStep

\* A turn of CleanPageMap.
LEMMA CleanPageMapKeeps ==
    ASSUME NEW lab, ExecInvOf(lab), ~halted, cur' = cur, CleanPageMap(cur)
    PROVE  ExecInv'
<1>1. /\ cur \in Task /\ run[cur] \in RunTypes /\ run \in [Task -> RunTypes] /\ ExecTypes /\ Forest(lab)
      /\ CleanMaps(lab) /\ run[cur].op = "clean" /\ used \subseteq Frame
  BY DEF ExecInvOf, ExecTypes, MapsInv, CleanPageMap
<1>2. PICK top : top = run[cur].map
  OBVIOUS
<1>3. IsRoot(lab, top, kLevels - 1) /\ top \in Frame
  BY ONLY <1>1, <1>2 DEF CleanMaps, IsRoot
<1>4. PICK m : m = NextToClean(top)
  OBVIOUS
<1>5. PICK i : i = Min(Present(m))
  OBVIOUS
<1>6. PICK c : c = mem[m][i]
  OBVIOUS
<1>7. /\ m \in TreeOf(lab, top) /\ m \in InTrees(lab) /\ m \in Frame
      /\ Present(m) = {} => m = top
      /\ Present(m) # {} => i \in Index /\ c \in Frame /\ IsChild(lab, m, i, c) /\ Present(c) = {}
  BY ONLY <1>1, <1>3, <1>4, <1>5, <1>6, FreedIsEmpty
<1>8. cr3' = cr3 /\ context' = context /\ data' = data /\ files' = files /\ halted' = halted
  BY DEF CleanPageMap
<1>9. mem \in [Frame \cup {KernelPML4} -> [Index -> Frame \cup {NotPresent, IdentityMap}]]
  BY ONLY <1>1 DEF ExecTypes
<1>10. lab[top].own = top /\ top \in used /\ lab[top].lev = kLevels - 1
  BY ONLY <1>3 DEF IsRoot
<1>11. CASE Present(m) = {}
  <2>1. PICK d : d = [run[cur] EXCEPT !.op = "drop"]
    OBVIOUS
  <2>2. /\ used' = used \ {top} /\ taken' = [taken EXCEPT ![cur] = @ \ {top}] /\ mem' = mem
        /\ run' = [run EXCEPT ![cur] = d]
    BY <1>1, <1>2, <1>4, <1>11, <2>1 DEF CleanPageMap, Give
  <2>3. d \in RunTypes /\ d.op = "drop" /\ d.prog = run[cur].prog
    BY ONLY <1>1, <2>1 DEF RunTypes, BusyOps
  <2>4. TreeOf(lab, top) = {top} /\ top \in InTrees(lab)
    BY ONLY <1>1, <1>7, <1>10, <1>11, EmptyTree
  <2>5. Forest(lab)' /\ \A s : s # top => SameTree(lab, lab, s)
    BY ONLY <1>1, <1>8, <1>10, <2>2, <2>4, RemoveAlone
  <2>6. FreesFrame(lab, top, top, d)
    BY ONLY <1>1, <1>2, <1>8, <1>9, <1>10, <2>2, <2>3, <2>4, <2>5 DEF FreesFrame
  <2> QED
    BY ONLY <2>6, ExecInvOf(lab), ~halted, cur' = cur, FreeFrameStep
<1>12. CASE Present(m) # {}
  <2>1. /\ used' = used \ {c} /\ taken' = [taken EXCEPT ![cur] = @ \ {c}] /\ mem' = Cleared(m, i)
        /\ run' = run
    BY <1>2, <1>4, <1>5, <1>6, <1>12 DEF CleanPageMap, Give, Cleared
  <2>2. run' = [run EXCEPT ![cur] = run[cur]]
    BY ONLY <1>1, <2>1
  <2>3. lab[m].own = top /\ lab[m].lev # kLevels
    <3>1. lab[m].own = top
      BY ONLY <1>7 DEF TreeOf
    <3>2. lab[m].lev <= kLevels - 1 /\ lab[m].lev \in Nat
      BY ONLY <1>1, <1>7, <1>10, <3>1 DEF Forest, OwnersAreRoots, Places
    <3> QED
      BY <3>1, <3>2, ShapeAssumption
  <2>4. /\ Forest(lab)' /\ lab[c].own = top /\ c # top /\ c \in used
        /\ \A s : s # top => SameTree(lab, lab, s)
    BY ONLY <1>1, <1>6, <1>7, <1>8, <1>12, <2>1, <2>3, RemoveLeaf
  <2>5. /\ mem' \in [Frame \cup {KernelPML4} -> [Index -> Frame \cup {NotPresent, IdentityMap}]]
        /\ mem'[KernelPML4] = mem[KernelPML4]
    BY ONLY <1>7, <1>9, <1>12, <2>1, EntriesDiffer DEF Cleared
  <2>6. FreesFrame(lab, top, c, run[cur])
    BY ONLY <1>1, <1>2, <1>8, <2>1, <2>2, <2>4, <2>5 DEF FreesFrame
  <2>7. PICK d : d = run[cur]
    OBVIOUS
  <2> QED
    BY ONLY <2>6, <2>7, ExecInvOf(lab), ~halted, cur' = cur, FreeFrameStep
<1> QED
  BY ONLY <1>11, <1>12

\* Sets with a bijection between them have the same size.
LEMMA SameSize ==
    ASSUME NEW S, NEW T, IsFiniteSet(S), NEW f \in [S -> T],
           \A a, b \in S : f[a] = f[b] => a = b,
           \A y \in T : \E x \in S : f[x] = y
    PROVE  Cardinality(T) = Cardinality(S)
<1>1. f \in Injection(S, T) /\ f \in Surjection(S, T)
  BY DEF Injection, IsInjective, Surjection
<1>2. ExistsBijection(S, T)
  BY <1>1 DEF ExistsBijection, Bijection
<1> QED
  BY <1>2, FS_Bijection

\* A tree that has the pages of a program outside the entry cleaned, and nothing
\* else, has as many frames as these pages take.
LEMMA KeptSize ==
    ASSUME ExecTypes, NEW lab, Forest(lab), NEW r, IsRoot(lab, r, kLevels),
           NEW p \in Program, Loadable(p),
           \A y \in used : lab[y].own = r /\ y # r =>
               /\ \E g \in ProgramPages(p) : lab[y].pre = g \div Span[lab[y].lev] /\ lab[y].top = TopOf(g)
               /\ lab[y].top # LoadEntry(p),
           \A g \in KeptPages(p) : Have(lab, r, g)
    PROVE  Cardinality(TreeOf(lab, r) \ {r}) = FramesFor(KeptPages(p))
<1> DEFINE S == TreeOf(lab, r) \ {r}
           At(l) == {<<l, g \div Span[l]>> : g \in KeptPages(p)}
           T == UNION {At(l) : l \in 0..(kLevels - 1)}
           F == [y \in S |-> <<lab[y].lev, lab[y].pre>>]
<1>1. kLevels \in Nat /\ used \subseteq Frame /\ IsFiniteSet(used) /\ r \in used /\ r \in Frame
      /\ lab[r].lev = kLevels /\ lab \in [Frame -> Places]
  BY ShapeAssumption DEF ExecTypes, IsRoot, Forest
<1>2. IsFiniteSet(S)
  <2>1. S \in SUBSET used
    BY DEF TreeOf
  <2> QED
    BY ONLY <1>1, <2>1, FS_Subset
<1>3. KeptPages(p) = {g \in ProgramPages(p) : TopOf(g) # LoadEntry(p)}
  BY ProgramPagesAre
<1>4. ASSUME NEW y \in S
      PROVE  /\ y \in used /\ y \in InTrees(lab) /\ lab[y].own = r /\ y # r
             /\ lab[y].lev \in 0..(kLevels - 1)
             /\ \E g \in KeptPages(p) : lab[y].pre = g \div Span[lab[y].lev]
  <2>1. y \in used /\ y \in InTrees(lab) /\ lab[y].own = r /\ y # r
    BY <1>1 DEF TreeOf, InTrees
  <2>2. lab[y].lev < kLevels
    BY <2>1, BelowRoot
  <2>3. lab[y].lev \in 0..kLevels
    BY ONLY <1>1, <2>1 DEF Places
  <2>4. lab[y].lev \in 0..(kLevels - 1)
    BY ONLY <1>1, <2>2, <2>3
  <2>5. \E g \in KeptPages(p) : lab[y].pre = g \div Span[lab[y].lev]
    BY <1>3, <2>1
  <2> QED
    BY ONLY <2>1, <2>4, <2>5
<1>5. F \in [S -> T]
  <2>1. ASSUME NEW y \in S PROVE <<lab[y].lev, lab[y].pre>> \in T
    <3>1. PICK l : l = lab[y].lev
      OBVIOUS
    <3>2. PICK g \in KeptPages(p) : lab[y].pre = g \div Span[l]
      BY ONLY <1>4, <2>1, <3>1
    <3>3. <<lab[y].lev, lab[y].pre>> \in At(l)
      BY ONLY <3>1, <3>2
    <3>4. l \in 0..(kLevels - 1)
      BY ONLY <1>4, <2>1, <3>1
    <3> HIDE DEF At
    <3> QED
      BY ONLY <3>3, <3>4
  <2> QED
    BY ONLY <2>1
<1>6. ASSUME NEW a \in S, NEW b \in S, F[a] = F[b] PROVE a = b
  <2>1. lab[a].lev = lab[b].lev /\ lab[a].pre = lab[b].pre
    BY ONLY <1>6
  <2>2. lab[a].own = lab[b].own /\ a \in InTrees(lab) /\ b \in InTrees(lab)
    BY ONLY <1>4, <1>6
  <2> QED
    BY <2>1, <2>2 DEF Forest, PlacesDiffer
<1>7. ASSUME NEW z \in T PROVE \E y \in S : F[y] = z
  <2>1. PICK l \in 0..(kLevels - 1) : z \in At(l)
    <3> HIDE DEF At
    <3> QED
      BY ONLY <1>7
  <2>2. PICK g \in KeptPages(p) : z = <<l, g \div Span[l]>>
    BY ONLY <2>1
  <2>3. Have(lab, r, g)
    OBVIOUS
  <2>4. PICK y \in used : lab[y].own = r /\ lab[y].lev = l /\ lab[y].pre = g \div Span[l]
    BY ONLY <2>1, <2>3 DEF Have
  <2>5. y # r
    BY ONLY <1>1, <2>1, <2>4
  <2>6. y \in S
    BY ONLY <2>4, <2>5 DEF TreeOf
  <2>7. F[y] = z
    BY ONLY <2>2, <2>4, <2>6
  <2> QED
    BY ONLY <2>6, <2>7
<1>8. Cardinality(T) = Cardinality(S)
  <2> HIDE DEF S, T, F
  <2> QED
    BY ONLY <1>2, <1>5, <1>6, <1>7, SameSize
<1> QED
  BY ONLY <1>8, Zenon DEF FramesFor

\* FreePML4 forgets the page map and leaves it.
LeavesMap(d) ==
    /\ run[cur].op \in {"drop", "reset"}
    /\ d \in RunTypes /\ d.prog = run[cur].prog
    /\ \/ d.op = "reset" /\ d.map = cr3 /\ cr3' = cr3
       \/ d.op = "free" /\ d.map = cr3 /\ cr3' = KernelPML4
    /\ run' = [run EXCEPT ![cur] = d]
    /\ context' \in [Task -> Frame \cup {KernelPML4, NotPresent}]
    /\ \A u \in Task \ {cur} : context'[u] = context[u]
    /\ mem' = mem /\ used' = used /\ data' = data /\ files' = files /\ taken' = taken /\ halted' = halted

\* The tree stays the task's until it is freed.
LEMMA LeaveMapStep ==
    ASSUME NEW lab, ExecInvOf(lab), ~halted, cur' = cur, NEW d, LeavesMap(d)
    PROVE  ExecInv'
<1>1. /\ cur \in Task /\ ExecTypes /\ Forest(lab) /\ KernelMapped /\ RootsApart(lab) /\ Registers
      /\ TaskInv(lab, cur) /\ used \subseteq Frame /\ RunOnRoots(lab)
  BY DEF ExecInvOf, ExecTypes, MapsInv
<1>2. /\ run[cur].op \in {"drop", "reset"}
      /\ d \in RunTypes /\ d.prog = run[cur].prog /\ d.map = cr3
      /\ d.op \in {"reset", "free"}
      /\ d.op = "reset" => cr3' = cr3
      /\ d.op = "free" => cr3' = KernelPML4
      /\ run' = [run EXCEPT ![cur] = d]
      /\ context' \in [Task -> Frame \cup {KernelPML4, NotPresent}]
      /\ \A u \in Task \ {cur} : context'[u] = context[u]
      /\ mem' = mem /\ used' = used /\ data' = data /\ files' = files /\ taken' = taken /\ halted' = halted
  BY DEF LeavesMap
<1>3. RootOf(cur) = cr3 /\ Busy(cur) /\ CR3(cur) = cr3
  BY ONLY <1>2 DEF RootOf, CR3, Busy, BusyOps
<1>4. PICK r : r = cr3
  OBVIOUS
<1>5. IsRoot(lab, r, kLevels) /\ r \in Frame
  BY ONLY <1>1, <1>3, <1>4 DEF RootsApart, IsRoot
<1>6. /\ run'[cur] = d /\ run' \in [Task -> RunTypes] /\ \A u \in Task \ {cur} : run'[u] = run[u]
  BY ONLY <1>1, <1>2 DEF ExecTypes
<1>7. cr3' \in Frame \cup {KernelPML4}
  BY ONLY <1>1, <1>2 DEF ExecTypes
<1>8. ExecTypes'
  BY ONLY <1>1, <1>2, <1>6, <1>7, cur' = cur DEF ExecTypes
<1>9. KernelMapped'
  BY ONLY <1>1, <1>2 DEF KernelMapped
<1>10. \A s : SameTree(lab, lab, s)
  BY ONLY <1>2 DEF SameTree
<1>11. Forest(lab)'
  BY ONLY <1>1, <1>2
  DEF Forest, OwnersAreRoots, ChildrenPlaced, IsChild, EntriesGood, HaveParents, PlacesDiffer, InTrees
<1>12. OthersAlone(lab, lab)
  BY ONLY <1>2, <1>6, <1>10, cur' = cur DEF OthersAlone
<1>13. Busy(cur)' /\ RootOf(cur)' = r
  BY ONLY <1>2, <1>4, <1>6, cur' = cur DEF Busy, BusyOps, RootOf, CR3
<1>14. ASSUME NEW u \in Task \ {cur}
       PROVE  CR3(u) # r /\ (Busy(u) => RootOf(u) # r /\ RootOf(u) # KernelPML4)
  BY ONLY <1>1, <1>3, <1>4, <1>14, EntriesDiffer DEF RootsApart, IsRoot
<1>15. RootsMove(lab)
  <2>1. IsRoot(lab, r, kLevels)'
    BY ONLY <1>2, <1>5 DEF IsRoot
  <2>2. IsRoot(lab, RootOf(cur), kLevels)'
    BY ONLY <1>13, <2>1 DEF IsRoot
  <2>3. cr3' = KernelPML4 \/ IsRoot(lab, cr3, kLevels)'
    BY ONLY <1>2, <1>4, <2>1 DEF IsRoot
  <2>4. \A u \in Task \ {cur} : Busy(u) => cr3' # RootOf(u)
    BY ONLY <1>2, <1>4, <1>14
  <2> QED
    BY ONLY <1>2, <1>6, <1>13, <1>14, <2>2, <2>3, <2>4, cur' = cur DEF RootsMove, BusyOps
<1>16. TakenIs(lab, cur)'
  <2>1. taken[cur] = {y \in used : lab[y].own = r}
    BY ONLY <1>1, <1>2, <1>3, <1>4 DEF TaskInv, TakenIs
  <2>2. taken'[cur] = {y \in used' : lab[y].own = r}
    BY ONLY <1>2, <2>1
  <2> QED
    BY ONLY <1>2, <1>6, <1>13, <2>2, cur' = cur DEF TakenIs
<1>17. CoversProgram(lab, cur)'
  <2>1. ASSUME NEW y \in used', lab[y].own = r, y # r
        PROVE  /\ \E h \in ProgramPages(d.prog) : lab[y].pre = h \div Span[lab[y].lev] /\ lab[y].top = TopOf(h)
               /\ lab[y].top # LoadEntry(d.prog)
    BY ONLY <1>1, <1>2, <1>3, <1>4, <2>1 DEF TaskInv, CoversProgram, AfterOps
  <2> QED
    BY ONLY <1>6, <1>13, <2>1, cur' = cur DEF CoversProgram
<1>18. Progress(lab, cur)'
  <2>1. Loadable(run[cur].prog) /\ \A g \in KeptPages(run[cur].prog) : Have(lab, r, g)
    BY ONLY <1>1, <1>2, <1>3, <1>4 DEF TaskInv, Progress, AfterOps
  <2>2. ASSUME NEW g \in KeptPages(d.prog) PROVE Have(lab, RootOf(cur), g)'
    BY ONLY <1>2, <1>13, <2>1, <2>2 DEF Have
  <2> QED
    BY ONLY <1>2, <1>6, <2>1, <2>2, cur' = cur DEF Progress
<1>19. Copied(lab, cur)' /\ ArgsFit(cur)' /\ FilesAre(cur)'
  BY ONLY <1>1, <1>2, <1>6, cur' = cur DEF Copied, ArgsFit, FilesAre, TaskInv
<1>20. TaskInv(lab, cur)'
  BY ONLY <1>16, <1>17, <1>18, <1>19 DEF TaskInv
<1>21. HaltedForCause'
  BY ONLY <1>2, ~halted DEF HaltedForCause
<1> QED
  BY ONLY <1>8, <1>9, <1>11, <1>12, <1>15, <1>20, <1>21, ExecInvOf(lab), CurStep

\* And frees it: what hung on its other entries is in no tree any more.
FreesMap(r, d) ==
    /\ run[cur].op = "free" /\ r = run[cur].map
    /\ d = Returned(run[cur].prog, TRUE)
    /\ run' = [run EXCEPT ![cur] = d]
    /\ used' = used \ {r} /\ taken' = [taken EXCEPT ![cur] = @ \ {r}]
    /\ cr3' = cr3 /\ context' = context
    /\ mem' = mem /\ data' = data /\ files' = files /\ halted' = halted

\* The frames left of the program are as many as its kept pages take.
LEMMA FreeMapStep ==
    ASSUME NEW lab, ExecInvOf(lab), ~halted, cur' = cur, NEW r, NEW d, FreesMap(r, d)
    PROVE  ExecInv'
<1>1. /\ cur \in Task /\ ExecTypes /\ Forest(lab) /\ KernelMapped /\ RootsApart(lab) /\ Registers
      /\ TaskInv(lab, cur) /\ used \subseteq Frame /\ RunOnRoots(lab) /\ CleanMaps(lab)
      /\ run[cur].prog \in Program
  BY DEF ExecInvOf, ExecTypes, MapsInv, RunTypes
<1>2. /\ run[cur].op = "free" /\ r = run[cur].map
      /\ d = Returned(run[cur].prog, TRUE)
      /\ run' = [run EXCEPT ![cur] = d]
      /\ used' = used \ {r} /\ taken' = [taken EXCEPT ![cur] = @ \ {r}]
      /\ cr3' = cr3 /\ context' = context
      /\ mem' = mem /\ data' = data /\ files' = files /\ halted' = halted
  BY DEF FreesMap
<1>3. RootOf(cur) = r /\ Busy(cur) /\ CR3(cur) = cr3 /\ cr3 = KernelPML4
  BY ONLY <1>1, <1>2 DEF RootOf, CR3, Busy, BusyOps, Registers
<1>4. IsRoot(lab, r, kLevels) /\ r \in Frame /\ r # NotPresent /\ lab[r].own = r
  BY ONLY <1>1, <1>3, EntriesDiffer DEF RootsApart, IsRoot
<1>5. PICK lab2 : lab2 = Dropped(lab, r)
  OBVIOUS
<1>6. Forest(lab2)' /\ \A s : s # r /\ s # NotPresent => SameTree(lab, lab2, s)
  BY ONLY <1>1, <1>2, <1>4, <1>5, DropTree
<1>7. d \in RunTypes /\ d.op = "idle" /\ d.prog = run[cur].prog /\ d.ok = TRUE
  BY ONLY <1>1, <1>2 DEF RunTypes, Returned
<1>8. /\ run'[cur] = d /\ run' \in [Task -> RunTypes] /\ \A u \in Task \ {cur} : run'[u] = run[u]
  BY ONLY <1>1, <1>2, <1>7 DEF ExecTypes
<1>9. /\ taken'[cur] = taken[cur] \ {r} /\ taken' \in [Task -> SUBSET Frame]
      /\ \A u \in Task \ {cur} : taken'[u] = taken[u]
  BY ONLY <1>1, <1>2 DEF ExecTypes
<1>10. IsFiniteSet(used') /\ used' \in SUBSET Frame
  BY ONLY <1>1, <1>2, FS_RemoveElement DEF ExecTypes
<1>11. ExecTypes'
  BY ONLY <1>1, <1>2, <1>8, <1>9, <1>10, cur' = cur DEF ExecTypes
<1>12. KernelMapped'
  BY ONLY <1>1, <1>2 DEF KernelMapped
<1>13. ASSUME NEW u \in Task \ {cur}
       PROVE  /\ CR3(u) # r /\ CR3(u) # NotPresent
              /\ run[u].op \in {"clean", "free"} => run[u].map # r /\ run[u].map # NotPresent
              /\ Busy(u) => RootOf(u) # KernelPML4
  <2>1. CR3(u) # r
    BY ONLY <1>1, <1>3, <1>13 DEF RootsApart
  <2>2. CR3(u) # NotPresent
    BY ONLY <1>1, <1>13, EntriesDiffer DEF RunOnRoots, IsRoot
  <2>3. run[u].op = "clean" => run[u].map # r /\ run[u].map # NotPresent
    <3>1. run[u].op = "clean" => IsRoot(lab, run[u].map, kLevels - 1)
      BY ONLY <1>1, <1>13 DEF CleanMaps
    <3>2. kLevels # kLevels - 1
      BY ShapeAssumption
    <3> QED
      BY ONLY <1>1, <1>4, <3>1, <3>2, EntriesDiffer DEF IsRoot
  <2>4. run[u].op = "free" => run[u].map # r /\ run[u].map # NotPresent
    <3>1. run[u].op = "free" => Busy(u) /\ RootOf(u) = run[u].map
      BY ONLY DEF Busy, BusyOps, RootOf
    <3> QED
      BY ONLY <1>1, <1>3, <1>13, <3>1, EntriesDiffer DEF RootsApart, IsRoot
  <2>5. Busy(u) => RootOf(u) # KernelPML4
    BY ONLY <1>1, <1>13, EntriesDiffer DEF RootsApart, IsRoot
  <2> QED
    BY ONLY <2>1, <2>2, <2>3, <2>4, <2>5
<1>14. OthersAlone(lab, lab2)
  BY ONLY <1>2, <1>6, <1>8, <1>9, <1>13, cur' = cur DEF OthersAlone
<1>15. ~Busy(cur)'
  BY ONLY <1>7, <1>8, cur' = cur DEF Busy, BusyOps
<1>16. RootsMove(lab2)
  BY ONLY <1>2, <1>3, <1>7, <1>8, <1>13, <1>15, cur' = cur DEF RootsMove, BusyOps
<1>17. TakenIs(lab2, cur)'
  <2>1. taken[cur] = TreeOf(lab, r)
    BY ONLY <1>1, <1>2, <1>3 DEF TaskInv, TakenIs, TreeOf
  <2>2. Loadable(run[cur].prog) /\ \A g \in KeptPages(run[cur].prog) : Have(lab, r, g)
    BY ONLY <1>1, <1>2, <1>3 DEF TaskInv, Progress, AfterOps
  <2>3. \A y \in used : lab[y].own = r /\ y # r =>
           /\ \E g \in ProgramPages(run[cur].prog) :
                 lab[y].pre = g \div Span[lab[y].lev] /\ lab[y].top = TopOf(g)
           /\ lab[y].top # LoadEntry(run[cur].prog)
    BY ONLY <1>1, <1>2, <1>3 DEF TaskInv, CoversProgram, AfterOps
  <2>4. Cardinality(TreeOf(lab, r) \ {r}) = FramesFor(KeptPages(run[cur].prog))
    <3>1. PICK p : p = run[cur].prog
      OBVIOUS
    <3>2. /\ p \in Program /\ Loadable(p)
          /\ \A y \in used : lab[y].own = r /\ y # r =>
               /\ \E g \in ProgramPages(p) : lab[y].pre = g \div Span[lab[y].lev] /\ lab[y].top = TopOf(g)
               /\ lab[y].top # LoadEntry(p)
          /\ \A g \in KeptPages(p) : Have(lab, r, g)
      BY ONLY <1>1, <2>2, <2>3, <3>1
    <3> QED
      BY ONLY <1>1, <1>4, <3>1, <3>2, KeptSize
  <2>5. Cardinality(taken'[cur]) = FramesFor(KeptPages(run'[cur].prog))
    BY ONLY <1>7, <1>8, <1>9, <2>1, <2>4
  <2> QED
    BY ONLY <1>7, <1>8, <1>15, <2>5, cur' = cur DEF TakenIs
<1>18. FilesAre(cur)'
  BY ONLY <1>1, <1>2, <1>7, <1>8, cur' = cur DEF FilesAre, TaskInv
<1>19. TaskInv(lab2, cur)'
  BY ONLY <1>7, <1>8, <1>15, <1>17, <1>18, cur' = cur
  DEF TaskInv, CoversProgram, Progress, Copied, ArgsFit, AfterOps
<1>20. HaltedForCause'
  BY ONLY <1>2, ~halted DEF HaltedForCause
<1>21. Forest(lab2)'
  BY ONLY <1>6
<1> QED
  BY ONLY <1>11, <1>12, <1>14, <1>16, <1>19, <1>20, <1>21, ExecInvOf(lab), CurStep

\* FreePML4.
LEMMA FreePML4Keeps ==
    ASSUME NEW lab, ExecInvOf(lab), ~halted, cur' = cur, FreePML4(cur)
    PROVE  ExecInv'
<1>1. /\ cur \in Task /\ run[cur] \in RunTypes /\ run \in [Task -> RunTypes] /\ ExecTypes /\ Registers
      /\ RunOnRoots(lab) /\ RootsApart(lab) /\ used \subseteq Frame
      /\ context \in [Task -> Frame \cup {KernelPML4, NotPresent}]
  BY DEF ExecInvOf, ExecTypes, MapsInv
<1>2. mem' = mem /\ data' = data /\ files' = files /\ halted' = halted
  BY DEF FreePML4
<1>3. run[cur].op \in {"drop", "reset"} => cr3 \in Frame
  BY ONLY <1>1 DEF RootsApart, IsRoot, Busy, BusyOps, RootOf, CR3
<1>4. CASE run[cur].op = "drop"
  <2>1. PICK d : d = [run[cur] EXCEPT !.op = "reset", !.map = context[cur]]
    OBVIOUS
  <2>2. context[cur] = cr3
    BY ONLY <1>1, <1>4 DEF Registers, BusyOps
  <2>3. /\ d \in RunTypes /\ d.prog = run[cur].prog /\ d.op = "reset" /\ d.map = cr3
    BY ONLY <1>1, <1>3, <1>4, <2>1, <2>2 DEF RunTypes, BusyOps
  <2>4. /\ run' = [run EXCEPT ![cur].op = "reset", ![cur].map = context[cur]]
        /\ context' = [context EXCEPT ![cur] = NotPresent]
        /\ cr3' = cr3 /\ used' = used /\ taken' = taken
    BY <1>4 DEF FreePML4
  <2>5. run' = [run EXCEPT ![cur] = d]
    BY ONLY <1>1, <2>1, <2>4
  <2>6. /\ context' \in [Task -> Frame \cup {KernelPML4, NotPresent}]
        /\ \A u \in Task \ {cur} : context'[u] = context[u]
    BY ONLY <1>1, <2>4
  <2>7. LeavesMap(d)
    BY ONLY <1>2, <1>4, <2>3, <2>4, <2>5, <2>6 DEF LeavesMap
  <2> QED
    BY ONLY <2>7, ExecInvOf(lab), ~halted, cur' = cur, LeaveMapStep
<1>5. CASE run[cur].op = "reset"
  <2>1. PICK d : d = [run[cur] EXCEPT !.op = "free"]
    OBVIOUS
  <2>2. run[cur].map = cr3
    BY ONLY <1>1, <1>5 DEF Registers, CR3
  <2>3. /\ d \in RunTypes /\ d.prog = run[cur].prog /\ d.op = "free" /\ d.map = cr3
    BY ONLY <1>1, <1>5, <2>1, <2>2 DEF RunTypes, BusyOps
  <2>4. /\ run' = [run EXCEPT ![cur].op = "free"]
        /\ context' = context
        /\ cr3' = KernelPML4 /\ used' = used /\ taken' = taken
    BY <1>5 DEF FreePML4
  <2>5. run' = [run EXCEPT ![cur] = d]
    BY ONLY <1>1, <2>1, <2>4
  <2>6. LeavesMap(d)
    BY ONLY <1>1, <1>2, <1>5, <2>3, <2>4, <2>5 DEF LeavesMap
  <2> QED
    BY ONLY <2>6, ExecInvOf(lab), ~halted, cur' = cur, LeaveMapStep
<1>6. CASE run[cur].op = "free"
  <2>1. PICK d : d = Returned(run[cur].prog, TRUE)
    OBVIOUS
  <2>2. PICK r : r = run[cur].map
    OBVIOUS
  <2>3. /\ run' = [run EXCEPT ![cur] = d]
        /\ used' = used \ {r} /\ taken' = [taken EXCEPT ![cur] = @ \ {r}]
        /\ cr3' = cr3 /\ context' = context
    BY <1>6, <2>1, <2>2 DEF FreePML4, Give
  <2>4. FreesMap(r, d)
    BY ONLY <1>2, <1>6, <2>1, <2>2, <2>3 DEF FreesMap
  <2> QED
    BY ONLY <2>4, ExecInvOf(lab), ~halted, cur' = cur, FreeMapStep
<1>7. run[cur].op \in {"drop", "reset", "free"}
  BY DEF FreePML4
<1> QED
  BY ONLY <1>4, <1>5, <1>6, <1>7

-----------------------------------------------------------------------------
(* A switch of tasks, and a new task. *)

\* No page map changes, and every task but one keeps all it has.
Switches(t) ==
    /\ mem' = mem /\ used' = used /\ data' = data /\ halted' = halted
    /\ \A u \in Task \ {t} : /\ run'[u] = run[u] /\ taken'[u] = taken[u]
                             /\ files'[u] = files[u] /\ CR3(u)' = CR3(u)
    /\ ExecTypes'

\* The invariant then needs to be shown of the roots and of that task only.
LEMMA SwitchKeeps ==
    ASSUME NEW lab, ExecInvOf(lab), ~halted, NEW t \in Task, Switches(t), MapsInv(lab)', TaskInv(lab, t)'
    PROVE  ExecInv'
<1>1. /\ ExecTypes /\ Forest(lab) /\ KernelMapped /\ used \subseteq Frame /\ \A u \in Task : TaskInv(lab, u)
  BY DEF ExecInvOf, ExecTypes
<1>2. /\ mem' = mem /\ used' = used /\ data' = data /\ halted' = halted
      /\ \A u \in Task \ {t} : /\ run'[u] = run[u] /\ taken'[u] = taken[u]
                               /\ files'[u] = files[u] /\ CR3(u)' = CR3(u)
      /\ ExecTypes'
  BY DEF Switches
<1>3. \A s : SameTree(lab, lab, s)
  BY ONLY <1>2 DEF SameTree
<1>4. Forest(lab)'
  BY ONLY <1>1, <1>2
  DEF Forest, OwnersAreRoots, ChildrenPlaced, IsChild, EntriesGood, HaveParents, PlacesDiffer, InTrees
<1>5. KernelMapped' /\ HaltedForCause'
  BY ONLY <1>1, <1>2, ~halted DEF KernelMapped, HaltedForCause
<1>6. ASSUME NEW u \in Task \ {t} PROVE TaskInv(lab, u)'
  <2>1. used' \subseteq Frame
    BY ONLY <1>1, <1>2
  <2> QED
    BY ONLY <1>1, <1>2, <1>3, <2>1, u \in Task \ {t}, u \in Task, TaskKept
<1>7. \A u \in Task : TaskInv(lab, u)'
  BY ONLY <1>6, TaskInv(lab, t)'
<1>8. ExecInvOf(lab)'
  BY ONLY <1>2, <1>4, <1>5, <1>7, MapsInv(lab)' DEF ExecInvOf
<1> QED
  BY ONLY <1>8 DEF ExecInv

\* The timer interrupt: every task finds its page map again.
LEMMA TimerInterruptKeeps ==
    ASSUME NEW lab, ExecInvOf(lab), ~halted, NEW t \in Task, TimerInterrupt(t)
    PROVE  ExecInv'
<1>1. /\ cur \in Task /\ ExecTypes /\ used \subseteq Frame /\ run \in [Task -> RunTypes]
      /\ RunOnRoots(lab) /\ RootsApart(lab) /\ Registers /\ CleanMaps(lab) /\ TaskInv(lab, cur)
      /\ context \in [Task -> Frame \cup {KernelPML4, NotPresent}] /\ cr3 \in Frame \cup {KernelPML4}
  BY DEF ExecInvOf, ExecTypes, MapsInv
<1>2. /\ cur' = t /\ context' = [context EXCEPT ![cur] = cr3]
      /\ cr3' = IF t = cur THEN cr3 ELSE context[t]
      /\ run' = IF run[cur].op = "kill" THEN [run EXCEPT ![cur].op = "kill_hit"] ELSE run
      /\ mem' = mem /\ data' = data /\ used' = used /\ files' = files /\ taken' = taken /\ halted' = halted
  BY DEF TimerInterrupt
<1>3. ASSUME NEW u \in Task PROVE CR3(u)' = CR3(u)
  BY ONLY <1>1, <1>2, <1>3, t \in Task DEF CR3
<1>4. cr3' = CR3(t) /\ CR3(t)' = cr3'
  BY ONLY <1>1, <1>2 DEF CR3
<1>5. cr3' \in Frame \cup {KernelPML4}
  BY ONLY <1>1, <1>4, t \in Task DEF RunOnRoots, IsRoot
<1>6. PICK d : d = IF run[cur].op = "kill" THEN [run[cur] EXCEPT !.op = "kill_hit"] ELSE run[cur]
  OBVIOUS
<1>7. /\ d \in RunTypes /\ d.prog = run[cur].prog /\ d.map = run[cur].map
      /\ \/ d = run[cur]
         \/ run[cur].op = "kill" /\ d.op = "kill_hit"
  BY ONLY <1>1, <1>6 DEF RunTypes, BusyOps
<1>8. /\ run'[cur] = d /\ run' \in [Task -> RunTypes] /\ \A u \in Task \ {cur} : run'[u] = run[u]
  <2>1. run' = [run EXCEPT ![cur] = d]
    BY ONLY <1>1, <1>2, <1>6
  <2> QED
    BY ONLY <1>1, <1>7, <2>1
<1>9. ExecTypes'
  BY ONLY <1>1, <1>2, <1>5, <1>8, t \in Task DEF ExecTypes
<1>10. Switches(cur)
  BY ONLY <1>2, <1>3, <1>8, <1>9 DEF Switches
<1>11. ASSUME NEW u \in Task
       PROVE  /\ CR3(u)' = CR3(u) /\ RootOf(u)' = RootOf(u) /\ (Busy(u)' <=> Busy(u))
              /\ run'[u].map = run[u].map
              /\ run'[u].op \in {"reset", "free", "clean"} \/ run[u].op \in {"reset", "free", "clean"}
                 => run'[u].op = run[u].op
  BY ONLY <1>1, <1>3, <1>7, <1>8, <1>11 DEF RootOf, Busy, BusyOps
<1>12. RunOnRoots(lab)'
  BY ONLY <1>1, <1>2, <1>11 DEF RunOnRoots, IsRoot
<1>13. RootsApart(lab)'
  BY ONLY <1>1, <1>2, <1>11 DEF RootsApart, IsRoot
<1>14. Registers'
  <2>1. context'[t] = cr3'
    BY ONLY <1>1, <1>2, t \in Task
  <2>2. ASSUME NEW u \in Task
        PROVE  /\ run'[u].op = "reset" => run'[u].map = CR3(u)'
               /\ run'[u].op = "free" => CR3(u)' = KernelPML4
    BY ONLY <1>1, <1>11, <2>2 DEF Registers
  <2> QED
    BY ONLY <1>2, <2>1, <2>2 DEF Registers
<1>15. CleanMaps(lab)'
  BY ONLY <1>1, <1>2, <1>11 DEF CleanMaps, IsRoot
<1>16. MapsInv(lab)'
  BY ONLY <1>12, <1>13, <1>14, <1>15 DEF MapsInv
<1>17. PICK o : o = cur
  OBVIOUS
<1>18. TaskInv(lab, o)'
  <2>1. CASE d = run[cur]
    <3>1. \A s : SameTree(lab, lab, s)
      BY ONLY <1>2 DEF SameTree
    <3>2. used' \subseteq Frame /\ run'[o] = run[o] /\ taken'[o] = taken[o] /\ files'[o] = files[o]
          /\ CR3(o)' = CR3(o) /\ o \in Task /\ TaskInv(lab, o)
      BY ONLY <1>1, <1>2, <1>3, <1>8, <1>17, <2>1
    <3> QED
      BY ONLY <1>1, <3>1, <3>2, TaskKept
  <2>2. CASE run[cur].op = "kill" /\ d.op = "kill_hit"
    <3>1. /\ run[o].op = "kill" /\ run'[o].op = "kill_hit" /\ run'[o].prog = run[o].prog /\ o \in Task
          /\ TaskInv(lab, o) /\ taken'[o] = taken[o] /\ files'[o] = files[o]
      BY ONLY <1>1, <1>2, <1>7, <1>8, <1>17, <2>2
    <3>2. RootOf(o)' = RootOf(o) /\ Busy(o)' /\ Busy(o)
      BY ONLY <1>11, <3>1 DEF Busy, BusyOps
    <3>3. TakenIs(lab, o)'
      BY ONLY <1>2, <3>1, <3>2 DEF TakenIs, TaskInv
    <3>4. CoversProgram(lab, o)'
      BY ONLY <1>2, <3>1, <3>2 DEF CoversProgram, TaskInv, AfterOps
    <3>5. Progress(lab, o)'
      <4>1. Loadable(run[o].prog) /\ \A g \in ProgramPages(run[o].prog) : Have(lab, RootOf(o), g)
        BY ONLY <3>1, <3>2 DEF Progress, TaskInv
      <4>2. ASSUME NEW g \in ProgramPages(run[o].prog) PROVE Have(lab, RootOf(o), g)'
        BY ONLY <1>2, <3>2, <4>1, <4>2 DEF Have
      <4> QED
        BY ONLY <3>1, <4>1, <4>2 DEF Progress, AfterOps
    <3>6. Copied(lab, o)' /\ ArgsFit(o)' /\ FilesAre(o)'
      BY ONLY <3>1 DEF Copied, ArgsFit, FilesAre
    <3> QED
      BY ONLY <3>3, <3>4, <3>5, <3>6 DEF TaskInv
  <2> QED
    BY ONLY <1>7, <2>1, <2>2
<1>19. Switches(o) /\ o \in Task
  BY ONLY <1>1, <1>10, <1>17
<1> QED
  BY ONLY <1>16, <1>18, <1>19, ExecInvOf(lab), ~halted, SwitchKeeps

\* A new task shares the page map of its creator, until it executes a program.
LEMMA InitContextKeeps ==
    ASSUME NEW lab, ExecInvOf(lab), ~halted, cur' = cur, NEW t \in Task, InitContext(t)
    PROVE  ExecInv'
<1>1. /\ cur \in Task /\ ExecTypes /\ used \subseteq Frame /\ run \in [Task -> RunTypes]
      /\ RunOnRoots(lab) /\ RootsApart(lab) /\ Registers /\ CleanMaps(lab) /\ TaskInv(lab, t)
      /\ context \in [Task -> Frame \cup {KernelPML4, NotPresent}] /\ cr3 \in Frame \cup {KernelPML4}
      /\ files \in [Task -> Seq({"std", "file"})] /\ taken \in [Task -> SUBSET Frame]
  BY DEF ExecInvOf, ExecTypes, MapsInv
<1>2. /\ t # cur /\ run[cur].op = "idle" /\ run[t].op = "idle"
      /\ context' = [context EXCEPT ![t] = cr3]
      /\ files' = [files EXCEPT ![t] = <<>>]
      /\ taken' = [taken EXCEPT ![t] = {}]
      /\ run' = [run EXCEPT ![t] = Returned(run[t].prog, FALSE)]
      /\ cr3' = cr3 /\ mem' = mem /\ data' = data /\ used' = used /\ halted' = halted
  BY DEF InitContext
<1>3. PICK d : d = Returned(run[t].prog, FALSE)
  OBVIOUS
<1>4. d \in RunTypes /\ d.op = "idle" /\ d.ok = FALSE
  <2>1. run[t].prog \in Program
    BY ONLY <1>1, t \in Task DEF RunTypes
  <2> QED
    BY ONLY <1>3, <2>1 DEF RunTypes, Returned
<1>5. /\ run'[t] = d /\ run' \in [Task -> RunTypes] /\ \A u \in Task \ {t} : run'[u] = run[u]
  BY ONLY <1>1, <1>2, <1>3, <1>4, t \in Task
<1>6. /\ files'[t] = <<>> /\ files' \in [Task -> Seq({"std", "file"})] /\ \A u \in Task \ {t} : files'[u] = files[u]
  <2>1. <<>> \in Seq({"std", "file"})
    OBVIOUS
  <2> QED
    BY ONLY <1>1, <1>2, <2>1, t \in Task
<1>7. /\ taken'[t] = {} /\ taken' \in [Task -> SUBSET Frame] /\ \A u \in Task \ {t} : taken'[u] = taken[u]
  BY ONLY <1>1, <1>2, t \in Task
<1>8. /\ context'[t] = cr3 /\ context' \in [Task -> Frame \cup {KernelPML4, NotPresent}]
      /\ \A u \in Task \ {t} : context'[u] = context[u]
  BY ONLY <1>1, <1>2, t \in Task
<1>9. ExecTypes'
  BY ONLY <1>1, <1>2, <1>5, <1>6, <1>7, <1>8, cur' = cur DEF ExecTypes
<1>10. CR3(t)' = CR3(cur) /\ CR3(cur) = cr3
  BY ONLY <1>2, <1>8, cur' = cur DEF CR3
<1>11. ASSUME NEW u \in Task \ {t}
       PROVE  /\ CR3(u)' = CR3(u) /\ RootOf(u)' = RootOf(u) /\ (Busy(u)' <=> Busy(u)) /\ run'[u] = run[u]
  BY ONLY <1>2, <1>5, <1>8, <1>11, cur' = cur DEF CR3, RootOf, Busy
<1>12. ~Busy(t)' /\ ~Busy(t) /\ ~Busy(cur) /\ run'[t].op = "idle"
  BY ONLY <1>2, <1>4, <1>5 DEF Busy, BusyOps
<1>13. Switches(t)
  BY ONLY <1>2, <1>5, <1>6, <1>7, <1>9, <1>11 DEF Switches
<1>14. RunOnRoots(lab)'
  BY ONLY <1>1, <1>2, <1>10, <1>11 DEF RunOnRoots, IsRoot
<1>15. RootsApart(lab)'
  <2>1. ASSUME NEW u \in Task, Busy(u)'
        PROVE  /\ IsRoot(lab, RootOf(u), kLevels)'
               /\ \A v \in Task \ {u} : CR3(v)' # RootOf(u)' /\ (Busy(v)' => RootOf(v)' # RootOf(u)')
    <3>1. u # t /\ Busy(u) /\ u # cur /\ RootOf(u)' = RootOf(u)
      BY ONLY <1>1, <1>2, <1>11, <1>12, <2>1
    <3>2. IsRoot(lab, RootOf(u), kLevels)
          /\ \A v \in Task \ {u} : CR3(v) # RootOf(u) /\ (Busy(v) => RootOf(v) # RootOf(u))
      BY ONLY <1>1, <2>1, <3>1 DEF RootsApart
    <3>3. IsRoot(lab, RootOf(u), kLevels)'
      BY ONLY <1>2, <3>1, <3>2 DEF IsRoot
    <3>4. ASSUME NEW v \in Task \ {u}
          PROVE  CR3(v)' # RootOf(u)' /\ (Busy(v)' => RootOf(v)' # RootOf(u)')
      BY ONLY <1>1, <1>10, <1>11, <1>12, <3>1, <3>2, <3>4
    <3> QED
      BY ONLY <3>3, <3>4
  <2> QED
    BY ONLY <2>1 DEF RootsApart
<1>16. Registers'
  BY ONLY <1>1, <1>2, <1>5, <1>11, <1>12, cur' = cur DEF Registers, BusyOps
<1>17. CleanMaps(lab)'
  BY ONLY <1>1, <1>2, <1>11, <1>12 DEF CleanMaps, IsRoot
<1>18. MapsInv(lab)'
  BY ONLY <1>14, <1>15, <1>16, <1>17 DEF MapsInv
<1>19. TaskInv(lab, t)'
  BY ONLY <1>4, <1>5, <1>6, <1>7, <1>12
  DEF TaskInv, TakenIs, CoversProgram, Progress, Copied, ArgsFit, FilesAre, AfterOps
<1> QED
  BY ONLY <1>13, <1>18, <1>19, ExecInvOf(lab), ~halted, t \in Task, SwitchKeeps

\* Every step of the machine keeps the invariant.
LEMMA ExecNextKeeps ==
    ASSUME ExecInv, [ExecNext]_execVars
    PROVE  ExecInv'
<1>1. PICK lab : ExecInvOf(lab)
  BY DEF ExecInv
<1>2. CASE ~halted /\ Step(cur) /\ cur' = cur
  <2>1. ASSUME NEW p \in Program, ExecuteFile(cur, p) PROVE ExecInv'
    BY ONLY <1>1, <1>2, <2>1, ExecuteFileKeeps
  <2>2. SetupPML4(cur) => ExecInv'
    BY ONLY <1>1, <1>2, SetupPML4Keeps
  <2>3. LoadELF(cur) => ExecInv'
    BY ONLY <1>1, <1>2, LoadELFKeeps
  <2>4. SetupPageMap(cur) => ExecInv'
    BY ONLY <1>1, <1>2, SetupPageMapKeeps
  <2>5. CopyLoadSegment(cur) => ExecInv'
    BY ONLY <1>1, <1>2, CopyLoadSegmentKeeps
  <2>6. MakeArgVector(cur) => ExecInv'
    BY ONLY <1>1, <1>2, MakeArgVectorKeeps
  <2>7. CallApp(cur) => ExecInv'
    BY ONLY <1>1, <1>2, CallAppKeeps
  <2>8. Open(cur) => ExecInv'
    BY ONLY <1>1, <1>2, OpenKeeps
  <2>9. SyscallEntry(cur) \/ SyscallReturn(cur) => ExecInv'
    BY ONLY <1>1, <1>2, SyscallKeeps
  <2>10. ASSUME NEW v \in ProgramFaults, KillApp(cur, v) PROVE ExecInv'
    BY ONLY <1>1, <1>2, <2>10, KillAppKeeps
  <2>11. ExitApp(cur) => ExecInv'
    BY ONLY <1>1, <1>2, ExitAppKeeps
  <2>12. KillAppLost(cur) => ExecInv'
    BY ONLY <1>1, <1>2, KillAppLostKeeps
  <2>13. CleanPageMap(cur) => ExecInv'
    BY ONLY <1>1, <1>2, CleanPageMapKeeps
  <2>14. FreePML4(cur) => ExecInv'
    BY ONLY <1>1, <1>2, FreePML4Keeps
  <2> QED
    BY ONLY <1>2, <2>1, <2>2, <2>3, <2>4, <2>5, <2>6, <2>7, <2>8, <2>9, <2>10, <2>11, <2>12, <2>13, <2>14
    DEF Step
<1>3. ASSUME NEW t \in Task, ~halted, TimerInterrupt(t) PROVE ExecInv'
  BY ONLY <1>1, <1>3, TimerInterruptKeeps
<1>4. ASSUME NEW t \in Task, ~halted, InitContext(t), cur' = cur PROVE ExecInv'
  BY ONLY <1>1, <1>4, InitContextKeeps
<1>5. CASE UNCHANGED execVars
  <2>1. /\ cur' = cur /\ cr3' = cr3 /\ context' = context /\ mem' = mem /\ data' = data /\ used' = used
        /\ run' = run /\ files' = files /\ taken' = taken /\ execs' = execs /\ halted' = halted
    BY ONLY <1>5 DEF execVars
  <2>2. /\ ExecTypes /\ KernelMapped /\ Forest(lab) /\ MapsInv(lab) /\ HaltedForCause
        /\ used \subseteq Frame /\ used' \subseteq Frame /\ \A t \in Task : TaskInv(lab, t)
    BY ONLY <1>1, <2>1 DEF ExecInvOf, ExecTypes
  <2>3. ExecTypes' /\ KernelMapped' /\ HaltedForCause'
    BY ONLY <2>1, <2>2 DEF ExecTypes, KernelMapped, HaltedForCause
  <2>4. Forest(lab)'
    BY ONLY <2>1, <2>2
    DEF Forest, OwnersAreRoots, ChildrenPlaced, IsChild, EntriesGood, HaveParents, PlacesDiffer, InTrees
  <2>5. \A t : CR3(t)' = CR3(t) /\ RootOf(t)' = RootOf(t) /\ (Busy(t)' <=> Busy(t))
    BY ONLY <2>1 DEF CR3, RootOf, Busy
  <2>6. MapsInv(lab)'
    BY ONLY <2>1, <2>2, <2>5 DEF MapsInv, RunOnRoots, RootsApart, Registers, CleanMaps, IsRoot
  <2>7. \A s : SameTree(lab, lab, s)
    BY ONLY <2>1 DEF SameTree
  <2>8. ASSUME NEW t \in Task PROVE TaskInv(lab, t)'
    BY ONLY <2>1, <2>2, <2>5, <2>7, <2>8, TaskKept
  <2>9. ExecInvOf(lab)'
    BY ONLY <2>3, <2>4, <2>6, <2>8 DEF ExecInvOf
  <2> QED
    BY ONLY <2>9 DEF ExecInv
<1> QED
  BY <1>2, <1>3, <1>4, <1>5 DEF ExecNext

\* The invariant holds of every state: page maps are trees of frames that are in
\* use, and each task in ExecuteFile has one of its own.
LEMMA ExecInvHolds == ExecSpec => []ExecInv
<1>1. ExecInit => ExecInv
  BY ExecInitInv
<1>2. ExecInv /\ [ExecNext]_execVars => ExecInv'
  BY ExecNextKeeps
<1> QED
  BY <1>1, <1>2, PTL DEF ExecSpec

-----------------------------------------------------------------------------
(* What the invariant says of the page maps. *)

\* The kernel's map leads to nothing in its upper half.
LEMMA KernelAlone ==
    ASSUME KernelMapped
    PROVE  /\ mem[KernelPML4][0] = IdentityMap
           /\ Reach(KernelPML4) = {} /\ Links(KernelPML4) = {}
<1>1. kLevels \in Nat /\ kLevels - 1 \in 0..(kLevels - 1) /\ 0 \in Index /\ Index \subseteq Nat
      /\ kEntries \div 2 \in Nat \ {0}
  BY ShapeAssumption DEF Index
<1>2. \A i \in Index : mem[KernelPML4][i] = KernelEntry(i)
  BY DEF KernelMapped
<1>3. \A i \in Index : i >= kEntries \div 2 => mem[KernelPML4][i] = NotPresent
  BY ONLY <1>1, <1>2 DEF KernelEntry
<1>4. UpperEntries(KernelPML4) = {}
  BY ONLY <1>3 DEF UpperEntries
<1> DEFINE F == [l \in 0..(kLevels - 1) |-> {}]
<1>5. Level(KernelPML4) = F
  <2>1. DOMAIN F = 0..(kLevels - 1) /\ F[kLevels - 1] = UpperEntries(KernelPML4)
        /\ F = [l \in 0..(kLevels - 1) |-> F[l]]
    BY <1>1, <1>4
  <2>2. ASSUME NEW l \in 0..(kLevels - 2) PROVE F[l] = Entered(F[l + 1])
    <3>1. l \in 0..(kLevels - 1) /\ l + 1 \in 0..(kLevels - 1)
      BY <1>1
    <3>2. F[l] = {} /\ F[l + 1] = {}
      BY <3>1
    <3> HIDE DEF F
    <3> QED
      BY ONLY <3>2 DEF Entered
  <2> HIDE DEF F
  <2> QED
    BY ONLY <2>1, <2>2, LevelIs
<1>6. Reach(KernelPML4) = {}
  BY <1>5 DEF Reach
<1>7. Links(KernelPML4) = {}
  BY ONLY <1>3, <1>6 DEF Links
<1> QED
  BY <1>1, <1>2, <1>6, <1>7 DEF KernelEntry

\* In the upper half of a root, every frame is entered once.
LEMMA LinkedOnce ==
    ASSUME ExecTypes, NEW lab, Forest(lab), NEW r, IsRoot(lab, r, kLevels)
    PROVE  Cardinality(Links(r)) = Cardinality(Reach(r))
<1> DEFINE S == Links(r)
           T == Reach(r)
           F == [k \in S |-> mem[k[1]][k[2]]]
<1>1. kLevels \in Nat /\ used \subseteq Frame /\ IsFiniteSet(used) /\ r \in used /\ r \in Frame
      /\ lab[r].lev = kLevels /\ lab \in [Frame -> Places] /\ lab[r].own = r /\ lab[r].pre = 0
      /\ Index \subseteq Nat /\ kEntries \div 2 \in Nat
  BY ShapeAssumption DEF ExecTypes, IsRoot, Forest, Index
<1>2. T = TreeOf(lab, r) \ {r} /\ r \in TreeOf(lab, r)
  BY ReachIs
<1>3. IsFiniteSet(T)
  <2>1. T \in SUBSET used
    BY ONLY <1>2 DEF TreeOf
  <2> HIDE DEF T
  <2> QED
    BY ONLY <1>1, <2>1, FS_Subset
<1>4. ASSUME NEW f \in TreeOf(lab, r)
      PROVE  f \in InTrees(lab) /\ f \in used /\ f \in Frame /\ lab[f].own = r /\ (f # r => lab[f].lev # kLevels)
  <2>1. f \in InTrees(lab) /\ f \in used /\ f \in Frame /\ lab[f].own = r
    BY ONLY <1>1, <1>4 DEF TreeOf, InTrees
  <2>2. f # r => lab[f].lev < kLevels
    BY <2>1, BelowRoot
  <2>3. lab[f].lev \in 0..kLevels
    BY ONLY <1>1, <2>1 DEF Places
  <2> QED
    BY ONLY <1>1, <2>1, <2>2, <2>3
<1>5. ASSUME NEW k \in S
      PROVE  /\ k = <<k[1], k[2]>> /\ k[1] \in TreeOf(lab, r) /\ k[2] \in Index
             /\ IsChild(lab, k[1], k[2], F[k]) /\ F[k] \in T /\ F[k] = mem[k[1]][k[2]]
  <2>1. /\ k = <<k[1], k[2]>> /\ k[1] \in {r} \cup Reach(r) /\ k[2] \in Index
        /\ mem[k[1]][k[2]] # NotPresent /\ (k[1] = r => k[2] >= kEntries \div 2)
    BY ONLY <1>5 DEF Links
  <2> HIDE DEF S
  <2>2. k[1] \in TreeOf(lab, r)
    BY ONLY <1>2, <2>1
  <2> DEFINE m == k[1]
             i == k[2]
  <2>3. F[k] = mem[m][i]
    BY ONLY <1>5
  <2> HIDE DEF F, m, i
  <2>4. m \in TreeOf(lab, r) /\ i \in Index /\ mem[m][i] # NotPresent /\ (m = r => i >= kEntries \div 2)
    BY ONLY <2>1, <2>2 DEF m, i
  <2>5. ~(lab[m].lev = kLevels /\ i < kEntries \div 2)
    BY ONLY <1>1, <1>4, <2>4
  <2>6. mem[m][i] \in Frame
    BY <1>4, <2>4, <2>5 DEF Forest, EntriesGood
  <2>7. IsChild(lab, m, i, mem[m][i])
    BY <1>4, <2>4, <2>6 DEF Forest, ChildrenPlaced
  <2>8. mem[m][i] \in TreeOf(lab, r) \ {r}
    BY ONLY <1>4, <2>4, <2>7 DEF IsChild, TreeOf
  <2> QED
    BY ONLY <1>2, <2>1, <2>2, <2>3, <2>7, <2>8 DEF m, i
<1>6. F \in [S -> T]
  <2>1. ASSUME NEW k \in S PROVE mem[k[1]][k[2]] \in T
    <3> HIDE DEF S, T, F
    <3> QED
      BY ONLY <1>5, <2>1
  <2> HIDE DEF S, T
  <2> QED
    BY ONLY <2>1
<1>7. ASSUME NEW a \in S, NEW b \in S, F[a] = F[b] PROVE a = b
  <2> DEFINE m == a[1]
             n == b[1]
             i == a[2]
             j == b[2]
             c == F[a]
  <2> HIDE DEF S, T, F
  <2>1. /\ a = <<m, i>> /\ m \in TreeOf(lab, r) /\ i \in Index /\ IsChild(lab, m, i, c)
        /\ b = <<n, j>> /\ n \in TreeOf(lab, r) /\ j \in Index /\ IsChild(lab, n, j, c)
    BY ONLY <1>5, <1>7
  <2> HIDE DEF m, n, i, j, c
  <2>2. /\ lab[m].lev = lab[n].lev /\ lab[m].pre * kEntries + i = lab[n].pre * kEntries + j
    BY ONLY <2>1 DEF IsChild
  <2>3. lab[m].pre \in Nat /\ lab[n].pre \in Nat
    BY ONLY <1>1, <1>4, <2>1 DEF Places
  <2>4. lab[m].pre = lab[n].pre /\ i = j
    BY ONLY <2>1, <2>2, <2>3, DigitsDiffer
  <2>5. m = n
    BY <1>4, <2>1, <2>2, <2>4 DEF Forest, PlacesDiffer
  <2> QED
    BY ONLY <2>1, <2>4, <2>5
<1>8. ASSUME NEW f \in T PROVE \E k \in S : F[k] = f
  <2>1. f \in TreeOf(lab, r) /\ f # r
    BY ONLY <1>2, <1>8
  <2>2. f \in InTrees(lab) /\ lab[f].own = r /\ f \in Frame
    BY ONLY <1>4, <2>1
  <2>3. PICK m \in InTrees(lab), i \in Index : mem[m][i] = f /\ lab[m].own = lab[f].own
    BY <2>1, <2>2, BelowRoot
  <2>4. m \in TreeOf(lab, r) /\ m \in {r} \cup Reach(r)
    BY ONLY <1>2, <2>2, <2>3 DEF TreeOf, InTrees
  <2>5. f # NotPresent /\ f # IdentityMap
    BY ONLY <2>2, EntriesDiffer
  <2>6. m = r => ~(i < kEntries \div 2)
    BY <1>1, <2>3, <2>5 DEF Forest, EntriesGood, KernelEntry
  <2>7. m = r => i >= kEntries \div 2
    BY ONLY <1>1, <2>3, <2>6
  <2>8. <<m, i>> \in S
    BY ONLY <2>3, <2>4, <2>5, <2>7 DEF Links
  <2>9. F[<<m, i>>] = f
    BY ONLY <2>3, <2>8
  <2> QED
    BY ONLY <2>8, <2>9
<1> HIDE DEF S, T, F
<1>9. F \in Injection(S, T) /\ F \in Surjection(S, T)
  BY ONLY <1>6, <1>7, <1>8 DEF Injection, IsInjective, Surjection
<1>10. Cardinality(S) = Cardinality(T)
  BY ONLY <1>3, <1>9, FS_Injection
<1> QED
  BY ONLY <1>10 DEF S, T

\* A page map that a task runs on is the kernel's or a tree.
LEMMA MapsOwnTheirs ==
    ASSUME ExecInv
    PROVE  MapsOwnTheirFrames
<1>1. PICK lab : ExecInvOf(lab)
  BY DEF ExecInv
<1>2. ExecTypes /\ Forest(lab) /\ KernelMapped /\ RunOnRoots(lab) /\ used \subseteq Frame
  BY <1>1 DEF ExecInvOf, MapsInv, ExecTypes
<1>3. ASSUME NEW t \in Task PROVE CR3(t) = KernelPML4 \/ IsRoot(lab, CR3(t), kLevels)
  BY ONLY <1>2, <1>3 DEF RunOnRoots
<1>4. /\ mem[KernelPML4][0] = IdentityMap
      /\ Reach(KernelPML4) = {} /\ Links(KernelPML4) = {}
  BY ONLY <1>2, KernelAlone
<1>5. ASSUME NEW r, IsRoot(lab, r, kLevels)
      PROVE  /\ r \in used /\ mem[r][0] = IdentityMap /\ {r} \cup Reach(r) = TreeOf(lab, r)
             /\ Reach(r) \subseteq used \ {r}
             /\ Cardinality(Links(r)) = Cardinality(Reach(r))
  <2>1. r \in used /\ r \in InTrees(lab) /\ lab[r].lev = kLevels
    BY ONLY <1>2, <1>5 DEF IsRoot, InTrees
  <2>2. 0 \in Index /\ 0 < kEntries \div 2
    BY ShapeAssumption DEF Index
  <2>3. mem[r][0] = IdentityMap
    BY ONLY <1>2, <2>1, <2>2 DEF Forest, EntriesGood, KernelEntry
  <2>4. Reach(r) = TreeOf(lab, r) \ {r} /\ r \in TreeOf(lab, r)
    BY ONLY <1>2, <1>5, ReachIs
  <2>5. Cardinality(Links(r)) = Cardinality(Reach(r))
    BY ONLY <1>2, <1>5, LinkedOnce
  <2>6. TreeOf(lab, r) \subseteq used
    BY DEF TreeOf
  <2> QED
    BY ONLY <2>1, <2>3, <2>4, <2>5, <2>6
<1>6. ASSUME NEW t \in Task
      PROVE  LET r == CR3(t)
             IN  /\ r \in used \cup {KernelPML4}
                 /\ mem[r][0] = IdentityMap
                 /\ Reach(r) \subseteq used \ {r}
                 /\ Cardinality(Links(r)) = Cardinality(Reach(r))
  BY ONLY <1>3, <1>4, <1>5, <1>6
<1>7. ASSUME NEW t \in Task, NEW u \in Task, CR3(t) # CR3(u)
      PROVE  ({CR3(t)} \cup Reach(CR3(t))) \cap ({CR3(u)} \cup Reach(CR3(u))) = {}
  <2> DEFINE r == CR3(t)
             s == CR3(u)
  <2>1. r # s
    BY <1>7
  <2>2. r = KernelPML4 \/ IsRoot(lab, r, kLevels)
    BY <1>3
  <2>3. s = KernelPML4 \/ IsRoot(lab, s, kLevels)
    BY <1>3
  <2> HIDE DEF r, s
  <2>4. KernelPML4 \notin used
    BY ONLY <1>2, EntriesDiffer
  <2>5. \A x : x \in TreeOf(lab, r) => x \in used /\ lab[x].own = r
    BY DEF TreeOf
  <2>6. \A x : x \in TreeOf(lab, s) => x \in used /\ lab[x].own = s
    BY DEF TreeOf
  <2>7. {r} \cup Reach(r) = IF r = KernelPML4 THEN {KernelPML4} ELSE TreeOf(lab, r)
    BY ONLY <1>4, <1>5, <2>2
  <2>8. {s} \cup Reach(s) = IF s = KernelPML4 THEN {KernelPML4} ELSE TreeOf(lab, s)
    BY ONLY <1>4, <1>5, <2>3
  <2>9. ({r} \cup Reach(r)) \cap ({s} \cup Reach(s)) = {}
    BY ONLY <2>1, <2>4, <2>5, <2>6, <2>7, <2>8
  <2> QED
    BY ONLY <2>9 DEF r, s
<1> DEFINE roots == {CR3(t) : t \in Task}
<1>8. \A r \in roots : /\ r \in used \cup {KernelPML4}
                       /\ mem[r][0] = IdentityMap
                       /\ Reach(r) \subseteq used \ {r}
                       /\ Cardinality(Links(r)) = Cardinality(Reach(r))
  BY ONLY <1>6
<1>9. \A r, s \in roots : r # s => ({r} \cup Reach(r)) \cap ({s} \cup Reach(s)) = {}
  BY ONLY <1>7
<1> QED
  BY ONLY <1>4, <1>8, <1>9 DEF MapsOwnTheirFrames

\* What a call of ExecuteFile left is its tree, or the kept part of it.
LEMMA GivesBack ==
    ASSUME ExecInv
    PROVE  FramesGivenBack
<1>1. PICK lab : ExecInvOf(lab)
  BY DEF ExecInv
<1>2. ExecTypes /\ Forest(lab) /\ RunOnRoots(lab) /\ used \subseteq Frame /\ lab \in [Frame -> Places]
  BY <1>1 DEF ExecInvOf, MapsInv, ExecTypes, Forest
<1>3. SUFFICES ASSUME NEW t \in Task, run[t].op = "idle"
               PROVE  IF run[t].ok THEN Cardinality(taken[t]) = FramesFor(KeptPages(run[t].prog))
                      ELSE taken[t] # {} => taken[t] = {CR3(t)} \cup Reach(CR3(t))
  BY DEF FramesGivenBack
<1>4. TakenIs(lab, t)
  BY <1>1 DEF ExecInvOf, TaskInv
<1>5. run[t].ok => Cardinality(taken[t]) = FramesFor(KeptPages(run[t].prog))
  BY ONLY <1>3, <1>4 DEF TakenIs
<1>6. ASSUME ~run[t].ok, taken[t] # {} PROVE taken[t] = {CR3(t)} \cup Reach(CR3(t))
  <2>1. taken[t] = TreeOf(lab, CR3(t))
    BY ONLY <1>3, <1>4, <1>6 DEF TakenIs
  <2>2. CR3(t) # KernelPML4
    <3>1. TreeOf(lab, KernelPML4) = {}
      BY ONLY <1>2, EntriesDiffer DEF TreeOf, Places
    <3> QED
      BY ONLY <1>6, <2>1, <3>1
  <2>3. IsRoot(lab, CR3(t), kLevels)
    BY ONLY <1>2, <1>3, <2>2 DEF RunOnRoots
  <2>4. Reach(CR3(t)) = TreeOf(lab, CR3(t)) \ {CR3(t)} /\ CR3(t) \in TreeOf(lab, CR3(t))
    BY ONLY <1>2, <2>3, ReachIs
  <2> QED
    BY ONLY <2>1, <2>4
<1> QED
  BY ONLY <1>5, <1>6

\* The frame of a page of the program is the one at its place.
LEMMA PageFound ==
    ASSUME ExecTypes, NEW lab, Forest(lab), NEW r, IsRoot(lab, r, kLevels), NEW g \in Upper, Have(lab, r, g)
    PROVE  LET f == Walk(r, g)[0]
           IN  f \in used /\ f \in InTrees(lab) /\ lab[f].own = r /\ lab[f].lev = 0 /\ lab[f].pre = g
<1> DEFINE f == Walk(r, g)[0]
<1>1. 0 \in 0..kLevels /\ r \in Frame /\ used \subseteq Frame
  BY ShapeAssumption DEF ExecTypes, IsRoot
<1>2. f \in used
  BY <1>1, WalkFinds
<1>3. f # NotPresent
  BY ONLY <1>1, <1>2, EntriesDiffer
<1>4. lab[f].own = r /\ lab[f].lev = 0 /\ lab[f].pre = g \div Span[0]
  BY <1>1, <1>3, WalkPlaced
<1>5. g \div Span[0] = g
  BY UpperIs
<1> HIDE DEF f
<1>6. f \in InTrees(lab)
  BY ONLY <1>1, <1>2, <1>4 DEF InTrees
<1> QED
  BY ONLY <1>2, <1>4, <1>5, <1>6 DEF f

\* A program that is called has all its pages, arguments and descriptors.
LEMMA Complete ==
    ASSUME ExecInv
    PROVE  ProgramComplete
<1>1. PICK lab : ExecInvOf(lab)
  BY DEF ExecInv
<1>2. ExecTypes /\ Forest(lab) /\ RootsApart(lab) /\ used \subseteq Frame
  BY <1>1 DEF ExecInvOf, MapsInv, ExecTypes
<1>3. SUFFICES ASSUME NEW t \in Task, run[t].op \in {"app", "syscall"}
      PROVE  LET p == run[t].prog
                 root == CR3(t)
             IN  /\ \A i \in 1..Len(p.segs) : \A g \in Touched(p.segs[i]) :
                        Walk(root, g)[0] \in Frame /\ i \in data[Walk(root, g)[0]]
                 /\ {Walk(root, Pages - 1)[0], Walk(root, Pages - 2)[0]} \subseteq Frame
                 /\ \A g, h \in ProgramPages(p) : g # h => Walk(root, g)[0] # Walk(root, h)[0]
                 /\ SubSeq(files[t], 1, 3) = <<"std", "std", "std">>
                 /\ "std" \notin {files[t][i] : i \in 4..Len(files[t])}
                 /\ Len(p.args) <= kArgvLen
                 /\ ArgEnd(p.args, Len(p.args) - 1) < kArgbufLen
  BY DEF ProgramComplete
<1>4. PICK p : p = run[t].prog
  OBVIOUS
<1>5. PICK r : r = CR3(t)
  OBVIOUS
<1>6. p \in Program /\ TaskInv(lab, t) /\ files[t] \in Seq({"std", "file"})
  <2>1. run[t] \in RunTypes /\ files[t] \in Seq({"std", "file"})
    BY ONLY <1>2, <1>3 DEF ExecTypes
  <2>2. TaskInv(lab, t)
    BY ONLY <1>1, <1>3 DEF ExecInvOf
  <2> QED
    BY ONLY <1>4, <2>1, <2>2 DEF RunTypes
<1>7. Busy(t) /\ RootOf(t) = r
  BY ONLY <1>3, <1>5 DEF Busy, BusyOps, RootOf
<1>8. IsRoot(lab, r, kLevels)
  BY ONLY <1>2, <1>3, <1>7 DEF RootsApart
<1>9. Loadable(p) /\ \A g \in ProgramPages(p) : Have(lab, r, g)
  BY ONLY <1>3, <1>4, <1>6, <1>7 DEF TaskInv, Progress
<1>10. ProgramPages(p) \subseteq Upper
  BY ONLY <1>6, <1>9, ProgramPagesAre
<1>11. ASSUME NEW g \in ProgramPages(p)
       PROVE  LET f == Walk(r, g)[0]
              IN  f \in used /\ f \in InTrees(lab) /\ f \in Frame /\ lab[f].own = r /\ lab[f].lev = 0 /\ lab[f].pre = g
  BY ONLY <1>2, <1>8, <1>9, <1>10, <1>11, PageFound
<1>12. ASSUME NEW i \in 1..Len(p.segs), NEW g \in Touched(p.segs[i])
       PROVE  Walk(r, g)[0] \in Frame /\ i \in data[Walk(r, g)[0]]
  <2>1. g \in ProgramPages(p)
    BY Zenon, <1>12 DEF ProgramPages
  <2>2. Holds(lab, r, i, g)
    BY ONLY <1>3, <1>4, <1>6, <1>7, <1>12 DEF TaskInv, Copied
  <2>3. PICK f \in used : lab[f].own = r /\ lab[f].lev = 0 /\ lab[f].pre = g /\ i \in data[f]
    BY ONLY <2>2 DEF Holds
  <2>4. f \in InTrees(lab)
    BY ONLY <1>2, <1>8, <2>3 DEF InTrees, IsRoot
  <2>5. PICK x : x = Walk(r, g)[0]
    OBVIOUS
  <2>6. x \in InTrees(lab) /\ x \in Frame /\ lab[x].own = r /\ lab[x].lev = 0 /\ lab[x].pre = g
    BY ONLY <1>11, <2>1, <2>5
  <2>7. x = f
    BY ONLY <1>2, <2>3, <2>4, <2>6 DEF Forest, PlacesDiffer
  <2> QED
    BY ONLY <2>3, <2>5, <2>6, <2>7
<1>13. Pages - 1 \in ProgramPages(p) /\ Pages - 2 \in ProgramPages(p)
  BY Zenon DEF ProgramPages
<1>14. \A g, h \in ProgramPages(p) : g # h => Walk(r, g)[0] # Walk(r, h)[0]
  BY ONLY <1>11
<1>15. /\ Len(files[t]) >= 3
       /\ \A i \in 1..Len(files[t]) : files[t][i] = IF i <= 3 THEN "std" ELSE "file"
  BY ONLY <1>3, <1>6 DEF TaskInv, FilesAre
<1>16. Len(files[t]) \in Nat
  BY ONLY <1>6
<1>17. SubSeq(files[t], 1, 3) = <<"std", "std", "std">>
  <2>1. 1 \in 1..Len(files[t]) /\ 2 \in 1..Len(files[t]) /\ 3 \in 1..Len(files[t])
    BY ONLY <1>15, <1>16
  <2>2. files[t][1] = "std" /\ files[t][2] = "std" /\ files[t][3] = "std"
    BY ONLY <1>15, <2>1
  <2>3. PICK q : q = SubSeq(files[t], 1, 3)
    OBVIOUS
  <2>4. q \in Seq({"std", "file"}) /\ Len(q) = 3 /\ \A i \in 1..3 : q[i] = files[t][i]
    <3>1. 1 \in 1..(Len(files[t]) + 1) /\ 3 \in (1 - 1)..Len(files[t])
      BY ONLY <1>15, <1>16
    <3>2. /\ q \in Seq({"std", "file"}) /\ Len(q) = 3 - 1 + 1
          /\ \A i \in 1..(3 - 1 + 1) : q[i] = files[t][1 + i - 1]
      BY ONLY <1>6, <2>3, <3>1, SubSeqProperties
    <3> QED
      BY ONLY <3>2
  <2>5. q[1] = "std" /\ q[2] = "std" /\ q[3] = "std"
    BY ONLY <2>2, <2>4
  <2>6. q = <<"std", "std", "std">>
    BY ONLY <2>4, <2>5
  <2> QED
    BY ONLY <2>3, <2>6
<1>18. "std" \notin {files[t][i] : i \in 4..Len(files[t])}
  <2>1. ASSUME NEW i \in 4..Len(files[t]) PROVE files[t][i] = "file"
    <3>1. i \in 1..Len(files[t]) /\ ~(i <= 3)
      BY ONLY <1>16, <2>1
    <3> QED
      BY ONLY <1>15, <3>1
  <2> QED
    BY ONLY <2>1
<1>19. Len(p.args) <= kArgvLen /\ ArgEnd(p.args, Len(p.args) - 1) < kArgbufLen
  <2>1. ~ArgsFull(p.args)
    BY ONLY <1>3, <1>4, <1>6 DEF TaskInv, ArgsFit
  <2>2. Len(p.args) \in Nat \ {0}
    BY ONLY <1>6, ProgramIs
  <2>3. PICK n : n = Len(p.args)
    OBVIOUS
  <2>4. n \in 1..Len(p.args) /\ n - 1 \in 0..Len(p.args) /\ n \in Nat
    BY ONLY <2>2, <2>3
  <2>5. ~(n - 1 >= kArgvLen \/ ArgEnd(p.args, n - 1) >= kArgbufLen)
    BY ONLY <2>1, <2>4 DEF ArgsFull
  <2>6. ArgEnd(p.args, n - 1) \in Nat
    BY ONLY <1>6, <2>4, ArgEndIs
  <2>7. kArgvLen \in Nat /\ kArgbufLen \in Nat
    BY ShapeAssumption
  <2>8. n <= kArgvLen /\ ArgEnd(p.args, n - 1) < kArgbufLen
    BY ONLY <2>4, <2>5, <2>6, <2>7
  <2> QED
    BY ONLY <2>3, <2>8
<1>20. {Walk(r, Pages - 1)[0], Walk(r, Pages - 2)[0]} \subseteq Frame
  BY ONLY <1>11, <1>13
<1> QED
  BY ONLY <1>4, <1>5, <1>12, <1>14, <1>17, <1>18, <1>19, <1>20

-----------------------------------------------------------------------------

\* Whatever is switched, failed or inherited, the page map that a task runs on
\* (SetupPML4, InitContext, FreePML4, the context switch) is the kernel's or a tree
\* of allocated frames in which no other map in use has any.
THEOREM ExecMapsOwnTheirFrames == ExecSpec => []MapsOwnTheirFrames
<1>1. ExecInv => MapsOwnTheirFrames
  BY MapsOwnTheirs
<1> QED
  BY <1>1, ExecInvHolds, PTL

\* What ExecuteFile leaves allocated: after a program the maps and pages that do
\* not hang on the entry CleanPageMaps clears, after an early return the tree.
THEOREM ExecFramesGivenBack == ExecSpec => []FramesGivenBack
<1>1. ExecInv => FramesGivenBack
  BY GivesBack
<1> QED
  BY <1>1, ExecInvHolds, PTL

\* A program that is called (CallApp) has its segments, arguments and stack, and
\* the descriptors of its stage.
THEOREM ExecProgramComplete == ExecSpec => []ProgramComplete
<1>1. ExecInv => ProgramComplete
  BY Complete
<1> QED
  BY <1>1, ExecInvHolds, PTL

\* The machine stops in a fault handler only where a segment reaches a page more
\* than was mapped, where KillApp lost its stack, or in a system call.
THEOREM ExecHaltedForCause == ExecSpec => []HaltedForCause
<1>1. ExecInv => HaltedForCause
  BY DEF ExecInv, ExecInvOf
<1> QED
  BY <1>1, ExecInvHolds, PTL

=============================================================================
