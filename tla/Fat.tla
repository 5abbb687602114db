-------------------------------- MODULE Fat --------------------------------
(***************************************************************************)
(* The FAT file system (kernel/fat.cpp) on the volume image in memory: the *)
(* file allocation table, the directories, and fat::FileDescriptor as the  *)
(* tasks of a pipeline use it, from the open system call or a redirect on. *)
(*                                                                         *)
(* Nothing here turns interrupts off, so tasks interleave: a step is one   *)
(* turn of a loop that changes the volume, or a search, which does not.    *)
(***************************************************************************)
EXTENDS FatNames, FiniteSets

CONSTANTS
    Task,               \* tasks, each of which opens one file
    Images,             \* volumes to start with: [fat, ent]
    Paths,              \* paths the tasks open, as sequences of names
    Lens,               \* lengths of the reads and writes
    MaxFileBytes,       \* bound on the bytes a task reads and writes
    MaxDepth,           \* how deep directories lie in one another, the root counted
    LastCluster,        \* the last cluster of the volume
    bytes_per_cluster,
    entries_per_cluster

Clusters == 2..LastCluster
root_cluster == 2
kEndOfClusterchain == LastCluster + 1   \* no cluster: 0x0fffffff in the code

ASSUME VolumeAssumption ==
    LastCluster \in Nat \ {0, 1} /\ bytes_per_cluster \in Nat \ {0}
    /\ entries_per_cluster \in Nat \ {0}
ASSUME LensAssumption == Lens \subseteq Nat /\ MaxFileBytes \in Nat
ASSUME DepthAssumption == MaxDepth \in Nat \ {0}
\* Only the last name of a path may be empty: two slashes in a row, and one in front,
\* lead back to the root and are left out.
ASSUME PathAssumption ==
    \A path \in Paths :
        /\ Len(path) \in Nat \ {0} /\ DOMAIN path = 1..Len(path)
        /\ \A k \in 1..(Len(path) - 1) : path[k] # <<>>
        /\ \A k \in 1..Len(path) : Len(path[k]) \in Nat /\ DOMAIN path[k] = 1..Len(path[k])

\* Directory entries are named by the place they are at.
Slots == Clusters \X (0..(entries_per_cluster - 1))
NoEntry == <<0, 0>>   \* nullptr

\* First byte of a stored name: 0 ends a directory, 0xe5 marks a deleted entry.
EndMark == <<>>
Deleted == <<"deleted">>

VARIABLES
    fat,      \* the table: 0 is a free cluster
    ent,      \* directory entries, what lies in the clusters of no directory too
    disk,     \* bytes of the clusters that hold files
    fd,       \* the FileDescriptor of each task
    call,     \* the call each task is in, and its local variables
    wild,     \* a call has left the volume, in this way
    raced,    \* calls that allocate or create have overlapped
    stale,    \* a deleted entry was used again with the clusters it once had
    shared,   \* tasks to whose open file another task has written
    crossed   \* tasks that have written across the end of a cluster
fatVars == <<fat, ent, disk, fd, call, wild, raced, stale, shared, crossed>>

\* Fault: the first length is taken, whatever the second.
Smaller_First(a, b) == a

Smaller(a, b) == IF a <= b THEN a ELSE b

\* Clusters that hold so many bytes.
num_cluster(bytes) == (bytes + bytes_per_cluster - 1) \div bytes_per_cluster

\* The clusters from c on, as NextCluster leads through them.
LastOf(s) == s[Len(s)]
OneFurther(s) == IF s # <<>> /\ fat[LastOf(s)] \in Clusters THEN Append(s, fat[LastOf(s)]) ELSE s
Chain(c) ==
    LET walk[n \in 1..LastCluster] ==
            IF n > 1 THEN OneFurther(walk[n - 1])
            ELSE IF c \in Clusters THEN <<c>> ELSE <<>>
    IN  walk[LastCluster]

\* The entries of a directory in the order in which every search meets them, from
\* the clusters it has.
EntriesOn(chain) ==
    [k \in 1..(Len(chain) * entries_per_cluster) |->
        <<chain[(k - 1) \div entries_per_cluster + 1], (k - 1) % entries_per_cluster>>]

\* The first of these entries whose stored name is one of names, or none.
FirstOf(entries, names) ==
    LET ks == {k \in 1..Len(entries) : ent[entries[k]].name \in names}
    IN  IF ks = {} THEN NoEntry ELSE entries[CHOOSE k \in ks : \A j \in ks : k <= j]
FirstEntry(dir_cluster, names) == FirstOf(EntriesOn(Chain(dir_cluster)), names)

-----------------------------------------------------------------------------
(* What a volume holds, and when it is sound. *)

Elements(s) == {s[i] : i \in 1..Len(s)}
ChainSet(c) == Elements(Chain(c))

\* The entries of a directory that are in use, its links to itself and to its parent
\* apart, except in a cluster not cleared yet.
Uncleared == {call[t].current : t \in {u \in Task : call[u].op = "extend_dir" /\ call[u].need = 0}}
IsUsed(entry) == entry.name \notin {EndMark, Deleted} /\ ~(entry.dir /\ entry.name[1] = Dot)
InUse(dir_cluster) ==
    {e \in Elements(EntriesOn(Chain(dir_cluster))) : IsUsed(ent[e]) /\ e[1] \notin Uncleared}

\* The entries that are part of the file system: those of the root and of the
\* directories in it, MaxDepth directories deep.
EntriesIn(S) == UNION {InUse(ent[d].first) : d \in {e \in S : ent[e].dir}}
LiveTo ==
    LET live[n \in 0..MaxDepth] ==
            IF n = 0 THEN {} ELSE InUse(root_cluster) \cup EntriesIn(live[n - 1])
    IN  live
Live == LiveTo[MaxDepth]

\* Clusters of allocations under way: the chain a first write is making, and the
\* cluster linked last, which the table still shows as free.
Pending == UNION {ChainSet(call[t].first) : t \in {u \in Task : call[u].op = "extend"}}
Unmarked == {call[t].current : t \in {u \in Task : call[u].op \in {"extend", "extend_dir"}}}
Ends(clusters) == \E c \in clusters : fat[c] = kEndOfClusterchain \/ c \in Unmarked

\* chain gives the clusters of every entry, root those of the root directory, other
\* those of no entry yet.
SoundWith(chain, root, other) ==
    LET live == DOMAIN chain
    IN  /\ \A e, f \in live : e # f => chain[e] \cap chain[f] = {}
        /\ \A e \in live :
              /\ chain[e] \cap (root \cup other) = {}
              /\ ent[e].first # 0 => Ends(chain[e])
              /\ ent[e].size <= (IF ent[e].dir THEN 0 ELSE Cardinality(chain[e]) * bytes_per_cluster)
        /\ Ends(root) /\ root \cap other = {}
        /\ \A c \in Clusters : fat[c] # 0 => c \in root \cup other \cup UNION {chain[e] : e \in live}
Sound == SoundWith([e \in Live |-> ChainSet(ent[e].first)], ChainSet(root_cluster), Pending)

\* A volume as mkfs.fat and mtools make it.
IsVolume ==
    /\ fat \in [Clusters -> {0, kEndOfClusterchain} \cup Clusters]
    /\ DOMAIN ent = Slots
    /\ \A s \in Slots :
          /\ ent[s] = [name |-> ent[s].name, dir |-> ent[s].dir, first |-> ent[s].first,
                       size |-> ent[s].size]
          /\ ent[s].name \in {EndMark, Deleted} \/ Len(ent[s].name) = BaseLen + ExtLen
          /\ ent[s].dir \in BOOLEAN /\ ent[s].first \in {0} \cup Clusters /\ ent[s].size \in Nat
    /\ \A e \in Live : ent[e].dir /\ ent[e].first # 0 => e \in LiveTo[MaxDepth - 1]
    /\ Sound

-----------------------------------------------------------------------------
(* FindFile and the directory. *)

\* A path is a sequence of names; one that ends in a slash ends in the name <<>>.
IsLast(path, k) == k = Len(path) \/ (k = Len(path) - 1 /\ LastOf(path) = <<>>)

\* The entry of a directory with this name: the mark that ends the directory ends
\* the search.
UnlessEnd(e) == IF e # NoEntry /\ ent[e].name = EndMark THEN NoEntry ELSE e
Lookup(dir_cluster, name) == UnlessEnd(FirstEntry(dir_cluster, {EndMark, Name83(name)}))

\* One call of FindFile, which found e: it goes on in a directory, or it returns the
\* entry and post_slash.  A path that goes on after an entry that is no directory
\* leads to that entry.
FindNext(path, k, e) ==
    IF e # NoEntry /\ ent[e].dir /\ ~IsLast(path, k)
    THEN [dir |-> IF ent[e].first = 0 THEN root_cluster ELSE ent[e].first,
          entry |-> NoEntry, post_slash |-> FALSE]
    ELSE [dir |-> 0, entry |-> e, post_slash |-> k < Len(path)]
FindIn(f, path, k) == IF f.dir = 0 THEN f ELSE FindNext(path, k, Lookup(f.dir, path[k]))
FindFile(path) ==
    LET find[k \in 0..Len(path)] ==
            IF k = 0 THEN [dir |-> root_cluster, entry |-> NoEntry, post_slash |-> FALSE]
            ELSE FindIn(find[k - 1], path, k)
    IN  find[Len(path)]

\* The directory CreateFile puts a path into; 0 if it fails with kIsDirectory or
\* kNoSuchDirectory.
FirstCluster(e) == IF e = NoEntry THEN 0 ELSE ent[e].first
ParentDir(path) ==
    IF Len(path) = 1 THEN root_cluster
    ELSE IF LastOf(path) = <<>> THEN 0
    ELSE FirstCluster(FindFile(SubSeq(path, 1, Len(path) - 1)).entry)

-----------------------------------------------------------------------------
(* The calls. *)

NoCall == [op |-> "new", path |-> <<>>, len |-> 0, total |-> 0, need |-> 0,
           candidate |-> 0, first |-> 0, current |-> 0]
Idle(path) == [NoCall EXCEPT !.op = "idle", !.path = path]   \* the path that was opened
NewFd(e) == [entry |-> e, rd_off |-> 0, rd_cluster |-> 0, rd_cluster_off |-> 0,
             wr_off |-> 0, wr_cluster |-> 0, wr_cluster_off |-> 0]

FatInit ==
    /\ \E image \in Images : fat = image.fat /\ ent = image.ent
    /\ disk = [c \in Clusters |-> [o \in 0..(bytes_per_cluster - 1) |-> <<>>]]
    /\ fd = [t \in Task |-> NewFd(NoEntry)]
    /\ call = [t \in Task |-> NoCall]
    /\ wild = "no"
    /\ raced = FALSE /\ stale = FALSE
    /\ shared = {} /\ crossed = {}
    /\ IsVolume

Entry(t) == ent[fd[t].entry]
Sharing(t, e) == {u \in Task \ {t} : fd[u].entry = e}

\* The loops of AllocateClusterchain and ExtendCluster; creations of a file.
Allocating(t) == call[t].op \in {"alloc", "extend", "extend_dir"}
Creating(t) == call[t].op \in {"create", "extend_dir", "name"}
Writing(t) == call[t].op \in {"alloc", "extend", "write"}

\* The open system call, and a redirect of the shell, up to CreateFile: FindFile
\* returned f.
OpenFound(t, path, mode, f) ==
    LET refused == IF mode = "redirect" THEN ent[f.entry].dir \/ f.post_slash
                   ELSE ~ent[f.entry].dir /\ f.post_slash
    IN  \/ /\ f.entry = NoEntry
           /\ call' = [call EXCEPT ![t].op = IF mode = "read" THEN "failed" ELSE "create",
                                   ![t].path = path]
           /\ UNCHANGED <<fd, shared>>
        \/ /\ f.entry # NoEntry /\ refused
           /\ call' = [call EXCEPT ![t].op = "failed"]
           /\ UNCHANGED <<fd, shared>>
        \/ /\ f.entry # NoEntry /\ ~refused
           /\ call' = [call EXCEPT ![t] = Idle(path)]
           /\ fd' = [fd EXCEPT ![t] = NewFd(f.entry)]
           /\ shared' = IF \E u \in Sharing(t, f.entry) : Writing(u)
                        THEN shared \cup {t} ELSE shared
Open(t, path, mode) ==
    /\ call[t].op = "new"
    /\ OpenFound(t, path, mode, FindFile(path))
    /\ raced' = (raced \/ \E u \in Task \ {t} : Creating(u))
    /\ UNCHANGED <<fat, ent, disk, wild, stale, crossed>>

\* AllocateEntry takes the first entry e that is not in use, or a directory that is
\* full gets another cluster.
AllocateEntry(t, dir, e) ==
    \/ /\ e # NoEntry
       /\ call' = [call EXCEPT ![t].op = "name"]
       /\ fd' = [fd EXCEPT ![t].entry = e]
       /\ UNCHANGED raced
    \/ /\ e = NoEntry
       /\ call' = [call EXCEPT ![t].op = "extend_dir", ![t].need = 1,
                               ![t].candidate = 2, ![t].current = LastOf(Chain(dir))]
       /\ raced' = (raced \/ \E u \in Task \ {t} : Allocating(u))
       /\ UNCHANGED fd
CreateIn(t, dir) ==
    \/ /\ dir = 0
       /\ call' = [call EXCEPT ![t].op = "failed"]
       /\ UNCHANGED <<fd, raced>>
    \/ dir # 0 /\ AllocateEntry(t, dir, FirstEntry(dir, {EndMark, Deleted}))

\* CreateFile up to SetFileName.
CreateFile(t) ==
    /\ call[t].op = "create"
    /\ CreateIn(t, ParentDir(call[t].path))
    /\ UNCHANGED <<fat, ent, disk, wild, stale, shared, crossed>>

\* The rest of CreateFile: the new entry keeps the attribute and the clusters that
\* a deleted one had.
NameEntry(t) ==
    LET e == fd[t].entry
    IN  /\ call[t].op = "name"
        /\ ent' = [ent EXCEPT ![e].name = SetFileName(LastOf(call[t].path)),
                              ![e].size = 0]
        /\ call' = [call EXCEPT ![t] = Idle(call[t].path)]
        /\ stale' = (stale \/ ent[e].first # 0)
        /\ UNCHANGED <<fat, disk, fd, wild, raced, shared, crossed>>

-----------------------------------------------------------------------------
(* AllocateClusterchain and ExtendCluster. *)

Free(from) == {c \in from..LastCluster : c >= 2 /\ fat[c] = 0}
LeastOf(S) == CHOOSE c \in S : \A d \in S : c <= d

\* The search for a free cluster has no bound: with none left it runs out of the
\* table.
TableOverrun(t) ==
    /\ \/ call[t].op = "alloc" /\ Free(2) = {}
       \/ call[t].op \in {"extend", "extend_dir"} /\ call[t].need > 0
          /\ Free(call[t].candidate) = {}
    /\ wild' = "table"
    /\ UNCHANGED <<fat, ent, disk, fd, call, raced, stale, shared, crossed>>

\* Write has its cluster, and AllocateClusterchain returns the first one.
GotChain(t, c) ==
    /\ fd' = [fd EXCEPT ![t].wr_cluster = c]
    /\ ent' = [ent EXCEPT ![fd[t].entry].first = c]

\* The first cluster of AllocateClusterchain, which n of 0 gets too.
AllocateFirst(t) ==
    LET c == LeastOf(Free(2))
    IN  /\ call[t].op = "alloc" /\ Free(2) # {}
        /\ fat' = [fat EXCEPT ![c] = kEndOfClusterchain]
        /\ \/ /\ call[t].need <= 1
              /\ GotChain(t, c)
              /\ call' = [call EXCEPT ![t].op = "write"]
           \/ /\ call[t].need > 1
              /\ call' = [call EXCEPT ![t].op = "extend", ![t].need = @ - 1,
                                      ![t].candidate = 2, ![t].first = c, ![t].current = c]
              /\ UNCHANGED <<fd, ent>>
        /\ UNCHANGED <<disk, wild, raced, stale, shared, crossed>>

\* A turn of ExtendCluster: the next free cluster is linked, but not marked yet.
ExtendLink(t) ==
    LET c == LeastOf(Free(call[t].candidate))
    IN  /\ call[t].op \in {"extend", "extend_dir"} /\ call[t].need > 0
        /\ Free(call[t].candidate) # {}
        /\ fat' = [fat EXCEPT ![call[t].current] = c]
        /\ call' = [call EXCEPT ![t].current = c, ![t].candidate = c + 1, ![t].need = @ - 1]
        /\ UNCHANGED <<ent, disk, fd, wild, raced, stale, shared, crossed>>

\* Fault: the new cluster of a directory is not cleared.
Cleared_Not(c) == ent

\* The memset of AllocateEntry.
Cleared(c) ==
    [s \in Slots |-> IF s[1] # c THEN ent[s]
                     ELSE [name |-> EndMark, dir |-> FALSE, first |-> 0, size |-> 0]]

\* ExtendCluster marks the end and returns the last cluster: to AllocateEntry, which
\* clears it and takes its first entry, to AllocateClusterchain, or to Write.
ExtendEnd(t) ==
    LET c == call[t].current
    IN  /\ call[t].op \in {"extend", "extend_dir"} /\ call[t].need = 0
        /\ fat' = [fat EXCEPT ![c] = kEndOfClusterchain]
        /\ \/ /\ call[t].op = "extend_dir"
              /\ ent' = Cleared(c)
              /\ fd' = [fd EXCEPT ![t].entry = <<c, 0>>]
              /\ call' = [call EXCEPT ![t].op = "name"]
           \/ /\ call[t].op = "extend" /\ call[t].first # 0
              /\ GotChain(t, call[t].first)
              /\ call' = [call EXCEPT ![t].op = "write"]
           \/ /\ call[t].op = "extend" /\ call[t].first = 0
              /\ fd' = [fd EXCEPT ![t].wr_cluster = c, ![t].wr_cluster_off = 0]
              /\ call' = [call EXCEPT ![t].op = "write"]
              /\ UNCHANGED ent
        /\ UNCHANGED <<disk, wild, raced, stale, shared, crossed>>

-----------------------------------------------------------------------------
(* FileDescriptor::Write. *)

\* The cluster the next byte goes to, and the offset in it.
AtEnd(t) == fd[t].wr_cluster_off = bytes_per_cluster
WriteCluster(t) == IF AtEnd(t) THEN fat[fd[t].wr_cluster] ELSE fd[t].wr_cluster
\* Fault: a write begins at the start of its cluster, wherever the last one ended.
WriteOffset_Restarts(t) == IF AtEnd(t) \/ call[t].total = 0 THEN 0 ELSE fd[t].wr_cluster_off
WriteOffset(t) == IF AtEnd(t) THEN 0 ELSE fd[t].wr_cluster_off

\* A write of len bytes that one turn of the loop stores, or one that starts a file
\* with whole clusters.
Fits(t, len) ==
    \/ len <= bytes_per_cluster - (fd[t].wr_off % bytes_per_cluster)
    \/ Entry(t).first = 0 /\ len % bytes_per_cluster = 0

\* That nobody writes to a directory is left to the callers: open does not see to it.
BeginWrite(t, len) ==
    LET fresh == fd[t].wr_cluster = 0 /\ Entry(t).first = 0
    IN  /\ call[t].op = "idle" /\ ~Entry(t).dir
        /\ fd[t].rd_off + fd[t].wr_off + len <= MaxFileBytes
        /\ call' = [call EXCEPT ![t].op = IF fresh THEN "alloc" ELSE "write", ![t].len = len,
                                ![t].total = 0, ![t].need = num_cluster(len), ![t].first = 0]
        /\ fd' = IF fd[t].wr_cluster = 0
                 THEN [fd EXCEPT ![t].wr_cluster = Entry(t).first] ELSE fd
        /\ raced' = (raced \/ (fresh /\ \E u \in Task \ {t} : Allocating(u)))
        /\ shared' = shared \cup Sharing(t, fd[t].entry)
        /\ crossed' = IF Fits(t, len) THEN crossed ELSE crossed \cup {t}
        /\ UNCHANGED <<fat, ent, disk, wild, stale>>

\* The write has filled the last cluster.
WriteExtend(t) ==
    /\ call[t].op = "write" /\ call[t].total < call[t].len
    /\ AtEnd(t) /\ WriteCluster(t) = kEndOfClusterchain
    /\ call' = [call EXCEPT ![t].op = "extend", ![t].candidate = 2, ![t].first = 0,
                            ![t].need = num_cluster(call[t].len - call[t].total),
                            ![t].current = fd[t].wr_cluster]
    /\ raced' = (raced \/ \E u \in Task \ {t} : Allocating(u))
    /\ UNCHANGED <<fat, ent, disk, fd, wild, stale, shared, crossed>>

\* A turn of the loop.  It copies up to len bytes, not the len - total that are left:
\* what follows the buffer is copied too.  The n-th byte a task writes is <<t, n>>.
WriteTurn(t) ==
    LET a == call[t]
        c == WriteCluster(t)
        o == WriteOffset(t)
        n == Smaller(a.len, bytes_per_cluster - o)
        byte(k) == IF a.total + k < a.len THEN <<t, fd[t].wr_off + a.total + k>> ELSE <<>>
    IN  /\ a.op = "write" /\ a.total < a.len /\ c # kEndOfClusterchain
        /\ \/ /\ c \in Clusters
              /\ disk' = [disk EXCEPT ![c] =
                            [i \in DOMAIN @ |-> IF i \in o..(o + n - 1) THEN byte(i - o) ELSE @[i]]]
              /\ fd' = [fd EXCEPT ![t].wr_cluster = c, ![t].wr_cluster_off = o + n]
              /\ call' = [call EXCEPT ![t].total = @ + n]
              /\ UNCHANGED wild
           \/ /\ c \notin Clusters
              /\ wild' = "write"
              /\ UNCHANGED <<disk, fd, call>>
        /\ UNCHANGED <<fat, ent, raced, stale, shared, crossed>>

WriteEnd(t) ==
    /\ call[t].op = "write" /\ call[t].total >= call[t].len
    /\ fd' = [fd EXCEPT ![t].wr_off = @ + call[t].total]
    /\ ent' = [ent EXCEPT ![fd[t].entry].size = fd[t].wr_off + call[t].total]
    /\ call' = [call EXCEPT ![t] = Idle(call[t].path)]
    /\ UNCHANGED <<fat, disk, wild, raced, stale, shared, crossed>>

-----------------------------------------------------------------------------
(* FileDescriptor::Read. *)

\* file_size - rd_off_ is unsigned: if the file has become shorter than what was
\* read, it is no limit.
BeginRead(t, len) ==
    LET left == Entry(t).size - fd[t].rd_off
    IN  /\ call[t].op = "idle"
        /\ fd[t].rd_off + fd[t].wr_off + len <= MaxFileBytes
        /\ fd' = IF fd[t].rd_cluster = 0
                 THEN [fd EXCEPT ![t].rd_cluster = Entry(t).first] ELSE fd
        /\ call' = [call EXCEPT ![t].op = "read", ![t].total = 0,
                                ![t].len = IF left < 0 THEN len ELSE Smaller(len, left)]
        /\ UNCHANGED <<fat, ent, disk, wild, raced, stale, shared, crossed>>

\* A turn of the loop.
ReadTurn(t) ==
    LET a == call[t]
        c == fd[t].rd_cluster
        n == Smaller(a.len - a.total, bytes_per_cluster - fd[t].rd_cluster_off)
        o == fd[t].rd_cluster_off + n
    IN  /\ a.op = "read" /\ a.total < a.len
        /\ \/ /\ c \in Clusters
              /\ fd' = [fd EXCEPT
                          ![t].rd_cluster = IF o = bytes_per_cluster THEN fat[c] ELSE c,
                          ![t].rd_cluster_off = IF o = bytes_per_cluster THEN 0 ELSE o]
              /\ call' = [call EXCEPT ![t].total = @ + n]
              /\ UNCHANGED wild
           \/ /\ c \notin Clusters
              /\ wild' = "read"
              /\ UNCHANGED <<fd, call>>
        /\ UNCHANGED <<fat, ent, disk, raced, stale, shared, crossed>>

ReadEnd(t) ==
    /\ call[t].op = "read" /\ call[t].total >= call[t].len
    /\ fd' = [fd EXCEPT ![t].rd_off = @ + call[t].total]
    /\ call' = [call EXCEPT ![t] = Idle(call[t].path)]
    /\ UNCHANGED <<fat, ent, disk, wild, raced, stale, shared, crossed>>

\* Once a call has left the volume nothing is known about what follows.
FatNext ==
    /\ wild = "no"
    /\ \E t \in Task :
        \/ \E path \in Paths, mode \in {"read", "write", "redirect"} : Open(t, path, mode)
        \/ CreateFile(t)
        \/ NameEntry(t)
        \/ TableOverrun(t)
        \/ AllocateFirst(t)
        \/ ExtendLink(t)
        \/ ExtendEnd(t)
        \/ \E len \in Lens : BeginWrite(t, len)
        \/ WriteExtend(t)
        \/ WriteTurn(t)
        \/ WriteEnd(t)
        \/ \E len \in Lens : BeginRead(t, len)
        \/ ReadTurn(t)
        \/ ReadEnd(t)

FatSpec == FatInit /\ [][FatNext]_fatVars

-----------------------------------------------------------------------------
(* Properties. *)

Ops == {"new", "failed", "create", "name", "idle", "read", "write", "alloc", "extend",
        "extend_dir"}

\* Every variable holds a value of the type of the C++ variable it stands for; the
\* fields of a descriptor that hold a cluster hold one, 0 or the end of a chain.
FatTypeOK ==
    /\ fat \in [Clusters -> {0, kEndOfClusterchain} \cup Clusters]
    /\ ent = [s \in Slots |-> [name |-> ent[s].name, dir |-> ent[s].dir,
                               first |-> ent[s].first, size |-> ent[s].size]]
    /\ \A s \in Slots :
          /\ ent[s].name \in {EndMark, Deleted} \/ Len(ent[s].name) = BaseLen + ExtLen
          /\ ent[s].dir \in BOOLEAN /\ ent[s].first \in {0} \cup Clusters /\ ent[s].size \in Nat
    /\ DOMAIN disk = Clusters
    /\ \A c \in Clusters : DOMAIN disk[c] = 0..(bytes_per_cluster - 1)
    /\ fd \in [Task -> [entry : {NoEntry} \cup Slots,
                        rd_off : Nat, rd_cluster : 0..kEndOfClusterchain,
                        rd_cluster_off : 0..(bytes_per_cluster - 1),
                        wr_off : Nat, wr_cluster : 0..LastCluster,
                        wr_cluster_off : 0..bytes_per_cluster]]
    /\ call \in [Task -> [op : Ops, path : Paths \cup {<<>>}, len : Nat, total : Nat, need : Nat,
                          candidate : 0..kEndOfClusterchain, first : 0..LastCluster,
                          current : 0..LastCluster]]
    /\ wild \in {"no", "table", "write", "read"} /\ raced \in BOOLEAN /\ stale \in BOOLEAN
    /\ shared \subseteq Task /\ crossed \subseteq Task

Ordered == ~raced /\ ~stale

\* As long as no two allocations, and no creation and open, overlap, and no deleted
\* entry comes back with its clusters: no cluster is in two files, every chain ends,
\* no cluster is lost, and no file is longer than its clusters.
ChainsSound ==
    Ordered => Sound

\* The place of the p-th byte of a file.
ItemOr(s, k, none) == IF k <= Len(s) THEN s[k] ELSE none
ClusterAt(e, p) == ItemOr(Chain(ent[e].first), p \div bytes_per_cluster + 1, kEndOfClusterchain)

\* A file that one task alone writes, without crossing the end of a cluster in the
\* middle of a write, holds what was written, byte for byte and nothing else.
FileHoldsWhatWasWritten ==
    Ordered => \A t \in Task :
        (call[t].op = "idle" /\ t \notin shared \cup crossed /\ fd[t].wr_off > 0) =>
            /\ Entry(t).size = fd[t].wr_off
            /\ \A p \in 0..(fd[t].wr_off - 1) :
                  disk[ClusterAt(fd[t].entry, p)][p % bytes_per_cluster] = <<t, p>>

\* A reader of a file that nobody else writes meanwhile reads its bytes in order, and
\* never beyond the size.
ReadsInOrder ==
    Ordered => \A t \in Task :
        (call[t].op \in {"idle", "read"} /\ t \notin shared /\ fd[t].rd_cluster # 0
            /\ fd[t].wr_cluster = 0) =>
            LET p == fd[t].rd_off + call[t].total
            IN  /\ fd[t].rd_cluster = ClusterAt(fd[t].entry, p)
                /\ fd[t].rd_cluster_off = p % bytes_per_cluster
                /\ p <= Entry(t).size

\* A call leaves the volume only for these reasons: the volume is full, a writer has
\* filled the cluster that another one of the same file has linked and not marked yet,
\* a reader of a file that is also written, or disorder.
StaysInVolume ==
    Ordered =>
        /\ wild = "write" => \E t \in shared :
              call[t].op = "write" /\ AtEnd(t) /\ fd[t].wr_cluster \in Unmarked
        /\ wild = "table" => \A c \in Clusters : fat[c] # 0 \/ c \in Unmarked
        /\ wild = "read" => \E t \in Task : call[t].op = "read" /\ (t \in shared \/ fd[t].wr_cluster # 0)

\* As long as names are short, no creation and open overlap and no deleted entry comes
\* back with its clusters: a file that was opened or created under a path is the one
\* that path leads to from then on, whatever else is created in its directory.
AllShort == \A t \in Task : \A k \in 1..Len(call[t].path) : IsShort(call[t].path[k])
CreatedIsFound ==
    Ordered /\ AllShort => \A t \in Task :
        call[t].op \in {"idle", "read", "write", "alloc", "extend"} =>
            FindFile(call[t].path).entry = fd[t].entry

=============================================================================
