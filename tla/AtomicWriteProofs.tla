-------------------------- MODULE AtomicWriteProofs --------------------------
(***************************************************************************)
(* write_atomic with one writer at a time, for every file length, every    *)
(* number of calls and every set of inodes: the file is never torn, an     *)
(* acknowledged version is never lost, and the steps implement the durable *)
(* cell.  Any number of tasks may write the path, as long as no two calls  *)
(* overlap (`OneAtATime`): concurrent calls share the temporary name, and  *)
(* the run `atomic_write_two_writers` shows what follows from that.        *)
(***************************************************************************)
EXTENDS AtomicWrite, TLAPS

\* No two calls of write_atomic on this path overlap.
OneAtATime == \A v, w \in Writers : pc[v] # "idle" /\ pc[w] # "idle" => v = w

\* A directory image whose path entry, if any, leads to a whole file that is
\* the same in the page cache and on stable storage.
Settled(d) ==
    d.path # NoInode => /\ Whole(cache[d.path])
                        /\ disk[d.path] = cache[d.path]
                        /\ cache[d.path][1].ver <= writes

\* The temporary file is nobody's file.
TmpPrivate ==
    /\ dir.tmp # NoInode => dir.tmp \notin {dir.path, diskDir.path}
    /\ diskDir.tmp # NoInode => diskDir.tmp # diskDir.path

\* Both path entries still name versions older than the one being written.
Older(d) == d.path # NoInode => cache[d.path][1].ver < writes

\* What each step of write_atomic has achieved so far.
Progress(w) ==
    /\ pc[w] # "idle" => data[w] \in Data /\ data[w].ver = writes /\ writes > 0
    /\ pc[w] \in {"write", "sync", "rename"} =>
        dir.tmp \in Inodes /\ Older(dir) /\ Older(diskDir)
    /\ pc[w] \in {"write", "sync"} => fd[w] = dir.tmp
    /\ pc[w] = "write" => /\ pos[w] < data[w].len
                          /\ cache[dir.tmp] = Prefix(data[w], pos[w])
    /\ pc[w] \in {"sync", "rename"} => cache[dir.tmp] = Prefix(data[w], data[w].len)
    /\ pc[w] = "rename" => disk[dir.tmp] = cache[dir.tmp]
    /\ pc[w] = "syncdir" => dir.path \in Inodes /\ cache[dir.path][1] = data[w]

\* Acknowledged versions are found on both sides of a power loss.
AckedKept ==
    DirSyncReliable =>
        \A d \in {dir, diskDir} :
            acked > 0 => d.path # NoInode /\ cache[d.path][1].ver >= acked

IInv ==
    /\ TypeOK
    /\ Settled(dir) /\ Settled(diskDir)
    /\ TmpPrivate
    /\ \A w \in Writers : Progress(w)
    /\ AckedKept

-----------------------------------------------------------------------------

\* A file into which all blocks of one version have been written is whole.
LEMMA PrefixWhole ==
    ASSUME NEW d \in Data
    PROVE  /\ Prefix(d, d.len) \in Content
           /\ Prefix(d, d.len)[1] = d
           /\ Whole(Prefix(d, d.len))
<1>1. 1 \in Blocks /\ 1 <= d.len /\ d.len # 0
    BY AtomicWriteAssumption DEF Blocks, Data
<1>2. Prefix(d, d.len)[1] = d /\ d # NoData
    BY <1>1 DEF Prefix, NoData, Data
<1>3. Prefix(d, d.len) \in Content
    BY DEF Prefix, Content
<1> QED
    BY <1>2, <1>3 DEF Whole

\* Writing the next block extends the prefix by one.
LEMMA PrefixStep ==
    ASSUME NEW d \in Data, NEW n \in Nat, n < d.len
    PROVE  [Prefix(d, n) EXCEPT ![n + 1] = d] = Prefix(d, n + 1)
<1>1. n + 1 \in Blocks
    BY AtomicWriteAssumption DEF Blocks, Data
<1>2. \A b \in Blocks : b <= n + 1 <=> b <= n \/ b = n + 1
    BY AtomicWriteAssumption DEF Blocks
<1>3. \A b \in Blocks : [Prefix(d, n) EXCEPT ![n + 1] = d][b] = Prefix(d, n + 1)[b]
    BY <1>1, <1>2 DEF Prefix
<1> QED
    BY <1>3 DEF Prefix

LEMMA EmptyIsPrefix ==
    ASSUME NEW d
    PROVE  EmptyFile = Prefix(d, 0)
BY DEF EmptyFile, Prefix, Blocks

-----------------------------------------------------------------------------
(* Type correctness, for any number of writers.                            *)

LEMMA InitType == Init => TypeOK
BY AtomicWriteAssumption DEF Init, TypeOK, Content, EmptyFile

LEMMA OpenType == ASSUME TypeOK, NEW w \in Writers, Open(w) PROVE TypeOK'
<1>1. PICK i \in Inodes, n \in Blocks :
        /\ cache' = [cache EXCEPT ![i] = EmptyFile]
        /\ disk' = IF dir.tmp = NoInode THEN [disk EXCEPT ![i] = EmptyFile] ELSE disk
        /\ dir' = [dir EXCEPT !.tmp = i]
        /\ fd' = [fd EXCEPT ![w] = i]
        /\ data' = [data EXCEPT ![w] = [ver |-> writes + 1, len |-> n]]
    BY DEF Open
<1>2. EmptyFile \in Content
    BY DEF EmptyFile, Content
<1>3. [ver |-> writes + 1, len |-> n] \in Data
    BY DEF TypeOK, Data
<1> QED
    BY <1>1, <1>2, <1>3, AtomicWriteAssumption DEF Open, TypeOK

LEMMA WriteType == ASSUME TypeOK, NEW w \in Writers, Write(w) PROVE TypeOK'
<1>1. data[w] \in Data
    BY DEF TypeOK, Write, NoData, Data
<1>2. pos[w] + 1 \in Blocks /\ pos[w] + 1 \in 0..NumBlocks
    BY <1>1, AtomicWriteAssumption DEF TypeOK, Write, Data, Blocks
<1>3. \A i \in Inodes : [cache[i] EXCEPT ![pos[w] + 1] = data[w]] \in Content
    BY <1>1, <1>2 DEF TypeOK, Content
<1>4. cache' \in [Inodes -> Content]
    BY <1>3 DEF TypeOK, Write
<1> QED
    BY <1>2, <1>4 DEF TypeOK, Write

LEMMA WritebackType ==
    ASSUME TypeOK, NEW i \in Inodes, NEW b \in Blocks, WritebackBlock(i, b)
    PROVE  TypeOK'
<1>1. [disk[i] EXCEPT ![b] = cache[i][b]] \in Content
    BY DEF TypeOK, Content
<1> QED
    BY <1>1 DEF TypeOK, WritebackBlock

LEMMA NextType == TypeOK /\ [Next]_vars => TypeOK'
<1> SUFFICES ASSUME TypeOK, [Next]_vars PROVE TypeOK'
    OBVIOUS
<1>1. ASSUME NEW w \in Writers, Sync(w) PROVE TypeOK'
    BY <1>1 DEF TypeOK, Sync
<1>2. ASSUME NEW w \in Writers, Rename(w) PROVE TypeOK'
    BY <1>2 DEF TypeOK, Rename
<1>3. ASSUME NEW w \in Writers, SyncDir(w) PROVE TypeOK'
    <2>1. diskDir' \in {dir, diskDir}
        BY <1>3 DEF SyncDir
    <2>2. acked' \in Nat
        BY <1>3 DEF SyncDir, TypeOK, Data, NoData
    <2> QED
        BY <1>3, <2>1, <2>2 DEF TypeOK, SyncDir
<1>4. ASSUME NEW w \in Writers, Fail(w) PROVE TypeOK'
    BY <1>4 DEF TypeOK, Fail
<1>5. CASE WritebackDir
    BY <1>5 DEF TypeOK, WritebackDir
<1>6. CASE ProcessExit
    BY <1>6 DEF TypeOK, ProcessExit, AllIdle
<1>7. CASE PowerLoss
    BY <1>7 DEF TypeOK, PowerLoss, AllIdle
<1>8. CASE UNCHANGED vars
    BY <1>8 DEF TypeOK, vars
<1> QED
    BY <1>1, <1>2, <1>3, <1>4, <1>5, <1>6, <1>7, <1>8,
       OpenType, WriteType, WritebackType DEF Next, WriteAtomic

\* The state of the file system and of every call of write_atomic stays well
\* formed, whatever the number of writers.
THEOREM TypeCorrect == Spec => []TypeOK
BY InitType, NextType, PTL DEF Spec

-----------------------------------------------------------------------------
(* The inductive invariant, for calls that do not overlap.                 *)

LEMMA InitInv == Init => IInv
<1> SUFFICES ASSUME Init PROVE IInv
    OBVIOUS
<1>1. TypeOK
    BY InitType
<1>2. Settled(dir) /\ Settled(diskDir) /\ TmpPrivate /\ AckedKept
    BY DEF Init, Settled, TmpPrivate, AckedKept
<1>3. \A w \in Writers : Progress(w)
    BY DEF Init, Progress
<1> QED
    BY <1>1, <1>2, <1>3 DEF IInv

\* The writer at work leaves the others idle.
LEMMA TakesTurns ==
    ASSUME TypeOK, OneAtATime, OneAtATime', NEW w \in Writers, WriteAtomic(w)
    PROVE  \A v \in Writers \ {w} : pc'[v] = "idle"
<1>1. CASE Open(w)
    <2>1. pc'[w] = "write"
        BY <1>1 DEF Open, TypeOK
    <2> QED
        BY <2>1 DEF OneAtATime
<1>2. CASE Write(w) \/ Sync(w) \/ Rename(w) \/ SyncDir(w) \/ Fail(w)
    <2>1. pc[w] # "idle" /\ \A v \in Writers \ {w} : pc'[v] = pc[v]
        BY <1>2 DEF Write, Sync, Rename, SyncDir, Fail, TypeOK
    <2> QED
        BY <2>1 DEF OneAtATime
<1> QED
    BY <1>1, <1>2 DEF WriteAtomic

\* An idle writer has promised nothing.
LEMMA OthersIdle ==
    ASSUME NEW w \in Writers, \A v \in Writers \ {w} : pc'[v] = "idle", Progress(w)'
    PROVE  \A v \in Writers : Progress(v)'
BY DEF Progress

LEMMA OpenInv ==
    ASSUME IInv, NEW w \in Writers, \A v \in Writers \ {w} : pc'[v] = "idle", Open(w)
    PROVE  IInv'
<1>1. PICK i \in Inodes, n \in Blocks :
        /\ IF dir.tmp = NoInode THEN Free(i) ELSE i = dir.tmp
        /\ cache' = [cache EXCEPT ![i] = EmptyFile]
        /\ disk' = IF dir.tmp = NoInode THEN [disk EXCEPT ![i] = EmptyFile] ELSE disk
        /\ dir' = [dir EXCEPT !.tmp = i]
        /\ fd' = [fd EXCEPT ![w] = i]
        /\ data' = [data EXCEPT ![w] = [ver |-> writes + 1, len |-> n]]
    BY DEF Open
<1>2. TypeOK /\ TypeOK' /\ writes \in Nat /\ writes' = writes + 1
    BY OpenType DEF IInv, TypeOK, Open
<1>3. i \notin {dir.path, diskDir.path} /\ i # NoInode
    BY <1>1, AtomicWriteAssumption DEF IInv, TmpPrivate, Free
<1>4. dir'.path = dir.path /\ dir'.tmp = i /\ diskDir' = diskDir
    BY <1>1, <1>2 DEF TypeOK, Open
<1>5. \A j \in {dir.path, diskDir.path} :
        j # NoInode => cache'[j] = cache[j] /\ disk'[j] = disk[j] /\ cache[j][1].ver \in Nat
    <2> TAKE j \in {dir.path, diskDir.path}
    <2> HAVE j # NoInode
    <2>1. j \in Inodes /\ j # i
        BY <1>2, <1>3 DEF TypeOK
    <2>2. cache[j] \in Content
        BY <1>2, <2>1 DEF TypeOK
    <2>3. cache[j][1] \in Data \cup {NoData}
        BY <2>2, AtomicWriteAssumption DEF Content, Blocks
    <2> QED
        BY <1>1, <1>2, <2>1, <2>3 DEF TypeOK, Data, NoData
<1>6. Settled(dir)' /\ Settled(diskDir)'
    BY <1>2, <1>4, <1>5 DEF IInv, Settled
<1>7. TmpPrivate'
    BY <1>3, <1>4 DEF IInv, TmpPrivate
<1>8. Older(dir)' /\ Older(diskDir)'
    BY <1>2, <1>4, <1>5 DEF IInv, Settled, Older
<1>9. Progress(w)'
    <2>1. data'[w] = [ver |-> writes + 1, len |-> n] /\ data'[w] \in Data
        BY <1>1, <1>2 DEF TypeOK, Data
    <2>2. pc'[w] = "write" /\ pos'[w] = 0 /\ fd'[w] = i
        BY <1>1, <1>2 DEF TypeOK, Open
    <2>3. cache'[i] = Prefix(data'[w], 0)
        BY <1>1, <1>2, EmptyIsPrefix DEF TypeOK
    <2>4. 0 < data'[w].len
        BY <2>1, AtomicWriteAssumption DEF Blocks
    <2> QED
        BY <1>2, <1>4, <1>8, <2>1, <2>2, <2>3, <2>4 DEF Progress
<1>10. AckedKept'
    <2>1. acked' = acked /\ AckedKept
        BY DEF IInv, Open
    <2> QED
        BY <1>4, <1>5, <2>1 DEF AckedKept
<1> QED
    BY <1>2, <1>6, <1>7, <1>9, <1>10, OthersIdle DEF IInv

LEMMA WriteInv ==
    ASSUME IInv, NEW w \in Writers, \A v \in Writers \ {w} : pc'[v] = "idle", Write(w)
    PROVE  IInv'
<1>1. TypeOK /\ TypeOK'
    BY WriteType DEF IInv
<1>2. /\ pc[w] = "write" /\ fd[w] = dir.tmp /\ dir.tmp \in Inodes
      /\ data[w] \in Data /\ data[w].ver = writes /\ writes > 0
      /\ Older(dir) /\ Older(diskDir)
      /\ cache[dir.tmp] = Prefix(data[w], pos[w]) /\ pos[w] < data[w].len
    BY DEF Write, IInv, Progress
<1>3. pos[w] \in Nat /\ data[w].len \in Nat
    BY <1>1, <1>2 DEF TypeOK, Data, Blocks
<1>4. cache' = [cache EXCEPT ![dir.tmp] = Prefix(data[w], pos[w] + 1)]
    <2>1. [cache[dir.tmp] EXCEPT ![pos[w] + 1] = data[w]] = Prefix(data[w], pos[w] + 1)
        BY <1>2, <1>3, PrefixStep
    <2> QED
        BY <1>2, <2>1 DEF Write
<1>5. \A j \in {dir.path, diskDir.path} : j # NoInode => cache'[j] = cache[j]
    BY <1>1, <1>2, <1>4, AtomicWriteAssumption DEF IInv, TmpPrivate, TypeOK
<1>6. UNCHANGED <<disk, dir, diskDir, fd, data, writes, acked>>
    BY DEF Write
<1>7. Settled(dir)' /\ Settled(diskDir)' /\ TmpPrivate' /\ AckedKept'
    BY <1>5, <1>6 DEF IInv, Settled, TmpPrivate, AckedKept
<1>8. Older(dir)' /\ Older(diskDir)'
    BY <1>2, <1>5, <1>6 DEF Older
<1>9. Progress(w)'
    <2>1. cache'[dir.tmp] = Prefix(data[w], pos[w] + 1) /\ pos'[w] = pos[w] + 1
        BY <1>1, <1>2, <1>4 DEF TypeOK, Write
    <2>2. pc'[w] = IF pos[w] + 1 = data[w].len THEN "sync" ELSE "write"
        BY <1>1 DEF TypeOK, Write
    <2> QED
        BY <1>2, <1>3, <1>6, <1>8, <2>1, <2>2 DEF Progress
<1> QED
    BY <1>1, <1>7, <1>9, OthersIdle DEF IInv

LEMMA SyncInv ==
    ASSUME IInv, NEW w \in Writers, \A v \in Writers \ {w} : pc'[v] = "idle", Sync(w)
    PROVE  IInv'
<1>1. TypeOK /\ TypeOK'
    BY NextType DEF IInv, Next, WriteAtomic
<1>2. /\ pc[w] = "sync" /\ fd[w] = dir.tmp /\ dir.tmp \in Inodes
      /\ Older(dir) /\ Older(diskDir)
      /\ UNCHANGED <<cache, dir, diskDir, data, pos, writes, acked>>
    BY DEF Sync, IInv, Progress
<1>3. disk' = [disk EXCEPT ![dir.tmp] = cache[dir.tmp]]
    BY <1>2 DEF Sync
<1>4. Settled(dir)' /\ Settled(diskDir)' /\ TmpPrivate' /\ AckedKept'
    BY <1>1, <1>2, <1>3 DEF IInv, Settled, TmpPrivate, AckedKept, TypeOK
<1>5. Older(dir)' /\ Older(diskDir)'
    BY <1>2 DEF Older
<1>6. pc'[w] = "rename" /\ disk'[dir.tmp] = cache[dir.tmp]
    BY <1>1, <1>2, <1>3 DEF Sync, TypeOK
<1>7. Progress(w)'
    BY <1>2, <1>5, <1>6 DEF IInv, Progress
<1> QED
    BY <1>1, <1>4, <1>7, OthersIdle DEF IInv

LEMMA RenameInv ==
    ASSUME IInv, NEW w \in Writers, \A v \in Writers \ {w} : pc'[v] = "idle", Rename(w)
    PROVE  IInv'
<1>1. TypeOK /\ TypeOK'
    BY NextType DEF IInv, Next, WriteAtomic
<1>2. /\ pc[w] = "rename" /\ dir.tmp \in Inodes /\ dir.tmp # NoInode
      /\ data[w] \in Data /\ data[w].ver = writes /\ writes > 0
      /\ Older(dir) /\ Older(diskDir)
      /\ disk[dir.tmp] = cache[dir.tmp]
      /\ cache[dir.tmp] = Prefix(data[w], data[w].len)
      /\ UNCHANGED <<cache, disk, diskDir, data, writes, acked>>
    BY AtomicWriteAssumption DEF Rename, IInv, Progress
<1>3. dir'.path = dir.tmp /\ dir'.tmp = NoInode /\ pc'[w] = "syncdir"
    BY <1>1 DEF Rename, TypeOK
<1>4. cache[dir.tmp][1] = data[w] /\ Whole(cache[dir.tmp]) /\ writes \in Nat /\ acked \in Nat
    BY <1>1, <1>2, PrefixWhole DEF TypeOK
<1>5. Settled(dir)' /\ Settled(diskDir)' /\ TmpPrivate'
    BY <1>2, <1>3, <1>4 DEF IInv, Settled, TmpPrivate, Whole
<1>6. Progress(w)'
    BY <1>2, <1>3, <1>4 DEF Progress
<1>7. AckedKept'
    <2>1. DirSyncReliable /\ acked > 0 => writes >= acked
        <3>1. SUFFICES ASSUME DirSyncReliable, acked > 0 PROVE writes >= acked
            OBVIOUS
        <3>2. dir.path # NoInode /\ cache[dir.path][1].ver >= acked
            BY <3>1 DEF IInv, AckedKept
        <3>3. cache[dir.path] \in Content
            BY <1>1, <3>2 DEF TypeOK
        <3>4. cache[dir.path][1].ver \in Nat
            BY <3>3, AtomicWriteAssumption DEF Content, Blocks, Data, NoData
        <3> QED
            BY <1>2, <1>4, <3>2, <3>4 DEF Older
    <2> QED
        BY <1>2, <1>3, <1>4, <2>1 DEF IInv, AckedKept
<1> QED
    BY <1>1, <1>5, <1>6, <1>7, OthersIdle DEF IInv

LEMMA SyncDirInv ==
    ASSUME IInv, NEW w \in Writers, \A v \in Writers \ {w} : pc'[v] = "idle", SyncDir(w)
    PROVE  IInv'
<1>1. TypeOK /\ TypeOK'
    BY NextType DEF IInv, Next, WriteAtomic
<1>2. /\ pc[w] = "syncdir" /\ data[w].ver = writes
      /\ dir.path \in Inodes /\ cache[dir.path][1] = data[w]
      /\ acked' = writes /\ dir.path # NoInode
      /\ diskDir' \in {dir, diskDir} /\ (DirSyncReliable => diskDir' = dir)
      /\ UNCHANGED <<cache, disk, dir, fd, data, writes>>
    BY AtomicWriteAssumption DEF SyncDir, IInv, Progress
<1>3. Settled(dir)' /\ Settled(diskDir)' /\ TmpPrivate'
    BY <1>2 DEF IInv, Settled, TmpPrivate
<1>4. pc'[w] = "idle" /\ writes \in Nat
    BY <1>1 DEF SyncDir, TypeOK
<1>5. Progress(w)'
    BY <1>4 DEF Progress
<1>6. AckedKept'
    BY <1>2, <1>4 DEF AckedKept
<1> QED
    BY <1>1, <1>3, <1>5, <1>6, OthersIdle DEF IInv

\* A call that gives up, a process that exits: nothing but the call is gone.
LEMMA QuietInv ==
    ASSUME IInv, TypeOK',
           UNCHANGED <<cache, disk, dir, diskDir, writes, acked>>,
           \A w \in Writers : pc'[w] = "idle"
    PROVE  IInv'
<1>1. Settled(dir)' /\ Settled(diskDir)' /\ TmpPrivate' /\ AckedKept'
    BY DEF IInv, Settled, TmpPrivate, AckedKept
<1>2. \A w \in Writers : Progress(w)'
    BY DEF Progress
<1> QED
    BY <1>1, <1>2 DEF IInv

LEMMA WritebackBlockInv ==
    ASSUME IInv, NEW i \in Inodes, NEW b \in Blocks, WritebackBlock(i, b)
    PROVE  IInv'
<1>1. TypeOK /\ TypeOK'
    BY WritebackType DEF IInv
<1>2. disk' = [disk EXCEPT ![i][b] = cache[i][b]]
      /\ UNCHANGED <<cache, dir, diskDir, pc, fd, data, pos, writes, acked>>
    BY DEF WritebackBlock
\* Where cache and disk agree, write-back changes nothing.
<1>3. \A j \in Inodes : disk[j] = cache[j] => disk'[j] = disk[j]
    <2> SUFFICES ASSUME disk[i] = cache[i] PROVE disk'[i] = disk[i]
        BY <1>1, <1>2 DEF TypeOK
    <2>1. disk[i] \in Content /\ disk'[i] = [disk[i] EXCEPT ![b] = disk[i][b]]
        BY <1>1, <1>2 DEF TypeOK
    <2> QED
        BY <2>1 DEF Content
<1>4. Settled(dir)' /\ Settled(diskDir)'
    BY <1>1, <1>2, <1>3 DEF IInv, Settled, TypeOK
<1>5. TmpPrivate' /\ AckedKept'
    BY <1>2 DEF IInv, TmpPrivate, AckedKept
<1>6. ASSUME NEW w \in Writers PROVE Progress(w)'
    BY <1>1, <1>2, <1>3 DEF IInv, Progress, Older
<1> QED
    BY <1>1, <1>4, <1>5, <1>6 DEF IInv

LEMMA WritebackDirInv ==
    ASSUME IInv, WritebackDir
    PROVE  IInv'
<1>1. TypeOK'
    BY NextType DEF IInv, Next
<1>2. diskDir' = dir /\ UNCHANGED <<cache, disk, dir, pc, fd, data, pos, writes, acked>>
    BY DEF WritebackDir
<1>3. Settled(dir)' /\ Settled(diskDir)' /\ TmpPrivate' /\ AckedKept'
    BY <1>2 DEF IInv, Settled, TmpPrivate, AckedKept
<1>4. \A w \in Writers : Progress(w)'
    BY <1>2 DEF IInv, Progress, Older
<1> QED
    BY <1>1, <1>3, <1>4 DEF IInv

LEMMA PowerLossInv ==
    ASSUME IInv, PowerLoss
    PROVE  IInv'
<1>1. TypeOK'
    BY NextType DEF IInv, Next
<1>2. cache' = disk /\ dir' = diskDir /\ UNCHANGED <<disk, diskDir, writes, acked>>
    BY DEF PowerLoss
<1>3. Settled(dir)' /\ Settled(diskDir)' /\ TmpPrivate'
    BY <1>2 DEF IInv, Settled, TmpPrivate
<1>4. AckedKept'
    BY <1>2 DEF IInv, AckedKept, Settled
<1>5. \A w \in Writers : Progress(w)'
    BY DEF PowerLoss, AllIdle, Progress
<1> QED
    BY <1>1, <1>3, <1>4, <1>5 DEF IInv

LEMMA NextInv ==
    ASSUME OneAtATime, OneAtATime', IInv, [Next]_vars
    PROVE  IInv'
<1>1. TypeOK /\ TypeOK'
    BY NextType DEF IInv
<1>2. ASSUME NEW w \in Writers, WriteAtomic(w) PROVE IInv'
    <2>1. \A v \in Writers \ {w} : pc'[v] = "idle"
        BY <1>1, <1>2, TakesTurns
    <2>2. CASE Fail(w)
        <3>1. pc'[w] = "idle"
            BY <1>1, <2>2 DEF Fail, TypeOK
        <3> QED
            BY <1>1, <2>1, <2>2, <3>1, QuietInv DEF Fail
    <2> QED
        BY <1>2, <2>1, <2>2, OpenInv, WriteInv, SyncInv, RenameInv, SyncDirInv DEF WriteAtomic
<1>3. CASE ProcessExit
    BY <1>1, <1>3, QuietInv DEF ProcessExit, AllIdle
<1>4. CASE UNCHANGED vars
    BY <1>1, <1>4 DEF vars, IInv, Settled, TmpPrivate, Progress, Older, AckedKept
<1> QED
    BY <1>2, <1>3, <1>4, WritebackBlockInv, WritebackDirInv, PowerLossInv DEF Next

LEMMA InvCorrect == Spec /\ []OneAtATime => []IInv
<1>1. OneAtATime /\ OneAtATime' /\ IInv /\ [Next]_vars => IInv'
    BY NextInv
<1> QED
    BY <1>1, InitInv, PTL DEF Spec

-----------------------------------------------------------------------------
(* The promises of write_atomic.                                           *)

\* Atomicity.  When no two calls on the path overlap, neither a reader nor a
\* power loss ever finds a partly written file, whether or not the directory
\* fsync works.
THEOREM Atomicity == Spec /\ []OneAtATime => []NeverTorn
<1>1. IInv => NeverTorn
    BY DEF IInv, Settled, NeverTorn
<1> QED
    BY <1>1, InvCorrect, PTL

LEMMA VersionOfSettled ==
    ASSUME IInv, NEW d \in {dir, diskDir}
    PROVE  /\ VersionAt(d.path, cache) = VersionAt(d.path, disk)
           /\ VersionAt(d.path, cache) = IF d.path = NoInode THEN 0 ELSE cache[d.path][1].ver
           /\ VersionAt(d.path, cache) \in Nat
<1>1. d.path # NoInode => cache[d.path] \in Content
    BY DEF IInv, TypeOK
<1>2. d.path # NoInode => cache[d.path][1].ver \in Nat
    BY <1>1, AtomicWriteAssumption DEF Content, Blocks, Data, NoData
<1> QED
    BY <1>2 DEF IInv, Settled, VersionAt

\* Durability.  When no two calls on the path overlap and the directory fsync
\* works, a version whose write returned Ok is never lost again.
THEOREM Durability == ASSUME DirSyncReliable PROVE Spec /\ []OneAtATime => []NoRollback
<1>1. IInv => NoRollback
    <2> SUFFICES ASSUME IInv PROVE NoRollback
        OBVIOUS
    <2>1. acked \in Nat
        BY DEF IInv, TypeOK
    <2> QED
        BY <2>1, VersionOfSettled DEF NoRollback, IInv, AckedKept
<1> QED
    BY <1>1, InvCorrect, PTL

-----------------------------------------------------------------------------
(* Refinement: every step is a step of the durable cell, or none at all.   *)

\* What a reader sees and what a power loss would leave behind.
Vis == VersionAt(dir.path, cache)
Dur == VersionAt(diskDir.path, disk)
Named(d) == IF d.path = NoInode THEN 0 ELSE cache[d.path][1].ver

VersionsAsNamed == Vis = Named(dir) /\ Dur = Named(diskDir)

LEMMA VersionsNamed == IInv => VersionsAsNamed
BY VersionOfSettled DEF VersionsAsNamed, Vis, Dur, Named

LEMMA VersionsNamedNext == IInv' => VersionsAsNamed'
BY VersionsNamed, PTL

\* A step that leaves both path entries and the files behind them alone
\* changes nothing that the cell can see.
LEMMA SamePath ==
    ASSUME IInv, IInv', dir'.path = dir.path, diskDir'.path = diskDir.path,
           \A j \in {dir.path, diskDir.path} : j # NoInode => cache'[j] = cache[j]
    PROVE  UNCHANGED <<Vis, Dur>>
<1>1. Named(dir)' = Named(dir) /\ Named(diskDir)' = Named(diskDir)
    BY DEF Named
<1> QED
    BY <1>1, VersionsNamed, VersionsNamedNext DEF VersionsAsNamed

LEMMA RenameReplaces ==
    ASSUME IInv, IInv', NEW w \in Writers, Rename(w)
    PROVE  Vis' \in Nat /\ Vis' > Vis /\ Vis' > Dur /\ UNCHANGED <<Dur, acked>>
<1>1. /\ dir.tmp \in Inodes /\ dir.tmp # NoInode
      /\ dir' = [path |-> dir.tmp, tmp |-> NoInode]
      /\ data[w] \in Data /\ data[w].ver = writes /\ writes > 0 /\ writes \in Nat
      /\ cache[dir.tmp] = Prefix(data[w], data[w].len)
      /\ UNCHANGED <<cache, disk, diskDir, acked>>
      /\ Older(dir) /\ Older(diskDir)
    BY AtomicWriteAssumption DEF Rename, IInv, Progress, TypeOK
<1>2. Named(dir)' = writes
    BY <1>1, PrefixWhole DEF Named
<1>3. Named(dir) < writes /\ Named(diskDir) < writes
    BY <1>1 DEF Named, Older
<1>4. Named(diskDir)' = Named(diskDir)
    BY <1>1 DEF Named
<1> QED
    BY <1>1, <1>2, <1>3, <1>4, VersionsNamed, VersionsNamedNext DEF VersionsAsNamed

LEMMA OpenInvisible ==
    ASSUME IInv, IInv', NEW w \in Writers, Open(w)
    PROVE  UNCHANGED <<Vis, Dur, acked>>
<1>1. PICK i \in Inodes :
        /\ IF dir.tmp = NoInode THEN Free(i) ELSE i = dir.tmp
        /\ cache' = [cache EXCEPT ![i] = EmptyFile]
        /\ dir' = [dir EXCEPT !.tmp = i]
    BY DEF Open
<1>2. i \notin {dir.path, diskDir.path}
    BY <1>1, AtomicWriteAssumption DEF IInv, TmpPrivate, Free
<1>3. dir'.path = dir.path /\ diskDir'.path = diskDir.path /\ acked' = acked
    BY <1>1 DEF IInv, TypeOK, Open
<1>4. \A j \in {dir.path, diskDir.path} : j # NoInode => cache'[j] = cache[j]
    BY <1>1, <1>2 DEF IInv, TypeOK
<1> QED
    BY <1>3, <1>4, SamePath

LEMMA WriteInvisible ==
    ASSUME IInv, IInv', NEW w \in Writers, Write(w)
    PROVE  UNCHANGED <<Vis, Dur, acked>>
<1>1. fd[w] = dir.tmp /\ dir.tmp \in Inodes
    BY DEF Write, IInv, Progress
<1>2. \A j \in {dir.path, diskDir.path} : j # NoInode => cache'[j] = cache[j]
    BY <1>1, AtomicWriteAssumption DEF IInv, TypeOK, TmpPrivate, Write
<1>3. UNCHANGED <<dir, diskDir, acked>>
    BY DEF Write
<1> QED
    BY <1>2, <1>3, SamePath

LEMMA StepRefines ==
    ASSUME DirSyncReliable, IInv, IInv', [Next]_vars
    PROVE  Cell!Next \/ UNCHANGED Cell!cell
<1> USE DEF Cell!cell, Cell!Next
<1>0. UNCHANGED <<Vis, Dur, acked>> => UNCHANGED Cell!cell
    BY DEF Vis, Dur
<1>2. ASSUME NEW w \in Writers, Open(w) PROVE UNCHANGED Cell!cell
    BY <1>0, <1>2, OpenInvisible
<1>3. ASSUME NEW w \in Writers, Write(w) PROVE UNCHANGED Cell!cell
    BY <1>0, <1>3, WriteInvisible
<1>4. ASSUME NEW w \in Writers, Rename(w) PROVE Cell!Replace
    BY <1>4, RenameReplaces DEF Cell!Replace, Vis, Dur
<1>5. ASSUME NEW w \in Writers, SyncDir(w) PROVE Cell!Acknowledge
    <2>1. /\ UNCHANGED <<cache, disk, dir>> /\ diskDir' = dir
          /\ acked' = writes /\ dir.path \in Inodes /\ cache[dir.path][1].ver = writes
        BY <1>5 DEF SyncDir, IInv, Progress
    <2>2. Named(dir)' = Named(dir) /\ Named(diskDir)' = Named(dir) /\ acked' = Named(dir)
        BY <2>1, AtomicWriteAssumption DEF Named
    <2>3. Vis' = Vis /\ Dur' = Vis /\ acked' = Vis
        BY <2>2, VersionsNamed, VersionsNamedNext DEF VersionsAsNamed
    <2> QED
        BY <2>3 DEF Cell!Acknowledge, Vis, Dur
<1>6. CASE WritebackDir
    <2>1. UNCHANGED <<cache, dir, acked>> /\ diskDir' = dir
        BY <1>6 DEF WritebackDir
    <2>2. Named(dir)' = Named(dir) /\ Named(diskDir)' = Named(dir)
        BY <2>1 DEF Named
    <2> QED
        BY <2>1, <2>2, VersionsNamed, VersionsNamedNext DEF VersionsAsNamed, Cell!Persist, Vis, Dur
<1>7. CASE PowerLoss
    BY <1>7 DEF PowerLoss, Cell!PowerLoss, Vis, Dur, VersionAt
<1>8. CASE \/ \E w \in Writers : Sync(w) \/ Fail(w)
           \/ ProcessExit \/ UNCHANGED vars
           \/ \E i \in Inodes, b \in Blocks : WritebackBlock(i, b)
    <2>1. UNCHANGED <<cache, dir, diskDir, acked>>
        BY <1>8 DEF Sync, Fail, ProcessExit, vars, WritebackBlock
    <2> QED
        BY <1>0, <2>1, SamePath
<1> QED
    BY <1>2, <1>3, <1>4, <1>5, <1>6, <1>7, <1>8 DEF Next, WriteAtomic

\* Refinement.  When no two calls on the path overlap and the directory fsync
\* works, write_atomic and the kernel's write-back implement the durable
\* cell, for any number of tasks: the other modules model a call of
\* write_atomic as one step on a cell for this reason.
THEOREM Refinement == ASSUME DirSyncReliable PROVE Spec /\ []OneAtATime => ImplementsCell
<1>1. Init => Cell!Init
    BY DEF Init, Cell!Init, VersionAt
<1>2. IInv /\ IInv' /\ [Next]_vars => [Cell!Next]_(Cell!cell)
    BY StepRefines
<1> QED
    BY <1>1, <1>2, InvCorrect, PTL DEF Spec, Cell!Spec, ImplementsCell
=============================================================================
