----------------------------- MODULE AtomicWrite -----------------------------
(***************************************************************************)
(* est.rs::write_atomic on one path: every file of the node identity, of   *)
(* the node intent and of the kubelet join material is written through it. *)
(*                                                                         *)
(* The page cache and the stable image of the file system are modelled     *)
(* separately, so that a power loss can keep any mixture of blocks and     *)
(* directory entries that was not explicitly synced.  A file is a sequence *)
(* of blocks; a block remembers the version it belongs to and that         *)
(* version's length, so that a torn or mixed file can be told from a whole *)
(* one.  The temporary name is derived from the path alone (`.name.tmp`):  *)
(* two concurrent writers of one path share it.                            *)
(***************************************************************************)
EXTENDS Integers

CONSTANTS
    Writers,          \* threads that may call write_atomic on this path
    Inodes,           \* inodes of the file system (finite: a bound)
    NoInode,          \* an absent directory entry, a closed descriptor
    NumBlocks,        \* longest file, in blocks (bound)
    MaxWrites,        \* number of calls of write_atomic (bound)
    DirSyncReliable   \* does fsync of the parent directory always succeed?

ASSUME AtomicWriteAssumption ==
    /\ NoInode \notin Inodes
    /\ NumBlocks \in Nat \ {0}
    /\ MaxWrites \in Nat
    /\ DirSyncReliable \in BOOLEAN

VARIABLES
    cache,      \* inode -> blocks, as read and written by processes
    disk,       \* inode -> blocks, as found after a power loss
    dir,        \* the entries `path` and `.path.tmp`, as seen by processes
    diskDir,    \* the same entries, as found after a power loss
    pc,         \* writer -> next step of write_atomic
    fd,         \* writer -> inode of its open temporary file
    data,       \* writer -> the data it was asked to write
    pos,        \* writer -> number of blocks written so far
    writes,     \* number of calls so far: the newest version
    acked       \* newest version whose call returned Ok

vars == <<cache, disk, dir, diskDir, pc, fd, data, pos, writes, acked>>

Blocks == 1..NumBlocks
NoData == [ver |-> 0, len |-> 0]
Data == [ver : Nat, len : Blocks]
Content == [Blocks -> Data \cup {NoData}]
EmptyFile == [b \in Blocks |-> NoData]

\* A file into which the first n blocks of d have been written.
Prefix(d, n) == [b \in Blocks |-> IF b <= n THEN d ELSE NoData]

\* The file holds exactly one version, from its first to its last block.
Whole(c) == c[1] # NoData /\ c = Prefix(c[1], c[1].len)

TypeOK ==
    /\ cache \in [Inodes -> Content]
    /\ disk \in [Inodes -> Content]
    /\ dir \in [path : Inodes \cup {NoInode}, tmp : Inodes \cup {NoInode}]
    /\ diskDir \in [path : Inodes \cup {NoInode}, tmp : Inodes \cup {NoInode}]
    /\ pc \in [Writers -> {"idle", "write", "sync", "rename", "syncdir"}]
    /\ fd \in [Writers -> Inodes \cup {NoInode}]
    /\ data \in [Writers -> Data \cup {NoData}]
    /\ pos \in [Writers -> 0..NumBlocks]
    /\ writes \in Nat
    /\ acked \in Nat

Init ==
    /\ cache = [i \in Inodes |-> EmptyFile]
    /\ disk = [i \in Inodes |-> EmptyFile]
    /\ dir = [path |-> NoInode, tmp |-> NoInode]
    /\ diskDir = [path |-> NoInode, tmp |-> NoInode]
    /\ pc = [w \in Writers |-> "idle"]
    /\ fd = [w \in Writers |-> NoInode]
    /\ data = [w \in Writers |-> NoData]
    /\ pos = [w \in Writers |-> 0]
    /\ writes = 0
    /\ acked = 0

-----------------------------------------------------------------------------
(* The steps of write_atomic.                                              *)

\* An inode that nothing refers to, on either side of a power loss.
Free(i) ==
    /\ i \notin {dir.path, dir.tmp, diskDir.path, diskDir.tmp}
    /\ \A w \in Writers : fd[w] # i

\* OpenOptions::write(true).create(true).truncate(true).open(&tmp): a
\* temporary file left behind, or opened by someone else, is reused.
Open(w) ==
    /\ pc[w] = "idle" /\ writes < MaxWrites
    /\ \E i \in Inodes, n \in Blocks :
        /\ IF dir.tmp = NoInode THEN Free(i) ELSE i = dir.tmp
        /\ cache' = [cache EXCEPT ![i] = EmptyFile]
        /\ disk' = IF dir.tmp = NoInode THEN [disk EXCEPT ![i] = EmptyFile] ELSE disk
        /\ dir' = [dir EXCEPT !.tmp = i]
        /\ fd' = [fd EXCEPT ![w] = i]
        /\ data' = [data EXCEPT ![w] = [ver |-> writes + 1, len |-> n]]
    /\ pos' = [pos EXCEPT ![w] = 0]
    /\ pc' = [pc EXCEPT ![w] = "write"]
    /\ writes' = writes + 1
    /\ UNCHANGED <<diskDir, acked>>

\* Mutant: write_all does not stop at the end of the data.
Write_Overrun(w) ==
    /\ pc[w] = "write"
    /\ cache' = [cache EXCEPT ![fd[w]] = [b \in Blocks |-> IF b = pos[w] + 1 THEN data[w] ELSE @[b]]]
    /\ pos' = [pos EXCEPT ![w] = @ + 1]
    /\ pc' = [pc EXCEPT ![w] = IF pos[w] = data[w].len THEN "sync" ELSE "write"]
    /\ UNCHANGED <<disk, dir, diskDir, fd, data, writes, acked>>

\* One write(2) of write_all's loop.
Write(w) ==
    /\ pc[w] = "write" /\ pos[w] < data[w].len
    /\ cache' = [cache EXCEPT ![fd[w]][pos[w] + 1] = data[w]]
    /\ pos' = [pos EXCEPT ![w] = @ + 1]
    /\ pc' = [pc EXCEPT ![w] = IF pos[w] + 1 = data[w].len THEN "sync" ELSE "write"]
    /\ UNCHANGED <<disk, dir, diskDir, fd, data, writes, acked>>

\* Mutant: the data is not fsynced before the rename.
Sync_Skipped(w) ==
    /\ pc[w] = "sync"
    /\ fd' = [fd EXCEPT ![w] = NoInode]
    /\ pc' = [pc EXCEPT ![w] = "rename"]
    /\ UNCHANGED <<cache, disk, dir, diskDir, data, pos, writes, acked>>

\* file.sync_all(); drop(file).
Sync(w) ==
    /\ pc[w] = "sync"
    /\ disk' = [disk EXCEPT ![fd[w]] = cache[fd[w]]]
    /\ fd' = [fd EXCEPT ![w] = NoInode]
    /\ pc' = [pc EXCEPT ![w] = "rename"]
    /\ UNCHANGED <<cache, dir, diskDir, data, pos, writes, acked>>

\* Mutant: the old file is unlinked before the rename.
Rename_UnlinkFirst(w) ==
    /\ pc[w] = "rename" /\ dir.tmp # NoInode
    /\ IF dir.path = NoInode
       THEN /\ dir' = [path |-> dir.tmp, tmp |-> NoInode]
            /\ pc' = [pc EXCEPT ![w] = "syncdir"]
       ELSE /\ dir' = [dir EXCEPT !.path = NoInode]
            /\ UNCHANGED pc
    /\ UNCHANGED <<cache, disk, diskDir, fd, data, pos, writes, acked>>

\* std::fs::rename(&tmp, path), when the temporary name still exists.
Rename(w) ==
    /\ pc[w] = "rename" /\ dir.tmp # NoInode
    /\ dir' = [path |-> dir.tmp, tmp |-> NoInode]
    /\ pc' = [pc EXCEPT ![w] = "syncdir"]
    /\ UNCHANGED <<cache, disk, diskDir, fd, data, pos, writes, acked>>

\* Mutant: the parent directory is not fsynced.
SyncDir_Skipped(w) ==
    /\ pc[w] = "syncdir"
    /\ acked' = data[w].ver
    /\ pc' = [pc EXCEPT ![w] = "idle"]
    /\ UNCHANGED <<cache, disk, dir, diskDir, fd, data, pos, writes>>

\* The parent directory is fsynced on a best-effort basis, then Ok(()).
SyncDir(w) ==
    /\ pc[w] = "syncdir"
    /\ diskDir' \in IF DirSyncReliable THEN {dir} ELSE {dir, diskDir}
    /\ acked' = data[w].ver
    /\ pc' = [pc EXCEPT ![w] = "idle"]
    /\ UNCHANGED <<cache, disk, dir, fd, data, pos, writes>>

\* write_all, sync_all or rename returns an error (no space, I/O error, the
\* temporary name gone): the call returns Err and leaves everything as it is.
Fail(w) ==
    /\ pc[w] \in {"write", "sync", "rename"}
    /\ pc' = [pc EXCEPT ![w] = "idle"]
    /\ fd' = [fd EXCEPT ![w] = NoInode]
    /\ UNCHANGED <<cache, disk, dir, diskDir, data, pos, writes, acked>>

-----------------------------------------------------------------------------
(* The environment: the kernel's write-back, process exit, power loss.     *)

WritebackBlock(i, b) ==
    /\ disk' = [disk EXCEPT ![i][b] = cache[i][b]]
    /\ UNCHANGED <<cache, dir, diskDir, pc, fd, data, pos, writes, acked>>

WritebackDir ==
    /\ diskDir' = dir
    /\ UNCHANGED <<cache, disk, dir, pc, fd, data, pos, writes, acked>>

AllIdle ==
    /\ pc' = [w \in Writers |-> "idle"]
    /\ fd' = [w \in Writers |-> NoInode]

\* noded exits or is killed: its threads are gone, the kernel is not.
ProcessExit ==
    /\ AllIdle
    /\ UNCHANGED <<cache, disk, dir, diskDir, data, pos, writes, acked>>

PowerLoss ==
    /\ AllIdle
    /\ cache' = disk
    /\ dir' = diskDir
    /\ UNCHANGED <<disk, diskDir, data, pos, writes, acked>>

WriteAtomic(w) == Open(w) \/ Write(w) \/ Sync(w) \/ Rename(w) \/ SyncDir(w) \/ Fail(w)

Next ==
    \/ \E w \in Writers : WriteAtomic(w)
    \/ \E i \in Inodes, b \in Blocks : WritebackBlock(i, b)
    \/ WritebackDir
    \/ ProcessExit
    \/ PowerLoss

Spec == Init /\ [][Next]_vars

-----------------------------------------------------------------------------
(* Properties.                                                             *)

\* The version found through a directory image and a block image.
VersionAt(i, blocks) ==
    IF i = NoInode THEN 0 ELSE IF Whole(blocks[i]) THEN blocks[i][1].ver ELSE 0 - 1

\* Atomicity: the path holds one whole version or does not exist, for a
\* reader at any moment and after a power loss at any moment.
NeverTorn ==
    /\ dir.path # NoInode => Whole(cache[dir.path])
    /\ diskDir.path # NoInode => Whole(disk[diskDir.path])

\* Durability: once write_atomic has returned Ok for a version, neither a
\* reader nor a power loss ever finds an older one.
NoRollback ==
    /\ VersionAt(dir.path, cache) >= acked
    /\ VersionAt(diskDir.path, disk) >= acked

Cell == INSTANCE DurableCell WITH
    vis <- VersionAt(dir.path, cache),
    dur <- VersionAt(diskDir.path, disk),
    acked <- acked

\* One writer at a time: write_atomic implements the durable cell that the
\* rest of noded takes its files to be.
ImplementsCell == Cell!Spec
=============================================================================
