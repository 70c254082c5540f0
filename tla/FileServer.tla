----------------------------- MODULE FileServer -----------------------------
(***************************************************************************)
(* The request handlers of run_request (fs.cc): one thread per connection, *)
(* FS_READ, FS_APPEND, FS_CREATE and FS_DELETE over one disk.              *)
(*                                                                         *)
(* A step of a thread is one access to shared state: taking or releasing a *)
(* lock, one critical section of free_block_lock, one disk_readblock or    *)
(* disk_writeblock, or a scan of the directory, which the_lock keeps       *)
(* unchanged.  What a handler computes on its own variables belongs to the *)
(* step before it.  A crash of the process may fall between any two steps; *)
(* the disk is all that survives it.                                       *)
(***************************************************************************)
EXTENDS DiskLayout

CONSTANTS
    Thread,     \* the connections of a run: server() starts a thread for each
    Request,    \* what clients ask, once the session and sequence are accepted
    BadName,    \* the names that the file name check refuses
    MaxActive,  \* bound on the connections served at the same time
    MayCrash    \* whether the process may die

Op == {"read", "append", "create", "delete"}

RequestType == [op : Op, user : User, name : Name,
                offset : Nat, size : Nat, data : Seq(Byte)]

ASSUME RequestAssumption == Request \subseteq RequestType /\ BadName \subseteq Name

VARIABLES
    disk,        \* what every block holds
    dir_inode,   \* the blocks of the directory, in memory
    free_block,  \* the stack of free blocks
    the_lock,    \* holders of the directory lock
    file_lock,   \* for each name, holders of its entry of filename_rwlock_map
    up,          \* the process is running
    pc,          \* for each thread, the step it takes next
    req,         \* for each thread, its request
    loc,         \* for each thread, the variables of its handler
    outcome      \* for each thread, which return of run_request it took

memory == << dir_inode, free_block >>
locks == << the_lock, file_lock >>
vars == << disk, dir_inode, free_block, the_lock, file_lock, up,
           pc, req, loc, outcome >>

ReadLabel == {"read_lock", "read_find", "read_filelock", "read_inode",
              "read_block", "read_unlock"}
AppendLabel == {"append_room", "append_lock", "append_find", "append_filelock",
                "append_inode", "append_alloc", "append_partial",
                "append_data", "append_commit", "append_unlock"}
CreateLabel == {"create_reserve", "create_lock", "create_scan", "create_inode",
                "create_entry", "create_extend", "create_new_inode",
                "create_new_table", "create_dir_inode", "create_unlock"}
DeleteLabel == {"delete_lock", "delete_find", "delete_free_table",
                "delete_dir_inode", "delete_entry", "delete_free",
                "delete_unlock"}
Label == {"new", "reply", "done"}
           \cup ReadLabel \cup AppendLabel \cup CreateLabel \cup DeleteLabel

Outcome == {"none", "ok", "invalid", "no_file", "not_owner", "out_of_range",
            "no_space", "exists", "no_inode_space", "no_dir_space"}

Hold == [thread : Thread, mode : {"read", "write"}]

\* The block list of a file or directory fits the array of its inode.
Fits(blocks) == Len(blocks) <= MaxFileBlocks

Locals == [slot : (Nat \ {0}) \X (1 .. DirEntries), table : Table,
           inode_block : Block, inode : Inode,
           free_b_1 : Block, free_b_2 : Block, tmp : Seq(Block),
           data : Seq(Byte), result : Seq(Byte \cup {NoByte})]

NoLocals == [slot |-> << 1, 1 >>, table |-> EmptyTable,
             inode_block |-> 0, inode |-> EmptyInode(NoUser),
             free_b_1 |-> 0, free_b_2 |-> 0, tmp |-> << >>,
             data |-> << >>, result |-> << >>]

NoRequest == [op |-> "none", user |-> NoUser, name |-> NoName,
              offset |-> 0, size |-> 0, data |-> << >>]

\* Every variable has its type, and no block list overflows its array:
\* dir_inode.blocks and the blocks of every inode on disk or in a handler.
TypeOK ==
    /\ disk \in [Block -> Content]
    /\ dir_inode \in Seq(Block)
    /\ free_block \in Seq(Block)
    /\ the_lock \in SUBSET Hold
    /\ file_lock \in [Name -> SUBSET Hold]
    /\ up \in BOOLEAN
    /\ pc \in [Thread -> Label]
    /\ req \in [Thread -> RequestType \cup {NoRequest}]
    /\ loc \in [Thread -> Locals]
    /\ outcome \in [Thread -> Outcome]
    /\ Fits(dir_inode)
    /\ \A b \in Block : disk[b].kind \in {"directory", "inode"} => Fits(disk[b].blocks)
    /\ \A t \in Thread : Fits(loc[t].inode.blocks)

-----------------------------------------------------------------------------
(* Control: where a thread goes next, and how its request ended.           *)

Goto(t, label) ==
    /\ pc' = [pc EXCEPT ![t] = label]
    /\ UNCHANGED outcome

Return(t, why) ==
    /\ pc' = [pc EXCEPT ![t] = "reply"]
    /\ outcome' = [outcome EXCEPT ![t] = why]

At(t, label) == pc[t] = label

-----------------------------------------------------------------------------
(* The read-write locks: the_lock, and one per file name.                  *)

CanRead(holds) == \A h \in holds : h.mode # "write"
CanWrite(holds) == holds = {}
With(holds, t, m) == holds \cup {[thread |-> t, mode |-> m]}
Without(holds, t) == {h \in holds : h.thread # t}

LockDir(t, m) ==
    /\ the_lock' = With(the_lock, t, m)
    /\ UNCHANGED file_lock

\* (Mutant of UnlockDir: an early return that forgets the unlock.)
ForgetDir(t) == UNCHANGED locks

UnlockDir(t) ==
    /\ the_lock' = Without(the_lock, t)
    /\ UNCHANGED file_lock

\* filelock_start as its caller sees it.
LockFile(t, n, m) ==
    /\ file_lock' = [file_lock EXCEPT ![n] = With(@, t, m)]
    /\ UNCHANGED the_lock

\* filelock_end, then the_lock: releases that nothing comes between.
UnlockBoth(t, n) ==
    /\ the_lock' = Without(the_lock, t)
    /\ file_lock' = [file_lock EXCEPT ![n] = Without(@, t)]

-----------------------------------------------------------------------------
(* The scans of the directory.  A slot is a table of dir_inode and an      *)
(* entry of it; the loops take the first one that fits.                    *)

TableAt(i) == AsTable(disk[dir_inode[i]])
Slots == (1 .. Len(dir_inode)) \X (1 .. DirEntries)
EntryAt(s) == TableAt(s[1])[s[2]]
Named(n) == {s \in Slots : EntryAt(s).inode_block > 0 /\ EntryAt(s).name = n}
UnusedSlots == {s \in Slots : EntryAt(s).inode_block = 0}

Before(r, s) == r[1] < s[1] \/ (r[1] = s[1] /\ r[2] < s[2])
IsFirst(s, S) == s \in S /\ \A r \in S : r = s \/ Before(s, r)

-----------------------------------------------------------------------------
(* A connection: received, parsed and dispatched, and closed at the end.   *)

\* The checks of each handler that read no shared state.
Valid(r) ==
    /\ r.name \notin BadName
    /\ r.op = "read" =>
         /\ r.offset < MaxFileSize
         /\ r.size # 0 /\ r.size <= MaxFileSize
         /\ r.offset + r.size <= MaxFileSize
    /\ r.op = "append" => Len(r.data) # 0

FirstStep(op) ==
    CASE op = "read" -> "read_lock"
      [] op = "append" -> "append_room"
      [] op = "create" -> "create_reserve"
      [] op = "delete" -> "delete_lock"

Active == {t \in Thread : pc[t] \notin {"new", "done"}}

Accept(t, r) ==
    /\ up
    /\ At(t, "new")
    /\ Cardinality(Active) < MaxActive
    /\ req' = [req EXCEPT ![t] = r]
    /\ loc' = [loc EXCEPT ![t].data = r.data]
    /\ \/ Valid(r) /\ Goto(t, FirstStep(r.op))
       \/ ~Valid(r) /\ Return(t, "invalid")
    /\ UNCHANGED << disk, memory, locks, up >>

\* The answer, if any, is sent, the socket closed, and the thread ends.
EndRequest(t) ==
    /\ At(t, "reply")
    /\ pc' = [pc EXCEPT ![t] = "done"]
    /\ req' = [req EXCEPT ![t] = NoRequest]
    /\ loc' = [loc EXCEPT ![t] = NoLocals]
    /\ outcome' = [outcome EXCEPT ![t] = "none"]
    /\ UNCHANGED << disk, memory, locks, up >>

-----------------------------------------------------------------------------
(* FS_READ                                                                 *)

ReadLock(t) ==
    /\ At(t, "read_lock")
    /\ CanRead(the_lock)
    /\ LockDir(t, "read")
    /\ Goto(t, "read_find")
    /\ UNCHANGED << disk, memory, up, req, loc >>

ReadFind(t) ==
    LET found == Named(req[t].name) IN
    /\ At(t, "read_find")
    /\ \/ /\ found = {}
          /\ UnlockDir(t)
          /\ Return(t, "no_file")
          /\ UNCHANGED loc
       \/ \E s \in found :
          /\ IsFirst(s, found)
          /\ loc' = [loc EXCEPT ![t].inode_block = EntryAt(s).inode_block]
          /\ Goto(t, "read_filelock")
          /\ UNCHANGED locks
    /\ UNCHANGED << disk, memory, up, req >>

ReadFileLock(t) ==
    /\ At(t, "read_filelock")
    /\ CanRead(file_lock[req[t].name])
    /\ LockFile(t, req[t].name, "read")
    /\ Goto(t, "read_inode")
    /\ UNCHANGED << disk, memory, up, req, loc >>

ReadInode(t) ==
    LET r == req[t]
        file_inode == AsInode(disk[loc[t].inode_block])
    IN
    /\ At(t, "read_inode")
    /\ \/ /\ file_inode.owner # r.user
          /\ UnlockBoth(t, r.name)
          /\ Return(t, "not_owner")
          /\ UNCHANGED loc
       \/ /\ file_inode.owner = r.user
          /\ r.offset + r.size > file_inode.size
          /\ UnlockBoth(t, r.name)
          /\ Return(t, "out_of_range")
          /\ UNCHANGED loc
       \/ /\ file_inode.owner = r.user
          /\ r.offset + r.size <= file_inode.size
          /\ loc' = [loc EXCEPT ![t].inode = file_inode]
          /\ Goto(t, "read_block")
          /\ UNCHANGED locks
    /\ UNCHANGED << disk, memory, up, req >>

\* One data block: the first from the offset on, the others from their start.
ReadBlock(t) ==
    LET r == req[t]
        at == r.offset + Len(loc[t].result)
        block == loc[t].inode.blocks[at \div BlockSize + 1]
        piece == Slice(AsBytes(disk[block]), at % BlockSize,
                       r.size - Len(loc[t].result))
        result == loc[t].result \o piece
    IN
    /\ At(t, "read_block")
    /\ loc' = [loc EXCEPT ![t].result = result]
    /\ Goto(t, IF Len(result) = r.size THEN "read_unlock" ELSE "read_block")
    /\ UNCHANGED << disk, memory, locks, up, req >>

ReadUnlock(t) ==
    /\ At(t, "read_unlock")
    /\ UnlockBoth(t, req[t].name)
    /\ Return(t, "ok")
    /\ UNCHANGED << disk, memory, up, req, loc >>

-----------------------------------------------------------------------------
(* FS_APPEND                                                               *)

\* Without the directory lock: can the disk or any file hold this much?
AppendRoom(t) ==
    LET n == Len(loc[t].data) IN
    /\ At(t, "append_room")
    /\ IF n > Len(free_block) * BlockSize + BlockSize - 1 \/ n > MaxFileSize
       THEN Return(t, "no_space")
       ELSE Goto(t, "append_lock")
    /\ UNCHANGED << disk, memory, locks, up, req, loc >>

AppendLock(t) ==
    /\ At(t, "append_lock")
    /\ CanRead(the_lock)
    /\ LockDir(t, "read")
    /\ Goto(t, "append_find")
    /\ UNCHANGED << disk, memory, up, req, loc >>

AppendFind(t) ==
    LET found == Named(req[t].name) IN
    /\ At(t, "append_find")
    /\ \/ /\ found = {}
          /\ UnlockDir(t)
          /\ Return(t, "no_file")
          /\ UNCHANGED loc
       \/ \E s \in found :
          /\ IsFirst(s, found)
          /\ loc' = [loc EXCEPT ![t].inode_block = EntryAt(s).inode_block]
          /\ Goto(t, "append_filelock")
          /\ UNCHANGED locks
    /\ UNCHANGED << disk, memory, up, req >>

AppendFileLock(t) ==
    /\ At(t, "append_filelock")
    /\ CanWrite(file_lock[req[t].name])
    /\ LockFile(t, req[t].name, "write")
    /\ Goto(t, "append_inode")
    /\ UNCHANGED << disk, memory, up, req, loc >>

AppendInode(t) ==
    LET file_inode == AsInode(disk[loc[t].inode_block]) IN
    /\ At(t, "append_inode")
    /\ \/ /\ file_inode.owner # req[t].user
          /\ UnlockBoth(t, req[t].name)
          /\ Return(t, "not_owner")
          /\ UNCHANGED loc
       \/ /\ file_inode.owner = req[t].user
          /\ loc' = [loc EXCEPT ![t].inode = file_inode]
          /\ Goto(t, "append_alloc")
          /\ UNCHANGED locks
    /\ UNCHANGED << disk, memory, up, req >>

\* (Mutant of BlocksToAdd: the room in the last block is ignored.)
BlocksForAll(size, n) == CeilDiv(n)

\* What an append of n bytes to a file of this size needs beyond its last
\* block, and whether the file or the free list cannot hold it.
BlocksToAdd(size, n) ==
    LET over == size % BlockSize IN
    IF over = 0 THEN CeilDiv(n)
    ELSE IF n + over <= BlockSize THEN 0
    ELSE CeilDiv(n - (BlockSize - over))

\* (Mutant of TooBig: the limit on the size of a file is not checked.)
TooBigForDisk(size, n, free) == BlocksToAdd(size, n) > free

TooBig(size, n, free) ==
    LET over == size % BlockSize IN
    \/ n > MaxFileSize - size
    \/ over > 0 /\ n > (free + 1) * BlockSize - over
    \/ over = 0 /\ n > free * BlockSize

\* (Mutant of AppendAlloc: the inode is saved as soon as its space is taken.)
AppendAllocSaved(t) ==
    LET l == loc[t]
        need == BlocksToAdd(l.inode.size, Len(l.data))
        taken == SubSeq(free_block, Len(free_block) - need + 1, Len(free_block))
    IN
    /\ At(t, "append_alloc")
    /\ ~TooBig(l.inode.size, Len(l.data), Len(free_block))
    /\ free_block' = SubSeq(free_block, 1, Len(free_block) - need)
    /\ loc' = [loc EXCEPT ![t].tmp = taken]
    /\ disk' = [disk EXCEPT ![l.inode_block] =
                   [l.inode EXCEPT !.size = @ + Len(l.data), !.blocks = @ \o taken]]
    /\ Goto(t, IF l.inode.size % BlockSize = 0 THEN "append_data"
                                               ELSE "append_partial")
    /\ UNCHANGED << dir_inode, locks, up, req >>

\* free_block_lock: check and take the blocks in one critical section.
AppendAlloc(t) ==
    LET size == loc[t].inode.size
        free == Len(free_block)
        need == BlocksToAdd(size, Len(loc[t].data))
    IN
    /\ At(t, "append_alloc")
    /\ \/ /\ TooBig(size, Len(loc[t].data), free)
          /\ UnlockBoth(t, req[t].name)
          /\ Return(t, "no_space")
          /\ UNCHANGED << free_block, loc >>
       \/ /\ ~TooBig(size, Len(loc[t].data), free)
          /\ free_block' = SubSeq(free_block, 1, free - need)
          /\ loc' = [loc EXCEPT ![t].tmp =
                         SubSeq(free_block, free - need + 1, free)]
          /\ Goto(t, IF size % BlockSize = 0 THEN "append_data"
                                             ELSE "append_partial")
          /\ UNCHANGED locks
    /\ UNCHANGED << disk, dir_inode, up, req >>

\* Fill the last block of the file: read it, overlay, write it back.
AppendPartial(t) ==
    LET l == loc[t]
        offset == l.inode.size % BlockSize
        block == l.inode.blocks[l.inode.size \div BlockSize + 1]
        rest == Rest(offset, l.data)
    IN
    /\ At(t, "append_partial")
    /\ disk' = [disk EXCEPT ![block] =
                   DataBlock(Overlay(AsBytes(@), offset, l.data))]
    /\ loc' = [loc EXCEPT ![t].data = rest]
    /\ Goto(t, IF rest = << >> THEN "append_commit" ELSE "append_data")
    /\ UNCHANGED << memory, locks, up, req >>

\* One new block: linked into the handler's copy of the inode, and written.
AppendData(t) ==
    LET l == loc[t]
        block == Head(l.tmp)
        rest == Rest(0, l.data)
    IN
    /\ At(t, "append_data")
    /\ disk' = [disk EXCEPT ![block] = DataBlock(Overlay(EmptyBytes, 0, l.data))]
    /\ loc' = [loc EXCEPT ![t].data = rest,
                          ![t].tmp = Tail(@),
                          ![t].inode.blocks = Append(@, block)]
    /\ Goto(t, IF rest = << >> THEN "append_commit" ELSE "append_data")
    /\ UNCHANGED << memory, locks, up, req >>

\* The new size reaches the disk: the append takes effect.
AppendCommit(t) ==
    LET file_inode == [loc[t].inode EXCEPT !.size = @ + Len(req[t].data)] IN
    /\ At(t, "append_commit")
    /\ disk' = [disk EXCEPT ![loc[t].inode_block] = file_inode]
    /\ loc' = [loc EXCEPT ![t].inode = file_inode]
    /\ Goto(t, "append_unlock")
    /\ UNCHANGED << memory, locks, up, req >>

AppendUnlock(t) ==
    /\ At(t, "append_unlock")
    /\ UnlockBoth(t, req[t].name)
    /\ Return(t, "ok")
    /\ UNCHANGED << disk, memory, up, req, loc >>

-----------------------------------------------------------------------------
(* FS_CREATE                                                               *)

\* free_block_lock, before the directory lock: a block for the inode.
CreateReserve(t) ==
    LET free == Len(free_block) IN
    /\ At(t, "create_reserve")
    /\ \/ /\ free = 0
          /\ Return(t, "no_inode_space")
          /\ UNCHANGED << free_block, loc >>
       \/ /\ free > 0
          /\ loc' = [loc EXCEPT ![t].free_b_1 = free_block[free]]
          /\ free_block' = SubSeq(free_block, 1, free - 1)
          /\ Goto(t, "create_lock")
    /\ UNCHANGED << disk, dir_inode, locks, up, req >>

CreateLock(t) ==
    /\ At(t, "create_lock")
    /\ CanWrite(the_lock)
    /\ LockDir(t, "write")
    /\ Goto(t, "create_scan")
    /\ UNCHANGED << disk, memory, up, req, loc >>

\* A name that exists: free_b_1 is not given back.  Else the first unused
\* entry, with a copy of its table, or none.
CreateScan(t) ==
    /\ At(t, "create_scan")
    /\ \/ /\ Named(req[t].name) # {}
          /\ UnlockDir(t)
          /\ Return(t, "exists")
          /\ UNCHANGED loc
       \/ /\ Named(req[t].name) = {}
          /\ \E s \in UnusedSlots :
               /\ IsFirst(s, UnusedSlots)
               /\ loc' = [loc EXCEPT ![t].slot = s, ![t].table = TableAt(s[1])]
          /\ Goto(t, "create_inode")
          /\ UNCHANGED locks
       \/ /\ Named(req[t].name) = {}
          /\ UnusedSlots = {}
          /\ Goto(t, "create_extend")
          /\ UNCHANGED << locks, loc >>
    /\ UNCHANGED << disk, memory, up, req >>

\* (Mutant of CreateInode: the entry reaches the disk before the inode.)
CreateInodeLater(t) ==
    /\ At(t, "create_inode")
    /\ Goto(t, "create_entry")
    /\ UNCHANGED << disk, memory, locks, up, req, loc >>

CreateInode(t) ==
    /\ At(t, "create_inode")
    /\ disk' = [disk EXCEPT ![loc[t].free_b_1] = EmptyInode(req[t].user)]
    /\ Goto(t, "create_entry")
    /\ UNCHANGED << memory, locks, up, req, loc >>

\* The entry reaches the disk: the file exists.
CreateEntry(t) ==
    LET l == loc[t] IN
    /\ At(t, "create_entry")
    /\ disk' = [disk EXCEPT ![dir_inode[l.slot[1]]] =
                   TableBlock(WithEntry(l.table, l.slot[2], req[t].name, l.free_b_1))]
    /\ Goto(t, "create_unlock")
    /\ UNCHANGED << memory, locks, up, req, loc >>

\* (Mutant of CreateExtend: the block is read but not popped.)
CreateExtendPeek(t) ==
    /\ At(t, "create_extend")
    /\ free_block # << >> /\ Len(dir_inode) < MaxFileBlocks
    /\ loc' = [loc EXCEPT ![t].free_b_2 = free_block[Len(free_block)]]
    /\ Goto(t, "create_new_inode")
    /\ UNCHANGED << disk, memory, locks, up, req >>

\* free_block_lock: a second block, for a new table.  With none left, or a
\* full directory, free_b_1 goes back and the handler returns: it does not
\* release the directory lock.
CreateExtend(t) ==
    LET free == Len(free_block) IN
    /\ At(t, "create_extend")
    /\ \/ /\ free > 0 /\ Len(dir_inode) < MaxFileBlocks
          /\ loc' = [loc EXCEPT ![t].free_b_2 = free_block[free]]
          /\ free_block' = SubSeq(free_block, 1, free - 1)
          /\ Goto(t, "create_new_inode")
       \/ /\ free = 0 \/ Len(dir_inode) >= MaxFileBlocks
          /\ free_block' = Append(free_block, loc[t].free_b_1)
          /\ Return(t, "no_dir_space")
          /\ UNCHANGED loc
    /\ UNCHANGED << disk, dir_inode, locks, up, req >>

CreateNewInode(t) ==
    /\ At(t, "create_new_inode")
    /\ disk' = [disk EXCEPT ![loc[t].free_b_2] = EmptyInode(req[t].user)]
    /\ Goto(t, "create_new_table")
    /\ UNCHANGED << memory, locks, up, req, loc >>

CreateNewTable(t) ==
    /\ At(t, "create_new_table")
    /\ disk' = [disk EXCEPT ![loc[t].free_b_1] =
                   TableBlock(WithEntry(EmptyTable, 1, req[t].name, loc[t].free_b_2))]
    /\ Goto(t, "create_dir_inode")
    /\ UNCHANGED << memory, locks, up, req, loc >>

\* The directory's inode reaches block 0: the file exists.
CreateDirInode(t) ==
    /\ At(t, "create_dir_inode")
    /\ dir_inode' = Append(dir_inode, loc[t].free_b_1)
    /\ disk' = [disk EXCEPT ![0] = DirectoryBlock(dir_inode')]
    /\ Goto(t, "create_unlock")
    /\ UNCHANGED << free_block, locks, up, req, loc >>

CreateUnlock(t) ==
    /\ At(t, "create_unlock")
    /\ UnlockDir(t)
    /\ Return(t, "ok")
    /\ UNCHANGED << disk, memory, up, req, loc >>

-----------------------------------------------------------------------------
(* FS_DELETE                                                               *)

DeleteLock(t) ==
    /\ At(t, "delete_lock")
    /\ CanWrite(the_lock)
    /\ LockDir(t, "write")
    /\ Goto(t, "delete_find")
    /\ UNCHANGED << disk, memory, up, req, loc >>

\* The entry, its table and its inode; the last entry of a table takes the
\* table with it.
DeleteFind(t) ==
    LET found == Named(req[t].name) IN
    /\ At(t, "delete_find")
    /\ \/ /\ found = {}
          /\ UnlockDir(t)
          /\ Return(t, "no_file")
          /\ UNCHANGED loc
       \/ \E s \in found :
          /\ IsFirst(s, found)
          /\ AsInode(disk[EntryAt(s).inode_block]).owner # req[t].user
          /\ UnlockDir(t)
          /\ Return(t, "not_owner")
          /\ UNCHANGED loc
       \/ \E s \in found :
          /\ IsFirst(s, found)
          /\ AsInode(disk[EntryAt(s).inode_block]).owner = req[t].user
          /\ loc' = [loc EXCEPT ![t].slot = s,
                                ![t].table = TableAt(s[1]),
                                ![t].inode_block = EntryAt(s).inode_block,
                                ![t].inode = AsInode(disk[EntryAt(s).inode_block])]
          /\ Goto(t, IF Cardinality(UsedEntries(TableAt(s[1]))) = 1
                     THEN "delete_free_table" ELSE "delete_entry")
          /\ UNCHANGED locks
    /\ UNCHANGED << disk, memory, up, req >>

\* free_block_lock: the table's block is free before block 0 drops it.
DeleteFreeTable(t) ==
    /\ At(t, "delete_free_table")
    /\ free_block' = Append(free_block, dir_inode[loc[t].slot[1]])
    /\ Goto(t, "delete_dir_inode")
    /\ UNCHANGED << disk, dir_inode, locks, up, req, loc >>

\* The directory's inode reaches block 0: the file is gone.
DeleteDirInode(t) ==
    /\ At(t, "delete_dir_inode")
    /\ dir_inode' = DropAt(dir_inode, loc[t].slot[1])
    /\ disk' = [disk EXCEPT ![0] = DirectoryBlock(dir_inode')]
    /\ Goto(t, "delete_free")
    /\ UNCHANGED << free_block, locks, up, req, loc >>

\* The entry marked unused reaches the disk: the file is gone.
DeleteEntry(t) ==
    LET l == loc[t] IN
    /\ At(t, "delete_entry")
    /\ disk' = [disk EXCEPT ![dir_inode[l.slot[1]]] =
                   TableBlock(WithoutEntry(l.table, l.slot[2]))]
    /\ Goto(t, "delete_free")
    /\ UNCHANGED << memory, locks, up, req, loc >>

\* free_block_lock: the data blocks and the inode's block.
DeleteFree(t) ==
    LET l == loc[t] IN
    /\ At(t, "delete_free")
    /\ free_block' = free_block
                       \o SubSeq(l.inode.blocks, 1, CeilDiv(l.inode.size))
                       \o << l.inode_block >>
    /\ Goto(t, "delete_unlock")
    /\ UNCHANGED << disk, dir_inode, locks, up, req, loc >>

DeleteUnlock(t) ==
    /\ At(t, "delete_unlock")
    /\ UnlockDir(t)
    /\ Return(t, "ok")
    /\ UNCHANGED << disk, memory, up, req, loc >>

-----------------------------------------------------------------------------
(* The process dies: its threads, its memory and its locks go with it.     *)

Crash ==
    /\ MayCrash /\ up
    /\ up' = FALSE
    /\ dir_inode' = << >>
    /\ free_block' = << >>
    /\ the_lock' = {}
    /\ file_lock' = [n \in Name |-> {}]
    /\ pc' = [t \in Thread |-> IF pc[t] = "new" THEN "new" ELSE "done"]
    /\ req' = [t \in Thread |-> NoRequest]
    /\ loc' = [t \in Thread |-> NoLocals]
    /\ outcome' = [t \in Thread |-> "none"]
    /\ UNCHANGED disk

\* Nothing is left to do: every thread has ended, or the process is down.
Quiet ==
    /\ ~up \/ \A t \in Thread : At(t, "done")
    /\ UNCHANGED vars

-----------------------------------------------------------------------------
(* main() on a disk without files; the threads of a run; the specification.*)

Init ==
    /\ disk = [b \in Block |-> IF b = 0 THEN DirectoryBlock(<< >>)
                                        ELSE DataBlock(EmptyBytes)]
    /\ dir_inode = << >>
    /\ free_block = [i \in 1 .. DiskSize - 1 |-> i]
    /\ the_lock = {}
    /\ file_lock = [n \in Name |-> {}]
    /\ up = TRUE
    /\ pc = [t \in Thread |-> "new"]
    /\ req = [t \in Thread |-> NoRequest]
    /\ loc = [t \in Thread |-> NoLocals]
    /\ outcome = [t \in Thread |-> "none"]

ReadStep(t) ==
    \/ ReadLock(t) \/ ReadFind(t) \/ ReadFileLock(t)
    \/ ReadInode(t) \/ ReadBlock(t) \/ ReadUnlock(t)

AppendStep(t) ==
    \/ AppendRoom(t) \/ AppendLock(t) \/ AppendFind(t) \/ AppendFileLock(t)
    \/ AppendInode(t) \/ AppendAlloc(t) \/ AppendPartial(t) \/ AppendData(t)
    \/ AppendCommit(t) \/ AppendUnlock(t)

CreateStep(t) ==
    \/ CreateReserve(t) \/ CreateLock(t) \/ CreateScan(t) \/ CreateInode(t)
    \/ CreateEntry(t) \/ CreateExtend(t) \/ CreateNewInode(t)
    \/ CreateNewTable(t) \/ CreateDirInode(t) \/ CreateUnlock(t)

DeleteStep(t) ==
    \/ DeleteLock(t) \/ DeleteFind(t) \/ DeleteFreeTable(t)
    \/ DeleteDirInode(t) \/ DeleteEntry(t) \/ DeleteFree(t) \/ DeleteUnlock(t)

Step(t) ==
    ReadStep(t) \/ AppendStep(t) \/ CreateStep(t) \/ DeleteStep(t) \/ EndRequest(t)

Next ==
    \/ \E t \in Thread : Step(t) \/ \E r \in Request : Accept(t, r)
    \/ Crash
    \/ Quiet

Spec == Init /\ [][Next]_vars

\* A thread that can go on does: the kernel schedules every thread, and a
\* lock that stays free is given to a thread that waits for it.
Fairness == \A t \in Thread : WF_vars(Step(t))

FairSpec == Spec /\ Fairness
=============================================================================
