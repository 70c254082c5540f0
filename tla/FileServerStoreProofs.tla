----------------------- MODULE FileServerStoreProofs -----------------------
(***************************************************************************)
(* BlocksOwnedOnce and DiskConsistent hold for every set of connections    *)
(* and requests and every size of the disk: every step of every handler,   *)
(* and a crash between any two of them, keeps StoreInv.                    *)
(*                                                                         *)
(* OnlyExistingNameLeaks follows step by step: each block that is free, in *)
(* the directory, in a file or with a handler before a step is with one of *)
(* them after it, unless the step is that of a create whose name exists.   *)
(* InUse says what Claimed says in terms of what the server keeps in       *)
(* memory.  A step changes little of it, and NothingLost says what is left *)
(* to show of a step; the invariant that the proof rests on is StoreInv.   *)
(***************************************************************************)
EXTENDS FileServerInvariants, FiniteSetTheorems

(* Steps that only read, wait for a lock or release one.                   *)

QuietLabel ==
    {"reply", "done"} \cup ReadLabel
      \cup {"append_room", "append_lock", "append_find", "append_unlock",
            "create_reserve", "create_unlock",
            "delete_lock", "delete_find", "delete_unlock"}

\* At these labels a handler holds nothing and rests on nothing it read.
LEMMA QuietLabels ==
    ASSUME NEW t, pc'[t] \in QuietLabel
    PROVE  HandlerOK(t)' /\ HeldBlocks(t)' = << >>
  BY DEF QuietLabel, ReadLabel, HandlerOK, FoundOK, CopyOK, CreateOK, DeleteOK,
         FoundLabel, CopyLabel, HeldBlocks

\* The end of a handler, and a step to a label at which it holds nothing.
LEMMA QuietEnd ==
    ASSUME StoreInv, up, TypeInv', NEW t \in Thread, Step(t),
           UNCHANGED << disk, dir_inode, free_block >>,
           pc[t] # "delete_dir_inode", pc'[t] \in QuietLabel
    PROVE  StoreInv'
  BY QuietLabels, QuietStep

LEMMA Moves ==
    ASSUME TypeInv, NEW t \in Thread
    PROVE  /\ \A label : Goto(t, label) => pc'[t] = label
           /\ \A why : Return(t, why) => pc'[t] = "reply"
  BY DEF TypeInv, TypeOK, Goto, Return

LEMMA ReadOwners ==
    ASSUME StoreInv, up, TypeInv', NEW t \in Thread, ReadStep(t)
    PROVE  StoreInv'
  <1>1. TypeInv /\ Step(t)
    BY DEF StoreInv, Step
  <1>2. UNCHANGED << disk, dir_inode, free_block >>
    BY DEF ReadStep, ReadLock, ReadFind, ReadFileLock, ReadInode, ReadBlock,
           ReadUnlock, memory
  <1>3. pc'[t] \in ReadLabel \cup {"reply"}
    BY <1>1, Moves DEF ReadStep, ReadLock, ReadFind, ReadFileLock, ReadInode,
                       ReadBlock, ReadUnlock, ReadLabel
  <1>4. pc[t] # "delete_dir_inode"
    BY DEF ReadStep, ReadLock, ReadFind, ReadFileLock, ReadInode, ReadBlock,
           ReadUnlock, At
  <1>5. QED
    BY <1>1, <1>2, <1>3, <1>4, QuietEnd DEF QuietLabel

-----------------------------------------------------------------------------
(* FS_APPEND                                                               *)

\* The steps before the inode is read.
LEMMA AppendOpens ==
    ASSUME StoreInv, up, TypeInv', NEW t \in Thread,
           AppendRoom(t) \/ AppendLock(t) \/ AppendFind(t) \/ AppendFileLock(t)
             \/ AppendUnlock(t)
    PROVE  StoreInv'
  <1>1. TypeInv /\ RunningInv /\ Step(t)
    BY DEF StoreInv, Step, AppendStep
  <1>2. UNCHANGED << disk, dir_inode, free_block >> /\ pc[t] # "delete_dir_inode"
    BY DEF AppendRoom, AppendLock, AppendFind, AppendFileLock, AppendUnlock, memory, At
  <1>3. CASE pc'[t] \in QuietLabel
    BY <1>1, <1>2, <1>3, QuietEnd
  <1>4. CASE pc'[t] = "append_filelock" /\ AppendFind(t)
    <2>1. PICK s \in Named(req[t].name) :
            loc' = [loc EXCEPT ![t].inode_block = EntryAt(s).inode_block]
      <3>1. ~Return(t, "no_file")
        BY <1>1, <1>4, Moves
      <3>2. QED
        BY <1>4, <3>1 DEF AppendFind
    <2>2. loc'[t].inode_block = EntryAt(s).inode_block /\ req' = req
      BY <1>1, <1>4, <2>1, LocalTypes DEF AppendFind, Locals
    <2>3. s \in Slots /\ s \in Used /\ EntryAt(s).name = req[t].name
      BY DEF Named, Used
    <2>4. s \in Used' /\ EntryAt(s)' = EntryAt(s)
      BY <1>2, <2>3, DirectoryFrame
    <2>5. FoundOK(t)'
      BY <2>2, <2>3, <2>4 DEF FoundOK
    <2>6. HandlerOK(t)' /\ HeldBlocks(t)' = << >>
      BY <1>4, <2>5 DEF HandlerOK, CopyOK, CreateOK, DeleteOK, CopyLabel, HeldBlocks
    <2>7. QED
      BY <1>1, <1>2, <2>6, QuietStep
  <1>5. CASE pc'[t] = "append_inode" /\ AppendFileLock(t)
    <2>1. UNCHANGED << loc, req >> /\ pc[t] = "append_filelock"
      BY <1>5 DEF AppendFileLock, At
    <2>2. PICK s \in Used : EntryAt(s).name = req[t].name
                            /\ EntryAt(s).inode_block = loc[t].inode_block
      BY <1>1, <2>1 DEF RunningInv, HandlerOK, FoundOK, FoundLabel
    <2>3. s \in Used' /\ EntryAt(s)' = EntryAt(s)
      BY <1>2, DirectoryFrame DEF Used
    <2>4. FoundOK(t)'
      BY <2>1, <2>2, <2>3 DEF FoundOK
    <2>5. HandlerOK(t)' /\ HeldBlocks(t)' = << >>
      BY <1>5, <2>4 DEF HandlerOK, CopyOK, CreateOK, DeleteOK, CopyLabel, HeldBlocks
    <2>6. QED
      BY <1>1, <1>2, <2>5, QuietStep
  <1>6. QED
    <2>1. CASE AppendRoom(t) \/ AppendLock(t) \/ AppendUnlock(t)
      BY <1>1, <1>3, <2>1, Moves DEF AppendRoom, AppendLock, AppendUnlock, QuietLabel
    <2>2. CASE AppendFind(t)
      BY <1>1, <1>3, <1>4, <2>2, Moves DEF AppendFind, QuietLabel
    <2>3. CASE AppendFileLock(t)
      BY <1>1, <1>5, <2>3, Moves DEF AppendFileLock
    <2>4. QED
      BY <2>1, <2>2, <2>3

LEMMA AppendInodeOwners ==
    ASSUME StoreInv, up, TypeInv', NEW t \in Thread, AppendInode(t)
    PROVE  StoreInv'
  <1>1. TypeInv /\ RunningInv /\ Step(t)
    BY DEF StoreInv, Step, AppendStep
  <1>2. /\ UNCHANGED << disk, dir_inode, free_block, req >> /\ pc[t] = "append_inode"
    BY DEF AppendInode, memory, At
  <1>3. CASE \E why : Return(t, why)
    BY <1>1, <1>2, <1>3, Moves, QuietEnd DEF QuietLabel
  <1>4. CASE /\ loc' = [loc EXCEPT ![t].inode = AsInode(disk[loc[t].inode_block])]
             /\ Goto(t, "append_alloc")
    <2>1. PICK s \in Used : EntryAt(s).name = req[t].name
                            /\ EntryAt(s).inode_block = loc[t].inode_block
      BY <1>1, <1>2 DEF RunningInv, HandlerOK, FoundOK, FoundLabel
    <2>2. AsInode(disk[loc[t].inode_block]) = disk[loc[t].inode_block]
      BY <1>1, <2>1 DEF RunningInv, DirectoryInv, FileOK, AsInode
    <2>3. loc'[t].inode = disk[loc[t].inode_block] /\ loc'[t].inode_block = loc[t].inode_block
      BY <1>1, <1>4, <2>2, LocalTypes DEF Locals
    <2>4. s \in Used' /\ EntryAt(s)' = EntryAt(s)
      BY <1>2, DirectoryFrame DEF Used
    <2>5. FoundOK(t)'
      BY <1>2, <2>1, <2>3, <2>4 DEF FoundOK
    <2>6. CopyOK(t)'
      <3>1. FileBlocks(s) \in Seq(Block)
        BY <1>1, FileTypes DEF RunningInv
      <3>2. Len(disk[loc[t].inode_block].blocks) \in Nat
        BY <2>1, <3>1 DEF FileBlocks
      <3>3. QED
        BY <1>2, <2>3, <3>2 DEF CopyOK
    <2>7. pc'[t] = "append_alloc"
      BY <1>1, <1>4, Moves
    <2>8. HandlerOK(t)' /\ HeldBlocks(t)' = << >>
      BY <2>5, <2>6, <2>7 DEF HandlerOK, CreateOK, DeleteOK, HeldBlocks
    <2>9. QED
      BY <1>1, <1>2, <2>8, QuietStep
  <1>5. QED
    BY <1>3, <1>4 DEF AppendInode

LEMMA AppendAllocOwners ==
    ASSUME StoreInv, up, TypeInv', NEW t \in Thread, AppendAlloc(t)
    PROVE  StoreInv'
  <1> DEFINE l == loc[t]
             free == Len(free_block)
             need == BlocksToAdd(l.inode.size, Len(l.data))
             n == free - need
             taken == SubSeq(free_block, n + 1, free)
  <1>1. TypeInv /\ RunningInv /\ Step(t)
    BY DEF StoreInv, Step, AppendStep
  <1>2. UNCHANGED << disk, dir_inode, req >> /\ pc[t] = "append_alloc"
    BY DEF AppendAlloc, At
  <1>3. CASE UNCHANGED << free_block, loc >> /\ \E why : Return(t, why)
    BY <1>1, <1>2, <1>3, Moves, QuietEnd DEF QuietLabel
  <1>4. CASE /\ ~TooBig(l.inode.size, Len(l.data), free)
             /\ free_block' = SubSeq(free_block, 1, n)
             /\ loc' = [loc EXCEPT ![t].tmp = taken]
             /\ \E label \in {"append_data", "append_partial"} : Goto(t, label)
    <2>1. free_block \in Seq(Block) /\ free \in Nat
      BY <1>1, LocalTypes DEF MemoryOK
    <2>2. l.inode.size \in Nat /\ Len(l.data) \in Nat
      BY <1>1, LocalTypes
    <2>3. need \in Nat /\ need <= free
      BY <1>4, <2>1, <2>2, TooBigExact, BlocksToAddNat
    <2> HIDE DEF need
    <2>4. n \in 0 .. free
      BY <2>1, <2>3
    <2> HIDE DEF n
    <2>5. taken \in Seq(Block)
      BY <2>1, <2>4, SubSeqTail
    <2> HIDE DEF taken
    <2>6. loc'[t] = [l EXCEPT !.tmp = taken]
      BY <1>1, <1>4, LocalTypes
    <2>7. l.inode \in Inode /\ Linked(l.inode) = << >>
      <3>1. l.inode \in Inode /\ InodeOK(l.inode)
        BY <1>1, <1>2, LocalTypes DEF LocalOK, AppendOK
      <3>2. CeilDiv(l.inode.size) >= Len(l.inode.blocks)
        BY <3>1, LinkedTypes DEF InodeOK
      <3>3. QED
        BY <3>1, <3>2, LinkedTypes
    <2>8. pc'[t] \in {"append_data", "append_partial"}
      BY <1>1, <1>4, Moves
    <2>9. /\ loc'[t].inode = l.inode /\ loc'[t].tmp = taken
          /\ loc'[t].inode_block = l.inode_block
      BY <1>1, <2>6, LocalTypes DEF Locals
    <2>10. HeldBlocks(t) = << >> /\ HeldBlocks(t)' = taken \o Linked(l.inode)
      BY <1>2, <2>8, <2>9 DEF HeldBlocks, Linked
    <2>11. HeldBlocks(t)' = HeldBlocks(t) \o taken
      BY <2>5, <2>7, <2>10
    <2>12. HandlerOK(t)'
      <3>1. HandlerOK(t)
        BY <1>1 DEF RunningInv
      <3>2. Used' = Used /\ \A s \in Used : EntryAt(s)' = EntryAt(s)
        BY <1>2, DirectoryFrame DEF Used
      <3>3. FoundOK(t)'
        BY <1>2, <2>9, <3>1, <3>2 DEF HandlerOK, FoundOK, FoundLabel
      <3>4. CopyOK(t)'
        BY <1>2, <2>9, <3>1 DEF HandlerOK, CopyOK, CopyLabel
      <3>5. CreateOK(t)' /\ DeleteOK(t)'
        BY <2>8 DEF CreateOK, DeleteOK
      <3>6. QED
        BY <3>3, <3>4, <3>5 DEF HandlerOK
    <2>13. QED
      BY <1>1, <1>2, <1>4, <2>4, <2>11, <2>12, TakeStep DEF taken
  <1>5. QED
    BY <1>3, <1>4 DEF AppendAlloc

\* The last block of the file gets more bytes, and nothing else changes.
LEMMA AppendPartialFrame ==
    ASSUME StoreInv, up, NEW t \in Thread, AppendPartial(t)
    PROVE  /\ disk'[0] = disk[0]
           /\ \A i \in 1 .. Len(dir_inode) : disk'[dir_inode[i]] = disk[dir_inode[i]]
           /\ \A s \in Used :
                /\ disk'[EntryAt(s).inode_block] = disk[EntryAt(s).inode_block]
                /\ \A k \in 1 .. Len(FileBlocks(s)) : disk'[FileBlocks(s)[k]].kind = "data"
           /\ \A u \in Thread : pc[u] \in CopyLabel =>
                /\ disk'[loc[u].inode_block] = disk[loc[u].inode_block]
                /\ \A k \in 1 .. Len(loc[u].inode.blocks) :
                     k > Len(disk[loc[u].inode_block].blocks) =>
                       disk'[loc[u].inode.blocks[k]].kind = "data"
           /\ loc'[t].inode = loc[t].inode /\ loc'[t].tmp = loc[t].tmp
           /\ loc'[t].inode_block = loc[t].inode_block
           /\ pc'[t] \in {"append_data", "append_commit"}
           /\ HeldBlocks(t)' = HeldBlocks(t)
  <1> DEFINE l == loc[t]
             whole == l.inode.size \div BlockSize
             b == l.inode.blocks[whole + 1]
  <1>1. TypeInv /\ RunningInv /\ Step(t) /\ HandlerOK(t)
    BY DEF StoreInv, Step, AppendStep, RunningInv
  <1>2. UNCHANGED << dir_inode, free_block, req >> /\ pc[t] = "append_partial"
    BY DEF AppendPartial, At, memory
  <1>3. PICK c, rest : /\ disk' = [disk EXCEPT ![b] = c] /\ c.kind = "data"
                       /\ loc' = [loc EXCEPT ![t].data = rest]
                       /\ \E label \in {"append_data", "append_commit"} : Goto(t, label)
    <2> DEFINE c == DataBlock(Overlay(AsBytes(disk[b]), l.inode.size % BlockSize, l.data))
               rest == Rest(l.inode.size % BlockSize, l.data)
    <2>1. /\ disk' = [disk EXCEPT ![b] = c] /\ loc' = [loc EXCEPT ![t].data = rest]
          /\ Goto(t, IF rest = << >> THEN "append_commit" ELSE "append_data")
      BY DEF AppendPartial
    <2>2. c.kind = "data"
      BY DEF DataBlock
    <2> HIDE DEF c, rest, b
    <2>3. QED
      BY <2>1, <2>2
  <1>4. /\ b \in Block /\ disk[b].kind = "data"
    <2>1. l.inode.size \in Nat /\ l.inode.size % BlockSize > 0
      BY <1>1, <1>2, LocalTypes DEF LocalOK, AppendOK
    <2>2. CeilDiv(l.inode.size) = whole + 1 /\ whole \in Nat
      BY <2>1, PartialBlock, BlockDivision
    <2> HIDE DEF whole
    <2>3. whole + 1 \in 1 .. CeilDiv(l.inode.size)
      BY <2>2
    <2>4. /\ b = disk[l.inode_block].blocks[whole + 1]
          /\ disk[l.inode_block].blocks \in Seq(Block)
          /\ whole + 1 \in 1 .. Len(disk[l.inode_block].blocks)
          /\ FileOK(l.inode_block)
      BY <1>1, <1>2, <2>3, CopyFacts DEF CopyLabel, RunningInv
    <2>5. QED
      BY <2>4 DEF FileOK
  <1> HIDE DEF b
  <1>5. disk \in [Block -> Content]
    BY <1>1 DEF TypeInv, TypeOK
  <1>6. /\ \A a \in Block : disk[a].kind # "data" => disk'[a] = disk[a]
        /\ \A a \in Block : disk[a].kind = "data" => disk'[a].kind = "data"
    BY <1>3, <1>4, <1>5
  <1>7. disk'[0] = disk[0]
    BY <1>1, <1>6, ZeroIsBlock DEF RunningInv, DirectoryInv, DirectoryBlock
  <1>8. \A i \in 1 .. Len(dir_inode) : disk'[dir_inode[i]] = disk[dir_inode[i]]
    BY <1>1, <1>6 DEF RunningInv, DirectoryInv, TablesOK, TypeInv, TypeOK
  <1>9. ASSUME NEW s \in Used
         PROVE  /\ disk'[EntryAt(s).inode_block] = disk[EntryAt(s).inode_block]
                /\ \A k \in 1 .. Len(FileBlocks(s)) : disk'[FileBlocks(s)[k]].kind = "data"
    <2>1. EntryAt(s).inode_block \in Block /\ FileBlocks(s) \in Seq(Block)
      BY <1>1, FileTypes DEF RunningInv
    <2>2. FileOK(EntryAt(s).inode_block)
      BY <1>1 DEF RunningInv, DirectoryInv
    <2>3. QED
      BY <1>6, <2>1, <2>2 DEF FileOK, FileBlocks
  <1>10. ASSUME NEW u \in Thread, pc[u] \in CopyLabel
         PROVE  /\ disk'[loc[u].inode_block] = disk[loc[u].inode_block]
                /\ \A k \in 1 .. Len(loc[u].inode.blocks) :
                     k > Len(disk[loc[u].inode_block].blocks) =>
                       disk'[loc[u].inode.blocks[k]].kind = "data"
    <2>1. HandlerOK(u) /\ DirectoryInv
      BY <1>1 DEF RunningInv
    <2>2. PICK s \in Used : EntryAt(s).inode_block = loc[u].inode_block
      BY <1>1, <1>10, <2>1, CopyFacts
    <2>3. \A k \in 1 .. Len(loc[u].inode.blocks) : loc[u].inode.blocks[k] \in Block
      BY <1>1, LocalTypes
    <2>4. QED
      BY <1>6, <1>9, <1>10, <2>1, <2>2, <2>3 DEF HandlerOK, CopyOK, CopyLabel
  <1>11. /\ loc'[t].inode = l.inode /\ loc'[t].tmp = l.tmp
         /\ loc'[t].inode_block = l.inode_block
    BY <1>1, <1>3, LocalTypes DEF Locals
  <1>12. pc'[t] \in {"append_data", "append_commit"}
    BY <1>1, <1>3, Moves
  <1>13. HeldBlocks(t)' = HeldBlocks(t)
    BY <1>2, <1>11, <1>12 DEF HeldBlocks
  <1>14. QED
    BY <1>7, <1>8, <1>9, <1>10, <1>11, <1>12, <1>13

LEMMA AppendPartialOwners ==
    ASSUME StoreInv, up, TypeInv', NEW t \in Thread, AppendPartial(t)
    PROVE  StoreInv'
  <1>1. TypeInv /\ RunningInv /\ Step(t) /\ HandlerOK(t)
    BY DEF StoreInv, Step, AppendStep, RunningInv
  <1>2. UNCHANGED << dir_inode, free_block, req >> /\ pc[t] = "append_partial"
    BY DEF AppendPartial, At, memory
  <1>3. PICK own \in [Block -> Owner] : Ownership(own)
    BY <1>1 DEF RunningInv
  <1>4. \A i \in 1 .. Len(dir_inode) : disk'[dir_inode[i]] = disk[dir_inode[i]]
    BY AppendPartialFrame
  <1>5. DirectoryInv' /\ FilesOwned(own)'
    BY <1>1, <1>2, <1>3, AppendPartialFrame, FrameDirectory DEF RunningInv, Ownership
  <1>6. DirectoryOwned(own)'
    BY <1>1, <1>2, <1>3, OthersDrop DEF Ownership, DirectoryOwned
  <1>7. ASSUME NEW u \in Thread \ {t} PROVE HandlerOK(u)'
    <2>1. t \in ReadingDir
      BY <1>2 DEF ReadingDir, ReadingDirLabel, AppendLabel
    <2>2. HandlerOK(u)
      BY <1>1 DEF RunningInv
    <2>3. QED
      BY <1>1, <1>2, <1>4, <2>1, <2>2, AppendPartialFrame, FrameOthers
  <1>8. /\ loc'[t].inode = loc[t].inode /\ loc'[t].inode_block = loc[t].inode_block
        /\ pc'[t] \in {"append_data", "append_commit"}
        /\ HeldBlocks(t)' = HeldBlocks(t)
    BY AppendPartialFrame
  <1>9. HandlerOK(t)'
    <2>1. Used' = Used /\ \A s \in Used : EntryAt(s)' = EntryAt(s)
      BY <1>2, <1>4, DirectoryFrame DEF Used
    <2>2. FoundOK(t)'
      BY <1>1, <1>2, <1>8, <2>1 DEF HandlerOK, FoundOK, FoundLabel
    <2>3. CopyOK(t)'
      BY <1>1, <1>2, <1>8, AppendPartialFrame DEF HandlerOK, CopyOK, CopyLabel
    <2>4. QED
      BY <1>8, <2>2, <2>3 DEF HandlerOK, CreateOK, DeleteOK
  <1>10. Owns(own, Free, free_block)' /\ Owns(own, HeldBy(t), HeldBlocks(t))'
    BY <1>2, <1>3, <1>8 DEF Ownership, Owns, Free, HeldBy
  <1>11. QED
    BY <1>1, <1>3, <1>5, <1>6, <1>7, <1>9, <1>10, Assemble

\* A block the handler holds gets data, and moves from tmp to the inode.
LEMMA AppendDataMoves ==
    ASSUME StoreInv, up, NEW t \in Thread, AppendData(t)
    PROVE  \E b, c :
             /\ b \in Block /\ b = Head(loc[t].tmp) /\ b \in BlocksOf(HeldBlocks(t))
             /\ disk' = [disk EXCEPT ![b] = c] /\ c.kind = "data"
             /\ pc'[t] \in {"append_data", "append_commit"}
             /\ loc[t].tmp \in Seq(Block) /\ loc[t].tmp # << >>
             /\ loc'[t].inode = [loc[t].inode EXCEPT !.blocks = Append(@, b)]
             /\ loc'[t].inode_block = loc[t].inode_block
             /\ Linked(loc[t].inode) \in Seq(Block)
             /\ HeldBlocks(t) = loc[t].tmp \o Linked(loc[t].inode)
             /\ HeldBlocks(t)' = Tail(loc[t].tmp) \o Append(Linked(loc[t].inode), b)
  <1> DEFINE l == loc[t]
             b == Head(l.tmp)
  <1>1. TypeInv /\ RunningInv /\ Step(t) /\ HandlerOK(t) /\ DirectoryInv
    BY DEF StoreInv, Step, AppendStep, RunningInv
  <1>2. UNCHANGED << dir_inode, free_block, req >> /\ pc[t] = "append_data"
    BY DEF AppendData, At, memory
  <1>3. PICK c, rest : /\ disk' = [disk EXCEPT ![b] = c] /\ c.kind = "data"
                       /\ loc' = [loc EXCEPT ![t].data = rest, ![t].tmp = Tail(@),
                                             ![t].inode.blocks = Append(@, b)]
                       /\ \E label \in {"append_data", "append_commit"} : Goto(t, label)
    <2> DEFINE c == DataBlock(Overlay(EmptyBytes, 0, l.data))
               rest == Rest(0, l.data)
    <2>1. /\ disk' = [disk EXCEPT ![b] = c]
          /\ loc' = [loc EXCEPT ![t].data = rest, ![t].tmp = Tail(@),
                                ![t].inode.blocks = Append(@, b)]
          /\ Goto(t, IF rest = << >> THEN "append_commit" ELSE "append_data")
      BY DEF AppendData
    <2>2. c.kind = "data"
      BY DEF DataBlock
    <2> HIDE DEF c, rest, b
    <2>3. QED
      BY <2>1, <2>2
  <1>4. l.tmp \in Seq(Block) /\ l.tmp # << >>
    <2>1. l.data \in Seq(Byte) /\ l.data # << >> /\ Len(l.tmp) = CeilDiv(Len(l.data))
          /\ l.tmp \in Seq(Block)
      BY <1>1, <1>2, LocalTypes DEF LocalOK, AppendOK
    <2>2. Len(l.data) \in Nat \ {0}
      BY <2>1
    <2>3. CeilDiv(Len(l.data)) > 0
      BY <2>2, CeilDivSteps
    <2>4. QED
      BY <2>1, <2>3
  <1>5. b \in Block /\ b = l.tmp[1] /\ 1 \in 1 .. Len(l.tmp) /\ Tail(l.tmp) \in Seq(Block)
    BY <1>4
  <1> HIDE DEF b
  <1>6. pc'[t] \in {"append_data", "append_commit"}
    BY <1>1, <1>3, Moves
  <1>7. /\ loc'[t].inode = [l.inode EXCEPT !.blocks = Append(@, b)]
        /\ loc'[t].tmp = Tail(l.tmp)
        /\ loc'[t].inode_block = l.inode_block
    BY <1>1, <1>3, LocalTypes DEF Locals
  <1>8. l.inode \in Inode /\ CeilDiv(l.inode.size) <= Len(l.inode.blocks)
    BY <1>1, <1>2, CopyFacts, LocalTypes DEF CopyLabel
  <1>9. Linked(l.inode) \in Seq(Block)
    BY <1>8, LinkedTypes
  <1>10. /\ HeldBlocks(t) = l.tmp \o Linked(l.inode)
         /\ HeldBlocks(t)' = Tail(l.tmp) \o Append(Linked(l.inode), b)
    <2>1. Linked(loc'[t].inode) = Append(Linked(l.inode), b)
      BY <1>5, <1>7, <1>8, LinkedAppend
    <2>2. HeldBlocks(t)' = Tail(l.tmp) \o Linked(loc'[t].inode)
      BY <1>6, <1>7 DEF HeldBlocks, Linked
    <2>3. QED
      BY <1>2, <2>1, <2>2 DEF HeldBlocks, Linked
  <1>11. b \in BlocksOf(HeldBlocks(t))
    <2>1. \A x, y \in Seq(Block) :
            x # << >> => (x \o y)[1] = x[1] /\ 1 \in 1 .. Len(x \o y)
      OBVIOUS
    <2>2. HeldBlocks(t)[1] = b /\ 1 \in 1 .. Len(HeldBlocks(t))
      BY <1>4, <1>5, <1>9, <1>10, <2>1
    <2>3. QED
      BY <2>2 DEF BlocksOf
  <1>12. QED
    BY <1>3, <1>4, <1>5, <1>6, <1>7, <1>9, <1>10, <1>11 DEF b

LEMMA AppendDataOwners ==
    ASSUME StoreInv, up, TypeInv', NEW t \in Thread, AppendData(t)
    PROVE  StoreInv'
  <1> DEFINE l == loc[t]
  <1>1. TypeInv /\ RunningInv /\ Step(t) /\ HandlerOK(t) /\ DirectoryInv
    BY DEF StoreInv, Step, AppendStep, RunningInv
  <1>2. UNCHANGED << dir_inode, free_block, req >> /\ pc[t] = "append_data"
    BY DEF AppendData, At, memory
  <1>3. l.inode \in Inode /\ CeilDiv(l.inode.size) <= Len(l.inode.blocks)
    BY <1>1, <1>2, CopyFacts, LocalTypes DEF CopyLabel
  <1>4. PICK b, c :
          /\ b \in Block /\ b = Head(l.tmp) /\ b \in BlocksOf(HeldBlocks(t))
          /\ disk' = [disk EXCEPT ![b] = c] /\ c.kind = "data"
          /\ pc'[t] \in {"append_data", "append_commit"}
          /\ l.tmp \in Seq(Block) /\ l.tmp # << >>
          /\ loc'[t].inode = [l.inode EXCEPT !.blocks = Append(@, b)]
          /\ loc'[t].inode_block = l.inode_block
          /\ Linked(l.inode) \in Seq(Block)
          /\ HeldBlocks(t) = l.tmp \o Linked(l.inode)
          /\ HeldBlocks(t)' = Tail(l.tmp) \o Append(Linked(l.inode), b)
    BY AppendDataMoves
  <1>5. \A own : Owns(own, HeldBy(t), HeldBlocks(t)) =>
                   Owns(own, HeldBy(t), HeldBlocks(t)')
    BY <1>4, OwnsRotate
  <1>6. t \in ReadingDir
    BY <1>2 DEF ReadingDir, ReadingDirLabel, AppendLabel
  <1>7. HandlerOK(t)'
    <2>1. /\ b \in Block /\ disk \in [Block -> Content]
          /\ \A i \in 1 .. Len(dir_inode) : dir_inode[i] \in Block /\ dir_inode[i] # b
          /\ \A s \in Used : EntryAt(s).inode_block # b
      <3>1. StoreInv /\ up /\ pc[t] # "delete_dir_inode"
        BY <1>2
      <3>2. disk \in [Block -> Content] /\ dir_inode \in Seq(Block)
        BY <1>1 DEF TypeInv, TypeOK
      <3>3. b \in BlocksOf(HeldBlocks(t)) /\ b \in Block
        BY <1>4
      <3>4. /\ \A i \in 1 .. Len(dir_inode) : dir_inode[i] # b
            /\ \A s \in Used : EntryAt(s).inode_block # b
        BY <1>6, <3>1, <3>3, HeldApart
      <3>5. QED
        BY <3>2, <3>3, <3>4
    <2>2. \A i \in 1 .. Len(dir_inode) : disk'[dir_inode[i]] = disk[dir_inode[i]]
      BY <1>4, <2>1
    <2>3. Used' = Used /\ \A s \in Used : EntryAt(s)' = EntryAt(s)
      BY <1>2, <2>2, DirectoryFrame DEF Used
    <2>4. PICK s \in Used : /\ EntryAt(s).name = req[t].name
                            /\ EntryAt(s).inode_block = l.inode_block
      BY <1>1, <1>2 DEF HandlerOK, FoundOK, FoundLabel
    <2>5. FoundOK(t)'
      BY <1>2, <1>4, <2>3, <2>4 DEF FoundOK
    <2>6. /\ l.inode_block \in Block /\ disk'[l.inode_block] = disk[l.inode_block]
          /\ disk'[b].kind = "data"
      BY <1>1, <1>4, <2>1, <2>4, LocalTypes
    <2>7. CopyOK(t)'
      <3> DEFINE i == loc'[t].inode
                 d == disk'[l.inode_block]
                 n == Len(l.inode.blocks)
      <3>1. /\ l.inode.blocks \in Seq(Block) /\ n \in Nat
            /\ i.owner = l.inode.owner /\ i.size = l.inode.size
            /\ i.blocks = Append(l.inode.blocks, b)
        BY <1>4, <1>3 DEF Inode
      <3>2. /\ Len(i.blocks) = n + 1 /\ i.blocks[n + 1] = b
            /\ \A k \in 1 .. n : i.blocks[k] = l.inode.blocks[k]
        BY <1>4, <3>1
      <3>3. /\ d = disk[l.inode_block]
            /\ l.inode.owner = d.owner /\ l.inode.size = d.size
            /\ Len(d.blocks) <= n /\ Len(d.blocks) \in Nat
            /\ \A k \in 1 .. n : IF k <= Len(d.blocks)
                                 THEN l.inode.blocks[k] = d.blocks[k]
                                 ELSE disk[l.inode.blocks[k]].kind = "data"
        <4>1. d.blocks \in Seq(Block)
          BY <1>1, <1>2, <2>6, CopyFacts DEF CopyLabel
        <4>2. QED
          BY <1>1, <1>2, <2>6, <4>1 DEF HandlerOK, CopyOK, CopyLabel
      <3> HIDE DEF i, d, n
      <3>4. ASSUME NEW k \in 1 .. Len(i.blocks)
            PROVE  IF k <= Len(d.blocks) THEN i.blocks[k] = d.blocks[k]
                                         ELSE disk'[i.blocks[k]].kind = "data"
        <4>1. CASE k \in 1 .. n
          <5>1. i.blocks[k] = l.inode.blocks[k] /\ l.inode.blocks[k] \in Block
            BY <3>1, <3>2, <4>1 DEF n
          <5>2. disk[i.blocks[k]].kind = "data" => disk'[i.blocks[k]].kind = "data"
            BY <1>4, <2>1, <5>1
          <5>3. QED
            BY <3>3, <4>1, <5>1, <5>2
        <4>2. CASE k = n + 1
          <5>1. i.blocks[k] = b /\ ~(k <= Len(d.blocks))
            BY <3>1, <3>2, <3>3, <4>2
          <5>2. QED
            BY <2>6, <5>1
        <4>3. QED
          BY <3>1, <3>2, <4>1, <4>2
      <3>5. Len(d.blocks) <= Len(i.blocks)
        BY <3>1, <3>2, <3>3
      <3>6. i.owner = d.owner /\ i.size = d.size
        BY <3>1, <3>3
      <3>7. QED
        BY <1>4, <3>4, <3>5, <3>6 DEF CopyOK, i, d
    <2>8. QED
      BY <1>4, <2>5, <2>7 DEF HandlerOK, CreateOK, DeleteOK
  <1>8. QED
    BY <1>1, <1>2, <1>4, <1>5, <1>6, <1>7, HeldWriteStep

\* The inode that the append saves refers to the blocks it linked: they go
\* from the handler to the file.
LEMMA AppendCommitOwners ==
    ASSUME StoreInv, up, TypeInv', NEW t \in Thread, AppendCommit(t)
    PROVE  StoreInv'
  <1> DEFINE l == loc[t]
             b == l.inode_block
             i == [l.inode EXCEPT !.size = @ + Len(req[t].data)]
             linked == Linked(l.inode)
             o == FileOf(req[t].name)
  <1>1. /\ TypeInv /\ RunningInv /\ Step(t) /\ HandlerOK(t) /\ DirectoryInv
        /\ disk \in [Block -> Content]
    BY DEF StoreInv, Step, AppendStep, RunningInv, TypeInv, TypeOK
  <1>2. UNCHANGED << dir_inode, free_block, req >> /\ pc[t] = "append_commit"
    BY DEF AppendCommit, At, memory
  <1>3. disk' = [disk EXCEPT ![b] = i] /\ pc'[t] = "append_unlock"
    BY <1>1, Moves DEF AppendCommit
  <1>4. PICK own \in [Block -> Owner] : Ownership(own)
    BY <1>1 DEF RunningInv
  <1>5. PICK f \in Used : /\ EntryAt(f).name = req[t].name
                          /\ EntryAt(f).inode_block = b
                          /\ FileBlocks(f) = disk[b].blocks
    BY <1>1, <1>2, CopyFacts DEF CopyLabel
  <1>6. /\ l.inode \in Inode /\ l.inode.blocks \in Seq(Block)
        /\ linked \in Seq(Block) /\ disk[b].blocks \in Seq(Block)
        /\ l.inode.blocks = disk[b].blocks \o linked
        /\ disk[b].owner = l.inode.owner
        /\ FileOK(b)
    BY <1>1, <1>2, LocalTypes, LinkedTypes, CopyFacts, CopySplits DEF CopyLabel
  <1>7. b \in Block \ {0} /\ EntryAt(f).name \in Name \cup {NoName}
    BY <1>1, <1>5, FileTypes
  <1>8. /\ disk'[b] = i /\ i.kind = "inode" /\ i.owner = l.inode.owner
        /\ i.blocks = l.inode.blocks
        /\ \A a \in Block \ {b} : disk'[a] = disk[a]
    BY <1>1, <1>3, <1>6, <1>7 DEF Inode
  <1> HIDE DEF i
  <1>9. /\ o \in Owner /\ HeldBy(t) \in Owner /\ HeldBy(t) # o
        /\ own[b] = o /\ Owns(own, o, disk[b].blocks)
        /\ Owns(own, HeldBy(t), linked)
    <2>1. own[b] = o /\ Owns(own, o, disk[b].blocks)
      BY <1>4, <1>5 DEF Ownership, FilesOwned
    <2>2. Owns(own, HeldBy(t), l.tmp \o linked)
      BY <1>2, <1>4 DEF Ownership, HeldBlocks, Linked
    <2>3. Owns(own, HeldBy(t), linked)
      BY <1>1, <1>6, <2>2, LocalTypes, OwnsConcat
    <2>4. QED
      BY <1>5, <1>7, <2>1, <2>3, OwnersDiffer, OwnerTypes
  <1> HIDE DEF linked, o
  <1>10. PICK own2 : own2 = Moved(own, BlocksOf(linked), o)
    OBVIOUS
  <1>11. /\ own2 \in [Block -> Owner] /\ Owns(own2, o, linked)
         /\ Owns(own2, o, disk[b].blocks)
         /\ \A a \in Block : own2[a] # own[a] => own[a] = HeldBy(t) /\ own2[a] = o
    BY <1>6, <1>9, <1>10, GiveBlocks
  <1>12. Owns(own2, o, i.blocks) /\ own2[b] = o
    <2>1. \A j \in 1 .. Len(disk[b].blocks), k \in 1 .. Len(linked) :
            disk[b].blocks[j] # linked[k]
      BY <1>9 DEF Owns
    <2>2. Owns(own2, o, disk[b].blocks \o linked)
      BY <1>6, <1>11, <2>1, OwnsConcat
    <2>3. QED
      BY <1>6, <1>7, <1>8, <1>9, <1>11, <2>2
  <1>13. t \in ReadingDir /\ Dropping = {}
    BY <1>1, <1>2, NoneDropping DEF ReadingDir, ReadingDirLabel, AppendLabel
  <1>14. /\ disk'[0] = disk[0]
         /\ \A k \in 1 .. Len(dir_inode) : disk'[dir_inode[k]] = disk[dir_inode[k]]
    <2>1. \A k \in 1 .. Len(dir_inode) : dir_inode[k] \in Block /\ own[dir_inode[k]] = InDirectory
      BY <1>1, <1>4, <1>13 DEF Ownership, DirectoryOwned, TypeInv, TypeOK
    <2>2. QED
      BY <1>7, <1>8, <1>9, <2>1, ZeroIsBlock, OwnersDiffer DEF o
  <1>15. Used' = Used /\ \A s \in Used : EntryAt(s)' = EntryAt(s)
    BY <1>2, <1>14, DirectoryFrame DEF Used
  <1>16. ASSUME NEW s \in Used, s # f
         PROVE  EntryAt(s).inode_block \in Block \ {b}
    <2>1. own[EntryAt(s).inode_block] = FileOf(EntryAt(s).name)
      BY <1>4 DEF Ownership, FilesOwned
    <2>2. EntryAt(s).name # EntryAt(f).name
      BY <1>1, <1>16 DEF DirectoryInv, NamesOK
    <2>3. QED
      BY <1>1, <1>5, <1>9, <2>1, <2>2, FileTypes, OwnersDiffer DEF o
  <1>17. \A a \in Block : disk[a].kind = "data" => disk'[a].kind = "data"
    BY <1>6, <1>8 DEF FileOK
  <1>18. ASSUME NEW s \in Used PROVE FileOK(EntryAt(s).inode_block)'
    <2>1. CASE s = f
      <3>1. ASSUME NEW k \in 1 .. Len(i.blocks) PROVE disk'[i.blocks[k]].kind = "data"
        <4>1. k \in 1 .. Len(l.inode.blocks) /\ i.blocks[k] = l.inode.blocks[k]
              /\ i.blocks[k] \in Block
          BY <1>6, <1>8
        <4>2. CASE k <= Len(disk[b].blocks)
          <5>1. k \in 1 .. Len(disk[b].blocks) /\ l.inode.blocks[k] = disk[b].blocks[k]
            BY <1>1, <1>2, <1>6, <4>1, <4>2 DEF HandlerOK, CopyOK, CopyLabel
          <5>2. QED
            BY <1>6, <1>17, <4>1, <5>1 DEF FileOK
        <4>3. CASE ~(k <= Len(disk[b].blocks))
          BY <1>1, <1>2, <1>17, <4>1, <4>3 DEF HandlerOK, CopyOK, CopyLabel
        <4>4. QED
          BY <4>2, <4>3
      <3>2. disk'[b].owner \in User
        BY <1>6, <1>8 DEF FileOK
      <3>3. QED
        BY <1>5, <1>8, <1>15, <2>1, <3>1, <3>2 DEF FileOK
    <2>2. CASE s # f
      <3>1. disk'[EntryAt(s).inode_block] = disk[EntryAt(s).inode_block]
        BY <1>8, <1>16, <2>2
      <3>2. FileOK(EntryAt(s).inode_block) /\ FileBlocks(s) \in Seq(Block)
        BY <1>1, FileTypes DEF DirectoryInv
      <3>3. QED
        BY <1>15, <1>17, <3>1, <3>2 DEF FileOK, FileBlocks
    <2>3. QED
      BY <2>1, <2>2
  <1>19. DirectoryInv'
    <2>1. \A k \in 1 .. Len(dir_inode) : TableAt(k)' = TableAt(k)
      BY <1>2, <1>14, DirectoryFrame
    <2>2. TablesOK' /\ NamesOK'
      BY <1>1, <1>2, <1>14, <1>15, <2>1 DEF DirectoryInv, TablesOK, NamesOK
    <2>3. QED
      BY <1>1, <1>2, <1>14, <1>15, <1>18, <2>2 DEF DirectoryInv
  <1>20. FilesOwned(own2)'
    <2>1. ASSUME NEW s \in Used
          PROVE  /\ own2[EntryAt(s).inode_block] = FileOf(EntryAt(s).name)
                 /\ Owns(own2, FileOf(EntryAt(s).name), FileBlocks(s)')
      <3>1. CASE s = f
        BY <1>5, <1>8, <1>12, <1>15, <3>1 DEF FileBlocks, o
      <3>2. CASE s # f
        <4>1. FileBlocks(s)' = FileBlocks(s)
          BY <1>8, <1>15, <1>16, <3>2 DEF FileBlocks
        <4>2. \A a \in Block : own[a] = FileOf(EntryAt(s).name) =>
                                 own2[a] = FileOf(EntryAt(s).name)
          BY <1>11, OwnersDiffer
        <4>3. QED
          BY <1>1, <1>4, <4>1, <4>2, FileTypes, OwnsFrame DEF Ownership, FilesOwned
      <3>3. QED
        BY <3>1, <3>2
    <2>2. QED
      BY <1>15, <2>1 DEF FilesOwned, FileOf, Owns
  <1>21. DirectoryOwned(own2)'
    <2>1. Dropping \subseteq Dropping'
      BY <1>1, <1>2, OthersDrop
    <2>2. own2[0] = Root
      BY <1>4, <1>11, ZeroIsBlock, OwnersDiffer DEF Ownership, DirectoryOwned
    <2>3. \A k \in 1 .. Len(dir_inode) : own2[dir_inode[k]] = InDirectory
      BY <1>1, <1>4, <1>11, <1>13, OwnersDiffer
         DEF Ownership, DirectoryOwned, TypeInv, TypeOK
    <2>4. QED
      BY <1>2, <1>4, <2>2, <2>3 DEF Ownership, DirectoryOwned, Root, InDirectory
  <1>22. ASSUME NEW u \in Thread \ {t} PROVE HandlerOK(u)'
    <2>1. HandlerOK(u)
      BY <1>1 DEF RunningInv
    <2>2. ASSUME pc[u] \in CopyLabel
          PROVE  /\ disk'[loc[u].inode_block] = disk[loc[u].inode_block]
                 /\ \A k \in 1 .. Len(loc[u].inode.blocks) :
                      k > Len(disk[loc[u].inode_block].blocks) =>
                        disk'[loc[u].inode.blocks[k]].kind = "data"
      <3>1. PICK s \in Used : /\ EntryAt(s).name = req[u].name
                              /\ EntryAt(s).inode_block = loc[u].inode_block
        BY <1>1, <2>1, <2>2, CopyFacts
      <3>2. req[u].name # req[t].name
        <4>1. req[t].name \in Name
          BY <1>1, <1>2 DEF TypeInv, LockInv, RequestType
        <4>2. t \in WritingFile(req[t].name)
          BY <1>2 DEF WritingFile, WritingFileLabel
        <4>3. u \notin WritingFile(req[t].name)
          BY <1>1, <4>1, <4>2, LockInvExclusion DEF TypeInv, Exclusion
        <4>4. QED
          BY <2>2, <4>3 DEF WritingFile, WritingFileLabel, CopyLabel
      <3>3. loc[u].inode_block \in Block \ {b}
        BY <1>5, <1>16, <3>1, <3>2
      <3>4. \A k \in 1 .. Len(loc[u].inode.blocks) : loc[u].inode.blocks[k] \in Block
        BY <1>1, LocalTypes
      <3>5. QED
        BY <1>8, <1>17, <2>1, <2>2, <3>3, <3>4 DEF HandlerOK, CopyOK, CopyLabel
    <2>3. QED
      BY <1>1, <1>2, <1>13, <1>14, <2>1, <2>2, FrameOthers
  <1>23. HandlerOK(t)' /\ HeldBlocks(t)' = << >>
    BY <1>3, QuietLabels DEF QuietLabel
  <1>24. Owns(own2, Free, free_block)' /\ Owns(own2, HeldBy(t), HeldBlocks(t))'
    <2>1. free_block \in Seq(Block) /\ Owns(own, Free, free_block)
      BY <1>1, <1>4 DEF Ownership, TypeInv, TypeOK
    <2>2. Owns(own2, Free, free_block)
      BY <1>11, <2>1, OwnsFrame, OwnersDiffer
    <2>3. Owns(own2, HeldBy(t), HeldBlocks(t)')
      BY <1>23, OwnsEmpty
    <2>4. QED
      BY <1>2, <2>2, <2>3 DEF Owns, Free, HeldBy
  <1>25. \A u \in Thread \ {t} : \A a \in Block : own[a] = HeldBy(u) => own2[a] = HeldBy(u)
    BY <1>11, OwnersDiffer
  <1>26. QED
    BY <1>1, <1>4, <1>11, <1>19, <1>20, <1>21, <1>22, <1>23, <1>24, <1>25, Assemble

-----------------------------------------------------------------------------
(* FS_CREATE                                                               *)

LEMMA OneBlock ==
    \A b : BlocksOf(<< b >>) = {b} /\ << b >>[1] = b
  BY DEF BlocksOf

\* The top of the free list, as TakeStep has it.
LEMMA TopBlock ==
    ASSUME NEW s \in Seq(Block), NEW n \in Nat, Len(s) = n + 1
    PROVE  SubSeq(s, n + 1, Len(s)) = << s[n + 1] >> /\ s[n + 1] \in Block
  <1> DEFINE r == SubSeq(s, n + 1, Len(s))
  <1>1. n + 1 \in 1 .. Len(s) /\ Len(s) - n = 1 /\ 1 \in 1 .. Len(s) - n /\ n <= Len(s)
    OBVIOUS
  <1>2. r \in Seq(Block) /\ Len(r) = 1 /\ r[1] = s[n + 1]
    BY <1>1, SubSeqTail
  <1>3. s[n + 1] \in Block
    BY <1>1
  <1> HIDE DEF r
  <1>4. r = << s[n + 1] >>
    BY <1>2, <1>3
  <1>5. QED
    BY <1>3, <1>4 DEF r

LEMMA CreateReserveOwners ==
    ASSUME StoreInv, up, TypeInv', NEW t \in Thread, CreateReserve(t)
    PROVE  StoreInv'
  <1> DEFINE free == Len(free_block)
             b == free_block[free]
  <1>1. /\ TypeInv /\ RunningInv /\ Step(t) /\ UNCHANGED << disk, dir_inode >>
        /\ pc[t] = "create_reserve"
    BY DEF StoreInv, Step, CreateStep, CreateReserve, At
  <1>2. CASE Return(t, "no_inode_space") /\ UNCHANGED << free_block, loc >>
    BY <1>1, <1>2, Moves, QuietEnd DEF QuietLabel
  <1>3. CASE /\ free > 0 /\ loc' = [loc EXCEPT ![t].free_b_1 = b]
             /\ free_block' = SubSeq(free_block, 1, free - 1) /\ Goto(t, "create_lock")
    <2>1. free_block \in Seq(Block) /\ free \in Nat \ {0}
      BY <1>1, <1>3, LocalTypes DEF TypeInv, TypeOK
    <2>2. free - 1 \in Nat /\ free - 1 \in 0 .. free /\ (free - 1) + 1 = free
      BY <2>1
    <2>3. SubSeq(free_block, (free - 1) + 1, free) = << b >> /\ b \in Block
      BY <2>1, <2>2, TopBlock
    <2>4. pc'[t] = "create_lock" /\ loc'[t].free_b_1 = b
      BY <1>1, <1>3, <2>3, Moves, LocalTypes DEF Locals
    <2>5. HeldBlocks(t) = << >> /\ HeldBlocks(t)' = << b >>
      BY <1>1, <2>4 DEF HeldBlocks
    <2>6. HeldBlocks(t)' = HeldBlocks(t) \o SubSeq(free_block, (free - 1) + 1, free)
      BY <2>3, <2>5
    <2>7. HandlerOK(t)'
      BY <2>4 DEF HandlerOK, FoundOK, CopyOK, CreateOK, DeleteOK, FoundLabel, CopyLabel
    <2>8. QED
      BY <1>1, <1>3, <2>2, <2>6, <2>7, TakeStep
  <1>4. QED
    BY <1>2, <1>3 DEF CreateReserve

\* The lock, and the scan of the directory.
LEMMA CreateOpens ==
    ASSUME StoreInv, up, TypeInv', NEW t \in Thread,
           CreateLock(t) \/ CreateScan(t) \/ CreateUnlock(t)
    PROVE  StoreInv'
  <1>1. /\ TypeInv /\ RunningInv /\ Step(t) /\ pc[t] # "delete_dir_inode"
        /\ UNCHANGED << disk, dir_inode, free_block, req >>
    BY DEF StoreInv, Step, CreateStep, CreateLock, CreateScan, CreateUnlock, At, memory
  <1>2. CASE pc'[t] \in QuietLabel
    BY <1>1, <1>2, QuietEnd
  <1>3. /\ Slots' = Slots /\ Used' = Used
        /\ \A s \in Slots : EntryAt(s)' = EntryAt(s) /\ TableAt(s[1])' = TableAt(s[1])
    BY <1>1, DirectoryFrame DEF Slots
  <1>4. ASSUME Named(req[t].name) = {} PROVE \A s \in Used : EntryAt(s).name # req[t].name
    BY <1>4 DEF Named, Used
  <1>5. CASE CreateLock(t)
    <2>1. /\ pc[t] = "create_lock" /\ pc'[t] = "create_scan" /\ loc' = loc
      BY <1>1, <1>5, Moves DEF CreateLock, At
    <2>2. HeldBlocks(t)' = HeldBlocks(t)
      BY <2>1 DEF HeldBlocks
    <2>3. HandlerOK(t)'
      BY <2>1 DEF HandlerOK, FoundOK, CopyOK, CreateOK, DeleteOK, FoundLabel, CopyLabel
    <2>4. QED
      BY <1>1, <2>2, <2>3, QuietStep
  <1>6. CASE CreateScan(t) /\ pc'[t] \in {"create_inode", "create_extend"}
    <2>1. pc[t] = "create_scan" /\ Named(req[t].name) = {}
      BY <1>1, <1>6, Moves DEF CreateScan, At
    <2>2. loc'[t].free_b_1 = loc[t].free_b_1
      BY <1>1, <1>6, LocalTypes DEF CreateScan, Locals
    <2>3. HeldBlocks(t)' = HeldBlocks(t)
      BY <1>6, <2>1, <2>2 DEF HeldBlocks
    <2>4. \A s \in Used' : EntryAt(s)'.name # req'[t].name
      BY <1>1, <1>3, <1>4, <2>1 DEF Used
    <2>5. ASSUME pc'[t] = "create_inode"
          PROVE  /\ loc'[t].slot \in Slots /\ EntryAt(loc'[t].slot).inode_block = 0
                 /\ loc'[t].table = TableAt(loc'[t].slot[1])
      <3>1. PICK s \in UnusedSlots :
              loc' = [loc EXCEPT ![t].slot = s, ![t].table = TableAt(s[1])]
        <4>1. ~Goto(t, "create_extend") /\ ~Return(t, "exists")
          BY <1>1, <2>5, Moves
        <4>2. QED
          BY <1>6, <4>1 DEF CreateScan
      <3>2. loc'[t].slot = s /\ loc'[t].table = TableAt(s[1])
        BY <1>1, <3>1, LocalTypes DEF Locals
      <3>3. QED
        BY <3>2 DEF UnusedSlots
    <2>6. CreateOK(t)'
      BY <1>3, <1>6, <2>4, <2>5 DEF CreateOK
    <2>7. HandlerOK(t)'
      BY <1>6, <2>6 DEF HandlerOK, FoundOK, CopyOK, DeleteOK, FoundLabel, CopyLabel
    <2>8. QED
      BY <1>1, <2>3, <2>7, QuietStep
  <1>7. QED
    <2>1. CASE CreateScan(t)
      BY <1>1, <1>2, <1>6, <2>1, Moves DEF CreateScan, QuietLabel
    <2>2. CASE CreateUnlock(t)
      BY <1>1, <1>2, <2>2, Moves DEF CreateUnlock, QuietLabel
    <2>3. QED
      BY <1>5, <2>1, <2>2

\* A write of a block that the create holds leaves the directory as it is.
LEMMA HeldDirectory ==
    ASSUME StoreInv, up, NEW t \in Thread, t \in ReadingDir \cup WritingDir,
           pc[t] # "delete_dir_inode", UNCHANGED dir_inode,
           NEW b \in BlocksOf(HeldBlocks(t)), NEW c, disk' = [disk EXCEPT ![b] = c]
    PROVE  /\ Slots' = Slots /\ Used' = Used
           /\ \A s \in Slots : EntryAt(s)' = EntryAt(s) /\ TableAt(s[1])' = TableAt(s[1])
  <1>1. /\ disk \in [Block -> Content]
        /\ \A i \in 1 .. Len(dir_inode) : dir_inode[i] \in Block /\ dir_inode[i] # b
    BY HeldApart DEF StoreInv, TypeInv, TypeOK
  <1>2. \A i \in 1 .. Len(dir_inode) : disk'[dir_inode[i]] = disk[dir_inode[i]]
    BY <1>1
  <1>3. QED
    BY <1>2, DirectoryFrame DEF Slots

\* The inode, in a block that the create holds.
LEMMA CreateInodeOwners ==
    ASSUME StoreInv, up, TypeInv', NEW t \in Thread, CreateInode(t)
    PROVE  StoreInv'
  <1> DEFINE b == loc[t].free_b_1
             c == EmptyInode(req[t].user)
  <1>1. /\ TypeInv /\ RunningInv /\ Step(t) /\ pc[t] = "create_inode"
        /\ UNCHANGED << dir_inode, free_block, req, loc >>
        /\ disk' = [disk EXCEPT ![b] = c] /\ HandlerOK(t)
    BY DEF StoreInv, RunningInv, Step, CreateStep, CreateInode, At, memory
  <1>2. pc'[t] = "create_entry"
    BY <1>1, Moves DEF CreateInode
  <1>3. HeldBlocks(t) = << b >> /\ HeldBlocks(t)' = << b >>
    BY <1>1, <1>2 DEF HeldBlocks
  <1>4. b \in BlocksOf(HeldBlocks(t)) /\ b \in Block /\ t \in WritingDir
    BY <1>1, <1>3, OneBlock, LocalTypes DEF WritingDir, WritingDirLabel, CreateLabel
  <1>5. disk'[b] = c
    BY <1>1, <1>4 DEF TypeInv, TypeOK
  <1> HIDE DEF b, c
  <1>6. /\ Slots' = Slots /\ Used' = Used
        /\ \A s \in Slots : EntryAt(s)' = EntryAt(s) /\ TableAt(s[1])' = TableAt(s[1])
    BY <1>1, <1>4, HeldDirectory
  <1>7. CreateOK(t)'
    BY <1>1, <1>2, <1>5, <1>6 DEF HandlerOK, CreateOK, Used, b, c
  <1>8. HandlerOK(t)'
    BY <1>2, <1>7 DEF HandlerOK, FoundOK, CopyOK, DeleteOK, FoundLabel, CopyLabel
  <1>9. QED
    BY <1>1, <1>3, <1>4, <1>8, HeldWriteStep

\* Two blocks of a handler are two blocks.
LEMMA TwoBlocks ==
    /\ \A a, b : a \in BlocksOf(<< a, b >>) /\ b \in BlocksOf(<< a, b >>)
    /\ \A own, o : \A a, b \in Block :
         Owns(own, o, << a, b >>) => a # b /\ own[a] = o /\ own[b] = o
  <1>1. ASSUME NEW a, NEW b
        PROVE  /\ Len(<< a, b >>) = 2 /\ << a, b >>[1] = a /\ << a, b >>[2] = b
               /\ 1 \in 1 .. 2 /\ 2 \in 1 .. 2
    OBVIOUS
  <1>2. QED
    BY <1>1 DEF BlocksOf, Owns, Distinct

\* A second block of the free list, for a new table; or the first one back.
LEMMA CreateExtendOwners ==
    ASSUME StoreInv, up, TypeInv', NEW t \in Thread, CreateExtend(t)
    PROVE  StoreInv'
  <1> DEFINE free == Len(free_block)
             a == loc[t].free_b_1
             b == free_block[free]
  <1>1. /\ TypeInv /\ RunningInv /\ Step(t) /\ UNCHANGED << disk, dir_inode, req >>
        /\ pc[t] = "create_extend" /\ HandlerOK(t) /\ free_block \in Seq(Block)
        /\ a \in Block
    BY LocalTypes DEF StoreInv, RunningInv, Step, CreateStep, CreateExtend, At, TypeInv, TypeOK
  <1>2. HeldBlocks(t) = << a >>
    BY <1>1 DEF HeldBlocks
  <1>3. CASE /\ free > 0 /\ loc' = [loc EXCEPT ![t].free_b_2 = b]
             /\ free_block' = SubSeq(free_block, 1, free - 1)
             /\ Goto(t, "create_new_inode")
    <2>1. free \in Nat \ {0}
      BY <1>1, <1>3
    <2>2. free - 1 \in Nat /\ free - 1 \in 0 .. free /\ (free - 1) + 1 = free
      BY <2>1
    <2>3. SubSeq(free_block, (free - 1) + 1, free) = << b >> /\ b \in Block
      BY <1>1, <2>1, <2>2, TopBlock
    <2>4. /\ pc'[t] = "create_new_inode" /\ loc'[t].free_b_2 = b
          /\ loc'[t].free_b_1 = a
      BY <1>1, <1>3, <2>3, Moves, LocalTypes DEF Locals
    <2>5. HeldBlocks(t)' = << a, b >>
      BY <2>4 DEF HeldBlocks
    <2>6. HeldBlocks(t)' = HeldBlocks(t) \o SubSeq(free_block, (free - 1) + 1, free)
      <3>1. << a, b >> = << a >> \o << b >>
        OBVIOUS
      <3>2. QED
        BY <1>2, <2>3, <2>5, <3>1
    <2>7. CreateOK(t)'
      <3>1. Used' = Used /\ \A s \in Used : EntryAt(s)' = EntryAt(s)
        BY <1>1, DirectoryFrame DEF Used
      <3>2. QED
        BY <1>1, <2>4, <3>1 DEF HandlerOK, CreateOK
    <2>8. HandlerOK(t)'
      BY <2>4, <2>7 DEF HandlerOK, FoundOK, CopyOK, DeleteOK, FoundLabel, CopyLabel
    <2>9. QED
      BY <1>1, <1>3, <2>2, <2>6, <2>8, TakeStep
  <1>4. CASE free_block' = Append(free_block, a) /\ Return(t, "no_dir_space")
    <2>1. pc'[t] \in QuietLabel
      BY <1>1, <1>4, Moves DEF QuietLabel
    <2>2. free_block' = free_block \o HeldBlocks(t)
      BY <1>1, <1>2, <1>4
    <2>3. QED
      BY <1>1, <2>1, <2>2, QuietLabels, GiveStep
  <1>5. QED
    BY <1>3, <1>4 DEF CreateExtend

LEMMA CreateNewInodeOwners ==
    ASSUME StoreInv, up, TypeInv', NEW t \in Thread, CreateNewInode(t)
    PROVE  StoreInv'
  <1> DEFINE a == loc[t].free_b_1
             b == loc[t].free_b_2
             c == EmptyInode(req[t].user)
  <1>1. /\ TypeInv /\ RunningInv /\ Step(t) /\ pc[t] = "create_new_inode"
        /\ UNCHANGED << dir_inode, free_block, req, loc >>
        /\ disk' = [disk EXCEPT ![b] = c] /\ HandlerOK(t)
    BY DEF StoreInv, RunningInv, Step, CreateStep, CreateNewInode, At, memory
  <1>2. pc'[t] = "create_new_table"
    BY <1>1, Moves DEF CreateNewInode
  <1>3. HeldBlocks(t) = << a, b >> /\ HeldBlocks(t)' = << a, b >>
    BY <1>1, <1>2 DEF HeldBlocks
  <1>4. b \in BlocksOf(HeldBlocks(t)) /\ b \in Block /\ t \in WritingDir
    BY <1>1, <1>3, TwoBlocks, LocalTypes DEF WritingDir, WritingDirLabel, CreateLabel
  <1>5. disk'[b] = c
    BY <1>1, <1>4 DEF TypeInv, TypeOK
  <1> HIDE DEF a, b, c
  <1>6. /\ Slots' = Slots /\ Used' = Used
        /\ \A s \in Slots : EntryAt(s)' = EntryAt(s) /\ TableAt(s[1])' = TableAt(s[1])
    BY <1>1, <1>4, HeldDirectory
  <1>7. CreateOK(t)'
    BY <1>1, <1>2, <1>5, <1>6 DEF HandlerOK, CreateOK, Used, b, c
  <1>8. HandlerOK(t)'
    BY <1>2, <1>7 DEF HandlerOK, FoundOK, CopyOK, DeleteOK, FoundLabel, CopyLabel
  <1>9. QED
    BY <1>1, <1>3, <1>4, <1>8, HeldWriteStep

LEMMA CreateNewTableOwners ==
    ASSUME StoreInv, up, TypeInv', NEW t \in Thread, CreateNewTable(t)
    PROVE  StoreInv'
  <1> DEFINE a == loc[t].free_b_1
             b == loc[t].free_b_2
             c == TableBlock(WithEntry(EmptyTable, 1, req[t].name, b))
  <1>1. /\ TypeInv /\ RunningInv /\ Step(t) /\ pc[t] = "create_new_table"
        /\ UNCHANGED << dir_inode, free_block, req, loc >>
        /\ disk' = [disk EXCEPT ![a] = c] /\ HandlerOK(t)
    BY DEF StoreInv, RunningInv, Step, CreateStep, CreateNewTable, At, memory
  <1>2. pc'[t] = "create_dir_inode"
    BY <1>1, Moves DEF CreateNewTable
  <1>3. HeldBlocks(t) = << a, b >> /\ HeldBlocks(t)' = << a, b >>
    BY <1>1, <1>2 DEF HeldBlocks
  <1>4. a \in BlocksOf(HeldBlocks(t)) /\ a \in Block /\ b \in Block /\ t \in WritingDir
    BY <1>1, <1>3, TwoBlocks, LocalTypes DEF WritingDir, WritingDirLabel, CreateLabel
  <1>5. a # b
    <2>1. PICK own \in [Block -> Owner] : Ownership(own)
      BY <1>1 DEF RunningInv
    <2>2. Owns(own, HeldBy(t), << a, b >>)
      BY <1>3, <2>1 DEF Ownership
    <2>3. QED
      BY <1>4, <2>2, TwoBlocks
  <1>6. disk'[a] = c /\ disk'[b] = EmptyInode(req[t].user)
    BY <1>1, <1>4, <1>5 DEF TypeInv, TypeOK, HandlerOK, CreateOK
  <1> HIDE DEF a, b, c
  <1>7. /\ Slots' = Slots /\ Used' = Used
        /\ \A s \in Slots : EntryAt(s)' = EntryAt(s) /\ TableAt(s[1])' = TableAt(s[1])
    BY <1>1, <1>4, HeldDirectory
  <1>8. CreateOK(t)'
    BY <1>1, <1>2, <1>6, <1>7 DEF HandlerOK, CreateOK, Used, a, b, c
  <1>9. HandlerOK(t)'
    BY <1>2, <1>8 DEF HandlerOK, FoundOK, CopyOK, DeleteOK, FoundLabel, CopyLabel
  <1>10. QED
    BY <1>1, <1>3, <1>4, <1>9, HeldWriteStep

\* A create that has written the inode: the file it makes.
LEMMA NewFile ==
    ASSUME NEW own, NEW e, NEW n, NEW u \in User, e = [name |-> n, inode_block |-> e.inode_block],
           own[e.inode_block] = FileOf(n), disk'[e.inode_block] = EmptyInode(u)
    PROVE  FileGood(own, e)'
  <1>1. e.name = n /\ disk'[e.inode_block].blocks = << >>
        /\ disk'[e.inode_block].kind = "inode" /\ disk'[e.inode_block].owner = u
    BY DEF EmptyInode
  <1>2. FileOK(e.inode_block)'
    BY <1>1 DEF FileOK
  <1>3. Owns(own, FileOf(n), disk'[e.inode_block].blocks)
    BY <1>1, OwnsEmpty
  <1>4. QED
    BY <1>1, <1>2, <1>3 DEF FileGood, FileOf, Owns

\* The entry reaches the disk: the inode's block goes to the file.
LEMMA CreateEntryOwners ==
    ASSUME StoreInv, up, TypeInv', NEW t \in Thread, CreateEntry(t)
    PROVE  StoreInv'
  <1>0. PICK a, n, u, slot, table, k, j, e, tab :
          /\ a = loc[t].free_b_1 /\ n = req[t].name /\ u = req[t].user
          /\ slot = loc[t].slot /\ table = loc[t].table
          /\ k = slot[1] /\ j = slot[2]
          /\ e = [name |-> n, inode_block |-> a]
          /\ tab = WithEntry(table, j, n, a)
    OBVIOUS
  <1>1. /\ TypeInv /\ RunningInv /\ Step(t) /\ pc[t] = "create_entry"
        /\ UNCHANGED << dir_inode, free_block, req, loc >>
        /\ disk' = [disk EXCEPT ![dir_inode[k]] = TableBlock(tab)]
        /\ HandlerOK(t) /\ DirectoryInv
    BY <1>0 DEF StoreInv, RunningInv, Step, CreateStep, CreateEntry, At, memory
  <1>2. pc'[t] = "create_unlock"
    BY <1>1, Moves DEF CreateEntry
  <1>3. t \in WritingDir /\ Dropping = {} /\ a \in Block
    BY <1>0, <1>1, NoneDropping, LocalTypes DEF WritingDir, WritingDirLabel, CreateLabel
  <1>4. /\ \A s \in Used : EntryAt(s).name # n
        /\ slot \in Slots /\ slot \notin Used
        /\ table = TableAt(k) /\ disk[a] = EmptyInode(u)
    BY <1>0, <1>1 DEF HandlerOK, CreateOK, Used
  <1>5. k \in 1 .. Len(dir_inode) /\ j \in 1 .. DirEntries /\ slot = << k, j >>
    BY <1>0, <1>4 DEF Slots
  <1>6. n \in Name /\ u \in User
    BY <1>0, <1>1 DEF TypeInv, LockInv, RequestType
  <1>7. table \in Table /\ tab[j] = e
        /\ \A i \in (1 .. DirEntries) \ {j} : tab[i] = TableAt(k)[i]
    BY <1>0, <1>1, <1>4, <1>5, LocalTypes DEF WithEntry, Table
  <1>8. PICK own \in [Block -> Owner] : Ownership(own)
    BY <1>1 DEF RunningInv
  <1>9. /\ own[a] = HeldBy(t) /\ own[0] = Root /\ Distinct(dir_inode)
        /\ \A i \in 1 .. Len(dir_inode) : dir_inode[i] \in Block /\ own[dir_inode[i]] = InDirectory
    <2>1. Owns(own, HeldBy(t), << a >>)
      BY <1>0, <1>1, <1>8 DEF Ownership, HeldBlocks
    <2>2. own[a] = HeldBy(t)
      BY <1>3, <2>1, OwnsOne
    <2>3. QED
      BY <1>1, <1>3, <1>8, <2>2 DEF Ownership, DirectoryOwned, TypeInv, TypeOK
  <1>10. /\ Slots' = Slots
         /\ TableAt(k)' = tab /\ disk'[dir_inode[k]].kind = "table"
         /\ \A i \in (1 .. Len(dir_inode)) \ {k} :
              TableAt(i)' = TableAt(i) /\ disk'[dir_inode[i]] = disk[dir_inode[i]]
         /\ EntryAt(slot)' = e
         /\ \A s \in Slots \ {slot} : EntryAt(s)' = EntryAt(s)
         /\ \A b \in Block \ {dir_inode[k]} : disk'[b] = disk[b]
    <2>1. /\ UNCHANGED dir_inode /\ TypeInv /\ Distinct(dir_inode)
          /\ k \in 1 .. Len(dir_inode) /\ j \in 1 .. DirEntries
          /\ disk'[dir_inode[k]] = TableBlock(tab)
          /\ \A b \in Block \ {dir_inode[k]} : disk'[b] = disk[b]
          /\ \A i \in (1 .. DirEntries) \ {j} : tab[i] = TableAt(k)[i]
      BY <1>1, <1>5, <1>7, <1>9 DEF TypeInv, TypeOK
    <2>2. /\ Slots' = Slots
          /\ TableAt(k)' = tab
          /\ disk'[dir_inode[k]].kind = "table"
          /\ \A i \in (1 .. Len(dir_inode)) \ {k} :
               TableAt(i)' = TableAt(i) /\ disk'[dir_inode[i]] = disk[dir_inode[i]]
          /\ EntryAt(<< k, j >>)' = tab[j]
          /\ \A s \in Slots \ {<< k, j >>} : EntryAt(s)' = EntryAt(s)
      BY <2>1, TableWrite
    <2>3. EntryAt(slot)' = EntryAt(<< k, j >>)'
      BY <1>5
    <2>4. QED
      BY <1>5, <1>7, <2>1, <2>2, <2>3
  <1>11. a > 0 /\ a # dir_inode[k]
    BY <1>3, <1>5, <1>9, OwnersDiffer DEF Block
  <1>12. Used' = Used \cup {slot}
    BY <1>0, <1>4, <1>10, <1>11 DEF Used
  <1>13. \A s \in Used : s # slot /\ EntryAt(s)' = EntryAt(s)
    BY <1>4, <1>10 DEF Used
  <1>14. TablesOK'
    <2>1. j \in UsedEntries(tab)
      BY <1>0, <1>5, <1>7, <1>11 DEF UsedEntries
    <2>2. QED
      BY <1>1, <1>10, <2>1 DEF TablesOK, DirectoryInv
  <1>15. NamesOK'
    BY <1>0, <1>1, <1>4, <1>10, <1>12, <1>13 DEF NamesOK, DirectoryInv
  <1>16. PICK own2 : own2 = Moved(own, {a}, FileOf(n))
    OBVIOUS
  <1>17. /\ own2 \in [Block -> Owner] /\ own2[a] = FileOf(n)
         /\ \A b \in Block \ {a} : own2[b] = own[b]
    BY <1>3, <1>6, <1>16, MovedType, OwnerTypes DEF Moved
  <1>18. ASSUME NEW s \in Used' PROVE \E x : EntryAt(s)' = x /\ FileGood(own2, x)'
    <2>1. CASE s = slot
      <3>1. e = [name |-> n, inode_block |-> e.inode_block] /\ e.inode_block = a
        BY <1>0
      <3>2. disk'[a] = EmptyInode(u)
        BY <1>3, <1>4, <1>10, <1>11
      <3>3. FileGood(own2, e)'
        BY <1>6, <1>17, <3>1, <3>2, NewFile
      <3>4. QED
        BY <1>10, <2>1, <3>3
    <2>2. CASE s \in Used
      <3>1. \A b \in Block : own[b] = FileOf(EntryAt(s).name) =>
                own2[b] = FileOf(EntryAt(s).name) /\ disk'[b] = disk[b]
        BY <1>5, <1>9, <1>10, <1>17, OwnersDiffer
      <3>2. PICK x : x = EntryAt(s)
        OBVIOUS
      <3>3. FileGood(own2, x)'
        BY <1>1, <1>8, <2>2, <3>1, <3>2, KeptFile DEF Ownership
      <3>4. QED
        BY <1>13, <2>2, <3>2, <3>3
    <2>3. QED
      BY <1>12, <2>1, <2>2
  <1>19. disk'[0] = DirectoryBlock(dir_inode')
    <2>1. dir_inode[k] # 0
      BY <1>5, <1>9, OwnersDiffer
    <2>2. QED
      BY <1>1, <1>10, <2>1, ZeroIsBlock DEF DirectoryInv
  <1>20. DirectoryInv' /\ FilesOwned(own2)'
    BY <1>14, <1>15, <1>18, <1>19, DirectoryStep
  <1>21. DirectoryOwned(own2)'
    <2>1. own2[0] = Root /\ \A i \in 1 .. Len(dir_inode) : own2[dir_inode[i]] = InDirectory
      BY <1>9, <1>17, ZeroIsBlock, OwnersDiffer
    <2>2. QED
      BY <1>1, <1>9, <2>1 DEF DirectoryOwned, Root, InDirectory, Distinct
  <1>22. HandlerOK(t)' /\ Owns(own2, HeldBy(t), HeldBlocks(t)')
    BY <1>2, QuietLabels, OwnsEmpty DEF QuietLabel
  <1>23. QED
    BY <1>1, <1>3, <1>8, <1>9, <1>17, <1>20, <1>21, <1>22, ExclusiveStep

\* The new table has one entry.
LEMMA NewTable ==
    ASSUME NEW n, NEW b \in Block, b > 0
    PROVE  LET tab == WithEntry(EmptyTable, 1, n, b) IN
           /\ 1 \in 1 .. DirEntries
           /\ tab[1] = [name |-> n, inode_block |-> b]
           /\ \A j \in (1 .. DirEntries) \ {1} : tab[j].inode_block = 0
  <1>1. 1 \in 1 .. DirEntries
    BY LayoutAssumption
  <1>2. QED
    BY <1>1 DEF WithEntry, EmptyTable, UnusedEntry

\* A table is added to the directory: the slots of the others stay.
LEMMA TableAdded ==
    ASSUME TypeInv, NEW a \in Block, NEW tab, dir_inode' = Append(dir_inode, a),
           \A b \in Block \ {0} : disk'[b] = disk[b],
           \A i \in 1 .. Len(dir_inode) : dir_inode[i] # 0, a # 0,
           disk[a] = TableBlock(tab), NEW m, m = Len(dir_inode)
    PROVE  /\ m \in Nat /\ Len(dir_inode') = m + 1
           /\ TableAt(m + 1)' = tab /\ disk'[dir_inode'[m + 1]].kind = "table"
           /\ \A i \in 1 .. m : /\ dir_inode'[i] = dir_inode[i]
                                /\ TableAt(i)' = TableAt(i)
                                /\ disk'[dir_inode'[i]] = disk[dir_inode[i]]
           /\ \A s \in Slots : s \in Slots' /\ EntryAt(s)' = EntryAt(s)
           /\ \A s \in Slots' \ Slots :
                s[1] = m + 1 /\ s[2] \in 1 .. DirEntries /\ s = << s[1], s[2] >>
           /\ \A j \in 1 .. DirEntries :
                << m + 1, j >> \in Slots' \ Slots /\ EntryAt(<< m + 1, j >>)' = tab[j]
  <1>1. dir_inode \in Seq(Block) /\ m \in Nat
        /\ \A i \in 1 .. m : dir_inode[i] \in Block \ {0}
    BY DEF TypeInv, TypeOK
  <1>2. /\ Len(dir_inode') = m + 1 /\ dir_inode'[m + 1] = a
        /\ \A i \in 1 .. m : dir_inode'[i] = dir_inode[i]
    BY <1>1
  <1>3. TableAt(m + 1)' = tab /\ disk'[dir_inode'[m + 1]].kind = "table"
    BY <1>2 DEF TableAt, AsTable, TableBlock
  <1>4. \A i \in 1 .. m : /\ TableAt(i)' = TableAt(i)
                          /\ disk'[dir_inode'[i]] = disk[dir_inode[i]]
    BY <1>1, <1>2 DEF TableAt
  <1>5. Slots = (1 .. m) \X (1 .. DirEntries) /\ Slots' = (1 .. m + 1) \X (1 .. DirEntries)
    BY <1>2 DEF Slots
  <1>6. ASSUME NEW s \in Slots PROVE s \in Slots' /\ EntryAt(s)' = EntryAt(s)
    <2>1. s \in (1 .. m) \X (1 .. DirEntries)
      BY <1>5
    <2>2. s[1] \in 1 .. m /\ s[1] \in 1 .. m + 1 /\ s[2] \in 1 .. DirEntries
          /\ s = << s[1], s[2] >>
      BY <1>1, <2>1
    <2>3. QED
      BY <1>4, <1>5, <2>2 DEF EntryAt
  <1>7. ASSUME NEW s \in Slots' \ Slots
        PROVE  s[1] = m + 1 /\ s[2] \in 1 .. DirEntries /\ s = << s[1], s[2] >>
    <2>1. s[1] \in 1 .. m + 1 /\ s[2] \in 1 .. DirEntries /\ s = << s[1], s[2] >>
      BY <1>5
    <2>2. s[1] \notin 1 .. m
      BY <1>5, <2>1
    <2>3. QED
      BY <1>1, <2>1, <2>2
  <1>8. ASSUME NEW j \in 1 .. DirEntries
        PROVE  << m + 1, j >> \in Slots' \ Slots /\ EntryAt(<< m + 1, j >>)' = tab[j]
    <2>1. m + 1 \in 1 .. m + 1 /\ m + 1 \notin 1 .. m
      BY <1>1
    <2>2. QED
      BY <1>3, <1>5, <2>1 DEF EntryAt
  <1>9. QED
    BY <1>1, <1>2, <1>3, <1>4, <1>6, <1>7, <1>8

\* Block 0 gets the new table: it goes to the directory, and the inode's
\* block to the file.
LEMMA CreateDirInodeOwners ==
    ASSUME StoreInv, up, TypeInv', NEW t \in Thread, CreateDirInode(t)
    PROVE  StoreInv'
  <1>0. PICK a, b, n, u, m, s0, e, tab :
          /\ a = loc[t].free_b_1 /\ b = loc[t].free_b_2
          /\ n = req[t].name /\ u = req[t].user
          /\ m = Len(dir_inode) /\ s0 = << m + 1, 1 >>
          /\ e = [name |-> n, inode_block |-> b]
          /\ tab = WithEntry(EmptyTable, 1, n, b)
    OBVIOUS
  <1>1. /\ TypeInv /\ RunningInv /\ Step(t) /\ pc[t] = "create_dir_inode"
        /\ UNCHANGED << free_block, req, loc >>
        /\ dir_inode' = Append(dir_inode, a)
        /\ disk' = [disk EXCEPT ![0] = DirectoryBlock(dir_inode')]
        /\ HandlerOK(t) /\ DirectoryInv
    BY <1>0 DEF StoreInv, RunningInv, Step, CreateStep, CreateDirInode, At, memory
  <1>2. pc'[t] = "create_unlock"
    BY <1>1, Moves DEF CreateDirInode
  <1>3. t \in WritingDir /\ Dropping = {} /\ a \in Block /\ b \in Block
    BY <1>0, <1>1, NoneDropping, LocalTypes DEF WritingDir, WritingDirLabel, CreateLabel
  <1>4. /\ \A s \in Used : EntryAt(s).name # n
        /\ disk[a] = TableBlock(tab) /\ disk[b] = EmptyInode(u)
    BY <1>0, <1>1 DEF HandlerOK, CreateOK
  <1>5. n \in Name /\ u \in User
    BY <1>0, <1>1 DEF TypeInv, LockInv, RequestType
  <1>6. PICK own \in [Block -> Owner] : Ownership(own)
    BY <1>1 DEF RunningInv
  <1>7. /\ own[a] = HeldBy(t) /\ own[b] = HeldBy(t) /\ a # b
        /\ own[0] = Root /\ Distinct(dir_inode)
        /\ \A i \in 1 .. m : dir_inode[i] \in Block /\ own[dir_inode[i]] = InDirectory
    <2>1. Owns(own, HeldBy(t), << a, b >>)
      BY <1>0, <1>1, <1>6 DEF Ownership, HeldBlocks
    <2>2. own[a] = HeldBy(t) /\ own[b] = HeldBy(t) /\ a # b
      BY <1>3, <2>1, TwoBlocks
    <2>3. QED
      BY <1>0, <1>1, <1>3, <1>6, <2>2 DEF Ownership, DirectoryOwned, TypeInv, TypeOK
  <1>8. a # 0 /\ b # 0 /\ b > 0 /\ \A i \in 1 .. m : dir_inode[i] # 0
    BY <1>3, <1>7, OwnersDiffer DEF Block
  <1>9. disk'[0] = DirectoryBlock(dir_inode') /\ \A x \in Block \ {0} : disk'[x] = disk[x]
    BY <1>1, ZeroIsBlock DEF TypeInv, TypeOK
  <1>10. /\ m \in Nat /\ Len(dir_inode') = m + 1
         /\ TableAt(m + 1)' = tab /\ disk'[dir_inode'[m + 1]].kind = "table"
         /\ \A i \in 1 .. m : /\ dir_inode'[i] = dir_inode[i]
                              /\ TableAt(i)' = TableAt(i)
                              /\ disk'[dir_inode'[i]] = disk[dir_inode[i]]
         /\ \A s \in Slots : s \in Slots' /\ EntryAt(s)' = EntryAt(s)
         /\ \A s \in Slots' \ Slots :
              s[1] = m + 1 /\ s[2] \in 1 .. DirEntries /\ s = << s[1], s[2] >>
         /\ \A j \in 1 .. DirEntries :
              << m + 1, j >> \in Slots' \ Slots /\ EntryAt(<< m + 1, j >>)' = tab[j]
    BY <1>0, <1>1, <1>3, <1>4, <1>8, <1>9, TableAdded
  <1>11. /\ 1 \in 1 .. DirEntries /\ tab[1] = e /\ e.inode_block = b /\ e.name = n
         /\ \A j \in (1 .. DirEntries) \ {1} : tab[j].inode_block = 0
    BY <1>0, <1>3, <1>8, NewTable
  <1>12. s0 \in Slots' /\ s0 \notin Slots /\ EntryAt(s0)' = e
    <2>1. EntryAt(s0)' = EntryAt(<< m + 1, 1 >>)' /\ s0 = << m + 1, 1 >>
      BY <1>0
    <2>2. QED
      BY <1>10, <1>11, <2>1
  <1>13. Used' = Used \cup {s0}
    <2>1. ASSUME NEW s \in Used' PROVE s \in Used \cup {s0}
      <3>1. s \in Slots' /\ EntryAt(s)'.inode_block > 0
        BY DEF Used
      <3>2. CASE s \in Slots
        BY <1>10, <3>1, <3>2 DEF Used
      <3>3. CASE s \notin Slots
        <4>1. s = << m + 1, s[2] >> /\ s[2] \in 1 .. DirEntries
          BY <1>10, <3>1, <3>3
        <4>2. EntryAt(s)' = EntryAt(<< m + 1, s[2] >>)'
          BY <4>1
        <4>3. EntryAt(s)' = tab[s[2]]
          BY <1>10, <4>1, <4>2
        <4>4. s[2] = 1
          BY <1>11, <3>1, <4>1, <4>3
        <4>5. QED
          BY <1>0, <4>1, <4>4
      <3>4. QED
        BY <3>2, <3>3
    <2>2. \A s \in Used : s \in Used'
      BY <1>10 DEF Used
    <2>3. s0 \in Used'
      BY <1>8, <1>11, <1>12 DEF Used
    <2>4. QED
      BY <2>1, <2>2, <2>3
  <1>14. \A s \in Used : s # s0 /\ EntryAt(s)' = EntryAt(s)
    BY <1>10, <1>12 DEF Used
  <1>15. TablesOK'
    <2>1. 1 \in UsedEntries(tab)
      BY <1>8, <1>11 DEF UsedEntries
    <2>2. \A i \in 1 .. m + 1 : i \in 1 .. m \/ i = m + 1
      BY <1>10
    <2>3. \A i \in 1 .. m : disk[dir_inode[i]].kind = "table" /\ UsedEntries(TableAt(i)) # {}
      BY <1>0, <1>1 DEF TablesOK, DirectoryInv
    <2>4. ASSUME NEW i \in 1 .. m + 1
          PROVE  disk'[dir_inode'[i]].kind = "table" /\ UsedEntries(TableAt(i)') # {}
      <3>1. CASE i \in 1 .. m
        BY <1>10, <2>3, <3>1
      <3>2. CASE i = m + 1
        BY <1>10, <2>1, <3>2
      <3>3. QED
        BY <2>2, <3>1, <3>2
    <2>5. QED
      BY <1>10, <2>4 DEF TablesOK, UsedEntries
  <1>16. NamesOK'
    BY <1>1, <1>4, <1>11, <1>12, <1>13, <1>14 DEF NamesOK, DirectoryInv
  <1>17. PICK own2 : own2 = Moved(Moved(own, {a}, InDirectory), {b}, FileOf(n))
    OBVIOUS
  <1>18. /\ own2 \in [Block -> Owner] /\ own2[a] = InDirectory /\ own2[b] = FileOf(n)
         /\ \A x \in Block \ {a, b} : own2[x] = own[x]
    <2>1. Moved(own, {a}, InDirectory) \in [Block -> Owner]
      BY MovedType, OwnerTypes
    <2>2. own2 \in [Block -> Owner]
      BY <1>5, <1>17, <2>1, MovedType, OwnerTypes
    <2>3. QED
      BY <1>3, <1>7, <1>17, <2>2 DEF Moved
  <1>19. ASSUME NEW s \in Used' PROVE \E x : EntryAt(s)' = x /\ FileGood(own2, x)'
    <2>1. CASE s = s0
      <3>1. e = [name |-> n, inode_block |-> e.inode_block] /\ e.inode_block = b
        BY <1>0
      <3>2. disk'[b] = EmptyInode(u)
        BY <1>3, <1>4, <1>8, <1>9
      <3>3. FileGood(own2, e)'
        BY <1>5, <1>18, <3>1, <3>2, NewFile
      <3>4. QED
        BY <1>12, <2>1, <3>3
    <2>2. CASE s \in Used
      <3>1. \A x \in Block : own[x] = FileOf(EntryAt(s).name) =>
                own2[x] = FileOf(EntryAt(s).name) /\ disk'[x] = disk[x]
        BY <1>7, <1>9, <1>18, OwnersDiffer
      <3>2. PICK x : x = EntryAt(s)
        OBVIOUS
      <3>3. FileGood(own2, x)'
        BY <1>1, <1>6, <2>2, <3>1, <3>2, KeptFile DEF Ownership
      <3>4. QED
        BY <1>14, <2>2, <3>2, <3>3
    <2>3. QED
      BY <1>13, <2>1, <2>2
  <1>20. DirectoryInv' /\ FilesOwned(own2)'
    BY <1>9, <1>15, <1>16, <1>19, DirectoryStep
  <1>21. DirectoryOwned(own2)'
    <2>1. own2[0] = Root
      BY <1>7, <1>8, <1>18, ZeroIsBlock
    <2>2. dir_inode'[m + 1] = a
      BY <1>0, <1>1 DEF TypeInv, TypeOK
    <2>3. \A i \in 1 .. m + 1 : i \in 1 .. m \/ i = m + 1
      BY <1>10
    <2>4. \A i \in 1 .. m : dir_inode'[i] = dir_inode[i] /\ own2[dir_inode[i]] = InDirectory
                            /\ dir_inode[i] # a
      BY <1>7, <1>10, <1>18, OwnersDiffer
    <2>5. \A i \in 1 .. m + 1 : own2[dir_inode'[i]] = InDirectory
      BY <1>18, <2>2, <2>3, <2>4
    <2>6. ASSUME NEW i \in 1 .. m + 1, NEW j \in 1 .. m + 1, dir_inode'[i] = dir_inode'[j]
          PROVE  i = j
      BY <1>0, <1>7, <2>2, <2>3, <2>4, <2>6 DEF Distinct
    <2>7. QED
      BY <1>10, <2>1, <2>5, <2>6 DEF DirectoryOwned, Root, InDirectory, Distinct
  <1>22. HandlerOK(t)' /\ Owns(own2, HeldBy(t), HeldBlocks(t)')
    BY <1>2, QuietLabels, OwnsEmpty DEF QuietLabel
  <1>23. QED
    BY <1>1, <1>3, <1>6, <1>7, <1>18, <1>20, <1>21, <1>22, ExclusiveStep

-----------------------------------------------------------------------------
(* FS_DELETE                                                               *)

LEMMA OneEntry ==
    ASSUME NEW tab, NEW j \in UsedEntries(tab)
    PROVE  Cardinality(UsedEntries(tab)) = 1 <=> UsedEntries(tab) = {j}
  <1>1. IsFiniteSet(1 .. DirEntries)
    <2>1. 1 \in Int /\ DirEntries \in Int
      BY LayoutAssumption
    <2>2. QED
      BY <2>1, FS_Interval
  <1>2. IsFiniteSet(UsedEntries(tab))
    BY <1>1, FS_Subset DEF UsedEntries
  <1>3. ASSUME Cardinality(UsedEntries(tab)) = 1 PROVE UsedEntries(tab) = {j}
    <2>1. PICK x : UsedEntries(tab) = {x}
      BY <1>2, <1>3, FS_Singleton
    <2>2. QED
      BY <2>1
  <1>4. ASSUME UsedEntries(tab) = {j} PROVE Cardinality(UsedEntries(tab)) = 1
    BY <1>4, FS_Singleton
  <1>5. QED
    BY <1>3, <1>4

\* The entry, the table and the inode that a delete read, with the directory
\* to itself.
LEMMA DeleteFindOpens ==
    ASSUME TypeInv, DirectoryInv, NEW t \in Thread, DeleteFind(t),
           pc'[t] \in {"delete_free_table", "delete_entry"}
    PROVE  HandlerOK(t)' /\ HeldBlocks(t)' = << >>
  <1>1. UNCHANGED << disk, dir_inode, req >>
    BY DEF DeleteFind, memory
  <1>2. PICK s \in Named(req[t].name) :
          /\ loc' = [loc EXCEPT ![t].slot = s, ![t].table = TableAt(s[1]),
                                ![t].inode_block = EntryAt(s).inode_block,
                                ![t].inode = AsInode(disk[EntryAt(s).inode_block])]
          /\ Goto(t, IF Cardinality(UsedEntries(TableAt(s[1]))) = 1
                     THEN "delete_free_table" ELSE "delete_entry")
    <2>1. \A why : ~Return(t, why)
      BY Moves
    <2>2. QED
      BY <2>1 DEF DeleteFind
  <1>3. s \in Slots /\ s \in Used
    BY DEF Named, Used
  <1>4. /\ Slots' = Slots /\ Used' = Used
        /\ \A r \in Slots : EntryAt(r)' = EntryAt(r) /\ TableAt(r[1])' = TableAt(r[1])
    BY <1>1, DirectoryFrame DEF Slots
  <1>5. AsInode(disk[EntryAt(s).inode_block]) = disk[EntryAt(s).inode_block]
    BY <1>3 DEF DirectoryInv, FileOK, AsInode
  <1>6. /\ loc'[t].slot = s /\ loc'[t].table = TableAt(s[1])
        /\ loc'[t].inode_block = EntryAt(s).inode_block
        /\ loc'[t].inode = disk[EntryAt(s).inode_block]
    BY <1>2, <1>5, LocalTypes DEF Locals
  <1>7. s[2] \in UsedEntries(TableAt(s[1]))
    BY <1>3 DEF Used, Slots, EntryAt, UsedEntries
  <1>8. UsedEntries(TableAt(s[1])) = {s[2]} <=> pc'[t] # "delete_entry"
    <2>1. pc'[t] = IF Cardinality(UsedEntries(TableAt(s[1]))) = 1
                   THEN "delete_free_table" ELSE "delete_entry"
      BY <1>2, Moves
    <2>2. QED
      BY <1>7, <2>1, OneEntry
  <1>9. DeleteOK(t)'
    <2>1. UsedEntries(loc'[t].table) = {loc'[t].slot[2]} <=> pc'[t] # "delete_entry"
      BY <1>6, <1>8
    <2>2. UsedEntries(loc[t].table)' = UsedEntries(loc'[t].table)
      BY DEF UsedEntries
    <2>3. /\ loc'[t].slot \in Used' /\ loc'[t].table = TableAt(loc[t].slot[1])'
          /\ loc'[t].inode_block = EntryAt(loc[t].slot)'.inode_block
          /\ loc'[t].inode = disk'[loc'[t].inode_block]
      <3>1. TableAt(loc[t].slot[1])' = TableAt(s[1])' /\ EntryAt(loc[t].slot)' = EntryAt(s)'
        BY <1>6
      <3>2. QED
        BY <1>1, <1>3, <1>4, <1>6, <3>1
    <2>4. QED
      BY <2>1, <2>2, <2>3 DEF DeleteOK
  <1>10. QED
    BY <1>9 DEF HandlerOK, FoundOK, CopyOK, CreateOK, FoundLabel, CopyLabel, HeldBlocks

LEMMA DeleteOpens ==
    ASSUME StoreInv, up, TypeInv', NEW t \in Thread,
           DeleteLock(t) \/ DeleteFind(t) \/ DeleteUnlock(t)
    PROVE  StoreInv'
  <1>1. /\ TypeInv /\ RunningInv /\ Step(t) /\ pc[t] # "delete_dir_inode"
        /\ UNCHANGED << disk, dir_inode, free_block, req >>
    BY DEF StoreInv, Step, DeleteStep, DeleteLock, DeleteFind, DeleteUnlock, At, memory
  <1>2. CASE pc'[t] \in QuietLabel
    BY <1>1, <1>2, QuietEnd
  <1>3. CASE DeleteFind(t) /\ pc'[t] \in {"delete_free_table", "delete_entry"}
    BY <1>1, <1>3, DeleteFindOpens, QuietStep DEF RunningInv
  <1>4. QED
    <2>1. CASE DeleteLock(t) \/ DeleteUnlock(t)
      BY <1>1, <1>2, <2>1, Moves DEF DeleteLock, DeleteUnlock, QuietLabel
    <2>2. CASE DeleteFind(t)
      <3>1. pc'[t] \in {"delete_find", "reply", "delete_free_table", "delete_entry"}
        BY <1>1, <2>2, Moves DEF DeleteFind
      <3>2. QED
        BY <1>2, <1>3, <2>2, <3>1 DEF QuietLabel
    <2>3. QED
      BY <2>1, <2>2

\* What a delete knows of the entry holds while its table is on the free list.
LEMMA FreedTable ==
    ASSUME TypeInv, NEW t \in Thread, DeleteFreeTable(t), HandlerOK(t)
    PROVE  HandlerOK(t)' /\ HeldBlocks(t)' = << >>
  <1>1. pc[t] = "delete_free_table" /\ UNCHANGED << disk, dir_inode, req, loc >>
    BY DEF DeleteFreeTable, At
  <1>2. pc'[t] = "delete_dir_inode"
    BY Moves DEF DeleteFreeTable
  <1>3. Used' = Used
    BY <1>1, DirectoryFrame
  <1>4. DeleteOK(t)'
    <2>1. /\ loc[t].slot \in Used
          /\ loc[t].table = TableAt(loc[t].slot[1])
          /\ loc[t].inode_block = EntryAt(loc[t].slot).inode_block
          /\ loc[t].inode = disk[loc[t].inode_block]
          /\ UsedEntries(loc[t].table) = {loc[t].slot[2]}
      BY <1>1 DEF HandlerOK, DeleteOK
    <2>2. TableAt(loc[t].slot[1])' = TableAt(loc[t].slot[1])
          /\ EntryAt(loc[t].slot)' = EntryAt(loc[t].slot)
          /\ UsedEntries(loc[t].table)' = UsedEntries(loc[t].table)
      BY <1>1 DEF TableAt, EntryAt, UsedEntries
    <2>3. QED
      BY <1>1, <1>2, <1>3, <2>1, <2>2 DEF DeleteOK
  <1>5. QED
    BY <1>2, <1>4 DEF HandlerOK, FoundOK, CopyOK, CreateOK, FoundLabel, CopyLabel, HeldBlocks

\* The table's block goes to the free list, while block 0 still lists it.
LEMMA DeleteFreeTableOwners ==
    ASSUME StoreInv, up, TypeInv', NEW t \in Thread, DeleteFreeTable(t)
    PROVE  StoreInv'
  <1>0. PICK k, d, table : k = loc[t].slot[1] /\ d = dir_inode[k] /\ table = << d >>
    OBVIOUS
  <1>1. /\ TypeInv /\ RunningInv /\ Step(t) /\ pc[t] = "delete_free_table"
        /\ UNCHANGED << disk, dir_inode, req, loc >> /\ HandlerOK(t)
        /\ free_block' = Append(free_block, d)
    BY <1>0 DEF StoreInv, RunningInv, Step, DeleteStep, DeleteFreeTable, At
  <1>2. pc'[t] = "delete_dir_inode"
    BY <1>1, Moves DEF DeleteFreeTable
  <1>3. t \in WritingDir /\ Dropping = {}
    BY <1>1, NoneDropping DEF WritingDir, WritingDirLabel, DeleteLabel
  <1>4. loc[t].slot \in Used /\ k \in 1 .. Len(dir_inode)
    BY <1>0, <1>1 DEF HandlerOK, DeleteOK, Used, Slots
  <1>5. PICK own \in [Block -> Owner] : Ownership(own)
    BY <1>1 DEF RunningInv
  <1>6. /\ own[0] = Root /\ Distinct(dir_inode)
        /\ \A i \in 1 .. Len(dir_inode) : dir_inode[i] \in Block /\ own[dir_inode[i]] = InDirectory
        /\ free_block \in Seq(Block) /\ Owns(own, Free, free_block)
    BY <1>1, <1>3, <1>5 DEF Ownership, DirectoryOwned, TypeInv, TypeOK
  <1>7. /\ d \in Block /\ own[d] = InDirectory /\ table \in Seq(Block)
        /\ Owns(own, InDirectory, table)
    BY <1>0, <1>4, <1>6, OwnsOne
  <1>8. PICK own2 : own2 = Moved(own, BlocksOf(table), Free)
    OBVIOUS
  <1>9. /\ own2 \in [Block -> Owner] /\ Owns(own2, Free, table)
        /\ Owns(own2, Free, free_block)
        /\ \A b \in Block : own2[b] # own[b] => own[b] = InDirectory /\ b = d
    <2>1. Free \in Owner /\ InDirectory \in Owner /\ Free # InDirectory
      BY OwnersDiffer, OwnerTypes
    <2>2. BlocksOf(table) = {d}
      BY <1>0, OneBlock
    <2>3. /\ own2 \in [Block -> Owner] /\ Owns(own2, Free, table)
          /\ \A f \in Seq(Block) : Owns(own, Free, f) => Owns(own2, Free, f)
          /\ \A b \in Block : own2[b] # own[b] =>
               own[b] = InDirectory /\ own2[b] = Free /\ b \in BlocksOf(table)
      BY <1>7, <1>8, <2>1, GiveBlocks
    <2>4. QED
      BY <1>6, <2>2, <2>3
  <1>10. Owns(own2, Free, free_block')
    <2>1. \A i \in 1 .. Len(free_block), j \in 1 .. Len(table) : free_block[i] # table[j]
      BY <1>6, <1>7, OwnersDiffer DEF Owns
    <2>2. Owns(own2, Free, free_block \o table)
      BY <1>6, <1>7, <1>9, <2>1, OwnsConcat
    <2>3. free_block' = free_block \o table
      BY <1>0, <1>1, <1>6, <1>7
    <2>4. QED
      BY <2>2, <2>3
  <1>11. HandlerOK(t)' /\ HeldBlocks(t)' = << >>
    BY <1>1, FreedTable
  <1>12. DirectoryOwned(own2)'
    <2>1. k \in Dropping'
      BY <1>0, <1>1, <1>2 DEF Dropping, At
    <2>2. own2[0] = Root
      BY <1>6, <1>9, ZeroIsBlock, OwnersDiffer
    <2>3. ASSUME NEW i \in 1 .. Len(dir_inode)
          PROVE  own2[dir_inode[i]] = InDirectory \/ (i = k /\ own2[dir_inode[i]] \in Spare)
      <3>1. CASE i = k
        <4>1. own2[d] = Free
          BY <1>0, <1>7, <1>9, OwnsOne
        <4>2. QED
          BY <1>0, <3>1, <4>1, OwnerTypes
      <3>2. CASE i # k
        <4>1. dir_inode[i] # d
          BY <1>0, <1>4, <1>6, <3>2 DEF Distinct
        <4>2. QED
          BY <1>6, <1>9, <4>1
      <3>3. QED
        BY <3>1, <3>2
    <2>4. QED
      BY <1>1, <1>6, <2>1, <2>2, <2>3 DEF DirectoryOwned, Root, InDirectory, Spare, Free, HeldBy, Distinct
  <1>13. Owns(own2, Free, free_block)' /\ Owns(own2, HeldBy(t), HeldBlocks(t))'
    <2>1. Owns(own2, HeldBy(t), HeldBlocks(t)')
      BY <1>11, OwnsEmpty
    <2>2. QED
      BY <1>10, <2>1 DEF Owns, Free, HeldBy
  <1>14. QED
    BY <1>1, <1>5, <1>9, <1>11, <1>12, <1>13, FreeListStep

\* The blocks of a file, the inode's last.
Whole(s) == FileBlocks(s) \o << EntryAt(s).inode_block >>

\* The file that a delete drops goes to the handler.
LEMMA FileMoves ==
    ASSUME TypeInv, DirectoryInv, NEW t \in Thread,
           NEW own \in [Block -> Owner], Ownership(own), NEW s \in Used,
           NEW file, file = Whole(s), NEW own2, own2 = Moved(own, BlocksOf(file), HeldBy(t))
    PROVE  /\ own2 \in [Block -> Owner]
           /\ Owns(own2, HeldBy(t), file)
           /\ \A b \in Block : own2[b] # own[b] => own[b] = FileOf(EntryAt(s).name)
  <1>0. PICK bs, b, o, one :
          /\ bs = FileBlocks(s) /\ b = EntryAt(s).inode_block
          /\ o = FileOf(EntryAt(s).name) /\ one = << b >>
    OBVIOUS
  <1>1. /\ bs \in Seq(Block) /\ b \in Block /\ one \in Seq(Block) /\ o \in Owner
    BY <1>0, FileTypes, OwnerTypes
  <1>2. own[b] = o /\ Owns(own, o, bs)
    BY <1>0 DEF Ownership, FilesOwned
  <1>3. \A i \in 1 .. Len(bs) : bs[i] # b
    BY <1>0 DEF DirectoryInv, FileOK, FileBlocks
  <1>4. Owns(own, o, one)
    BY <1>0, <1>1, <1>2, OwnsOne
  <1>5. \A i \in 1 .. Len(bs), j \in 1 .. Len(one) : bs[i] # one[j]
    BY <1>0, <1>3
  <1>6. file \in Seq(Block) /\ Owns(own, o, file)
    <2>1. bs \o one \in Seq(Block) /\ Owns(own, o, bs \o one)
      BY <1>1, <1>2, <1>4, <1>5, OwnsConcat
    <2>2. QED
      BY <1>0, <2>1 DEF Whole
  <1>7. HeldBy(t) \in Owner /\ o # HeldBy(t)
    BY <1>0, OwnersDiffer, OwnerTypes
  <1>8. /\ own2 \in [Block -> Owner] /\ Owns(own2, HeldBy(t), file)
        /\ \A x \in Block : own2[x] # own[x] =>
             own[x] = o /\ own2[x] = HeldBy(t) /\ x \in BlocksOf(file)
    BY <1>1, <1>6, <1>7, GiveBlocks
  <1>9. QED
    BY <1>0, <1>8

\* What a delete that drops a file knows of it and takes.
LEMMA DeletedFile ==
    ASSUME TypeInv, NEW t \in Thread, HandlerOK(t),
           pc[t] \in {"delete_dir_inode", "delete_entry"}, pc'[t] = "delete_free",
           UNCHANGED loc
    PROVE  /\ HandlerOK(t)'
           /\ HeldBlocks(t)' = Whole(loc[t].slot)
  <1>1. /\ loc[t].inode_block = EntryAt(loc[t].slot).inode_block
        /\ loc[t].inode = disk[loc[t].inode_block]
    BY DEF HandlerOK, DeleteOK
  <1>2. HeldBlocks(t)' = loc[t].inode.blocks \o << loc[t].inode_block >>
    BY DEF HeldBlocks
  <1>3. HandlerOK(t)'
    BY DEF HandlerOK, FoundOK, CopyOK, CreateOK, DeleteOK, FoundLabel, CopyLabel
  <1>4. QED
    BY <1>1, <1>2, <1>3 DEF FileBlocks, Whole

\* The directory owns its tables, but for the one at k.
TablesOwned(own, k) ==
    /\ own[0] = Root
    /\ Distinct(dir_inode)
    /\ \A i \in (1 .. Len(dir_inode)) \ {k} : own[dir_inode[i]] = InDirectory

\* The table without the entry is written: the other files keep theirs.
LEMMA EntryDropped ==
    ASSUME TypeInv, DirectoryInv, NEW t \in Thread, DeleteEntry(t), HandlerOK(t),
           NEW own, TablesOwned(own, 0), FilesOwned(own), NEW own2,
           \A b \in Block : own2[b] # own[b] =>
                            own[b] = FileOf(EntryAt(loc[t].slot).name)
    PROVE  DirectoryInv' /\ FilesOwned(own2)' /\ TablesOwned(own2, 0)'
  <1>0. PICK slot, table, k, j, tab, n :
          /\ slot = loc[t].slot /\ table = loc[t].table
          /\ k = slot[1] /\ j = slot[2]
          /\ tab = WithoutEntry(table, j)
          /\ n = EntryAt(slot).name
    OBVIOUS
  <1>1. /\ pc[t] = "delete_entry" /\ dir_inode' = dir_inode
        /\ disk' = [disk EXCEPT ![dir_inode[k]] = TableBlock(tab)]
    BY <1>0 DEF DeleteEntry, At, memory
  <1>2. \A b \in Block : own2[b] # own[b] => own[b] = FileOf(n)
    BY <1>0
  <1>3. /\ slot \in Used /\ table = TableAt(k)
        /\ UsedEntries(table) # {j}
    BY <1>0, <1>1 DEF HandlerOK, DeleteOK
  <1>4. /\ slot \in Slots /\ EntryAt(slot).inode_block > 0
        /\ k \in 1 .. Len(dir_inode) /\ j \in 1 .. DirEntries /\ slot = << k, j >>
    BY <1>0, <1>3 DEF Used, Slots
  <1>5. /\ table \in Table /\ tab[j].inode_block = 0
        /\ \A i \in (1 .. DirEntries) \ {j} : tab[i] = TableAt(k)[i]
        /\ j \in UsedEntries(table)
    <2>1. table \in Table
      BY <1>0, LocalTypes
    <2>2. table[j] = EntryAt(slot)
      BY <1>0, <1>3 DEF EntryAt
    <2>3. QED
      BY <1>0, <1>3, <1>4, <2>1, <2>2 DEF WithoutEntry, Table, Entry, UsedEntries
  <1>6. /\ own[0] = Root /\ Distinct(dir_inode)
        /\ \A i \in 1 .. Len(dir_inode) : dir_inode[i] \in Block /\ own[dir_inode[i]] = InDirectory
    BY DEF TablesOwned, TypeInv, TypeOK
  <1>7. /\ disk'[dir_inode[k]] = TableBlock(tab)
        /\ \A b \in Block \ {dir_inode[k]} : disk'[b] = disk[b]
    BY <1>1, <1>4, <1>6 DEF TypeInv, TypeOK
  <1>8. /\ Slots' = Slots
        /\ TableAt(k)' = tab
        /\ disk'[dir_inode[k]].kind = "table"
        /\ \A i \in (1 .. Len(dir_inode)) \ {k} :
             TableAt(i)' = TableAt(i) /\ disk'[dir_inode[i]] = disk[dir_inode[i]]
        /\ EntryAt(<< k, j >>)' = tab[j]
        /\ \A s \in Slots \ {<< k, j >>} : EntryAt(s)' = EntryAt(s)
    BY <1>1, <1>4, <1>5, <1>6, <1>7, TableWrite
  <1>9. /\ EntryAt(slot)'.inode_block = 0
        /\ \A s \in Slots : s # slot => EntryAt(s)' = EntryAt(s)
    <2>1. EntryAt(slot)' = EntryAt(<< k, j >>)'
      BY <1>4
    <2>2. QED
      BY <1>4, <1>5, <1>8, <2>1
  <1>10. Used' = Used \ {slot} /\ \A s \in Used' : s \in Used /\ EntryAt(s)' = EntryAt(s)
    BY <1>8, <1>9 DEF Used
  <1>11. TablesOK'
    <2>1. UsedEntries(tab) # {}
      <3>1. PICK i \in UsedEntries(table) : i # j
        BY <1>3, <1>5
      <3>2. i \in UsedEntries(tab)
        BY <1>3, <1>5, <3>1 DEF UsedEntries
      <3>3. QED
        BY <3>2
    <2>2. QED
      BY <1>1, <1>8, <2>1 DEF TablesOK, DirectoryInv
  <1>12. NamesOK'
    BY <1>10 DEF NamesOK, DirectoryInv
  <1>13. ASSUME NEW s \in Used' PROVE \E x : EntryAt(s)' = x /\ FileGood(own2, x)'
    <2>1. s \in Used /\ s # slot /\ EntryAt(s)' = EntryAt(s)
      BY <1>10
    <2>2. EntryAt(s).name # n
      BY <1>0, <1>3, <2>1 DEF DirectoryInv, NamesOK
    <2>3. \A b \in Block : own[b] = FileOf(EntryAt(s).name) =>
              own2[b] = FileOf(EntryAt(s).name) /\ disk'[b] = disk[b]
      BY <1>2, <1>4, <1>6, <1>7, <2>2, OwnersDiffer
    <2>4. PICK x : x = EntryAt(s)
      OBVIOUS
    <2>5. FileGood(own2, x)'
      BY <2>1, <2>3, <2>4, KeptFile
    <2>6. QED
      BY <2>1, <2>4, <2>5
  <1>14. disk'[0] = DirectoryBlock(dir_inode')
    <2>1. dir_inode[k] # 0
      BY <1>4, <1>6, OwnersDiffer
    <2>2. QED
      BY <1>1, <1>7, <2>1, ZeroIsBlock DEF DirectoryInv
  <1>15. DirectoryInv' /\ FilesOwned(own2)'
    BY <1>11, <1>12, <1>13, <1>14, DirectoryStep
  <1>16. TablesOwned(own2, 0)'
    <2>1. own2[0] = Root /\ \A i \in 1 .. Len(dir_inode) : own2[dir_inode[i]] = InDirectory
      BY <1>2, <1>6, ZeroIsBlock, OwnersDiffer
    <2>2. QED
      BY <1>1, <1>6, <2>1 DEF TablesOwned, Root, InDirectory, Distinct
  <1>17. QED
    BY <1>15, <1>16

\* The tables that the directory owns are what a step needs of them.
LEMMA TablesAreOwned ==
    ASSUME NEW own, TablesOwned(own, 0)
    PROVE  DirectoryOwned(own)
  BY DEF TablesOwned, DirectoryOwned

LEMMA TablesAreOwnedNext ==
    ASSUME NEW own, TablesOwned(own, 0)'
    PROVE  DirectoryOwned(own)'
  BY DEF TablesOwned, DirectoryOwned, Root, InDirectory, Distinct

\* The entry marked unused reaches the disk: the blocks of the file go to
\* the handler.
LEMMA DeleteEntryOwners ==
    ASSUME StoreInv, up, TypeInv', NEW t \in Thread, DeleteEntry(t)
    PROVE  StoreInv'
  <1>0. PICK slot, n, file :
          slot = loc[t].slot /\ n = EntryAt(slot).name /\ file = Whole(slot)
    OBVIOUS
  <1>1. /\ TypeInv /\ RunningInv /\ Step(t) /\ pc[t] = "delete_entry"
        /\ UNCHANGED << dir_inode, free_block, req, loc >>
        /\ HandlerOK(t) /\ DirectoryInv
    BY DEF StoreInv, RunningInv, Step, DeleteStep, DeleteEntry, At, memory
  <1>2. pc'[t] = "delete_free"
    BY <1>1, Moves DEF DeleteEntry
  <1>3. t \in WritingDir /\ Dropping = {}
    BY <1>1, NoneDropping DEF WritingDir, WritingDirLabel, DeleteLabel
  <1>4. slot \in Used
    BY <1>0, <1>1 DEF HandlerOK, DeleteOK
  <1>5. PICK own \in [Block -> Owner] : Ownership(own)
    BY <1>1 DEF RunningInv
  <1>6. TablesOwned(own, 0) /\ FilesOwned(own)
    BY <1>3, <1>5 DEF Ownership, DirectoryOwned, TablesOwned
  <1>7. PICK own2 : own2 = Moved(own, BlocksOf(file), HeldBy(t))
    OBVIOUS
  <1>8. /\ own2 \in [Block -> Owner] /\ Owns(own2, HeldBy(t), file)
        /\ \A b \in Block : own2[b] # own[b] => own[b] = FileOf(n)
    BY <1>0, <1>1, <1>4, <1>5, <1>7, FileMoves
  <1>9. DirectoryInv' /\ FilesOwned(own2)' /\ DirectoryOwned(own2)'
    BY <1>0, <1>1, <1>6, <1>8, EntryDropped, TablesAreOwnedNext
  <1>10. HandlerOK(t)' /\ Owns(own2, HeldBy(t), HeldBlocks(t)')
    BY <1>0, <1>1, <1>2, <1>8, DeletedFile
  <1>11. QED
    BY <1>1, <1>3, <1>5, <1>8, <1>9, <1>10, ExclusiveStep

\* Where an index of a sequence without its element at k was before.
Old(i, k) == IF i < k THEN i ELSE i + 1

LEMMA DropAtElements ==
    ASSUME NEW s \in Seq(Block), NEW k \in 1 .. Len(s)
    PROVE  /\ DropAt(s, k) \in Seq(Block) /\ Len(DropAt(s, k)) = Len(s) - 1
           /\ \A i \in 1 .. Len(s) - 1 : /\ Old(i, k) \in (1 .. Len(s)) \ {k}
                                         /\ DropAt(s, k)[i] = s[Old(i, k)]
           /\ \A i, j \in 1 .. Len(s) - 1 : Old(i, k) = Old(j, k) => i = j
  <1> DEFINE a == SubSeq(s, 1, k - 1)
             c == SubSeq(s, k + 1, Len(s))
             m == Len(s)
  <1>1. m \in Nat /\ k \in Nat /\ k >= 1 /\ k <= m
    OBVIOUS
  <1>2. k - 1 \in 0 .. m
    BY <1>1
  <1>3. /\ a \in Seq(Block) /\ Len(a) = k - 1 /\ \A i \in 1 .. k - 1 : a[i] = s[i]
    BY <1>2, SubSeqHead
  <1>4. /\ c \in Seq(Block) /\ Len(c) = m - k /\ \A i \in 1 .. m - k : c[i] = s[k + i]
    BY <1>1, SubSeqTail
  <1> HIDE DEF a, c, m
  <1>5. ASSUME NEW i \in 1 .. m - 1
        PROVE  Old(i, k) \in (1 .. m) \ {k} /\ (a \o c)[i] = s[Old(i, k)]
    <2>1. CASE i < k
      <3>1. i \in 1 .. k - 1 /\ Old(i, k) = i /\ i \in (1 .. m) \ {k}
        BY <1>1, <2>1 DEF Old
      <3>2. (a \o c)[i] = a[i]
        BY <1>3, <1>4, <3>1
      <3>3. QED
        BY <1>3, <3>1, <3>2
    <2>2. CASE ~(i < k)
      <3>1. /\ i - (k - 1) \in 1 .. m - k /\ k + (i - (k - 1)) = i + 1
            /\ Old(i, k) = i + 1 /\ i + 1 \in (1 .. m) \ {k}
        BY <1>1, <2>2 DEF Old
      <3>2. (a \o c)[i] = c[i - (k - 1)]
        BY <1>1, <1>3, <1>4, <2>2
      <3>3. QED
        BY <1>4, <3>1, <3>2
    <2>3. QED
      BY <2>1, <2>2
  <1>6. \A i, j \in 1 .. m - 1 : Old(i, k) = Old(j, k) => i = j
    BY <1>1 DEF Old
  <1>7. DropAt(s, k) \in Seq(Block) /\ Len(DropAt(s, k)) = Len(s) - 1
    BY DropAtType
  <1>8. DropAt(s, k) = a \o c
    BY DEF DropAt, a, c
  <1>9. QED
    BY <1>5, <1>6, <1>7, <1>8 DEF m

\* A slot of the directory without its table k, before that table went.
OldSlot(s, k) == << Old(s[1], k), s[2] >>

LEMMA TableDropped ==
    ASSUME TypeInv, NEW k \in 1 .. Len(dir_inode), dir_inode' = DropAt(dir_inode, k),
           \A b \in Block \ {0} : disk'[b] = disk[b],
           \A i \in (1 .. Len(dir_inode)) \ {k} : dir_inode[i] # 0
    PROVE  /\ \A i \in 1 .. Len(dir_inode') :
                /\ Old(i, k) \in (1 .. Len(dir_inode)) \ {k}
                /\ dir_inode'[i] = dir_inode[Old(i, k)]
                /\ TableAt(i)' = TableAt(Old(i, k))
                /\ disk'[dir_inode'[i]] = disk[dir_inode[Old(i, k)]]
           /\ \A i, j \in 1 .. Len(dir_inode') : Old(i, k) = Old(j, k) => i = j
           /\ \A s \in Slots' : /\ OldSlot(s, k) \in Slots
                                /\ OldSlot(s, k)[1] # k
                                /\ EntryAt(s)' = EntryAt(OldSlot(s, k))
           /\ \A r, s \in Slots' : OldSlot(r, k) = OldSlot(s, k) => r = s
  <1> DEFINE m == Len(dir_inode) - 1
  <1>1. dir_inode \in Seq(Block) /\ \A i \in 1 .. Len(dir_inode) : dir_inode[i] \in Block
    BY DEF TypeInv, TypeOK
  <1>2. /\ Len(dir_inode') = m
        /\ \A i \in 1 .. m : /\ Old(i, k) \in (1 .. Len(dir_inode)) \ {k}
                             /\ dir_inode'[i] = dir_inode[Old(i, k)]
        /\ \A i, j \in 1 .. m : Old(i, k) = Old(j, k) => i = j
    BY <1>1, DropAtElements
  <1> HIDE DEF m
  <1>3. \A i \in 1 .. m : /\ TableAt(i)' = TableAt(Old(i, k))
                          /\ disk'[dir_inode'[i]] = disk[dir_inode[Old(i, k)]]
    <2>1. ASSUME NEW i \in 1 .. m
          PROVE  disk'[dir_inode'[i]] = disk[dir_inode[Old(i, k)]]
      <3>1. dir_inode'[i] = dir_inode[Old(i, k)] /\ dir_inode[Old(i, k)] \in Block \ {0}
        BY <1>1, <1>2
      <3>2. QED
        BY <3>1
    <2>2. QED
      BY <2>1 DEF TableAt
  <1>4. \A s \in Slots' : s[1] \in 1 .. m /\ s[2] \in 1 .. DirEntries /\ s = << s[1], s[2] >>
    BY <1>2 DEF Slots
  <1>5. ASSUME NEW s \in Slots'
        PROVE  /\ OldSlot(s, k) \in Slots /\ OldSlot(s, k)[1] # k
               /\ EntryAt(s)' = EntryAt(OldSlot(s, k))
    <2>1. s[1] \in 1 .. m /\ s[2] \in 1 .. DirEntries
      BY <1>4
    <2>2. Old(s[1], k) \in (1 .. Len(dir_inode)) \ {k} /\ TableAt(s[1])' = TableAt(Old(s[1], k))
      BY <1>2, <1>3, <2>1
    <2>3. QED
      BY <2>1, <2>2 DEF OldSlot, Slots, EntryAt
  <1>6. ASSUME NEW r \in Slots', NEW s \in Slots', OldSlot(r, k) = OldSlot(s, k)
        PROVE  r = s
    <2>1. Old(r[1], k) = Old(s[1], k) /\ r[2] = s[2]
      BY <1>6 DEF OldSlot
    <2>2. r[1] = s[1]
      BY <1>2, <1>4, <2>1
    <2>3. QED
      BY <1>4, <2>1, <2>2
  <1>7. QED
    BY <1>2, <1>3, <1>5, <1>6

\* Block 0 drops the table with its last entry: the other files keep theirs.
LEMMA TableGone ==
    ASSUME TypeInv, DirectoryInv, NEW t \in Thread, DeleteDirInode(t), HandlerOK(t),
           NEW own, TablesOwned(own, loc[t].slot[1]), FilesOwned(own), NEW own2,
           \A b \in Block : own2[b] # own[b] =>
                            own[b] = FileOf(EntryAt(loc[t].slot).name)
    PROVE  DirectoryInv' /\ FilesOwned(own2)' /\ TablesOwned(own2, 0)'
  <1>0. PICK slot, table, k, n :
          /\ slot = loc[t].slot /\ table = loc[t].table /\ k = slot[1]
          /\ n = EntryAt(slot).name
    OBVIOUS
  <1>1. /\ pc[t] = "delete_dir_inode"
        /\ dir_inode' = DropAt(dir_inode, k)
        /\ disk' = [disk EXCEPT ![0] = DirectoryBlock(dir_inode')]
    BY <1>0 DEF DeleteDirInode, At
  <1>2. \A b \in Block : own2[b] # own[b] => own[b] = FileOf(n)
    BY <1>0
  <1>3. /\ slot \in Used /\ slot \in Slots /\ table = TableAt(k)
        /\ UsedEntries(table) = {slot[2]}
    BY <1>0, <1>1 DEF HandlerOK, DeleteOK, Used
  <1>4. k \in 1 .. Len(dir_inode) /\ slot = << k, slot[2] >>
    BY <1>0, <1>3 DEF Slots
  <1>5. /\ own[0] = Root /\ Distinct(dir_inode) /\ dir_inode \in Seq(Block)
        /\ \A i \in 1 .. Len(dir_inode) : dir_inode[i] \in Block
        /\ \A i \in (1 .. Len(dir_inode)) \ {k} : own[dir_inode[i]] = InDirectory
    BY <1>0 DEF TablesOwned, TypeInv, TypeOK
  <1>6. /\ disk'[0] = DirectoryBlock(dir_inode')
        /\ \A b \in Block \ {0} : disk'[b] = disk[b]
    BY <1>1, ZeroIsBlock DEF TypeInv, TypeOK
  <1>7. /\ \A i \in 1 .. Len(dir_inode') :
             /\ Old(i, k) \in (1 .. Len(dir_inode)) \ {k}
             /\ dir_inode'[i] = dir_inode[Old(i, k)]
             /\ TableAt(i)' = TableAt(Old(i, k))
             /\ disk'[dir_inode'[i]] = disk[dir_inode[Old(i, k)]]
        /\ \A i, j \in 1 .. Len(dir_inode') : Old(i, k) = Old(j, k) => i = j
        /\ \A s \in Slots' : /\ OldSlot(s, k) \in Slots
                             /\ OldSlot(s, k)[1] # k
                             /\ EntryAt(s)' = EntryAt(OldSlot(s, k))
        /\ \A r, s \in Slots' : OldSlot(r, k) = OldSlot(s, k) => r = s
    <2>1. \A i \in (1 .. Len(dir_inode)) \ {k} : dir_inode[i] # 0
      BY <1>5, OwnersDiffer
    <2>2. QED
      BY <1>1, <1>4, <1>6, <2>1, TableDropped
  <1>8. ASSUME NEW s \in Used'
        PROVE  /\ s \in Slots' /\ OldSlot(s, k) \in Used /\ OldSlot(s, k) # slot
               /\ EntryAt(s)' = EntryAt(OldSlot(s, k))
    BY <1>0, <1>7 DEF Used
  <1>9. TablesOK'
    <2>1. ASSUME NEW i \in 1 .. Len(dir_inode')
          PROVE  disk'[dir_inode'[i]].kind = "table" /\ UsedEntries(TableAt(i)') # {}
      BY <1>7 DEF TablesOK, DirectoryInv
    <2>2. QED
      BY <2>1 DEF TablesOK, UsedEntries
  <1>10. NamesOK'
    <2>1. ASSUME NEW r \in Used', NEW s \in Used', EntryAt(r)'.name = EntryAt(s)'.name
          PROVE  r = s
      <3>1. OldSlot(r, k) = OldSlot(s, k)
        BY <1>8, <2>1 DEF NamesOK, DirectoryInv
      <3>2. QED
        BY <1>7, <1>8, <3>1
    <2>2. QED
      BY <2>1 DEF NamesOK
  <1>11. ASSUME NEW s \in Used' PROVE \E x : EntryAt(s)' = x /\ FileGood(own2, x)'
    <2>0. PICK old : old = OldSlot(s, k)
      OBVIOUS
    <2>1. old \in Used /\ old # slot /\ EntryAt(s)' = EntryAt(old)
      BY <1>8, <2>0
    <2>2. EntryAt(old).name # n
      BY <1>0, <1>3, <2>1 DEF DirectoryInv, NamesOK
    <2>3. \A b \in Block : own[b] = FileOf(EntryAt(old).name) =>
              own2[b] = FileOf(EntryAt(old).name) /\ disk'[b] = disk[b]
      BY <1>2, <1>5, <1>6, <2>2, OwnersDiffer
    <2>4. PICK x : x = EntryAt(old)
      OBVIOUS
    <2>5. FileGood(own2, x)'
      BY <2>1, <2>3, <2>4, KeptFile
    <2>6. QED
      BY <2>1, <2>4, <2>5
  <1>12. DirectoryInv' /\ FilesOwned(own2)'
    BY <1>6, <1>9, <1>10, <1>11, DirectoryStep
  <1>13. TablesOwned(own2, 0)'
    <2>1. own2[0] = Root
      BY <1>2, <1>5, ZeroIsBlock, OwnersDiffer
    <2>2. \A i \in (1 .. Len(dir_inode)) \ {k} : own2[dir_inode[i]] = InDirectory
      BY <1>2, <1>5, OwnersDiffer
    <2>3. \A i \in 1 .. Len(dir_inode') : own2[dir_inode'[i]] = InDirectory
      BY <1>7, <2>2
    <2>4. ASSUME NEW i \in 1 .. Len(dir_inode'), NEW j \in 1 .. Len(dir_inode'),
                 dir_inode'[i] = dir_inode'[j]
          PROVE  i = j
      <3>1. Old(i, k) = Old(j, k)
        BY <1>5, <1>7, <2>4 DEF Distinct
      <3>2. QED
        BY <1>7, <3>1
    <2>5. QED
      BY <2>1, <2>3, <2>4 DEF TablesOwned, Root, InDirectory, Distinct
  <1>14. QED
    BY <1>12, <1>13

\* Block 0 drops the table and with it the last entry of it: the blocks of
\* the file go to the handler.
LEMMA DeleteDirInodeOwners ==
    ASSUME StoreInv, up, TypeInv', NEW t \in Thread, DeleteDirInode(t)
    PROVE  StoreInv'
  <1>0. PICK slot, k, n, file :
          /\ slot = loc[t].slot /\ k = slot[1]
          /\ n = EntryAt(slot).name /\ file = Whole(slot)
    OBVIOUS
  <1>1. /\ TypeInv /\ RunningInv /\ Step(t) /\ pc[t] = "delete_dir_inode"
        /\ UNCHANGED << free_block, req, loc >>
        /\ HandlerOK(t) /\ DirectoryInv
    BY DEF StoreInv, RunningInv, Step, DeleteStep, DeleteDirInode, At, memory
  <1>2. pc'[t] = "delete_free"
    BY <1>1, Moves DEF DeleteDirInode
  <1>3. t \in WritingDir
    BY <1>1 DEF WritingDir, WritingDirLabel, DeleteLabel
  <1>4. Dropping = {k}
    <2>1. \A u \in Thread : pc[u] = "delete_dir_inode" => u = t
      <3>1. WritingDir = {t}
        BY <1>1, <1>3, LockInvExclusion DEF TypeInv, Exclusion
      <3>2. QED
        BY <3>1 DEF WritingDir, WritingDirLabel, DeleteLabel
    <2>2. QED
      BY <1>0, <1>1, <2>1 DEF Dropping, At
  <1>5. slot \in Used
    BY <1>0, <1>1 DEF HandlerOK, DeleteOK
  <1>6. PICK own \in [Block -> Owner] : Ownership(own)
    BY <1>1 DEF RunningInv
  <1>7. TablesOwned(own, k) /\ FilesOwned(own)
    BY <1>4, <1>6 DEF Ownership, DirectoryOwned, TablesOwned
  <1>8. PICK own2 : own2 = Moved(own, BlocksOf(file), HeldBy(t))
    OBVIOUS
  <1>9. /\ own2 \in [Block -> Owner] /\ Owns(own2, HeldBy(t), file)
        /\ \A b \in Block : own2[b] # own[b] => own[b] = FileOf(n)
    BY <1>0, <1>1, <1>5, <1>6, <1>8, FileMoves
  <1>10. DirectoryInv' /\ FilesOwned(own2)' /\ DirectoryOwned(own2)'
    BY <1>0, <1>1, <1>7, <1>9, TableGone, TablesAreOwnedNext
  <1>11. HandlerOK(t)' /\ Owns(own2, HeldBy(t), HeldBlocks(t)')
    BY <1>0, <1>1, <1>2, <1>9, DeletedFile
  <1>12. QED
    BY <1>1, <1>3, <1>6, <1>9, <1>10, <1>11, ExclusiveStep

\* The blocks of the file go to the free list.
LEMMA DeleteFreeGives ==
    ASSUME TypeInv, NEW t \in Thread, DeleteFree(t)
    PROVE  free_block' = free_block \o HeldBlocks(t)
  <1>0. PICK bs, one : bs = loc[t].inode.blocks /\ one = << loc[t].inode_block >>
    OBVIOUS
  <1>1. /\ pc[t] = "delete_free"
        /\ free_block' = free_block \o SubSeq(bs, 1, CeilDiv(loc[t].inode.size)) \o one
    BY <1>0 DEF DeleteFree, At
  <1>2. bs \in Seq(Block) /\ one \in Seq(Block) /\ free_block \in Seq(Block)
    BY <1>0, LocalTypes DEF TypeInv, TypeOK
  <1>3. CeilDiv(loc[t].inode.size) = Len(bs)
    BY <1>0, <1>1 DEF TypeInv, LocalOK, DirectoryOK, InodeOK
  <1>4. SubSeq(bs, 1, Len(bs)) = bs
    BY <1>2
  <1>5. free_block' = free_block \o (bs \o one)
    <2>1. \A x, y, z \in Seq(Block) : (x \o y) \o z = x \o (y \o z)
      BY ConcatAssociative
    <2>2. free_block' = (free_block \o bs) \o one
      BY <1>1, <1>3, <1>4
    <2>3. QED
      BY <1>2, <2>1, <2>2
  <1>6. HeldBlocks(t) = bs \o one
    BY <1>0, <1>1 DEF HeldBlocks
  <1>7. QED
    BY <1>5, <1>6

LEMMA DeleteFreeOwners ==
    ASSUME StoreInv, up, TypeInv', NEW t \in Thread, DeleteFree(t)
    PROVE  StoreInv'
  <1>1. /\ TypeInv /\ Step(t) /\ pc[t] = "delete_free"
        /\ UNCHANGED << disk, dir_inode >>
    BY DEF StoreInv, Step, DeleteStep, DeleteFree, At
  <1>2. pc'[t] \in QuietLabel
    BY <1>1, Moves DEF DeleteFree, QuietLabel
  <1>3. QED
    BY <1>1, <1>2, DeleteFreeGives, QuietLabels, GiveStep

\* Every step of a delete.
LEMMA DeleteOwners ==
    ASSUME StoreInv, up, TypeInv', NEW t \in Thread, DeleteStep(t)
    PROVE  StoreInv'
  BY DeleteOpens, DeleteFreeTableOwners, DeleteDirInodeOwners, DeleteEntryOwners,
     DeleteFreeOwners DEF DeleteStep

\* Every step of a create.
LEMMA CreateOwners ==
    ASSUME StoreInv, up, TypeInv', NEW t \in Thread, CreateStep(t)
    PROVE  StoreInv'
  BY CreateReserveOwners, CreateOpens, CreateInodeOwners, CreateEntryOwners,
     CreateExtendOwners, CreateNewInodeOwners, CreateNewTableOwners,
     CreateDirInodeOwners DEF CreateStep

\* Every step of an append.
LEMMA AppendOwners ==
    ASSUME StoreInv, up, TypeInv', NEW t \in Thread, AppendStep(t)
    PROVE  StoreInv'
  BY AppendOpens, AppendInodeOwners, AppendAllocOwners, AppendPartialOwners,
     AppendDataOwners, AppendCommitOwners DEF AppendStep

-----------------------------------------------------------------------------
(* A connection begins and ends.                                           *)

LEMMA EndOwners ==
    ASSUME StoreInv, up, TypeInv', NEW t \in Thread, EndRequest(t)
    PROVE  StoreInv'
  <1>1. TypeInv /\ Step(t)
    BY DEF StoreInv, Step
  <1>2. UNCHANGED << disk, dir_inode, free_block >> /\ pc[t] # "delete_dir_inode"
    BY DEF EndRequest, memory, At
  <1>3. pc'[t] = "done"
    BY <1>1 DEF EndRequest, TypeInv, TypeOK
  <1>4. QED
    BY <1>1, <1>2, <1>3, QuietEnd DEF QuietLabel

\* A thread that accepts a request holds no block and has read nothing.
LEMMA AcceptOwners ==
    ASSUME StoreInv, up, TypeInv', NEW t \in Thread, NEW r \in Request, Accept(t, r)
    PROVE  StoreInv'
  <1>1. TypeInv /\ RunningInv /\ r.op \in Op
    BY RequestAssumption DEF StoreInv, RequestType
  <1>2. UNCHANGED << disk, dir_inode, free_block, up >> /\ pc[t] = "new"
    BY DEF Accept, memory, At
  <1>3. ASSUME NEW u \in Thread \ {t}
        PROVE  loc'[u] = loc[u] /\ pc'[u] = pc[u] /\ req'[u] = req[u]
    BY <1>1 DEF Accept, Goto, Return, TypeInv, TypeOK
  <1>4. pc'[t] \in QuietLabel
    <2>1. CASE ~Valid(r) /\ Return(t, "invalid")
      BY <1>1, <2>1, Moves DEF QuietLabel
    <2>2. CASE Valid(r) /\ Goto(t, FirstStep(r.op))
      BY <1>1, <2>2, Moves DEF FirstStep, Op, QuietLabel, ReadLabel
    <2>3. QED
      BY <2>1, <2>2 DEF Accept
  <1>5. HandlerOK(t)' /\ HeldBlocks(t)' = << >>
    BY <1>4, QuietLabels
  <1>6. \A u \in Thread : HandlerOK(u)'
    BY <1>1, <1>2, <1>3, <1>5, SameDiskHandler DEF RunningInv
  <1>7. \A u \in Thread \ {t} : HeldBlocks(u)' = HeldBlocks(u)
    BY <1>3 DEF HeldBlocks
  <1>8. PICK own \in [Block -> Owner] : Ownership(own)
    BY <1>1 DEF RunningInv
  <1>9. Dropping \subseteq Dropping'
    BY <1>2, <1>3 DEF Dropping, At
  <1>10. DirectoryInv' /\ FilesOwned(own)' /\ DirectoryOwned(own)'
    BY <1>1, <1>2, <1>8, <1>9, SameDisk DEF RunningInv, Ownership
  <1>11. Owns(own, Free, free_block)'
    BY <1>2, <1>8 DEF Ownership, Owns, Free
  <1>12. ASSUME NEW u \in Thread PROVE Owns(own, HeldBy(u), HeldBlocks(u))'
    <2>1. Owns(own, HeldBy(u), HeldBlocks(u)')
      BY <1>5, <1>7, <1>8, OwnsEmpty DEF Ownership
    <2>2. QED
      BY <2>1 DEF Owns, HeldBy
  <1>13. Ownership(own)'
    BY <1>10, <1>11, <1>12 DEF Ownership
  <1>14. RunningInv'
    BY <1>6, <1>10, <1>13 DEF RunningInv
  <1>15. QED
    BY <1>2, <1>14 DEF StoreInv

-----------------------------------------------------------------------------
(* What the owners of blocks say of the claims on them.                    *)

\* While the server runs, its memory and the disk describe the same files.
LEMMA SameView ==
    ASSUME TypeInv, DirectoryInv
    PROVE  /\ Directory = dir_inode
           /\ \A i : DiskTable(i) = TableAt(i)
           /\ FileSlots = Used
           /\ \A s : FileEntry(s) = EntryAt(s)
           /\ \A s \in Used : FileInode(s) = disk[EntryAt(s).inode_block]
  <1>1. Directory = dir_inode
    BY DEF Directory, AsDirectory, DirectoryInv, DirectoryBlock
  <1>2. \A i : DiskTable(i) = TableAt(i)
    BY <1>1 DEF DiskTable, TableAt
  <1>3. \A s : FileEntry(s) = EntryAt(s)
    BY <1>2 DEF FileEntry, EntryAt
  <1>4. FileSlots = Used
    BY <1>1, <1>2 DEF FileSlots, Used, Slots, EntryAt
  <1>5. \A s \in Used : FileInode(s) = disk[EntryAt(s).inode_block]
    BY <1>3 DEF FileInode, AsInode, DirectoryInv, FileOK
  <1>6. QED
    BY <1>1, <1>2, <1>3, <1>4, <1>5

\* A claim of a file is on a block that the file owns.
LEMMA FileClaimsOwned ==
    ASSUME TypeInv, DirectoryInv, NEW own, FilesOwned(own), NEW c \in FileClaims
    PROVE  /\ c[1] \in {"inode", "data"} /\ c[4] \in Block
           /\ \E s \in Used :
                /\ own[c[4]] = FileOf(EntryAt(s).name)
                /\ \/ c = << "inode", SlotNumber(s), 0, EntryAt(s).inode_block >>
                   \/ \E i \in 1 .. Len(FileBlocks(s)) :
                        c = << "data", SlotNumber(s), i, FileBlocks(s)[i] >>
  <1>1. PICK s \in Used :
          \/ c = << "inode", SlotNumber(s), 0, EntryAt(s).inode_block >>
          \/ \E i \in 1 .. Len(FileBlocks(s)) :
               c = << "data", SlotNumber(s), i, FileBlocks(s)[i] >>
    BY SameView DEF FileClaims, FileBlocks
  <1>2. /\ own[EntryAt(s).inode_block] = FileOf(EntryAt(s).name)
        /\ \A i \in 1 .. Len(FileBlocks(s)) :
             own[FileBlocks(s)[i]] = FileOf(EntryAt(s).name)
    BY DEF FilesOwned, Owns
  <1>3. EntryAt(s).inode_block \in Block /\ FileBlocks(s) \in Seq(Block)
    BY FileTypes
  <1>4. CASE c = << "inode", SlotNumber(s), 0, EntryAt(s).inode_block >>
    BY <1>2, <1>3, <1>4
  <1>5. ASSUME NEW i \in 1 .. Len(FileBlocks(s)),
               c = << "data", SlotNumber(s), i, FileBlocks(s)[i] >>
        PROVE  /\ c[1] = "data" /\ c[4] \in Block
               /\ own[c[4]] = FileOf(EntryAt(s).name)
    BY <1>2, <1>3, <1>5
  <1>6. QED
    BY <1>1, <1>4, <1>5

\* No block has two claims of files: names tell the files apart, and what a
\* block holds tells the inode of a file from its data.
LEMMA FileClaimsApart ==
    ASSUME TypeInv, DirectoryInv, NEW own, FilesOwned(own),
           NEW c \in FileClaims, NEW d \in FileClaims, c[4] = d[4]
    PROVE  c = d
  <1>1. PICK r \in Used :
          /\ own[c[4]] = FileOf(EntryAt(r).name)
          /\ \/ c = << "inode", SlotNumber(r), 0, EntryAt(r).inode_block >>
             \/ \E i \in 1 .. Len(FileBlocks(r)) :
                  c = << "data", SlotNumber(r), i, FileBlocks(r)[i] >>
    BY FileClaimsOwned
  <1>2. PICK s \in Used :
          /\ own[d[4]] = FileOf(EntryAt(s).name)
          /\ \/ d = << "inode", SlotNumber(s), 0, EntryAt(s).inode_block >>
             \/ \E i \in 1 .. Len(FileBlocks(s)) :
                  d = << "data", SlotNumber(s), i, FileBlocks(s)[i] >>
    BY FileClaimsOwned
  <1>3. r = s
    BY <1>1, <1>2, OwnersDiffer DEF DirectoryInv, NamesOK
  <1>4. /\ disk[EntryAt(s).inode_block].kind = "inode"
        /\ \A i \in 1 .. Len(FileBlocks(s)) : disk[FileBlocks(s)[i]].kind = "data"
        /\ Distinct(FileBlocks(s))
    BY DEF DirectoryInv, FileOK, FileBlocks, FilesOwned, Owns
  <1>5. c[4] = EntryAt(s).inode_block \/ \E i \in 1 .. Len(FileBlocks(s)) : c[4] = FileBlocks(s)[i]
    BY <1>1, <1>3
  <1>6. CASE c = << "inode", SlotNumber(s), 0, EntryAt(s).inode_block >>
    <2>1. ~\E i \in 1 .. Len(FileBlocks(s)) : d = << "data", SlotNumber(s), i, FileBlocks(s)[i] >>
      BY <1>4, <1>6
    <2>2. QED
      BY <1>2, <1>6, <2>1
  <1>7. ASSUME NEW i \in 1 .. Len(FileBlocks(s)),
               c = << "data", SlotNumber(s), i, FileBlocks(s)[i] >>
        PROVE  c = d
    <2>1. d # << "inode", SlotNumber(s), 0, EntryAt(s).inode_block >>
      BY <1>4, <1>7
    <2>2. PICK j \in 1 .. Len(FileBlocks(s)) :
            d = << "data", SlotNumber(s), j, FileBlocks(s)[j] >>
      BY <1>2, <2>1
    <2>3. FileBlocks(s)[i] = FileBlocks(s)[j]
      BY <1>7, <2>2
    <2>4. i = j
      BY <1>4, <2>3 DEF Distinct
    <2>5. QED
      BY <1>7, <2>2, <2>4
  <1>8. QED
    BY <1>1, <1>3, <1>6, <1>7

\* A claim of the directory is on one of its blocks, and a block of the
\* directory has one claim.
LEMMA TableClaimsOwned ==
    ASSUME TypeInv, DirectoryInv, NEW own, DirectoryOwned(own),
           NEW is \in SUBSET (1 .. Len(dir_inode)), NEW c \in TableClaims(is)
    PROVE  /\ c[1] = "table" /\ c[4] \in Block
           /\ own[c[4]] \in {InDirectory} \cup Spare
           /\ is \cap Dropping = {} => own[c[4]] = InDirectory
           /\ \A d \in TableClaims(is) : c[4] = d[4] => c = d
  <1>1. Directory = dir_inode /\ dir_inode \in Seq(Block)
    BY SameView DEF TypeInv, TypeOK
  <1>2. PICK i \in is : c = << "table", 0, i, dir_inode[i] >>
    BY <1>1 DEF TableClaims
  <1>3. i \in 1 .. Len(dir_inode) /\ c[4] = dir_inode[i] /\ dir_inode[i] \in Block
    BY <1>1, <1>2
  <1>4. ASSUME NEW d \in TableClaims(is), c[4] = d[4] PROVE c = d
    <2>1. PICK j \in is : d = << "table", 0, j, dir_inode[j] >>
      BY <1>1 DEF TableClaims
    <2>2. j \in 1 .. Len(dir_inode) /\ d[4] = dir_inode[j]
      BY <2>1
    <2>3. i = j
      BY <1>3, <1>4, <2>2 DEF DirectoryOwned, Distinct
    <2>4. QED
      BY <1>2, <2>1, <2>3
  <1>5. QED
    BY <1>2, <1>3, <1>4 DEF DirectoryOwned

\* When the directory and the files own their blocks, main() can boot from
\* the disk.
LEMMA OwnedConsistent ==
    ASSUME TypeInv, DirectoryInv, NEW own, DirectoryOwned(own), FilesOwned(own)
    PROVE  DiskConsistent
  <1>1. /\ Directory = dir_inode /\ FileSlots = Used
        /\ \A i : DiskTable(i) = TableAt(i)
        /\ \A s : FileEntry(s) = EntryAt(s)
        /\ \A s \in Used : FileInode(s) = disk[EntryAt(s).inode_block]
    BY SameView
  <1>2. disk[0].kind = "directory"
    BY DEF DirectoryInv, DirectoryBlock
  <1>3. \A i \in 1 .. Len(Directory) :
          disk[Directory[i]].kind = "table" /\ UsedEntries(DiskTable(i)) # {}
    BY <1>1 DEF DirectoryInv, TablesOK
  <1>4. \A r, s \in FileSlots : FileEntry(r).name = FileEntry(s).name => r = s
    BY <1>1 DEF DirectoryInv, NamesOK
  <1>5. ASSUME NEW s \in FileSlots
        PROVE  /\ disk[FileEntry(s).inode_block].kind = "inode"
               /\ FileInode(s).owner \in User
               /\ Len(FileInode(s).blocks) = CeilDiv(FileInode(s).size)
               /\ \A i \in 1 .. Len(FileInode(s).blocks) :
                    disk[FileInode(s).blocks[i]].kind = "data"
    BY <1>1, FileTypes DEF DirectoryInv, FileOK, FileBlocks
  <1>6. Separate(FileClaims \cup TableClaims(1 .. Len(Directory)))
    <2>1. \A c \in FileClaims :
            /\ \E n : own[c[4]] = FileOf(n)
            /\ \A d \in FileClaims : c[4] = d[4] => c = d
      BY FileClaimsOwned, FileClaimsApart
    <2>2. \A c \in TableClaims(1 .. Len(Directory)) :
            /\ own[c[4]] \in {InDirectory} \cup Spare
            /\ \A d \in TableClaims(1 .. Len(Directory)) : c[4] = d[4] => c = d
      BY <1>1, TableClaimsOwned
    <2>3. own[0] = Root
      BY DEF DirectoryOwned
    <2>4. \A n : FileOf(n) \notin {Root, InDirectory} \cup Spare
      BY OwnersDiffer, OwnerTypes
    <2>5. Root \notin {InDirectory} \cup Spare
      BY OwnersDiffer, OwnerTypes
    <2>6. QED
      BY <2>1, <2>2, <2>3, <2>4, <2>5 DEF Separate
  <1>7. QED
    BY <1>2, <1>3, <1>4, <1>5, <1>6 DEF DiskConsistent

\* A crash at this step leaves a disk that main() can boot from.
LEMMA RunningConsistent == TypeInv /\ RunningInv => DiskConsistent
  BY OwnedConsistent DEF RunningInv, Ownership

\* While the server runs, no block has two claims.
LEMMA RunningApart == TypeInv /\ RunningInv => Separate(Claims)
  <1> SUFFICES ASSUME TypeInv, RunningInv PROVE Separate(Claims)
    OBVIOUS
  <1>1. DirectoryInv
    BY DEF RunningInv
  <1>2. PICK own \in [Block -> Owner] : Ownership(own)
    BY DEF RunningInv
  <1>3. Directory = dir_inode
    BY <1>1, SameView
  <1>4. \A c \in FileClaims :
          /\ \E n : own[c[4]] = FileOf(n)
          /\ \A d \in FileClaims : c[4] = d[4] => c = d
    BY <1>1, <1>2, FileClaimsOwned, FileClaimsApart DEF Ownership
  <1>5. \A c \in TableClaims(1 .. Len(Directory) \ Dropping) :
          /\ own[c[4]] = InDirectory
          /\ \A d \in TableClaims(1 .. Len(Directory) \ Dropping) : c[4] = d[4] => c = d
    <2>1. PICK is : is = 1 .. Len(Directory) \ Dropping
      OBVIOUS
    <2>2. is \in SUBSET (1 .. Len(dir_inode)) /\ is \cap Dropping = {}
      BY <1>3, <2>1
    <2>3. \A c \in TableClaims(is) :
            /\ own[c[4]] = InDirectory
            /\ \A d \in TableClaims(is) : c[4] = d[4] => c = d
      BY <1>1, <1>2, <2>2, TableClaimsOwned DEF Ownership
    <2>4. QED
      BY <2>1, <2>3
  <1>6. \A c \in FreeClaims :
          /\ own[c[4]] = Free
          /\ \A d \in FreeClaims : c[4] = d[4] => c = d
    <2>1. Owns(own, Free, free_block)
      BY <1>2 DEF Ownership
    <2>2. QED
      BY <2>1 DEF FreeClaims, Owns, Distinct
  <1>7. \A c \in HeldClaims :
          /\ \E t : own[c[4]] = HeldBy(t)
          /\ \A d \in HeldClaims : c[4] = d[4] => c = d
    <2>1. \A t \in Thread : Owns(own, HeldBy(t), HeldBlocks(t))
      BY <1>2 DEF Ownership
    <2>2. ASSUME NEW c \in HeldClaims
          PROVE  \E t \in Thread : \E i \in 1 .. Len(HeldBlocks(t)) :
                   /\ c = << "held", t, i, HeldBlocks(t)[i] >>
                   /\ own[c[4]] = HeldBy(t)
      <3>1. PICK t \in Thread : \E i \in 1 .. Len(HeldBlocks(t)) :
              c = << "held", t, i, HeldBlocks(t)[i] >>
        BY DEF HeldClaims
      <3>2. QED
        BY <2>1, <3>1 DEF Owns
    <2>3. ASSUME NEW c \in HeldClaims, NEW d \in HeldClaims, c[4] = d[4]
          PROVE  c = d
      <3>1. PICK t \in Thread : \E i \in 1 .. Len(HeldBlocks(t)) :
              c = << "held", t, i, HeldBlocks(t)[i] >> /\ own[c[4]] = HeldBy(t)
        BY <2>2
      <3>2. PICK u \in Thread : \E j \in 1 .. Len(HeldBlocks(u)) :
              d = << "held", u, j, HeldBlocks(u)[j] >> /\ own[d[4]] = HeldBy(u)
        BY <2>2
      <3>3. t = u
        BY <2>3, <3>1, <3>2, OwnersDiffer
      <3>4. Distinct(HeldBlocks(t))
        BY <2>1 DEF Owns
      <3>5. QED
        BY <2>3, <3>1, <3>2, <3>3, <3>4 DEF Distinct
    <2>4. QED
      BY <2>2, <2>3
  <1>8. own[0] = Root
    BY <1>2 DEF Ownership, DirectoryOwned
  <1>9. ASSUME NEW c \in Claims, NEW d \in Claims, c[4] = d[4]
        PROVE  c = d
    <2>1. PICK T : T = TableClaims(1 .. Len(Directory) \ Dropping)
      OBVIOUS
    <2>2. /\ c \in FileClaims \/ c \in T \/ c \in FreeClaims \/ c \in HeldClaims
          /\ d \in FileClaims \/ d \in T \/ d \in FreeClaims \/ d \in HeldClaims
      BY <2>1 DEF Claims
    <2>3. CASE c \in FileClaims
      BY <1>4, <1>5, <1>6, <1>7, <1>9, <2>1, <2>2, <2>3, OwnersDiffer
    <2>4. CASE c \in T
      BY <1>4, <1>5, <1>6, <1>7, <1>9, <2>1, <2>2, <2>4, OwnersDiffer
    <2>5. CASE c \in FreeClaims
      BY <1>4, <1>5, <1>6, <1>7, <1>9, <2>1, <2>2, <2>5, OwnersDiffer
    <2>6. CASE c \in HeldClaims
      BY <1>4, <1>5, <1>6, <1>7, <1>9, <2>1, <2>2, <2>6, OwnersDiffer
    <2>7. QED
      BY <2>2, <2>3, <2>4, <2>5, <2>6
  <1>10. ASSUME NEW c \in Claims PROVE c[4] # 0
    BY <1>4, <1>5, <1>6, <1>7, <1>8, OwnersDiffer DEF Claims
  <1>11. QED
    BY <1>9, <1>10 DEF Separate

-----------------------------------------------------------------------------
(* The invariant.                                                          *)

\* An empty disk, and every block but the first free.
LEMMA StoreInvInit == Init => StoreInv
  <1> SUFFICES ASSUME Init PROVE StoreInv
    OBVIOUS
  <1>1. TypeInv /\ up
    BY TypeInvInit DEF Init
  <1>2. dir_inode = << >> /\ Len(dir_inode) = 0
    BY DEF Init
  <1>3. Slots = {} /\ Used = {}
    BY <1>2 DEF Slots, Used
  <1>4. DirectoryInv
    <2>1. disk[0] = DirectoryBlock(dir_inode)
      BY <1>2, ZeroIsBlock DEF Init
    <2>2. QED
      BY <1>2, <1>3, <2>1 DEF DirectoryInv, TablesOK, NamesOK
  <1>5. ASSUME NEW t \in Thread PROVE HandlerOK(t) /\ HeldBlocks(t) = << >>
    <2>1. pc[t] = "new"
      BY DEF Init
    <2>2. QED
      BY <2>1 DEF HandlerOK, FoundOK, CopyOK, CreateOK, DeleteOK, FoundLabel,
                  CopyLabel, HeldBlocks
  <1>6. PICK own : own = [b \in Block |-> IF b = 0 THEN Root ELSE Free]
    OBVIOUS
  <1>7. own \in [Block -> Owner] /\ own[0] = Root
    BY <1>6, OwnerTypes, ZeroIsBlock
  <1>8. Owns(own, Free, free_block)
    <2>1. DiskSize - 1 \in Nat
      BY LayoutAssumption
    <2>2. Len(free_block) = DiskSize - 1 /\ \A i \in 1 .. DiskSize - 1 : free_block[i] = i
      BY <2>1 DEF Init
    <2>3. \A i \in 1 .. DiskSize - 1 : i \in Block /\ i # 0
      BY <2>1 DEF Block
    <2>4. \A i \in 1 .. Len(free_block) : own[free_block[i]] = Free
      BY <1>6, <2>2, <2>3
    <2>5. QED
      BY <2>2, <2>4 DEF Owns, Distinct
  <1>9. DirectoryOwned(own) /\ FilesOwned(own)
    BY <1>2, <1>3, <1>7 DEF DirectoryOwned, FilesOwned, Distinct
  <1>10. Ownership(own)
    BY <1>5, <1>8, <1>9, OwnsEmpty DEF Ownership
  <1>11. QED
    BY <1>1, <1>4, <1>5, <1>7, <1>10 DEF StoreInv, RunningInv

\* The disk alone decides whether it is consistent.
LEMMA SameDiskConsistent ==
    ASSUME DiskConsistent, disk' = disk
    PROVE  DiskConsistent'
  <1>1. /\ Directory' = Directory /\ FileSlots' = FileSlots
        /\ \A i : DiskTable(i)' = DiskTable(i)
        /\ \A s : FileEntry(s)' = FileEntry(s) /\ FileInode(s)' = FileInode(s)
    BY DEF Directory, DiskTable, FileSlots, FileEntry, FileInode
  <1>2. FileClaims' = FileClaims /\ \A is : TableClaims(is)' = TableClaims(is)
    BY <1>1 DEF FileClaims, TableClaims
  <1>3. QED
    BY <1>1, <1>2 DEF DiskConsistent, Separate

\* A crash keeps the disk, which was consistent.
LEMMA CrashOwners ==
    ASSUME StoreInv, TypeInv', Crash
    PROVE  StoreInv'
  <1>1. DiskConsistent
    BY RunningConsistent DEF StoreInv, Crash
  <1>2. disk' = disk /\ ~up' /\ \A t \in Thread : pc'[t] \in {"new", "done"}
    BY DEF Crash
  <1>3. QED
    BY <1>1, <1>2, SameDiskConsistent DEF StoreInv

LEMMA StutterOwners ==
    ASSUME StoreInv, TypeInv', UNCHANGED vars
    PROVE  StoreInv'
  <1>1. /\ UNCHANGED << disk, dir_inode, free_block, up >>
        /\ pc' = pc /\ loc' = loc /\ req' = req
    BY DEF vars, memory
  <1>2. CASE ~up
    BY <1>1, <1>2, SameDiskConsistent DEF StoreInv
  <1>3. CASE up
    <2>1. TypeInv /\ RunningInv
      BY <1>3 DEF StoreInv
    <2>2. PICK own \in [Block -> Owner] : Ownership(own)
      BY <2>1 DEF RunningInv
    <2>3. \A t \in Thread : HandlerOK(t)' /\ HeldBlocks(t)' = HeldBlocks(t)
      BY <1>1, <2>1, SameDiskHandler DEF RunningInv, HeldBlocks
    <2>4. Dropping' = Dropping
      BY <1>1 DEF Dropping, At
    <2>5. DirectoryInv' /\ FilesOwned(own)' /\ DirectoryOwned(own)'
      BY <1>1, <2>1, <2>2, <2>4, SameDisk DEF RunningInv, Ownership
    <2>6. Owns(own, Free, free_block)' /\ \A t \in Thread : Owns(own, HeldBy(t), HeldBlocks(t))'
      BY <1>1, <2>2, <2>3 DEF Ownership, Owns, Free, HeldBy
    <2>7. RunningInv'
      BY <2>3, <2>5, <2>6 DEF RunningInv, Ownership
    <2>8. QED
      BY <1>1, <1>3, <2>7 DEF StoreInv
  <1>4. QED
    BY <1>2, <1>3

\* A thread takes the steps of its handler while it has a request.
LEMMA StepsWork ==
    ASSUME NEW t \in Thread, Step(t)
    PROVE  pc[t] \notin {"new", "done"}
  BY DEF Step, EndRequest, ReadStep, ReadLock, ReadFind, ReadFileLock,
       ReadInode, ReadBlock, ReadUnlock, AppendStep, AppendRoom, AppendLock,
       AppendFind, AppendFileLock, AppendInode, AppendAlloc, AppendPartial,
       AppendData, AppendCommit, AppendUnlock, CreateStep, CreateReserve,
       CreateLock, CreateScan, CreateInode, CreateEntry, CreateExtend,
       CreateNewInode, CreateNewTable, CreateDirInode, CreateUnlock,
       DeleteStep, DeleteLock, DeleteFind, DeleteFreeTable, DeleteDirInode,
       DeleteEntry, DeleteFree, DeleteUnlock, At

\* Handlers run only while the process does.
LEMMA StepsRun ==
    ASSUME StoreInv, NEW t \in Thread, Step(t)
    PROVE  up
  BY StepsWork DEF StoreInv

LEMMA StoreInvStep == StoreInv /\ [Next]_vars => StoreInv'
  <1> SUFFICES ASSUME StoreInv, [Next]_vars PROVE StoreInv'
    OBVIOUS
  <1>1. TypeInv'
    BY TypeInvStep DEF StoreInv
  <1>2. ASSUME NEW t \in Thread, Step(t) PROVE StoreInv'
    <2>1. up
      BY <1>2, StepsRun
    <2>2. QED
      BY <1>1, <1>2, <2>1, ReadOwners, AppendOwners, CreateOwners, DeleteOwners,
         EndOwners DEF Step
  <1>3. ASSUME NEW t \in Thread, NEW r \in Request, Accept(t, r) PROVE StoreInv'
    BY <1>1, <1>3, AcceptOwners DEF Accept
  <1>4. CASE Crash
    BY <1>1, <1>4, CrashOwners
  <1>5. CASE UNCHANGED vars
    BY <1>1, <1>5, StutterOwners
  <1>6. QED
    BY <1>2, <1>3, <1>4, <1>5 DEF Next, Quiet

\* No interleaving of the connections puts a block to two uses: the free
\* list, the directory, the files and the handlers have different blocks,
\* for every disk, every set of requests and every number of connections.
THEOREM BlocksOwnedAlways == Spec => []BlocksOwnedOnce
  <1>1. StoreInv => BlocksOwnedOnce
    BY RunningApart DEF StoreInv, BlocksOwnedOnce
  <1>2. QED
    BY StoreInvInit, StoreInvStep, <1>1, PTL DEF Spec

\* A crash between any two steps of any handlers leaves a disk that main()
\* can boot from: the order of the writes is enough, without a journal.
THEOREM DiskConsistentAlways == Spec => []DiskConsistent
  <1>1. StoreInv => DiskConsistent
    BY RunningConsistent DEF StoreInv
  <1>2. QED
    BY StoreInvInit, StoreInvStep, <1>1, PTL DEF Spec

-----------------------------------------------------------------------------
(* No block is lost, but by a create whose name exists.                    *)

\* What the blocks in use are, of the memory of the server.
TableHas(b) == \E i \in 1 .. Len(dir_inode) : i \notin Dropping /\ dir_inode[i] = b
FileHas(s, b) == b = EntryAt(s).inode_block \/ b \in BlocksOf(FileBlocks(s))
SomeFileHas(b) == \E s \in Used : FileHas(s, b)
ThreadHas(t, b) == b \in BlocksOf(HeldBlocks(t))
InUse(b) ==
    \/ b \in BlocksOf(free_block)
    \/ TableHas(b)
    \/ SomeFileHas(b)
    \/ \E t \in Thread : ThreadHas(t, b)

LEMMA ClaimedInUse ==
    ASSUME TypeInv, DirectoryInv, NEW b
    PROVE  b \in Claimed <=> InUse(b)
  <1>1. /\ Directory = dir_inode /\ FileSlots = Used
        /\ \A s \in Used : FileEntry(s) = EntryAt(s)
        /\ \A s \in Used : FileInode(s).blocks = FileBlocks(s)
    BY SameView DEF FileBlocks
  <1>2. (\E c \in FreeClaims : c[4] = b) <=> b \in BlocksOf(free_block)
    <2>1. \A i \in 1 .. Len(free_block) : << "free", 0, i, free_block[i] >>[4] = free_block[i]
      OBVIOUS
    <2>2. QED
      BY <2>1 DEF FreeClaims, BlocksOf
  <1>3. (\E c \in HeldClaims : c[4] = b) <=> \E t \in Thread : ThreadHas(t, b)
    <2>1. ASSUME NEW c \in HeldClaims, c[4] = b PROVE \E t \in Thread : ThreadHas(t, b)
      <3>1. PICK t \in Thread : \E i \in 1 .. Len(HeldBlocks(t)) :
              c = << "held", t, i, HeldBlocks(t)[i] >>
        BY DEF HeldClaims
      <3>2. QED
        BY <2>1, <3>1 DEF ThreadHas, BlocksOf
    <2>2. ASSUME NEW t \in Thread, ThreadHas(t, b) PROVE \E c \in HeldClaims : c[4] = b
      <3>1. PICK i \in 1 .. Len(HeldBlocks(t)) : HeldBlocks(t)[i] = b
        BY <2>2 DEF ThreadHas, BlocksOf
      <3>2. << "held", t, i, HeldBlocks(t)[i] >> \in HeldClaims
        BY DEF HeldClaims
      <3>3. QED
        BY <3>1, <3>2
    <2>3. QED
      BY <2>1, <2>2
  <1>4. (\E c \in TableClaims(1 .. Len(Directory) \ Dropping) : c[4] = b) <=> TableHas(b)
    <2>1. PICK is : is = (1 .. Len(dir_inode)) \ Dropping
      OBVIOUS
    <2>2. (\E c \in TableClaims(is) : c[4] = b) <=> \E i \in is : dir_inode[i] = b
      <3>1. \A i \in is : << "table", 0, i, dir_inode[i] >>[4] = dir_inode[i]
        OBVIOUS
      <3>2. QED
        BY <1>1, <3>1 DEF TableClaims
    <2>3. QED
      BY <1>1, <2>1, <2>2 DEF TableHas
  <1>5. (\E c \in FileClaims : c[4] = b) <=> SomeFileHas(b)
    <2>1. ASSUME NEW c \in FileClaims, c[4] = b PROVE SomeFileHas(b)
      <3>1. PICK s \in Used :
              \/ c = << "inode", SlotNumber(s), 0, EntryAt(s).inode_block >>
              \/ \E i \in 1 .. Len(FileBlocks(s)) :
                   c = << "data", SlotNumber(s), i, FileBlocks(s)[i] >>
        BY <1>1 DEF FileClaims
      <3>2. QED
        BY <2>1, <3>1 DEF SomeFileHas, FileHas, BlocksOf
    <2>2. ASSUME NEW s \in Used, FileHas(s, b) PROVE \E c \in FileClaims : c[4] = b
      <3>1. << "inode", SlotNumber(s), 0, EntryAt(s).inode_block >> \in FileClaims
        BY <1>1 DEF FileClaims
      <3>2. \A i \in 1 .. Len(FileBlocks(s)) :
              << "data", SlotNumber(s), i, FileBlocks(s)[i] >> \in FileClaims
        BY <1>1 DEF FileClaims
      <3>3. QED
        BY <2>2, <3>1, <3>2 DEF FileHas, BlocksOf
    <2>3. QED
      BY <2>1, <2>2 DEF SomeFileHas
  <1>6. QED
    BY <1>2, <1>3, <1>4, <1>5 DEF Claimed, Claims, InUse

\* A table is dropped only by a thread that gets to that step.
LEMMA NoneDropped ==
    ASSUME TypeInv, NEW t \in Thread, Step(t), pc'[t] # "delete_dir_inode"
    PROVE  Dropping' \subseteq Dropping
  <1>1. ASSUME NEW u \in Thread, pc'[u] = "delete_dir_inode"
        PROVE  pc[u] = "delete_dir_inode" /\ loc'[u] = loc[u]
    BY <1>1, OthersUnchanged DEF TypeInv
  <1>2. QED
    BY <1>1 DEF Dropping, At

\* A step loses nothing when it keeps what is free, in the directory, in a
\* file or its own.
LEMMA NothingLost ==
    ASSUME StoreInv, up, StoreInv', up', NEW t \in Thread,
           \A u \in Thread \ {t} : HeldBlocks(u)' = HeldBlocks(u), NEW b,
           b \in BlocksOf(free_block) => InUse(b)',
           TableHas(b) => InUse(b)',
           SomeFileHas(b) => InUse(b)',
           ThreadHas(t, b) => InUse(b)'
    PROVE  b \in Claimed => b \in Claimed'
  <1>1. ASSUME NEW u \in Thread \ {t}, ThreadHas(u, b) PROVE InUse(b)'
    BY <1>1 DEF ThreadHas, BlocksOf, InUse
  <1>2. InUse(b) => InUse(b)'
    BY <1>1 DEF InUse
  <1>3. b \in Claimed <=> InUse(b)
    BY ClaimedInUse DEF StoreInv, RunningInv
  <1>4. (b \in Claimed <=> InUse(b))'
    BY ClaimedInUse, PTL DEF StoreInv, RunningInv
  <1>5. QED
    BY <1>2, <1>3, <1>4

\* A step that leaves the directory, its tables and the blocks of its files
\* as they are.
LEMMA DirectoryKeeps ==
    ASSUME StoreInv, up, StoreInv', up', NEW t \in Thread,
           \A u \in Thread \ {t} : HeldBlocks(u)' = HeldBlocks(u),
           UNCHANGED dir_inode, Dropping' \subseteq Dropping,
           \A i \in 1 .. Len(dir_inode) : disk'[dir_inode[i]] = disk[dir_inode[i]],
           \A s \in Used : BlocksOf(FileBlocks(s)) \subseteq
                             BlocksOf(disk'[EntryAt(s).inode_block].blocks),
           NEW b, b \in BlocksOf(free_block) => InUse(b)', ThreadHas(t, b) => InUse(b)'
    PROVE  b \in Claimed => b \in Claimed'
  <1>1. TableHas(b) => TableHas(b)'
    BY DEF TableHas
  <1>2. Used' = Used /\ \A s \in Used : EntryAt(s)' = EntryAt(s)
    BY DirectoryFrame DEF Used
  <1>3. ASSUME NEW s \in Used, FileHas(s, b) PROVE SomeFileHas(b)'
    <2>1. FileBlocks(s)' = disk'[EntryAt(s).inode_block].blocks
      BY <1>2 DEF FileBlocks
    <2>2. BlocksOf(FileBlocks(s))' = BlocksOf(disk'[EntryAt(s).inode_block].blocks)
      BY <2>1 DEF BlocksOf
    <2>3. FileHas(s, b)'
      BY <1>2, <1>3, <2>2 DEF FileHas
    <2>4. QED
      BY <1>2, <2>3 DEF SomeFileHas
  <1>4. SomeFileHas(b) => SomeFileHas(b)'
    BY <1>3 DEF SomeFileHas
  <1>5. QED
    BY <1>1, <1>4, NothingLost DEF InUse

\* A step of a handler that leaves the disk alone.
LEMMA DiskKeeps ==
    ASSUME StoreInv, up, StoreInv', up', NEW t \in Thread, Step(t),
           UNCHANGED << disk, dir_inode >>, pc'[t] # "delete_dir_inode",
           NEW b, b \in BlocksOf(free_block) => InUse(b)', ThreadHas(t, b) => InUse(b)'
    PROVE  b \in Claimed => b \in Claimed'
  <1>1. TypeInv
    BY DEF StoreInv
  <1>2. \A s \in Used : BlocksOf(FileBlocks(s)) \subseteq
                          BlocksOf(disk'[EntryAt(s).inode_block].blocks)
    BY DEF FileBlocks
  <1>3. \A i \in 1 .. Len(dir_inode) : disk'[dir_inode[i]] = disk[dir_inode[i]]
    OBVIOUS
  <1>4. Dropping' \subseteq Dropping /\ \A u \in Thread \ {t} : HeldBlocks(u)' = HeldBlocks(u)
    BY <1>1, NoneDropped, OthersHold
  <1>5. QED
    BY <1>2, <1>3, <1>4, DirectoryKeeps

\* A step that changes neither the disk, nor the memory of the server, nor
\* what the handler holds.
LEMMA MemoryKeeps ==
    ASSUME StoreInv, up, StoreInv', up', NEW t \in Thread, Step(t),
           UNCHANGED << disk, memory >>, pc'[t] # "delete_dir_inode",
           HeldBlocks(t)' = HeldBlocks(t) \/ HeldBlocks(t) = << >>, NEW b
    PROVE  b \in Claimed => b \in Claimed'
  <1>1. UNCHANGED << disk, dir_inode, free_block >>
    BY DEF memory
  <1>2. b \in BlocksOf(free_block) => InUse(b)'
    BY <1>1 DEF InUse, BlocksOf
  <1>3. ThreadHas(t, b) => InUse(b)'
    <2>1. CASE HeldBlocks(t)' = HeldBlocks(t)
      BY <2>1 DEF ThreadHas, BlocksOf, InUse
    <2>2. CASE HeldBlocks(t) = << >>
      BY <2>2 DEF ThreadHas, BlocksOf
    <2>3. QED
      BY <2>1, <2>2
  <1>4. QED
    BY <1>1, <1>2, <1>3, DiskKeeps

\* The steps of handlers that hold no block, or go on with what they hold.
LEMMA QuietKeeps ==
    ASSUME StoreInv, up, StoreInv', up', NEW t \in Thread, NEW b,
           \/ ReadStep(t) \/ EndRequest(t)
           \/ AppendRoom(t) \/ AppendLock(t) \/ AppendFind(t) \/ AppendFileLock(t)
           \/ AppendInode(t) \/ AppendUnlock(t)
           \/ CreateLock(t) \/ CreateUnlock(t)
           \/ DeleteLock(t) \/ DeleteFind(t) \/ DeleteUnlock(t)
    PROVE  b \in Claimed => b \in Claimed'
  <1>1. TypeInv /\ TypeOK
    BY DEF StoreInv, TypeInv
  <1>2. CASE ReadStep(t)
    <2>1. UNCHANGED << disk, memory >>
      BY <1>2 DEF ReadStep, ReadLock, ReadFind, ReadFileLock, ReadInode, ReadBlock, ReadUnlock
    <2>2. pc[t] \in ReadLabel
      BY <1>2 DEF ReadStep, ReadLock, ReadFind, ReadFileLock, ReadInode,
         ReadBlock, ReadUnlock, At, ReadLabel
    <2>3. pc'[t] # "delete_dir_inode"
      BY <1>1, <1>2, Moves DEF ReadStep, ReadLock, ReadFind, ReadFileLock, ReadInode,
         ReadBlock, ReadUnlock
    <2>4. HeldBlocks(t) = << >>
      BY <2>2 DEF HeldBlocks, ReadLabel
    <2>5. QED
      BY <1>2, <2>1, <2>3, <2>4, MemoryKeeps DEF Step
  <1>3. CASE EndRequest(t)
    <2>1. UNCHANGED << disk, memory >> /\ pc[t] = "reply" /\ pc'[t] = "done"
      BY <1>1, <1>3 DEF EndRequest, At, TypeOK
    <2>2. HeldBlocks(t) = << >>
      BY <2>1 DEF HeldBlocks
    <2>3. QED
      BY <1>3, <2>1, <2>2, MemoryKeeps DEF Step
  <1>4. CASE AppendRoom(t) \/ AppendLock(t) \/ AppendFind(t) \/ AppendFileLock(t)
               \/ AppendInode(t) \/ AppendUnlock(t)
    <2>1. UNCHANGED << disk, memory >>
      BY <1>4 DEF AppendRoom, AppendLock, AppendFind, AppendFileLock, AppendInode, AppendUnlock
    <2>2. pc[t] \in {"append_room", "append_lock", "append_find", "append_filelock",
                     "append_inode", "append_unlock"}
      BY <1>4 DEF AppendRoom, AppendLock, AppendFind, AppendFileLock, AppendInode,
         AppendUnlock, At
    <2>3. pc'[t] # "delete_dir_inode"
      BY <1>1, <1>4, Moves DEF AppendRoom, AppendLock, AppendFind, AppendFileLock,
         AppendInode, AppendUnlock
    <2>4. HeldBlocks(t) = << >>
      BY <2>2 DEF HeldBlocks
    <2>5. QED
      BY <1>4, <2>1, <2>3, <2>4, MemoryKeeps DEF Step, AppendStep
  <1>5. CASE CreateLock(t)
    <2>1. /\ UNCHANGED << disk, memory, loc >>
          /\ pc[t] = "create_lock" /\ pc'[t] = "create_scan"
      BY <1>1, <1>5, Moves DEF CreateLock, At
    <2>2. HeldBlocks(t)' = HeldBlocks(t)
      BY <2>1 DEF HeldBlocks
    <2>3. QED
      BY <1>5, <2>1, <2>2, MemoryKeeps DEF Step, CreateStep
  <1>6. CASE CreateUnlock(t)
    <2>1. UNCHANGED << disk, memory >> /\ pc[t] = "create_unlock" /\ pc'[t] = "reply"
      BY <1>1, <1>6, Moves DEF CreateUnlock, At
    <2>2. HeldBlocks(t) = << >>
      BY <2>1 DEF HeldBlocks
    <2>3. QED
      BY <1>6, <2>1, <2>2, MemoryKeeps DEF Step, CreateStep
  <1>7. CASE DeleteLock(t) \/ DeleteFind(t) \/ DeleteUnlock(t)
    <2>1. UNCHANGED << disk, memory >>
      BY <1>7 DEF DeleteLock, DeleteFind, DeleteUnlock
    <2>2. pc[t] \in {"delete_lock", "delete_find", "delete_unlock"}
      BY <1>7 DEF DeleteLock, DeleteFind, DeleteUnlock, At
    <2>3. pc'[t] # "delete_dir_inode"
      BY <1>1, <1>7, Moves DEF DeleteLock, DeleteFind, DeleteUnlock
    <2>4. HeldBlocks(t) = << >>
      BY <2>2 DEF HeldBlocks
    <2>5. QED
      BY <1>7, <2>1, <2>3, <2>4, MemoryKeeps DEF Step, DeleteStep
  <1>8. QED
    BY <1>2, <1>3, <1>4, <1>5, <1>6, <1>7

\* The blocks of the two ends of a sequence, and of two in a row.
LEMMA BlocksSplit ==
    ASSUME NEW s \in Seq(Block), NEW n \in 0 .. Len(s), NEW b \in BlocksOf(s)
    PROVE  b \in BlocksOf(SubSeq(s, 1, n)) \/ b \in BlocksOf(SubSeq(s, n + 1, Len(s)))
  <1>1. PICK i \in 1 .. Len(s) : s[i] = b
    BY DEF BlocksOf
  <1>2. CASE i <= n
    <2>1. SubSeq(s, 1, n)[i] = b /\ i \in 1 .. Len(SubSeq(s, 1, n))
      BY <1>1, <1>2, SubSeqHead
    <2>2. QED
      BY <2>1 DEF BlocksOf
  <1>3. CASE i > n
    <2>1. /\ i - n \in 1 .. Len(s) - n /\ n \in Nat /\ n <= Len(s) /\ n + (i - n) = i
      BY <1>3
    <2>2. /\ SubSeq(s, n + 1, Len(s))[i - n] = b
          /\ i - n \in 1 .. Len(SubSeq(s, n + 1, Len(s)))
      BY <1>1, <2>1, SubSeqTail
    <2>3. QED
      BY <2>2 DEF BlocksOf
  <1>4. QED
    BY <1>2, <1>3

LEMMA BlocksJoin ==
    ASSUME NEW s \in Seq(Block), NEW r \in Seq(Block), NEW b
    PROVE  b \in BlocksOf(s \o r) <=> b \in BlocksOf(s) \/ b \in BlocksOf(r)
  <1>1. /\ \A i \in 1 .. Len(s) : i \in 1 .. Len(s \o r) /\ (s \o r)[i] = s[i]
        /\ \A i \in 1 .. Len(r) : Len(s) + i \in 1 .. Len(s \o r) /\ (s \o r)[Len(s) + i] = r[i]
        /\ Len(s \o r) = Len(s) + Len(r)
    OBVIOUS
  <1>2. \A i \in 1 .. Len(s \o r) : i \in 1 .. Len(s) \/ i - Len(s) \in 1 .. Len(r)
    BY <1>1
  <1>3. \A i \in Int : Len(s) + (i - Len(s)) = i
    OBVIOUS
  <1>4. QED
    BY <1>1, <1>2, <1>3 DEF BlocksOf

LEMMA BlocksJoinThree ==
    ASSUME NEW s \in Seq(Block), NEW r \in Seq(Block), NEW q \in Seq(Block), NEW b
    PROVE  b \in BlocksOf(s) \/ b \in BlocksOf(r) => b \in BlocksOf(s \o r \o q)
  <1>1. s \o r \in Seq(Block)
    OBVIOUS
  <1>2. b \in BlocksOf(s \o r) => b \in BlocksOf(s \o r \o q)
    BY <1>1, BlocksJoin
  <1>3. QED
    BY <1>2, BlocksJoin

\* A handler takes the top of the free list.
LEMMA TakeKeeps ==
    ASSUME StoreInv, up, StoreInv', up', NEW t \in Thread, Step(t),
           UNCHANGED << disk, dir_inode >>, pc'[t] # "delete_dir_inode",
           NEW n \in 0 .. Len(free_block), free_block' = SubSeq(free_block, 1, n),
           NEW taken \in Seq(Block), taken = SubSeq(free_block, n + 1, Len(free_block)),
           NEW more \in Seq(Block), HeldBlocks(t) \o taken \o more = HeldBlocks(t)',
           NEW b
    PROVE  b \in Claimed => b \in Claimed'
  <1>1. free_block \in Seq(Block) /\ HeldBlocks(t) \in Seq(Block)
    BY HeldTypes DEF StoreInv, TypeInv, TypeOK
  <1>2. PICK held : held = HeldBlocks(t) /\ held \in Seq(Block)
    BY <1>1
  <1>3. HeldBlocks(t)' = held \o taken \o more
    BY <1>2
  <1>4. b \in BlocksOf(held) \/ b \in BlocksOf(taken) => b \in BlocksOf(held \o taken \o more)
    BY <1>2, BlocksJoinThree
  <1>5. b \in BlocksOf(held) \/ b \in BlocksOf(taken) => InUse(b)'
    BY <1>2, <1>3, <1>4 DEF InUse, ThreadHas, BlocksOf
  <1>6. b \in BlocksOf(free_block) => InUse(b)'
    <2>1. b \in BlocksOf(free_block) =>
            b \in BlocksOf(SubSeq(free_block, 1, n)) \/ b \in BlocksOf(taken)
      BY <1>1, BlocksSplit
    <2>2. b \in BlocksOf(SubSeq(free_block, 1, n)) => InUse(b)'
      BY DEF InUse, BlocksOf
    <2>3. QED
      BY <1>5, <2>1, <2>2
  <1>7. ThreadHas(t, b) => InUse(b)'
    BY <1>2, <1>5 DEF ThreadHas
  <1>8. QED
    BY <1>6, <1>7, DiskKeeps

\* A handler gives what it holds to the free list.
LEMMA GiveKeeps ==
    ASSUME StoreInv, up, StoreInv', up', NEW t \in Thread, Step(t),
           UNCHANGED << disk, dir_inode >>, pc'[t] # "delete_dir_inode",
           free_block' = free_block \o HeldBlocks(t), NEW b
    PROVE  b \in Claimed => b \in Claimed'
  <1>1. free_block \in Seq(Block) /\ HeldBlocks(t) \in Seq(Block)
    BY HeldTypes DEF StoreInv, TypeInv, TypeOK
  <1>2. b \in BlocksOf(free_block) \/ b \in BlocksOf(HeldBlocks(t)) => b \in BlocksOf(free_block')
    BY <1>1, BlocksJoin
  <1>3. b \in BlocksOf(free_block') => InUse(b)'
    BY DEF InUse, BlocksOf
  <1>4. QED
    BY <1>2, <1>3, DiskKeeps DEF ThreadHas

LEMMA AppendAllocKeeps ==
    ASSUME StoreInv, up, StoreInv', up', NEW t \in Thread, NEW b, AppendAlloc(t)
    PROVE  b \in Claimed => b \in Claimed'
  <1> DEFINE l == loc[t]
             free == Len(free_block)
             need == BlocksToAdd(l.inode.size, Len(l.data))
             n == free - need
             taken == SubSeq(free_block, n + 1, free)
  <1>1. TypeInv /\ Step(t) /\ RunningInv
    BY DEF StoreInv, Step, AppendStep
  <1>2. UNCHANGED << disk, dir_inode >> /\ pc[t] = "append_alloc"
    BY DEF AppendAlloc, At
  <1>3. CASE UNCHANGED free_block /\ \E why : Return(t, why)
    <2>1. pc'[t] = "reply" /\ UNCHANGED << disk, memory >>
      BY <1>1, <1>2, <1>3, Moves DEF memory
    <2>2. HeldBlocks(t) = << >>
      BY <1>2 DEF HeldBlocks
    <2>3. QED
      BY <1>1, <2>1, <2>2, MemoryKeeps
  <1>4. CASE /\ ~TooBig(l.inode.size, Len(l.data), free)
             /\ free_block' = SubSeq(free_block, 1, n)
             /\ loc' = [loc EXCEPT ![t].tmp = taken]
             /\ \E label \in {"append_data", "append_partial"} : Goto(t, label)
    <2>1. free_block \in Seq(Block) /\ free \in Nat
      BY <1>1, LocalTypes DEF MemoryOK
    <2>2. l.inode.size \in Nat /\ Len(l.data) \in Nat
      BY <1>1, LocalTypes
    <2>3. need \in Nat /\ need <= free
      <3>1. \A size, m, f \in Nat : /\ BlocksToAdd(size, m) \in Nat
                                    /\ ~TooBig(size, m, f) => BlocksToAdd(size, m) <= f
        BY TooBigExact, BlocksToAddNat
      <3>2. QED
        BY <1>4, <2>1, <2>2, <3>1
    <2> HIDE DEF need
    <2>4. n \in 0 .. free
      BY <2>1, <2>3
    <2> HIDE DEF n
    <2>5. taken \in Seq(Block)
      BY <2>1, <2>4, SubSeqTail
    <2> HIDE DEF taken
    <2>6. loc'[t].inode = l.inode /\ loc'[t].tmp = taken
      BY <1>1, <1>4, <2>5, LocalTypes DEF Locals
    <2>7. pc'[t] \in {"append_data", "append_partial"}
      BY <1>1, <1>4, Moves
    <2>8. PICK more : more = Linked(l.inode)
      OBVIOUS
    <2>9. HeldBlocks(t) = << >> /\ HeldBlocks(t)' = taken \o more
      BY <1>2, <2>6, <2>7, <2>8 DEF HeldBlocks, Linked
    <2>10. more \in Seq(Block)
      BY <1>1, <2>8, LocalTypes, LinkedTypes
    <2>11. HeldBlocks(t) \o taken \o more = HeldBlocks(t)'
      <3>1. << >> \o taken = taken
        BY <2>5
      <3>2. QED
        BY <2>9, <3>1
    <2>12. QED
      BY <1>1, <1>2, <1>4, <2>4, <2>5, <2>7, <2>10, <2>11, TakeKeeps DEF taken
  <1>5. QED
    BY <1>3, <1>4 DEF AppendAlloc

LEMMA CreateReserveKeeps ==
    ASSUME StoreInv, up, StoreInv', up', NEW t \in Thread, NEW b, CreateReserve(t)
    PROVE  b \in Claimed => b \in Claimed'
  <1>0. PICK free, a : free = Len(free_block) /\ a = free_block[free]
    OBVIOUS
  <1>1. /\ TypeInv /\ Step(t) /\ UNCHANGED << disk, dir_inode >>
        /\ pc[t] = "create_reserve"
    BY DEF StoreInv, Step, CreateStep, CreateReserve, At
  <1>2. CASE Return(t, "no_inode_space") /\ UNCHANGED free_block
    <2>1. pc'[t] = "reply" /\ UNCHANGED << disk, memory >> /\ HeldBlocks(t) = << >>
      BY <1>1, <1>2, Moves DEF memory, HeldBlocks
    <2>2. QED
      BY <1>1, <2>1, MemoryKeeps
  <1>3. CASE /\ free > 0 /\ loc' = [loc EXCEPT ![t].free_b_1 = a]
             /\ free_block' = SubSeq(free_block, 1, free - 1) /\ Goto(t, "create_lock")
    <2>1. free_block \in Seq(Block) /\ free \in Nat \ {0}
      BY <1>0, <1>1, <1>3 DEF TypeInv, TypeOK
    <2>2. free - 1 \in Nat /\ free - 1 \in 0 .. free /\ (free - 1) + 1 = free
      BY <2>1
    <2>3. SubSeq(free_block, (free - 1) + 1, free) = << a >> /\ a \in Block
      BY <1>0, <2>1, <2>2, TopBlock
    <2>4. pc'[t] = "create_lock" /\ loc'[t].free_b_1 = a
      BY <1>1, <1>3, <2>3, Moves, LocalTypes DEF Locals
    <2>5. HeldBlocks(t) = << >> /\ HeldBlocks(t)' = << a >>
      BY <1>1, <2>4 DEF HeldBlocks
    <2>6. << >> \o << a >> \o << >> = << a >> /\ << a >> \in Seq(Block) /\ << >> \in Seq(Block)
      BY <2>3
    <2>7. QED
      BY <1>0, <1>1, <1>3, <2>2, <2>3, <2>4, <2>5, <2>6, TakeKeeps
  <1>4. QED
    BY <1>0, <1>2, <1>3 DEF CreateReserve

\* The scan of a create: only a name that exists loses the inode's block.
LEMMA CreateScanKeeps ==
    ASSUME StoreInv, up, StoreInv', up', NEW t \in Thread, NEW b, CreateScan(t)
    PROVE  b \in Claimed =>
             b \in Claimed' \/ (outcome'[t] = "exists" /\ b = loc[t].free_b_1)
  <1>1. /\ TypeInv /\ Step(t) /\ UNCHANGED << disk, memory, req >>
        /\ pc[t] = "create_scan"
    BY DEF StoreInv, Step, CreateStep, CreateScan, At
  <1>2. HeldBlocks(t) = << loc[t].free_b_1 >>
    BY <1>1 DEF HeldBlocks
  <1>3. CASE Return(t, "exists")
    <2>1. outcome'[t] = "exists" /\ pc'[t] = "reply"
      BY <1>1, <1>3 DEF Return, TypeInv, TypeOK
    <2>2. ThreadHas(t, b) => b = loc[t].free_b_1
      BY <1>2, OneBlock DEF ThreadHas
    <2>3. ASSUME b # loc[t].free_b_1 PROVE b \in Claimed => b \in Claimed'
      <3>1. b \in BlocksOf(free_block) => InUse(b)'
        BY <1>1 DEF memory, InUse, BlocksOf
      <3>2. QED
        BY <1>1, <2>1, <2>2, <2>3, <3>1, DiskKeeps DEF memory
    <2>4. QED
      BY <2>1, <2>3
  <1>4. CASE pc'[t] \in {"create_inode", "create_extend"}
    <2>1. loc'[t].free_b_1 = loc[t].free_b_1
      BY <1>1, <1>4, LocalTypes DEF CreateScan, Locals
    <2>2. HeldBlocks(t)' = HeldBlocks(t)
      BY <1>2, <1>4, <2>1 DEF HeldBlocks
    <2>3. QED
      BY <1>1, <1>4, <2>2, MemoryKeeps
  <1>5. QED
    BY <1>1, <1>3, <1>4, Moves DEF CreateScan

LEMMA OneThenOne ==
    ASSUME NEW a \in Block, NEW c \in Block
    PROVE  << a >> \o << c >> = << a, c >>
  <1>1. Len(<< a >> \o << c >>) = Len(<< a, c >>)
    OBVIOUS
  <1>2. \A i \in 1 .. 2 : (<< a >> \o << c >>)[i] = << a, c >>[i]
    OBVIOUS
  <1>3. << a >> \o << c >> \in Seq(Block) /\ << a, c >> \in Seq(Block)
    OBVIOUS
  <1>4. QED
    BY <1>1, <1>2, <1>3, SeqEqual

LEMMA CreateExtendKeeps ==
    ASSUME StoreInv, up, StoreInv', up', NEW t \in Thread, NEW b, CreateExtend(t)
    PROVE  b \in Claimed => b \in Claimed'
  <1>0. PICK free, a, c : free = Len(free_block) /\ a = loc[t].free_b_1 /\ c = free_block[free]
    OBVIOUS
  <1>1. /\ TypeInv /\ Step(t) /\ UNCHANGED << disk, dir_inode >>
        /\ pc[t] = "create_extend" /\ free_block \in Seq(Block) /\ a \in Block
    BY <1>0, LocalTypes DEF StoreInv, Step, CreateStep, CreateExtend, At, TypeInv, TypeOK
  <1>2. HeldBlocks(t) = << a >>
    BY <1>0, <1>1 DEF HeldBlocks
  <1>3. CASE /\ free > 0 /\ loc' = [loc EXCEPT ![t].free_b_2 = c]
             /\ free_block' = SubSeq(free_block, 1, free - 1)
             /\ Goto(t, "create_new_inode")
    <2>1. free \in Nat \ {0}
      BY <1>0, <1>1, <1>3
    <2>2. free - 1 \in Nat /\ free - 1 \in 0 .. free /\ (free - 1) + 1 = free
      BY <2>1
    <2>3. SubSeq(free_block, (free - 1) + 1, free) = << c >> /\ c \in Block
      BY <1>0, <1>1, <2>1, <2>2, TopBlock
    <2>4. /\ pc'[t] = "create_new_inode" /\ loc'[t].free_b_2 = c
          /\ loc'[t].free_b_1 = a
      BY <1>0, <1>1, <1>3, <2>3, Moves, LocalTypes DEF Locals
    <2>5. HeldBlocks(t)' = << a, c >>
      BY <2>4 DEF HeldBlocks
    <2>6. << a >> \o << c >> \o << >> = << a, c >> /\ << c >> \in Seq(Block) /\ << >> \in Seq(Block)
      <3>1. << a >> \o << c >> = << a, c >>
        BY <1>1, <2>3, OneThenOne
      <3>2. << a, c >> \in Seq(Block) /\ << c >> \in Seq(Block) /\ << >> \in Seq(Block)
        BY <1>1, <2>3
      <3>3. \A s \in Seq(Block) : s \o << >> = s
        OBVIOUS
      <3>4. QED
        BY <3>1, <3>2, <3>3
    <2>7. QED
      BY <1>0, <1>1, <1>2, <1>3, <2>2, <2>3, <2>4, <2>5, <2>6, TakeKeeps
  <1>4. CASE free_block' = Append(free_block, a) /\ Return(t, "no_dir_space")
    <2>1. pc'[t] = "reply"
      BY <1>1, <1>4, Moves
    <2>2. free_block' = free_block \o HeldBlocks(t)
      BY <1>1, <1>2, <1>4
    <2>3. QED
      BY <1>1, <2>1, <2>2, GiveKeeps
  <1>5. QED
    BY <1>0, <1>3, <1>4 DEF CreateExtend

LEMMA DeleteFreeKeeps ==
    ASSUME StoreInv, up, StoreInv', up', NEW t \in Thread, NEW b, DeleteFree(t)
    PROVE  b \in Claimed => b \in Claimed'
  <1>1. /\ TypeInv /\ Step(t) /\ UNCHANGED << disk, dir_inode >>
        /\ pc'[t] # "delete_dir_inode"
    BY Moves DEF StoreInv, Step, DeleteStep, DeleteFree
  <1>2. QED
    BY <1>1, DeleteFreeGives, GiveKeeps

\* The table that is freed stays in use: the free list has it now.
LEMMA DeleteFreeTableKeeps ==
    ASSUME StoreInv, up, StoreInv', up', NEW t \in Thread, NEW b, DeleteFreeTable(t)
    PROVE  b \in Claimed => b \in Claimed'
  <1>0. PICK k : k = loc[t].slot[1]
    OBVIOUS
  <1>1. /\ TypeInv /\ Step(t) /\ pc[t] = "delete_free_table" /\ HandlerOK(t)
        /\ UNCHANGED << disk, dir_inode, req, loc >>
        /\ free_block' = Append(free_block, dir_inode[k])
        /\ free_block \in Seq(Block)
    BY <1>0 DEF StoreInv, RunningInv, Step, DeleteStep, DeleteFreeTable, At, TypeInv, TypeOK
  <1>2. k \in 1 .. Len(dir_inode) /\ dir_inode[k] \in Block
    BY <1>0, <1>1 DEF HandlerOK, DeleteOK, Used, Slots, TypeInv, TypeOK
  <1>3. Dropping' = Dropping \cup {k} /\ HeldBlocks(t) = << >>
    <2>1. pc'[t] = "delete_dir_inode"
      BY <1>1, Moves DEF DeleteFreeTable
    <2>2. \A u \in Thread \ {t} : pc'[u] = pc[u]
      BY <1>1, OthersUnchanged DEF TypeInv
    <2>3. QED
      BY <1>0, <1>1, <2>1, <2>2 DEF Dropping, At, HeldBlocks
  <1>4. \A a \in Block : a \in BlocksOf(free_block) \/ a = dir_inode[k] => a \in BlocksOf(free_block')
    <2>0. PICK d \in Block : d = dir_inode[k]
      BY <1>2
    <2>1. PICK one : one = << d >>
      OBVIOUS
    <2>2. one \in Seq(Block)
      BY <2>0, <2>1
    <2>3. free_block' = free_block \o one /\ BlocksOf(one) = {dir_inode[k]}
      BY <1>1, <2>0, <2>1, OneBlock
    <2>4. \A a : a \in BlocksOf(free_block \o one) <=> a \in BlocksOf(free_block) \/ a \in BlocksOf(one)
      BY <1>1, <2>2, BlocksJoin
    <2>5. QED
      BY <2>3, <2>4
  <1>5. b \in BlocksOf(free_block') => InUse(b)'
    BY DEF InUse, BlocksOf
  <1>6. b \in BlocksOf(free_block) => b \in Block
    BY <1>1 DEF BlocksOf
  <1>7. TableHas(b) => InUse(b)'
    <2>1. CASE b = dir_inode[k]
      BY <1>2, <1>4, <1>5, <2>1
    <2>2. CASE b # dir_inode[k]
      BY <1>1, <1>3, <2>2 DEF TableHas, InUse
    <2>3. QED
      BY <2>1, <2>2
  <1>8. SomeFileHas(b) => InUse(b)'
    <2>1. Used' = Used /\ \A s \in Used : EntryAt(s)' = EntryAt(s) /\ FileBlocks(s)' = FileBlocks(s)
      BY <1>1, DirectoryFrame DEF Used, FileBlocks
    <2>2. QED
      BY <2>1 DEF SomeFileHas, FileHas, BlocksOf, InUse
  <1>9. ~ThreadHas(t, b)
    BY <1>3 DEF ThreadHas, BlocksOf
  <1>10. \A u \in Thread \ {t} : HeldBlocks(u)' = HeldBlocks(u)
    BY <1>1, OthersHold
  <1>11. QED
    BY <1>4, <1>5, <1>6, <1>7, <1>8, <1>9, <1>10, NothingLost

\* A handler writes a block that it holds, and keeps what it holds.
LEMMA HeldWriteKeeps ==
    ASSUME StoreInv, up, StoreInv', up', NEW t \in Thread, Step(t),
           t \in ReadingDir \cup WritingDir, pc[t] # "delete_dir_inode",
           pc'[t] # "delete_dir_inode", UNCHANGED << dir_inode, free_block >>,
           NEW h \in BlocksOf(HeldBlocks(t)), NEW c, disk' = [disk EXCEPT ![h] = c],
           NEW b, b \in BlocksOf(HeldBlocks(t)) => b \in BlocksOf(HeldBlocks(t)')
    PROVE  b \in Claimed => b \in Claimed'
  <1>1. TypeInv /\ DirectoryInv
    BY DEF StoreInv, RunningInv
  <1>2. /\ \A i \in 1 .. Len(dir_inode) : dir_inode[i] # h
        /\ \A s \in Used : EntryAt(s).inode_block # h
    BY HeldApart
  <1>3. /\ disk \in [Block -> Content] /\ \A i \in 1 .. Len(dir_inode) : dir_inode[i] \in Block
        /\ \A s \in Used : EntryAt(s).inode_block \in Block
    BY <1>1, FileTypes DEF TypeInv, TypeOK
  <1>4. /\ \A i \in 1 .. Len(dir_inode) : disk'[dir_inode[i]] = disk[dir_inode[i]]
        /\ \A s \in Used : disk'[EntryAt(s).inode_block] = disk[EntryAt(s).inode_block]
    BY <1>2, <1>3
  <1>5. \A s \in Used : BlocksOf(FileBlocks(s)) \subseteq
                          BlocksOf(disk'[EntryAt(s).inode_block].blocks)
    BY <1>4 DEF FileBlocks
  <1>6. Dropping' \subseteq Dropping /\ \A u \in Thread \ {t} : HeldBlocks(u)' = HeldBlocks(u)
    BY <1>1, NoneDropped, OthersHold
  <1>7. b \in BlocksOf(free_block) => InUse(b)'
    BY DEF InUse, BlocksOf
  <1>8. ThreadHas(t, b) => InUse(b)'
    BY DEF ThreadHas, InUse, BlocksOf
  <1>9. QED
    BY <1>4, <1>5, <1>6, <1>7, <1>8, DirectoryKeeps

LEMMA CreateWritesKeep ==
    ASSUME StoreInv, up, StoreInv', up', NEW t \in Thread, NEW b,
           CreateInode(t) \/ CreateNewInode(t) \/ CreateNewTable(t)
    PROVE  b \in Claimed => b \in Claimed'
  <1>0. PICK a, d : a = loc[t].free_b_1 /\ d = loc[t].free_b_2
    OBVIOUS
  <1>1. TypeInv /\ Step(t) /\ UNCHANGED << dir_inode, free_block, loc >>
    BY DEF StoreInv, Step, CreateStep, CreateInode, CreateNewInode, CreateNewTable, memory
  <1>2. CASE CreateInode(t)
    <2>1. pc[t] = "create_inode" /\ pc'[t] = "create_entry"
      BY <1>1, <1>2, Moves DEF CreateInode, At
    <2>2. HeldBlocks(t) = << a >> /\ HeldBlocks(t)' = << a >> /\ t \in WritingDir
      BY <1>0, <1>1, <2>1 DEF HeldBlocks, WritingDir, WritingDirLabel, CreateLabel
    <2>3. a \in BlocksOf(HeldBlocks(t))
      BY <2>2, OneBlock
    <2>4. PICK c : disk' = [disk EXCEPT ![a] = c]
      BY <1>0, <1>2 DEF CreateInode
    <2>5. QED
      BY <1>1, <2>1, <2>2, <2>3, <2>4, HeldWriteKeeps
  <1>3. CASE CreateNewInode(t) \/ CreateNewTable(t)
    <2>1. /\ pc[t] \in {"create_new_inode", "create_new_table"}
          /\ pc'[t] \in {"create_new_table", "create_dir_inode"}
      BY <1>1, <1>3, Moves DEF CreateNewInode, CreateNewTable, At
    <2>2. HeldBlocks(t) = << a, d >> /\ HeldBlocks(t)' = << a, d >> /\ t \in WritingDir
      BY <1>0, <1>1, <2>1 DEF HeldBlocks, WritingDir, WritingDirLabel, CreateLabel
    <2>3. a \in BlocksOf(HeldBlocks(t)) /\ d \in BlocksOf(HeldBlocks(t))
      BY <2>2, TwoBlocks
    <2>4. \E h \in {a, d} : \E c : disk' = [disk EXCEPT ![h] = c]
      BY <1>0, <1>3 DEF CreateNewInode, CreateNewTable
    <2>5. PICK h, c : h \in BlocksOf(HeldBlocks(t)) /\ disk' = [disk EXCEPT ![h] = c]
      BY <2>3, <2>4
    <2>6. QED
      BY <1>1, <2>1, <2>2, <2>5, HeldWriteKeeps
  <1>4. QED
    BY <1>2, <1>3

\* The first block of tmp goes to the other end of what the append holds.
LEMMA BlocksRotate ==
    ASSUME NEW s \in Seq(Block), s # << >>, NEW r \in Seq(Block), NEW b
    PROVE  b \in BlocksOf(s \o r) => b \in BlocksOf(Tail(s) \o Append(r, Head(s)))
  <1>0. PICK h, q, e : h = Head(s) /\ q = Tail(s) /\ e = Append(r, h)
    OBVIOUS
  <1>1. /\ h \in Block /\ q \in Seq(Block) /\ e \in Seq(Block) /\ h = s[1]
        /\ Len(q) = Len(s) - 1 /\ Len(e) = Len(r) + 1 /\ e[Len(r) + 1] = h
        /\ \A i \in 1 .. Len(r) : e[i] = r[i]
        /\ \A i \in 1 .. Len(s) - 1 : q[i] = s[i + 1]
    BY <1>0
  <1>2. b \in BlocksOf(r) => b \in BlocksOf(e)
    BY <1>1 DEF BlocksOf
  <1>3. b = h => b \in BlocksOf(e)
    BY <1>1 DEF BlocksOf
  <1>4. b \in BlocksOf(s) => b = h \/ b \in BlocksOf(q)
    <2>1. ASSUME NEW i \in 1 .. Len(s), s[i] = b, i # 1 PROVE b \in BlocksOf(q)
      <3>1. i - 1 \in 1 .. Len(q) /\ (i - 1) + 1 = i
        BY <1>1, <2>1
      <3>2. q[i - 1] = s[i]
        BY <1>1, <3>1
      <3>3. QED
        BY <2>1, <3>1, <3>2 DEF BlocksOf
    <2>2. QED
      BY <1>1, <2>1 DEF BlocksOf
  <1>5. b \in BlocksOf(q) \/ b \in BlocksOf(e) => b \in BlocksOf(q \o e)
    BY <1>1, BlocksJoin
  <1>6. b \in BlocksOf(s \o r) => b \in BlocksOf(s) \/ b \in BlocksOf(r)
    BY BlocksJoin
  <1>7. b \in BlocksOf(s \o r) => b \in BlocksOf(q \o e)
    BY <1>2, <1>3, <1>4, <1>5, <1>6
  <1>8. QED
    BY <1>0, <1>7

LEMMA AppendDataKeeps ==
    ASSUME StoreInv, up, StoreInv', up', NEW t \in Thread, NEW b, AppendData(t)
    PROVE  b \in Claimed => b \in Claimed'
  <1>1. /\ TypeInv /\ Step(t) /\ UNCHANGED << dir_inode, free_block >>
        /\ pc[t] = "append_data"
    BY DEF StoreInv, Step, AppendStep, AppendData, At, memory
  <1>2. PICK h, c :
          /\ h \in Block /\ h = Head(loc[t].tmp) /\ h \in BlocksOf(HeldBlocks(t))
          /\ disk' = [disk EXCEPT ![h] = c] /\ c.kind = "data"
          /\ pc'[t] \in {"append_data", "append_commit"}
          /\ loc[t].tmp \in Seq(Block) /\ loc[t].tmp # << >>
          /\ loc'[t].inode = [loc[t].inode EXCEPT !.blocks = Append(@, h)]
          /\ loc'[t].inode_block = loc[t].inode_block
          /\ Linked(loc[t].inode) \in Seq(Block)
          /\ HeldBlocks(t) = loc[t].tmp \o Linked(loc[t].inode)
          /\ HeldBlocks(t)' = Tail(loc[t].tmp) \o Append(Linked(loc[t].inode), h)
    BY AppendDataMoves
  <1>3. t \in ReadingDir
    BY <1>1 DEF ReadingDir, ReadingDirLabel, AppendLabel
  <1>4. b \in BlocksOf(HeldBlocks(t)) => b \in BlocksOf(HeldBlocks(t)')
    <2>1. PICK s, r : s = loc[t].tmp /\ r = Linked(loc[t].inode)
      OBVIOUS
    <2>2. b \in BlocksOf(s \o r) => b \in BlocksOf(Tail(s) \o Append(r, Head(s)))
      BY <1>2, <2>1, BlocksRotate
    <2>3. QED
      BY <1>2, <2>1, <2>2
  <1>5. QED
    BY <1>1, <1>2, <1>3, <1>4, HeldWriteKeeps

LEMMA AppendPartialKeeps ==
    ASSUME StoreInv, up, StoreInv', up', NEW t \in Thread, NEW b, AppendPartial(t)
    PROVE  b \in Claimed => b \in Claimed'
  <1>1. /\ TypeInv /\ Step(t) /\ UNCHANGED << dir_inode, free_block >>
    BY DEF StoreInv, Step, AppendStep, AppendPartial, memory
  <1>2. /\ \A i \in 1 .. Len(dir_inode) : disk'[dir_inode[i]] = disk[dir_inode[i]]
        /\ \A s \in Used : disk'[EntryAt(s).inode_block] = disk[EntryAt(s).inode_block]
        /\ pc'[t] \in {"append_data", "append_commit"}
        /\ HeldBlocks(t)' = HeldBlocks(t)
    BY AppendPartialFrame
  <1>3. \A s \in Used : BlocksOf(FileBlocks(s)) \subseteq
                          BlocksOf(disk'[EntryAt(s).inode_block].blocks)
    BY <1>2 DEF FileBlocks
  <1>4. Dropping' \subseteq Dropping /\ \A u \in Thread \ {t} : HeldBlocks(u)' = HeldBlocks(u)
    BY <1>1, <1>2, NoneDropped, OthersHold
  <1>5. b \in BlocksOf(free_block) => InUse(b)'
    BY <1>1 DEF InUse, BlocksOf
  <1>6. ThreadHas(t, b) => InUse(b)'
    BY <1>2 DEF ThreadHas, InUse, BlocksOf
  <1>7. QED
    BY <1>1, <1>2, <1>3, <1>4, <1>5, <1>6, DirectoryKeeps

\* The blocks that the saved inode refers to: those of the file, and those
\* the append linked.
LEMMA AppendCommitKeeps ==
    ASSUME StoreInv, up, StoreInv', up', NEW t \in Thread, NEW b, AppendCommit(t)
    PROVE  b \in Claimed => b \in Claimed'
  <1>0. PICK ib, i, linked :
          /\ ib = loc[t].inode_block
          /\ i = [loc[t].inode EXCEPT !.size = @ + Len(req[t].data)]
          /\ linked = Linked(loc[t].inode)
    OBVIOUS
  <1>1. /\ TypeInv /\ RunningInv /\ Step(t) /\ HandlerOK(t) /\ DirectoryInv
        /\ disk \in [Block -> Content]
        /\ UNCHANGED << dir_inode, free_block >> /\ pc[t] = "append_commit"
        /\ disk' = [disk EXCEPT ![ib] = i]
    BY <1>0 DEF StoreInv, Step, AppendStep, RunningInv, TypeInv, TypeOK, AppendCommit, At, memory
  <1>2. pc'[t] = "append_unlock"
    BY <1>1, Moves DEF AppendCommit
  <1>3. PICK f \in Used : /\ EntryAt(f).inode_block = ib
                          /\ FileBlocks(f) = disk[ib].blocks
    BY <1>0, <1>1, CopyFacts DEF CopyLabel
  <1>4. /\ loc[t].inode \in Inode /\ linked \in Seq(Block)
        /\ disk[ib].blocks \in Seq(Block)
        /\ loc[t].inode.blocks = disk[ib].blocks \o linked
    BY <1>0, <1>1, LocalTypes, LinkedTypes, CopyFacts, CopySplits DEF CopyLabel
  <1>5. /\ ib \in Block /\ disk'[ib] = i /\ i.blocks = disk[ib].blocks \o linked
        /\ \A a \in Block \ {ib} : disk'[a] = disk[a]
    BY <1>0, <1>1, <1>4, LocalTypes DEF Inode
  <1>6. \A a : a \in BlocksOf(disk[ib].blocks) \/ a \in BlocksOf(linked) =>
                 a \in BlocksOf(disk'[ib].blocks)
    BY <1>4, <1>5, BlocksJoin
  <1>7. \A k \in 1 .. Len(dir_inode) : dir_inode[k] \in Block /\ dir_inode[k] # ib
    <2>1. disk[ib].kind = "inode"
      BY <1>1, <1>3 DEF DirectoryInv, FileOK
    <2>2. QED
      BY <1>1, <2>1 DEF DirectoryInv, TablesOK, TypeInv, TypeOK
  <1>8. \A k \in 1 .. Len(dir_inode) : disk'[dir_inode[k]] = disk[dir_inode[k]]
    BY <1>5, <1>7
  <1>9. ASSUME NEW s \in Used
        PROVE  BlocksOf(FileBlocks(s)) \subseteq BlocksOf(disk'[EntryAt(s).inode_block].blocks)
    <2>1. EntryAt(s).inode_block \in Block
      BY <1>1, FileTypes
    <2>2. CASE EntryAt(s).inode_block = ib
      BY <1>6, <2>2 DEF FileBlocks
    <2>3. CASE EntryAt(s).inode_block # ib
      BY <1>5, <2>1, <2>3 DEF FileBlocks
    <2>4. QED
      BY <2>2, <2>3
  <1>10. Dropping' \subseteq Dropping /\ \A u \in Thread \ {t} : HeldBlocks(u)' = HeldBlocks(u)
    BY <1>1, <1>2, NoneDropped, OthersHold
  <1>11. b \in BlocksOf(free_block) => InUse(b)'
    BY <1>1 DEF InUse, BlocksOf
  <1>12. ThreadHas(t, b) => InUse(b)'
    <2>1. HeldBlocks(t) = linked
      <3>1. loc[t].tmp = << >>
        BY <1>1 DEF TypeInv, LocalOK, AppendOK
      <3>2. HeldBlocks(t) = << >> \o linked
        BY <1>0, <1>1, <3>1 DEF HeldBlocks, Linked
      <3>3. QED
        BY <1>4, <3>2
    <2>2. Used' = Used /\ \A s \in Used : EntryAt(s)' = EntryAt(s)
      BY <1>1, <1>8, DirectoryFrame DEF Used
    <2>3. FileBlocks(f)' = disk'[ib].blocks
      BY <1>3, <2>2 DEF FileBlocks
    <2>4. b \in BlocksOf(linked) => b \in BlocksOf(FileBlocks(f)')
      BY <1>6, <2>3
    <2>5. BlocksOf(FileBlocks(f)') = BlocksOf(FileBlocks(f))'
      BY DEF BlocksOf
    <2>6. b \in BlocksOf(linked) => SomeFileHas(b)'
      BY <2>2, <2>4, <2>5 DEF SomeFileHas, FileHas
    <2>7. QED
      BY <2>1, <2>6 DEF ThreadHas, InUse
  <1>13. QED
    BY <1>1, <1>8, <1>9, <1>10, <1>11, <1>12, DirectoryKeeps

\* Files keep their blocks when every entry keeps its place or moves.
LEMMA FilesKeep ==
    ASSUME NEW b, NEW S, S \subseteq Used,
           \A s \in S : \E r \in Used' :
             /\ EntryAt(r)' = EntryAt(s)
             /\ disk'[EntryAt(s).inode_block] = disk[EntryAt(s).inode_block]
    PROVE  (\E s \in S : FileHas(s, b)) => InUse(b)'
  <1>1. ASSUME NEW s \in S, FileHas(s, b) PROVE SomeFileHas(b)'
    <2>1. PICK r \in Used' : /\ EntryAt(r)' = EntryAt(s)
                             /\ disk'[EntryAt(s).inode_block] = disk[EntryAt(s).inode_block]
      OBVIOUS
    <2>2. FileBlocks(r)' = FileBlocks(s)
      BY <2>1 DEF FileBlocks
    <2>3. BlocksOf(FileBlocks(r))' = BlocksOf(FileBlocks(s))
      BY <2>2 DEF BlocksOf
    <2>4. FileHas(r, b)'
      BY <1>1, <2>1, <2>3 DEF FileHas
    <2>5. QED
      BY <2>4 DEF SomeFileHas
  <1>2. QED
    BY <1>1 DEF InUse

\* The block of the new entry is the file's.
LEMMA CreateEntryKeeps ==
    ASSUME StoreInv, up, StoreInv', up', NEW t \in Thread, NEW b, CreateEntry(t)
    PROVE  b \in Claimed => b \in Claimed'
  <1>0. PICK a, n, slot, table, k, j, tab :
          /\ a = loc[t].free_b_1 /\ n = req[t].name
          /\ slot = loc[t].slot /\ table = loc[t].table
          /\ k = slot[1] /\ j = slot[2]
          /\ tab = WithEntry(table, j, n, a)
    OBVIOUS
  <1>1. /\ TypeInv /\ RunningInv /\ Step(t) /\ pc[t] = "create_entry"
        /\ UNCHANGED << dir_inode, free_block >>
        /\ disk' = [disk EXCEPT ![dir_inode[k]] = TableBlock(tab)]
        /\ HandlerOK(t) /\ DirectoryInv /\ disk \in [Block -> Content]
    BY <1>0 DEF StoreInv, RunningInv, Step, CreateStep, CreateEntry, At, memory, TypeInv, TypeOK
  <1>2. pc'[t] = "create_unlock" /\ t \in WritingDir /\ HeldBlocks(t) = << a >>
    BY <1>0, <1>1, Moves DEF CreateEntry, WritingDir, WritingDirLabel, CreateLabel, HeldBlocks
  <1>3. /\ slot \in Slots /\ slot \notin Used /\ table = TableAt(k)
    BY <1>0, <1>1 DEF HandlerOK, CreateOK, Used
  <1>4. k \in 1 .. Len(dir_inode) /\ j \in 1 .. DirEntries /\ slot = << k, j >>
    BY <1>0, <1>3 DEF Slots
  <1>5. tab[j].inode_block = a /\ \A i \in (1 .. DirEntries) \ {j} : tab[i] = TableAt(k)[i]
    BY <1>0, <1>1, <1>3, <1>4, LocalTypes DEF WithEntry, Table
  <1>6. a # 0 /\ a \in Block
    <2>1. a \in BlocksOf(HeldBlocks(t))
      BY <1>2, OneBlock
    <2>2. QED
      BY <1>1, <1>2, <2>1, HeldApart
  <1>7. Distinct(dir_inode) /\ \A i \in 1 .. Len(dir_inode) : dir_inode[i] \in Block
    BY <1>1 DEF RunningInv, Ownership, DirectoryOwned, TypeInv, TypeOK
  <1>8. /\ disk'[dir_inode[k]] = TableBlock(tab)
        /\ \A x \in Block \ {dir_inode[k]} : disk'[x] = disk[x]
    BY <1>1, <1>4, <1>7
  <1>9. /\ Slots' = Slots
        /\ EntryAt(<< k, j >>)' = tab[j]
        /\ \A s \in Slots \ {<< k, j >>} : EntryAt(s)' = EntryAt(s)
    BY <1>1, <1>4, <1>5, <1>7, <1>8, TableWrite
  <1>10. /\ slot \in Used' /\ EntryAt(slot)'.inode_block = a
         /\ \A s \in Used : s \in Used' /\ EntryAt(s)' = EntryAt(s)
    <2>1. EntryAt(slot)' = tab[j]
      BY <1>4, <1>9
    <2>2. a > 0
      BY <1>6 DEF Block
    <2>3. slot \in Used'
      BY <1>3, <1>5, <1>9, <2>1, <2>2 DEF Used
    <2>4. ASSUME NEW s \in Used PROVE s \in Used' /\ EntryAt(s)' = EntryAt(s)
      <3>1. s \in Slots \ {<< k, j >>} /\ EntryAt(s).inode_block > 0
        BY <1>3, <1>4 DEF Used
      <3>2. EntryAt(s)' = EntryAt(s)
        BY <1>9, <3>1
      <3>3. QED
        BY <1>9, <3>1, <3>2 DEF Used
    <2>5. QED
      BY <1>5, <2>1, <2>3, <2>4
  <1>11. ASSUME NEW s \in Used
         PROVE  disk'[EntryAt(s).inode_block] = disk[EntryAt(s).inode_block]
    <2>1. EntryAt(s).inode_block \in Block /\ disk[EntryAt(s).inode_block].kind = "inode"
      BY <1>1, FileTypes DEF DirectoryInv, FileOK
    <2>2. disk[dir_inode[k]].kind = "table"
      BY <1>1, <1>4 DEF DirectoryInv, TablesOK
    <2>3. QED
      BY <1>8, <2>1, <2>2
  <1>12. SomeFileHas(b) => InUse(b)'
    <2>1. \A s \in Used : \E r \in Used' :
             /\ EntryAt(r)' = EntryAt(s)
             /\ disk'[EntryAt(s).inode_block] = disk[EntryAt(s).inode_block]
      BY <1>10, <1>11
    <2>2. QED
      BY <2>1, FilesKeep DEF SomeFileHas
  <1>13. ThreadHas(t, b) => InUse(b)'
    <2>1. ThreadHas(t, b) => b = a
      BY <1>2, OneBlock DEF ThreadHas
    <2>2. b = a => FileHas(slot, b)'
      BY <1>10 DEF FileHas
    <2>3. QED
      BY <1>10, <2>1, <2>2 DEF SomeFileHas, InUse
  <1>14. Dropping' \subseteq Dropping /\ \A u \in Thread \ {t} : HeldBlocks(u)' = HeldBlocks(u)
    BY <1>1, <1>2, NoneDropped, OthersHold
  <1>15. (b \in BlocksOf(free_block) => InUse(b)') /\ (TableHas(b) => InUse(b)')
    BY <1>1, <1>14 DEF InUse, BlocksOf, TableHas
  <1>16. QED
    BY <1>12, <1>13, <1>14, <1>15, NothingLost

\* The new table is the directory's, and the inode the file's.
LEMMA CreateDirInodeKeeps ==
    ASSUME StoreInv, up, StoreInv', up', NEW t \in Thread, NEW b, CreateDirInode(t)
    PROVE  b \in Claimed => b \in Claimed'
  <1>0. PICK a, d, n, m, tab :
          /\ a = loc[t].free_b_1 /\ d = loc[t].free_b_2
          /\ n = req[t].name /\ m = Len(dir_inode)
          /\ tab = WithEntry(EmptyTable, 1, n, d)
    OBVIOUS
  <1>1. /\ TypeInv /\ RunningInv /\ Step(t) /\ pc[t] = "create_dir_inode"
        /\ UNCHANGED free_block
        /\ dir_inode' = Append(dir_inode, a)
        /\ disk' = [disk EXCEPT ![0] = DirectoryBlock(dir_inode')]
        /\ HandlerOK(t) /\ DirectoryInv /\ disk \in [Block -> Content]
    BY <1>0 DEF StoreInv, RunningInv, Step, CreateStep, CreateDirInode, At, memory, TypeInv, TypeOK
  <1>2. /\ pc'[t] = "create_unlock" /\ t \in WritingDir /\ Dropping = {}
        /\ HeldBlocks(t) = << a, d >>
    BY <1>0, <1>1, Moves, NoneDropping
       DEF CreateDirInode, WritingDir, WritingDirLabel, CreateLabel, HeldBlocks
  <1>3. a \in Block /\ d \in Block /\ a # 0 /\ d # 0
    <2>1. a \in BlocksOf(HeldBlocks(t)) /\ d \in BlocksOf(HeldBlocks(t))
      BY <1>2, TwoBlocks
    <2>2. QED
      BY <1>1, <1>2, <2>1, HeldApart
  <1>4. disk[a] = TableBlock(tab)
    BY <1>0, <1>1 DEF HandlerOK, CreateOK
  <1>5. \A x \in Block \ {0} : disk'[x] = disk[x]
    BY <1>1, ZeroIsBlock
  <1>6. \A i \in 1 .. Len(dir_inode) : dir_inode[i] # 0
    BY <1>1 DEF DirectoryInv, TablesOK, DirectoryBlock
  <1>7. /\ m \in Nat /\ Len(dir_inode') = m + 1
        /\ \A i \in 1 .. m : dir_inode'[i] = dir_inode[i]
        /\ \A s \in Slots : s \in Slots' /\ EntryAt(s)' = EntryAt(s)
        /\ \A j \in 1 .. DirEntries :
             << m + 1, j >> \in Slots' \ Slots /\ EntryAt(<< m + 1, j >>)' = tab[j]
    BY <1>0, <1>1, <1>3, <1>4, <1>5, <1>6, TableAdded
  <1>8. 1 \in 1 .. DirEntries /\ tab[1].inode_block = d
    <2>1. d > 0
      BY <1>3 DEF Block
    <2>2. 1 \in 1 .. DirEntries /\ tab[1] = [name |-> n, inode_block |-> d]
      BY <1>0, <1>3, <2>1, NewTable
    <2>3. QED
      BY <2>2
  <1>9. Dropping' = {} /\ \A u \in Thread \ {t} : HeldBlocks(u)' = HeldBlocks(u)
    BY <1>1, <1>2, NoneDropped, OthersHold
  <1>10. dir_inode'[m + 1] = a
    BY <1>0, <1>1 DEF TypeInv, TypeOK
  <1>11. TableHas(b) => InUse(b)'
    <2>1. \A i \in 1 .. m : i \in 1 .. m + 1
      BY <1>7
    <2>2. QED
      BY <1>0, <1>7, <1>9, <2>1 DEF TableHas, InUse
  <1>12. SomeFileHas(b) => InUse(b)'
    <2>1. ASSUME NEW s \in Used
          PROVE  /\ s \in Used' /\ EntryAt(s)' = EntryAt(s)
                 /\ disk'[EntryAt(s).inode_block] = disk[EntryAt(s).inode_block]
      BY <1>1, <1>5, <1>7, FileTypes DEF Used
    <2>2. \A s \in Used : \E r \in Used' :
             /\ EntryAt(r)' = EntryAt(s)
             /\ disk'[EntryAt(s).inode_block] = disk[EntryAt(s).inode_block]
      BY <2>1
    <2>3. QED
      BY <2>2, FilesKeep DEF SomeFileHas
  <1>13. ThreadHas(t, b) => InUse(b)'
    <2>1. ThreadHas(t, b) => b = a \/ b = d
      <3>1. \A i \in 1 .. 2 : << a, d >>[i] = a \/ << a, d >>[i] = d
        OBVIOUS
      <3>2. QED
        BY <1>2, <3>1 DEF ThreadHas, BlocksOf
    <2>2. b = a => TableHas(b)'
      <3>1. m + 1 \in 1 .. m + 1
        BY <1>7
      <3>2. QED
        BY <1>7, <1>9, <1>10, <3>1 DEF TableHas
    <2>3. b = d => SomeFileHas(b)'
      <3>1. PICK s : s = << m + 1, 1 >>
        OBVIOUS
      <3>2. s \in Slots' /\ EntryAt(s)' = tab[1]
        BY <1>7, <1>8, <3>1
      <3>3. d > 0
        BY <1>3 DEF Block
      <3>4. s \in Used' /\ (b = d => FileHas(s, b)')
        BY <1>8, <3>2, <3>3 DEF Used, FileHas
      <3>5. QED
        BY <3>4 DEF SomeFileHas
    <2>4. QED
      BY <2>1, <2>2, <2>3 DEF InUse
  <1>14. b \in BlocksOf(free_block) => InUse(b)'
    BY <1>1 DEF InUse, BlocksOf
  <1>15. QED
    BY <1>9, <1>11, <1>12, <1>13, <1>14, NothingLost

\* The blocks of a file whose entry goes are those the delete holds then.
LEMMA FileKeeps ==
    ASSUME TypeInv, DirectoryInv, NEW t \in Thread, HandlerOK(t),
           pc[t] \in {"delete_dir_inode", "delete_entry"}, pc'[t] = "delete_free",
           UNCHANGED loc, loc[t].slot \in Used, NEW b, FileHas(loc[t].slot, b)
    PROVE  InUse(b)'
  <1>1. PICK bs, one : bs = FileBlocks(loc[t].slot) /\ one = << EntryAt(loc[t].slot).inode_block >>
    OBVIOUS
  <1>2. bs \in Seq(Block) /\ one \in Seq(Block)
    BY <1>1, FileTypes
  <1>3. HeldBlocks(t)' = bs \o one
    BY <1>1, DeletedFile DEF Whole
  <1>4. b \in BlocksOf(bs) \/ b \in BlocksOf(one)
    BY <1>1, OneBlock DEF FileHas
  <1>5. b \in BlocksOf(bs \o one)
    BY <1>2, <1>4, BlocksJoin
  <1>6. ThreadHas(t, b)'
    BY <1>3, <1>5 DEF ThreadHas, BlocksOf
  <1>7. QED
    BY <1>6 DEF InUse

LEMMA DeleteEntryKeeps ==
    ASSUME StoreInv, up, StoreInv', up', NEW t \in Thread, NEW b, DeleteEntry(t)
    PROVE  b \in Claimed => b \in Claimed'
  <1>0. PICK slot, table, k, j, tab :
          /\ slot = loc[t].slot /\ table = loc[t].table
          /\ k = slot[1] /\ j = slot[2]
          /\ tab = WithoutEntry(table, j)
    OBVIOUS
  <1>1. /\ TypeInv /\ RunningInv /\ Step(t) /\ pc[t] = "delete_entry"
        /\ UNCHANGED << dir_inode, free_block, loc >>
        /\ disk' = [disk EXCEPT ![dir_inode[k]] = TableBlock(tab)]
        /\ HandlerOK(t) /\ DirectoryInv /\ disk \in [Block -> Content]
    BY <1>0 DEF StoreInv, RunningInv, Step, DeleteStep, DeleteEntry, At, memory, TypeInv, TypeOK
  <1>2. pc'[t] = "delete_free" /\ HeldBlocks(t) = << >>
    BY <1>1, Moves DEF DeleteEntry, HeldBlocks
  <1>3. slot \in Used /\ slot \in Slots /\ table = TableAt(k)
    BY <1>0, <1>1 DEF HandlerOK, DeleteOK, Used
  <1>4. k \in 1 .. Len(dir_inode) /\ j \in 1 .. DirEntries /\ slot = << k, j >>
    BY <1>0, <1>3 DEF Slots
  <1>5. \A i \in (1 .. DirEntries) \ {j} : tab[i] = TableAt(k)[i]
    BY <1>0, <1>1, <1>3, <1>4, LocalTypes DEF WithoutEntry, Table
  <1>6. Distinct(dir_inode) /\ \A i \in 1 .. Len(dir_inode) : dir_inode[i] \in Block
    BY <1>1 DEF RunningInv, Ownership, DirectoryOwned, TypeInv, TypeOK
  <1>7. /\ disk'[dir_inode[k]] = TableBlock(tab)
        /\ \A x \in Block \ {dir_inode[k]} : disk'[x] = disk[x]
    BY <1>1, <1>4, <1>6
  <1>8. /\ Slots' = Slots
        /\ \A s \in Slots \ {<< k, j >>} : EntryAt(s)' = EntryAt(s)
    BY <1>1, <1>4, <1>5, <1>6, <1>7, TableWrite
  <1>9. ASSUME NEW s \in Used \ {slot}
        PROVE  /\ s \in Used' /\ EntryAt(s)' = EntryAt(s)
               /\ disk'[EntryAt(s).inode_block] = disk[EntryAt(s).inode_block]
    <2>1. s \in Slots \ {<< k, j >>} /\ EntryAt(s).inode_block > 0
      BY <1>4 DEF Used
    <2>2. EntryAt(s)' = EntryAt(s)
      BY <1>8, <2>1
    <2>3. s \in Used'
      BY <1>8, <2>1, <2>2 DEF Used
    <2>4. EntryAt(s).inode_block \in Block /\ disk[EntryAt(s).inode_block].kind = "inode"
      BY <1>1, FileTypes DEF DirectoryInv, FileOK
    <2>5. disk[dir_inode[k]].kind = "table"
      BY <1>1, <1>4 DEF DirectoryInv, TablesOK
    <2>6. QED
      BY <1>7, <2>2, <2>3, <2>4, <2>5
  <1>10. SomeFileHas(b) => InUse(b)'
    <2>1. FileHas(slot, b) => InUse(b)'
      BY <1>0, <1>1, <1>2, <1>3, FileKeeps
    <2>2. \A s \in Used \ {slot} : \E r \in Used' :
             /\ EntryAt(r)' = EntryAt(s)
             /\ disk'[EntryAt(s).inode_block] = disk[EntryAt(s).inode_block]
      BY <1>9
    <2>3. (\E s \in Used \ {slot} : FileHas(s, b)) => InUse(b)'
      BY <2>2, FilesKeep
    <2>4. QED
      BY <2>1, <2>3 DEF SomeFileHas
  <1>11. Dropping' \subseteq Dropping /\ \A u \in Thread \ {t} : HeldBlocks(u)' = HeldBlocks(u)
    BY <1>1, <1>2, NoneDropped, OthersHold
  <1>12. (b \in BlocksOf(free_block) => InUse(b)') /\ (TableHas(b) => InUse(b)')
    BY <1>1, <1>11 DEF InUse, BlocksOf, TableHas
  <1>13. ~ThreadHas(t, b)
    BY <1>2 DEF ThreadHas, BlocksOf
  <1>14. QED
    BY <1>10, <1>11, <1>12, <1>13, NothingLost

\* Every table but the one dropped is still there.
LEMMA OldReached ==
    ASSUME NEW m \in Nat, NEW k \in 1 .. m, NEW i \in (1 .. m) \ {k}
    PROVE  \E j \in 1 .. m - 1 : Old(j, k) = i
  <1>1. CASE i < k
    <2>1. i \in 1 .. m - 1 /\ Old(i, k) = i
      BY <1>1 DEF Old
    <2>2. QED
      BY <2>1
  <1>2. CASE i > k
    <2>1. i - 1 \in 1 .. m - 1 /\ ~(i - 1 < k) /\ (i - 1) + 1 = i
      BY <1>2
    <2>2. Old(i - 1, k) = i
      BY <2>1 DEF Old
    <2>3. QED
      BY <2>1, <2>2
  <1>3. QED
    BY <1>1, <1>2

\* The table that goes is in the free list since the step before, and the
\* file of its last entry goes to the handler.
LEMMA DeleteDirInodeKeeps ==
    ASSUME StoreInv, up, StoreInv', up', NEW t \in Thread, NEW b, DeleteDirInode(t)
    PROVE  b \in Claimed => b \in Claimed'
  <1>0. PICK slot, k : slot = loc[t].slot /\ k = slot[1]
    OBVIOUS
  <1>1. /\ TypeInv /\ RunningInv /\ Step(t) /\ pc[t] = "delete_dir_inode"
        /\ UNCHANGED << free_block, loc >>
        /\ dir_inode' = DropAt(dir_inode, k)
        /\ disk' = [disk EXCEPT ![0] = DirectoryBlock(dir_inode')]
        /\ HandlerOK(t) /\ DirectoryInv
        /\ disk \in [Block -> Content] /\ dir_inode \in Seq(Block)
    BY <1>0 DEF StoreInv, RunningInv, Step, DeleteStep, DeleteDirInode, At, memory, TypeInv, TypeOK
  <1>2. pc'[t] = "delete_free" /\ t \in WritingDir /\ HeldBlocks(t) = << >>
    BY <1>1, Moves DEF DeleteDirInode, WritingDir, WritingDirLabel, DeleteLabel, HeldBlocks
  <1>3. \A u \in Thread : pc[u] = "delete_dir_inode" => u = t
    <2>1. WritingDir = {t}
      BY <1>1, <1>2, LockInvExclusion DEF TypeInv, Exclusion
    <2>2. QED
      BY <2>1 DEF WritingDir, WritingDirLabel, DeleteLabel
  <1>4. Dropping = {k} /\ Dropping' = {}
    <2>1. \A u \in Thread : pc'[u] # "delete_dir_inode"
      BY <1>1, <1>2, <1>3, OthersUnchanged DEF TypeInv
    <2>2. QED
      BY <1>0, <1>1, <1>3, <2>1 DEF Dropping, At
  <1>5. /\ slot \in Used /\ slot \in Slots /\ UsedEntries(TableAt(k)) = {slot[2]}
    BY <1>0, <1>1 DEF HandlerOK, DeleteOK, Used
  <1>6. /\ k \in 1 .. Len(dir_inode) /\ slot = << k, slot[2] >>
        /\ Len(dir_inode) \in Nat /\ Len(dir_inode') = Len(dir_inode) - 1
    BY <1>0, <1>1, <1>5, DropAtType DEF Slots
  <1>7. \A x \in Block \ {0} : disk'[x] = disk[x]
    BY <1>1, ZeroIsBlock
  <1>8. /\ \A i \in 1 .. Len(dir_inode') : dir_inode'[i] = dir_inode[Old(i, k)]
        /\ \A s \in Slots' : EntryAt(s)' = EntryAt(OldSlot(s, k))
    <2>1. \A i \in (1 .. Len(dir_inode)) \ {k} : dir_inode[i] # 0
      BY <1>1 DEF DirectoryInv, TablesOK, DirectoryBlock
    <2>2. QED
      BY <1>1, <1>6, <1>7, <2>1, TableDropped
  <1>9. TableHas(b) => InUse(b)'
    <2>1. ASSUME NEW i \in (1 .. Len(dir_inode)) \ {k}, dir_inode[i] = b PROVE InUse(b)'
      <3>1. PICK j \in 1 .. Len(dir_inode) - 1 : Old(j, k) = i
        BY <1>6, OldReached
      <3>2. j \in 1 .. Len(dir_inode') /\ dir_inode'[j] = b
        BY <1>6, <1>8, <2>1, <3>1
      <3>3. QED
        BY <1>4, <3>2 DEF TableHas, InUse
    <2>2. QED
      BY <1>4, <2>1 DEF TableHas
  <1>10. ASSUME NEW s \in Used \ {slot}
         PROVE  \E r \in Used' :
                  /\ EntryAt(r)' = EntryAt(s)
                  /\ disk'[EntryAt(s).inode_block] = disk[EntryAt(s).inode_block]
    <2>1. /\ s[1] \in 1 .. Len(dir_inode) /\ s[2] \in 1 .. DirEntries
          /\ s = << s[1], s[2] >> /\ EntryAt(s).inode_block > 0
      BY DEF Used, Slots
    <2>2. s[1] # k
      <3>1. s[1] = k => s[2] \in UsedEntries(TableAt(k))
        BY <2>1 DEF UsedEntries, EntryAt
      <3>2. QED
        BY <1>5, <1>6, <2>1, <3>1
    <2>3. PICK j \in 1 .. Len(dir_inode) - 1 : Old(j, k) = s[1]
      BY <1>6, <2>1, <2>2, OldReached
    <2>4. PICK r : r = << j, s[2] >>
      OBVIOUS
    <2>5. r \in Slots' /\ OldSlot(r, k) = s
      BY <1>6, <2>1, <2>3, <2>4 DEF Slots, OldSlot
    <2>6. EntryAt(r)' = EntryAt(s)
      BY <1>8, <2>5
    <2>7. r \in Used'
      BY <2>1, <2>5, <2>6 DEF Used
    <2>8. disk'[EntryAt(s).inode_block] = disk[EntryAt(s).inode_block]
      BY <1>1, <1>7, FileTypes
    <2>9. QED
      BY <2>6, <2>7, <2>8
  <1>11. SomeFileHas(b) => InUse(b)'
    <2>1. FileHas(slot, b) => InUse(b)'
      BY <1>0, <1>1, <1>2, <1>5, FileKeeps
    <2>2. (\E s \in Used \ {slot} : FileHas(s, b)) => InUse(b)'
      BY <1>10, FilesKeep
    <2>3. QED
      BY <2>1, <2>2 DEF SomeFileHas
  <1>12. \A u \in Thread \ {t} : HeldBlocks(u)' = HeldBlocks(u)
    BY <1>1, OthersHold
  <1>13. b \in BlocksOf(free_block) => InUse(b)'
    BY <1>1 DEF InUse, BlocksOf
  <1>14. ~ThreadHas(t, b)
    BY <1>2 DEF ThreadHas, BlocksOf
  <1>15. QED
    BY <1>9, <1>11, <1>12, <1>13, <1>14, NothingLost

\* A thread that accepts a request takes no block.
LEMMA AcceptKeeps ==
    ASSUME StoreInv, up, StoreInv', up', NEW t \in Thread, NEW b,
           NEW r \in Request, Accept(t, r)
    PROVE  b \in Claimed => b \in Claimed'
  <1>1. TypeInv /\ r.op \in Op
    BY RequestAssumption DEF StoreInv, RequestType
  <1>2. UNCHANGED << disk, dir_inode, free_block >> /\ pc[t] = "new"
    BY DEF Accept, memory, At
  <1>3. ASSUME NEW u \in Thread \ {t} PROVE loc'[u] = loc[u] /\ pc'[u] = pc[u]
    BY <1>1 DEF Accept, Goto, Return, TypeInv, TypeOK
  <1>4. pc'[t] # "delete_dir_inode"
    BY <1>1, Moves DEF Accept, FirstStep, Op
  <1>5. Dropping' \subseteq Dropping
    BY <1>3, <1>4 DEF Dropping, At
  <1>6. \A u \in Thread \ {t} : HeldBlocks(u)' = HeldBlocks(u)
    BY <1>3 DEF HeldBlocks
  <1>7. ~ThreadHas(t, b)
    BY <1>2 DEF ThreadHas, HeldBlocks, BlocksOf
  <1>8. b \in BlocksOf(free_block) => InUse(b)'
    BY <1>2 DEF InUse, BlocksOf
  <1>9. \A s \in Used : BlocksOf(FileBlocks(s)) \subseteq
                          BlocksOf(disk'[EntryAt(s).inode_block].blocks)
    BY <1>2 DEF FileBlocks
  <1>10. QED
    BY <1>2, <1>5, <1>6, <1>7, <1>8, <1>9, DirectoryKeeps

\* The steps of the handlers and of the process.
LEMMA StepKeeps ==
    ASSUME StoreInv, up, StoreInv', up', NEW t \in Thread, NEW b, Step(t)
    PROVE  b \in Claimed =>
             \/ b \in Claimed'
             \/ At(t, "create_scan") /\ outcome'[t] = "exists" /\ b = loc[t].free_b_1
  <1>1. CASE ReadStep(t) \/ EndRequest(t)
    BY <1>1, QuietKeeps
  <1>2. CASE AppendStep(t)
    BY <1>2, QuietKeeps, AppendAllocKeeps, AppendPartialKeeps, AppendDataKeeps,
       AppendCommitKeeps DEF AppendStep
  <1>3. CASE CreateStep(t)
    <2>1. CASE CreateScan(t)
      <3>1. At(t, "create_scan")
        BY <2>1 DEF CreateScan
      <3>2. QED
        BY <2>1, <3>1, CreateScanKeeps
    <2>2. CASE ~CreateScan(t)
      BY <1>3, <2>2, QuietKeeps, CreateReserveKeeps, CreateWritesKeep, CreateEntryKeeps,
         CreateExtendKeeps, CreateDirInodeKeeps DEF CreateStep
    <2>3. QED
      BY <2>1, <2>2
  <1>4. CASE DeleteStep(t)
    BY <1>4, QuietKeeps, DeleteFreeTableKeeps, DeleteDirInodeKeeps, DeleteEntryKeeps,
       DeleteFreeKeeps DEF DeleteStep
  <1>5. QED
    BY <1>1, <1>2, <1>3, <1>4 DEF Step

LEMMA StutterKeeps ==
    ASSUME UNCHANGED vars
    PROVE  Claimed' = Claimed
  <1>1. UNCHANGED << disk, dir_inode, free_block, pc, loc >>
    BY DEF vars, memory
  <1>2. /\ Directory' = Directory /\ FileSlots' = FileSlots
        /\ \A i : DiskTable(i)' = DiskTable(i)
        /\ \A s : FileEntry(s)' = FileEntry(s) /\ FileInode(s)' = FileInode(s)
    BY <1>1 DEF Directory, DiskTable, FileSlots, FileEntry, FileInode
  <1>3. /\ \A t : HeldBlocks(t)' = HeldBlocks(t)
        /\ Dropping' = Dropping
    BY <1>1 DEF HeldBlocks, Dropping, At
  <1>4. /\ FileClaims' = FileClaims /\ \A is : TableClaims(is)' = TableClaims(is)
        /\ FreeClaims' = FreeClaims /\ HeldClaims' = HeldClaims
    BY <1>1, <1>2, <1>3 DEF FileClaims, TableClaims, FreeClaims, HeldClaims
  <1>5. QED
    BY <1>2, <1>3, <1>4 DEF Claimed, Claims

\* A handler loses no block but that of a create whose name exists, under
\* every interleaving: what an append, a delete or a refused create took is
\* free again, or in the file, when it ends.
THEOREM OnlyExistingNameLeaksAlways == Spec => OnlyExistingNameLeaks
  <1> DEFINE Lost(b) == \E t \in Thread : /\ At(t, "create_scan")
                                          /\ outcome'[t] = "exists"
                                          /\ b = loc[t].free_b_1
             Kept == up' => \A b \in Claimed \ Claimed' : Lost(b)
  <1>1. StoreInv /\ StoreInv' /\ [Next]_vars => [Kept]_vars
    <2> SUFFICES ASSUME StoreInv, StoreInv', Next, up', NEW b \in Claimed \ Claimed'
                 PROVE  Lost(b)
      OBVIOUS
    <2>1. ASSUME NEW t \in Thread, Step(t) PROVE Lost(b)
      BY <2>1, StepsRun, StepKeeps
    <2>2. ASSUME NEW t \in Thread, NEW r \in Request, Accept(t, r) PROVE Lost(b)
      BY <2>2, AcceptKeeps DEF Accept
    <2>3. CASE Crash
      BY <2>3 DEF Crash
    <2>4. CASE Quiet
      BY <2>4, StutterKeeps DEF Quiet
    <2>5. QED
      BY <2>1, <2>2, <2>3, <2>4 DEF Next
  <1>2. QED
    BY StoreInvInit, StoreInvStep, <1>1, PTL DEF Spec, OnlyExistingNameLeaks
=============================================================================
