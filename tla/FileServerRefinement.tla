------------------------ MODULE FileServerRefinement ------------------------
(***************************************************************************)
(* FileServer implements FileStore: every step of a handler is a step of   *)
(* the store its clients were promised, or a stutter.                      *)
(*                                                                         *)
(* StoreInv says which blocks are whose, not what is in them.  DataInv     *)
(* adds what a handler knows of data: the file that a read found is the    *)
(* one it was asked for and its result so far is the file's bytes; the     *)
(* blocks that an append filled hold its data so far.  Each is true when   *)
(* the handler learns it; it stays true because the directory lock, the    *)
(* lock of the file and the owners of blocks keep the others away.         *)
(***************************************************************************)
EXTENDS FileServerStoreProofs, FileServerStore

(* What a handler knows of its request and its file.                       *)

\* The byte k of a file whose blocks are bs.
ByteAt(d, bs, k) ==
    AsBytes(d[bs[((k - 1) \div BlockSize) + 1]])[((k - 1) % BlockSize) + 1]

\* A handler serves a request of its kind, and a thread without one has none.
OpOK(t) ==
    /\ pc[t] \in {"new", "done"} => req[t] = NoRequest
    /\ pc[t] \in ReadLabel => req[t].op = "read"
    /\ pc[t] \in AppendLabel => req[t].op = "append"
    /\ pc[t] \in CreateLabel => req[t].op = "create"
    /\ pc[t] \in DeleteLabel => req[t].op = "delete"
    /\ pc[t] = "reply" => req[t] \in RequestType /\ outcome[t] # "none"

\* The entry that a read or a delete found is still the one of its file.
SeenOK(t) ==
    /\ pc[t] \in {"read_filelock", "read_inode", "read_block"} =>
         \E s \in Used : /\ EntryAt(s).name = req[t].name
                         /\ EntryAt(s).inode_block = loc[t].inode_block
    /\ pc[t] \in {"delete_free_table", "delete_dir_inode", "delete_entry"} =>
         loc[t].slot \in Used /\ EntryAt(loc[t].slot).name = req[t].name

\* The inode that a handler goes on with is of a file of its user.
MineOK(t) ==
    pc[t] \in CopyLabel \cup {"read_block", "delete_free_table",
                              "delete_dir_inode", "delete_entry"} =>
      loc[t].inode.owner = req[t].user

\* A read has the inode as on disk, and the bytes up to where it is.
ResultOK(t) ==
    LET l == loc[t] IN
    pc[t] = "read_block" =>
      /\ l.inode = disk[l.inode_block]
      /\ \A k \in 1 .. Len(l.result) :
           l.result[k] = ByteAt(disk, l.inode.blocks, req[t].offset + k)

\* An append has its data up to where it is in the blocks of its copy, past
\* the end of the file on disk.
WrittenOK(t) ==
    LET l == loc[t]
        d == req[t].data
        w == Len(d) - Len(l.data)
    IN
    pc[t] \in {"append_data", "append_commit"} =>
      /\ w \in Nat
      /\ \A k \in 1 .. Len(l.data) : l.data[k] = d[w + k]
      /\ \A k \in 1 .. w : ByteAt(disk, l.inode.blocks, l.inode.size + k) = d[k]

KnowsOK(t) == SeenOK(t) /\ MineOK(t) /\ ResultOK(t) /\ WrittenOK(t)

DataInv ==
    /\ \A t \in Thread : OpOK(t)
    /\ up => \A t \in Thread : KnowsOK(t)

\* What reads and deletes rely on: nothing of the free list.
ServingInv ==
    /\ TypeInv
    /\ DirectoryInv
    /\ Distinct(dir_inode)
    /\ \A t \in Thread : HandlerOK(t)

LEMMA StoreServes == StoreInv /\ up => ServingInv
  BY DEF StoreInv, RunningInv, Ownership, DirectoryOwned, ServingInv

-----------------------------------------------------------------------------
(* The block of a byte, and its place in the block.                        *)

LEMMA BytePlace ==
    ASSUME NEW n \in Nat, NEW k \in 1 .. n
    PROVE  /\ ((k - 1) \div BlockSize) + 1 \in 1 .. CeilDiv(n)
           /\ ((k - 1) % BlockSize) + 1 \in 1 .. BlockSize
  <1>1. PICK i : i = k - 1
    OBVIOUS
  <1>2. i \in Nat /\ i < n
    BY <1>1
  <1>3. (i \div BlockSize) + 1 \in 1 .. CeilDiv(n)
    BY <1>2, BlockOfByte
  <1>4. i % BlockSize \in 0 .. BlockSize - 1
    BY <1>2, BlockDivision
  <1>5. (i % BlockSize) + 1 \in 1 .. BlockSize
    BY <1>4, LayoutAssumption
  <1>6. QED
    BY <1>1, <1>3, <1>5

\* The bytes after the first p, up to the end of the block they start in.
LEMMA SameBlock ==
    ASSUME NEW p \in Nat, NEW i \in 1 .. BlockSize - (p % BlockSize)
    PROVE  /\ (p + i - 1) \div BlockSize = p \div BlockSize
           /\ ((p + i - 1) % BlockSize) + 1 = (p % BlockSize) + i
  <1> DEFINE q == p \div BlockSize
             r == p % BlockSize
  <1>1. q \in Nat /\ r \in 0 .. BlockSize - 1 /\ p = BlockSize * q + r
    BY BlockDivision
  <1> HIDE DEF q, r
  <1>2. BlockSize \in Nat /\ BlockSize * q \in Nat /\ i \in 1 .. BlockSize - r
    BY <1>1, LayoutAssumption DEF r
  <1>3. /\ p + i - 1 \in Nat /\ r + i - 1 \in 0 .. BlockSize - 1
        /\ p + i - 1 = BlockSize * q + (r + i - 1)
    BY <1>1, <1>2
  <1>4. q = (p + i - 1) \div BlockSize /\ r + i - 1 = (p + i - 1) % BlockSize
    BY <1>1, <1>3, BlockDivisionUnique
  <1>5. (r + i - 1) + 1 = r + i
    BY <1>1, <1>2
  <1>6. QED
    BY <1>4, <1>5 DEF q, r

\* A byte stays when its block does.
LEMMA ByteFrame ==
    ASSUME NEW bs, NEW k, disk'[bs[((k - 1) \div BlockSize) + 1]]
                            = disk[bs[((k - 1) \div BlockSize) + 1]]
    PROVE  ByteAt(disk', bs, k) = ByteAt(disk, bs, k)
  BY DEF ByteAt

-----------------------------------------------------------------------------
(* The files on disk, in terms of the directory in memory.                 *)

FileAt(s) ==
    LET i == disk[EntryAt(s).inode_block] IN
    [owner |-> i.owner, data |-> [k \in 1 .. i.size |-> ByteAt(disk, i.blocks, k)]]

IsView(f) ==
    /\ f = [n \in DOMAIN f |-> f[n]]
    /\ \A n \in DOMAIN f : \E s \in Used : EntryAt(s).name = n
    /\ \A s \in Used : EntryAt(s).name \in DOMAIN f /\ f[EntryAt(s).name] = FileAt(s)

LEMMA ViewIsView ==
    ASSUME TypeInv, DirectoryInv
    PROVE  IsView(FilesOnDisk)
  <1>1. /\ FileSlots = Used /\ \A s : FileEntry(s) = EntryAt(s)
        /\ \A s \in Used : FileInode(s) = disk[EntryAt(s).inode_block]
    BY SameView
  <1>2. ASSUME NEW s \in Used PROVE FileNamed(EntryAt(s).name) = s
    <2>1. \A r \in Used : EntryAt(r).name = EntryAt(s).name => r = s
      BY DEF DirectoryInv, NamesOK
    <2>2. FileNamed(EntryAt(s).name) \in Used
          /\ EntryAt(FileNamed(EntryAt(s).name)).name = EntryAt(s).name
      BY <1>1 DEF FileNamed
    <2>3. QED
      BY <2>1, <2>2
  <1>3. \A s \in Used : FileBytes(s) = FileAt(s).data /\ FileInode(s).owner = FileAt(s).owner
    BY <1>1 DEF FileBytes, FileAt, ByteAt
  <1>4. {FileEntry(s).name : s \in FileSlots} = {EntryAt(s).name : s \in Used}
    BY <1>1
  <1>5. FilesOnDisk = [n \in {EntryAt(s).name : s \in Used} |->
                         [owner |-> FileInode(FileNamed(n)).owner,
                          data |-> FileBytes(FileNamed(n))]]
    BY <1>4 DEF FilesOnDisk
  <1>6. ASSUME NEW s \in Used PROVE FilesOnDisk[EntryAt(s).name] = FileAt(s)
    <2>1. FilesOnDisk[EntryAt(s).name]
            = [owner |-> FileInode(s).owner, data |-> FileBytes(s)]
      BY <1>2, <1>5
    <2>2. QED
      BY <1>3, <2>1 DEF FileAt
  <1>7. PICK f, N : f = FilesOnDisk /\ N = {EntryAt(s).name : s \in Used}
    OBVIOUS
  <1>8. f = [n \in DOMAIN f |-> f[n]] /\ DOMAIN f = N
    BY <1>5, <1>7
  <1>9. /\ \A n \in N : \E s \in Used : EntryAt(s).name = n
        /\ \A s \in Used : EntryAt(s).name \in N
    BY <1>7
  <1>10. QED
    BY <1>6, <1>7, <1>8, <1>9 DEF IsView

LEMMA OneView ==
    ASSUME NEW f, NEW g, IsView(f), IsView(g)
    PROVE  f = g
  <1>1. /\ \A n \in DOMAIN f : n \in DOMAIN g /\ f[n] = g[n]
        /\ \A n \in DOMAIN g : n \in DOMAIN f
    BY DEF IsView
  <1>2. DOMAIN f = DOMAIN g
    BY <1>1
  <1>3. f = [n \in DOMAIN f |-> f[n]] /\ g = [n \in DOMAIN g |-> g[n]]
    BY DEF IsView
  <1>4. QED
    BY <1>1, <1>2, <1>3

LEMMA ViewIs ==
    ASSUME TypeInv, DirectoryInv, NEW f, IsView(f)
    PROVE  FilesOnDisk = f
  <1>1. PICK g : g = FilesOnDisk
    OBVIOUS
  <1>2. IsView(g)
    BY <1>1, ViewIsView
  <1>3. QED
    BY <1>1, <1>2, OneView

-----------------------------------------------------------------------------
(* What a step leaves alone, by the owners of the blocks it writes.        *)

LEMMA SameFile ==
    ASSUME TypeInv, DirectoryInv, NEW s \in Used, EntryAt(s)' = EntryAt(s),
           disk'[EntryAt(s).inode_block] = disk[EntryAt(s).inode_block],
           \A k \in 1 .. Len(FileBlocks(s)) :
             disk'[FileBlocks(s)[k]] = disk[FileBlocks(s)[k]]
    PROVE  FileAt(s)' = FileAt(s)
  <1>1. PICK i : i = disk[EntryAt(s).inode_block]
    OBVIOUS
  <1>2. i.size \in Nat /\ FileBlocks(s) = i.blocks /\ Len(i.blocks) = CeilDiv(i.size)
    BY <1>1, FileTypes DEF FileBlocks, Inode
  <1>3. ASSUME NEW k \in 1 .. i.size PROVE ByteAt(disk', i.blocks, k) = ByteAt(disk, i.blocks, k)
    <2>1. ((k - 1) \div BlockSize) + 1 \in 1 .. Len(i.blocks)
      BY <1>2, BytePlace
    <2>2. disk'[i.blocks[((k - 1) \div BlockSize) + 1]]
            = disk[i.blocks[((k - 1) \div BlockSize) + 1]]
      BY <1>2, <2>1
    <2>3. QED
      BY <2>2, ByteFrame
  <1>4. disk'[EntryAt(s)'.inode_block] = i
    BY <1>1
  <1>5. FileAt(s) = [owner |-> i.owner, data |-> [k \in 1 .. i.size |-> ByteAt(disk, i.blocks, k)]]
    BY <1>1 DEF FileAt
  <1>6. FileAt(s)' = [owner |-> i.owner, data |-> [k \in 1 .. i.size |-> ByteAt(disk', i.blocks, k)]]
    BY <1>4 DEF FileAt
  <1>7. QED
    BY <1>3, <1>5, <1>6

LEMMA NextViewIs ==
    ASSUME TypeInv', DirectoryInv', NEW f, IsView(f)'
    PROVE  FilesOnDisk' = f
  <1>1. (FilesOnDisk = f)'
    BY ViewIs, PTL
  <1>2. QED
    BY <1>1

LEMMA SameFiles ==
    ASSUME TypeInv, DirectoryInv, TypeInv', DirectoryInv', Used' = Used,
           \A s \in Used : EntryAt(s)' = EntryAt(s) /\ FileAt(s)' = FileAt(s)
    PROVE  FilesOnDisk' = FilesOnDisk
  <1>1. PICK f : f = FilesOnDisk
    OBVIOUS
  <1>2. IsView(f)
    BY <1>1, ViewIsView
  <1>3. IsView(f)'
    BY <1>2 DEF IsView
  <1>4. (FilesOnDisk = f)'
    BY <1>3, ViewIs, PTL
  <1>5. QED
    BY <1>1, <1>4

\* A file whose name is not n stays when only blocks of the thread and of
\* the file n are written.
LEMMA WritesApart ==
    ASSUME StoreInv, up, NEW t \in Thread, t \in ReadingDir \cup WritingDir,
           pc[t] # "delete_dir_inode", UNCHANGED dir_inode,
           NEW own, Ownership(own), NEW n,
           \A b \in Block : own[b] \notin {HeldBy(t), FileOf(n)} => disk'[b] = disk[b]
    PROVE  /\ Slots' = Slots /\ Used' = Used
           /\ \A s \in Slots : EntryAt(s)' = EntryAt(s)
           /\ \A s \in Used : EntryAt(s).name # n => FileAt(s)' = FileAt(s)
  <1>1. TypeInv /\ DirectoryInv /\ Dropping = {}
    BY NoneDropping DEF StoreInv, RunningInv
  <1>2. \A i \in 1 .. Len(dir_inode) : dir_inode[i] \in Block /\ own[dir_inode[i]] = InDirectory
    BY <1>1 DEF Ownership, DirectoryOwned, TypeInv, TypeOK
  <1>3. \A i \in 1 .. Len(dir_inode) : disk'[dir_inode[i]] = disk[dir_inode[i]]
    BY <1>2, OwnersDiffer
  <1>4. Slots' = Slots /\ Used' = Used /\ \A s \in Slots : EntryAt(s)' = EntryAt(s)
    BY <1>3, DirectoryFrame
  <1>5. ASSUME NEW s \in Used, EntryAt(s).name # n PROVE FileAt(s)' = FileAt(s)
    <2>1. /\ EntryAt(s).inode_block \in Block /\ FileBlocks(s) \in Seq(Block) /\ s \in Slots
      BY <1>1, FileTypes
    <2>2. /\ own[EntryAt(s).inode_block] = FileOf(EntryAt(s).name)
          /\ \A k \in 1 .. Len(FileBlocks(s)) : own[FileBlocks(s)[k]] = FileOf(EntryAt(s).name)
      BY DEF Ownership, FilesOwned, Owns
    <2>3. FileOf(EntryAt(s).name) \notin {HeldBy(t), FileOf(n)}
      BY <1>5, OwnersDiffer
    <2>4. QED
      BY <1>1, <1>4, <2>1, <2>2, <2>3, SameFile
  <1>6. QED
    BY <1>4, <1>5

-----------------------------------------------------------------------------
(* An append writes blocks of its own and of its file.                     *)

LEMMA NamesApart ==
    ASSUME TypeInv, NEW t \in Thread, NEW u \in Thread \ {t},
           pc[t] \in WritingFileLabel, pc[u] \in ReadingFileLabel \cup WritingFileLabel
    PROVE  req[u].name # req[t].name
  <1>1. req[t].name \in Name
    BY DEF TypeInv, LockInv, RequestType, WritingFileLabel
  <1>2. t \in WritingFile(req[t].name)
    BY DEF WritingFile
  <1>3. u \notin WritingFile(req[t].name) /\ u \notin ReadingFile(req[t].name)
    BY <1>1, <1>2, LockInvExclusion DEF TypeInv, Exclusion
  <1>4. QED
    BY <1>3 DEF WritingFile, ReadingFile

\* The block that AppendPartial fills: the last of the file, from the end of
\* the file on.
LEMMA PartialPlace ==
    ASSUME StoreInv, up, NEW t \in Thread, pc[t] = "append_partial"
    PROVE  /\ loc[t].inode.size \in Nat /\ loc[t].inode.size % BlockSize \in 1 .. BlockSize - 1
           /\ loc[t].inode.size \div BlockSize \in Nat
           /\ (loc[t].inode.size \div BlockSize) + 1 = Len(loc[t].inode.blocks)
           /\ \E s \in Used :
                /\ EntryAt(s).name = req[t].name
                /\ EntryAt(s).inode_block = loc[t].inode_block
                /\ disk[EntryAt(s).inode_block].size = loc[t].inode.size
                /\ Len(FileBlocks(s)) = (loc[t].inode.size \div BlockSize) + 1
                /\ \A k \in 1 .. Len(FileBlocks(s)) :
                     FileBlocks(s)[k] = loc[t].inode.blocks[k]
  <1>1. TypeInv /\ RunningInv /\ HandlerOK(t) /\ DirectoryInv
    BY DEF StoreInv, RunningInv
  <1>2. /\ loc[t].inode.size \in Nat /\ loc[t].inode.size % BlockSize > 0
        /\ Len(loc[t].inode.blocks) = CeilDiv(loc[t].inode.size)
    BY <1>1, LocalTypes DEF LocalOK, AppendOK, InodeOK
  <1>3. /\ CeilDiv(loc[t].inode.size) = (loc[t].inode.size \div BlockSize) + 1
        /\ loc[t].inode.size \div BlockSize \in Nat /\ loc[t].inode.size % BlockSize \in 0 .. BlockSize - 1
    BY <1>2, PartialBlock, BlockDivision
  <1>4. loc[t].inode.size % BlockSize \in 1 .. BlockSize - 1
    BY <1>2, <1>3, LayoutAssumption
  <1>5. pc[t] \in CopyLabel
    BY DEF CopyLabel
  <1>6. PICK s \in Used : /\ EntryAt(s).name = req[t].name
                          /\ EntryAt(s).inode_block = loc[t].inode_block
                          /\ FileBlocks(s) = disk[loc[t].inode_block].blocks
    BY <1>1, <1>5, CopyFacts
  <1>7. /\ disk[loc[t].inode_block].size = loc[t].inode.size
        /\ Len(disk[loc[t].inode_block].blocks) = CeilDiv(loc[t].inode.size)
        /\ \A k \in 1 .. CeilDiv(loc[t].inode.size) :
             loc[t].inode.blocks[k] = disk[loc[t].inode_block].blocks[k]
    BY <1>1, <1>5, CopyFacts
  <1>8. QED
    BY <1>2, <1>3, <1>4, <1>6, <1>7

AppendWrite(t) == AppendPartial(t) \/ AppendData(t) \/ AppendCommit(t)

LEMMA AppendWrites ==
    ASSUME StoreInv, up, NEW t \in Thread, AppendWrite(t),
           NEW own \in [Block -> Owner], Ownership(own)
    PROVE  /\ t \in ReadingDir /\ pc[t] # "delete_dir_inode" /\ UNCHANGED dir_inode
           /\ pc[t] \in WritingFileLabel
           /\ \A b \in Block : own[b] \notin {HeldBy(t), FileOf(req[t].name)} =>
                                 disk'[b] = disk[b]
  <1>1. TypeInv /\ RunningInv /\ HandlerOK(t) /\ DirectoryInv /\ disk \in [Block -> Content]
    BY DEF StoreInv, RunningInv, TypeInv, TypeOK
  <1>2. /\ pc[t] \in {"append_partial", "append_data", "append_commit"}
        /\ UNCHANGED dir_inode
    BY DEF AppendWrite, AppendPartial, AppendData, AppendCommit, At, memory
  <1>3. t \in ReadingDir /\ pc[t] # "delete_dir_inode" /\ pc[t] \in WritingFileLabel
    BY <1>2 DEF ReadingDir, ReadingDirLabel, AppendLabel, WritingFileLabel
  <1>4. PICK s \in Used : EntryAt(s).name = req[t].name /\ EntryAt(s).inode_block = loc[t].inode_block
    BY <1>1, <1>2, CopyFacts DEF CopyLabel
  <1>5. /\ own[EntryAt(s).inode_block] = FileOf(req[t].name)
        /\ \A k \in 1 .. Len(FileBlocks(s)) : own[FileBlocks(s)[k]] = FileOf(req[t].name)
    BY <1>4 DEF Ownership, FilesOwned, Owns
  <1>6. ASSUME NEW b, NEW c, disk' = [disk EXCEPT ![b] = c],
               own[b] \in {HeldBy(t), FileOf(req[t].name)}
        PROVE  \A a \in Block : own[a] \notin {HeldBy(t), FileOf(req[t].name)} =>
                                  disk'[a] = disk[a]
    BY <1>1, <1>6
  <1>7. CASE AppendPartial(t)
    <2>1. pc[t] = "append_partial"
      BY <1>7 DEF AppendPartial, At
    <2>2. /\ loc[t].inode.size \div BlockSize \in Nat
          /\ \E r \in Used :
                /\ EntryAt(r).name = req[t].name
                /\ EntryAt(r).inode_block = loc[t].inode_block
                /\ disk[EntryAt(r).inode_block].size = loc[t].inode.size
                /\ Len(FileBlocks(r)) = (loc[t].inode.size \div BlockSize) + 1
                /\ \A k \in 1 .. Len(FileBlocks(r)) :
                     FileBlocks(r)[k] = loc[t].inode.blocks[k]
      BY <2>1, PartialPlace
    <2>4. PICK q, b : q = loc[t].inode.size \div BlockSize /\ b = loc[t].inode.blocks[q + 1]
      OBVIOUS
    <2>5. PICK r \in Used : /\ EntryAt(r).name = req[t].name /\ Len(FileBlocks(r)) = q + 1
                            /\ \A k \in 1 .. Len(FileBlocks(r)) :
                                 FileBlocks(r)[k] = loc[t].inode.blocks[k]
      BY <2>2, <2>4
    <2>6. q + 1 \in 1 .. Len(FileBlocks(r))
      BY <2>2, <2>4, <2>5
    <2>7. own[b] = FileOf(req[t].name)
      BY <2>4, <2>5, <2>6 DEF Ownership, FilesOwned, Owns
    <2>8. PICK c : disk' = [disk EXCEPT ![b] = c]
      BY <1>7, <2>4 DEF AppendPartial
    <2>9. QED
      <3>1. own[b] \in {HeldBy(t), FileOf(req[t].name)}
        BY <2>7
      <3>2. \A a \in Block : own[a] \notin {HeldBy(t), FileOf(req[t].name)} =>
                                  disk'[a] = disk[a]
        BY <1>6, <2>8, <3>1
      <3>3. QED
        BY <1>2, <1>3, <3>2
  <1>8. CASE AppendData(t)
    <2>1. PICK b, c :
             /\ b \in Block /\ b = Head(loc[t].tmp) /\ b \in BlocksOf(HeldBlocks(t))
             /\ disk' = [disk EXCEPT ![b] = c] /\ c.kind = "data"
             /\ pc'[t] \in {"append_data", "append_commit"}
             /\ loc[t].tmp \in Seq(Block) /\ loc[t].tmp # << >>
             /\ loc'[t].inode = [loc[t].inode EXCEPT !.blocks = Append(@, b)]
             /\ loc'[t].inode_block = loc[t].inode_block
             /\ Linked(loc[t].inode) \in Seq(Block)
             /\ HeldBlocks(t) = loc[t].tmp \o Linked(loc[t].inode)
             /\ HeldBlocks(t)' = Tail(loc[t].tmp) \o Append(Linked(loc[t].inode), b)
      BY <1>8, AppendDataMoves
    <2>2. own[b] \in {HeldBy(t), FileOf(req[t].name)}
      <3>1. b \in BlocksOf(HeldBlocks(t))
        BY <2>1
      <3>2. QED
        BY <3>1 DEF Ownership, Owns, BlocksOf
    <2>3. \A a \in Block : own[a] \notin {HeldBy(t), FileOf(req[t].name)} =>
                              disk'[a] = disk[a]
      BY <1>6, <2>1, <2>2
    <2>4. QED
      BY <1>2, <1>3, <2>3
  <1>9. CASE AppendCommit(t)
    <2>1. \E c : disk' = [disk EXCEPT ![loc[t].inode_block] = c]
      BY <1>9 DEF AppendCommit
    <2>2. QED
      BY <1>2, <1>3, <1>4, <1>5, <1>6, <2>1
  <1>10. QED
    BY <1>7, <1>8, <1>9 DEF AppendWrite

\* The steps of a handler, by what they write.
LEMMA StepKinds ==
    ASSUME TypeInv, NEW t \in Thread, Step(t)
    PROVE  UNCHANGED << disk, dir_inode >> \/ t \in WritingDir \/ AppendWrite(t)
  <1> USE DEF memory, At
  <1>1. CASE ReadStep(t)
    BY <1>1 DEF ReadStep, ReadLock, ReadFind, ReadFileLock, ReadInode, ReadBlock, ReadUnlock
  <1>2. CASE AppendStep(t)
    BY <1>2 DEF AppendStep, AppendRoom, AppendLock, AppendFind, AppendFileLock,
                AppendInode, AppendAlloc, AppendUnlock, AppendWrite
  <1>3. CASE CreateStep(t)
    BY <1>3 DEF CreateStep, CreateReserve, CreateLock, CreateScan,
       CreateInode, CreateEntry, CreateExtend, CreateNewInode, CreateNewTable,
       CreateDirInode, CreateUnlock, WritingDir, WritingDirLabel, CreateLabel
  <1>4. CASE DeleteStep(t)
    BY <1>4 DEF DeleteStep, DeleteLock, DeleteFind, DeleteFreeTable,
       DeleteDirInode, DeleteEntry, DeleteFree, DeleteUnlock, WritingDir,
       WritingDirLabel, DeleteLabel
  <1>5. CASE EndRequest(t)
    BY <1>5 DEF EndRequest
  <1>6. QED
    BY <1>1, <1>2, <1>3, <1>4, <1>5 DEF Step

\* What the others know stays when the disk does, or when they are not in
\* the directory.
LEMMA QuietOthers ==
    ASSUME UNCHANGED << disk, dir_inode >>, NEW u, KnowsOK(u),
           pc'[u] = pc[u], loc'[u] = loc[u], req'[u] = req[u]
    PROVE  KnowsOK(u)'
  <1>1. Used' = Used /\ \A s : EntryAt(s)' = EntryAt(s)
    BY DEF Used, Slots, EntryAt, TableAt
  <1>2. SeenOK(u)'
    BY <1>1 DEF KnowsOK, SeenOK
  <1>3. MineOK(u)'
    BY DEF KnowsOK, MineOK
  <1>4. \A bs, k : ByteAt(disk', bs, k) = ByteAt(disk, bs, k)
    BY DEF ByteAt
  <1>5. ResultOK(u)'
    BY <1>4 DEF KnowsOK, ResultOK
  <1>6. WrittenOK(u)'
    BY <1>4 DEF KnowsOK, WrittenOK
  <1>7. QED
    BY <1>2, <1>3, <1>5, <1>6 DEF KnowsOK

LEMMA OutsideKnows ==
    ASSUME NEW u, pc[u] \notin ReadingDirLabel \cup WritingDirLabel
    PROVE  KnowsOK(u)
  BY DEF KnowsOK, SeenOK, MineOK, ResultOK, WrittenOK, ReadingDirLabel, WritingDirLabel,
         ReadLabel, AppendLabel, CreateLabel, DeleteLabel, CopyLabel

\* The bytes that a read has, and those that an append wrote, are in the
\* blocks of its copy of the inode.
LEMMA ResultPlace ==
    ASSUME TypeInv, NEW u \in Thread, pc[u] = "read_block",
           NEW k \in Nat, k > 0, k <= req[u].size
    PROVE  /\ req[u].offset + k \in 1 .. loc[u].inode.size
           /\ (((req[u].offset + k) - 1) \div BlockSize) + 1 \in 1 .. Len(loc[u].inode.blocks)
           /\ (((req[u].offset + k) - 1) % BlockSize) + 1 \in 1 .. BlockSize
  <1>1. /\ loc[u].inode.size \in Nat /\ Len(loc[u].inode.blocks) = CeilDiv(loc[u].inode.size)
        /\ req[u].offset + req[u].size <= loc[u].inode.size
    BY LocalTypes DEF LocalOK, ReadOK, InodeOK
  <1>2. req[u].offset \in Nat /\ req[u].size \in Nat
    BY DEF TypeInv, LockInv, RequestType
  <1>3. req[u].offset + k \in 1 .. loc[u].inode.size
    BY <1>1, <1>2
  <1>4. PICK j : j = req[u].offset + k
    OBVIOUS
  <1>5. /\ ((j - 1) \div BlockSize) + 1 \in 1 .. CeilDiv(loc[u].inode.size)
        /\ ((j - 1) % BlockSize) + 1 \in 1 .. BlockSize
    BY <1>1, <1>3, <1>4, BytePlace
  <1>6. QED
    BY <1>1, <1>2, <1>3, <1>4, <1>5

LEMMA WrittenPlace ==
    ASSUME TypeInv, NEW u \in Thread, pc[u] \in {"append_data", "append_commit"},
           NEW k \in 1 .. Len(req[u].data) - Len(loc[u].data)
    PROVE  (((loc[u].inode.size + k) - 1) \div BlockSize) + 1 \in 1 .. Len(loc[u].inode.blocks)
  <1>1. PICK size, n : size = loc[u].inode.size /\ n = Len(loc[u].inode.blocks)
    OBVIOUS
  <1>2. size \in Nat /\ n \in Nat /\ Len(loc[u].data) \in Nat
    BY <1>1, LocalTypes
  <1>3. Len(req[u].data) \in Nat
    BY DEF TypeInv, LockInv, RequestType
  <1>4. PICK w : w = Len(req[u].data) - Len(loc[u].data)
    OBVIOUS
  <1>5. w \in Nat /\ k \in 1 .. w
    BY <1>2, <1>3, <1>4
  <1>6. size + w \in Nat /\ CeilDiv(size + w) \in Nat
    <2>1. size + w \in Nat
      BY <1>2, <1>5
    <2>2. QED
      BY <2>1, CeilDivBounds
  <1>7. CeilDiv(size + w) <= n
    <2>1. CASE pc[u] = "append_data"
      <3>1. BlockSize * n + Len(loc[u].data) = size + Len(req[u].data)
        BY <1>1, <2>1, LocalTypes DEF LocalOK, AppendOK
      <3>2. BlockSize * n \in Nat
        BY <1>2, LayoutAssumption
      <3>3. PICK p, d, x : p = BlockSize * n /\ d = Len(loc[u].data) /\ x = Len(req[u].data)
        OBVIOUS
      <3>4. p + d = size + x /\ w = x - d /\ p \in Nat /\ d \in Nat /\ x \in Nat
        BY <1>2, <1>3, <1>4, <3>1, <3>2, <3>3
      <3>5. size + w = p
        BY <1>2, <3>4
      <3>6. size + w <= BlockSize * n
        <4>1. size + w <= p
          BY <3>4, <3>5
        <4>2. QED
          BY <3>3, <4>1
      <3>7. QED
        BY <1>2, <1>6, <3>6, CeilDivFits
    <2>2. CASE pc[u] = "append_commit"
      <3>1. loc[u].data = << >> /\ n = CeilDiv(size + Len(req[u].data))
        BY <1>1, <2>2, LocalTypes DEF LocalOK, AppendOK
      <3>2. w = Len(req[u].data)
        BY <1>4, <1>3, <3>1
      <3>3. QED
        BY <1>6, <3>1, <3>2
    <2>3. QED
      BY <2>1, <2>2
  <1>8. PICK m, j : m = size + w /\ j = size + k
    OBVIOUS
  <1>9. m \in Nat /\ j \in 1 .. m
    BY <1>2, <1>5, <1>6, <1>8
  <1>10. ((j - 1) \div BlockSize) + 1 \in 1 .. CeilDiv(m)
    BY <1>9, BytePlace
  <1>11. ((j - 1) \div BlockSize) + 1 \in 1 .. n
    BY <1>2, <1>5, <1>6, <1>7, <1>8, <1>10
  <1>12. QED
    BY <1>1, <1>2, <1>5, <1>8, <1>11

\* Who owns the blocks that a read or an append goes to.
LEMMA SeenOwned ==
    ASSUME StoreInv, up, NEW u \in Thread, pc[u] = "read_block", KnowsOK(u),
           NEW own, Ownership(own)
    PROVE  /\ loc[u].inode_block \in Block
           /\ own[loc[u].inode_block] = FileOf(req[u].name)
           /\ \A k \in 1 .. Len(loc[u].inode.blocks) :
                /\ loc[u].inode.blocks[k] \in Block
                /\ own[loc[u].inode.blocks[k]] = FileOf(req[u].name)
  <1>1. TypeInv /\ DirectoryInv
    BY DEF StoreInv, RunningInv
  <1>2. PICK s \in Used : EntryAt(s).name = req[u].name /\ EntryAt(s).inode_block = loc[u].inode_block
    BY DEF KnowsOK, SeenOK
  <1>3. FileBlocks(s) = loc[u].inode.blocks
    BY <1>2 DEF KnowsOK, ResultOK, FileBlocks
  <1>4. EntryAt(s).inode_block \in Block /\ FileBlocks(s) \in Seq(Block)
    BY <1>1, FileTypes
  <1>5. /\ own[EntryAt(s).inode_block] = FileOf(EntryAt(s).name)
        /\ \A k \in 1 .. Len(FileBlocks(s)) : own[FileBlocks(s)[k]] = FileOf(EntryAt(s).name)
    BY DEF Ownership, FilesOwned, Owns
  <1>6. QED
    BY <1>2, <1>3, <1>4, <1>5

LEMMA CopyOwned ==
    ASSUME StoreInv, up, NEW u \in Thread, pc[u] \in CopyLabel, NEW own, Ownership(own),
           NEW k \in 1 .. Len(loc[u].inode.blocks)
    PROVE  /\ loc[u].inode.blocks[k] \in Block
           /\ own[loc[u].inode.blocks[k]] \in {FileOf(req[u].name), HeldBy(u)}
  <1>1. TypeInv /\ DirectoryInv /\ HandlerOK(u) /\ Owns(own, HeldBy(u), HeldBlocks(u))
    BY DEF StoreInv, RunningInv, Ownership
  <1>2. loc[u].inode.blocks[k] \in Block
    BY <1>1, LocalTypes
  <1>3. PICK s \in Used : /\ EntryAt(s).name = req[u].name
                          /\ EntryAt(s).inode_block = loc[u].inode_block
                          /\ FileBlocks(s) = disk[loc[u].inode_block].blocks
    BY <1>1, CopyFacts
  <1>4. /\ disk[loc[u].inode_block].blocks \in Seq(Block)
        /\ Len(disk[loc[u].inode_block].blocks) = CeilDiv(loc[u].inode.size)
        /\ CeilDiv(loc[u].inode.size) \in Nat
        /\ \A j \in 1 .. CeilDiv(loc[u].inode.size) :
             loc[u].inode.blocks[j] = disk[loc[u].inode_block].blocks[j]
    BY <1>1, CopyFacts
  <1>5. CASE k > Len(disk[loc[u].inode_block].blocks)
    BY <1>1, <1>2, <1>5, LinkedHeld
  <1>6. CASE ~(k > Len(disk[loc[u].inode_block].blocks))
    <2>1. k \in 1 .. Len(FileBlocks(s)) /\ FileBlocks(s)[k] = loc[u].inode.blocks[k]
      BY <1>3, <1>4, <1>6
    <2>2. own[FileBlocks(s)[k]] = FileOf(EntryAt(s).name)
      BY <2>1 DEF Ownership, FilesOwned, Owns
    <2>3. QED
      BY <1>2, <1>3, <2>1, <2>2
  <1>7. QED
    BY <1>5, <1>6

\* What a thread knows when the bytes of its copy stay.
LEMMA KeptKnows ==
    ASSUME NEW u, KnowsOK(u), pc'[u] = pc[u], loc'[u] = loc[u], req'[u] = req[u],
           Used' = Used, \A s \in Used : EntryAt(s)' = EntryAt(s),
           pc[u] = "read_block" =>
             /\ disk'[loc[u].inode_block] = disk[loc[u].inode_block]
             /\ \A k \in 1 .. Len(loc[u].result) :
                  ByteAt(disk', loc[u].inode.blocks, req[u].offset + k)
                    = ByteAt(disk, loc[u].inode.blocks, req[u].offset + k),
           pc[u] \in {"append_data", "append_commit"} =>
             \A k \in 1 .. Len(req[u].data) - Len(loc[u].data) :
               ByteAt(disk', loc[u].inode.blocks, loc[u].inode.size + k)
                 = ByteAt(disk, loc[u].inode.blocks, loc[u].inode.size + k)
    PROVE  KnowsOK(u)'
  <1>1. SeenOK(u)'
    BY DEF KnowsOK, SeenOK
  <1>2. MineOK(u)'
    BY DEF KnowsOK, MineOK
  <1>3. ResultOK(u)'
    BY DEF KnowsOK, ResultOK
  <1>4. WrittenOK(u)'
    BY DEF KnowsOK, WrittenOK
  <1>5. QED
    BY <1>1, <1>2, <1>3, <1>4 DEF KnowsOK

\* No append writes a block of another's copy.
LEMMA WriteOthers ==
    ASSUME StoreInv, up, NEW t \in Thread, Step(t), AppendWrite(t),
           NEW u \in Thread \ {t}, KnowsOK(u)
    PROVE  KnowsOK(u)'
  <1>1. TypeInv /\ RunningInv
    BY DEF StoreInv
  <1>2. PICK own \in [Block -> Owner] : Ownership(own)
    BY <1>1 DEF RunningInv
  <1>3. PICK n : n = req[t].name
    OBVIOUS
  <1>4. /\ t \in ReadingDir /\ pc[t] # "delete_dir_inode" /\ UNCHANGED dir_inode
        /\ pc[t] \in WritingFileLabel
        /\ \A b \in Block : own[b] \notin {HeldBy(t), FileOf(n)} => disk'[b] = disk[b]
    BY <1>2, <1>3, AppendWrites
  <1>5. Used' = Used /\ \A s \in Used : EntryAt(s)' = EntryAt(s)
    BY <1>2, <1>4, WritesApart DEF Used
  <1>6. pc'[u] = pc[u] /\ req'[u] = req[u] /\ loc'[u] = loc[u]
    BY <1>1, OthersUnchanged DEF TypeInv
  <1>7. ASSUME pc[u] = "read_block"
        PROVE  /\ disk'[loc[u].inode_block] = disk[loc[u].inode_block]
               /\ \A k \in 1 .. Len(loc[u].result) :
                    ByteAt(disk', loc[u].inode.blocks, req[u].offset + k)
                      = ByteAt(disk, loc[u].inode.blocks, req[u].offset + k)
    <2>1. /\ loc[u].inode_block \in Block
          /\ own[loc[u].inode_block] = FileOf(req[u].name)
          /\ \A k \in 1 .. Len(loc[u].inode.blocks) :
                /\ loc[u].inode.blocks[k] \in Block
                /\ own[loc[u].inode.blocks[k]] = FileOf(req[u].name)
      BY <1>2, <1>7, SeenOwned
    <2>2. req[u].name # n
      BY <1>1, <1>3, <1>4, <1>7, NamesApart DEF ReadingFileLabel
    <2>3. FileOf(req[u].name) \notin {HeldBy(t), FileOf(n)}
      BY <2>2, OwnersDiffer
    <2>4. ASSUME NEW k \in 1 .. Len(loc[u].result)
          PROVE  ByteAt(disk', loc[u].inode.blocks, req[u].offset + k)
                   = ByteAt(disk, loc[u].inode.blocks, req[u].offset + k)
      <3>1. k \in Nat /\ k > 0 /\ k <= req[u].size
        <4>1. Len(loc[u].result) \in Nat /\ Len(loc[u].result) < req[u].size
          BY <1>1, <1>7, LocalTypes DEF LocalOK, ReadOK
        <4>2. req[u].size \in Nat
          BY <1>1, <1>7 DEF TypeInv, LockInv, RequestType
        <4>3. QED
          BY <4>1, <4>2
      <3>2. (((req[u].offset + k) - 1) \div BlockSize) + 1 \in 1 .. Len(loc[u].inode.blocks)
        BY <1>1, <1>7, <3>1, ResultPlace
      <3>3. disk'[loc[u].inode.blocks[(((req[u].offset + k) - 1) \div BlockSize) + 1]]
              = disk[loc[u].inode.blocks[(((req[u].offset + k) - 1) \div BlockSize) + 1]]
        BY <1>4, <2>1, <2>3, <3>2
      <3>4. QED
        BY <3>3 DEF ByteAt
    <2>5. QED
      BY <1>4, <2>1, <2>3, <2>4
  <1>8. ASSUME pc[u] \in {"append_data", "append_commit"},
               NEW k \in 1 .. Len(req[u].data) - Len(loc[u].data)
        PROVE  ByteAt(disk', loc[u].inode.blocks, loc[u].inode.size + k)
                 = ByteAt(disk, loc[u].inode.blocks, loc[u].inode.size + k)
    <2>1. PICK i : i = (((loc[u].inode.size + k) - 1) \div BlockSize) + 1
      OBVIOUS
    <2>2. i \in 1 .. Len(loc[u].inode.blocks)
      BY <1>1, <1>8, <2>1, WrittenPlace
    <2>3. pc[u] \in CopyLabel
      BY <1>8 DEF CopyLabel
    <2>4. /\ loc[u].inode.blocks[i] \in Block
          /\ own[loc[u].inode.blocks[i]] \in {FileOf(req[u].name), HeldBy(u)}
      BY <1>2, <2>2, <2>3, CopyOwned
    <2>5. req[u].name # n
      BY <1>1, <1>3, <1>4, <1>8, NamesApart DEF WritingFileLabel
    <2>6. own[loc[u].inode.blocks[i]] \notin {HeldBy(t), FileOf(n)}
      BY <2>4, <2>5, OwnersDiffer
    <2>7. disk'[loc[u].inode.blocks[i]] = disk[loc[u].inode.blocks[i]]
      BY <1>4, <2>4, <2>6
    <2>8. QED
      BY <2>1, <2>7 DEF ByteAt
  <1>9. QED
    BY <1>5, <1>6, <1>7, <1>8, KeptKnows

\* A step that is no write of an append.
LEMMA ApartKnow ==
    ASSUME TypeInv, NEW t \in Thread, Step(t), ~AppendWrite(t),
           NEW u \in Thread \ {t}, KnowsOK(u)
    PROVE  KnowsOK(u)'
  <1>1. pc'[u] = pc[u] /\ req'[u] = req[u] /\ loc'[u] = loc[u]
    BY OthersUnchanged DEF TypeInv
  <1>2. CASE UNCHANGED << disk, dir_inode >>
    BY <1>1, <1>2, QuietOthers
  <1>3. CASE t \in WritingDir
    <2>1. u \notin ReadingDir /\ u \notin WritingDir
      BY <1>3, LockInvExclusion DEF TypeInv, Exclusion
    <2>2. pc'[u] \notin ReadingDirLabel \cup WritingDirLabel
      BY <1>1, <2>1 DEF ReadingDir, WritingDir
    <2>3. QED
      BY <2>2 DEF KnowsOK, SeenOK, MineOK, ResultOK, WrittenOK, ReadingDirLabel,
                  WritingDirLabel, ReadLabel, AppendLabel, CreateLabel, DeleteLabel, CopyLabel
  <1>4. QED
    BY <1>2, <1>3, StepKinds

LEMMA OthersKnow ==
    ASSUME StoreInv, up, NEW t \in Thread, Step(t), NEW u \in Thread \ {t}, KnowsOK(u)
    PROVE  KnowsOK(u)'
  <1>1. TypeInv
    BY DEF StoreInv
  <1>2. CASE AppendWrite(t)
    BY <1>2, WriteOthers
  <1>3. CASE ~AppendWrite(t)
    BY <1>1, <1>3, ApartKnow
  <1>4. QED
    BY <1>2, <1>3

-----------------------------------------------------------------------------
(* Where a step takes its thread: to a step of the same handler, or to the *)
(* end of the request.                                                     *)

LEMMA OwnMoves ==
    ASSUME TypeInv, NEW t \in Thread
    PROVE  /\ \A l : Goto(t, l) => pc'[t] = l /\ UNCHANGED outcome
           /\ \A why : Return(t, why) =>
                /\ pc'[t] = "reply" /\ outcome'[t] = why
                /\ \A u \in Thread \ {t} : outcome'[u] = outcome[u]
  BY DEF TypeInv, TypeOK, Goto, Return

LEMMA ReadMoves ==
    ASSUME TypeInv, NEW t \in Thread, ReadStep(t)
    PROVE  /\ req' = req /\ pc[t] \in ReadLabel /\ pc'[t] \in ReadLabel \cup {"reply"}
           /\ pc'[t] = "reply" => outcome'[t] # "none"
           /\ \A u \in Thread \ {t} : outcome'[u] = outcome[u]
  <1> USE OwnMoves DEF At, ReadLabel
  <1>1. CASE ReadLock(t)
    BY <1>1 DEF ReadLock
  <1>2. CASE ReadFind(t)
    BY <1>2 DEF ReadFind
  <1>3. CASE ReadFileLock(t)
    BY <1>3 DEF ReadFileLock
  <1>4. CASE ReadInode(t)
    BY <1>4 DEF ReadInode
  <1>5. CASE ReadBlock(t)
    BY <1>5 DEF ReadBlock
  <1>6. CASE ReadUnlock(t)
    BY <1>6 DEF ReadUnlock
  <1>7. QED
    BY <1>1, <1>2, <1>3, <1>4, <1>5, <1>6 DEF ReadStep

LEMMA AppendMoves ==
    ASSUME TypeInv, NEW t \in Thread, AppendStep(t)
    PROVE  /\ req' = req /\ pc[t] \in AppendLabel /\ pc'[t] \in AppendLabel \cup {"reply"}
           /\ pc'[t] = "reply" => outcome'[t] # "none"
           /\ \A u \in Thread \ {t} : outcome'[u] = outcome[u]
  <1> USE OwnMoves DEF At, AppendLabel
  <1>1. CASE AppendRoom(t)
    BY <1>1 DEF AppendRoom
  <1>2. CASE AppendLock(t)
    BY <1>2 DEF AppendLock
  <1>3. CASE AppendFind(t)
    BY <1>3 DEF AppendFind
  <1>4. CASE AppendFileLock(t)
    BY <1>4 DEF AppendFileLock
  <1>5. CASE AppendInode(t)
    BY <1>5 DEF AppendInode
  <1>6. CASE AppendAlloc(t)
    BY <1>6 DEF AppendAlloc
  <1>7. CASE AppendPartial(t)
    BY <1>7 DEF AppendPartial
  <1>8. CASE AppendData(t)
    BY <1>8 DEF AppendData
  <1>9. CASE AppendCommit(t)
    BY <1>9 DEF AppendCommit
  <1>10. CASE AppendUnlock(t)
    BY <1>10 DEF AppendUnlock
  <1>11. QED
    BY <1>1, <1>2, <1>3, <1>4, <1>5, <1>6, <1>7, <1>8, <1>9, <1>10 DEF AppendStep

LEMMA CreateMoves ==
    ASSUME TypeInv, NEW t \in Thread, CreateStep(t)
    PROVE  /\ req' = req /\ pc[t] \in CreateLabel /\ pc'[t] \in CreateLabel \cup {"reply"}
           /\ pc'[t] = "reply" => outcome'[t] # "none"
           /\ \A u \in Thread \ {t} : outcome'[u] = outcome[u]
  <1> USE OwnMoves DEF At, CreateLabel
  <1>1. CASE CreateReserve(t)
    BY <1>1 DEF CreateReserve
  <1>2. CASE CreateLock(t)
    BY <1>2 DEF CreateLock
  <1>3. CASE CreateScan(t)
    BY <1>3 DEF CreateScan
  <1>4. CASE CreateInode(t)
    BY <1>4 DEF CreateInode
  <1>5. CASE CreateEntry(t)
    BY <1>5 DEF CreateEntry
  <1>6. CASE CreateExtend(t)
    BY <1>6 DEF CreateExtend
  <1>7. CASE CreateNewInode(t)
    BY <1>7 DEF CreateNewInode
  <1>8. CASE CreateNewTable(t)
    BY <1>8 DEF CreateNewTable
  <1>9. CASE CreateDirInode(t)
    BY <1>9 DEF CreateDirInode
  <1>10. CASE CreateUnlock(t)
    BY <1>10 DEF CreateUnlock
  <1>11. QED
    BY <1>1, <1>2, <1>3, <1>4, <1>5, <1>6, <1>7, <1>8, <1>9, <1>10 DEF CreateStep

LEMMA DeleteMoves ==
    ASSUME TypeInv, NEW t \in Thread, DeleteStep(t)
    PROVE  /\ req' = req /\ pc[t] \in DeleteLabel /\ pc'[t] \in DeleteLabel \cup {"reply"}
           /\ pc'[t] = "reply" => outcome'[t] # "none"
           /\ \A u \in Thread \ {t} : outcome'[u] = outcome[u]
  <1> USE OwnMoves DEF At, DeleteLabel
  <1>1. CASE DeleteLock(t)
    BY <1>1 DEF DeleteLock
  <1>2. CASE DeleteFind(t)
    <2>1. \/ \E why \in {"no_file", "not_owner"} : Return(t, why)
          \/ \E l \in {"delete_free_table", "delete_entry"} : Goto(t, l)
      BY <1>2 DEF DeleteFind
    <2>2. req' = req /\ pc[t] = "delete_find"
      BY <1>2 DEF DeleteFind
    <2>3. QED
      BY <2>1, <2>2
  <1>3. CASE DeleteFreeTable(t)
    BY <1>3 DEF DeleteFreeTable
  <1>4. CASE DeleteDirInode(t)
    BY <1>4 DEF DeleteDirInode
  <1>5. CASE DeleteEntry(t)
    BY <1>5 DEF DeleteEntry
  <1>6. CASE DeleteFree(t)
    BY <1>6 DEF DeleteFree
  <1>7. CASE DeleteUnlock(t)
    BY <1>7 DEF DeleteUnlock
  <1>8. QED
    BY <1>1, <1>2, <1>3, <1>4, <1>5, <1>6, <1>7 DEF DeleteStep

LEMMA OwnOp ==
    ASSUME TypeInv, NEW t \in Thread, Step(t), OpOK(t)
    PROVE  OpOK(t)'
  <1>1. CASE EndRequest(t)
    <2>1. pc'[t] = "done" /\ req'[t] = NoRequest
      BY <1>1 DEF EndRequest, TypeInv, TypeOK
    <2>2. QED
      BY <2>1 DEF OpOK, ReadLabel, AppendLabel, CreateLabel, DeleteLabel
  <1>2. ASSUME NEW L, L \in {ReadLabel, AppendLabel, CreateLabel, DeleteLabel},
               pc[t] \in L, pc'[t] \in L \cup {"reply"}, req' = req,
               pc'[t] = "reply" => outcome'[t] # "none"
        PROVE  OpOK(t)'
    <2>1. req[t] \in RequestType
      BY <1>2 DEF TypeInv, LockInv, ReadLabel, AppendLabel, CreateLabel, DeleteLabel
    <2>2. CASE pc'[t] = "reply"
      BY <1>2, <2>1, <2>2 DEF OpOK, ReadLabel, AppendLabel, CreateLabel, DeleteLabel
    <2>3. CASE pc'[t] # "reply"
      <3>1. pc'[t] \in L
        BY <1>2, <2>3
      <3>2. CASE L = ReadLabel
        BY <1>2, <3>1, <3>2 DEF OpOK, ReadLabel, AppendLabel, CreateLabel, DeleteLabel
      <3>3. CASE L = AppendLabel
        BY <1>2, <3>1, <3>3 DEF OpOK, ReadLabel, AppendLabel, CreateLabel, DeleteLabel
      <3>4. CASE L = CreateLabel
        BY <1>2, <3>1, <3>4 DEF OpOK, ReadLabel, AppendLabel, CreateLabel, DeleteLabel
      <3>5. CASE L = DeleteLabel
        BY <1>2, <3>1, <3>5 DEF OpOK, ReadLabel, AppendLabel, CreateLabel, DeleteLabel
      <3>6. QED
        BY <1>2, <3>2, <3>3, <3>4, <3>5
    <2>4. QED
      BY <2>2, <2>3
  <1>3. QED
    BY <1>1, <1>2, ReadMoves, AppendMoves, CreateMoves, DeleteMoves DEF Step

LEMMA OthersMove ==
    ASSUME TypeInv, NEW t \in Thread, Step(t), NEW u \in Thread \ {t}
    PROVE  /\ pc'[u] = pc[u] /\ req'[u] = req[u] /\ loc'[u] = loc[u]
           /\ outcome'[u] = outcome[u]
  <1>1. pc'[u] = pc[u] /\ req'[u] = req[u] /\ loc'[u] = loc[u]
    BY OthersUnchanged DEF TypeInv
  <1>2. CASE EndRequest(t)
    BY <1>1, <1>2 DEF EndRequest, TypeInv, TypeOK
  <1>3. CASE ~EndRequest(t)
    BY <1>1, <1>3, ReadMoves, AppendMoves, CreateMoves, DeleteMoves DEF Step
  <1>4. QED
    BY <1>2, <1>3

LEMMA OpStep ==
    ASSUME TypeInv, \A t \in Thread : OpOK(t), [Next]_vars
    PROVE  \A t \in Thread : OpOK(t)'
  <1>1. ASSUME NEW t \in Thread, Step(t), NEW u \in Thread PROVE OpOK(u)'
    <2>1. CASE u = t
      BY <1>1, <2>1, OwnOp
    <2>2. CASE u # t
      BY <1>1, <2>2, OthersMove DEF OpOK
    <2>3. QED
      BY <2>1, <2>2
  <1>2. ASSUME NEW t \in Thread, NEW r \in Request, Accept(t, r), NEW u \in Thread
        PROVE  OpOK(u)'
    <2>1. CASE u # t
      BY <1>2, <2>1 DEF Accept, Goto, Return, TypeInv, TypeOK, OpOK
    <2>2. CASE u = t
      <3>1. r \in RequestType /\ req'[t] = r
        BY <1>2, RequestAssumption DEF Accept, TypeInv, TypeOK
      <3>2. r.op \in Op
        BY <3>1 DEF RequestType
      <3>3. \/ pc'[t] = "reply" /\ outcome'[t] = "invalid"
            \/ pc'[t] = FirstStep(r.op)
        BY <1>2, OwnMoves DEF Accept
      <3>4. QED
        BY <2>2, <3>1, <3>2, <3>3
           DEF OpOK, Op, FirstStep, ReadLabel, AppendLabel, CreateLabel, DeleteLabel
    <2>3. QED
      BY <2>1, <2>2
  <1>3. ASSUME Crash, NEW u \in Thread PROVE OpOK(u)'
    BY <1>3 DEF Crash, OpOK, ReadLabel, AppendLabel, CreateLabel, DeleteLabel
  <1>4. CASE UNCHANGED vars
    BY <1>4 DEF vars, OpOK
  <1>5. QED
    BY <1>1, <1>2, <1>3, <1>4 DEF Next, Quiet

-----------------------------------------------------------------------------
(* What a read learns.                                                     *)

LEMMA NothingKnown ==
    ASSUME NEW u, pc'[u] \notin CopyLabel \cup
             {"read_filelock", "read_inode", "read_block", "delete_free_table",
              "delete_dir_inode", "delete_entry"}
    PROVE  KnowsOK(u)'
  BY DEF KnowsOK, SeenOK, MineOK, ResultOK, WrittenOK, CopyLabel

LEMMA QuietView ==
    ASSUME UNCHANGED << disk, dir_inode >>
    PROVE  /\ Used' = Used /\ \A s : EntryAt(s)' = EntryAt(s)
           /\ FilesOnDisk' = FilesOnDisk
  <1>1. Used' = Used /\ \A s : EntryAt(s)' = EntryAt(s)
    BY DEF Used, Slots, EntryAt, TableAt
  <1>2. FilesOnDisk' = FilesOnDisk
    BY DEF FilesOnDisk, FileNamed, FileBytes, FileInode, FileSlots, FileEntry, DiskTable, Directory
  <1>3. QED
    BY <1>1, <1>2

LEMMA ReadFindKnows ==
    ASSUME ServingInv, NEW t \in Thread, ReadFind(t)
    PROVE  KnowsOK(t)'
  <1>1. TypeInv /\ UNCHANGED << disk, dir_inode >> /\ req' = req
    BY DEF ServingInv, ReadFind, memory
  <1>2. Used' = Used /\ \A s : EntryAt(s)' = EntryAt(s)
    BY <1>1, QuietView
  <1>3. CASE pc'[t] = "reply"
    BY <1>3, NothingKnown DEF CopyLabel
  <1>4. CASE pc'[t] # "reply"
    <2>1. PICK s \in Named(req[t].name) :
             /\ loc' = [loc EXCEPT ![t].inode_block = EntryAt(s).inode_block]
             /\ pc'[t] = "read_filelock"
      BY <1>1, <1>4, OwnMoves DEF ReadFind
    <2>2. s \in Used /\ EntryAt(s).name = req[t].name
      BY DEF Named, Used
    <2>3. loc'[t].inode_block = EntryAt(s).inode_block
      BY <1>1, <2>1, LocalTypes DEF Locals
    <2>4. QED
      BY <1>1, <1>2, <2>1, <2>2, <2>3 DEF KnowsOK, SeenOK, MineOK, ResultOK, WrittenOK, CopyLabel
  <1>5. QED
    BY <1>3, <1>4

LEMMA ReadFileLockKnows ==
    ASSUME ServingInv, NEW t \in Thread, ReadFileLock(t), KnowsOK(t)
    PROVE  KnowsOK(t)'
  <1>1. /\ TypeInv /\ UNCHANGED << disk, dir_inode >> /\ req' = req /\ loc' = loc
        /\ pc[t] = "read_filelock"
    BY DEF ServingInv, ReadFileLock, memory, At
  <1>2. pc'[t] = "read_inode"
    BY <1>1, OwnMoves DEF ReadFileLock
  <1>3. Used' = Used /\ \A s : EntryAt(s)' = EntryAt(s)
    BY <1>1, QuietView
  <1>4. QED
    BY <1>1, <1>2, <1>3 DEF KnowsOK, SeenOK, MineOK, ResultOK, WrittenOK, CopyLabel

LEMMA ReadInodeKnows ==
    ASSUME ServingInv, NEW t \in Thread, ReadInode(t), KnowsOK(t)
    PROVE  KnowsOK(t)'
  <1>1. /\ TypeInv /\ DirectoryInv /\ UNCHANGED << disk, dir_inode >> /\ req' = req
        /\ pc[t] = "read_inode"
    BY DEF ServingInv, ReadInode, memory, At
  <1>2. Used' = Used /\ \A s : EntryAt(s)' = EntryAt(s)
    BY <1>1, QuietView
  <1>3. CASE pc'[t] = "reply"
    BY <1>3, NothingKnown DEF CopyLabel
  <1>4. CASE pc'[t] # "reply"
    <2>1. /\ AsInode(disk[loc[t].inode_block]).owner = req[t].user
          /\ loc' = [loc EXCEPT ![t].inode = AsInode(disk[loc[t].inode_block])]
          /\ pc'[t] = "read_block"
      BY <1>1, <1>4, OwnMoves DEF ReadInode
    <2>2. PICK s \in Used : /\ EntryAt(s).name = req[t].name
                            /\ EntryAt(s).inode_block = loc[t].inode_block
      BY <1>1 DEF KnowsOK, SeenOK
    <2>3. AsInode(disk[loc[t].inode_block]) = disk[loc[t].inode_block]
      BY <1>1, <2>2 DEF DirectoryInv, FileOK, AsInode
    <2>4. /\ loc'[t].inode = disk[loc[t].inode_block]
          /\ loc'[t].inode_block = loc[t].inode_block
          /\ loc'[t].result = loc[t].result
      BY <1>1, <2>1, <2>3, LocalTypes DEF Locals
    <2>5. loc[t].result = << >>
      BY <1>1, LocalTypes DEF LocalOK, ReadOK, ReadLabel
    <2>6. SeenOK(t)'
      BY <1>1, <1>2, <2>1, <2>2, <2>4 DEF SeenOK
    <2>7. MineOK(t)'
      BY <1>1, <2>1, <2>3, <2>4 DEF MineOK
    <2>8. ResultOK(t)'
      BY <1>1, <2>4, <2>5 DEF ResultOK
    <2>9. WrittenOK(t)'
      BY <2>1 DEF WrittenOK
    <2>10. QED
      BY <2>6, <2>7, <2>8, <2>9 DEF KnowsOK
  <1>5. QED
    BY <1>3, <1>4

\* The bytes of a slice, and that it is not empty.
LEMMA SlicePlace ==
    ASSUME NEW bytes \in Bytes, NEW offset \in 0 .. BlockSize - 1, NEW n \in Nat, n > 0
    PROVE  /\ Slice(bytes, offset, n) \in Seq(Byte \cup {NoByte})
           /\ Len(Slice(bytes, offset, n)) \in 1 .. BlockSize - offset
           /\ Len(Slice(bytes, offset, n)) <= n
           /\ \A i \in 1 .. Len(Slice(bytes, offset, n)) :
                Slice(bytes, offset, n)[i] = bytes[offset + i]
  <1>1. PICK m : m = IF n <= BlockSize - offset THEN n ELSE BlockSize - offset
    OBVIOUS
  <1>2. m \in Nat /\ m \in 1 .. BlockSize - offset /\ m <= n
    BY <1>1, LayoutAssumption
  <1>3. Slice(bytes, offset, n) = [i \in 1 .. m |-> bytes[offset + i]]
    BY <1>1 DEF Slice
  <1>4. Slice(bytes, offset, n) \in Seq(Byte \cup {NoByte})
    BY SliceType
  <1>5. Len(Slice(bytes, offset, n)) = m
    BY <1>2, <1>3, <1>4
  <1>6. QED
    BY <1>2, <1>3, <1>4, <1>5

\* A result and the slice that is added to it.
LEMMA JoinedBytes ==
    ASSUME NEW S, NEW a \in Seq(S), NEW b \in Seq(S), NEW c, c = a \o b,
           NEW f, \A k \in 1 .. Len(a) : a[k] = f[k],
           \A i \in 1 .. Len(b) : b[i] = f[Len(a) + i]
    PROVE  /\ c \in Seq(S) /\ Len(c) = Len(a) + Len(b)
           /\ \A k \in 1 .. Len(c) : c[k] = f[k]
  <1>1. /\ c \in Seq(S) /\ Len(c) = Len(a) + Len(b) /\ Len(a) \in Nat /\ Len(b) \in Nat
        /\ \A k \in 1 .. Len(a) + Len(b) : c[k] = IF k <= Len(a) THEN a[k] ELSE b[k - Len(a)]
    OBVIOUS
  <1>2. ASSUME NEW k \in 1 .. Len(c) PROVE c[k] = f[k]
    <2>1. CASE k <= Len(a)
      BY <1>1, <2>1
    <2>2. CASE k > Len(a)
      <3>1. PICK i : i = k - Len(a)
        OBVIOUS
      <3>2. i \in 1 .. Len(b) /\ k = Len(a) + i /\ ~(k <= Len(a))
        BY <1>1, <2>2, <3>1
      <3>3. c[k] = b[i] /\ b[i] = f[Len(a) + i]
        BY <1>1, <3>1, <3>2
      <3>4. QED
        BY <3>2, <3>3
    <2>3. QED
      BY <1>1, <2>1, <2>2
  <1>3. QED
    BY <1>1, <1>2

LEMMA ReadBlockBytes ==
    ASSUME ServingInv, NEW t \in Thread, ReadBlock(t), KnowsOK(t)
    PROVE  /\ pc[t] = "read_block" /\ UNCHANGED << disk, dir_inode, req >>
           /\ loc'[t].inode_block = loc[t].inode_block
           /\ loc'[t].inode = loc[t].inode
           /\ loc'[t].result \in Seq(Byte \cup {NoByte})
           /\ Len(loc'[t].result) \in 1 .. req[t].size
           /\ pc'[t] = IF Len(loc'[t].result) = req[t].size THEN "read_unlock" ELSE "read_block"
           /\ \A k \in 1 .. Len(loc'[t].result) :
                loc'[t].result[k] = ByteAt(disk, loc[t].inode.blocks, req[t].offset + k)
  <1>a. PICK bs, off, size, res :
          /\ bs = loc[t].inode.blocks /\ off = req[t].offset
          /\ size = req[t].size /\ res = loc[t].result
    OBVIOUS
  <1>b. PICK n, at : n = size - Len(res) /\ at = off + Len(res)
    OBVIOUS
  <1>c. PICK block, piece, all :
          /\ block = bs[(at \div BlockSize) + 1]
          /\ piece = Slice(AsBytes(disk[block]), at % BlockSize, n)
          /\ all = res \o piece
    OBVIOUS
  <1>1. /\ TypeInv /\ DirectoryInv /\ pc[t] = "read_block" /\ UNCHANGED << disk, dir_inode, req >>
        /\ loc' = [loc EXCEPT ![t].result = all]
        /\ pc' = [pc EXCEPT ![t] = IF Len(all) = size THEN "read_unlock" ELSE "read_block"]
    BY <1>a, <1>b, <1>c DEF ServingInv, ReadBlock, memory, At, Goto
  <1>2. /\ loc'[t].inode_block = loc[t].inode_block
        /\ loc'[t].inode = loc[t].inode /\ loc'[t].result = all
        /\ pc'[t] = IF Len(all) = size THEN "read_unlock" ELSE "read_block"
    BY <1>1, LocalTypes DEF Locals, TypeInv, TypeOK
  <1>3. /\ res \in Seq(Byte \cup {NoByte}) /\ Len(res) \in Nat
        /\ off \in Nat /\ size \in Nat /\ Len(res) < size
    <2>1. req[t].offset \in Nat /\ req[t].size \in Nat
      BY <1>1 DEF TypeInv, LockInv, RequestType
    <2>2. /\ loc[t].result \in Seq(Byte \cup {NoByte}) /\ Len(loc[t].result) < req[t].size
      BY <1>1, LocalTypes DEF LocalOK, ReadOK
    <2>3. QED
      BY <1>a, <2>1, <2>2
  <1>4. at \in Nat /\ n \in Nat /\ n > 0
    BY <1>b, <1>3
  <1>5. at % BlockSize \in 0 .. BlockSize - 1
    BY <1>4, BlockDivision
  <1>6. (at \div BlockSize) + 1 \in 1 .. Len(bs) /\ block \in Block
    <2>1. PICK k : k = Len(res) + 1
      OBVIOUS
    <2>2. k \in Nat /\ k > 0 /\ k <= size
      BY <1>3, <2>1
    <2>3. (((off + k) - 1) \div BlockSize) + 1 \in 1 .. Len(bs)
      BY <1>a, <1>1, <2>2, ResultPlace
    <2>4. (off + k) - 1 = at
      BY <1>b, <1>3, <2>1
    <2>5. (at \div BlockSize) + 1 \in 1 .. Len(bs)
      BY <2>3, <2>4
    <2>6. bs \in Seq(Block)
      BY <1>a, <1>1, LocalTypes
    <2>7. block \in Block
      BY <1>c, <2>5, <2>6
    <2>8. QED
      BY <2>5, <2>7
  <1>7. AsBytes(disk[block]) \in Bytes
    BY <1>1, <1>6, ContentViews DEF TypeInv, TypeOK
  <1>8. /\ piece \in Seq(Byte \cup {NoByte})
        /\ Len(piece) \in 1 .. BlockSize - (at % BlockSize)
        /\ Len(piece) <= n
        /\ \A i \in 1 .. Len(piece) : piece[i] = AsBytes(disk[block])[(at % BlockSize) + i]
    BY <1>c, <1>4, <1>5, <1>7, SlicePlace
  <1>9. PICK f : f = [k \in Nat |-> ByteAt(disk, bs, off + k)]
    OBVIOUS
  <1>10. \A k \in Nat : f[k] = ByteAt(disk, bs, off + k)
    BY <1>9
  <1>11. \A k \in 1 .. Len(res) : res[k] = f[k]
    <2>1. \A k \in 1 .. Len(loc[t].result) :
            loc[t].result[k] = ByteAt(disk, loc[t].inode.blocks, req[t].offset + k)
      BY <1>1 DEF KnowsOK, ResultOK
    <2>2. \A k \in 1 .. Len(res) : k \in Nat /\ res[k] = ByteAt(disk, bs, off + k)
      BY <1>a, <1>3, <2>1
    <2>3. QED
      BY <1>10, <2>2
  <1>12. ASSUME NEW i \in 1 .. Len(piece) PROVE piece[i] = f[Len(res) + i]
    <2>1. i \in 1 .. BlockSize - (at % BlockSize)
      BY <1>5, <1>8, LayoutAssumption
    <2>2. /\ (at + i - 1) \div BlockSize = at \div BlockSize
          /\ ((at + i - 1) % BlockSize) + 1 = (at % BlockSize) + i
      BY <1>4, <2>1, SameBlock
    <2>3. PICK j : j = off + (Len(res) + i)
      OBVIOUS
    <2>4. i \in Nat /\ Len(res) + i \in Nat
      BY <1>3, <1>8
    <2>5. j - 1 = at + i - 1
      BY <1>b, <1>3, <2>3, <2>4
    <2>6. ByteAt(disk, bs, j) = AsBytes(disk[block])[(at % BlockSize) + i]
      BY <1>c, <2>2, <2>5 DEF ByteAt
    <2>7. QED
      BY <1>8, <1>10, <2>3, <2>4, <2>6
  <1>13. /\ all \in Seq(Byte \cup {NoByte}) /\ Len(all) = Len(res) + Len(piece)
         /\ \A k \in 1 .. Len(all) : all[k] = f[k]
    BY <1>c, <1>3, <1>8, <1>11, <1>12, JoinedBytes
  <1>14. Len(all) \in 1 .. size
    <2>1. Len(piece) \in Nat /\ Len(piece) > 0
      BY <1>8, <1>5, LayoutAssumption
    <2>2. QED
      BY <1>b, <1>3, <1>8, <1>13, <2>1
  <1>15. \A k \in 1 .. Len(all) : all[k] = ByteAt(disk, bs, off + k)
    BY <1>10, <1>13, <1>14
  <1>16. QED
    BY <1>a, <1>1, <1>2, <1>13, <1>14, <1>15

LEMMA ReadBlockKnows ==
    ASSUME ServingInv, NEW t \in Thread, ReadBlock(t), KnowsOK(t)
    PROVE  KnowsOK(t)'
  <1>1. /\ pc[t] = "read_block" /\ UNCHANGED << disk, dir_inode, req >>
        /\ loc'[t].inode_block = loc[t].inode_block
        /\ loc'[t].inode = loc[t].inode
        /\ pc'[t] \in {"read_unlock", "read_block"}
        /\ \A k \in 1 .. Len(loc'[t].result) :
             loc'[t].result[k] = ByteAt(disk, loc[t].inode.blocks, req[t].offset + k)
    BY ReadBlockBytes
  <1>2. Used' = Used /\ \A s : EntryAt(s)' = EntryAt(s)
    BY <1>1, QuietView
  <1>3. SeenOK(t)'
    BY <1>1, <1>2 DEF KnowsOK, SeenOK
  <1>4. MineOK(t)'
    BY <1>1 DEF KnowsOK, MineOK, CopyLabel
  <1>5. ResultOK(t)'
    BY <1>1 DEF KnowsOK, ResultOK
  <1>6. WrittenOK(t)'
    BY <1>1 DEF WrittenOK
  <1>7. QED
    BY <1>3, <1>4, <1>5, <1>6 DEF KnowsOK

LEMMA ReadKnows ==
    ASSUME ServingInv, NEW t \in Thread, ReadStep(t), KnowsOK(t)
    PROVE  KnowsOK(t)'
  <1>1. TypeInv
    BY DEF ServingInv
  <1>2. CASE ReadLock(t) \/ ReadUnlock(t)
    <2>1. pc'[t] \in {"read_find", "reply"}
      BY <1>1, <1>2, OwnMoves DEF ReadLock, ReadUnlock
    <2>2. QED
      BY <2>1, NothingKnown DEF CopyLabel
  <1>3. QED
    BY <1>2, ReadFindKnows, ReadFileLockKnows, ReadInodeKnows, ReadBlockKnows DEF ReadStep

-----------------------------------------------------------------------------
(* What an append writes.                                                  *)

\* What a block takes of the data, and what is left.
LEMMA RestPlace ==
    ASSUME NEW offset \in 0 .. BlockSize - 1, NEW d \in Seq(Byte), d # << >>
    PROVE  /\ Rest(offset, d) \in Seq(Byte)
           /\ \E v \in 1 .. Len(d) :
                /\ v <= BlockSize - offset
                /\ Len(Rest(offset, d)) = Len(d) - v
                /\ Rest(offset, d) # << >> => v = BlockSize - offset
                /\ \A k \in 1 .. Len(Rest(offset, d)) : Rest(offset, d)[k] = d[v + k]
  <1>0. PICK rest, v : rest = Rest(offset, d) /\ v = Len(d) - Len(rest)
    OBVIOUS
  <1>1. PICK room, n : room = BlockSize - offset /\ n = Len(d)
    OBVIOUS
  <1>2. room \in Nat /\ room > 0 /\ n \in Nat /\ n > 0
    BY <1>1, LayoutAssumption
  <1>3. /\ rest \in Seq(Byte)
        /\ n <= room => rest = << >>
        /\ n > room => Len(rest) = n - room
    BY <1>0, <1>1, RestLength
  <1>4. CASE n <= room
    <2>1. Len(rest) = 0 /\ rest = << >>
      BY <1>3, <1>4
    <2>2. QED
      BY <1>0, <1>1, <1>2, <1>3, <1>4, <2>1
  <1>5. CASE n > room
    <2>1. v = room /\ Len(rest) = n - room /\ Len(rest) > 0
      BY <1>0, <1>1, <1>2, <1>3, <1>5
    <2>2. rest = SubSeq(d, room + 1, n)
      BY <1>0, <1>1 DEF Rest
    <2>3. \A k \in 1 .. n - room : SubSeq(d, room + 1, n)[k] = d[room + k]
      <3>1. ASSUME NEW k \in 1 .. n - room PROVE SubSeq(d, room + 1, n)[k] = d[room + k]
        BY <1>1, <1>2, <1>5
      <3>2. QED
        BY <3>1
    <2>4. \A k \in 1 .. Len(rest) : rest[k] = d[v + k]
      BY <2>1, <2>2, <2>3
    <2>5. v \in 1 .. n /\ Len(rest) = n - v
      BY <1>2, <1>5, <2>1
    <2>6. v \in 1 .. Len(d) /\ v <= BlockSize - offset /\ v = BlockSize - offset
      BY <1>1, <1>2, <2>1, <2>5
    <2>7. Len(rest) = Len(d) - v
      BY <1>1, <2>5
    <2>8. QED
      BY <1>0, <1>3, <2>4, <2>6, <2>7
  <1>6. QED
    BY <1>2, <1>4, <1>5

\* The bytes of a block that was filled from offset on.
LEMMA OverlayPlace ==
    ASSUME NEW old \in Bytes, NEW offset \in 0 .. BlockSize - 1, NEW d \in Seq(Byte),
           NEW c, c = DataBlock(Overlay(old, offset, d))
    PROVE  /\ \A k \in 1 .. Len(d) : k <= BlockSize - offset => AsBytes(c)[offset + k] = d[k]
           /\ \A i \in 1 .. offset : AsBytes(c)[i] = old[i]
  <1>1. AsBytes(c) = [i \in 1 .. BlockSize |->
            IF offset < i /\ i <= offset + Len(d) THEN d[i - offset] ELSE old[i]]
    BY DEF AsBytes, DataBlock, Overlay
  <1>2. ASSUME NEW k \in 1 .. Len(d), k <= BlockSize - offset
        PROVE  AsBytes(c)[offset + k] = d[k]
    <2>1. PICK i : i = offset + k
      OBVIOUS
    <2>2. /\ i \in 1 .. BlockSize /\ offset < i /\ i <= offset + Len(d) /\ i - offset = k
      BY <1>2, <2>1, LayoutAssumption
    <2>3. QED
      BY <1>1, <2>1, <2>2
  <1>3. ASSUME NEW i \in 1 .. offset PROVE AsBytes(c)[i] = old[i]
    <2>1. i \in 1 .. BlockSize /\ ~(offset < i)
      BY LayoutAssumption
    <2>2. QED
      BY <1>1, <2>1
  <1>4. QED
    BY <1>2, <1>3

LEMMA AppendInodeKnows ==
    ASSUME StoreInv, up, NEW t \in Thread, AppendInode(t)
    PROVE  KnowsOK(t)'
  <1>1. TypeInv /\ req' = req
    BY DEF StoreInv, AppendInode
  <1>2. CASE pc'[t] = "reply"
    BY <1>2, NothingKnown DEF CopyLabel
  <1>3. CASE pc'[t] # "reply"
    <2>1. /\ AsInode(disk[loc[t].inode_block]).owner = req[t].user
          /\ loc' = [loc EXCEPT ![t].inode = AsInode(disk[loc[t].inode_block])]
          /\ pc'[t] = "append_alloc"
      BY <1>1, <1>3, OwnMoves DEF AppendInode
    <2>2. loc'[t].inode = AsInode(disk[loc[t].inode_block])
      BY <1>1, <2>1, LocalTypes DEF Locals
    <2>3. QED
      BY <1>1, <2>1, <2>2 DEF KnowsOK, SeenOK, MineOK, ResultOK, WrittenOK
  <1>4. QED
    BY <1>2, <1>3

LEMMA AppendAllocKnows ==
    ASSUME StoreInv, up, NEW t \in Thread, AppendAlloc(t), KnowsOK(t)
    PROVE  KnowsOK(t)'
  <1>1. TypeInv /\ req' = req /\ pc[t] = "append_alloc"
    BY DEF StoreInv, AppendAlloc, At
  <1>2. CASE pc'[t] = "reply"
    BY <1>2, NothingKnown DEF CopyLabel
  <1>3. CASE pc'[t] # "reply"
    <2>1. /\ \E bs : loc' = [loc EXCEPT ![t].tmp = bs]
          /\ pc'[t] \in {"append_data", "append_partial"}
      BY <1>1, <1>3, OwnMoves DEF AppendAlloc
    <2>2. loc'[t].inode = loc[t].inode /\ loc'[t].data = loc[t].data
      BY <1>1, <2>1, LocalTypes DEF Locals
    <2>3. loc[t].data = req[t].data /\ Len(req[t].data) \in Nat
      BY <1>1, LocalTypes DEF LocalOK, AppendOK
    <2>4. MineOK(t)'
      BY <1>1, <2>1, <2>2 DEF KnowsOK, MineOK, CopyLabel
    <2>5. WrittenOK(t)'
      <3>1. PICK d : d = req[t].data
        OBVIOUS
      <3>2. req'[t].data = d /\ loc'[t].data = d /\ Len(d) \in Nat
        BY <1>1, <2>2, <2>3, <3>1
      <3>3. Len(d) - Len(d) = 0 /\ \A k \in 1 .. Len(d) : 0 + k = k
        BY <3>2
      <3>4. QED
        BY <3>2, <3>3 DEF WrittenOK
    <2>6. QED
      BY <2>1, <2>4, <2>5 DEF KnowsOK, SeenOK, ResultOK
  <1>4. QED
    BY <1>2, <1>3

LEMMA AppendPartialKnows ==
    ASSUME StoreInv, up, NEW t \in Thread, AppendPartial(t), KnowsOK(t)
    PROVE  KnowsOK(t)'
  <1>a. PICK size, bs, d : /\ size = loc[t].inode.size /\ bs = loc[t].inode.blocks
                           /\ d = loc[t].data
    OBVIOUS
  <1>b. PICK q, over, rest : /\ q = size \div BlockSize /\ over = size % BlockSize
                             /\ rest = Rest(over, d)
    OBVIOUS
  <1>c. PICK b, c : b = bs[q + 1] /\ c = DataBlock(Overlay(AsBytes(disk[b]), over, d))
    OBVIOUS
  <1>1. /\ TypeInv /\ pc[t] = "append_partial" /\ req' = req
        /\ disk' = [disk EXCEPT ![b] = c]
        /\ loc' = [loc EXCEPT ![t].data = rest]
    BY <1>a, <1>b, <1>c DEF StoreInv, AppendPartial, At
  <1>2. pc'[t] \in {"append_data", "append_commit"}
    BY <1>1, OwnMoves DEF AppendPartial
  <1>3. /\ loc'[t].inode = loc[t].inode /\ loc'[t].data = rest
    BY <1>1, LocalTypes DEF Locals
  <1>4. d = req[t].data /\ d # << >> /\ d \in Seq(Byte) /\ bs \in Seq(Block)
    BY <1>a, <1>1, LocalTypes DEF LocalOK, AppendOK
  <1>5. /\ size \in Nat /\ over \in 1 .. BlockSize - 1 /\ q \in Nat /\ q + 1 = Len(bs)
    BY <1>a, <1>b, <1>1, PartialPlace
  <1>6. b \in Block /\ disk \in [Block -> Content]
    <2>1. q + 1 \in 1 .. Len(bs)
      BY <1>5
    <2>2. QED
      BY <1>c, <1>1, <1>4, <2>1 DEF TypeInv, TypeOK
  <1>7. disk'[b] = c /\ AsBytes(disk[b]) \in Bytes
    BY <1>1, <1>6, ContentViews
  <1>8. over \in 0 .. BlockSize - 1
    BY <1>5, LayoutAssumption
  <1>9. \A k \in 1 .. Len(d) : k <= BlockSize - over => AsBytes(c)[over + k] = d[k]
    BY <1>c, <1>4, <1>7, <1>8, OverlayPlace
  <1>10. PICK v \in 1 .. Len(d) :
            /\ v <= BlockSize - over
            /\ Len(Rest(over, d)) = Len(d) - v
            /\ Rest(over, d) # << >> => v = BlockSize - over
            /\ \A k \in 1 .. Len(Rest(over, d)) : Rest(over, d)[k] = d[v + k]
    BY <1>4, <1>8, RestPlace
  <1>11. /\ v \in Nat /\ v \in 1 .. Len(d) /\ v <= BlockSize - over /\ Len(d) - Len(rest) = v
         /\ \A k \in 1 .. Len(rest) : rest[k] = d[v + k]
    BY <1>b, <1>4, <1>10
  <1>12. ASSUME NEW k \in 1 .. v PROVE ByteAt(disk', bs, size + k) = d[k]
    <2>1. Len(d) \in Nat
      BY <1>4
    <2>2. k \in 1 .. Len(d) /\ k \in 1 .. BlockSize - over /\ k <= BlockSize - over
      BY <1>8, <1>11, <2>1, LayoutAssumption
    <2>3. /\ (size + k - 1) \div BlockSize = q
          /\ ((size + k - 1) % BlockSize) + 1 = over + k
      BY <1>b, <1>5, <2>2, SameBlock
    <2>4. PICK j : j = size + k
      OBVIOUS
    <2>5. j - 1 = size + k - 1
      BY <1>5, <2>2, <2>4
    <2>6. ByteAt(disk', bs, j) = AsBytes(c)[over + k]
      BY <1>c, <1>7, <2>3, <2>5 DEF ByteAt
    <2>7. QED
      BY <1>9, <2>2, <2>4, <2>6
  <1>13. MineOK(t)'
    BY <1>1, <1>2, <1>3 DEF KnowsOK, MineOK, CopyLabel
  <1>14. WrittenOK(t)'
    <2>1. v \in Nat
      BY <1>11
    <2>2. /\ Len(req'[t].data) - Len(loc'[t].data) = v
          /\ req'[t].data = d /\ loc'[t].data = rest
          /\ loc'[t].inode.blocks = bs /\ loc'[t].inode.size = size
      BY <1>a, <1>1, <1>3, <1>4, <1>11
    <2>3. QED
      BY <1>11, <1>12, <2>1, <2>2 DEF WrittenOK
  <1>15. QED
    BY <1>2, <1>13, <1>14 DEF KnowsOK, SeenOK, ResultOK

\* The block that an append takes next is not among those it linked.
LEMMA NextIsNew ==
    ASSUME StoreInv, up, NEW t \in Thread, pc[t] = "append_data",
           NEW k \in 1 .. Len(loc[t].inode.blocks)
    PROVE  loc[t].inode.blocks[k] # Head(loc[t].tmp)
  <1>a. PICK bs, tmp, more : /\ bs = loc[t].inode.blocks /\ tmp = loc[t].tmp
                             /\ more = Linked(loc[t].inode)
    OBVIOUS
  <1>1. /\ TypeInv /\ DirectoryInv /\ HandlerOK(t) /\ pc[t] \in CopyLabel
        /\ \E own \in [Block -> Owner] : Ownership(own)
    BY DEF StoreInv, RunningInv, CopyLabel
  <1>2. PICK own : Ownership(own)
    BY <1>1
  <1>3. /\ bs \in Seq(Block) /\ tmp \in Seq(Block) /\ more \in Seq(Block) /\ tmp # << >>
    <2>1. loc[t].inode \in Inode /\ Linked(loc[t].inode) \in Seq(Block)
      BY <1>1, LocalTypes, LinkedTypes
    <2>2. tmp \in Seq(Block) /\ bs \in Seq(Block) /\ Len(loc[t].tmp) = CeilDiv(Len(loc[t].data))
          /\ loc[t].data # << >> /\ loc[t].data \in Seq(Byte)
      BY <1>a, <1>1, LocalTypes DEF LocalOK, AppendOK
    <2>3. Len(loc[t].data) \in Nat \ {0}
      BY <2>2
    <2>4. Len(tmp) > 0
      BY <1>a, <2>2, <2>3, CeilDivSteps
    <2>5. QED
      BY <1>a, <2>1, <2>2, <2>4
  <1>4. HeldBlocks(t) = tmp \o more
    BY <1>a DEF HeldBlocks, Linked
  <1>5. PICK held : held = tmp \o more
    OBVIOUS
  <1>6. /\ Distinct(held) /\ \A i \in 1 .. Len(held) : own[held[i]] = HeldBy(t)
    BY <1>2, <1>4, <1>5 DEF Ownership, Owns
  <1>7. /\ Len(tmp) \in Nat /\ Len(tmp) > 0 /\ Len(more) \in Nat
        /\ Len(held) = Len(tmp) + Len(more) /\ held[1] = Head(tmp)
        /\ \A i \in 1 .. Len(more) : held[Len(tmp) + i] = more[i]
    BY <1>3, <1>5
  <1>8. own[Head(tmp)] = HeldBy(t)
    BY <1>6, <1>7
  <1>9. PICK old : old = disk[loc[t].inode_block].blocks
    OBVIOUS
  <1>10. old \in Seq(Block) /\ bs = old \o more
    BY <1>a, <1>1, <1>9, CopyFacts, CopySplits
  <1>11. CASE k <= Len(old)
    <2>1. k \in 1 .. Len(old) /\ bs[k] = old[k]
      BY <1>a, <1>3, <1>10, <1>11
    <2>2. PICK s \in Used : FileBlocks(s) = old
      BY <1>1, <1>9, CopyFacts
    <2>3. own[bs[k]] = FileOf(EntryAt(s).name)
      BY <1>2, <2>1, <2>2 DEF Ownership, FilesOwned, Owns
    <2>4. QED
      BY <1>a, <1>8, <2>3, OwnersDiffer
  <1>12. CASE k > Len(old)
    <2>1. PICK i : i = k - Len(old)
      OBVIOUS
    <2>2. i \in 1 .. Len(more) /\ bs[k] = more[i]
      BY <1>a, <1>3, <1>10, <1>12, <2>1
    <2>3. bs[k] = held[Len(tmp) + i] /\ Len(tmp) + i \in 1 .. Len(held) /\ Len(tmp) + i # 1
          /\ 1 \in 1 .. Len(held)
      BY <1>7, <2>2
    <2>4. QED
      BY <1>a, <1>6, <1>7, <2>3 DEF Distinct
  <1>13. QED
    BY <1>a, <1>3, <1>10, <1>11, <1>12

LEMMA AppendDataKnows ==
    ASSUME StoreInv, up, NEW t \in Thread, AppendData(t), KnowsOK(t)
    PROVE  KnowsOK(t)'
  <1>a. PICK size, bs, tmp, all, d : /\ size = loc[t].inode.size /\ bs = loc[t].inode.blocks
                                     /\ tmp = loc[t].tmp /\ d = loc[t].data
                                     /\ all = req[t].data
    OBVIOUS
  <1>b. PICK b, c, rest, more :
          /\ b = Head(tmp) /\ rest = Rest(0, d) /\ more = Append(bs, b)
          /\ c = DataBlock(Overlay(EmptyBytes, 0, d))
    OBVIOUS
  <1>1. /\ TypeInv /\ pc[t] = "append_data" /\ req' = req
        /\ disk' = [disk EXCEPT ![b] = c]
        /\ loc' = [loc EXCEPT ![t].data = rest, ![t].tmp = Tail(@),
                              ![t].inode.blocks = Append(@, b)]
    BY <1>a, <1>b DEF StoreInv, AppendData, At
  <1>2. pc'[t] \in {"append_data", "append_commit"}
    BY <1>1, OwnMoves DEF AppendData
  <1>3. /\ loc'[t].inode.owner = loc[t].inode.owner /\ loc'[t].inode.size = size
        /\ loc'[t].inode.blocks = more /\ loc'[t].data = rest
    BY <1>a, <1>b, <1>1, LocalTypes DEF Locals, Inode
  <1>4. /\ d # << >> /\ d \in Seq(Byte) /\ bs \in Seq(Block) /\ size \in Nat
        /\ all \in Seq(Byte)
        /\ BlockSize * Len(bs) + Len(d) = size + Len(all)
    <2>1. /\ loc[t].data # << >> /\ loc[t].data \in Seq(Byte)
          /\ loc[t].inode.blocks \in Seq(Block) /\ loc[t].inode.size \in Nat
          /\ BlockSize * Len(loc[t].inode.blocks) + Len(loc[t].data)
               = loc[t].inode.size + Len(req[t].data)
      BY <1>1, LocalTypes DEF LocalOK, AppendOK
    <2>2. req[t].data \in Seq(Byte)
      BY <1>1 DEF TypeInv, LockInv, RequestType
    <2>3. QED
      BY <1>a, <2>1, <2>2
  <1>5. b \in Block /\ disk \in [Block -> Content]
    <2>1. Head(loc[t].tmp) \in Block
      BY AppendDataMoves
    <2>2. QED
      BY <1>a, <1>b, <1>1, <2>1 DEF TypeInv, TypeOK
  <1>6. disk'[b] = c /\ \A a \in Block : a # b => disk'[a] = disk[a]
    BY <1>1, <1>5
  <1>7. 0 \in 0 .. BlockSize - 1 /\ EmptyBytes \in Bytes /\ BlockSize \in Nat
    BY LayoutAssumption, FreshTypes
  <1>8. \A k \in 1 .. Len(d) : k <= BlockSize => AsBytes(c)[k] = d[k]
    <2>1. PICK z, old : z = 0 /\ old = EmptyBytes
      OBVIOUS
    <2>2. z \in 0 .. BlockSize - 1 /\ old \in Bytes /\ c = DataBlock(Overlay(old, z, d))
      BY <1>b, <1>7, <2>1
    <2>3. \A k \in 1 .. Len(d) : k <= BlockSize - z => AsBytes(c)[z + k] = d[k]
      BY <1>4, <2>2, OverlayPlace
    <2>4. BlockSize - z = BlockSize /\ \A k \in 1 .. Len(d) : z + k = k
      BY <1>4, <1>7, <2>1
    <2>5. QED
      BY <2>3, <2>4
  <1>9. PICK v \in 1 .. Len(d) :
            /\ v <= BlockSize - 0
            /\ Len(Rest(0, d)) = Len(d) - v
            /\ Rest(0, d) # << >> => v = BlockSize - 0
            /\ \A k \in 1 .. Len(Rest(0, d)) : Rest(0, d)[k] = d[v + k]
    BY <1>4, <1>7, RestPlace
  <1>10. PICK w, full : w = Len(all) - Len(d) /\ full = BlockSize * Len(bs)
    OBVIOUS
  <1>11. /\ w \in Nat
         /\ \A k \in 1 .. Len(d) : d[k] = all[w + k]
         /\ \A k \in 1 .. w : ByteAt(disk, bs, size + k) = all[k]
    BY <1>a, <1>1, <1>10 DEF KnowsOK, WrittenOK
  <1>12. /\ full \in Nat /\ size + w = full /\ Len(bs) \in Nat /\ Len(d) \in Nat
         /\ v \in Nat /\ v <= BlockSize /\ v > 0 /\ v <= Len(d) /\ Len(all) \in Nat
         /\ Len(rest) = Len(d) - v
    <2>1. full \in Nat /\ Len(bs) \in Nat /\ Len(d) \in Nat /\ Len(all) \in Nat
      BY <1>4, <1>7, <1>10
    <2>2. full + Len(d) = size + Len(all)
      BY <1>4, <1>10
    <2>3. w = Len(all) - Len(d) /\ size \in Nat
      BY <1>4, <1>10
    <2>4. size + w = full
      BY <2>1, <2>2, <2>3
    <2>5. QED
      BY <1>b, <1>7, <1>9, <2>1, <2>4
  <1>13. \A k \in 1 .. Len(rest) : rest[k] = all[(w + v) + k]
    <2>1. ASSUME NEW k \in 1 .. Len(rest) PROVE rest[k] = all[(w + v) + k]
      <3>1. v + k \in 1 .. Len(d) /\ k \in 1 .. Len(rest)
        BY <1>12
      <3>2. rest[k] = d[v + k]
        BY <1>b, <1>9, <3>1
      <3>3. d[v + k] = all[w + (v + k)]
        BY <1>11, <3>1
      <3>4. w + (v + k) = (w + v) + k
        BY <1>11, <1>12, <3>1
      <3>5. QED
        BY <3>2, <3>3, <3>4
    <2>2. QED
      BY <2>1
  <1>14. ASSUME NEW k \in 1 .. w + v PROVE ByteAt(disk', more, size + k) = all[k]
    <2>1. /\ Len(more) = Len(bs) + 1 /\ more[Len(bs) + 1] = b
          /\ \A i \in 1 .. Len(bs) : more[i] = bs[i]
      BY <1>b, <1>4
    <2>2. CASE k <= w
      <3>1. k \in 1 .. w
        BY <1>11, <1>12, <2>2
      <3>2. PICK i : i = (((size + k) - 1) \div BlockSize) + 1
        OBVIOUS
      <3>3. i \in 1 .. Len(bs)
        <4>1. k \in 1 .. Len(req[t].data) - Len(loc[t].data)
          BY <1>a, <1>10, <3>1
        <4>2. (((loc[t].inode.size + k) - 1) \div BlockSize) + 1 \in 1 .. Len(loc[t].inode.blocks)
          BY <1>1, <4>1, WrittenPlace
        <4>3. QED
          BY <1>a, <3>2, <4>2
      <3>4. bs[i] # b /\ bs[i] \in Block
        BY <1>a, <1>b, <1>1, <1>4, <3>3, NextIsNew
      <3>5. disk'[more[i]] = disk[bs[i]]
        BY <1>6, <2>1, <3>3, <3>4
      <3>6. ByteAt(disk', more, size + k) = ByteAt(disk, bs, size + k)
        BY <3>2, <3>5 DEF ByteAt
      <3>7. QED
        BY <1>11, <3>1, <3>6
    <2>3. CASE k > w
      <3>1. PICK i : i = k - w
        OBVIOUS
      <3>2. i \in Nat /\ i \in 1 .. v /\ i \in 1 .. Len(d) /\ i <= BlockSize /\ i > 0 /\ k = w + i
        <4>1. w \in Nat /\ v \in Nat /\ k \in 1 .. w + v /\ Len(d) \in Nat
          BY <1>11, <1>12
        <4>2. i \in 1 .. v /\ k = w + i
          BY <2>3, <3>1, <4>1
        <4>3. QED
          BY <1>7, <1>12, <4>1, <4>2
      <3>3. PICK j, p : j = size + k /\ p = i - 1
        OBVIOUS
      <3>4. p \in 0 .. BlockSize - 1 /\ p + 1 = i
        BY <1>7, <3>2, <3>3
      <3>5. j - 1 = full + p
        BY <1>4, <1>11, <1>12, <3>2, <3>3
      <3>6. j - 1 \in Nat /\ j - 1 = BlockSize * Len(bs) + p
        BY <1>10, <1>12, <3>4, <3>5
      <3>7. Len(bs) = (j - 1) \div BlockSize /\ p = (j - 1) % BlockSize
        BY <1>12, <3>4, <3>6, BlockDivisionUnique
      <3>8. ((j - 1) \div BlockSize) + 1 = Len(bs) + 1 /\ ((j - 1) % BlockSize) + 1 = i
        BY <3>4, <3>7
      <3>9. ByteAt(disk', more, j) = AsBytes(c)[i]
        BY <1>6, <2>1, <3>8 DEF ByteAt
      <3>10. AsBytes(c)[i] = d[i] /\ d[i] = all[w + i]
        BY <1>8, <1>11, <3>2
      <3>11. QED
        BY <3>2, <3>3, <3>9, <3>10
    <2>4. QED
      BY <1>11, <1>12, <2>2, <2>3
  <1>15. MineOK(t)'
    BY <1>1, <1>2, <1>3 DEF KnowsOK, MineOK, CopyLabel
  <1>16. WrittenOK(t)'
    <2>1. Len(all) - Len(rest) = w + v /\ w + v \in Nat
      BY <1>10, <1>11, <1>12
    <2>2. /\ req'[t].data = all /\ loc'[t].data = rest
          /\ loc'[t].inode.blocks = more /\ loc'[t].inode.size = size
      BY <1>a, <1>1, <1>3
    <2>3. QED
      BY <1>13, <1>14, <2>1, <2>2 DEF WrittenOK
  <1>17. QED
    BY <1>2, <1>15, <1>16 DEF KnowsOK, SeenOK, ResultOK

LEMMA AppendKnows ==
    ASSUME StoreInv, up, NEW t \in Thread, AppendStep(t), KnowsOK(t)
    PROVE  KnowsOK(t)'
  <1>1. TypeInv
    BY DEF StoreInv
  <1>2. CASE \/ AppendRoom(t) \/ AppendLock(t) \/ AppendFind(t) \/ AppendFileLock(t)
             \/ AppendCommit(t) \/ AppendUnlock(t)
    <2>1. pc'[t] \in {"append_lock", "append_find", "append_filelock", "append_inode",
                      "append_unlock", "reply"}
      BY <1>1, <1>2, OwnMoves DEF AppendRoom, AppendLock, AppendFind, AppendFileLock,
                                  AppendCommit, AppendUnlock
    <2>2. QED
      BY <2>1, NothingKnown DEF CopyLabel
  <1>3. QED
    BY <1>2, AppendInodeKnows, AppendAllocKnows, AppendPartialKnows, AppendDataKnows
       DEF AppendStep

-----------------------------------------------------------------------------
(* What a delete knows, and that DataInv always holds.                     *)

LEMMA DeleteFindKnows ==
    ASSUME ServingInv, NEW t \in Thread, DeleteFind(t)
    PROVE  KnowsOK(t)'
  <1>1. TypeInv /\ req' = req
    BY DEF ServingInv, DeleteFind
  <1>2. CASE pc'[t] = "reply"
    BY <1>2, NothingKnown DEF CopyLabel
  <1>3. CASE pc'[t] # "reply"
    <2>1. PICK s : /\ s \in Named(req[t].name)
                   /\ AsInode(disk[EntryAt(s).inode_block]).owner = req[t].user
                   /\ loc' = [loc EXCEPT
                        ![t].slot = s, ![t].table = TableAt(s[1]),
                        ![t].inode_block = EntryAt(s).inode_block,
                        ![t].inode = AsInode(disk[EntryAt(s).inode_block])]
                   /\ pc'[t] \in {"delete_free_table", "delete_entry"}
      BY <1>1, <1>3, OwnMoves DEF DeleteFind
    <2>2. loc'[t].inode = AsInode(disk[EntryAt(s).inode_block]) /\ loc'[t].slot = s
      BY <1>1, <2>1, LocalTypes DEF Locals
    <2>3. MineOK(t)'
      BY <1>1, <2>1, <2>2 DEF MineOK
    <2>4. Used' = Used /\ EntryAt(s)' = EntryAt(s)
      BY QuietView DEF DeleteFind, memory
    <2>5. s \in Used /\ EntryAt(s).name = req[t].name
      BY <2>1 DEF Named, Used
    <2>6. loc'[t].slot \in Used' /\ EntryAt(s)'.name = req'[t].name
      BY <1>1, <2>2, <2>4, <2>5
    <2>7. SeenOK(t)'
      BY <2>1, <2>2, <2>6 DEF SeenOK
    <2>8. QED
      BY <2>1, <2>3, <2>7 DEF KnowsOK, ResultOK, WrittenOK
  <1>4. QED
    BY <1>2, <1>3

LEMMA DeleteKnows ==
    ASSUME ServingInv, NEW t \in Thread, DeleteStep(t), KnowsOK(t)
    PROVE  KnowsOK(t)'
  <1>1. TypeInv
    BY DEF ServingInv
  <1>2. CASE DeleteFreeTable(t)
    <2>1. /\ pc[t] = "delete_free_table" /\ pc'[t] = "delete_dir_inode"
          /\ loc' = loc /\ req' = req
      BY <1>1, <1>2, OwnMoves DEF DeleteFreeTable, At
    <2>2. Used' = Used /\ \A s : EntryAt(s)' = EntryAt(s)
      BY <1>2, QuietView DEF DeleteFreeTable
    <2>3. SeenOK(t)'
      BY <2>1, <2>2 DEF KnowsOK, SeenOK
    <2>4. QED
      BY <2>1, <2>3 DEF KnowsOK, MineOK, ResultOK, WrittenOK
  <1>3. CASE \/ DeleteLock(t) \/ DeleteDirInode(t) \/ DeleteEntry(t) \/ DeleteFree(t)
             \/ DeleteUnlock(t)
    <2>1. pc'[t] \in {"delete_find", "delete_free", "delete_unlock", "reply"}
      BY <1>1, <1>3, OwnMoves DEF DeleteLock, DeleteDirInode, DeleteEntry, DeleteFree,
                                  DeleteUnlock
    <2>2. QED
      BY <2>1, NothingKnown DEF CopyLabel
  <1>4. QED
    BY <1>2, <1>3, DeleteFindKnows DEF DeleteStep

LEMMA OwnKnows ==
    ASSUME StoreInv, up, NEW t \in Thread, Step(t), KnowsOK(t)
    PROVE  KnowsOK(t)'
  <1>1. TypeInv
    BY DEF StoreInv
  <1>2. CASE CreateStep(t)
    <2>1. pc'[t] \in CreateLabel \cup {"reply"}
      BY <1>1, <1>2, CreateMoves
    <2>2. QED
      BY <2>1, NothingKnown DEF CopyLabel, CreateLabel
  <1>3. CASE EndRequest(t)
    <2>1. pc'[t] = "done"
      BY <1>1, <1>3 DEF EndRequest, TypeInv, TypeOK
    <2>2. QED
      BY <2>1, NothingKnown DEF CopyLabel
  <1>4. CASE AppendStep(t)
    BY <1>4, AppendKnows
  <1>5. CASE ReadStep(t) \/ DeleteStep(t)
    BY <1>5, StoreServes, ReadKnows, DeleteKnows
  <1>6. QED
    BY <1>2, <1>3, <1>4, <1>5 DEF Step

LEMMA AcceptKnows ==
    ASSUME TypeInv, \A t \in Thread : KnowsOK(t),
           NEW t \in Thread, NEW r \in Request, Accept(t, r), NEW u \in Thread
    PROVE  KnowsOK(u)'
  <1>1. CASE u # t
    <2>1. /\ UNCHANGED << disk, dir_inode >>
          /\ pc'[u] = pc[u] /\ loc'[u] = loc[u] /\ req'[u] = req[u]
      BY <1>1 DEF Accept, Goto, Return, TypeInv, TypeOK, memory
    <2>2. QED
      BY <2>1, QuietOthers
  <1>2. CASE u = t
    <2>1. r.op \in Op
      BY RequestAssumption DEF RequestType
    <2>2. pc'[t] \in {"reply", "read_lock", "append_room", "create_reserve", "delete_lock"}
      BY <2>1, OwnMoves DEF Accept, FirstStep, Op
    <2>3. QED
      BY <1>2, <2>2, NothingKnown DEF CopyLabel
  <1>3. QED
    BY <1>1, <1>2

LEMMA DataInvInit == Init => DataInv
  BY DEF Init, DataInv, OpOK, KnowsOK, SeenOK, MineOK, ResultOK, WrittenOK, CopyLabel,
         ReadLabel, AppendLabel, CreateLabel, DeleteLabel

LEMMA DataInvStep ==
    ASSUME StoreInv, DataInv, [Next]_vars
    PROVE  DataInv'
  <1>1. TypeInv /\ (\A t \in Thread : OpOK(t)) /\ (up => \A t \in Thread : KnowsOK(t))
    BY DEF StoreInv, DataInv
  <1>2. \A t \in Thread : OpOK(t)'
    BY <1>1, OpStep
  <1>3. ASSUME NEW t \in Thread, Step(t), NEW u \in Thread PROVE KnowsOK(u)'
    <2>1. up
      BY <1>3, StepsRun
    <2>2. CASE u = t
      BY <1>1, <1>3, <2>1, <2>2, OwnKnows
    <2>3. CASE u # t
      BY <1>1, <1>3, <2>1, <2>3, OthersKnow
    <2>4. QED
      BY <2>2, <2>3
  <1>4. ASSUME NEW t \in Thread, NEW r \in Request, Accept(t, r), NEW u \in Thread
        PROVE  KnowsOK(u)'
    BY <1>1, <1>4, AcceptKnows DEF Accept
  <1>5. ASSUME UNCHANGED vars, up, NEW u \in Thread PROVE KnowsOK(u)'
    BY <1>1, <1>5, QuietOthers DEF vars
  <1>6. up' => \A u \in Thread : KnowsOK(u)'
    BY <1>3, <1>4, <1>5 DEF Next, Quiet, Crash, vars
  <1>7. QED
    BY <1>2, <1>6 DEF DataInv

-----------------------------------------------------------------------------
(* Steps that write and change no file.                                    *)

LEMMA HeldWriteFiles ==
    ASSUME StoreInv, up, StoreInv', up', NEW t \in Thread, t \in ReadingDir \cup WritingDir,
           pc[t] # "delete_dir_inode", UNCHANGED dir_inode,
           NEW b \in BlocksOf(HeldBlocks(t)), NEW c, disk' = [disk EXCEPT ![b] = c]
    PROVE  FilesOnDisk' = FilesOnDisk
  <1>1. /\ TypeInv /\ DirectoryInv /\ TypeInv' /\ DirectoryInv' /\ disk \in [Block -> Content]
    BY DEF StoreInv, RunningInv, TypeInv, TypeOK
  <1>2. Used' = Used /\ \A s \in Slots : EntryAt(s)' = EntryAt(s)
    BY HeldDirectory
  <1>3. ASSUME NEW s \in Used PROVE EntryAt(s)' = EntryAt(s) /\ FileAt(s)' = FileAt(s)
    <2>1. /\ s \in Slots /\ EntryAt(s).inode_block \in Block /\ FileBlocks(s) \in Seq(Block)
      BY <1>1, FileTypes
    <2>2. /\ EntryAt(s).inode_block # b
          /\ \A k \in 1 .. Len(FileBlocks(s)) : FileBlocks(s)[k] # b
      BY HeldApart
    <2>3. \A a \in Block : a # b => disk'[a] = disk[a]
      BY <1>1
    <2>4. QED
      BY <1>1, <1>2, <2>1, <2>2, <2>3, SameFile
  <1>4. QED
    BY <1>1, <1>2, <1>3, SameFiles

LEMMA CreateWritesFiles ==
    ASSUME StoreInv, up, StoreInv', up', NEW t \in Thread,
           CreateInode(t) \/ CreateNewInode(t) \/ CreateNewTable(t)
    PROVE  FilesOnDisk' = FilesOnDisk
  <1>1. PICK a, d : a = loc[t].free_b_1 /\ d = loc[t].free_b_2
    OBVIOUS
  <1>2. /\ pc[t] \in {"create_inode", "create_new_inode", "create_new_table"}
        /\ UNCHANGED dir_inode
    BY DEF CreateInode, CreateNewInode, CreateNewTable, At, memory
  <1>3. t \in WritingDir
    BY <1>2 DEF WritingDir, WritingDirLabel, CreateLabel
  <1>4. CASE CreateInode(t)
    <2>1. pc[t] = "create_inode" /\ \E c : disk' = [disk EXCEPT ![a] = c]
      BY <1>1, <1>4 DEF CreateInode, At
    <2>2. a \in BlocksOf(HeldBlocks(t))
      BY <1>1, <2>1, OneBlock DEF HeldBlocks
    <2>3. QED
      BY <1>2, <1>3, <2>1, <2>2, HeldWriteFiles
  <1>5. CASE CreateNewInode(t)
    <2>1. pc[t] = "create_new_inode" /\ \E c : disk' = [disk EXCEPT ![d] = c]
      BY <1>1, <1>5 DEF CreateNewInode, At
    <2>2. d \in BlocksOf(HeldBlocks(t))
      BY <1>1, <2>1, TwoBlocks DEF HeldBlocks
    <2>3. QED
      BY <1>2, <1>3, <2>1, <2>2, HeldWriteFiles
  <1>6. CASE CreateNewTable(t)
    <2>1. pc[t] = "create_new_table" /\ \E c : disk' = [disk EXCEPT ![a] = c]
      BY <1>1, <1>6 DEF CreateNewTable, At
    <2>2. a \in BlocksOf(HeldBlocks(t))
      BY <1>1, <2>1, TwoBlocks DEF HeldBlocks
    <2>3. QED
      BY <1>2, <1>3, <2>1, <2>2, HeldWriteFiles
  <1>7. QED
    BY <1>4, <1>5, <1>6

LEMMA AppendDataFiles ==
    ASSUME StoreInv, up, StoreInv', up', NEW t \in Thread, AppendData(t)
    PROVE  FilesOnDisk' = FilesOnDisk
  <1>1. PICK b, c :
             /\ b \in Block /\ b = Head(loc[t].tmp) /\ b \in BlocksOf(HeldBlocks(t))
             /\ disk' = [disk EXCEPT ![b] = c] /\ c.kind = "data"
             /\ pc'[t] \in {"append_data", "append_commit"}
             /\ loc[t].tmp \in Seq(Block) /\ loc[t].tmp # << >>
             /\ loc'[t].inode = [loc[t].inode EXCEPT !.blocks = Append(@, b)]
             /\ loc'[t].inode_block = loc[t].inode_block
             /\ Linked(loc[t].inode) \in Seq(Block)
             /\ HeldBlocks(t) = loc[t].tmp \o Linked(loc[t].inode)
             /\ HeldBlocks(t)' = Tail(loc[t].tmp) \o Append(Linked(loc[t].inode), b)
    BY AppendDataMoves
  <1>2. pc[t] = "append_data" /\ UNCHANGED dir_inode
    BY DEF AppendData, At, memory
  <1>3. t \in ReadingDir
    BY <1>2 DEF ReadingDir, ReadingDirLabel, AppendLabel
  <1>4. b \in BlocksOf(HeldBlocks(t)) /\ disk' = [disk EXCEPT ![b] = c]
    BY <1>1
  <1>5. QED
    BY <1>2, <1>3, <1>4, HeldWriteFiles

\* The last block of a file, filled from its end on: the bytes of the file
\* stay.
LEMMA PartialKeepsFile ==
    ASSUME StoreInv, up, NEW t \in Thread, AppendPartial(t),
           NEW s \in Used, EntryAt(s).name = req[t].name, EntryAt(s)' = EntryAt(s)
    PROVE  FileAt(s)' = FileAt(s)
  <1>a. PICK size, bs, d : /\ size = loc[t].inode.size /\ bs = loc[t].inode.blocks
                           /\ d = loc[t].data
    OBVIOUS
  <1>b. PICK q, over : q = size \div BlockSize /\ over = size % BlockSize
    OBVIOUS
  <1>c. PICK b, c : b = bs[q + 1] /\ c = DataBlock(Overlay(AsBytes(disk[b]), over, d))
    OBVIOUS
  <1>1. /\ TypeInv /\ DirectoryInv /\ pc[t] = "append_partial"
        /\ disk' = [disk EXCEPT ![b] = c] /\ disk \in [Block -> Content]
        /\ \E own \in [Block -> Owner] : Ownership(own)
    BY <1>a, <1>b, <1>c DEF StoreInv, RunningInv, AppendPartial, At, TypeInv, TypeOK
  <1>2. /\ size \in Nat /\ over \in 1 .. BlockSize - 1 /\ q \in Nat /\ q + 1 = Len(bs)
        /\ \E r \in Used :
             /\ EntryAt(r).name = req[t].name
             /\ disk[EntryAt(r).inode_block].size = size
             /\ Len(FileBlocks(r)) = q + 1
             /\ \A k \in 1 .. Len(FileBlocks(r)) : FileBlocks(r)[k] = bs[k]
    BY <1>a, <1>b, <1>1, PartialPlace
  <1>3. /\ disk[EntryAt(s).inode_block].size = size
        /\ Len(FileBlocks(s)) = q + 1
        /\ \A k \in 1 .. Len(FileBlocks(s)) : FileBlocks(s)[k] = bs[k]
    BY <1>1, <1>2 DEF DirectoryInv, NamesOK
  <1>4. PICK fs, i : fs = FileBlocks(s) /\ i = disk[EntryAt(s).inode_block]
    OBVIOUS
  <1>5. /\ fs \in Seq(Block) /\ Len(fs) = q + 1 /\ fs[q + 1] = b /\ i.size = size /\ i.blocks = fs
        /\ Distinct(fs)
    <2>1. Distinct(fs) /\ fs \in Seq(Block)
      BY <1>1, <1>4, FileTypes DEF Ownership, FilesOwned, Owns
    <2>2. q + 1 \in 1 .. q + 1
      BY <1>2
    <2>3. QED
      BY <1>3, <1>4, <1>c, <2>1, <2>2 DEF FileBlocks
  <1>6. b \in Block /\ q + 1 \in 1 .. Len(fs)
    BY <1>2, <1>5
  <1>7. disk'[b] = c /\ \A a \in Block : a # b => disk'[a] = disk[a]
    BY <1>1, <1>6
  <1>8. AsBytes(disk[b]) \in Bytes /\ over \in 0 .. BlockSize - 1 /\ d \in Seq(Byte)
    BY <1>a, <1>1, <1>2, <1>6, ContentViews, LocalTypes, LayoutAssumption
  <1>9. \A j \in 1 .. over : AsBytes(c)[j] = AsBytes(disk[b])[j]
    BY <1>c, <1>8, OverlayPlace
  <1>10. ASSUME NEW k \in 1 .. size PROVE ByteAt(disk', fs, k) = ByteAt(disk, fs, k)
    <2>1. PICK p : p = k - 1
      OBVIOUS
    <2>2. p \in Nat /\ p < size
      BY <1>2, <2>1
    <2>3. PICK j, r : j = p \div BlockSize /\ r = p % BlockSize
      OBVIOUS
    <2>4. /\ j \in Nat /\ r \in 0 .. BlockSize - 1 /\ p = BlockSize * j + r
      BY <2>2, <2>3, BlockDivision
    <2>5. j + 1 \in 1 .. Len(fs)
      <3>1. j + 1 \in 1 .. CeilDiv(size)
        BY <1>2, <2>2, <2>3, BlockOfByte
      <3>2. Len(fs) = CeilDiv(size)
        BY <1>1, <1>4, <1>5, FileTypes
      <3>3. QED
        BY <3>1, <3>2
    <2>6. CASE j # q
      <3>1. j + 1 # q + 1
        BY <1>2, <2>4, <2>6
      <3>2. fs[j + 1] # b /\ fs[j + 1] \in Block
        BY <1>5, <1>6, <2>5, <3>1 DEF Distinct
      <3>3. disk'[fs[j + 1]] = disk[fs[j + 1]]
        BY <1>7, <3>2
      <3>4. QED
        BY <2>1, <2>3, <3>3 DEF ByteAt
    <2>7. CASE j = q
      <3>1. PICK x : x = BlockSize * q
        OBVIOUS
      <3>2. size = x + over /\ x \in Nat
        BY <1>b, <1>2, <3>1, BlockDivision, LayoutAssumption
      <3>3. p = x + r
        BY <2>4, <2>7, <3>1
      <3>4. r + 1 \in 1 .. over
        BY <1>8, <2>2, <2>4, <3>2, <3>3
      <3>5. ByteAt(disk, fs, k) = AsBytes(disk[b])[r + 1]
        BY <1>5, <2>1, <2>3, <2>7 DEF ByteAt
      <3>6. ByteAt(disk', fs, k) = AsBytes(c)[r + 1]
        BY <1>5, <1>7, <2>1, <2>3, <2>7 DEF ByteAt
      <3>7. QED
        BY <1>9, <3>4, <3>5, <3>6
    <2>8. QED
      BY <2>6, <2>7
  <1>11. disk'[EntryAt(s).inode_block] = i
    BY <1>4, AppendPartialFrame
  <1>12. FileAt(s) = [owner |-> i.owner, data |-> [k \in 1 .. size |-> ByteAt(disk, fs, k)]]
    BY <1>4, <1>5 DEF FileAt
  <1>13. disk'[EntryAt(s)'.inode_block] = i
    BY <1>11
  <1>14. FileAt(s)' = [owner |-> i.owner, data |-> [k \in 1 .. size |-> ByteAt(disk', fs, k)]]
    BY <1>5, <1>13 DEF FileAt
  <1>15. QED
    BY <1>10, <1>12, <1>14

LEMMA AppendPartialFiles ==
    ASSUME StoreInv, up, StoreInv', up', NEW t \in Thread, AppendPartial(t)
    PROVE  FilesOnDisk' = FilesOnDisk
  <1>1. /\ TypeInv /\ DirectoryInv /\ TypeInv' /\ DirectoryInv'
        /\ \E own \in [Block -> Owner] : Ownership(own)
    BY DEF StoreInv, RunningInv
  <1>2. PICK own \in [Block -> Owner] : Ownership(own)
    BY <1>1
  <1>3. PICK n : n = req[t].name
    OBVIOUS
  <1>4. /\ t \in ReadingDir /\ pc[t] # "delete_dir_inode" /\ UNCHANGED dir_inode
        /\ \A b \in Block : own[b] \notin {HeldBy(t), FileOf(n)} => disk'[b] = disk[b]
    BY <1>2, <1>3, AppendWrites DEF AppendWrite
  <1>5. /\ Used' = Used /\ \A s \in Slots : EntryAt(s)' = EntryAt(s)
        /\ \A s \in Used : EntryAt(s).name # n => FileAt(s)' = FileAt(s)
    BY <1>2, <1>4, WritesApart
  <1>6. \A s \in Used : EntryAt(s)' = EntryAt(s)
    BY <1>5 DEF Used
  <1>7. \A s \in Used : EntryAt(s).name = n => FileAt(s)' = FileAt(s)
    BY <1>3, <1>6, PartialKeepsFile
  <1>8. QED
    BY <1>1, <1>5, <1>6, <1>7, SameFiles

-----------------------------------------------------------------------------
(* Steps at which a request takes effect.                                  *)

LEMMA JoinedFunction ==
    ASSUME NEW T, NEW f \in Seq(T), NEW d \in Seq(T), NEW g \in Seq(T),
           Len(g) = Len(f) + Len(d),
           \A k \in 1 .. Len(f) : g[k] = f[k],
           \A k \in 1 .. Len(d) : g[Len(f) + k] = d[k]
    PROVE  g = f \o d
  <1>1. PICK n : n = Len(f)
    OBVIOUS
  <1>2. n \in Nat /\ Len(d) \in Nat /\ g = [k \in 1 .. n + Len(d) |-> g[k]]
    BY <1>1
  <1>3. PICK h : h = f \o d
    OBVIOUS
  <1>4. h \in Seq(T) /\ Len(h) = n + Len(d)
    BY <1>1, <1>3, ConcatProperties
  <1>5. \A k \in 1 .. n + Len(d) : h[k] = g[k]
    <2>1. ASSUME NEW k \in 1 .. n + Len(d) PROVE h[k] = g[k]
      <3>1. CASE k <= n
        <4>1. k \in 1 .. Len(f) /\ k \in 1 .. Len(f) + Len(d)
          BY <1>1, <1>2, <3>1
        <4>2. h[k] = f[k]
          BY <1>1, <1>3, <3>1, <4>1, ConcatProperties
        <4>3. QED
          BY <4>1, <4>2
      <3>2. CASE k > n
        <4>1. PICK i : i = k - n
          OBVIOUS
        <4>2. i \in 1 .. Len(d) /\ k = n + i
          BY <1>2, <3>2, <4>1
        <4>3. h[k] = d[i]
          BY <1>1, <1>2, <1>3, <4>1, <4>2, <3>2, ConcatProperties
        <4>4. g[Len(f) + i] = d[i]
          BY <4>2
        <4>5. QED
          BY <1>1, <4>2, <4>3, <4>4
      <3>3. QED
        BY <1>2, <3>1, <3>2
    <2>2. QED
      BY <2>1
  <1>6. h = [k \in 1 .. n + Len(d) |-> h[k]]
    BY <1>4
  <1>7. QED
    BY <1>2, <1>3, <1>5, <1>6

\* The file of an append that commits: its data, all of it, after the bytes
\* that were there.
LEMMA CommitFile ==
    ASSUME StoreInv, up, NEW t \in Thread, AppendCommit(t), KnowsOK(t),
           NEW s \in Used, EntryAt(s).name = req[t].name, EntryAt(s)' = EntryAt(s)
    PROVE  /\ FileAt(s)' = [owner |-> FileAt(s).owner, data |-> FileAt(s).data \o req[t].data]
           /\ FileAt(s).owner = req[t].user
  <1>a. PICK b, size, bs, d, old : /\ b = loc[t].inode_block /\ size = loc[t].inode.size
                                   /\ bs = loc[t].inode.blocks /\ d = req[t].data
                                   /\ old = disk[b].blocks
    OBVIOUS
  <1>b. PICK n, i : n = Len(d) /\ i = [loc[t].inode EXCEPT !.size = @ + n]
    OBVIOUS
  <1>1. /\ TypeInv /\ DirectoryInv /\ HandlerOK(t) /\ pc[t] = "append_commit"
        /\ disk' = [disk EXCEPT ![b] = i] /\ disk \in [Block -> Content]
    BY <1>a, <1>b DEF StoreInv, RunningInv, AppendCommit, At, TypeInv, TypeOK
  <1>2. pc[t] \in CopyLabel
    BY <1>1 DEF CopyLabel
  <1>3. EntryAt(s).inode_block = b
    <2>1. PICK r \in Used : EntryAt(r).name = req[t].name /\ EntryAt(r).inode_block = b
      BY <1>a, <1>1, <1>2, CopyFacts
    <2>2. QED
      BY <1>1, <2>1 DEF DirectoryInv, NamesOK
  <1>4. /\ disk[b].size = size /\ disk[b].owner = loc[t].inode.owner
        /\ old \in Seq(Block) /\ Len(old) = CeilDiv(size)
        /\ Len(old) <= Len(bs) /\ \A k \in 1 .. Len(old) : bs[k] = old[k]
    BY <1>a, <1>1, <1>2, CopyFacts
  <1>5. /\ bs \in Seq(Block) /\ size \in Nat /\ loc[t].inode \in Inode /\ d \in Seq(Byte)
        /\ loc[t].data = << >> /\ loc[t].inode.owner = req[t].user
    <2>1. req[t].data \in Seq(Byte)
      BY <1>1 DEF TypeInv, LockInv, RequestType
    <2>2. loc[t].inode.owner = req[t].user
      BY <1>2 DEF KnowsOK, MineOK
    <2>3. loc[t].data = << >>
      BY <1>1, LocalTypes DEF LocalOK, AppendOK
    <2>4. QED
      BY <1>a, <1>1, <2>1, <2>2, <2>3, LocalTypes
  <1>6. i.owner = loc[t].inode.owner /\ i.size = size + n /\ i.blocks = bs /\ n \in Nat
    BY <1>a, <1>b, <1>5 DEF Inode
  <1>7. b \in Block /\ disk[b].kind = "inode"
    BY <1>1, <1>3, FileTypes DEF DirectoryInv, FileOK
  <1>8. disk'[b] = i /\ \A a \in Block : a # b => disk'[a] = disk[a]
    BY <1>1, <1>7
  <1>9. \A k \in 1 .. Len(bs) : bs[k] \in Block /\ disk[bs[k]].kind = "data"
    <2>1. \A k \in 1 .. Len(old) : disk[old[k]].kind = "data"
      BY <1>a, <1>1, <1>2, CopyFacts DEF FileOK
    <2>2. \A k \in 1 .. Len(bs) :
            IF k <= Len(old) THEN bs[k] = old[k] ELSE disk[bs[k]].kind = "data"
      BY <1>a, <1>1, <1>2 DEF HandlerOK, CopyOK
    <2>3. \A k \in 1 .. Len(bs) : k <= Len(old) => k \in 1 .. Len(old)
      BY <1>4
    <2>4. QED
      BY <1>5, <2>1, <2>2, <2>3
  <1>10. \A k \in 1 .. Len(bs) : disk'[bs[k]] = disk[bs[k]]
    BY <1>7, <1>8, <1>9
  <1>11. ASSUME NEW k \in 1 .. size PROVE ByteAt(disk', bs, k) = ByteAt(disk, old, k)
    <2>1. PICK j : j = ((k - 1) \div BlockSize) + 1
      OBVIOUS
    <2>2. j \in 1 .. Len(old)
      BY <1>4, <1>5, <2>1, BytePlace
    <2>3. j \in 1 .. Len(bs) /\ bs[j] = old[j]
      BY <1>4, <1>5, <2>2
    <2>4. QED
      BY <1>10, <2>1, <2>3 DEF ByteAt
  <1>12. /\ Len(d) - Len(loc[t].data) = n /\ Len(req[t].data) - Len(loc[t].data) = n
         /\ \A k \in 1 .. n : ByteAt(disk, bs, size + k) = d[k]
    <2>1. Len(d) - Len(loc[t].data) = n
      BY <1>b, <1>5, <1>6
    <2>2. QED
      BY <1>a, <1>1, <2>1 DEF KnowsOK, WrittenOK
  <1>13. ASSUME NEW k \in 1 .. n PROVE ByteAt(disk', bs, size + k) = d[k]
    <2>1. PICK j : j = (((size + k) - 1) \div BlockSize) + 1
      OBVIOUS
    <2>2. j \in 1 .. Len(bs)
      <3>1. k \in 1 .. Len(req[t].data) - Len(loc[t].data)
        BY <1>12
      <3>2. (((loc[t].inode.size + k) - 1) \div BlockSize) + 1 \in 1 .. Len(loc[t].inode.blocks)
        BY <1>1, <3>1, WrittenPlace
      <3>3. QED
        BY <1>a, <2>1, <3>2
    <2>3. disk'[bs[j]] = disk[bs[j]]
      BY <1>10, <2>2
    <2>4. QED
      BY <1>12, <2>1, <2>3 DEF ByteAt
  <1>14. PICK f, g : /\ f = [k \in 1 .. size |-> ByteAt(disk, old, k)]
                     /\ g = [k \in 1 .. size + n |-> ByteAt(disk', bs, k)]
    OBVIOUS
  <1>15. FileAt(s) = [owner |-> disk[b].owner, data |-> f]
    BY <1>a, <1>3, <1>4, <1>14 DEF FileAt
  <1>16. FileAt(s)' = [owner |-> i.owner, data |-> g]
    <2>1. disk'[EntryAt(s)'.inode_block] = i
      BY <1>3, <1>8
    <2>2. QED
      BY <1>6, <1>14, <2>1 DEF FileAt
  <1>17. g = f \o d
    <2>0. PICK T : T = Byte \cup {f[k] : k \in 1 .. size} \cup {g[k] : k \in 1 .. size + n}
      OBVIOUS
    <2>1. /\ f \in [1 .. size -> T] /\ g \in [1 .. size + Len(d) -> T] /\ d \in Seq(T)
      <3>1. f = [k \in 1 .. size |-> f[k]] /\ g = [k \in 1 .. size + n |-> g[k]]
        BY <1>14
      <3>2. /\ \A k \in 1 .. size : f[k] \in T
            /\ \A k \in 1 .. size + n : g[k] \in T
        BY <2>0
      <3>3. \A k \in 1 .. Len(d) : d[k] \in T
        BY <1>5, <2>0
      <3>4. d \in Seq(T)
        BY <1>5, <3>3
      <3>5. f \in [1 .. size -> T] /\ g \in [1 .. size + n -> T]
        BY <3>1, <3>2
      <3>6. QED
        BY <1>b, <3>4, <3>5
    <2>2. \A k \in 1 .. size : g[k] = f[k]
      BY <1>5, <1>6, <1>11, <1>14
    <2>3. \A k \in 1 .. Len(d) : g[size + k] = d[k]
      <3>1. ASSUME NEW k \in 1 .. n PROVE g[size + k] = d[k]
        <4>1. size + k \in 1 .. size + n
          BY <1>5, <1>6
        <4>2. QED
          BY <1>13, <1>14, <4>1
      <3>2. QED
        BY <1>b, <3>1
    <2>4. /\ f \in Seq(T) /\ Len(f) = size /\ d \in Seq(T)
          /\ g \in Seq(T) /\ Len(g) = size + Len(d)
      <3>1. \A m \in Nat : \A x \in [1 .. m -> T] : x \in Seq(T) /\ Len(x) = m
        OBVIOUS
      <3>2. size \in Nat /\ size + Len(d) \in Nat
        BY <1>5
      <3>3. QED
        BY <2>1, <3>1, <3>2
    <2>5. QED
      BY <2>2, <2>3, <2>4, JoinedFunction
  <1>18. FileAt(s).owner = disk[b].owner /\ FileAt(s).data = f
    BY <1>15
  <1>19. QED
    BY <1>a, <1>4, <1>5, <1>6, <1>16, <1>17, <1>18

\* A file with more bytes.
Longer(r, d) == [r EXCEPT !.data = @ \o d]

LEMMA LongerData ==
    ASSUME NEW o, NEW x, NEW d
    PROVE  Longer([owner |-> o, data |-> x], d) = [owner |-> o, data |-> x \o d]
  <1>1. PICK r : r = [owner |-> o, data |-> x]
    OBVIOUS
  <1>2. PICK e : e = Longer(r, d)
    OBVIOUS
  <1>3. e = [r EXCEPT !.data = r.data \o d]
    BY <1>2 DEF Longer
  <1>4. PICK y : y = r.data \o d
    OBVIOUS
  <1>5. PICK O, X : o \in O /\ x \in X /\ y \in X
    <2>1. PICK O, X : O = {o} /\ X = {x, y}
      OBVIOUS
    <2>2. o \in O /\ x \in X /\ y \in X
      BY <2>1
    <2>3. QED
      BY <2>2
  <1>6. r \in [owner : O, data : X]
    BY <1>1, <1>5
  <1>7. e = [r EXCEPT !.data = y]
    BY <1>3, <1>4
  <1>8. e \in [owner : O, data : X] /\ e.owner = o /\ e.data = y
    BY <1>1, <1>5, <1>6, <1>7
  <1>9. e = [owner |-> o, data |-> y]
    BY <1>8
  <1>10. y = x \o d
    BY <1>1, <1>4
  <1>11. QED
    BY <1>1, <1>2, <1>9, <1>10

\* The files after an append commits.
LEMMA CommitFiles ==
    ASSUME StoreInv, up, StoreInv', up', NEW t \in Thread, AppendCommit(t), KnowsOK(t),
           NEW v, IsView(v)
    PROVE  /\ req[t].name \in DOMAIN v /\ v[req[t].name].owner = req[t].user
           /\ FilesOnDisk' = [v EXCEPT ![req[t].name].data = @ \o req[t].data]
  <1>0. PICK n, d : n = req[t].name /\ d = req[t].data
    OBVIOUS
  <1>1. /\ TypeInv /\ DirectoryInv /\ TypeInv' /\ DirectoryInv' /\ HandlerOK(t)
        /\ AppendWrite(t) /\ pc[t] \in CopyLabel
        /\ \E own \in [Block -> Owner] : Ownership(own)
    BY DEF StoreInv, RunningInv, AppendWrite, AppendCommit, At, CopyLabel
  <1>2. PICK own \in [Block -> Owner] : Ownership(own)
    BY <1>1
  <1>3. /\ t \in ReadingDir /\ pc[t] # "delete_dir_inode" /\ UNCHANGED dir_inode
        /\ \A b \in Block : own[b] \notin {HeldBy(t), FileOf(n)} => disk'[b] = disk[b]
    BY <1>0, <1>1, <1>2, AppendWrites
  <1>4. /\ Used' = Used /\ \A r \in Slots : EntryAt(r)' = EntryAt(r)
        /\ \A r \in Used : EntryAt(r).name # n => FileAt(r)' = FileAt(r)
    BY <1>2, <1>3, WritesApart
  <1>5. PICK s \in Used : EntryAt(s).name = n
    BY <1>0, <1>1, CopyFacts
  <1>6. \A r \in Used : EntryAt(r)' = EntryAt(r)
    BY <1>4 DEF Used
  <1>7. /\ FileAt(s)' = [owner |-> FileAt(s).owner, data |-> FileAt(s).data \o d]
        /\ FileAt(s).owner = req[t].user
    BY <1>0, <1>5, <1>6, CommitFile
  <1>8. n \in DOMAIN v /\ v[n] = FileAt(s)
    BY <1>5 DEF IsView
  <1>9. PICK f : f = [v EXCEPT ![n].data = @ \o d]
    OBVIOUS
  <1>10. f[n] = FileAt(s)'
    <2>1. PICK o, x : o = FileAt(s).owner /\ x = FileAt(s).data
      OBVIOUS
    <2>2. v[n] = [owner |-> o, data |-> x]
      BY <1>8, <2>1 DEF FileAt
    <2>3. f[n] = Longer(v[n], d)
      BY <1>8, <1>9 DEF Longer
    <2>4. Longer([owner |-> o, data |-> x], d) = [owner |-> o, data |-> x \o d]
      BY LongerData
    <2>5. f[n] = [owner |-> o, data |-> x \o d]
      BY <2>2, <2>3, <2>4
    <2>6. QED
      BY <1>7, <2>1, <2>5
  <1>11. /\ f = [m \in DOMAIN f |-> f[m]] /\ DOMAIN f = DOMAIN v
         /\ \A m \in DOMAIN v : m # n => f[m] = v[m]
    BY <1>8, <1>9 DEF IsView
  <1>12. IsView(f)'
    <2>1. \A m \in DOMAIN f : \E r \in Used' : EntryAt(r)'.name = m
      <3>1. \A m \in DOMAIN v : \E r \in Used : EntryAt(r).name = m
        BY DEF IsView
      <3>2. QED
        BY <1>4, <1>6, <1>11, <3>1
    <2>2. ASSUME NEW r \in Used PROVE EntryAt(r).name \in DOMAIN f /\ f[EntryAt(r).name] = FileAt(r)'
      <3>1. EntryAt(r).name \in DOMAIN v /\ v[EntryAt(r).name] = FileAt(r)
        BY DEF IsView
      <3>2. CASE EntryAt(r).name = n
        <4>1. r = s
          BY <1>1, <1>5, <3>2 DEF DirectoryInv, NamesOK
        <4>2. QED
          BY <1>8, <1>10, <1>11, <3>2, <4>1
      <3>3. CASE EntryAt(r).name # n
        BY <1>4, <1>11, <3>1, <3>3
      <3>4. QED
        BY <3>2, <3>3
    <2>3. \A r \in Used' : EntryAt(r)'.name \in DOMAIN f /\ f[EntryAt(r)'.name] = FileAt(r)'
      BY <1>4, <1>6, <2>2
    <2>4. f = [m \in DOMAIN f |-> f[m]]
      BY <1>11
    <2>5. QED
      BY <2>1, <2>3, <2>4 DEF IsView
  <1>13. FilesOnDisk' = f
    BY <1>1, <1>12, NextViewIs
  <1>14. QED
    BY <1>0, <1>7, <1>8, <1>9, <1>13

\* A file stays, wherever its entry is, when only a table or the block of the
\* directory's inode is written.
LEMMA TableFile ==
    ASSUME TypeInv, DirectoryInv, NEW x \in Block, disk[x].kind \in {"table", "directory"},
           \A b \in Block \ {x} : disk'[b] = disk[b],
           NEW s \in Used, NEW r, EntryAt(r)' = EntryAt(s)
    PROVE  FileAt(r)' = FileAt(s)
  <1>1. PICK b, i : b = EntryAt(s).inode_block /\ i = disk[b]
    OBVIOUS
  <1>2. /\ i.size \in Nat /\ i.blocks \in Seq(Block) /\ Len(i.blocks) = CeilDiv(i.size)
        /\ b \in Block
    BY <1>1, FileTypes DEF FileBlocks, Inode
  <1>3. /\ i.kind = "inode"
        /\ \A k \in 1 .. Len(i.blocks) : disk[i.blocks[k]].kind = "data"
    BY <1>1 DEF DirectoryInv, FileOK
  <1>4. disk'[b] = i
    BY <1>1, <1>2, <1>3
  <1>5. ASSUME NEW k \in 1 .. i.size PROVE ByteAt(disk', i.blocks, k) = ByteAt(disk, i.blocks, k)
    <2>1. PICK j : j = ((k - 1) \div BlockSize) + 1
      OBVIOUS
    <2>2. j \in 1 .. Len(i.blocks)
      BY <1>2, <2>1, BytePlace
    <2>3. i.blocks[j] \in Block /\ i.blocks[j] # x
      BY <1>2, <1>3, <2>2
    <2>4. disk'[i.blocks[j]] = disk[i.blocks[j]]
      BY <2>3
    <2>5. QED
      BY <2>1, <2>4, ByteFrame
  <1>6. FileAt(s) = [owner |-> i.owner, data |-> [k \in 1 .. i.size |-> ByteAt(disk, i.blocks, k)]]
    BY <1>1 DEF FileAt
  <1>7. FileAt(r)' = [owner |-> i.owner, data |-> [k \in 1 .. i.size |-> ByteAt(disk', i.blocks, k)]]
    <2>1. EntryAt(r)'.inode_block = b
      BY <1>1
    <2>2. disk'[EntryAt(r)'.inode_block] = i
      BY <1>4, <2>1
    <2>3. QED
      BY <2>2 DEF FileAt
  <1>8. QED
    BY <1>5, <1>6, <1>7

\* An entry is added: so is its file.
LEMMA AddedFile ==
    ASSUME TypeInv, DirectoryInv, TypeInv', DirectoryInv', NEW v, IsView(v), NEW n, NEW x,
           \A s \in Used : EntryAt(s).name # n,
           \A s \in Used : s \in Used' /\ EntryAt(s)' = EntryAt(s) /\ FileAt(s)' = FileAt(s),
           NEW slot \in Used', EntryAt(slot)'.name = n, FileAt(slot)' = x,
           \A r \in Used' : r = slot \/ r \in Used
    PROVE  /\ n \notin DOMAIN v
           /\ FilesOnDisk' = [m \in DOMAIN v \cup {n} |-> IF m = n THEN x ELSE v[m]]
  <1>1. n \notin DOMAIN v
    BY DEF IsView
  <1>2. PICK f : f = [m \in DOMAIN v \cup {n} |-> IF m = n THEN x ELSE v[m]]
    OBVIOUS
  <1>3. /\ f = [m \in DOMAIN f |-> f[m]] /\ DOMAIN f = DOMAIN v \cup {n}
        /\ f[n] = x /\ \A m \in DOMAIN v : f[m] = v[m]
    BY <1>1, <1>2
  <1>4. \A m \in DOMAIN f : \E s \in Used' : EntryAt(s)'.name = m
    <2>1. \A m \in DOMAIN v : \E s \in Used' : EntryAt(s)'.name = m
      BY DEF IsView
    <2>2. QED
      BY <1>3, <2>1
  <1>5. ASSUME NEW s \in Used'
        PROVE  EntryAt(s)'.name \in DOMAIN f /\ f[EntryAt(s)'.name] = FileAt(s)'
    <2>1. CASE s = slot
      BY <1>3, <2>1
    <2>2. CASE s \in Used
      <3>1. EntryAt(s).name \in DOMAIN v /\ v[EntryAt(s).name] = FileAt(s)
        BY <2>2 DEF IsView
      <3>2. EntryAt(s)' = EntryAt(s) /\ FileAt(s)' = FileAt(s)
        BY <2>2
      <3>3. QED
        BY <1>3, <3>1, <3>2
    <2>3. QED
      BY <2>1, <2>2
  <1>6. f = [m \in DOMAIN f |-> f[m]]
    BY <1>3
  <1>7. IsView(f)'
    BY <1>4, <1>5, <1>6 DEF IsView
  <1>8. FilesOnDisk' = f
    BY <1>7, NextViewIs
  <1>9. QED
    BY <1>1, <1>2, <1>8

\* An entry is dropped, and others may move: its file is gone.
LEMMA DroppedFile ==
    ASSUME TypeInv, DirectoryInv, TypeInv', DirectoryInv', NEW v, IsView(v), NEW slot \in Used,
           \A s \in Used \ {slot} : \E r \in Used' : EntryAt(r)' = EntryAt(s),
           \A r \in Used' : \E s \in Used \ {slot} :
             EntryAt(r)' = EntryAt(s) /\ FileAt(r)' = FileAt(s)
    PROVE  /\ EntryAt(slot).name \in DOMAIN v /\ v[EntryAt(slot).name] = FileAt(slot)
           /\ FilesOnDisk' = [m \in DOMAIN v \ {EntryAt(slot).name} |-> v[m]]
  <1>1. PICK n : n = EntryAt(slot).name
    OBVIOUS
  <1>2. n \in DOMAIN v /\ v[n] = FileAt(slot)
    BY <1>1 DEF IsView
  <1>3. PICK f : f = [m \in DOMAIN v \ {n} |-> v[m]]
    OBVIOUS
  <1>4. /\ f = [m \in DOMAIN f |-> f[m]] /\ DOMAIN f = DOMAIN v \ {n}
        /\ \A m \in DOMAIN f : f[m] = v[m]
    BY <1>3
  <1>5. \A m \in DOMAIN f : \E r \in Used' : EntryAt(r)'.name = m
    <2>1. ASSUME NEW m \in DOMAIN f PROVE \E r \in Used' : EntryAt(r)'.name = m
      <3>1. m \in DOMAIN v /\ m # n
        BY <1>4
      <3>2. PICK s \in Used : EntryAt(s).name = m
        BY <3>1 DEF IsView
      <3>3. s \in Used \ {slot}
        BY <1>1, <3>1, <3>2
      <3>4. QED
        BY <3>2, <3>3
    <2>2. QED
      BY <2>1
  <1>6. ASSUME NEW r \in Used'
        PROVE  EntryAt(r)'.name \in DOMAIN f /\ f[EntryAt(r)'.name] = FileAt(r)'
    <2>1. PICK s \in Used \ {slot} : EntryAt(r)' = EntryAt(s) /\ FileAt(r)' = FileAt(s)
      OBVIOUS
    <2>2. EntryAt(s).name \in DOMAIN v /\ v[EntryAt(s).name] = FileAt(s)
      BY DEF IsView
    <2>3. EntryAt(s).name # n
      BY <1>1 DEF DirectoryInv, NamesOK
    <2>4. QED
      BY <1>4, <2>1, <2>2, <2>3
  <1>7. f = [m \in DOMAIN f |-> f[m]]
    BY <1>4
  <1>8. IsView(f)'
    BY <1>5, <1>6, <1>7 DEF IsView
  <1>9. FilesOnDisk' = f
    BY <1>8, NextViewIs
  <1>10. QED
    BY <1>1, <1>2, <1>3, <1>9

LEMMA EmptyFunction ==
    ASSUME NEW f, f = [k \in DOMAIN f |-> f[k]], DOMAIN f = {}
    PROVE  f = << >>
  <1>1. f \in Seq({}) /\ Len(f) = 0
    <2>1. DOMAIN f = 1 .. 0 /\ f \in [1 .. 0 -> {}]
      OBVIOUS
    <2>2. QED
      BY <2>1
  <1>2. QED
    BY <1>1

\* The file of an entry whose inode is new.
LEMMA EmptyFile ==
    ASSUME NEW s, NEW u, disk'[EntryAt(s)'.inode_block] = EmptyInode(u)
    PROVE  FileAt(s)' = [owner |-> u, data |-> << >>]
  <1>1. PICK i : i = EmptyInode(u)
    OBVIOUS
  <1>2. i.owner = u /\ i.size = 0
    BY <1>1 DEF EmptyInode
  <1>3. PICK f : f = [k \in 1 .. i.size |-> ByteAt(disk', i.blocks, k)]
    OBVIOUS
  <1>4. f = << >>
    <2>1. DOMAIN f = {} /\ f = [k \in DOMAIN f |-> f[k]]
      BY <1>2, <1>3
    <2>2. QED
      BY <2>1, EmptyFunction
  <1>5. disk'[EntryAt(s)'.inode_block] = i
    BY <1>1
  <1>6. FileAt(s)' = [owner |-> i.owner, data |-> f]
    BY <1>3, <1>5 DEF FileAt
  <1>7. QED
    BY <1>2, <1>4, <1>6

\* The files after the entry of a create is on disk.
LEMMA CreateEntryFiles ==
    ASSUME StoreInv, up, StoreInv', up', NEW t \in Thread, CreateEntry(t), NEW v, IsView(v)
    PROVE  /\ req[t].name \notin DOMAIN v
           /\ FilesOnDisk' = [m \in DOMAIN v \cup {req[t].name} |->
                                IF m = req[t].name
                                THEN [owner |-> req[t].user, data |-> << >>] ELSE v[m]]
  <1>0. PICK a, n, slot, table, k, j, tab, u :
          /\ a = loc[t].free_b_1 /\ n = req[t].name
          /\ slot = loc[t].slot /\ table = loc[t].table
          /\ k = slot[1] /\ j = slot[2]
          /\ tab = WithEntry(table, j, n, a) /\ u = req[t].user
    OBVIOUS
  <1>1. /\ TypeInv /\ RunningInv /\ Step(t) /\ pc[t] = "create_entry"
        /\ UNCHANGED << dir_inode, free_block >>
        /\ disk' = [disk EXCEPT ![dir_inode[k]] = TableBlock(tab)]
        /\ HandlerOK(t) /\ DirectoryInv /\ disk \in [Block -> Content]
    BY <1>0 DEF StoreInv, RunningInv, Step, CreateStep, CreateEntry, At, memory, TypeInv, TypeOK
  <1>2. HeldBlocks(t) = << a >> /\ TypeInv' /\ DirectoryInv' /\ t \in WritingDir
    BY <1>0, <1>1 DEF HeldBlocks, StoreInv, RunningInv, WritingDir, WritingDirLabel, CreateLabel
  <1>3. /\ slot \in Slots /\ slot \notin Used /\ table = TableAt(k)
        /\ \A s \in Used : EntryAt(s).name # n
        /\ disk[a] = EmptyInode(u)
    BY <1>0, <1>1 DEF HandlerOK, CreateOK, Used
  <1>4. k \in 1 .. Len(dir_inode) /\ j \in 1 .. DirEntries /\ slot = << k, j >>
    BY <1>0, <1>3 DEF Slots
  <1>5. /\ tab[j] = [name |-> n, inode_block |-> a]
        /\ \A i \in (1 .. DirEntries) \ {j} : tab[i] = TableAt(k)[i]
    BY <1>0, <1>1, <1>3, <1>4, LocalTypes DEF WithEntry, Table
  <1>6. a # 0 /\ a \in Block /\ a > 0
    <2>1. a \in BlocksOf(HeldBlocks(t))
      BY <1>2, OneBlock
    <2>2. a # 0 /\ a \in Block
      BY <1>1, <1>2, <2>1, HeldApart
    <2>3. QED
      BY <2>2 DEF Block
  <1>7. Distinct(dir_inode) /\ \A i \in 1 .. Len(dir_inode) : dir_inode[i] \in Block
    BY <1>1 DEF RunningInv, Ownership, DirectoryOwned, TypeInv, TypeOK
  <1>8. /\ disk'[dir_inode[k]] = TableBlock(tab)
        /\ \A x \in Block \ {dir_inode[k]} : disk'[x] = disk[x]
        /\ dir_inode[k] \in Block /\ disk[dir_inode[k]].kind = "table"
    BY <1>1, <1>4, <1>7 DEF DirectoryInv, TablesOK
  <1>9. /\ Slots' = Slots
        /\ EntryAt(<< k, j >>)' = tab[j]
        /\ \A s \in Slots \ {<< k, j >>} : EntryAt(s)' = EntryAt(s)
    BY <1>1, <1>4, <1>5, <1>7, <1>8, TableWrite
  <1>10. /\ slot \in Used' /\ EntryAt(slot)'.inode_block = a /\ EntryAt(slot)'.name = n
    <2>1. EntryAt(slot)' = tab[j]
      BY <1>4, <1>9
    <2>2. slot \in Used'
      BY <1>3, <1>5, <1>6, <1>9, <2>1 DEF Used
    <2>3. QED
      BY <1>5, <2>1, <2>2
  <1>11. ASSUME NEW s \in Used
         PROVE  s \in Used' /\ EntryAt(s)' = EntryAt(s) /\ FileAt(s)' = FileAt(s)
    <2>1. s \in Slots \ {<< k, j >>} /\ EntryAt(s).inode_block > 0
      BY <1>3, <1>4 DEF Used
    <2>2. EntryAt(s)' = EntryAt(s)
      BY <1>9, <2>1
    <2>3. s \in Used'
      BY <1>9, <2>1, <2>2 DEF Used
    <2>4. FileAt(s)' = FileAt(s)
      BY <1>1, <1>8, <2>2, TableFile
    <2>5. QED
      BY <2>2, <2>3, <2>4
  <1>12. \A r \in Used' : r = slot \/ r \in Used
    <2>1. ASSUME NEW r \in Used', r # slot PROVE r \in Used
      <3>1. r \in Slots \ {<< k, j >>} /\ EntryAt(r)'.inode_block > 0
        BY <1>4, <1>9, <2>1 DEF Used
      <3>2. QED
        BY <1>9, <3>1 DEF Used
    <2>2. QED
      BY <2>1
  <1>13. FileAt(slot)' = [owner |-> u, data |-> << >>]
    <2>1. a # dir_inode[k]
      BY <1>3, <1>8 DEF EmptyInode
    <2>2. disk'[EntryAt(slot)'.inode_block] = EmptyInode(u)
      BY <1>3, <1>6, <1>8, <1>10, <2>1
    <2>3. QED
      BY <2>2, EmptyFile
  <1>14. PICK x : x = [owner |-> u, data |-> << >>]
    OBVIOUS
  <1>15. FileAt(slot)' = x
    BY <1>13, <1>14
  <1>16. /\ n \notin DOMAIN v
         /\ FilesOnDisk' = [m \in DOMAIN v \cup {n} |-> IF m = n THEN x ELSE v[m]]
    BY <1>1, <1>2, <1>3, <1>10, <1>11, <1>12, <1>15, AddedFile
  <1>17. QED
    BY <1>0, <1>14, <1>16

\* The files after the block of the directory's inode has a new table.
LEMMA CreateDirInodeFiles ==
    ASSUME StoreInv, up, StoreInv', up', NEW t \in Thread, CreateDirInode(t), NEW v, IsView(v)
    PROVE  /\ req[t].name \notin DOMAIN v
           /\ FilesOnDisk' = [m \in DOMAIN v \cup {req[t].name} |->
                                IF m = req[t].name
                                THEN [owner |-> req[t].user, data |-> << >>] ELSE v[m]]
  <1>0. PICK a, d, n, m, tab, u :
          /\ a = loc[t].free_b_1 /\ d = loc[t].free_b_2
          /\ n = req[t].name /\ m = Len(dir_inode)
          /\ tab = WithEntry(EmptyTable, 1, n, d) /\ u = req[t].user
    OBVIOUS
  <1>1. /\ TypeInv /\ RunningInv /\ Step(t) /\ pc[t] = "create_dir_inode"
        /\ UNCHANGED free_block
        /\ dir_inode' = Append(dir_inode, a)
        /\ disk' = [disk EXCEPT ![0] = DirectoryBlock(dir_inode')]
        /\ HandlerOK(t) /\ DirectoryInv /\ disk \in [Block -> Content]
    BY <1>0 DEF StoreInv, RunningInv, Step, CreateStep, CreateDirInode, At, memory, TypeInv, TypeOK
  <1>2. HeldBlocks(t) = << a, d >> /\ TypeInv' /\ DirectoryInv' /\ t \in WritingDir
    BY <1>0, <1>1 DEF HeldBlocks, StoreInv, RunningInv, WritingDir, WritingDirLabel, CreateLabel
  <1>3. a \in Block /\ d \in Block /\ a # 0 /\ d # 0
    <2>1. a \in BlocksOf(HeldBlocks(t)) /\ d \in BlocksOf(HeldBlocks(t))
      BY <1>2, TwoBlocks
    <2>2. QED
      BY <1>1, <1>2, <2>1, HeldApart
  <1>4. /\ disk[a] = TableBlock(tab) /\ disk[d] = EmptyInode(u)
        /\ \A s \in Used : EntryAt(s).name # n
    BY <1>0, <1>1 DEF HandlerOK, CreateOK
  <1>5. \A x \in Block \ {0} : disk'[x] = disk[x]
    BY <1>1, ZeroIsBlock
  <1>6. \A i \in 1 .. Len(dir_inode) : dir_inode[i] # 0
    BY <1>1 DEF DirectoryInv, TablesOK, DirectoryBlock
  <1>7. /\ m \in Nat
        /\ \A s \in Slots : s \in Slots' /\ EntryAt(s)' = EntryAt(s)
        /\ \A s \in Slots' \ Slots :
             s[1] = m + 1 /\ s[2] \in 1 .. DirEntries /\ s = << s[1], s[2] >>
        /\ \A j \in 1 .. DirEntries :
             << m + 1, j >> \in Slots' \ Slots /\ EntryAt(<< m + 1, j >>)' = tab[j]
    BY <1>0, <1>1, <1>3, <1>4, <1>5, <1>6, TableAdded
  <1>8. /\ 1 \in 1 .. DirEntries /\ tab[1] = [name |-> n, inode_block |-> d] /\ d > 0
        /\ \A j \in (1 .. DirEntries) \ {1} : tab[j].inode_block = 0
    <2>1. d > 0
      BY <1>3 DEF Block
    <2>2. QED
      BY <1>0, <1>3, <2>1, NewTable
  <1>9. PICK slot : slot = << m + 1, 1 >>
    OBVIOUS
  <1>10. slot \in Used' /\ EntryAt(slot)'.inode_block = d /\ EntryAt(slot)'.name = n
    <2>1. slot \in Slots' /\ EntryAt(slot)' = tab[1]
      BY <1>7, <1>8, <1>9
    <2>2. QED
      BY <1>8, <2>1 DEF Used
  <1>11. ASSUME NEW s \in Used
         PROVE  s \in Used' /\ EntryAt(s)' = EntryAt(s) /\ FileAt(s)' = FileAt(s)
    <2>1. s \in Slots /\ EntryAt(s).inode_block > 0
      BY DEF Used
    <2>2. EntryAt(s)' = EntryAt(s) /\ s \in Slots'
      BY <1>7, <2>1
    <2>3. s \in Used'
      BY <2>1, <2>2 DEF Used
    <2>4. 0 \in Block /\ disk[0].kind = "directory"
      BY <1>1, ZeroIsBlock DEF DirectoryInv, DirectoryBlock
    <2>5. PICK z : z = 0
      OBVIOUS
    <2>6. /\ z \in Block /\ disk[z].kind \in {"table", "directory"}
          /\ \A x \in Block \ {z} : disk'[x] = disk[x]
      BY <1>5, <2>4, <2>5
    <2>7. FileAt(s)' = FileAt(s)
      BY <1>1, <2>2, <2>6, TableFile
    <2>8. QED
      BY <2>2, <2>3, <2>7
  <1>12. \A r \in Used' : r = slot \/ r \in Used
    <2>1. ASSUME NEW r \in Used' PROVE r = slot \/ r \in Used
      <3>1. r \in Slots' /\ EntryAt(r)'.inode_block > 0
        BY DEF Used
      <3>2. CASE r \in Slots
        BY <1>7, <3>1, <3>2 DEF Used
      <3>3. CASE r \notin Slots
        <4>1. PICK j \in 1 .. DirEntries : r = << m + 1, j >>
          BY <1>7, <3>1, <3>3
        <4>2. EntryAt(r)' = tab[j]
          BY <1>7, <4>1
        <4>3. j = 1
          BY <1>8, <3>1, <4>2
        <4>4. QED
          BY <1>9, <4>1, <4>3
      <3>4. QED
        BY <3>2, <3>3
    <2>2. QED
      BY <2>1
  <1>13. FileAt(slot)' = [owner |-> u, data |-> << >>]
    <2>1. disk'[EntryAt(slot)'.inode_block] = EmptyInode(u)
      BY <1>3, <1>4, <1>5, <1>10
    <2>2. QED
      BY <2>1, EmptyFile
  <1>14. PICK x : x = [owner |-> u, data |-> << >>]
    OBVIOUS
  <1>15. FileAt(slot)' = x
    BY <1>13, <1>14
  <1>16. /\ n \notin DOMAIN v
         /\ FilesOnDisk' = [l \in DOMAIN v \cup {n} |-> IF l = n THEN x ELSE v[l]]
    <2>1. TypeInv /\ DirectoryInv /\ TypeInv' /\ DirectoryInv'
      BY <1>1, <1>2
    <2>2. \A s \in Used : EntryAt(s).name # n
      BY <1>4
    <2>3. slot \in Used' /\ EntryAt(slot)'.name = n
      BY <1>10
    <2>4. QED
      BY <2>1, <2>2, <2>3, <1>11, <1>12, <1>15, AddedFile
  <1>17. QED
    BY <1>0, <1>14, <1>16

\* The file that a delete is about to drop is the one it was asked for.
LEMMA DeleteOwns ==
    ASSUME ServingInv, NEW t \in Thread, KnowsOK(t),
           pc[t] \in {"delete_dir_inode", "delete_entry"}
    PROVE  /\ loc[t].slot \in Used /\ EntryAt(loc[t].slot).name = req[t].name
           /\ FileAt(loc[t].slot).owner = req[t].user
  <1>1. HandlerOK(t)
    BY DEF ServingInv
  <1>2. loc[t].slot \in Used /\ EntryAt(loc[t].slot).name = req[t].name
    BY DEF KnowsOK, SeenOK
  <1>3. loc[t].inode = disk[EntryAt(loc[t].slot).inode_block]
    BY <1>1 DEF HandlerOK, DeleteOK
  <1>4. loc[t].inode.owner = req[t].user
    BY DEF KnowsOK, MineOK
  <1>5. QED
    BY <1>2, <1>3, <1>4 DEF FileAt

\* The files after the entry of a delete is dropped.
LEMMA DeleteEntryFiles ==
    ASSUME ServingInv, ServingInv', NEW t \in Thread, DeleteEntry(t), KnowsOK(t),
           NEW v, IsView(v)
    PROVE  /\ req[t].name \in DOMAIN v /\ v[req[t].name].owner = req[t].user
           /\ FilesOnDisk' = [m \in DOMAIN v \ {req[t].name} |-> v[m]]
  <1>0. PICK slot, table, k, j, tab :
          /\ slot = loc[t].slot /\ table = loc[t].table
          /\ k = slot[1] /\ j = slot[2]
          /\ tab = WithoutEntry(table, j)
    OBVIOUS
  <1>1. /\ TypeInv /\ Distinct(dir_inode) /\ pc[t] = "delete_entry"
        /\ UNCHANGED << dir_inode, free_block, loc >>
        /\ disk' = [disk EXCEPT ![dir_inode[k]] = TableBlock(tab)]
        /\ HandlerOK(t) /\ DirectoryInv /\ disk \in [Block -> Content]
    BY <1>0 DEF ServingInv, DeleteEntry, At, memory, TypeInv, TypeOK
  <1>2. TypeInv' /\ DirectoryInv'
    BY DEF ServingInv
  <1>3. slot \in Used /\ slot \in Slots /\ table = TableAt(k)
    BY <1>0, <1>1 DEF HandlerOK, DeleteOK, Used
  <1>4. k \in 1 .. Len(dir_inode) /\ j \in 1 .. DirEntries /\ slot = << k, j >>
    BY <1>0, <1>3 DEF Slots
  <1>5. /\ \A i \in (1 .. DirEntries) \ {j} : tab[i] = TableAt(k)[i]
        /\ tab[j].inode_block = 0
    <2>1. table \in Table
      BY <1>0, <1>1, LocalTypes
    <2>2. PICK e : e = table[j]
      OBVIOUS
    <2>3. e = [name |-> e.name, inode_block |-> e.inode_block]
      BY <1>4, <2>1, <2>2 DEF Table, Entry
    <2>4. tab[j] = [e EXCEPT !.inode_block = 0]
      BY <1>0, <1>4, <2>1, <2>2 DEF WithoutEntry, Table
    <2>5. tab[j].inode_block = 0
      BY <2>3, <2>4
    <2>6. \A i \in (1 .. DirEntries) \ {j} : tab[i] = TableAt(k)[i]
      BY <1>0, <1>3, <1>4, <2>1 DEF WithoutEntry, Table
    <2>7. QED
      BY <2>5, <2>6
  <1>6. Distinct(dir_inode) /\ \A i \in 1 .. Len(dir_inode) : dir_inode[i] \in Block
    BY <1>1 DEF TypeInv, TypeOK
  <1>7. /\ disk'[dir_inode[k]] = TableBlock(tab)
        /\ \A x \in Block \ {dir_inode[k]} : disk'[x] = disk[x]
        /\ dir_inode[k] \in Block /\ disk[dir_inode[k]].kind = "table"
    BY <1>1, <1>4, <1>6 DEF DirectoryInv, TablesOK
  <1>8. /\ Slots' = Slots /\ EntryAt(<< k, j >>)' = tab[j]
        /\ \A s \in Slots \ {<< k, j >>} : EntryAt(s)' = EntryAt(s)
    BY <1>1, <1>4, <1>5, <1>6, <1>7, TableWrite
  <1>9. ASSUME NEW s \in Used \ {slot}
        PROVE  s \in Used' /\ EntryAt(s)' = EntryAt(s) /\ FileAt(s)' = FileAt(s)
    <2>1. s \in Slots \ {<< k, j >>} /\ EntryAt(s).inode_block > 0
      BY <1>4 DEF Used
    <2>2. EntryAt(s)' = EntryAt(s)
      BY <1>8, <2>1
    <2>3. s \in Used'
      BY <1>8, <2>1, <2>2 DEF Used
    <2>4. FileAt(s)' = FileAt(s)
      BY <1>1, <1>7, <2>2, TableFile
    <2>5. QED
      BY <2>2, <2>3, <2>4
  <1>10. ASSUME NEW r \in Used' PROVE r \in Used \ {slot}
    <2>1. r \in Slots /\ EntryAt(r)'.inode_block > 0
      BY <1>8 DEF Used
    <2>2. r # slot
      BY <1>4, <1>5, <1>8, <2>1
    <2>3. EntryAt(r)' = EntryAt(r)
      BY <1>4, <1>8, <2>1, <2>2
    <2>4. QED
      BY <2>1, <2>2, <2>3 DEF Used
  <1>11. EntryAt(slot).name = req[t].name /\ FileAt(slot).owner = req[t].user
    BY <1>0, <1>1, DeleteOwns
  <1>12. /\ EntryAt(slot).name \in DOMAIN v /\ v[EntryAt(slot).name] = FileAt(slot)
         /\ FilesOnDisk' = [m \in DOMAIN v \ {EntryAt(slot).name} |-> v[m]]
    <2>1. /\ \A s \in Used \ {slot} : \E r \in Used' : EntryAt(r)' = EntryAt(s)
          /\ \A r \in Used' : \E s \in Used \ {slot} :
               EntryAt(r)' = EntryAt(s) /\ FileAt(r)' = FileAt(s)
      BY <1>9, <1>10
    <2>2. TypeInv /\ DirectoryInv
      BY <1>1
    <2>3. QED
      BY <1>2, <1>3, <2>1, <2>2, DroppedFile
  <1>13. QED
    BY <1>11, <1>12

\* The files after the block of the directory's inode drops a table.
LEMMA DeleteDirInodeFiles ==
    ASSUME ServingInv, ServingInv', NEW t \in Thread, DeleteDirInode(t), KnowsOK(t),
           NEW v, IsView(v)
    PROVE  /\ req[t].name \in DOMAIN v /\ v[req[t].name].owner = req[t].user
           /\ FilesOnDisk' = [m \in DOMAIN v \ {req[t].name} |-> v[m]]
  <1>0. PICK slot, k, z : slot = loc[t].slot /\ k = slot[1] /\ z = 0
    OBVIOUS
  <1>1. /\ TypeInv /\ Distinct(dir_inode) /\ pc[t] = "delete_dir_inode"
        /\ dir_inode' = DropAt(dir_inode, k)
        /\ disk' = [disk EXCEPT ![0] = DirectoryBlock(dir_inode')]
        /\ HandlerOK(t) /\ DirectoryInv
        /\ disk \in [Block -> Content] /\ dir_inode \in Seq(Block)
    BY <1>0 DEF ServingInv, DeleteDirInode, At, TypeInv, TypeOK
  <1>2. TypeInv' /\ DirectoryInv'
    BY DEF ServingInv
  <1>3. /\ slot \in Used /\ slot \in Slots /\ UsedEntries(TableAt(k)) = {slot[2]}
    BY <1>0, <1>1 DEF HandlerOK, DeleteOK, Used
  <1>4. /\ k \in 1 .. Len(dir_inode) /\ slot = << k, slot[2] >>
        /\ Len(dir_inode) \in Nat /\ Len(dir_inode') = Len(dir_inode) - 1
    BY <1>0, <1>1, <1>3, DropAtType DEF Slots
  <1>5. /\ z \in Block /\ disk[z].kind \in {"table", "directory"}
        /\ \A x \in Block \ {z} : disk'[x] = disk[x]
    BY <1>0, <1>1, ZeroIsBlock DEF DirectoryInv, DirectoryBlock
  <1>6. \A s \in Slots' : /\ OldSlot(s, k) \in Slots
                          /\ OldSlot(s, k)[1] # k
                          /\ EntryAt(s)' = EntryAt(OldSlot(s, k))
    <2>1. \A i \in (1 .. Len(dir_inode)) \ {k} : dir_inode[i] # 0
      BY <1>1 DEF DirectoryInv, TablesOK, DirectoryBlock
    <2>2. \A x \in Block \ {0} : disk'[x] = disk[x]
      BY <1>0, <1>5
    <2>3. QED
      BY <1>1, <1>4, <2>1, <2>2, TableDropped
  <1>7. ASSUME NEW s \in Used \ {slot} PROVE \E r \in Used' : EntryAt(r)' = EntryAt(s)
    <2>1. /\ s[1] \in 1 .. Len(dir_inode) /\ s[2] \in 1 .. DirEntries
          /\ s = << s[1], s[2] >> /\ EntryAt(s).inode_block > 0
      BY DEF Used, Slots
    <2>2. s[1] # k
      <3>1. s[1] = k => s[2] \in UsedEntries(TableAt(k))
        BY <2>1 DEF UsedEntries, EntryAt
      <3>2. QED
        BY <1>3, <1>4, <2>1, <3>1
    <2>3. PICK j \in 1 .. Len(dir_inode) - 1 : Old(j, k) = s[1]
      BY <1>4, <2>1, <2>2, OldReached
    <2>4. PICK r : r = << j, s[2] >>
      OBVIOUS
    <2>5. r \in Slots' /\ OldSlot(r, k) = s
      BY <1>4, <2>1, <2>3, <2>4 DEF Slots, OldSlot
    <2>6. EntryAt(r)' = EntryAt(s)
      BY <1>6, <2>5
    <2>7. QED
      BY <2>1, <2>5, <2>6 DEF Used
  <1>8. ASSUME NEW r \in Used'
        PROVE  \E s \in Used \ {slot} : EntryAt(r)' = EntryAt(s) /\ FileAt(r)' = FileAt(s)
    <2>1. PICK s : s = OldSlot(r, k)
      OBVIOUS
    <2>2. r \in Slots' /\ EntryAt(r)'.inode_block > 0
      BY DEF Used
    <2>3. s \in Slots /\ s[1] # k /\ EntryAt(r)' = EntryAt(s)
      BY <1>6, <2>1, <2>2
    <2>4. s \in Used \ {slot}
      BY <1>0, <2>2, <2>3 DEF Used
    <2>5. FileAt(r)' = FileAt(s)
      BY <1>1, <1>5, <2>3, <2>4, TableFile
    <2>6. QED
      BY <2>3, <2>4, <2>5
  <1>9. EntryAt(slot).name = req[t].name /\ FileAt(slot).owner = req[t].user
    BY <1>0, <1>1, DeleteOwns
  <1>10. /\ EntryAt(slot).name \in DOMAIN v /\ v[EntryAt(slot).name] = FileAt(slot)
         /\ FilesOnDisk' = [m \in DOMAIN v \ {EntryAt(slot).name} |-> v[m]]
    <2>1. TypeInv /\ DirectoryInv
      BY <1>1
    <2>2. QED
      BY <1>2, <1>3, <1>7, <1>8, <2>1, DroppedFile
  <1>11. QED
    BY <1>9, <1>10

-----------------------------------------------------------------------------
(* What the store sees of a thread.                                        *)

LEMMA PendingView ==
    ASSUME NEW t, pc[t] \in ReadLabel \cup AppendLabel \cup CreateLabel \cup DeleteLabel,
           pc[t] \notin TookEffect
    PROVE  PhaseOf(t) = "pending" /\ AnswerOf(t) = << >>
  <1>1. PhaseOf(t) = "pending"
    BY DEF PhaseOf, ReadLabel, AppendLabel, CreateLabel, DeleteLabel
  <1>2. QED
    BY <1>1 DEF AnswerOf

LEMMA EffectView ==
    ASSUME NEW t, pc[t] \in TookEffect
    PROVE  /\ PhaseOf(t) = "ok"
           /\ AnswerOf(t) = IF req[t].op = "read" THEN loc[t].result ELSE << >>
  <1>1. PhaseOf(t) = "ok"
    BY DEF PhaseOf, TookEffect
  <1>2. QED
    BY <1>1 DEF AnswerOf

LEMMA ReplyView ==
    ASSUME NEW t, pc[t] = "reply"
    PROVE  /\ PhaseOf(t) = outcome[t]
           /\ AnswerOf(t) = IF req[t].op = "read" /\ outcome[t] = "ok"
                            THEN loc[t].result ELSE << >>
  <1>1. PhaseOf(t) = outcome[t]
    BY DEF PhaseOf, TookEffect
  <1>2. QED
    BY <1>1 DEF AnswerOf

LEMMA OthersView ==
    ASSUME TypeInv, NEW t \in Thread, Step(t), NEW u \in Thread \ {t}
    PROVE  PhaseOf(u)' = PhaseOf(u) /\ AnswerOf(u)' = AnswerOf(u) /\ req'[u] = req[u]
  <1>1. pc'[u] = pc[u] /\ req'[u] = req[u] /\ loc'[u] = loc[u] /\ outcome'[u] = outcome[u]
    BY OthersMove
  <1>2. PhaseOf(u)' = PhaseOf(u)
    BY <1>1 DEF PhaseOf
  <1>3. QED
    BY <1>1, <1>2 DEF AnswerOf

LEMMA StoreStutter ==
    ASSUME TypeInv, NEW t \in Thread, Step(t), req' = req, FilesOnDisk' = FilesOnDisk,
           PhaseOf(t)' = PhaseOf(t), AnswerOf(t)' = AnswerOf(t)
    PROVE  UNCHANGED Store!storeVars
  <1>1. \A u \in Thread : PhaseOf(u)' = PhaseOf(u) /\ AnswerOf(u)' = AnswerOf(u)
    BY OthersView
  <1>2. QED
    BY <1>1 DEF Store!storeVars

LEMMA StoreDone ==
    ASSUME TypeInv, NEW t \in Thread, Step(t), req' = req, NEW why, PhaseOf(t)' = why
    PROVE  Store!Done(t, why)
  <1>1. \A u \in Thread \ {t} : PhaseOf(u)' = PhaseOf(u)
    BY OthersView
  <1>2. QED
    BY <1>1 DEF Store!Done

\* A refusal, for a reason the store allows.
LEMMA StoreRefuses ==
    ASSUME TypeInv, NEW t \in Thread, Step(t), req' = req, FilesOnDisk' = FilesOnDisk,
           PhaseOf(t) = "pending",
           NEW why \in {"no_file", "not_owner", "out_of_range", "no_space", "exists",
                        "no_inode_space", "no_dir_space"},
           PhaseOf(t)' = why, Store!MayRefuse(t, why)
    PROVE  Store!Refuse(t)
  <1>1. AnswerOf(t) = << >> /\ AnswerOf(t)' = << >>
    BY DEF AnswerOf
  <1>2. \A u \in Thread : AnswerOf(u)' = AnswerOf(u)
    BY <1>1, OthersView
  <1>3. Store!Done(t, why)
    BY StoreDone
  <1>4. why \in Store!Phase \ {"idle", "pending", "ok", "invalid", "gone"}
    BY DEF Store!Phase
  <1>5. \E w \in Store!Phase \ {"idle", "pending", "ok", "invalid", "gone"} :
          Store!MayRefuse(t, w) /\ Store!Done(t, w)
    BY <1>3, <1>4
  <1>6. [u \in Thread |-> AnswerOf(u)]' = [u \in Thread |-> AnswerOf(u)]
    BY <1>2
  <1>7. QED
    BY <1>5, <1>6 DEF Store!Refuse

\* When the store may refuse a request that a thread has.
LEMMA RefusalView ==
    ASSUME TypeInv, NEW t \in Thread, req[t] \in RequestType, NEW v, v = FilesOnDisk
    PROVE  /\ req[t].op # "create" /\ req[t].name \notin DOMAIN v =>
                Store!MayRefuse(t, "no_file")
           /\ req[t].op = "create" /\ req[t].name \in DOMAIN v =>
                Store!MayRefuse(t, "exists")
           /\ req[t].name \in DOMAIN v /\ v[req[t].name].owner # req[t].user =>
                Store!MayRefuse(t, "not_owner")
           /\ req[t].op = "read" /\ req[t].name \in DOMAIN v
                /\ v[req[t].name].owner = req[t].user
                /\ ~(req[t].offset + req[t].size <= Len(v[req[t].name].data)) =>
                Store!MayRefuse(t, "out_of_range")
           /\ req[t].op = "append" => Store!MayRefuse(t, "no_space")
           /\ req[t].op = "create" => /\ Store!MayRefuse(t, "no_inode_space")
                                      /\ Store!MayRefuse(t, "no_dir_space")
  <1>1. req[t] # NoRequest
    BY DEF RequestType, Op, NoRequest
  <1>2. [u \in Thread |-> IF req[u] = NoRequest THEN [op |-> "none"] ELSE req[u]][t] = req[t]
    BY <1>1
  <1>3. req[t].op # "create" /\ req[t].name \notin DOMAIN v => Store!MayRefuse(t, "no_file")
    BY <1>2 DEF Store!MayRefuse, Store!Exists
  <1>4. req[t].op = "create" /\ req[t].name \in DOMAIN v => Store!MayRefuse(t, "exists")
    BY <1>2 DEF Store!MayRefuse, Store!Exists
  <1>5. req[t].name \in DOMAIN v /\ v[req[t].name].owner # req[t].user =>
          Store!MayRefuse(t, "not_owner")
    BY <1>2 DEF Store!MayRefuse, Store!Exists, Store!Owned
  <1>6. req[t].op = "read" /\ req[t].name \in DOMAIN v
          /\ v[req[t].name].owner = req[t].user
          /\ ~(req[t].offset + req[t].size <= Len(v[req[t].name].data)) =>
          Store!MayRefuse(t, "out_of_range")
    BY <1>2 DEF Store!MayRefuse, Store!Exists, Store!Owned, Store!InRange
  <1>7. req[t].op = "append" => Store!MayRefuse(t, "no_space")
    BY <1>2 DEF Store!MayRefuse
  <1>8. req[t].op = "create" => /\ Store!MayRefuse(t, "no_inode_space")
                                /\ Store!MayRefuse(t, "no_dir_space")
    BY <1>2 DEF Store!MayRefuse
  <1>9. QED
    BY <1>3, <1>4, <1>5, <1>6, <1>7, <1>8

\* A request that takes effect, as the store's.
LEMMA StorePending ==
    ASSUME NEW t \in Thread, req[t] \in RequestType, PhaseOf(t) = "pending"
    PROVE  /\ Store!Pending(t, req[t].op)
           /\ [u \in Thread |-> IF req[u] = NoRequest THEN [op |-> "none"] ELSE req[u]][t] = req[t]
  <1>1. req[t] # NoRequest
    BY DEF RequestType, Op, NoRequest
  <1>2. [u \in Thread |-> IF req[u] = NoRequest THEN [op |-> "none"] ELSE req[u]][t] = req[t]
    BY <1>1
  <1>3. QED
    BY <1>2 DEF Store!Pending

LEMMA AnswersStay ==
    ASSUME TypeInv, NEW t \in Thread, Step(t), req' = req, req[t].op # "read"
    PROVE  [u \in Thread |-> AnswerOf(u)]' = [u \in Thread |-> AnswerOf(u)]
  <1>1. AnswerOf(t) = << >> /\ AnswerOf(t)' = << >>
    BY DEF AnswerOf
  <1>2. \A u \in Thread : AnswerOf(u)' = AnswerOf(u)
    BY <1>1, OthersView
  <1>3. QED
    BY <1>2

LEMMA StoreAppends ==
    ASSUME TypeInv, NEW t \in Thread, Step(t), req' = req, req[t] \in RequestType,
           req[t].op = "append", PhaseOf(t) = "pending", PhaseOf(t)' = "ok",
           req[t].name \in DOMAIN FilesOnDisk,
           FilesOnDisk[req[t].name].owner = req[t].user,
           FilesOnDisk' = [FilesOnDisk EXCEPT ![req[t].name].data = @ \o req[t].data]
    PROVE  Store!AppendTo(t)
  <1>1. /\ Store!Pending(t, "append")
        /\ [u \in Thread |-> IF req[u] = NoRequest THEN [op |-> "none"] ELSE req[u]][t] = req[t]
    BY StorePending
  <1>2. Store!Done(t, "ok")
    BY StoreDone
  <1>3. [u \in Thread |-> AnswerOf(u)]' = [u \in Thread |-> AnswerOf(u)]
    BY AnswersStay
  <1>4. Store!Owned(req[t])
    BY DEF Store!Owned, Store!Exists
  <1>5. QED
    BY <1>1, <1>2, <1>3, <1>4 DEF Store!AppendTo

LEMMA StoreCreates ==
    ASSUME TypeInv, NEW t \in Thread, Step(t), req' = req, req[t] \in RequestType,
           req[t].op = "create", PhaseOf(t) = "pending", PhaseOf(t)' = "ok",
           req[t].name \notin DOMAIN FilesOnDisk,
           FilesOnDisk' = [m \in DOMAIN FilesOnDisk \cup {req[t].name} |->
                             IF m = req[t].name
                             THEN [owner |-> req[t].user, data |-> << >>] ELSE FilesOnDisk[m]]
    PROVE  Store!Create(t)
  <1>1. /\ Store!Pending(t, "create")
        /\ [u \in Thread |-> IF req[u] = NoRequest THEN [op |-> "none"] ELSE req[u]][t] = req[t]
    BY StorePending
  <1>2. Store!Done(t, "ok")
    BY StoreDone
  <1>3. [u \in Thread |-> AnswerOf(u)]' = [u \in Thread |-> AnswerOf(u)]
    BY AnswersStay
  <1>4. ~Store!Exists(req[t].name)
    BY DEF Store!Exists
  <1>5. QED
    BY <1>1, <1>2, <1>3, <1>4 DEF Store!Create

LEMMA StoreDeletes ==
    ASSUME TypeInv, NEW t \in Thread, Step(t), req' = req, req[t] \in RequestType,
           req[t].op = "delete", PhaseOf(t) = "pending", PhaseOf(t)' = "ok",
           req[t].name \in DOMAIN FilesOnDisk,
           FilesOnDisk[req[t].name].owner = req[t].user,
           FilesOnDisk' = [m \in DOMAIN FilesOnDisk \ {req[t].name} |-> FilesOnDisk[m]]
    PROVE  Store!Delete(t)
  <1>1. /\ Store!Pending(t, "delete")
        /\ [u \in Thread |-> IF req[u] = NoRequest THEN [op |-> "none"] ELSE req[u]][t] = req[t]
    BY StorePending
  <1>2. Store!Done(t, "ok")
    BY StoreDone
  <1>3. [u \in Thread |-> AnswerOf(u)]' = [u \in Thread |-> AnswerOf(u)]
    BY AnswersStay
  <1>4. Store!Owned(req[t])
    BY DEF Store!Owned, Store!Exists
  <1>5. QED
    BY <1>1, <1>2, <1>3, <1>4 DEF Store!Delete

LEMMA StoreReads ==
    ASSUME TypeInv, NEW t \in Thread, Step(t), req' = req, req[t] \in RequestType,
           req[t].op = "read", PhaseOf(t) = "pending", PhaseOf(t)' = "ok",
           FilesOnDisk' = FilesOnDisk,
           req[t].name \in DOMAIN FilesOnDisk,
           FilesOnDisk[req[t].name].owner = req[t].user,
           req[t].offset + req[t].size <= Len(FilesOnDisk[req[t].name].data),
           AnswerOf(t)' = SubSeq(FilesOnDisk[req[t].name].data, req[t].offset + 1,
                                 req[t].offset + req[t].size)
    PROVE  Store!Read(t)
  <1>1. /\ Store!Pending(t, "read")
        /\ [u \in Thread |-> IF req[u] = NoRequest THEN [op |-> "none"] ELSE req[u]][t] = req[t]
    BY StorePending
  <1>2. Store!Done(t, "ok")
    BY StoreDone
  <1>3. PICK x : x = SubSeq(FilesOnDisk[req[t].name].data, req[t].offset + 1,
                            req[t].offset + req[t].size)
    OBVIOUS
  <1>4. [u \in Thread |-> AnswerOf(u)]' = [[u \in Thread |-> AnswerOf(u)] EXCEPT ![t] = x]
    <2>1. AnswerOf(t)' = x /\ \A u \in Thread \ {t} : AnswerOf(u)' = AnswerOf(u)
      BY <1>3, OthersView
    <2>2. QED
      BY <2>1
  <1>5. Store!Owned(req[t]) /\ Store!InRange(req[t])
    BY DEF Store!Owned, Store!Exists, Store!InRange
  <1>6. QED
    BY <1>1, <1>2, <1>3, <1>4, <1>5 DEF Store!Read

-----------------------------------------------------------------------------
(* The kinds of steps of a handler: before its request takes effect, at    *)
(* that instant, after it, or a refusal.                                   *)

HandlerLabel == ReadLabel \cup AppendLabel \cup CreateLabel \cup DeleteLabel

LEMMA PendingViewNext ==
    ASSUME NEW t, pc'[t] \in HandlerLabel, pc'[t] \notin TookEffect
    PROVE  PhaseOf(t)' = "pending" /\ AnswerOf(t)' = << >>
  <1>1. PhaseOf(t)' = "pending"
    BY DEF PhaseOf, HandlerLabel, ReadLabel, AppendLabel, CreateLabel, DeleteLabel
  <1>2. QED
    BY <1>1 DEF AnswerOf

LEMMA EffectViewNext ==
    ASSUME NEW t, pc'[t] \in TookEffect \/ (pc'[t] = "reply" /\ outcome'[t] = "ok")
    PROVE  /\ PhaseOf(t)' = "ok"
           /\ AnswerOf(t)' = IF req'[t].op = "read" THEN loc'[t].result ELSE << >>
  <1>1. PhaseOf(t)' = "ok"
    BY DEF PhaseOf, TookEffect
  <1>2. QED
    BY <1>1 DEF AnswerOf

LEMMA HiddenStep ==
    ASSUME TypeInv, NEW t \in Thread, Step(t), req' = req, FilesOnDisk' = FilesOnDisk,
           pc[t] \in HandlerLabel \ TookEffect, pc'[t] \in HandlerLabel \ TookEffect
    PROVE  UNCHANGED Store!storeVars
  <1>1. PhaseOf(t) = "pending" /\ AnswerOf(t) = << >>
    BY PendingView DEF HandlerLabel
  <1>2. PhaseOf(t)' = "pending" /\ AnswerOf(t)' = << >>
    BY PendingViewNext
  <1>3. QED
    BY <1>1, <1>2, StoreStutter

LEMMA FinishStep ==
    ASSUME TypeInv, NEW t \in Thread, Step(t), req' = req, loc' = loc,
           FilesOnDisk' = FilesOnDisk, pc[t] \in TookEffect,
           pc'[t] \in TookEffect \/ (pc'[t] = "reply" /\ outcome'[t] = "ok")
    PROVE  UNCHANGED Store!storeVars
  <1>1. /\ PhaseOf(t) = "ok"
        /\ AnswerOf(t) = IF req[t].op = "read" THEN loc[t].result ELSE << >>
    BY EffectView
  <1>2. /\ PhaseOf(t)' = "ok"
        /\ AnswerOf(t)' = IF req[t].op = "read" THEN loc[t].result ELSE << >>
    BY EffectViewNext
  <1>3. QED
    BY <1>1, <1>2, StoreStutter

LEMMA RefuseStep ==
    ASSUME TypeInv, NEW t \in Thread, Step(t), req' = req, FilesOnDisk' = FilesOnDisk,
           pc[t] \in HandlerLabel \ TookEffect, pc'[t] = "reply",
           NEW why \in {"no_file", "not_owner", "out_of_range", "no_space", "exists",
                        "no_inode_space", "no_dir_space"},
           outcome'[t] = why, Store!MayRefuse(t, why)
    PROVE  Store!Refuse(t)
  <1>1. PhaseOf(t) = "pending"
    BY PendingView DEF HandlerLabel
  <1>2. PhaseOf(t)' = why
    BY DEF PhaseOf, TookEffect
  <1>3. QED
    BY <1>1, <1>2, StoreRefuses

\* What a scan of the directory and an inode say of the files.
LEMMA ScanView ==
    ASSUME TypeInv, DirectoryInv, NEW v, IsView(v), NEW n
    PROVE  /\ Named(n) = {} => n \notin DOMAIN v
           /\ \A s \in Named(n) : /\ s \in Used /\ EntryAt(s).name = n
                                  /\ n \in DOMAIN v /\ v[n] = FileAt(s)
  <1>1. \A s : s \in Named(n) <=> s \in Used /\ EntryAt(s).name = n
    BY DEF Named, Used
  <1>2. QED
    BY <1>1 DEF IsView

LEMMA InodeView ==
    ASSUME TypeInv, DirectoryInv, NEW s \in Used
    PROVE  /\ AsInode(disk[EntryAt(s).inode_block]) = disk[EntryAt(s).inode_block]
           /\ FileAt(s).owner = disk[EntryAt(s).inode_block].owner
           /\ Len(FileAt(s).data) = disk[EntryAt(s).inode_block].size
           /\ FileAt(s).data = [k \in 1 .. disk[EntryAt(s).inode_block].size |->
                                  ByteAt(disk, disk[EntryAt(s).inode_block].blocks, k)]
           /\ disk[EntryAt(s).inode_block].size \in Nat
  <1>1. PICK i : i = disk[EntryAt(s).inode_block]
    OBVIOUS
  <1>2. i.size \in Nat /\ i.kind = "inode"
    BY <1>1, FileTypes DEF DirectoryInv, FileOK, Inode
  <1>3. PICK f : f = [k \in 1 .. i.size |-> ByteAt(disk, i.blocks, k)]
    OBVIOUS
  <1>4. FileAt(s) = [owner |-> i.owner, data |-> f]
    BY <1>1, <1>3 DEF FileAt
  <1>5. Len(f) = i.size
    <2>1. PICK T : T = {f[k] : k \in 1 .. i.size}
      OBVIOUS
    <2>2. f \in [1 .. i.size -> T]
      BY <1>3, <2>1
    <2>3. \A m \in Nat : \A x \in [1 .. m -> T] : Len(x) = m
      OBVIOUS
    <2>4. QED
      BY <1>2, <2>2, <2>3
  <1>6. FileAt(s).owner = i.owner /\ FileAt(s).data = f
    BY <1>4
  <1>7. AsInode(i) = i
    BY <1>2 DEF AsInode
  <1>8. QED
    BY <1>1, <1>2, <1>3, <1>5, <1>6, <1>7

-----------------------------------------------------------------------------
(* Each step of a handler, as a step of the store.                         *)

LEMMA HandlerRequest ==
    ASSUME TypeInv, NEW t \in Thread, pc[t] \in HandlerLabel
    PROVE  req[t] \in RequestType
  BY DEF TypeInv, LockInv, HandlerLabel, ReadLabel, AppendLabel, CreateLabel, DeleteLabel

LEMMA FindMaps ==
    ASSUME ServingInv, NEW t \in Thread, Step(t), OpOK(t), ReadFind(t) \/ AppendFind(t)
    PROVE  Store!Refuse(t) \/ UNCHANGED Store!storeVars
  <1>1. /\ TypeInv /\ DirectoryInv /\ req' = req
        /\ pc[t] \in {"read_find", "append_find"} /\ UNCHANGED << disk, dir_inode >>
    BY DEF ServingInv, ReadFind, AppendFind, At, memory
  <1>2. /\ FilesOnDisk' = FilesOnDisk /\ pc[t] \in HandlerLabel \ TookEffect
        /\ req[t] \in RequestType /\ req[t].op # "create"
    BY <1>1, QuietView, HandlerRequest
       DEF OpOK, HandlerLabel, TookEffect, ReadLabel, AppendLabel, CreateLabel, DeleteLabel
  <1>3. \/ Named(req[t].name) = {} /\ Return(t, "no_file")
        \/ \E l \in {"read_filelock", "append_filelock"} : Goto(t, l)
    BY DEF ReadFind, AppendFind
  <1>4. CASE Named(req[t].name) = {} /\ Return(t, "no_file")
    <2>1. PICK v : v = FilesOnDisk
      OBVIOUS
    <2>2. req[t].name \notin DOMAIN v
      BY <1>1, <1>4, <2>1, ViewIsView, ScanView
    <2>3. Store!MayRefuse(t, "no_file")
      BY <1>1, <1>2, <2>1, <2>2, RefusalView
    <2>4. pc'[t] = "reply" /\ outcome'[t] = "no_file"
      BY <1>1, <1>4, OwnMoves
    <2>5. QED
      BY <1>1, <1>2, <2>3, <2>4, RefuseStep
  <1>5. CASE \E l \in {"read_filelock", "append_filelock"} : Goto(t, l)
    <2>1. pc'[t] \in HandlerLabel \ TookEffect
      BY <1>1, <1>5, OwnMoves
         DEF HandlerLabel, TookEffect, ReadLabel, AppendLabel, CreateLabel, DeleteLabel
    <2>2. QED
      BY <1>1, <1>2, <2>1, HiddenStep
  <1>6. QED
    BY <1>3, <1>4, <1>5

LEMMA ReadInodeMaps ==
    ASSUME ServingInv, NEW t \in Thread, Step(t), OpOK(t), KnowsOK(t), ReadInode(t)
    PROVE  Store!Refuse(t) \/ UNCHANGED Store!storeVars
  <1>1. /\ TypeInv /\ DirectoryInv /\ req' = req
        /\ pc[t] = "read_inode" /\ UNCHANGED << disk, dir_inode >>
    BY DEF ServingInv, ReadInode, At, memory
  <1>2. /\ FilesOnDisk' = FilesOnDisk /\ pc[t] \in HandlerLabel \ TookEffect
        /\ req[t] \in RequestType /\ req[t].op = "read"
    BY <1>1, QuietView, HandlerRequest
       DEF OpOK, HandlerLabel, TookEffect, ReadLabel, AppendLabel, CreateLabel, DeleteLabel
  <1>3. PICK v, r, i : v = FilesOnDisk /\ r = req[t] /\ i = disk[loc[t].inode_block]
    OBVIOUS
  <1>4. PICK s \in Used : /\ EntryAt(s).name = r.name
                          /\ EntryAt(s).inode_block = loc[t].inode_block
    BY <1>1, <1>3 DEF KnowsOK, SeenOK
  <1>5. /\ AsInode(disk[loc[t].inode_block]) = i
        /\ FileAt(s).owner = i.owner /\ Len(FileAt(s).data) = i.size
    BY <1>1, <1>3, <1>4, InodeView
  <1>6. r.name \in DOMAIN v /\ v[r.name] = FileAt(s)
    BY <1>1, <1>3, <1>4, ViewIsView DEF IsView
  <1>7. \/ i.owner # r.user /\ Return(t, "not_owner")
        \/ i.owner = r.user /\ r.offset + r.size > i.size /\ Return(t, "out_of_range")
        \/ Goto(t, "read_block")
    BY <1>3, <1>5 DEF ReadInode
  <1>8. CASE i.owner # r.user /\ Return(t, "not_owner")
    <2>1. Store!MayRefuse(t, "not_owner")
      BY <1>1, <1>2, <1>3, <1>5, <1>6, <1>8, RefusalView
    <2>2. pc'[t] = "reply" /\ outcome'[t] = "not_owner"
      BY <1>1, <1>8, OwnMoves
    <2>3. QED
      BY <1>1, <1>2, <2>1, <2>2, RefuseStep
  <1>9. CASE i.owner = r.user /\ r.offset + r.size > i.size /\ Return(t, "out_of_range")
    <2>1. r.offset \in Nat /\ r.size \in Nat /\ i.size \in Nat
      BY <1>1, <1>2, <1>3, <1>4, InodeView DEF RequestType
    <2>2. ~(r.offset + r.size <= Len(v[r.name].data)) /\ v[r.name].owner = r.user
      BY <1>5, <1>6, <1>9, <2>1
    <2>3. Store!MayRefuse(t, "out_of_range")
      BY <1>1, <1>2, <1>3, <1>6, <2>2, RefusalView
    <2>4. pc'[t] = "reply" /\ outcome'[t] = "out_of_range"
      BY <1>1, <1>9, OwnMoves
    <2>5. QED
      BY <1>1, <1>2, <2>3, <2>4, RefuseStep
  <1>10. CASE Goto(t, "read_block")
    <2>1. pc'[t] \in HandlerLabel \ TookEffect
      BY <1>1, <1>10, OwnMoves DEF HandlerLabel, TookEffect, ReadLabel
    <2>2. QED
      BY <1>1, <1>2, <2>1, HiddenStep
  <1>11. QED
    BY <1>7, <1>8, <1>9, <1>10

LEMMA SubSeqIs ==
    ASSUME NEW f, NEW off \in Nat, NEW n \in Nat, NEW S, NEW x \in Seq(S),
           Len(x) = n, n > 0, \A k \in 1 .. n : x[k] = f[off + k]
    PROVE  SubSeq(f, off + 1, off + n) = x
  <1>1. PICK i, j, y : i = off + 1 /\ j = off + n /\ y = SubSeq(f, i, j)
    OBVIOUS
  <1>2. i \in Int /\ j \in Int /\ i <= j /\ j - i + 1 = n
    BY <1>1
  <1>3. ASSUME NEW l \in i .. j PROVE f[l] \in S
    <2>1. PICK k : k = l - off
      OBVIOUS
    <2>2. k \in 1 .. n /\ l = off + k
      BY <1>1, <2>1
    <2>3. x[k] = f[l] /\ k \in 1 .. Len(x)
      BY <2>2
    <2>4. QED
      BY <2>3, ElementOfSeq
  <1>4. /\ SubSeq(f, i, j) \in Seq(S)
        /\ Len(SubSeq(f, i, j)) = IF i <= j THEN j - i + 1 ELSE 0
        /\ \A k \in 1 .. j - i + 1 : SubSeq(f, i, j)[k] = f[i + k - 1]
    BY <1>2, <1>3, SubSeqProperties
  <1>5. y \in Seq(S) /\ Len(y) = n
    BY <1>1, <1>2, <1>4
  <1>6. \A k \in 1 .. n : y[k] = x[k]
    <2>1. ASSUME NEW k \in 1 .. n PROVE y[k] = x[k]
      <3>1. i + k - 1 = off + k
        BY <1>1
      <3>2. y[k] = f[i + k - 1]
        BY <1>1, <1>2, <1>4
      <3>3. QED
        BY <3>1, <3>2
    <2>2. QED
      BY <2>1
  <1>7. y = x
    BY <1>5, <1>6, SeqEqual
  <1>8. QED
    BY <1>1, <1>7

\* A block of a read: the last one is the read of the store.
LEMMA ReadBlockMaps ==
    ASSUME ServingInv, NEW t \in Thread, Step(t), OpOK(t), KnowsOK(t), ReadBlock(t)
    PROVE  Store!Read(t) \/ UNCHANGED Store!storeVars
  <1>1. /\ TypeInv /\ DirectoryInv /\ req' = req
        /\ pc[t] = "read_block" /\ UNCHANGED << disk, dir_inode >>
        /\ pc'[t] \in {"read_unlock", "read_block"}
    BY ReadBlockBytes DEF ServingInv
  <1>2. /\ FilesOnDisk' = FilesOnDisk /\ pc[t] \in HandlerLabel \ TookEffect
        /\ req[t] \in RequestType /\ req[t].op = "read"
    BY <1>1, QuietView, HandlerRequest
       DEF OpOK, HandlerLabel, TookEffect, ReadLabel, AppendLabel, CreateLabel, DeleteLabel
  <1>3. CASE pc'[t] = "read_block"
    <2>1. pc'[t] \in HandlerLabel \ TookEffect
      BY <1>3 DEF HandlerLabel, TookEffect, ReadLabel
    <2>2. QED
      BY <1>1, <1>2, <2>1, HiddenStep
  <1>4. CASE pc'[t] = "read_unlock"
    <2>1. PICK off, n, i, x : /\ off = req[t].offset /\ n = req[t].size
                              /\ i = disk[loc[t].inode_block] /\ x = loc'[t].result
      OBVIOUS
    <2>2. /\ x \in Seq(Byte \cup {NoByte}) /\ Len(x) \in 1 .. n
          /\ pc'[t] = IF Len(x) = n THEN "read_unlock" ELSE "read_block"
          /\ \A k \in 1 .. Len(x) : x[k] = ByteAt(disk, loc[t].inode.blocks, off + k)
      BY <2>1, ReadBlockBytes
    <2>3. Len(x) = n /\ loc[t].inode = i
      BY <1>1, <1>4, <2>1, <2>2 DEF KnowsOK, ResultOK
    <2>4. off \in Nat /\ n \in Nat /\ n > 0
      BY <1>2, <2>1, <2>2 DEF RequestType
    <2>5. PICK s \in Used : /\ EntryAt(s).name = req[t].name
                            /\ EntryAt(s).inode_block = loc[t].inode_block
      BY <1>1 DEF KnowsOK, SeenOK
    <2>6. /\ FileAt(s).owner = i.owner /\ Len(FileAt(s).data) = i.size
          /\ FileAt(s).data = [k \in 1 .. i.size |-> ByteAt(disk, i.blocks, k)]
          /\ i.size \in Nat
      BY <1>1, <2>1, <2>5, InodeView
    <2>7. off + n <= i.size
      BY <1>1, <2>1, <2>3, LocalTypes DEF LocalOK, ReadOK
    <2>8. i.owner = req[t].user
      BY <1>1, <2>3 DEF KnowsOK, MineOK
    <2>9. PICK f : f = FileAt(s).data
      OBVIOUS
    <2>10. \A k \in 1 .. n : x[k] = f[off + k]
      <3>1. ASSUME NEW k \in 1 .. n PROVE x[k] = f[off + k]
        <4>1. off + k \in 1 .. i.size
          BY <2>4, <2>6, <2>7
        <4>2. x[k] = ByteAt(disk, i.blocks, off + k)
          BY <2>2, <2>3
        <4>3. QED
          BY <2>6, <2>9, <4>1, <4>2
      <3>2. QED
        BY <3>1
    <2>11. SubSeq(f, off + 1, off + n) = x
      <3>1. PICK S : S = Byte \cup {NoByte}
        OBVIOUS
      <3>2. x \in Seq(S) /\ Len(x) = n
        BY <2>2, <2>3, <3>1
      <3>3. QED
        BY <2>4, <2>10, <3>2, SubSeqIs
    <2>12. /\ req[t].name \in DOMAIN FilesOnDisk
           /\ FilesOnDisk[req[t].name] = FileAt(s)
      BY <1>1, <2>5, ViewIsView DEF IsView
    <2>13. /\ PhaseOf(t) = "pending" /\ PhaseOf(t)' = "ok" /\ AnswerOf(t)' = x
      BY <1>1, <1>2, <1>4, <2>1, PendingView, EffectViewNext DEF HandlerLabel, TookEffect
    <2>14. /\ FilesOnDisk[req[t].name].owner = req[t].user
           /\ FilesOnDisk[req[t].name].data = f
           /\ req[t].offset + req[t].size <= Len(FilesOnDisk[req[t].name].data)
      BY <2>1, <2>6, <2>7, <2>8, <2>9, <2>12
    <2>15. AnswerOf(t)' = SubSeq(FilesOnDisk[req[t].name].data, req[t].offset + 1,
                                 req[t].offset + req[t].size)
      BY <2>1, <2>11, <2>13, <2>14
    <2>16. QED
      BY <1>1, <1>2, <2>12, <2>13, <2>14, <2>15, StoreReads
  <1>5. QED
    BY <1>1, <1>3, <1>4

\* A step that writes nothing and goes on, before its request takes effect.
LEMMA QuietGoto ==
    ASSUME TypeInv, NEW t \in Thread, Step(t), req' = req, UNCHANGED << disk, dir_inode >>,
           pc[t] \in HandlerLabel \ TookEffect,
           NEW l \in HandlerLabel \ TookEffect, Goto(t, l)
    PROVE  UNCHANGED Store!storeVars
  <1>1. pc'[t] \in HandlerLabel \ TookEffect
    BY OwnMoves
  <1>2. FilesOnDisk' = FilesOnDisk
    BY QuietView
  <1>3. QED
    BY <1>1, <1>2, HiddenStep

\* A step that writes nothing and refuses.
LEMMA QuietRefusal ==
    ASSUME TypeInv, NEW t \in Thread, Step(t), req' = req, UNCHANGED << disk, dir_inode >>,
           pc[t] \in HandlerLabel \ TookEffect,
           NEW why \in {"no_file", "not_owner", "out_of_range", "no_space", "exists",
                        "no_inode_space", "no_dir_space"},
           Return(t, why), Store!MayRefuse(t, why)
    PROVE  Store!Refuse(t)
  <1>1. pc'[t] = "reply" /\ outcome'[t] = why
    BY OwnMoves
  <1>2. FilesOnDisk' = FilesOnDisk
    BY QuietView
  <1>3. QED
    BY <1>1, <1>2, RefuseStep

LEMMA LockMaps ==
    ASSUME TypeInv, NEW t \in Thread, Step(t),
           \/ ReadLock(t) \/ ReadFileLock(t) \/ AppendLock(t) \/ AppendFileLock(t)
           \/ CreateLock(t) \/ DeleteLock(t)
    PROVE  UNCHANGED Store!storeVars
  <1>1. /\ req' = req /\ UNCHANGED << disk, dir_inode >>
        /\ pc[t] \in {"read_lock", "read_filelock", "append_lock", "append_filelock",
                      "create_lock", "delete_lock"}
        /\ \E l \in {"read_find", "read_inode", "append_find", "append_inode",
                     "create_scan", "delete_find"} : Goto(t, l)
    BY DEF ReadLock, ReadFileLock, AppendLock, AppendFileLock, CreateLock, DeleteLock,
           memory, At
  <1>2. PICK l \in {"read_find", "read_inode", "append_find", "append_inode",
                    "create_scan", "delete_find"} : Goto(t, l)
    BY <1>1
  <1>3. l \in HandlerLabel \ TookEffect /\ pc[t] \in HandlerLabel \ TookEffect
    BY <1>1 DEF HandlerLabel, TookEffect, ReadLabel, AppendLabel, CreateLabel, DeleteLabel
  <1>4. QED
    BY <1>1, <1>2, <1>3, QuietGoto

LEMMA UnlockMaps ==
    ASSUME TypeInv, NEW t \in Thread, Step(t),
           ReadUnlock(t) \/ AppendUnlock(t) \/ CreateUnlock(t) \/ DeleteUnlock(t)
    PROVE  UNCHANGED Store!storeVars
  <1>1. /\ req' = req /\ loc' = loc /\ UNCHANGED << disk, dir_inode >>
        /\ pc[t] \in TookEffect /\ Return(t, "ok")
    BY DEF ReadUnlock, AppendUnlock, CreateUnlock, DeleteUnlock, memory, At, TookEffect
  <1>2. pc'[t] = "reply" /\ outcome'[t] = "ok"
    BY <1>1, OwnMoves
  <1>3. FilesOnDisk' = FilesOnDisk
    BY <1>1, QuietView
  <1>4. QED
    BY <1>1, <1>2, <1>3, FinishStep

LEMMA ReadStepMaps ==
    ASSUME ServingInv, NEW t \in Thread, ReadStep(t), OpOK(t), KnowsOK(t)
    PROVE  Store!Read(t) \/ Store!Refuse(t) \/ UNCHANGED Store!storeVars
  <1>1. TypeInv /\ Step(t)
    BY DEF ServingInv, Step
  <1>2. QED
    BY <1>1, LockMaps, FindMaps, ReadInodeMaps, ReadBlockMaps, UnlockMaps DEF ReadStep

LEMMA AppendRefusals ==
    ASSUME StoreInv, up, NEW t \in Thread, Step(t), OpOK(t),
           AppendRoom(t) \/ AppendInode(t) \/ AppendAlloc(t)
    PROVE  Store!Refuse(t) \/ UNCHANGED Store!storeVars
  <1>1. /\ TypeInv /\ DirectoryInv /\ HandlerOK(t) /\ req' = req
        /\ pc[t] \in {"append_room", "append_inode", "append_alloc"}
        /\ UNCHANGED << disk, dir_inode >>
    BY DEF StoreInv, RunningInv, AppendRoom, AppendInode, AppendAlloc, At, memory
  <1>2. pc[t] \in HandlerLabel \ TookEffect /\ req[t] \in RequestType /\ req[t].op = "append"
    BY <1>1, HandlerRequest DEF OpOK, HandlerLabel, TookEffect, AppendLabel
  <1>3. PICK v, i : v = FilesOnDisk /\ i = disk[loc[t].inode_block]
    OBVIOUS
  <1>4. \/ Return(t, "no_space")
        \/ /\ pc[t] = "append_inode" /\ AsInode(i).owner # req[t].user
           /\ Return(t, "not_owner")
        \/ \E l \in {"append_lock", "append_alloc", "append_data", "append_partial"} : Goto(t, l)
    BY <1>3 DEF AppendRoom, AppendInode, AppendAlloc, At
  <1>5. CASE Return(t, "no_space")
    <2>1. Store!MayRefuse(t, "no_space")
      BY <1>1, <1>2, <1>3, RefusalView
    <2>2. QED
      BY <1>1, <1>2, <1>5, <2>1, QuietRefusal
  <1>6. CASE /\ pc[t] = "append_inode" /\ AsInode(i).owner # req[t].user
             /\ Return(t, "not_owner")
    <2>1. PICK s \in Used : /\ EntryAt(s).name = req[t].name
                            /\ EntryAt(s).inode_block = loc[t].inode_block
      BY <1>1, <1>6 DEF HandlerOK, FoundOK, FoundLabel
    <2>2. AsInode(i) = i /\ FileAt(s).owner = i.owner
      BY <1>1, <1>3, <2>1, InodeView
    <2>3. req[t].name \in DOMAIN v /\ v[req[t].name] = FileAt(s)
      BY <1>1, <1>3, <2>1, ViewIsView DEF IsView
    <2>4. v[req[t].name].owner # req[t].user
      BY <1>6, <2>2, <2>3
    <2>5. Store!MayRefuse(t, "not_owner")
      BY <1>1, <1>2, <1>3, <2>3, <2>4, RefusalView
    <2>6. QED
      BY <1>1, <1>2, <1>6, <2>5, QuietRefusal
  <1>7. CASE \E l \in {"append_lock", "append_alloc", "append_data", "append_partial"} : Goto(t, l)
    <2>1. PICK l \in {"append_lock", "append_alloc", "append_data", "append_partial"} : Goto(t, l)
      BY <1>7
    <2>2. l \in HandlerLabel \ TookEffect
      BY DEF HandlerLabel, TookEffect, AppendLabel
    <2>3. QED
      BY <1>1, <1>2, <2>1, <2>2, QuietGoto
  <1>8. QED
    BY <1>4, <1>5, <1>6, <1>7

LEMMA AppendWriteMaps ==
    ASSUME StoreInv, up, StoreInv', up', NEW t \in Thread, Step(t),
           AppendPartial(t) \/ AppendData(t)
    PROVE  UNCHANGED Store!storeVars
  <1>1. /\ TypeInv /\ req' = req /\ pc[t] \in {"append_partial", "append_data"}
        /\ \E l \in {"append_data", "append_commit"} : Goto(t, l)
    BY DEF StoreInv, AppendPartial, AppendData, At
  <1>2. pc'[t] \in {"append_data", "append_commit"}
    BY <1>1, OwnMoves
  <1>3. FilesOnDisk' = FilesOnDisk
    BY AppendPartialFiles, AppendDataFiles
  <1>4. pc[t] \in HandlerLabel \ TookEffect /\ pc'[t] \in HandlerLabel \ TookEffect
    BY <1>1, <1>2 DEF HandlerLabel, TookEffect, AppendLabel
  <1>5. QED
    BY <1>1, <1>3, <1>4, HiddenStep

LEMMA AppendCommitMaps ==
    ASSUME StoreInv, up, StoreInv', up', NEW t \in Thread, Step(t), OpOK(t), KnowsOK(t),
           AppendCommit(t)
    PROVE  Store!AppendTo(t)
  <1>1. /\ TypeInv /\ DirectoryInv /\ req' = req /\ pc[t] = "append_commit"
        /\ Goto(t, "append_unlock")
    BY DEF StoreInv, RunningInv, AppendCommit, At
  <1>2. pc'[t] = "append_unlock"
    BY <1>1, OwnMoves
  <1>3. pc[t] \in HandlerLabel \ TookEffect /\ req[t] \in RequestType /\ req[t].op = "append"
    BY <1>1, HandlerRequest DEF OpOK, HandlerLabel, TookEffect, AppendLabel
  <1>4. PhaseOf(t) = "pending" /\ PhaseOf(t)' = "ok"
    BY <1>2, <1>3, PendingView, EffectViewNext DEF HandlerLabel, TookEffect
  <1>5. PICK v : v = FilesOnDisk
    OBVIOUS
  <1>6. /\ req[t].name \in DOMAIN v /\ v[req[t].name].owner = req[t].user
        /\ FilesOnDisk' = [v EXCEPT ![req[t].name].data = @ \o req[t].data]
    <2>1. IsView(v)
      BY <1>1, <1>5, ViewIsView
    <2>2. QED
      BY <2>1, CommitFiles
  <1>7. /\ req[t].name \in DOMAIN FilesOnDisk /\ FilesOnDisk[req[t].name].owner = req[t].user
        /\ FilesOnDisk' = [FilesOnDisk EXCEPT ![req[t].name].data = @ \o req[t].data]
    BY <1>5, <1>6
  <1>8. QED
    BY <1>1, <1>3, <1>4, <1>7, StoreAppends

LEMMA AppendStepMaps ==
    ASSUME StoreInv, up, StoreInv', up', NEW t \in Thread, AppendStep(t), OpOK(t), KnowsOK(t)
    PROVE  Store!AppendTo(t) \/ Store!Refuse(t) \/ UNCHANGED Store!storeVars
  <1>1. TypeInv /\ Step(t) /\ ServingInv
    BY StoreServes DEF StoreInv, Step
  <1>2. QED
    BY <1>1, LockMaps, FindMaps, AppendRefusals, AppendWriteMaps, AppendCommitMaps, UnlockMaps
       DEF AppendStep

LEMMA CreateQuietMaps ==
    ASSUME StoreInv, up, NEW t \in Thread, Step(t), OpOK(t),
           CreateReserve(t) \/ CreateScan(t) \/ CreateExtend(t)
    PROVE  Store!Refuse(t) \/ UNCHANGED Store!storeVars
  <1>1. /\ TypeInv /\ DirectoryInv /\ req' = req
        /\ pc[t] \in {"create_reserve", "create_scan", "create_extend"}
        /\ UNCHANGED << disk, dir_inode >>
    BY DEF StoreInv, RunningInv, CreateReserve, CreateScan, CreateExtend, At, memory
  <1>2. pc[t] \in HandlerLabel \ TookEffect /\ req[t] \in RequestType /\ req[t].op = "create"
    BY <1>1, HandlerRequest DEF OpOK, HandlerLabel, TookEffect, CreateLabel
  <1>3. PICK v : v = FilesOnDisk
    OBVIOUS
  <1>4. \/ Return(t, "no_inode_space") \/ Return(t, "no_dir_space")
        \/ Named(req[t].name) # {} /\ Return(t, "exists")
        \/ \E l \in {"create_lock", "create_inode", "create_extend", "create_new_inode"} :
             Goto(t, l)
    BY DEF CreateReserve, CreateScan, CreateExtend
  <1>5. CASE Return(t, "no_inode_space") \/ Return(t, "no_dir_space")
    <2>1. Store!MayRefuse(t, "no_inode_space") /\ Store!MayRefuse(t, "no_dir_space")
      BY <1>1, <1>2, <1>3, RefusalView
    <2>2. QED
      BY <1>1, <1>2, <1>5, <2>1, QuietRefusal
  <1>6. CASE Named(req[t].name) # {} /\ Return(t, "exists")
    <2>1. req[t].name \in DOMAIN v
      BY <1>1, <1>3, <1>6, ViewIsView, ScanView
    <2>2. Store!MayRefuse(t, "exists")
      BY <1>1, <1>2, <1>3, <2>1, RefusalView
    <2>3. QED
      BY <1>1, <1>2, <1>6, <2>2, QuietRefusal
  <1>7. CASE \E l \in {"create_lock", "create_inode", "create_extend", "create_new_inode"} :
               Goto(t, l)
    <2>1. PICK l \in {"create_lock", "create_inode", "create_extend", "create_new_inode"} :
             Goto(t, l)
      BY <1>7
    <2>2. l \in HandlerLabel \ TookEffect
      BY DEF HandlerLabel, TookEffect, CreateLabel
    <2>3. QED
      BY <1>1, <1>2, <2>1, <2>2, QuietGoto
  <1>8. QED
    BY <1>4, <1>5, <1>6, <1>7

LEMMA CreateWriteMaps ==
    ASSUME StoreInv, up, StoreInv', up', NEW t \in Thread, Step(t),
           CreateInode(t) \/ CreateNewInode(t) \/ CreateNewTable(t)
    PROVE  UNCHANGED Store!storeVars
  <1>1. /\ TypeInv /\ req' = req
        /\ pc[t] \in {"create_inode", "create_new_inode", "create_new_table"}
        /\ \E l \in {"create_entry", "create_new_table", "create_dir_inode"} : Goto(t, l)
    BY DEF StoreInv, CreateInode, CreateNewInode, CreateNewTable, At
  <1>2. pc'[t] \in {"create_entry", "create_new_table", "create_dir_inode"}
    BY <1>1, OwnMoves
  <1>3. FilesOnDisk' = FilesOnDisk
    BY CreateWritesFiles
  <1>4. pc[t] \in HandlerLabel \ TookEffect /\ pc'[t] \in HandlerLabel \ TookEffect
    BY <1>1, <1>2 DEF HandlerLabel, TookEffect, CreateLabel
  <1>5. QED
    BY <1>1, <1>3, <1>4, HiddenStep

LEMMA CreateEffectMaps ==
    ASSUME StoreInv, up, StoreInv', up', NEW t \in Thread, Step(t), OpOK(t),
           CreateEntry(t) \/ CreateDirInode(t)
    PROVE  Store!Create(t)
  <1>1. /\ TypeInv /\ DirectoryInv /\ req' = req
        /\ pc[t] \in {"create_entry", "create_dir_inode"} /\ Goto(t, "create_unlock")
    BY DEF StoreInv, RunningInv, CreateEntry, CreateDirInode, At
  <1>2. pc'[t] = "create_unlock"
    BY <1>1, OwnMoves
  <1>3. pc[t] \in HandlerLabel \ TookEffect /\ req[t] \in RequestType /\ req[t].op = "create"
    BY <1>1, HandlerRequest DEF OpOK, HandlerLabel, TookEffect, CreateLabel
  <1>4. PhaseOf(t) = "pending" /\ PhaseOf(t)' = "ok"
    BY <1>2, <1>3, PendingView, EffectViewNext DEF HandlerLabel, TookEffect
  <1>5. PICK v : v = FilesOnDisk
    OBVIOUS
  <1>6. /\ req[t].name \notin DOMAIN v
        /\ FilesOnDisk' = [m \in DOMAIN v \cup {req[t].name} |->
                             IF m = req[t].name
                             THEN [owner |-> req[t].user, data |-> << >>] ELSE v[m]]
    <2>1. IsView(v)
      BY <1>1, <1>5, ViewIsView
    <2>2. QED
      BY <2>1, CreateEntryFiles, CreateDirInodeFiles
  <1>7. /\ req[t].name \notin DOMAIN FilesOnDisk
        /\ FilesOnDisk' = [m \in DOMAIN FilesOnDisk \cup {req[t].name} |->
                             IF m = req[t].name
                             THEN [owner |-> req[t].user, data |-> << >>] ELSE FilesOnDisk[m]]
    BY <1>5, <1>6
  <1>8. QED
    BY <1>1, <1>3, <1>4, <1>7, StoreCreates

LEMMA CreateStepMaps ==
    ASSUME StoreInv, up, StoreInv', up', NEW t \in Thread, CreateStep(t), OpOK(t)
    PROVE  Store!Create(t) \/ Store!Refuse(t) \/ UNCHANGED Store!storeVars
  <1>1. TypeInv /\ Step(t)
    BY DEF StoreInv, Step
  <1>2. QED
    BY <1>1, LockMaps, CreateQuietMaps, CreateWriteMaps, CreateEffectMaps, UnlockMaps
       DEF CreateStep

LEMMA DeleteFindMaps ==
    ASSUME ServingInv, NEW t \in Thread, Step(t), OpOK(t), DeleteFind(t)
    PROVE  Store!Refuse(t) \/ UNCHANGED Store!storeVars
  <1>1. /\ TypeInv /\ DirectoryInv /\ req' = req /\ pc[t] = "delete_find"
        /\ UNCHANGED << disk, dir_inode >>
    BY DEF ServingInv, DeleteFind, At, memory
  <1>2. pc[t] \in HandlerLabel \ TookEffect /\ req[t] \in RequestType /\ req[t].op = "delete"
    BY <1>1, HandlerRequest DEF OpOK, HandlerLabel, TookEffect, DeleteLabel
  <1>3. PICK v : v = FilesOnDisk
    OBVIOUS
  <1>4. IsView(v)
    BY <1>1, <1>3, ViewIsView
  <1>5. \/ Named(req[t].name) = {} /\ Return(t, "no_file")
        \/ /\ \E s \in Named(req[t].name) :
                AsInode(disk[EntryAt(s).inode_block]).owner # req[t].user
           /\ Return(t, "not_owner")
        \/ \E l \in {"delete_free_table", "delete_entry"} : Goto(t, l)
    BY DEF DeleteFind
  <1>6. CASE Named(req[t].name) = {} /\ Return(t, "no_file")
    <2>1. req[t].name \notin DOMAIN v
      BY <1>1, <1>4, <1>6, ScanView
    <2>2. Store!MayRefuse(t, "no_file")
      BY <1>1, <1>2, <1>3, <2>1, RefusalView
    <2>3. QED
      BY <1>1, <1>2, <1>6, <2>2, QuietRefusal
  <1>7. CASE /\ \E s \in Named(req[t].name) :
                  AsInode(disk[EntryAt(s).inode_block]).owner # req[t].user
             /\ Return(t, "not_owner")
    <2>1. PICK s \in Named(req[t].name) :
             AsInode(disk[EntryAt(s).inode_block]).owner # req[t].user
      BY <1>7
    <2>2. s \in Used /\ req[t].name \in DOMAIN v /\ v[req[t].name] = FileAt(s)
      BY <1>1, <1>4, ScanView
    <2>3. FileAt(s).owner = AsInode(disk[EntryAt(s).inode_block]).owner
      BY <1>1, <2>2, InodeView
    <2>4. v[req[t].name].owner # req[t].user
      BY <2>1, <2>2, <2>3
    <2>5. Store!MayRefuse(t, "not_owner")
      BY <1>1, <1>2, <1>3, <2>2, <2>4, RefusalView
    <2>6. QED
      BY <1>1, <1>2, <1>7, <2>5, QuietRefusal
  <1>8. CASE \E l \in {"delete_free_table", "delete_entry"} : Goto(t, l)
    <2>1. PICK l \in {"delete_free_table", "delete_entry"} : Goto(t, l)
      BY <1>8
    <2>2. l \in HandlerLabel \ TookEffect
      BY DEF HandlerLabel, TookEffect, DeleteLabel
    <2>3. QED
      BY <1>1, <1>2, <2>1, <2>2, QuietGoto
  <1>9. QED
    BY <1>5, <1>6, <1>7, <1>8

LEMMA DeleteEffectMaps ==
    ASSUME ServingInv, ServingInv', NEW t \in Thread, Step(t), OpOK(t), KnowsOK(t),
           DeleteEntry(t) \/ DeleteDirInode(t)
    PROVE  Store!Delete(t)
  <1>1. /\ TypeInv /\ DirectoryInv /\ req' = req
        /\ pc[t] \in {"delete_entry", "delete_dir_inode"} /\ Goto(t, "delete_free")
    BY DEF ServingInv, DeleteEntry, DeleteDirInode, At
  <1>2. pc'[t] = "delete_free"
    BY <1>1, OwnMoves
  <1>3. pc[t] \in HandlerLabel \ TookEffect /\ req[t] \in RequestType /\ req[t].op = "delete"
    BY <1>1, HandlerRequest DEF OpOK, HandlerLabel, TookEffect, DeleteLabel
  <1>4. PhaseOf(t) = "pending" /\ PhaseOf(t)' = "ok"
    BY <1>2, <1>3, PendingView, EffectViewNext DEF HandlerLabel, TookEffect
  <1>5. PICK v : v = FilesOnDisk
    OBVIOUS
  <1>6. /\ req[t].name \in DOMAIN v /\ v[req[t].name].owner = req[t].user
        /\ FilesOnDisk' = [m \in DOMAIN v \ {req[t].name} |-> v[m]]
    <2>1. IsView(v)
      BY <1>1, <1>5, ViewIsView
    <2>2. QED
      BY <2>1, DeleteEntryFiles, DeleteDirInodeFiles
  <1>7. /\ req[t].name \in DOMAIN FilesOnDisk /\ FilesOnDisk[req[t].name].owner = req[t].user
        /\ FilesOnDisk' = [m \in DOMAIN FilesOnDisk \ {req[t].name} |-> FilesOnDisk[m]]
    BY <1>5, <1>6
  <1>8. QED
    BY <1>1, <1>3, <1>4, <1>7, StoreDeletes

LEMMA DeleteStepMaps ==
    ASSUME ServingInv, ServingInv', NEW t \in Thread, DeleteStep(t), OpOK(t), KnowsOK(t)
    PROVE  Store!Delete(t) \/ Store!Refuse(t) \/ UNCHANGED Store!storeVars
  <1>1. TypeInv /\ Step(t)
    BY DEF ServingInv, Step
  <1>2. CASE DeleteFreeTable(t)
    <2>1. /\ req' = req /\ UNCHANGED << disk, dir_inode >> /\ pc[t] = "delete_free_table"
          /\ Goto(t, "delete_dir_inode")
      BY <1>2 DEF DeleteFreeTable, At
    <2>2. pc[t] \in HandlerLabel \ TookEffect /\ "delete_dir_inode" \in HandlerLabel \ TookEffect
      BY <2>1 DEF HandlerLabel, TookEffect, DeleteLabel
    <2>3. QED
      BY <1>1, <2>1, <2>2, QuietGoto
  <1>3. CASE DeleteFree(t)
    <2>1. /\ req' = req /\ loc' = loc /\ UNCHANGED << disk, dir_inode >>
          /\ pc[t] \in TookEffect /\ Goto(t, "delete_unlock")
      BY <1>3 DEF DeleteFree, At, TookEffect
    <2>2. pc'[t] \in TookEffect
      BY <1>1, <2>1, OwnMoves DEF TookEffect
    <2>3. FilesOnDisk' = FilesOnDisk
      BY <2>1, QuietView
    <2>4. QED
      BY <1>1, <2>1, <2>2, <2>3, FinishStep
  <1>4. QED
    BY <1>1, <1>2, <1>3, LockMaps, DeleteFindMaps, DeleteEffectMaps, UnlockMaps DEF DeleteStep

-----------------------------------------------------------------------------
(* A connection, a crash, and the initial states.                          *)

LEMMA DiskView ==
    ASSUME UNCHANGED disk
    PROVE  FilesOnDisk' = FilesOnDisk
  BY DEF FilesOnDisk, FileNamed, FileBytes, FileInode, FileSlots, FileEntry, DiskTable, Directory

LEMMA AcceptMaps ==
    ASSUME TypeInv, NEW t \in Thread, OpOK(t), NEW r \in Request, Accept(t, r)
    PROVE  Store!Call(t, r)
  <1>1. /\ r \in RequestType /\ pc[t] = "new" /\ UNCHANGED disk
        /\ req' = [req EXCEPT ![t] = r] /\ loc' = [loc EXCEPT ![t].data = r.data]
    BY RequestAssumption DEF Accept, At
  <1>2. r # NoRequest /\ r.op \in Op /\ req[t] = NoRequest
    BY <1>1 DEF RequestType, Op, NoRequest, OpOK
  <1>3. /\ req'[t] = r
        /\ \A u \in Thread \ {t} : /\ req'[u] = req[u] /\ loc'[u] = loc[u]
                                   /\ pc'[u] = pc[u] /\ outcome'[u] = outcome[u]
    BY DEF Accept, Goto, Return, TypeInv, TypeOK
  <1>4. \A u \in Thread \ {t} : PhaseOf(u)' = PhaseOf(u) /\ AnswerOf(u)' = AnswerOf(u)
    <2>1. \A u \in Thread \ {t} : PhaseOf(u)' = PhaseOf(u)
      BY <1>3 DEF PhaseOf
    <2>2. QED
      BY <1>3, <2>1 DEF AnswerOf
  <1>5. PhaseOf(t) = "idle" /\ AnswerOf(t) = << >>
    <2>1. PhaseOf(t) = "idle"
      BY <1>1 DEF PhaseOf, TookEffect
    <2>2. QED
      BY <2>1 DEF AnswerOf
  <1>6. PhaseOf(t)' \in {"pending", "invalid"} /\ AnswerOf(t)' = << >>
    <2>1. \/ pc'[t] = "reply" /\ outcome'[t] = "invalid"
          \/ pc'[t] = FirstStep(r.op)
      BY OwnMoves DEF Accept
    <2>2. CASE pc'[t] = "reply" /\ outcome'[t] = "invalid"
      <3>1. PhaseOf(t)' = "invalid"
        BY <2>2 DEF PhaseOf, TookEffect
      <3>2. QED
        BY <3>1 DEF AnswerOf
    <2>3. CASE pc'[t] = FirstStep(r.op)
      <3>1. pc'[t] \in HandlerLabel \ TookEffect
        BY <1>2, <2>3 DEF FirstStep, Op, HandlerLabel, TookEffect, ReadLabel, AppendLabel,
                          CreateLabel, DeleteLabel
      <3>2. QED
        BY <3>1, PendingViewNext
    <2>4. QED
      BY <2>1, <2>2, <2>3
  <1>7. PICK p : p = PhaseOf(t)'
    OBVIOUS
  <1>8. [u \in Thread |-> PhaseOf(u)]' = [[u \in Thread |-> PhaseOf(u)] EXCEPT ![t] = p]
    BY <1>4, <1>7
  <1>9. [u \in Thread |-> AnswerOf(u)]' = [u \in Thread |-> AnswerOf(u)]
    BY <1>4, <1>5, <1>6
  <1>10. [u \in Thread |-> IF req[u] = NoRequest THEN [op |-> "none"] ELSE req[u]]'
           = [[u \in Thread |-> IF req[u] = NoRequest THEN [op |-> "none"] ELSE req[u]]
                EXCEPT ![t] = r]
    BY <1>2, <1>3
  <1>11. p \in {"pending", "invalid"} /\ FilesOnDisk' = FilesOnDisk
    BY <1>1, <1>6, <1>7, DiskView
  <1>12. QED
    BY <1>5, <1>8, <1>9, <1>10, <1>11 DEF Store!Call

LEMMA EndRequestMaps ==
    ASSUME TypeInv, NEW t \in Thread, OpOK(t), EndRequest(t)
    PROVE  Store!Return(t)
  <1>1. /\ pc[t] = "reply" /\ pc'[t] = "done" /\ req'[t] = NoRequest /\ UNCHANGED disk
        /\ \A u \in Thread \ {t} : req'[u] = req[u]
        /\ Step(t)
    BY DEF EndRequest, At, TypeInv, TypeOK, Step
  <1>2. PhaseOf(t) = outcome[t] /\ outcome[t] \in Outcome \ {"none"}
    BY <1>1, ReplyView DEF OpOK, TypeInv, TypeOK
  <1>3. PhaseOf(t)' = "gone" /\ AnswerOf(t)' = << >>
    <2>1. PhaseOf(t)' = "gone"
      BY <1>1 DEF PhaseOf, TookEffect
    <2>2. QED
      BY <2>1 DEF AnswerOf
  <1>4. \A u \in Thread \ {t} : PhaseOf(u)' = PhaseOf(u) /\ AnswerOf(u)' = AnswerOf(u)
    BY <1>1, OthersView
  <1>5. [u \in Thread |-> PhaseOf(u)]' = [[u \in Thread |-> PhaseOf(u)] EXCEPT ![t] = "gone"]
    BY <1>3, <1>4
  <1>6. [u \in Thread |-> AnswerOf(u)]' = [[u \in Thread |-> AnswerOf(u)] EXCEPT ![t] = << >>]
    BY <1>3, <1>4
  <1>7. [u \in Thread |-> IF req[u] = NoRequest THEN [op |-> "none"] ELSE req[u]]'
          = [[u \in Thread |-> IF req[u] = NoRequest THEN [op |-> "none"] ELSE req[u]]
               EXCEPT ![t] = [op |-> "none"]]
    BY <1>1
  <1>8. PhaseOf(t) \notin {"idle", "pending", "gone"} /\ FilesOnDisk' = FilesOnDisk
    BY <1>1, <1>2, DiskView DEF Outcome
  <1>9. QED
    BY <1>5, <1>6, <1>7, <1>8 DEF Store!Return, Store!NothingAsked

LEMMA CrashMaps ==
    ASSUME TypeInv, Crash
    PROVE  Store!StoreCrash
  <1>1. \A t \in Thread : PhaseOf(t) = "idle" <=> pc[t] = "new"
    <2>1. ASSUME NEW t \in Thread PROVE PhaseOf(t) = "idle" <=> pc[t] = "new"
      <3>1. outcome[t] \in Outcome /\ pc[t] \in Label
        BY DEF TypeInv, TypeOK
      <3>2. outcome[t] # "idle"
        BY <3>1 DEF Outcome
      <3>3. QED
        BY <3>2 DEF PhaseOf, TookEffect
    <2>2. QED
      BY <2>1
  <1>2. \A t \in Thread : /\ pc'[t] = IF pc[t] = "new" THEN "new" ELSE "done"
                          /\ req'[t] = NoRequest
    BY DEF Crash
  <1>3. \A t \in Thread : PhaseOf(t)' = IF PhaseOf(t) = "idle" THEN "idle" ELSE "gone"
    BY <1>1, <1>2 DEF PhaseOf, TookEffect
  <1>4. \A t \in Thread : AnswerOf(t)' = << >>
    BY <1>3 DEF AnswerOf
  <1>5. FilesOnDisk' = FilesOnDisk
    BY DiskView DEF Crash
  <1>6. QED
    BY <1>2, <1>3, <1>4, <1>5 DEF Store!StoreCrash, Store!NothingAsked

LEMMA InitMaps == Init => Store!StoreInit
  <1> SUFFICES ASSUME Init PROVE Store!StoreInit
    OBVIOUS
  <1>1. disk[0] = DirectoryBlock(<< >>)
    BY ZeroIsBlock DEF Init
  <1>2. FileSlots = {}
    BY <1>1 DEF FileSlots, Directory, AsDirectory, DirectoryBlock
  <1>3. PICK f : f = FilesOnDisk
    OBVIOUS
  <1>4. f = [k \in DOMAIN f |-> f[k]] /\ DOMAIN f = {}
    BY <1>2, <1>3 DEF FilesOnDisk
  <1>5. FilesOnDisk = << >>
    BY <1>3, <1>4, EmptyFunction
  <1>6. \A t \in Thread : PhaseOf(t) = "idle" /\ AnswerOf(t) = << >> /\ req[t] = NoRequest
    <2>1. \A t \in Thread : PhaseOf(t) = "idle"
      BY DEF Init, PhaseOf, TookEffect
    <2>2. QED
      BY <2>1 DEF Init, AnswerOf
  <1>7. QED
    BY <1>5, <1>6 DEF Store!StoreInit, Store!NothingAsked

-----------------------------------------------------------------------------
(* Every step is one of the store, or hidden from it.                      *)

LEMMA StepsKeepUp ==
    ASSUME NEW t \in Thread, Step(t)
    PROVE  up' = up
  <1>1. CASE ReadStep(t)
    BY <1>1 DEF ReadStep, ReadLock, ReadFind, ReadFileLock, ReadInode, ReadBlock, ReadUnlock
  <1>2. CASE AppendStep(t)
    BY <1>2 DEF AppendStep, AppendRoom, AppendLock, AppendFind, AppendFileLock, AppendInode,
       AppendAlloc, AppendPartial, AppendData, AppendCommit, AppendUnlock
  <1>3. CASE CreateStep(t)
    BY <1>3 DEF CreateStep, CreateReserve, CreateLock, CreateScan, CreateInode, CreateEntry,
       CreateExtend, CreateNewInode, CreateNewTable, CreateDirInode, CreateUnlock
  <1>4. CASE DeleteStep(t)
    BY <1>4 DEF DeleteStep, DeleteLock, DeleteFind, DeleteFreeTable, DeleteDirInode,
       DeleteEntry, DeleteFree, DeleteUnlock
  <1>5. QED
    BY <1>1, <1>2, <1>3, <1>4 DEF Step, EndRequest

LEMMA StepMaps ==
    ASSUME StoreInv, DataInv, StoreInv', NEW t \in Thread, Step(t)
    PROVE  \/ Store!Create(t) \/ Store!AppendTo(t) \/ Store!Delete(t) \/ Store!Read(t)
           \/ Store!Refuse(t) \/ Store!Return(t) \/ UNCHANGED Store!storeVars
  <1>1. up /\ up'
    BY StepsRun, StepsKeepUp
  <1>2. TypeInv /\ OpOK(t) /\ KnowsOK(t)
    BY <1>1 DEF StoreInv, DataInv
  <1>3. ServingInv /\ ServingInv'
    BY <1>1, StoreServes, PTL
  <1>4. CASE ReadStep(t)
    BY <1>2, <1>3, <1>4, ReadStepMaps
  <1>5. CASE AppendStep(t)
    BY <1>1, <1>2, <1>5, AppendStepMaps
  <1>6. CASE CreateStep(t)
    BY <1>1, <1>2, <1>6, CreateStepMaps
  <1>7. CASE DeleteStep(t)
    BY <1>2, <1>3, <1>7, DeleteStepMaps
  <1>8. CASE EndRequest(t)
    BY <1>2, <1>8, EndRequestMaps
  <1>9. QED
    BY <1>4, <1>5, <1>6, <1>7, <1>8 DEF Step

LEMMA HiddenFromStore ==
    ASSUME UNCHANGED << disk, pc, req, loc, outcome >>
    PROVE  UNCHANGED Store!storeVars
  <1>1. /\ req' = req /\ UNCHANGED disk
        /\ \A t \in Thread : pc'[t] = pc[t] /\ outcome'[t] = outcome[t] /\ loc'[t] = loc[t]
    OBVIOUS
  <1>2. FilesOnDisk' = FilesOnDisk
    BY <1>1, DiskView
  <1>3. \A t \in Thread : PhaseOf(t)' = PhaseOf(t)
    BY <1>1 DEF PhaseOf
  <1>4. \A t \in Thread : AnswerOf(t)' = AnswerOf(t)
    BY <1>1, <1>3 DEF AnswerOf
  <1>5. QED
    BY <1>1, <1>2, <1>3, <1>4 DEF Store!storeVars

LEMMA NextMaps ==
    StoreInv /\ DataInv /\ StoreInv' /\ [Next]_vars => [Store!StoreNext]_(Store!storeVars)
  <1> SUFFICES ASSUME StoreInv, DataInv, StoreInv', [Next]_vars
               PROVE  [Store!StoreNext]_(Store!storeVars)
    OBVIOUS
  <1>1. TypeInv /\ \A t \in Thread : OpOK(t)
    BY DEF StoreInv, DataInv
  <1>2. ASSUME NEW t \in Thread, Step(t) PROVE [Store!StoreNext]_(Store!storeVars)
    BY <1>2, StepMaps DEF Store!StoreNext
  <1>3. ASSUME NEW t \in Thread, NEW r \in Request, Accept(t, r)
        PROVE  [Store!StoreNext]_(Store!storeVars)
    BY <1>1, <1>3, AcceptMaps DEF Store!StoreNext
  <1>4. CASE Crash
    BY <1>1, <1>4, CrashMaps DEF Store!StoreNext
  <1>5. CASE UNCHANGED vars
    BY <1>5, HiddenFromStore DEF vars
  <1>6. QED
    BY <1>2, <1>3, <1>4, <1>5 DEF Next, Quiet

\* What a handler remembers of the disk between two of its steps - the inode
\* it read, the bytes of the blocks it copied, the entry it found - is still
\* what the disk says, while the locks it holds are held (fs.cc:398-990).
THEOREM DataInvAlways == Spec => []DataInv
  <1>1. Init => StoreInv /\ DataInv
    BY StoreInvInit, DataInvInit
  <1>2. StoreInv /\ DataInv /\ [Next]_vars => StoreInv' /\ DataInv'
    BY StoreInvStep, DataInvStep
  <1>3. QED
    BY <1>1, <1>2, PTL DEF Spec

\* The server is linearizable and atomic: whatever the handlers of any number
\* of connections do between their lock calls, and wherever the process dies,
\* each request takes effect at one step - a write of the disk, or the last
\* block a read copies - and what it answers is true of the files then.
THEOREM ServerImplementsStore == Spec => ImplementsStore
  <1>1. Init => StoreInv
    BY StoreInvInit
  <1>2. StoreInv /\ [Next]_vars => StoreInv'
    BY StoreInvStep
  <1>3. QED
    BY <1>1, <1>2, InitMaps, NextMaps, DataInvAlways, PTL
       DEF Spec, ImplementsStore, Store!StoreSpec

=============================================================================
