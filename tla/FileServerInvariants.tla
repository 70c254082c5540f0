------------------------ MODULE FileServerInvariants ------------------------
(***************************************************************************)
(* Exclusion and TypeOK hold for every set of connections and requests and *)
(* every size of the disk, its blocks, its tables and its inodes: no two   *)
(* handlers are where the locks keep them apart, and no handler reads past *)
(* the blocks of a file, takes a block that is not there, or writes past   *)
(* the array of an inode.                                                  *)
(*                                                                         *)
(* Exclusion is not inductive: it says nothing of the holders of the       *)
(* locks.  LockInv adds that a thread at a step under a lock is among the  *)
(* holders, in the mode it asked for, and that a writer is alone.  The     *)
(* converse does not hold: the create that finds no space for a table      *)
(* keeps the directory lock after its request.                             *)
(*                                                                         *)
(* TypeInv is the inductive strengthening of TypeOK.  It adds LockInv,     *)
(* that every inode has as many blocks as its size needs, how far each     *)
(* handler is (what is left of the data, the blocks taken for it and the   *)
(* blocks linked always add up), and that the slot a create or delete      *)
(* found is still in the directory, which rests on the lock discipline.    *)
(*                                                                         *)
(* StoreInv is why no block is used twice and why the disk is consistent   *)
(* at every step: the invariant behind BlocksOwnedOnce and DiskConsistent. *)
(* It gives every block one owner: block 0, the free list, the directory,  *)
(* a file (named by its name, for a delete moves the slots of the others)  *)
(* or the thread that took it.  A step of a handler moves some blocks from *)
(* one owner to another and leaves the others where they are.  StoreInv    *)
(* also says what each handler knows: the entry an append found is still   *)
(* the file's, its copy of the inode is the one on disk but for the blocks *)
(* it linked, the slot and the table a create or delete read have not      *)
(* changed, and what a create wrote is on the disk.  The lemmas at the end *)
(* say how a step may change it; its proof is in FileServerStoreProofs.    *)
(***************************************************************************)
EXTENDS FileServerProperties, SequenceTheorems, TLAPS

-----------------------------------------------------------------------------
(* What the sizes and the views of a block are, for every size of a block  *)
(* and of the disk.                                                        *)

\* Division with remainder by the size of a block.
LEMMA BlockDivision ==
    ASSUME NEW n \in Nat
    PROVE  /\ n \div BlockSize \in Nat
           /\ n % BlockSize \in 0 .. BlockSize - 1
           /\ n = BlockSize * (n \div BlockSize) + (n % BlockSize)
  <1>1. BlockSize \in Nat /\ BlockSize > 0
    BY LayoutAssumption
  <1>2. n \div BlockSize \in Nat
    BY <1>1
  <1>3. n % BlockSize \in 0 .. BlockSize - 1
    BY <1>1
  <1>4. n = BlockSize * (n \div BlockSize) + (n % BlockSize)
    BY <1>1
  <1>5. QED
    BY <1>2, <1>3, <1>4

\* The quotient is the only number with a remainder below the block size.
LEMMA BlockDivisionUnique ==
    ASSUME NEW n \in Nat, NEW q \in Nat, NEW r \in 0 .. BlockSize - 1,
           n = BlockSize * q + r
    PROVE  q = n \div BlockSize /\ r = n % BlockSize
  BY LayoutAssumption

\* CeilDiv(n) is the least number of blocks that hold n bytes.
LEMMA CeilDivBounds ==
    ASSUME NEW n \in Nat
    PROVE  /\ CeilDiv(n) \in Nat
           /\ n <= BlockSize * CeilDiv(n)
           /\ BlockSize * CeilDiv(n) < n + BlockSize
  BY LayoutAssumption, BlockDivision, n + BlockSize - 1 \in Nat DEF CeilDiv

\* More blocks hold at least one block more.
LEMMA BlocksMonotone ==
    ASSUME NEW a \in Nat, NEW b \in Nat, a < b
    PROVE  BlockSize * a + BlockSize <= BlockSize * b
  <1>1. PICK d \in Nat : b = a + 1 + d
    BY b - a - 1 \in Nat
  <1>2. BlockSize * b = BlockSize * a + BlockSize + BlockSize * d
    BY <1>1, LayoutAssumption
  <1>3. BlockSize * d \in Nat /\ BlockSize * a \in Nat
    BY LayoutAssumption
  <1>4. QED
    BY <1>2, <1>3, LayoutAssumption

LEMMA CeilDivUnique ==
    ASSUME NEW n \in Nat, NEW k \in Nat,
           n <= BlockSize * k, BlockSize * k < n + BlockSize
    PROVE  CeilDiv(n) = k
  <1> DEFINE c == CeilDiv(n)
  <1>1. c \in Nat /\ n <= BlockSize * c /\ BlockSize * c < n + BlockSize
    BY CeilDivBounds
  <1>2. BlockSize * c \in Nat /\ BlockSize * k \in Nat /\ BlockSize \in Nat
    BY <1>1, LayoutAssumption
  <1> HIDE DEF c
  <1>3. ~(c < k)
    BY <1>1, <1>2, BlocksMonotone
  <1>4. ~(k < c)
    BY <1>1, <1>2, BlocksMonotone
  <1>5. c = k
    BY <1>1, <1>3, <1>4
  <1>6. QED
    BY <1>5 DEF c

\* n bytes fit k blocks exactly when the blocks they need do.
LEMMA CeilDivFits ==
    ASSUME NEW n \in Nat, NEW k \in Nat
    PROVE  CeilDiv(n) <= k <=> n <= BlockSize * k
  <1> DEFINE c == CeilDiv(n)
  <1>1. c \in Nat /\ n <= BlockSize * c /\ BlockSize * c < n + BlockSize
    BY CeilDivBounds
  <1>2. BlockSize * c \in Nat /\ BlockSize * k \in Nat /\ BlockSize \in Nat
    BY <1>1, LayoutAssumption
  <1> HIDE DEF c
  <1>3. ASSUME c < k PROVE BlockSize * c <= BlockSize * k
    BY <1>1, <1>2, <1>3, BlocksMonotone
  <1>4. ASSUME k < c PROVE BlockSize * k < n
    BY <1>1, <1>2, <1>4, BlocksMonotone
  <1>5. c <= k <=> n <= BlockSize * k
    BY <1>1, <1>2, <1>3, <1>4
  <1>6. QED
    BY <1>5 DEF c

\* No blocks for no bytes, one at least for some, one less without a block.
LEMMA CeilDivSteps ==
    /\ CeilDiv(0) = 0
    /\ \A n \in Nat \ {0} : CeilDiv(n) > 0
    /\ \A n \in Nat : 0 < n /\ n <= BlockSize => CeilDiv(n) = 1
    /\ \A n \in Nat : n > BlockSize => CeilDiv(n - BlockSize) = CeilDiv(n) - 1
  <1> USE LayoutAssumption
  <1>1. CeilDiv(0) = 0
    BY CeilDivUnique
  <1>2. ASSUME NEW n \in Nat \ {0} PROVE CeilDiv(n) > 0
    BY CeilDivFits, CeilDivBounds
  <1>3. ASSUME NEW n \in Nat, 0 < n, n <= BlockSize PROVE CeilDiv(n) = 1
    BY <1>3, CeilDivUnique
  <1>4. ASSUME NEW n \in Nat, n > BlockSize
        PROVE CeilDiv(n - BlockSize) = CeilDiv(n) - 1
    <2>1. CeilDiv(n) \in Nat /\ CeilDiv(n) > 0
      BY <1>2, <1>4, CeilDivBounds
    <2>2. PICK k \in Nat : CeilDiv(n) = k + 1
      BY <2>1, CeilDiv(n) - 1 \in Nat
    <2>3. n <= BlockSize * (k + 1) /\ BlockSize * (k + 1) < n + BlockSize
      BY <2>2, CeilDivBounds
    <2>4. BlockSize * (k + 1) = BlockSize * k + BlockSize /\ BlockSize * k \in Nat
      OBVIOUS
    <2>5. n - BlockSize \in Nat
      BY <1>4
    <2>6. CeilDiv(n - BlockSize) = k
      BY <2>3, <2>4, <2>5, CeilDivUnique
    <2>7. QED
      BY <2>2, <2>6
  <1>5. QED
    BY <1>1, <1>2, <1>3, <1>4

\* The block of a byte below the size of a file is one of its blocks.
LEMMA BlockOfByte ==
    ASSUME NEW n \in Nat, NEW i \in Nat, i < n
    PROVE  (i \div BlockSize) + 1 \in 1 .. CeilDiv(n)
  <1> DEFINE q == i \div BlockSize
             r == i % BlockSize
             c == CeilDiv(n)
  <1>1. q \in Nat /\ r \in 0 .. BlockSize - 1 /\ i = BlockSize * q + r
    BY BlockDivision
  <1>2. c \in Nat /\ n <= BlockSize * c
    BY CeilDivBounds
  <1>3. BlockSize * q \in Nat /\ BlockSize * c \in Nat /\ BlockSize \in Nat
    BY <1>1, <1>2, LayoutAssumption
  <1> HIDE DEF q, r, c
  <1>4. ~(c < q)
    BY <1>1, <1>2, <1>3, BlocksMonotone
  <1>5. c # q
    BY <1>1, <1>2, <1>3
  <1>6. q + 1 \in 1 .. c
    BY <1>1, <1>2, <1>4, <1>5
  <1>7. QED
    BY <1>6 DEF q, c

\* A file with a partly filled last block has one block past its full ones.
LEMMA PartialBlock ==
    ASSUME NEW n \in Nat, n % BlockSize > 0
    PROVE  /\ CeilDiv(n) = (n \div BlockSize) + 1
           /\ BlockSize * CeilDiv(n) = n - (n % BlockSize) + BlockSize
  <1> DEFINE q == n \div BlockSize
             r == n % BlockSize
  <1>1. q \in Nat /\ r \in 1 .. BlockSize - 1 /\ n = BlockSize * q + r
    BY BlockDivision, LayoutAssumption
  <1>2. BlockSize * (q + 1) = BlockSize * q + BlockSize /\ BlockSize * q \in Nat
    BY <1>1, LayoutAssumption
  <1> HIDE DEF q, r
  <1>3. CeilDiv(n) = q + 1
    BY <1>1, <1>2, CeilDivUnique, LayoutAssumption
  <1>4. BlockSize * CeilDiv(n) = n - r + BlockSize
    BY <1>1, <1>2, <1>3, LayoutAssumption
  <1>5. QED
    BY <1>3, <1>4 DEF q, r

\* A file without a partly filled block fills its blocks.
LEMMA FullBlocks ==
    ASSUME NEW n \in Nat, n % BlockSize = 0
    PROVE  BlockSize * CeilDiv(n) = n
  <1> DEFINE q == n \div BlockSize
  <1>1. q \in Nat /\ n = BlockSize * q
    BY BlockDivision, LayoutAssumption
  <1> HIDE DEF q
  <1>2. CeilDiv(n) = q
    BY <1>1, CeilDivUnique, LayoutAssumption
  <1>3. QED
    BY <1>1, <1>2

-----------------------------------------------------------------------------
(* The views of a block have their types.                                  *)

LEMMA ZeroIsBlock == 0 \in Block
  BY LayoutAssumption DEF Block

LEMMA FreshTypes ==
    /\ EmptyTable \in Table
    /\ EmptyBytes \in Bytes
    /\ EmptyInode(NoUser) \in Inode
    /\ \A u \in User : EmptyInode(u) \in Inode
  BY ZeroIsBlock DEF EmptyTable, UnusedEntry, Table, Entry, EmptyBytes, Bytes,
                     EmptyInode, Inode

LEMMA ContentViews ==
    ASSUME NEW c \in Content
    PROVE  /\ AsDirectory(c) \in Seq(Block)
           /\ AsTable(c) \in Table
           /\ AsInode(c) \in Inode
           /\ AsBytes(c) \in Bytes
  BY FreshTypes DEF Content, Inode, AsDirectory, AsTable, AsInode, AsBytes

LEMMA BlocksOfContent ==
    /\ \A bs \in Seq(Block) : DirectoryBlock(bs) \in Content
    /\ \A tab \in Table : TableBlock(tab) \in Content
    /\ \A bytes \in Bytes : DataBlock(bytes) \in Content
    /\ Inode \subseteq Content
  BY DEF Content, DirectoryBlock, TableBlock, DataBlock

LEMMA TableUpdates ==
    ASSUME NEW tab \in Table, NEW j \in 1 .. DirEntries
    PROVE  /\ \A n \in Name, b \in Block : WithEntry(tab, j, n, b) \in Table
           /\ WithoutEntry(tab, j) \in Table
  BY ZeroIsBlock DEF Table, Entry, WithEntry, WithoutEntry

\* A copy into a block leaves bytes, and what is left of the data has its
\* length.
LEMMA OverlayType ==
    ASSUME NEW old \in Bytes, NEW offset \in Nat, NEW d \in Seq(Byte)
    PROVE  Overlay(old, offset, d) \in Bytes
  BY LayoutAssumption DEF Overlay, Bytes

LEMMA RestLength ==
    ASSUME NEW offset \in 0 .. BlockSize - 1, NEW d \in Seq(Byte)
    PROVE  /\ Rest(offset, d) \in Seq(Byte)
           /\ Len(d) <= BlockSize - offset => Rest(offset, d) = << >>
           /\ Len(d) > BlockSize - offset =>
                Len(Rest(offset, d)) = Len(d) - (BlockSize - offset)
  BY LayoutAssumption DEF Rest

LEMMA SliceType ==
    ASSUME NEW bytes \in Bytes, NEW offset \in 0 .. BlockSize - 1, NEW n \in Nat
    PROVE  /\ Slice(bytes, offset, n) \in Seq(Byte \cup {NoByte})
           /\ Len(Slice(bytes, offset, n)) <= n
  BY LayoutAssumption DEF Slice, Bytes

LEMMA DropAtType ==
    ASSUME NEW S, NEW s \in Seq(S), NEW i \in 1 .. Len(s)
    PROVE  DropAt(s, i) \in Seq(S) /\ Len(DropAt(s, i)) = Len(s) - 1
  <1>1. /\ SubSeq(s, 1, i - 1) \in Seq(S)
        /\ Len(SubSeq(s, 1, i - 1)) = i - 1
    BY SubSeqProperties
  <1>2. /\ SubSeq(s, i + 1, Len(s)) \in Seq(S)
        /\ Len(SubSeq(s, i + 1, Len(s))) = Len(s) - i
    <2>1. \A k \in i + 1 .. Len(s) : s[k] \in S
      OBVIOUS
    <2>2. i + 1 \in Int /\ Len(s) \in Int
      OBVIOUS
    <2>3. /\ SubSeq(s, i + 1, Len(s)) \in Seq(S)
          /\ Len(SubSeq(s, i + 1, Len(s))) =
               IF i + 1 <= Len(s) THEN Len(s) - (i + 1) + 1 ELSE 0
      BY <2>1, <2>2, SubSeqProperties
    <2>4. QED
      BY <2>3
  <1>3. ASSUME NEW a \in Seq(S), NEW b \in Seq(S)
        PROVE  a \o b \in Seq(S) /\ Len(a \o b) = Len(a) + Len(b)
    OBVIOUS
  <1>4. /\ DropAt(s, i) \in Seq(S)
        /\ Len(DropAt(s, i)) = (i - 1) + (Len(s) - i)
    BY <1>1, <1>2, <1>3, Zenon DEF DropAt
  <1>5. QED
    BY <1>4

-----------------------------------------------------------------------------
(* The locks.                                                              *)

OneWriter(holds) == \A g, h \in holds : g.mode = "write" => g = h

LockTypeOK ==
    /\ pc \in [Thread -> Label]
    /\ req \in [Thread -> RequestType \cup {NoRequest}]
    /\ the_lock \in SUBSET Hold
    /\ file_lock \in [Name -> SUBSET Hold]

LockInv ==
    /\ LockTypeOK
    /\ \A t \in Thread : pc[t] \notin {"new", "reply", "done"} => req[t] \in RequestType
    /\ OneWriter(the_lock)
    /\ \A t \in ReadingDir : [thread |-> t, mode |-> "read"] \in the_lock
    /\ \A t \in WritingDir : [thread |-> t, mode |-> "write"] \in the_lock
    /\ \A n \in Name :
         /\ OneWriter(file_lock[n])
         /\ \A t \in ReadingFile(n) : [thread |-> t, mode |-> "read"] \in file_lock[n]
         /\ \A t \in WritingFile(n) : [thread |-> t, mode |-> "write"] \in file_lock[n]

\* No thread holds a lock when main() starts the server.
LEMMA LockInvInit == Init => LockInv
  BY DEF Init, LockInv, LockTypeOK, OneWriter, ReadingDir, WritingDir,
         ReadingFile, WritingFile, ReadingDirLabel, WritingDirLabel,
         ReadingFileLabel, WritingFileLabel, Label, ReadLabel, AppendLabel,
         CreateLabel, DeleteLabel

\* An early return or the end of a handler: the lock is released as the
\* thread leaves the steps under it.
LEMMA LockInvUnlockDir ==
    ASSUME LockInv, NEW t \in Thread, NEW why, UnlockDir(t), Return(t, why),
           UNCHANGED req, pc[t] \notin ReadingFileLabel \cup WritingFileLabel
    PROVE  LockInv'
  BY DEF LockInv, LockTypeOK, OneWriter, Hold, RequestType, UnlockDir, Return,
         Without, ReadingDir, WritingDir, ReadingFile, WritingFile,
         ReadingDirLabel, WritingDirLabel, ReadingFileLabel, WritingFileLabel,
         Label, ReadLabel, AppendLabel, CreateLabel, DeleteLabel

LEMMA LockInvUnlockBoth ==
    ASSUME LockInv, NEW t \in Thread, NEW why, UnlockBoth(t, req[t].name),
           Return(t, why), UNCHANGED req
    PROVE  LockInv'
  BY DEF LockInv, LockTypeOK, OneWriter, Hold, RequestType, UnlockBoth, Return,
         Without, ReadingDir, WritingDir, ReadingFile, WritingFile,
         ReadingDirLabel, WritingDirLabel, ReadingFileLabel, WritingFileLabel,
         Label, ReadLabel, AppendLabel, CreateLabel, DeleteLabel

\* A step that stays under the locks it has, or under none.
LEMMA LockInvGoto ==
    ASSUME LockInv, NEW t \in Thread, NEW label \in Label, Goto(t, label),
           UNCHANGED << the_lock, file_lock, req >>,
           req[t] \in RequestType \/ label = "reply",
           label \in ReadingDirLabel => pc[t] \in ReadingDirLabel,
           label \in WritingDirLabel => pc[t] \in WritingDirLabel,
           label \in ReadingFileLabel => pc[t] \in ReadingFileLabel,
           label \in WritingFileLabel => pc[t] \in WritingFileLabel
    PROVE  LockInv'
  BY DEF LockInv, LockTypeOK, OneWriter, Goto, ReadingDir, WritingDir,
         ReadingFile, WritingFile

\* Every step of every handler keeps the lock discipline.
LEMMA LockInvStep == LockInv /\ [Next]_vars => LockInv'
  <1> SUFFICES ASSUME LockInv, [Next]_vars PROVE LockInv'
    OBVIOUS
  <1> USE DEF LockInv, LockTypeOK, OneWriter, Hold, RequestType, At, Goto,
           ReadingDir, WritingDir, ReadingFile, WritingFile,
           ReadingDirLabel, WritingDirLabel, ReadingFileLabel,
           WritingFileLabel, Label, ReadLabel, AppendLabel, CreateLabel,
           DeleteLabel
  <1>1. ASSUME NEW t \in Thread, NEW r \in Request, Accept(t, r)
        PROVE LockInv'
    <2>1. req' = [req EXCEPT ![t] = r] /\ r \in RequestType /\ At(t, "new")
          /\ UNCHANGED << the_lock, file_lock >>
      BY <1>1, RequestAssumption DEF Accept, locks
    <2>2. PICK l \in {"read_lock", "append_room", "create_reserve",
                      "delete_lock", "reply"} : pc' = [pc EXCEPT ![t] = l]
      BY <1>1, <2>1 DEF Accept, FirstStep, Return, Op
    <2>3. QED
      BY <2>1, <2>2
  <1>2. ASSUME NEW t \in Thread, ReadStep(t) PROVE LockInv'
    <2>1. CASE ReadLock(t)
      BY <2>1 DEF ReadLock, LockDir, With, CanRead
    <2>2. CASE ReadFind(t)
      <3>1. \/ UnlockDir(t) /\ \E why : Return(t, why)
            \/ UNCHANGED locks /\ Goto(t, "read_filelock")
        BY <2>2 DEF ReadFind
      <3>2. At(t, "read_find") /\ UNCHANGED req
        BY <2>2 DEF ReadFind
      <3>3. QED
        BY <3>1, <3>2, LockInvUnlockDir, LockInvGoto DEF locks
    <2>3. CASE ReadFileLock(t)
      BY <2>3 DEF ReadFileLock, LockFile, With, CanRead
    <2>4. CASE ReadInode(t)
      <3>1. \/ UnlockBoth(t, req[t].name) /\ \E why : Return(t, why)
            \/ UNCHANGED locks /\ Goto(t, "read_block")
        BY <2>4 DEF ReadInode
      <3>2. At(t, "read_inode") /\ UNCHANGED req
        BY <2>4 DEF ReadInode
      <3>3. QED
        BY <3>1, <3>2, LockInvUnlockBoth, LockInvGoto DEF locks
    <2>5. CASE ReadBlock(t)
      BY <2>5 DEF ReadBlock, locks
    <2>6. CASE ReadUnlock(t)
      BY <2>6 DEF ReadUnlock, Return, UnlockBoth, Without
    <2>7. QED
      BY <1>2, <2>1, <2>2, <2>3, <2>4, <2>5, <2>6 DEF ReadStep
  <1>3. ASSUME NEW t \in Thread, AppendStep(t) PROVE LockInv'
    <2>1. CASE AppendRoom(t)
      <3>1. PICK l \in {"append_lock", "reply"} : pc' = [pc EXCEPT ![t] = l]
        BY <2>1 DEF AppendRoom, Return
      <3>2. At(t, "append_room") /\ UNCHANGED << the_lock, file_lock, req >>
        BY <2>1 DEF AppendRoom, locks
      <3>3. QED
        BY <3>1, <3>2
    <2>2. CASE AppendLock(t)
      BY <2>2 DEF AppendLock, LockDir, With, CanRead
    <2>3. CASE AppendFind(t)
      <3>1. \/ UnlockDir(t) /\ \E why : Return(t, why)
            \/ UNCHANGED locks /\ Goto(t, "append_filelock")
        BY <2>3 DEF AppendFind
      <3>2. At(t, "append_find") /\ UNCHANGED req
        BY <2>3 DEF AppendFind
      <3>3. QED
        BY <3>1, <3>2, LockInvUnlockDir, LockInvGoto DEF locks
    <2>4. CASE AppendFileLock(t)
      BY <2>4 DEF AppendFileLock, LockFile, With, CanWrite
    <2>5. CASE AppendInode(t)
      <3>1. \/ UnlockBoth(t, req[t].name) /\ \E why : Return(t, why)
            \/ UNCHANGED locks /\ Goto(t, "append_alloc")
        BY <2>5 DEF AppendInode
      <3>2. At(t, "append_inode") /\ UNCHANGED req
        BY <2>5 DEF AppendInode
      <3>3. QED
        BY <3>1, <3>2, LockInvUnlockBoth, LockInvGoto DEF locks
    <2>6. CASE AppendAlloc(t)
      <3>1. \/ UnlockBoth(t, req[t].name) /\ \E why : Return(t, why)
            \/ UNCHANGED locks /\ \E l \in {"append_data", "append_partial"} : Goto(t, l)
        BY <2>6 DEF AppendAlloc
      <3>2. At(t, "append_alloc") /\ UNCHANGED req
        BY <2>6 DEF AppendAlloc
      <3>3. QED
        BY <3>1, <3>2, LockInvUnlockBoth, LockInvGoto DEF locks
    <2>7. CASE AppendPartial(t)
      BY <2>7 DEF AppendPartial, locks
    <2>8. CASE AppendData(t)
      BY <2>8 DEF AppendData, locks
    <2>9. CASE AppendCommit(t)
      BY <2>9 DEF AppendCommit, locks
    <2>10. CASE AppendUnlock(t)
      BY <2>10 DEF AppendUnlock, Return, UnlockBoth, Without
    <2>11. QED
      BY <1>3, <2>1, <2>2, <2>3, <2>4, <2>5, <2>6, <2>7, <2>8, <2>9, <2>10 DEF AppendStep
  <1>4. ASSUME NEW t \in Thread, CreateStep(t) PROVE LockInv'
    <2>1. CASE CreateReserve(t)
      BY <2>1 DEF CreateReserve, Return, locks
    <2>2. CASE CreateLock(t)
      BY <2>2 DEF CreateLock, LockDir, With, CanWrite
    <2>3. CASE CreateScan(t)
      <3>1. \/ UnlockDir(t) /\ \E why : Return(t, why)
            \/ UNCHANGED locks /\ \E l \in {"create_inode", "create_extend"} : Goto(t, l)
        BY <2>3 DEF CreateScan
      <3>2. At(t, "create_scan") /\ UNCHANGED req
        BY <2>3 DEF CreateScan
      <3>3. QED
        BY <3>1, <3>2, LockInvUnlockDir, LockInvGoto DEF locks
    <2>4. CASE CreateInode(t)
      BY <2>4 DEF CreateInode, locks
    <2>5. CASE CreateEntry(t)
      BY <2>5 DEF CreateEntry, locks
    <2>6. CASE CreateExtend(t)
      BY <2>6 DEF CreateExtend, Return, locks
    <2>7. CASE CreateNewInode(t)
      BY <2>7 DEF CreateNewInode, locks
    <2>8. CASE CreateNewTable(t)
      BY <2>8 DEF CreateNewTable, locks
    <2>9. CASE CreateDirInode(t)
      BY <2>9 DEF CreateDirInode, locks
    <2>10. CASE CreateUnlock(t)
      BY <2>10 DEF CreateUnlock, Return, UnlockDir, Without
    <2>11. QED
      BY <1>4, <2>1, <2>2, <2>3, <2>4, <2>5, <2>6, <2>7, <2>8, <2>9, <2>10 DEF CreateStep
  <1>5. ASSUME NEW t \in Thread, DeleteStep(t) PROVE LockInv'
    <2>1. CASE DeleteLock(t)
      BY <2>1 DEF DeleteLock, LockDir, With, CanWrite
    <2>2. CASE DeleteFind(t)
      <3>1. \/ UnlockDir(t) /\ \E why : Return(t, why)
            \/ UNCHANGED locks /\ \E l \in {"delete_free_table", "delete_entry"} : Goto(t, l)
        BY <2>2 DEF DeleteFind
      <3>2. At(t, "delete_find") /\ UNCHANGED req
        BY <2>2 DEF DeleteFind
      <3>3. QED
        BY <3>1, <3>2, LockInvUnlockDir, LockInvGoto DEF locks
    <2>3. CASE DeleteFreeTable(t)
      BY <2>3 DEF DeleteFreeTable, locks
    <2>4. CASE DeleteDirInode(t)
      BY <2>4 DEF DeleteDirInode, locks
    <2>5. CASE DeleteEntry(t)
      BY <2>5 DEF DeleteEntry, locks
    <2>6. CASE DeleteFree(t)
      BY <2>6 DEF DeleteFree, locks
    <2>7. CASE DeleteUnlock(t)
      BY <2>7 DEF DeleteUnlock, Return, UnlockDir, Without
    <2>8. QED
      BY <1>5, <2>1, <2>2, <2>3, <2>4, <2>5, <2>6, <2>7 DEF DeleteStep
  <1>6. ASSUME NEW t \in Thread, EndRequest(t) PROVE LockInv'
    BY <1>6 DEF EndRequest, locks
  <1>7. CASE Crash
    BY <1>7 DEF Crash
  <1>8. CASE Quiet \/ UNCHANGED vars
    BY <1>8 DEF Quiet, vars
  <1>9. QED
    BY <1>1, <1>2, <1>3, <1>4, <1>5, <1>6, <1>7, <1>8 DEF Next, Step

\* Two threads that hold a lock, one of them as a writer, are the same.
LEMMA LockInvExclusion == LockInv => Exclusion
  <1> SUFFICES ASSUME LockInv PROVE Exclusion
    OBVIOUS
  <1> USE DEF LockInv, LockTypeOK, OneWriter, Hold
  <1>1. ASSUME NEW t \in WritingDir
        PROVE ReadingDir = {} /\ WritingDir = {t}
    <2>1. [thread |-> t, mode |-> "write"] \in the_lock
      OBVIOUS
    <2>2. ASSUME NEW u \in ReadingDir PROVE FALSE
      BY <2>1
    <2>3. ASSUME NEW u \in WritingDir PROVE u = t
      <3>1. [thread |-> u, mode |-> "write"] \in the_lock
        OBVIOUS
      <3>2. QED
        BY <2>1, <3>1
    <2>4. QED
      BY <2>2, <2>3
  <1>2. ASSUME NEW n \in Name, NEW t \in WritingFile(n)
        PROVE ReadingFile(n) = {} /\ WritingFile(n) = {t}
    <2>1. [thread |-> t, mode |-> "write"] \in file_lock[n]
      OBVIOUS
    <2>2. ASSUME NEW u \in ReadingFile(n) PROVE FALSE
      BY <2>1
    <2>3. ASSUME NEW u \in WritingFile(n) PROVE u = t
      <3>1. [thread |-> u, mode |-> "write"] \in file_lock[n]
        OBVIOUS
      <3>2. QED
        BY <2>1, <3>1
    <2>4. QED
      BY <2>2, <2>3
  <1>3. QED
    BY <1>1, <1>2 DEF Exclusion

\* A create or delete has the directory to itself, and an append its file,
\* in every execution of the server.
THEOREM ExclusionAlways == Spec => []Exclusion
  <1>1. Init => LockInv
    BY LockInvInit
  <1>2. LockInv /\ [Next]_vars => LockInv'
    BY LockInvStep
  <1>3. LockInv => Exclusion
    BY LockInvExclusion
  <1>4. QED
    BY <1>1, <1>2, <1>3, PTL DEF Spec

-----------------------------------------------------------------------------
(* Types.                                                                  *)

InodeOK(i) == Len(i.blocks) = CeilDiv(i.size) /\ Fits(i.blocks)

\* How far the handler at a step is, from its request r and its variables l.
ReadOK(label, r, l) ==
    /\ label \in ReadLabel => Valid(r) /\ r.op = "read"
    /\ label \in ReadLabel \ {"read_block", "read_unlock"} => l.result = << >>
    /\ label = "read_block" =>
         /\ InodeOK(l.inode)
         /\ r.offset + r.size <= l.inode.size
         /\ Len(l.result) < r.size

AppendOK(label, r, l) ==
    /\ label \in {"append_room", "append_lock", "append_find",
                  "append_filelock", "append_inode", "append_alloc",
                  "append_partial"} => l.data = r.data /\ l.data # << >>
    /\ label \in {"append_alloc", "append_partial"} => InodeOK(l.inode)
    /\ label = "append_partial" =>
         /\ l.inode.size % BlockSize > 0
         /\ l.inode.size + Len(l.data) <= MaxFileSize
         /\ Len(l.tmp) = BlocksToAdd(l.inode.size, Len(l.data))
    /\ label = "append_data" =>
         /\ l.data # << >>
         /\ Len(l.tmp) = CeilDiv(Len(l.data))
         /\ BlockSize * Len(l.inode.blocks) + Len(l.data) = l.inode.size + Len(r.data)
         /\ l.inode.size + Len(r.data) <= MaxFileSize
    /\ label = "append_commit" =>
         /\ l.data = << >> /\ l.tmp = << >>
         /\ Len(l.inode.blocks) = CeilDiv(l.inode.size + Len(r.data))

DirectoryOK(label, l, tables) ==
    /\ label \in {"create_inode", "create_entry", "delete_free_table",
                  "delete_dir_inode", "delete_entry"} => l.slot[1] <= tables
    /\ label \in {"create_new_inode", "create_new_table", "create_dir_inode"} =>
         tables < MaxFileBlocks
    /\ label \in {"delete_free_table", "delete_dir_inode", "delete_entry",
                  "delete_free"} => InodeOK(l.inode)

LocalOK(label, r, l, tables) ==
    /\ label = "new" => l = NoLocals
    /\ ReadOK(label, r, l)
    /\ AppendOK(label, r, l)
    /\ DirectoryOK(label, l, tables)

MemoryOK ==
    dir_inode \in Seq(Block) /\ free_block \in Seq(Block) /\ Fits(dir_inode)

ContentOK(c) ==
    /\ c \in Content
    /\ c.kind = "directory" => Fits(c.blocks)
    /\ c.kind = "inode" => InodeOK(c)

DiskOK == disk \in [Block -> Content] /\ \A b \in Block : ContentOK(disk[b])

TypeInv ==
    /\ TypeOK
    /\ LockInv
    /\ DiskOK
    /\ \A t \in Thread : LocalOK(pc[t], req[t], loc[t], Len(dir_inode))

-----------------------------------------------------------------------------
(* What every step of a handler leaves alone, and how a step keeps TypeInv.*)

LEMMA OthersUnchanged ==
    ASSUME TypeOK, NEW t \in Thread, Step(t), NEW u \in Thread \ {t}
    PROVE  pc'[u] = pc[u] /\ req'[u] = req[u] /\ loc'[u] = loc[u]
  <1> USE DEF TypeOK, Goto, Return
  <1>1. CASE ReadStep(t)
    BY <1>1 DEF ReadStep, ReadLock, ReadFind, ReadFileLock, ReadInode,
       ReadBlock, ReadUnlock
  <1>2. CASE AppendStep(t)
    BY <1>2 DEF AppendStep, AppendRoom, AppendLock, AppendFind,
       AppendFileLock, AppendInode, AppendAlloc, AppendPartial, AppendData,
       AppendCommit, AppendUnlock
  <1>3. CASE CreateStep(t)
    BY <1>3 DEF CreateStep, CreateReserve, CreateLock, CreateScan,
       CreateInode, CreateEntry, CreateExtend, CreateNewInode, CreateNewTable,
       CreateDirInode, CreateUnlock
  <1>4. CASE DeleteStep(t)
    BY <1>4 DEF DeleteStep, DeleteLock, DeleteFind, DeleteFreeTable,
       DeleteDirInode, DeleteEntry, DeleteFree, DeleteUnlock
  <1>5. CASE EndRequest(t)
    BY <1>5 DEF EndRequest
  <1>6. QED
    BY <1>1, <1>2, <1>3, <1>4, <1>5 DEF Step

LEMMA ControlUnchanged ==
    ASSUME TypeOK, NEW t \in Thread, Step(t)
    PROVE  up' = up /\ outcome' \in [Thread -> Outcome]
  <1> USE DEF TypeOK, Goto, Return, Outcome
  <1>1. CASE ReadStep(t)
    BY <1>1 DEF ReadStep, ReadLock, ReadFind, ReadFileLock, ReadInode,
       ReadBlock, ReadUnlock
  <1>2. CASE AppendStep(t)
    BY <1>2 DEF AppendStep, AppendRoom, AppendLock, AppendFind,
       AppendFileLock, AppendInode, AppendAlloc, AppendPartial, AppendData,
       AppendCommit, AppendUnlock
  <1>3. CASE CreateStep(t)
    BY <1>3 DEF CreateStep, CreateReserve, CreateLock, CreateScan,
       CreateInode, CreateEntry, CreateExtend, CreateNewInode, CreateNewTable,
       CreateDirInode, CreateUnlock
  <1>4. CASE DeleteStep(t)
    BY <1>4 DEF DeleteStep, DeleteLock, DeleteFind, DeleteFreeTable,
       DeleteDirInode, DeleteEntry, DeleteFree, DeleteUnlock
  <1>5. CASE EndRequest(t)
    BY <1>5 DEF EndRequest
  <1>6. QED
    BY <1>1, <1>2, <1>3, <1>4, <1>5 DEF Step

\* A step keeps TypeInv when it does so for the disk, the memory and its own
\* thread; the number of tables changes only for a thread that is alone.
LEMMA TypeInvAssemble ==
    ASSUME TypeInv, LockInv', NEW t \in Thread, Step(t), MemoryOK', DiskOK',
           loc' \in [Thread -> Locals], Fits(loc'[t].inode.blocks),
           dir_inode' = dir_inode \/ WritingDir = {t},
           LocalOK(pc'[t], req'[t], loc'[t], Len(dir_inode'))
    PROVE  TypeInv'
  <1>1. TypeOK'
    <2>1. \A u \in Thread : Fits(loc'[u].inode.blocks)
      BY OthersUnchanged DEF TypeInv, TypeOK
    <2>2. \A b \in Block : disk'[b].kind \in {"directory", "inode"} => Fits(disk'[b].blocks)
      BY DEF DiskOK, ContentOK, InodeOK
    <2>3. up' \in BOOLEAN /\ outcome' \in [Thread -> Outcome]
      BY ControlUnchanged DEF TypeInv, TypeOK
    <2>4. QED
      BY <2>1, <2>2, <2>3 DEF TypeOK, MemoryOK, DiskOK, LockInv, LockTypeOK
  <1>2. ASSUME NEW u \in Thread PROVE LocalOK(pc'[u], req'[u], loc'[u], Len(dir_inode'))
    <2>1. CASE u = t
      BY <2>1
    <2>2. CASE u # t
      <3>1. LocalOK(pc'[u], req'[u], loc'[u], Len(dir_inode))
        BY <2>2, OthersUnchanged DEF TypeInv
      <3>2. CASE dir_inode' = dir_inode
        BY <3>1, <3>2
      <3>3. CASE WritingDir = {t}
        <4>1. pc'[u] \notin WritingDirLabel
          BY <2>2, <3>3, OthersUnchanged DEF TypeInv, WritingDir
        <4>2. QED
          BY <3>1, <4>1 DEF LocalOK, DirectoryOK, WritingDirLabel, CreateLabel, DeleteLabel
      <3>4. QED
        BY <3>2, <3>3
    <2>3. QED
      BY <2>1, <2>2
  <1>3. QED
    BY <1>1, <1>2 DEF TypeInv

\* One write keeps the disk well formed when what is written is.
LEMMA DiskWrite ==
    ASSUME DiskOK, NEW b, NEW c, ContentOK(c), disk' = [disk EXCEPT ![b] = c]
    PROVE  DiskOK'
  BY DEF DiskOK, ContentOK

LEMMA FreshContent ==
    /\ \A u \in User : ContentOK(EmptyInode(u))
    /\ \A tab \in Table : ContentOK(TableBlock(tab))
    /\ \A bytes \in Bytes : ContentOK(DataBlock(bytes))
    /\ \A bs \in Seq(Block) : Fits(bs) => ContentOK(DirectoryBlock(bs))
  BY FreshTypes, BlocksOfContent, CeilDivSteps, LayoutAssumption
     DEF ContentOK, InodeOK, Fits, EmptyInode, TableBlock, DataBlock, DirectoryBlock

\* The inode of a block that the code takes for one.
LEMMA InodeOfDisk ==
    ASSUME DiskOK, NEW b \in Block
    PROVE  AsInode(disk[b]) \in Inode /\ InodeOK(AsInode(disk[b]))
  BY ContentViews, FreshTypes, CeilDivSteps, LayoutAssumption
     DEF DiskOK, ContentOK, InodeOK, AsInode, EmptyInode, Fits

LEMMA SlotTypes ==
    ASSUME TypeOK, NEW s \in Slots
    PROVE  /\ s \in (Nat \ {0}) \X (1 .. DirEntries)
           /\ s[1] \in 1 .. Len(dir_inode)
           /\ dir_inode[s[1]] \in Block
           /\ TableAt(s[1]) \in Table
           /\ EntryAt(s).inode_block \in Block
  <1>1. s[1] \in 1 .. Len(dir_inode) /\ s[2] \in 1 .. DirEntries
    BY DEF Slots
  <1>2. s \in (Nat \ {0}) \X (1 .. DirEntries)
    BY <1>1 DEF TypeOK, Slots
  <1>3. dir_inode[s[1]] \in Block
    BY <1>1 DEF TypeOK
  <1>4. TableAt(s[1]) \in Table
    BY <1>3, ContentViews DEF TypeOK, TableAt
  <1>5. EntryAt(s).inode_block \in Block
    BY <1>1, <1>4 DEF EntryAt, Table, Entry
  <1>6. QED
    BY <1>1, <1>2, <1>3, <1>4, <1>5

LEMMA HandlerTypes ==
    ASSUME TypeInv, NEW t \in Thread
    PROVE  /\ loc \in [Thread -> Locals] /\ loc[t] \in Locals
           /\ loc[t].inode \in Inode
           /\ loc[t].inode.size \in Nat /\ loc[t].inode.blocks \in Seq(Block)
           /\ loc[t].tmp \in Seq(Block) /\ loc[t].data \in Seq(Byte)
  BY DEF TypeInv, TypeOK, Locals, Inode

LEMMA LocalTypes ==
    ASSUME TypeInv, NEW t \in Thread
    PROVE  /\ loc \in [Thread -> Locals] /\ loc[t] \in Locals
           /\ loc[t].table \in Table
           /\ loc[t].slot[1] \in Nat \ {0} /\ loc[t].slot[2] \in 1 .. DirEntries
           /\ loc[t].inode_block \in Block
           /\ loc[t].free_b_1 \in Block /\ loc[t].free_b_2 \in Block
           /\ loc[t].inode \in Inode
           /\ loc[t].inode.size \in Nat /\ loc[t].inode.blocks \in Seq(Block)
           /\ loc[t].tmp \in Seq(Block) /\ loc[t].data \in Seq(Byte)
           /\ loc[t].result \in Seq(Byte \cup {NoByte})
           /\ Fits(loc[t].inode.blocks)
           /\ MemoryOK /\ DiskOK
           /\ LocalOK(pc[t], req[t], loc[t], Len(dir_inode))
  BY DEF TypeInv, TypeOK, Locals, Inode, MemoryOK

\* Each variable of a handler assigned a value of its type.
LEMMA LocalUpdates ==
    ASSUME TypeInv, NEW t \in Thread
    PROVE  /\ \A b \in Block :
                /\ [loc EXCEPT ![t].inode_block = b] \in [Thread -> Locals]
                /\ [loc EXCEPT ![t].free_b_1 = b] \in [Thread -> Locals]
                /\ [loc EXCEPT ![t].free_b_2 = b] \in [Thread -> Locals]
           /\ \A i \in Inode : [loc EXCEPT ![t].inode = i] \in [Thread -> Locals]
           /\ \A bs \in Seq(Block) : [loc EXCEPT ![t].tmp = bs] \in [Thread -> Locals]
           /\ \A d \in Seq(Byte) : [loc EXCEPT ![t].data = d] \in [Thread -> Locals]
           /\ \A d \in Seq(Byte \cup {NoByte}) :
                [loc EXCEPT ![t].result = d] \in [Thread -> Locals]
  <1> USE LocalTypes DEF Locals
  <1>1. ASSUME NEW b \in Block
        PROVE  /\ [loc EXCEPT ![t].inode_block = b] \in [Thread -> Locals]
               /\ [loc EXCEPT ![t].free_b_1 = b] \in [Thread -> Locals]
               /\ [loc EXCEPT ![t].free_b_2 = b] \in [Thread -> Locals]
    OBVIOUS
  <1>2. ASSUME NEW i \in Inode
        PROVE  [loc EXCEPT ![t].inode = i] \in [Thread -> Locals]
    OBVIOUS
  <1>3. ASSUME NEW bs \in Seq(Block)
        PROVE  [loc EXCEPT ![t].tmp = bs] \in [Thread -> Locals]
    OBVIOUS
  <1>4. ASSUME NEW d \in Seq(Byte)
        PROVE  [loc EXCEPT ![t].data = d] \in [Thread -> Locals]
    OBVIOUS
  <1>5. ASSUME NEW d \in Seq(Byte \cup {NoByte})
        PROVE  [loc EXCEPT ![t].result = d] \in [Thread -> Locals]
    OBVIOUS
  <1>6. QED
    BY <1>1, <1>2, <1>3, <1>4, <1>5

-----------------------------------------------------------------------------
(* The handlers, one step per action.                                      *)

LEMMA ReadTypes ==
    ASSUME TypeInv, LockInv', NEW t \in Thread, ReadStep(t)
    PROVE  TypeInv'
  <1> DEFINE l == loc[t]
             r == req[t]
             Goal == /\ loc' \in [Thread -> Locals]
                     /\ Fits(loc'[t].inode.blocks)
                     /\ LocalOK(pc'[t], req'[t], loc'[t], Len(dir_inode'))
  <1>1. Step(t)
    BY DEF Step
  <1>2. UNCHANGED << disk, dir_inode, free_block, req >>
    BY DEF ReadStep, ReadLock, ReadFind, ReadFileLock, ReadInode, ReadBlock,
           ReadUnlock, memory
  <1>3. MemoryOK' /\ DiskOK'
    BY <1>2, LocalTypes DEF MemoryOK, DiskOK
  <1>4. SUFFICES Goal
    BY <1>1, <1>2, <1>3, TypeInvAssemble
  <1>5. pc \in [Thread -> Label] /\ TypeOK /\ r \in RequestType \cup {NoRequest}
    BY DEF TypeInv, TypeOK
  <1> USE LocalTypes, <1>2, <1>5
       DEF LocalOK, ReadOK, AppendOK, DirectoryOK, Goto, Return, At, ReadLabel
  <1>6. CASE ReadLock(t)
    BY <1>6 DEF ReadLock
  <1>7. CASE ReadFind(t)
    <2>1. CASE Return(t, "no_file") /\ UNCHANGED loc
      BY <2>1
    <2>2. CASE \E s \in Named(r.name) :
                 /\ loc' = [loc EXCEPT ![t].inode_block = EntryAt(s).inode_block]
                 /\ Goto(t, "read_filelock")
      <3>1. PICK s \in Slots :
                 /\ loc' = [loc EXCEPT ![t].inode_block = EntryAt(s).inode_block]
                 /\ Goto(t, "read_filelock")
        BY <2>2 DEF Named
      <3>2. EntryAt(s).inode_block \in Block
        BY SlotTypes
      <3>3. loc' \in [Thread -> Locals]
        BY <3>1, <3>2, LocalUpdates
      <3>4. loc'[t].inode = l.inode /\ loc'[t].result = l.result
        BY <3>1 DEF Locals
      <3>5. QED
        BY <3>1, <3>3, <3>4, <1>7 DEF ReadFind
    <2>3. QED
      BY <1>7, <2>1, <2>2 DEF ReadFind
  <1>8. CASE ReadFileLock(t)
    BY <1>8 DEF ReadFileLock
  <1>9. CASE ReadInode(t)
    <2> DEFINE i == AsInode(disk[l.inode_block])
    <2>1. i \in Inode /\ InodeOK(i)
      BY InodeOfDisk
    <2>2. CASE UNCHANGED loc /\ \E why : Return(t, why)
      BY <2>2
    <2>3. CASE /\ r.offset + r.size <= i.size
               /\ loc' = [loc EXCEPT ![t].inode = i]
               /\ Goto(t, "read_block")
      <3>1. loc' \in [Thread -> Locals]
        BY <2>1, <2>3, LocalUpdates
      <3>2. loc'[t].inode = i /\ loc'[t].result = << >> /\ Valid(r) /\ r.op = "read"
        BY <2>3, <1>9 DEF Locals, ReadInode
      <3>3. r.size > 0 /\ r.size \in Nat
        BY <3>2, <1>5 DEF Valid, RequestType, NoRequest
      <3>4. QED
        BY <2>1, <2>3, <3>1, <3>2, <3>3 DEF InodeOK
    <2>4. QED
      BY <1>9, <2>2, <2>3 DEF ReadInode
  <1>10. CASE ReadBlock(t)
    <2> DEFINE at == r.offset + Len(l.result)
               block == l.inode.blocks[at \div BlockSize + 1]
               piece == Slice(AsBytes(disk[block]), at % BlockSize,
                              r.size - Len(l.result))
               result == l.result \o piece
    <2>1. /\ Valid(r) /\ r.op = "read" /\ InodeOK(l.inode)
          /\ r.offset + r.size <= l.inode.size /\ Len(l.result) < r.size
      BY <1>10 DEF ReadBlock
    <2>2. r.offset \in Nat /\ r.size \in Nat /\ at \in Nat /\ at < l.inode.size
      BY <2>1, <1>5 DEF RequestType, NoRequest
    <2>3. block \in Block
      BY <2>1, <2>2, BlockOfByte DEF InodeOK
    <2>4. AsBytes(disk[block]) \in Bytes
      BY <2>3, ContentViews DEF DiskOK
    <2>5. at % BlockSize \in 0 .. BlockSize - 1 /\ r.size - Len(l.result) \in Nat
      BY <2>1, <2>2, BlockDivision
    <2>6. /\ piece \in Seq(Byte \cup {NoByte})
          /\ Len(piece) <= r.size - Len(l.result)
      BY <2>4, <2>5, SliceType
    <2> HIDE DEF piece, at, block
    <2>7. result \in Seq(Byte \cup {NoByte}) /\ Len(result) <= r.size
      BY <2>2, <2>6
    <2>8. /\ loc' = [loc EXCEPT ![t].result = result]
          /\ Goto(t, IF Len(result) = r.size THEN "read_unlock" ELSE "read_block")
      BY <1>10 DEF ReadBlock, piece, at, block
    <2> HIDE DEF result
    <2>9. loc' \in [Thread -> Locals]
      BY <2>7, <2>8, LocalUpdates
    <2>10. loc'[t].inode = l.inode /\ loc'[t].result = result
      BY <2>8 DEF Locals
    <2>11. CASE Len(result) = r.size /\ pc'[t] = "read_unlock"
      BY <2>1, <2>9, <2>10, <2>11
    <2>12. CASE Len(result) < r.size /\ pc'[t] = "read_block"
      BY <2>1, <2>9, <2>10, <2>12
    <2>13. QED
      BY <2>2, <2>7, <2>8, <2>11, <2>12
  <1>11. CASE ReadUnlock(t)
    BY <1>11 DEF ReadUnlock
  <1>12. QED
    BY <1>6, <1>7, <1>8, <1>9, <1>10, <1>11 DEF ReadStep

-----------------------------------------------------------------------------
(* FS_APPEND: the space it takes is what it uses.                          *)

LEMMA BlocksToAddNat ==
    ASSUME NEW size \in Nat, NEW n \in Nat
    PROVE  BlocksToAdd(size, n) \in Nat
  <1> DEFINE over == size % BlockSize
  <1>1. over \in 0 .. BlockSize - 1
    BY BlockDivision
  <1>2. CASE over = 0
    BY <1>2, CeilDivBounds DEF BlocksToAdd
  <1>3. CASE over # 0 /\ n + over <= BlockSize
    BY <1>3 DEF BlocksToAdd
  <1>4. CASE over # 0 /\ n + over > BlockSize
    <2>1. n - (BlockSize - over) \in Nat
      BY <1>1, <1>4, LayoutAssumption
    <2>2. BlocksToAdd(size, n) = CeilDiv(n - (BlockSize - over))
      BY <1>1, <1>4, LayoutAssumption DEF BlocksToAdd
    <2>3. QED
      BY <2>1, <2>2, CeilDivBounds
  <1>5. QED
    BY <1>1, <1>2, <1>3, <1>4, LayoutAssumption

\* The three conditions of the check before an append takes its blocks
\* (fs.cc:600) refuse exactly the appends that would make the file too large
\* or need more blocks, as counted below it (fs.cc:607-623), than are free.
THEOREM TooBigExact ==
    ASSUME NEW size \in Nat, NEW n \in Nat, NEW free \in Nat
    PROVE  TooBig(size, n, free) <=>
             size + n > MaxFileSize \/ BlocksToAdd(size, n) > free
  <1> DEFINE over == size % BlockSize
  <1>1. over \in 0 .. BlockSize - 1 /\ BlockSize \in Nat \ {0}
    BY BlockDivision, LayoutAssumption
  <1>2. MaxFileSize \in Nat
    BY LayoutAssumption DEF MaxFileSize
  <1>3. n > MaxFileSize - size <=> size + n > MaxFileSize
    BY <1>2
  <1>4. BlockSize * free \in Nat /\ free * BlockSize = BlockSize * free
        /\ (free + 1) * BlockSize = BlockSize * free + BlockSize
    BY <1>1
  <1>5. CASE over = 0
    <2>1. BlocksToAdd(size, n) > free <=> n > BlockSize * free
      BY <1>5, <1>4, CeilDivFits, CeilDivBounds DEF BlocksToAdd
    <2>2. QED
      BY <1>3, <1>4, <1>5, <2>1 DEF TooBig
  <1>6. CASE over > 0
    <2>1. CASE n + over <= BlockSize
      <3>1. BlocksToAdd(size, n) = 0
        BY <1>1, <1>6, <2>1 DEF BlocksToAdd
      <3>2. ~(n > (free + 1) * BlockSize - over)
        BY <1>1, <1>4, <2>1
      <3>3. QED
        BY <1>3, <1>6, <3>1, <3>2 DEF TooBig
    <2>2. CASE n + over > BlockSize
      <3> DEFINE m == n - (BlockSize - over)
      <3>1. m \in Nat
        BY <1>1, <2>2
      <3>2. BlocksToAdd(size, n) = CeilDiv(m)
        BY <1>1, <1>6, <2>2 DEF BlocksToAdd
      <3>3. CeilDiv(m) > free <=> m > BlockSize * free
        BY <3>1, <1>4, CeilDivFits, CeilDivBounds
      <3>4. m > BlockSize * free <=> n > (free + 1) * BlockSize - over
        BY <1>1, <1>4
      <3>5. QED
        BY <1>3, <1>6, <3>2, <3>3, <3>4 DEF TooBig
    <2>3. QED
      BY <1>1, <2>1, <2>2
  <1>7. QED
    BY <1>1, <1>5, <1>6

LEMMA FitsBytes ==
    ASSUME NEW n \in Nat, n <= MaxFileSize
    PROVE  CeilDiv(n) <= MaxFileBlocks
  BY LayoutAssumption, CeilDivFits DEF MaxFileSize

\* The bytes that fill the last block of a file, and the blocks of the others.
LEMMA FillBlock ==
    ASSUME NEW size \in Nat, NEW n \in Nat, NEW over, NEW blocks,
           over = size % BlockSize, over > 0, blocks = CeilDiv(size)
    PROVE  /\ over \in 1 .. BlockSize - 1
           /\ blocks = (size \div BlockSize) + 1
           /\ n <= BlockSize - over => CeilDiv(size + n) = blocks
           /\ n > BlockSize - over =>
                /\ BlockSize * blocks + (n - (BlockSize - over)) = size + n
                /\ BlocksToAdd(size, n) = CeilDiv(n - (BlockSize - over))
  <1>1. over \in 1 .. BlockSize - 1 /\ BlockSize \in Nat \ {0}
    BY BlockDivision, LayoutAssumption
  <1>2. blocks = (size \div BlockSize) + 1 /\ BlockSize * blocks = size - over + BlockSize
    BY PartialBlock
  <1>3. blocks \in Nat
    BY CeilDivBounds
  <1>4. ASSUME n <= BlockSize - over PROVE CeilDiv(size + n) = blocks
    BY <1>1, <1>2, <1>3, <1>4, CeilDivUnique
  <1>5. ASSUME n > BlockSize - over
        PROVE  BlockSize * blocks + (n - (BlockSize - over)) = size + n
    BY <1>1, <1>2, <1>3
  <1>6. ASSUME n > BlockSize - over
        PROVE  BlocksToAdd(size, n) = CeilDiv(n - (BlockSize - over))
    BY <1>1, <1>6 DEF BlocksToAdd
  <1>7. QED
    BY <1>1, <1>2, <1>4, <1>5, <1>6

\* One more block of a file of which n bytes are still to be written.
LEMMA NextBlock ==
    ASSUME NEW blocks \in Nat, NEW n \in Nat, NEW total \in Nat, n > 0,
           BlockSize * blocks + n = total, total <= MaxFileSize
    PROVE  /\ blocks + 1 <= MaxFileBlocks
           /\ n <= BlockSize => CeilDiv(total) = blocks + 1
           /\ n > BlockSize => BlockSize * (blocks + 1) + (n - BlockSize) = total
  <1>1. /\ BlockSize * blocks \in Nat /\ BlockSize \in Nat
        /\ BlockSize * (blocks + 1) = BlockSize * blocks + BlockSize
    BY LayoutAssumption
  <1>2. CeilDiv(total) \in Nat /\ CeilDiv(total) <= MaxFileBlocks
    BY CeilDivBounds, FitsBytes
  <1>3. ~(CeilDiv(total) <= blocks)
    BY <1>1, CeilDivFits
  <1>4. blocks + 1 <= MaxFileBlocks
    BY <1>2, <1>3, LayoutAssumption
  <1>5. ASSUME n <= BlockSize PROVE CeilDiv(total) = blocks + 1
    BY <1>1, <1>5, CeilDivUnique
  <1>6. QED
    BY <1>1, <1>4, <1>5

LEMMA AppendTypes ==
    ASSUME TypeInv, LockInv', NEW t \in Thread, AppendStep(t)
    PROVE  TypeInv'
  <1> DEFINE l == loc[t]
             r == req[t]
             size == l.inode.size
             n == Len(l.data)
             Goal == /\ loc' \in [Thread -> Locals]
                     /\ Fits(loc'[t].inode.blocks)
                     /\ LocalOK(pc'[t], req'[t], loc'[t], Len(dir_inode'))
  <1>1. Step(t)
    BY DEF Step
  <1>2. UNCHANGED << dir_inode, req >>
    BY DEF AppendStep, AppendRoom, AppendLock, AppendFind, AppendFileLock,
           AppendInode, AppendAlloc, AppendPartial, AppendData, AppendCommit,
           AppendUnlock, memory
  <1>3. SUFFICES MemoryOK' /\ DiskOK' /\ Goal
    BY <1>1, <1>2, TypeInvAssemble
  <1>4. ASSUME UNCHANGED free_block PROVE MemoryOK'
    BY <1>2, <1>4, LocalTypes DEF MemoryOK
  <1>5. ASSUME UNCHANGED disk PROVE DiskOK'
    BY <1>5, LocalTypes DEF DiskOK
  <1>6. pc \in [Thread -> Label] /\ TypeOK
    BY DEF TypeInv, TypeOK
  <1>7. r \in RequestType /\ r.data \in Seq(Byte) /\ Len(r.data) \in Nat
    <2>1. pc[t] \in AppendLabel
      BY DEF AppendStep, AppendRoom, AppendLock, AppendFind, AppendFileLock,
             AppendInode, AppendAlloc, AppendPartial, AppendData, AppendCommit,
             AppendUnlock, At, AppendLabel
    <2>2. r \in RequestType
      BY <2>1 DEF TypeInv, LockInv, AppendLabel
    <2>3. QED
      BY <2>2 DEF RequestType
  <1>8. n \in Nat /\ size \in Nat /\ BlockSize \in Nat \ {0} /\ MaxFileSize \in Nat
    BY LocalTypes, LayoutAssumption DEF MaxFileSize
  <1> USE <1>2, <1>6
       DEF LocalOK, ReadOK, AppendOK, DirectoryOK, Goto, Return, At, ReadLabel
  <1>9. CASE AppendRoom(t)
    BY LocalTypes, <1>4, <1>5, <1>9 DEF AppendRoom, memory
  <1>10. CASE AppendLock(t)
    BY LocalTypes, <1>4, <1>5, <1>10 DEF AppendLock, memory
  <1>11. CASE AppendFind(t)
    <2>1. MemoryOK' /\ DiskOK'
      BY LocalTypes, <1>4, <1>5, <1>11 DEF AppendFind, memory
    <2>2. CASE Return(t, "no_file") /\ UNCHANGED loc
      BY LocalTypes, <2>1, <2>2
    <2>3. CASE \E s \in Named(r.name) :
                 /\ loc' = [loc EXCEPT ![t].inode_block = EntryAt(s).inode_block]
                 /\ Goto(t, "append_filelock")
      <3>1. PICK s \in Slots :
                 /\ loc' = [loc EXCEPT ![t].inode_block = EntryAt(s).inode_block]
                 /\ Goto(t, "append_filelock")
        BY LocalTypes, <2>3 DEF Named
      <3>2. EntryAt(s).inode_block \in Block
        BY LocalTypes, SlotTypes
      <3>3. loc' \in [Thread -> Locals]
        BY LocalTypes, <3>1, <3>2, LocalUpdates
      <3>4. loc'[t].inode = l.inode /\ loc'[t].data = l.data
        BY LocalTypes, <3>1 DEF Locals
      <3>5. QED
        BY LocalTypes, <2>1, <3>1, <3>3, <3>4, <1>11 DEF AppendFind
    <2>4. QED
      BY LocalTypes, <1>11, <2>2, <2>3 DEF AppendFind
  <1>12. CASE AppendFileLock(t)
    BY LocalTypes, <1>4, <1>5, <1>12 DEF AppendFileLock, memory
  <1>13. CASE AppendInode(t)
    <2> DEFINE i == AsInode(disk[l.inode_block])
    <2>1. MemoryOK' /\ DiskOK'
      BY LocalTypes, <1>4, <1>5, <1>13 DEF AppendInode, memory
    <2>2. i \in Inode /\ InodeOK(i)
      BY LocalTypes, InodeOfDisk
    <2>3. CASE UNCHANGED loc /\ \E why : Return(t, why)
      BY LocalTypes, <2>1, <2>3
    <2>4. CASE loc' = [loc EXCEPT ![t].inode = i] /\ Goto(t, "append_alloc")
      <3>1. loc' \in [Thread -> Locals]
        BY LocalTypes, <2>2, <2>4, LocalUpdates
      <3>2. loc'[t].inode = i /\ loc'[t].data = l.data
        BY LocalTypes, <2>4 DEF Locals
      <3>3. QED
        BY LocalTypes, <1>13, <2>1, <2>2, <2>4, <3>1, <3>2 DEF AppendInode, InodeOK
    <2>5. QED
      BY LocalTypes, <1>13, <2>3, <2>4 DEF AppendInode
  <1>14. CASE AppendAlloc(t)
    <2> DEFINE free == Len(free_block)
               need == BlocksToAdd(size, n)
               taken == SubSeq(free_block, free - need + 1, free)
    <2>1. l.data = r.data /\ l.data # << >> /\ InodeOK(l.inode)
      BY LocalTypes, <1>14 DEF AppendAlloc
    <2>2. DiskOK'
      BY LocalTypes, <1>5, <1>14 DEF AppendAlloc
    <2>3. CASE UNCHANGED << free_block, loc >> /\ \E why : Return(t, why)
      BY LocalTypes, <1>4, <2>2, <2>3
    <2>4. CASE /\ ~TooBig(size, n, free)
               /\ free_block' = SubSeq(free_block, 1, free - need)
               /\ loc' = [loc EXCEPT ![t].tmp = taken]
               /\ Goto(t, IF size % BlockSize = 0 THEN "append_data"
                                                 ELSE "append_partial")
      <3>1. free_block \in Seq(Block) /\ free \in Nat
        BY LocalTypes DEF MemoryOK
      <3>2. size + n <= MaxFileSize /\ need <= free /\ need \in Nat
        BY <1>8, <2>4, <3>1, TooBigExact, BlocksToAddNat
      <3> HIDE DEF need
      <3>3. taken \in Seq(Block) /\ Len(taken) = need
        BY LocalTypes, <3>1, <3>2
      <3>4. MemoryOK'
        BY LocalTypes, <2>4, <3>1, <3>2 DEF MemoryOK
      <3> HIDE DEF taken
      <3>5. loc' \in [Thread -> Locals]
        BY LocalTypes, <2>4, <3>3, LocalUpdates
      <3>6. /\ loc'[t].inode = l.inode /\ loc'[t].data = l.data
            /\ loc'[t].tmp = taken
        BY LocalTypes, <2>4 DEF Locals
      <3>7. CASE size % BlockSize = 0
        <4>1. need = CeilDiv(n)
          BY LocalTypes, <3>7 DEF need, BlocksToAdd
        <4>2. BlockSize * Len(l.inode.blocks) = size
          BY LocalTypes, <1>8, <2>1, <3>7, FullBlocks DEF InodeOK
        <4>3. pc'[t] = "append_data"
          BY LocalTypes, <2>4, <3>7
        <4>4. QED
          BY LocalTypes, <2>1, <2>2, <3>2, <3>3, <3>4, <3>5, <3>6, <4>1, <4>2, <4>3
      <3>8. CASE size % BlockSize # 0
        <4>1. size % BlockSize > 0
          <5>1. \A m \in Nat : m % BlockSize # 0 => m % BlockSize > 0
            BY <1>8, BlockDivision
          <5>2. QED
            BY <1>8, <3>8, <5>1
        <4>2. pc'[t] = "append_partial"
          BY LocalTypes, <2>4, <3>8
        <4>3. QED
          BY LocalTypes, <2>1, <2>2, <3>2, <3>3, <3>4, <3>5, <3>6, <4>1, <4>2 DEF need
      <3>9. QED
        BY LocalTypes, <3>7, <3>8
    <2>5. QED
      BY LocalTypes, <1>14, <2>3, <2>4 DEF AppendAlloc
  <1>15. CASE AppendPartial(t)
    <2> DEFINE over == size % BlockSize
               block == l.inode.blocks[size \div BlockSize + 1]
               rest == Rest(over, l.data)
               blocks == Len(l.inode.blocks)
    <2>1. /\ l.data = r.data /\ l.data # << >> /\ InodeOK(l.inode)
          /\ over > 0 /\ size + n <= MaxFileSize /\ Len(l.tmp) = BlocksToAdd(size, n)
      BY LocalTypes, <1>15 DEF AppendPartial
    <2>2. blocks = CeilDiv(size) /\ blocks \in Nat /\ n > 0
      BY LocalTypes, <2>1 DEF InodeOK
    <2>3. /\ over \in 1 .. BlockSize - 1
          /\ blocks = (size \div BlockSize) + 1
          /\ n <= BlockSize - over => CeilDiv(size + n) = blocks
          /\ n > BlockSize - over =>
               /\ BlockSize * blocks + (n - (BlockSize - over)) = size + n
               /\ BlocksToAdd(size, n) = CeilDiv(n - (BlockSize - over))
      <3>1. PICK o, bs : o = over /\ bs = blocks
        OBVIOUS
      <3>2. o = size % BlockSize /\ o > 0 /\ bs = CeilDiv(size)
        BY <2>1, <2>2, <3>1
      <3>3. /\ o \in 1 .. BlockSize - 1
            /\ bs = (size \div BlockSize) + 1
            /\ n <= BlockSize - o => CeilDiv(size + n) = bs
            /\ n > BlockSize - o =>
                 /\ BlockSize * bs + (n - (BlockSize - o)) = size + n
                 /\ BlocksToAdd(size, n) = CeilDiv(n - (BlockSize - o))
        BY ONLY <1>8, <3>2, FillBlock
      <3>4. QED
        BY <3>1, <3>3
    <2>4. block \in Block
      <3> DEFINE whole == size \div BlockSize
      <3>1. whole \in Nat
        BY <1>8, BlockDivision
      <3>2. blocks = whole + 1
        BY <2>3
      <3>3. l.inode.blocks \in Seq(Block)
        BY HandlerTypes
      <3> HIDE DEF whole
      <3>4. whole + 1 \in 1 .. blocks
        BY <3>1, <3>2
      <3>5. l.inode.blocks[whole + 1] \in Block
        BY <3>3, <3>4
      <3>6. QED
        BY <3>5 DEF whole
    <2>5. /\ disk' = [disk EXCEPT ![block] =
                         DataBlock(Overlay(AsBytes(disk[block]), over, l.data))]
          /\ loc' = [loc EXCEPT ![t].data = rest]
          /\ Goto(t, IF rest = << >> THEN "append_commit" ELSE "append_data")
      BY LocalTypes, <1>15 DEF AppendPartial
    <2>6. AsBytes(disk[block]) \in Bytes
      BY LocalTypes, <2>4, ContentViews DEF DiskOK
    <2>7. ContentOK(DataBlock(Overlay(AsBytes(disk[block]), over, l.data)))
      BY LocalTypes, <2>3, <2>6, OverlayType, FreshContent
    <2> HIDE DEF block
    <2>8. MemoryOK' /\ DiskOK'
      BY LocalTypes, <1>4, <1>15, <2>5, <2>7, DiskWrite DEF AppendPartial, memory
    <2>9. /\ rest \in Seq(Byte)
          /\ n <= BlockSize - over => rest = << >>
          /\ n > BlockSize - over => Len(rest) = n - (BlockSize - over)
      BY LocalTypes, <2>3, RestLength
    <2> HIDE DEF rest
    <2>10. loc' \in [Thread -> Locals]
      BY LocalTypes, <2>5, <2>9, LocalUpdates
    <2>11. /\ loc'[t].inode = l.inode /\ loc'[t].data = rest
           /\ loc'[t].tmp = l.tmp
      BY LocalTypes, <2>5 DEF Locals
    <2>12. CASE n <= BlockSize - over
      <3>1. rest = << >> /\ pc'[t] = "append_commit"
        BY LocalTypes, <2>5, <2>9, <2>12
      <3>2. CeilDiv(size + n) = blocks /\ BlocksToAdd(size, n) = 0
        BY <1>8, <2>3, <2>12, LayoutAssumption DEF BlocksToAdd
      <3>3. l.tmp = << >>
        BY LocalTypes, <2>1, <3>2
      <3>4. QED
        BY LocalTypes, <2>1, <2>8, <2>10, <2>11, <3>1, <3>2, <3>3
    <2>13. CASE n > BlockSize - over
      <3>1. Len(rest) = n - (BlockSize - over) /\ Len(rest) > 0
        BY <1>8, <2>3, <2>9, <2>13
      <3>2. rest # << >> /\ pc'[t] = "append_data"
        BY LocalTypes, <2>5, <2>9, <3>1
      <3>3. Len(l.tmp) = CeilDiv(Len(rest))
        BY <2>1, <2>3, <2>13, <3>1
      <3>4. BlockSize * blocks + Len(rest) = size + n
        BY <2>3, <2>13, <3>1
      <3>5. QED
        BY LocalTypes, <2>1, <2>8, <2>10, <2>11, <3>2, <3>3, <3>4
    <2>14. n <= BlockSize - over \/ n > BlockSize - over
      BY <1>8, <2>3
    <2>15. QED
      BY <2>12, <2>13, <2>14
  <1>16. CASE AppendData(t)
    <2> DEFINE block == Head(l.tmp)
               rest == Rest(0, l.data)
               blocks == Len(l.inode.blocks)
               total == size + Len(r.data)
    <2>1. /\ l.data # << >> /\ Len(l.tmp) = CeilDiv(n)
          /\ BlockSize * blocks + n = total /\ total <= MaxFileSize
      BY LocalTypes, <1>16 DEF AppendData
    <2>2. n > 0 /\ blocks \in Nat /\ total \in Nat /\ BlockSize * blocks \in Nat
      <3>1. l.data \in Seq(Byte) /\ l.inode.blocks \in Seq(Block)
        BY HandlerTypes
      <3>2. n > 0 /\ blocks \in Nat
        BY <2>1, <3>1
      <3> HIDE DEF blocks
      <3>3. BlockSize * blocks \in Nat /\ total \in Nat
        BY <1>7, <1>8, <3>2
      <3>4. QED
        BY <3>2, <3>3
    <2>3. l.tmp # << >>
      BY LocalTypes, <1>8, <2>1, <2>2, CeilDivSteps
    <2>4. /\ block \in Block /\ Tail(l.tmp) \in Seq(Block)
          /\ Len(Tail(l.tmp)) = Len(l.tmp) - 1
      BY LocalTypes, <2>3
    <2>5. /\ disk' = [disk EXCEPT ![block] = DataBlock(Overlay(EmptyBytes, 0, l.data))]
          /\ loc' = [loc EXCEPT ![t].data = rest, ![t].tmp = Tail(l.tmp),
                                ![t].inode.blocks = Append(l.inode.blocks, block)]
          /\ Goto(t, IF rest = << >> THEN "append_commit" ELSE "append_data")
      BY LocalTypes, <1>16 DEF AppendData, Locals, Inode
    <2>6. ContentOK(DataBlock(Overlay(EmptyBytes, 0, l.data)))
      BY LocalTypes, FreshTypes, OverlayType, FreshContent
    <2>7. MemoryOK' /\ DiskOK'
      BY LocalTypes, <1>4, <1>16, <2>5, <2>6, DiskWrite DEF AppendData, memory
    <2>8. /\ rest \in Seq(Byte)
          /\ n <= BlockSize => rest = << >>
          /\ n > BlockSize => Len(rest) = n - BlockSize
      BY LocalTypes, <1>8, RestLength
    <2> DEFINE bs == Append(l.inode.blocks, block)
    <2>9. bs \in Seq(Block) /\ Len(bs) = blocks + 1
      BY LocalTypes, <2>4
    <2> HIDE DEF rest, block, bs
    <2>10. /\ loc'[t].inode = [l.inode EXCEPT !.blocks = bs]
           /\ loc'[t].data = rest /\ loc'[t].tmp = Tail(l.tmp)
      BY LocalTypes, <2>5 DEF Locals, bs
    <2>11. /\ loc'[t].inode.size = size /\ loc'[t].inode.blocks = bs
           /\ loc'[t].inode \in Inode
      BY LocalTypes, <2>9, <2>10 DEF Inode
    <2>12. loc' \in [Thread -> Locals]
      <3>1. loc' = [loc EXCEPT ![t] = [[[l EXCEPT !.data = rest]
                                          EXCEPT !.tmp = Tail(l.tmp)]
                                          EXCEPT !.inode = [l.inode EXCEPT !.blocks = bs]]]
        BY <2>5 DEF bs
      <3>2. [l.inode EXCEPT !.blocks = bs] \in Inode
        BY HandlerTypes, <2>9 DEF Inode
      <3>3. QED
        BY HandlerTypes, <2>4, <2>8, <3>1, <3>2 DEF Locals
    <2>13. /\ blocks + 1 <= MaxFileBlocks
           /\ n <= BlockSize => CeilDiv(total) = blocks + 1
           /\ n > BlockSize => BlockSize * (blocks + 1) + (n - BlockSize) = total
      BY <1>8, <2>1, <2>2, NextBlock
    <2>14. Fits(bs)
      BY <2>9, <2>13 DEF Fits
    <2>15. CASE n <= BlockSize
      <3>1. rest = << >> /\ pc'[t] = "append_commit"
        BY LocalTypes, <2>5, <2>8, <2>15
      <3>2. CeilDiv(total) = blocks + 1
        BY <2>13, <2>15
      <3>3. Tail(l.tmp) = << >>
        <4>1. Len(l.tmp) = 1
          BY <1>8, <2>1, <2>2, <2>15, CeilDivSteps
        <4>2. Len(Tail(l.tmp)) = 0
          BY <2>4, <4>1
        <4>3. \A s \in Seq(Block) : Len(s) = 0 => s = << >>
          OBVIOUS
        <4>4. QED
          BY <2>4, <4>2, <4>3
      <3>4. QED
        BY LocalTypes, <2>7, <2>9, <2>10, <2>11, <2>12, <2>14, <3>1, <3>2, <3>3
    <2>16. CASE n > BlockSize
      <3>1. Len(rest) = n - BlockSize /\ rest # << >> /\ pc'[t] = "append_data"
        BY LocalTypes, <1>8, <2>5, <2>8, <2>16
      <3>2. Len(Tail(l.tmp)) = CeilDiv(Len(rest))
        BY LocalTypes, <1>8, <2>1, <2>4, <2>16, <3>1, CeilDivSteps
      <3>3. BlockSize * (blocks + 1) + Len(rest) = total
        BY <2>13, <2>16, <3>1
      <3>4. QED
        BY LocalTypes, <2>1, <2>7, <2>9, <2>10, <2>11, <2>12, <2>14, <3>1, <3>2, <3>3
    <2>17. n <= BlockSize \/ n > BlockSize
      BY <1>8
    <2>18. QED
      BY <2>15, <2>16, <2>17
  <1>17. CASE AppendCommit(t)
    <2> DEFINE i == [l.inode EXCEPT !.size = @ + Len(r.data)]
    <2>1. Len(l.inode.blocks) = CeilDiv(size + Len(r.data))
      BY LocalTypes, <1>17 DEF AppendCommit
    <2>2. /\ i \in Inode /\ i.kind = "inode"
          /\ i.blocks = l.inode.blocks /\ i.size = size + Len(r.data)
      <3>1. l.inode \in Inode /\ size + Len(r.data) \in Nat
        BY HandlerTypes, <1>7, <1>8
      <3>2. QED
        BY <3>1 DEF Inode
    <2>3. /\ disk' = [disk EXCEPT ![l.inode_block] = i]
          /\ loc' = [loc EXCEPT ![t].inode = i]
          /\ Goto(t, "append_unlock")
      BY LocalTypes, <1>17 DEF AppendCommit
    <2> HIDE DEF i
    <2>4. ContentOK(i)
      BY LocalTypes, <2>1, <2>2, BlocksOfContent DEF ContentOK, InodeOK
    <2>5. MemoryOK' /\ DiskOK'
      BY LocalTypes, <1>4, <1>17, <2>3, <2>4, DiskWrite DEF AppendCommit, memory
    <2>6. loc' \in [Thread -> Locals]
      BY LocalTypes, <2>2, <2>3, LocalUpdates
    <2>7. loc'[t].inode = i
      BY LocalTypes, <2>3 DEF Locals
    <2>8. QED
      BY LocalTypes, <2>2, <2>3, <2>5, <2>6, <2>7
  <1>18. CASE AppendUnlock(t)
    BY LocalTypes, <1>4, <1>5, <1>18 DEF AppendUnlock, memory
  <1>19. QED
    BY <1>9, <1>10, <1>11, <1>12, <1>13, <1>14, <1>15, <1>16, <1>17, <1>18
       DEF AppendStep

-----------------------------------------------------------------------------
(* FS_CREATE and FS_DELETE: they have the directory to themselves.         *)

LEMMA CreateTypes ==
    ASSUME TypeInv, LockInv', NEW t \in Thread, CreateStep(t)
    PROVE  TypeInv'
  <1> DEFINE l == loc[t]
             r == req[t]
             Goal == /\ loc' \in [Thread -> Locals]
                     /\ Fits(loc'[t].inode.blocks)
                     /\ LocalOK(pc'[t], req'[t], loc'[t], Len(dir_inode'))
  <1>1. Step(t) /\ UNCHANGED req
    BY DEF Step, CreateStep, CreateReserve, CreateLock, CreateScan, CreateInode,
           CreateEntry, CreateExtend, CreateNewInode, CreateNewTable,
           CreateDirInode, CreateUnlock
  <1>2. SUFFICES MemoryOK' /\ DiskOK' /\ Goal /\ (dir_inode' = dir_inode \/ WritingDir = {t})
    BY <1>1, TypeInvAssemble
  <1>3. ASSUME UNCHANGED memory PROVE MemoryOK'
    BY <1>3, LocalTypes DEF MemoryOK, memory
  <1>4. ASSUME UNCHANGED disk PROVE DiskOK'
    BY <1>4, LocalTypes DEF DiskOK
  <1>5. pc \in [Thread -> Label] /\ TypeOK
    BY DEF TypeInv, TypeOK
  <1>6. r.user \in User /\ r.name \in Name
    <2>1. pc[t] \in CreateLabel
      BY DEF CreateStep, CreateReserve, CreateLock, CreateScan, CreateInode,
             CreateEntry, CreateExtend, CreateNewInode, CreateNewTable,
             CreateDirInode, CreateUnlock, At, CreateLabel
    <2>2. r \in RequestType
      BY <2>1 DEF TypeInv, LockInv, CreateLabel
    <2>3. QED
      BY <2>2 DEF RequestType
  <1>7. dir_inode \in Seq(Block) /\ free_block \in Seq(Block) /\ Len(free_block) \in Nat
    BY LocalTypes DEF MemoryOK
  <1>8. ContentOK(EmptyInode(r.user))
    BY <1>6, FreshContent
  <1> USE <1>1, <1>5
       DEF LocalOK, ReadOK, AppendOK, DirectoryOK, Goto, Return, At, ReadLabel
  <1>9. CASE CreateReserve(t)
    <2>1. DiskOK' /\ dir_inode' = dir_inode
      BY <1>4, <1>9 DEF CreateReserve
    <2>2. CASE UNCHANGED << free_block, loc >> /\ \E why : Return(t, why)
      BY <1>3, <2>1, <2>2, LocalTypes DEF memory
    <2>3. CASE /\ Len(free_block) > 0
               /\ loc' = [loc EXCEPT ![t].free_b_1 = free_block[Len(free_block)]]
               /\ free_block' = SubSeq(free_block, 1, Len(free_block) - 1)
               /\ Goto(t, "create_lock")
      <3>1. free_block[Len(free_block)] \in Block
        BY <1>7, <2>3
      <3>2. MemoryOK'
        BY <1>7, <2>1, <2>3, LocalTypes DEF MemoryOK
      <3>3. loc' \in [Thread -> Locals]
        BY <2>3, <3>1, LocalUpdates
      <3>4. loc'[t].inode = l.inode
        BY <2>3, HandlerTypes DEF Locals
      <3>5. QED
        BY <2>1, <2>3, <3>2, <3>3, <3>4, LocalTypes
    <2>4. QED
      BY <1>9, <2>2, <2>3 DEF CreateReserve
  <1>10. CASE CreateLock(t)
    BY <1>3, <1>4, <1>10, LocalTypes DEF CreateLock, memory
  <1>11. CASE CreateScan(t)
    <2>1. MemoryOK' /\ DiskOK' /\ dir_inode' = dir_inode
      BY <1>3, <1>4, <1>11 DEF CreateScan, memory
    <2>2. CASE UNCHANGED loc /\ pc'[t] \in {"reply", "create_extend"}
      BY <2>1, <2>2, LocalTypes
    <2>3. CASE /\ \E s \in UnusedSlots :
                    loc' = [loc EXCEPT ![t].slot = s, ![t].table = TableAt(s[1])]
               /\ Goto(t, "create_inode")
      <3>1. PICK s \in Slots :
                    loc' = [loc EXCEPT ![t].slot = s, ![t].table = TableAt(s[1])]
        BY <2>3 DEF UnusedSlots
      <3>2. /\ s \in (Nat \ {0}) \X (1 .. DirEntries) /\ TableAt(s[1]) \in Table
            /\ s[1] \in 1 .. Len(dir_inode)
        BY SlotTypes
      <3>3. loc' \in [Thread -> Locals] /\ loc'[t].inode = l.inode /\ loc'[t].slot = s
        BY <3>1, <3>2, HandlerTypes DEF Locals
      <3>4. QED
        BY <2>1, <2>3, <3>2, <3>3, LocalTypes
    <2>4. QED
      BY <1>11, <2>2, <2>3 DEF CreateScan
  <1>12. CASE CreateInode(t)
    <2>1. MemoryOK' /\ DiskOK' /\ dir_inode' = dir_inode
      BY <1>3, <1>8, <1>12, DiskWrite, LocalTypes DEF CreateInode, memory
    <2>2. QED
      BY <1>12, <2>1, LocalTypes DEF CreateInode
  <1>13. CASE CreateEntry(t)
    <2>1. ContentOK(TableBlock(WithEntry(l.table, l.slot[2], r.name, l.free_b_1)))
      BY <1>6, LocalTypes, TableUpdates, FreshContent
    <2>2. MemoryOK' /\ DiskOK' /\ dir_inode' = dir_inode
      BY <1>3, <1>13, <2>1, DiskWrite, LocalTypes DEF CreateEntry, memory
    <2>3. QED
      BY <1>13, <2>2, LocalTypes DEF CreateEntry
  <1>14. CASE CreateExtend(t)
    <2>1. DiskOK' /\ dir_inode' = dir_inode
      BY <1>4, <1>14 DEF CreateExtend
    <2>2. CASE /\ Len(free_block) > 0 /\ Len(dir_inode) < MaxFileBlocks
               /\ loc' = [loc EXCEPT ![t].free_b_2 = free_block[Len(free_block)]]
               /\ free_block' = SubSeq(free_block, 1, Len(free_block) - 1)
               /\ Goto(t, "create_new_inode")
      <3>1. free_block[Len(free_block)] \in Block
        BY <1>7, <2>2
      <3>2. MemoryOK'
        BY <1>7, <2>1, <2>2, LocalTypes DEF MemoryOK
      <3>3. loc' \in [Thread -> Locals]
        BY <2>2, <3>1, LocalUpdates
      <3>4. loc'[t].inode = l.inode
        BY <2>2, HandlerTypes DEF Locals
      <3>5. QED
        BY <2>1, <2>2, <3>2, <3>3, <3>4, LocalTypes
    <2>3. CASE /\ free_block' = Append(free_block, l.free_b_1)
               /\ Return(t, "no_dir_space")
               /\ UNCHANGED loc
      <3>1. MemoryOK'
        BY <1>7, <2>1, <2>3, LocalTypes DEF MemoryOK
      <3>2. QED
        BY <2>1, <2>3, <3>1, LocalTypes
    <2>4. QED
      BY <1>14, <2>2, <2>3 DEF CreateExtend
  <1>15. CASE CreateNewInode(t)
    <2>1. MemoryOK' /\ DiskOK' /\ dir_inode' = dir_inode
      BY <1>3, <1>8, <1>15, DiskWrite, LocalTypes DEF CreateNewInode, memory
    <2>2. QED
      BY <1>15, <2>1, LocalTypes DEF CreateNewInode
  <1>16. CASE CreateNewTable(t)
    <2> DEFINE tab == WithEntry(EmptyTable, 1, r.name, l.free_b_2)
    <2>1. ContentOK(TableBlock(tab))
      <3>1. 1 \in 1 .. DirEntries
        BY LayoutAssumption
      <3>2. EmptyTable \in Table /\ l.free_b_2 \in Block
        BY FreshTypes, LocalTypes
      <3>3. tab \in Table
        BY <1>6, <3>1, <3>2, TableUpdates
      <3> HIDE DEF tab
      <3>4. QED
        BY <3>3, FreshContent
    <2>2. MemoryOK' /\ DiskOK' /\ dir_inode' = dir_inode
      BY <1>3, <1>16, <2>1, DiskWrite, LocalTypes DEF CreateNewTable, memory
    <2>3. QED
      BY <1>16, <2>2, LocalTypes DEF CreateNewTable
  <1>17. CASE CreateDirInode(t)
    <2>1. WritingDir = {t}
      <3>1. t \in WritingDir
        BY <1>17 DEF CreateDirInode, WritingDir, WritingDirLabel, CreateLabel
      <3>2. QED
        BY <3>1, LockInvExclusion DEF TypeInv, Exclusion
    <2>2. Len(dir_inode) < MaxFileBlocks
      BY <1>17, LocalTypes DEF CreateDirInode
    <2>3. dir_inode' \in Seq(Block) /\ Len(dir_inode') = Len(dir_inode) + 1
      BY <1>7, <1>17, LocalTypes DEF CreateDirInode
    <2>4. MemoryOK'
      BY <1>7, <1>17, <2>2, <2>3, LayoutAssumption DEF MemoryOK, Fits, CreateDirInode
    <2>5. DiskOK'
      <3>1. ContentOK(DirectoryBlock(dir_inode'))
        BY <2>4, FreshContent DEF MemoryOK, Fits
      <3>2. QED
        BY <1>17, <3>1, DiskWrite, LocalTypes DEF CreateDirInode
    <2>6. QED
      BY <1>17, <2>1, <2>4, <2>5, LocalTypes DEF CreateDirInode
  <1>18. CASE CreateUnlock(t)
    BY <1>3, <1>4, <1>18, LocalTypes DEF CreateUnlock, memory
  <1>19. QED
    BY <1>9, <1>10, <1>11, <1>12, <1>13, <1>14, <1>15, <1>16, <1>17, <1>18
       DEF CreateStep

LEMMA DeleteTypes ==
    ASSUME TypeInv, LockInv', NEW t \in Thread, DeleteStep(t)
    PROVE  TypeInv'
  <1> DEFINE l == loc[t]
             r == req[t]
             Goal == /\ loc' \in [Thread -> Locals]
                     /\ Fits(loc'[t].inode.blocks)
                     /\ LocalOK(pc'[t], req'[t], loc'[t], Len(dir_inode'))
  <1>1. Step(t) /\ UNCHANGED req
    BY DEF Step, DeleteStep, DeleteLock, DeleteFind, DeleteFreeTable,
           DeleteDirInode, DeleteEntry, DeleteFree, DeleteUnlock
  <1>2. SUFFICES MemoryOK' /\ DiskOK' /\ Goal /\ (dir_inode' = dir_inode \/ WritingDir = {t})
    BY <1>1, TypeInvAssemble
  <1>3. ASSUME UNCHANGED memory PROVE MemoryOK'
    BY <1>3, LocalTypes DEF MemoryOK, memory
  <1>4. ASSUME UNCHANGED disk PROVE DiskOK'
    BY <1>4, LocalTypes DEF DiskOK
  <1>5. pc \in [Thread -> Label] /\ TypeOK
    BY DEF TypeInv, TypeOK
  <1>6. dir_inode \in Seq(Block) /\ free_block \in Seq(Block)
    BY LocalTypes DEF MemoryOK
  <1> USE <1>1, <1>5
       DEF LocalOK, ReadOK, AppendOK, DirectoryOK, Goto, Return, At, ReadLabel
  <1>7. CASE DeleteLock(t)
    BY <1>3, <1>4, <1>7, LocalTypes DEF DeleteLock, memory
  <1>8. CASE DeleteFind(t)
    <2>1. MemoryOK' /\ DiskOK' /\ dir_inode' = dir_inode
      BY <1>3, <1>4, <1>8 DEF DeleteFind, memory
    <2>2. CASE UNCHANGED loc /\ \E why : Return(t, why)
      BY <2>1, <2>2, LocalTypes
    <2>3. CASE \E s \in Named(r.name) :
                 /\ loc' = [loc EXCEPT ![t].slot = s,
                                       ![t].table = TableAt(s[1]),
                                       ![t].inode_block = EntryAt(s).inode_block,
                                       ![t].inode = AsInode(disk[EntryAt(s).inode_block])]
                 /\ pc'[t] \in {"delete_free_table", "delete_entry"}
      <3>1. PICK s \in Slots :
                 /\ loc' = [loc EXCEPT ![t].slot = s,
                                       ![t].table = TableAt(s[1]),
                                       ![t].inode_block = EntryAt(s).inode_block,
                                       ![t].inode = AsInode(disk[EntryAt(s).inode_block])]
                 /\ pc'[t] \in {"delete_free_table", "delete_entry"}
        BY <2>3 DEF Named
      <3> DEFINE i == AsInode(disk[EntryAt(s).inode_block])
      <3>2. /\ s \in (Nat \ {0}) \X (1 .. DirEntries) /\ TableAt(s[1]) \in Table
            /\ s[1] \in 1 .. Len(dir_inode) /\ EntryAt(s).inode_block \in Block
        BY SlotTypes
      <3>3. i \in Inode /\ InodeOK(i)
        BY <3>2, LocalTypes, InodeOfDisk
      <3> DEFINE table == TableAt(s[1])
                 inode_block == EntryAt(s).inode_block
      <3> HIDE DEF i, table, inode_block
      <3>4. /\ loc' \in [Thread -> Locals]
            /\ loc'[t].inode = i /\ loc'[t].slot = s
        <4>1. loc' = [loc EXCEPT ![t] = [l EXCEPT !.slot = s, !.table = table,
                                                  !.inode_block = inode_block,
                                                  !.inode = i]]
          BY <3>1 DEF i, table, inode_block
        <4>2. table \in Table /\ inode_block \in Block
          BY <3>2 DEF table, inode_block
        <4>3. [l EXCEPT !.slot = s, !.table = table, !.inode_block = inode_block,
                        !.inode = i] \in Locals
          BY <3>2, <3>3, <4>2, HandlerTypes DEF Locals
        <4>4. QED
          BY <4>1, <4>3, HandlerTypes DEF Locals
      <3>5. QED
        BY <2>1, <3>1, <3>2, <3>3, <3>4 DEF InodeOK
    <2>4. QED
      BY <1>8, <2>2, <2>3 DEF DeleteFind
  <1>9. CASE DeleteFreeTable(t)
    <2>1. l.slot[1] \in 1 .. Len(dir_inode)
      BY <1>6, <1>9, LocalTypes DEF DeleteFreeTable
    <2>2. free_block' = Append(free_block, dir_inode[l.slot[1]]) /\ dir_inode' = dir_inode
      BY <1>9 DEF DeleteFreeTable
    <2>3. MemoryOK'
      BY <1>6, <2>1, <2>2, LocalTypes DEF MemoryOK
    <2>4. DiskOK'
      BY <1>4, <1>9 DEF DeleteFreeTable
    <2>5. QED
      BY <1>9, <2>2, <2>3, <2>4, LocalTypes DEF DeleteFreeTable
  <1>10. CASE DeleteDirInode(t)
    <2>1. WritingDir = {t}
      <3>1. t \in WritingDir
        BY <1>10 DEF DeleteDirInode, WritingDir, WritingDirLabel, DeleteLabel
      <3>2. QED
        BY <3>1, LockInvExclusion DEF TypeInv, Exclusion
    <2>2. l.slot[1] \in 1 .. Len(dir_inode)
      BY <1>6, <1>10, LocalTypes DEF DeleteDirInode
    <2>3. dir_inode' \in Seq(Block) /\ Len(dir_inode') = Len(dir_inode) - 1
      BY <1>6, <1>10, <2>2, DropAtType DEF DeleteDirInode
    <2>4. MemoryOK'
      <3>1. Len(dir_inode) <= MaxFileBlocks
        BY LocalTypes DEF MemoryOK, Fits
      <3>2. Len(dir_inode') <= MaxFileBlocks
        <4>1. Len(dir_inode) \in Nat /\ MaxFileBlocks \in Nat
          BY <1>6, LayoutAssumption
        <4>2. QED
          BY <2>3, <3>1, <4>1
      <3>3. free_block' = free_block
        BY <1>10 DEF DeleteDirInode
      <3>4. QED
        BY <1>6, <2>3, <3>2, <3>3 DEF MemoryOK, Fits
    <2>5. DiskOK'
      <3>1. ContentOK(DirectoryBlock(dir_inode'))
        BY <2>4, FreshContent DEF MemoryOK, Fits
      <3>2. QED
        BY <1>10, <3>1, DiskWrite, LocalTypes DEF DeleteDirInode
    <2>6. QED
      BY <1>10, <2>1, <2>4, <2>5, LocalTypes DEF DeleteDirInode
  <1>11. CASE DeleteEntry(t)
    <2>1. ContentOK(TableBlock(WithoutEntry(l.table, l.slot[2])))
      BY LocalTypes, TableUpdates, FreshContent
    <2>2. MemoryOK' /\ DiskOK' /\ dir_inode' = dir_inode
      BY <1>3, <1>11, <2>1, DiskWrite, LocalTypes DEF DeleteEntry, memory
    <2>3. QED
      BY <1>11, <2>2, LocalTypes DEF DeleteEntry
  <1>12. CASE DeleteFree(t)
    <2> DEFINE freed == SubSeq(l.inode.blocks, 1, CeilDiv(l.inode.size))
    <2>1. Len(l.inode.blocks) = CeilDiv(l.inode.size)
      BY <1>12, LocalTypes DEF DeleteFree, InodeOK
    <2>2. freed \in Seq(Block)
      BY <2>1, HandlerTypes
    <2>3. << l.inode_block >> \in Seq(Block)
      BY LocalTypes
    <2>4. free_block' = free_block \o freed \o << l.inode_block >> /\ dir_inode' = dir_inode
      BY <1>12 DEF DeleteFree
    <2> HIDE DEF freed
    <2>5. MemoryOK'
      BY <1>6, <2>2, <2>3, <2>4, LocalTypes DEF MemoryOK
    <2>6. DiskOK'
      BY <1>4, <1>12 DEF DeleteFree
    <2>7. QED
      BY <1>12, <2>4, <2>5, <2>6, LocalTypes DEF DeleteFree
  <1>13. CASE DeleteUnlock(t)
    BY <1>3, <1>4, <1>13, LocalTypes DEF DeleteUnlock, memory
  <1>14. QED
    BY <1>7, <1>8, <1>9, <1>10, <1>11, <1>12, <1>13 DEF DeleteStep


-----------------------------------------------------------------------------
(* The other steps, and the theorem.                                       *)

LEMMA NoLocalsType == NoLocals \in Locals /\ Fits(NoLocals.inode.blocks)
  <1>1. EmptyTable \in Table /\ EmptyInode(NoUser) \in Inode /\ 0 \in Block
    BY FreshTypes, ZeroIsBlock
  <1>2. << 1, 1 >> \in (Nat \ {0}) \X (1 .. DirEntries)
    BY LayoutAssumption
  <1>3. << >> \in Seq(Block) /\ << >> \in Seq(Byte) /\ << >> \in Seq(Byte \cup {NoByte})
    OBVIOUS
  <1>4. NoLocals \in Locals
    BY <1>1, <1>2, <1>3 DEF NoLocals, Locals
  <1>5. NoLocals.inode.blocks = << >> /\ MaxFileBlocks \in Nat
    BY LayoutAssumption DEF NoLocals, EmptyInode
  <1>6. QED
    BY <1>4, <1>5 DEF Fits

\* A thread that is not in a handler owes nothing.
LEMMA IdleOK ==
    ASSUME NEW label \in {"reply", "done"}, NEW r, NEW l, NEW tables
    PROVE  LocalOK(label, r, l, tables)
  BY DEF LocalOK, ReadOK, AppendOK, DirectoryOK, ReadLabel

LEMMA NewOK ==
    ASSUME NEW r, NEW tables
    PROVE  LocalOK("new", r, NoLocals, tables)
  BY DEF LocalOK, ReadOK, AppendOK, DirectoryOK, ReadLabel

LEMMA TypeInvInit == Init => TypeInv
  <1> SUFFICES ASSUME Init PROVE TypeInv
    OBVIOUS
  <1>1. LockInv
    BY LockInvInit
  <1>2. DiskOK
    <2>1. ContentOK(DirectoryBlock(<< >>)) /\ ContentOK(DataBlock(EmptyBytes))
      <3>1. << >> \in Seq(Block) /\ Fits(<< >>)
        BY LayoutAssumption DEF Fits
      <3>2. EmptyBytes \in Bytes
        BY FreshTypes
      <3> HIDE DEF EmptyBytes
      <3>3. ContentOK(DirectoryBlock(<< >>))
        BY <3>1, FreshContent
      <3>4. ContentOK(DataBlock(EmptyBytes))
        BY <3>2, FreshContent
      <3>5. QED
        BY <3>3, <3>4
    <2>2. ContentOK(DirectoryBlock(<< >>)) => DirectoryBlock(<< >>) \in Content
      BY DEF ContentOK
    <2>3. ContentOK(DataBlock(EmptyBytes)) => DataBlock(EmptyBytes) \in Content
      BY DEF ContentOK
    <2> HIDE DEF ContentOK, DirectoryBlock, DataBlock, EmptyBytes
    <2>4. QED
      BY <2>1, <2>2, <2>3 DEF Init, DiskOK
  <1>3. MemoryOK
    <2>1. DiskSize - 1 \in Nat
      BY LayoutAssumption
    <2>2. [i \in 1 .. DiskSize - 1 |-> i] \in [1 .. DiskSize - 1 -> Block]
      BY LayoutAssumption DEF Block
    <2>3. free_block \in Seq(Block)
      BY <2>1, <2>2 DEF Init
    <2>4. dir_inode = << >> /\ MaxFileBlocks \in Nat
      BY LayoutAssumption DEF Init
    <2>5. QED
      BY <2>3, <2>4 DEF MemoryOK, Fits
  <1>4. loc \in [Thread -> Locals] /\ \A t \in Thread : Fits(loc[t].inode.blocks)
    BY NoLocalsType DEF Init
  <1>5. \A b \in Block : disk[b].kind \in {"directory", "inode"} => Fits(disk[b].blocks)
    BY <1>2 DEF DiskOK, ContentOK, InodeOK
  <1>6. up \in BOOLEAN /\ outcome \in [Thread -> Outcome]
    BY DEF Init, Outcome
  <1>7. TypeOK
    BY <1>1, <1>2, <1>3, <1>4, <1>5, <1>6 DEF TypeOK, LockInv, LockTypeOK, MemoryOK, DiskOK
  <1>8. \A t \in Thread : LocalOK(pc[t], req[t], loc[t], Len(dir_inode))
    BY NewOK DEF Init
  <1>9. QED
    BY <1>1, <1>2, <1>7, <1>8 DEF TypeInv

LEMMA EndTypes ==
    ASSUME TypeInv, LockInv', NEW t \in Thread, EndRequest(t)
    PROVE  TypeInv'
  <1>1. Step(t)
    BY DEF Step
  <1>2. UNCHANGED << disk, dir_inode, free_block >>
    BY DEF EndRequest, memory
  <1>3. MemoryOK' /\ DiskOK'
    BY <1>2, LocalTypes DEF MemoryOK, DiskOK
  <1>4. pc'[t] = "done" /\ loc' = [loc EXCEPT ![t] = NoLocals]
    BY DEF EndRequest, TypeInv, TypeOK
  <1>5. loc' \in [Thread -> Locals] /\ loc'[t] = NoLocals
    BY <1>4, NoLocalsType, HandlerTypes
  <1>6. Fits(loc'[t].inode.blocks)
    BY <1>5, NoLocalsType
  <1>7. LocalOK(pc'[t], req'[t], loc'[t], Len(dir_inode'))
    BY <1>4, IdleOK
  <1>8. QED
    BY <1>1, <1>2, <1>3, <1>5, <1>6, <1>7, TypeInvAssemble

\* A thread that accepts a request has its data and has checked it.
LEMMA AcceptTypes ==
    ASSUME TypeInv, LockInv', NEW t \in Thread, NEW r \in Request, Accept(t, r)
    PROVE  TypeInv'
  <1>1. /\ r.op \in Op /\ r.data \in Seq(Byte)
        /\ pc \in [Thread -> Label] /\ req \in [Thread -> RequestType \cup {NoRequest}]
    BY RequestAssumption DEF RequestType, TypeInv, TypeOK
  <1>2. /\ loc[t] = NoLocals
        /\ req' = [req EXCEPT ![t] = r] /\ loc' = [loc EXCEPT ![t].data = r.data]
        /\ UNCHANGED << disk, dir_inode, free_block, up >>
    BY DEF TypeInv, LocalOK, Accept, At, memory
  <1>3. loc' \in [Thread -> Locals]
    BY <1>1, <1>2, LocalUpdates
  <1>4. /\ loc'[t].inode = NoLocals.inode /\ loc'[t].data = r.data
        /\ loc'[t].result = << >> /\ req'[t] = r
    BY <1>1, <1>2, HandlerTypes DEF NoLocals, Locals
  <1>5. ASSUME NEW u \in Thread \ {t}
        PROVE  loc'[u] = loc[u] /\ pc'[u] = pc[u] /\ req'[u] = req[u]
    BY <1>1, <1>2, HandlerTypes DEF Accept, Goto, Return
  <1>6. LocalOK(pc'[t], req'[t], loc'[t], Len(dir_inode'))
    <2>1. CASE ~Valid(r) /\ Return(t, "invalid")
      <3>1. pc'[t] = "reply"
        BY <1>1, <2>1 DEF Return
      <3>2. QED
        BY <3>1, IdleOK
    <2>2. CASE Valid(r) /\ Goto(t, FirstStep(r.op))
      <3>1. /\ r.op = "read" => pc'[t] = "read_lock"
            /\ r.op = "append" => pc'[t] = "append_room"
            /\ r.op = "create" => pc'[t] = "create_reserve"
            /\ r.op = "delete" => pc'[t] = "delete_lock"
        BY <1>1, <2>2 DEF Goto, FirstStep, Op
      <3>2. r.op = "append" => r.data # << >>
        BY <1>1, <2>2 DEF Valid
      <3>3. QED
        BY <1>1, <1>4, <2>2, <3>1, <3>2
           DEF Op, LocalOK, ReadOK, AppendOK, DirectoryOK, ReadLabel
    <2>3. QED
      BY <2>1, <2>2 DEF Accept
  <1>7. \A u \in Thread : LocalOK(pc'[u], req'[u], loc'[u], Len(dir_inode'))
    BY <1>2, <1>5, <1>6 DEF TypeInv
  <1>8. \A u \in Thread : Fits(loc'[u].inode.blocks)
    BY <1>4, <1>5, NoLocalsType DEF TypeInv, TypeOK
  <1>9. outcome' \in [Thread -> Outcome]
    BY DEF Accept, Goto, Return, TypeInv, TypeOK, Outcome
  <1>10. TypeOK'
    BY <1>2, <1>3, <1>8, <1>9 DEF TypeInv, TypeOK, LockInv, LockTypeOK
  <1>11. QED
    BY <1>2, <1>7, <1>10 DEF TypeInv, DiskOK

LEMMA CrashTypes ==
    ASSUME TypeInv, LockInv', Crash
    PROVE  TypeInv'
  <1>1. loc' \in [Thread -> Locals] /\ \A t \in Thread : Fits(loc'[t].inode.blocks)
    BY NoLocalsType DEF Crash
  <1>2. dir_inode' = << >> /\ free_block' = << >> /\ MaxFileBlocks \in Nat
    BY LayoutAssumption DEF Crash
  <1>3. dir_inode' \in Seq(Block) /\ free_block' \in Seq(Block) /\ Fits(dir_inode')
    BY <1>2 DEF Fits
  <1>4. disk' = disk /\ up' \in BOOLEAN /\ outcome' \in [Thread -> Outcome]
    BY DEF Crash, Outcome
  <1>5. TypeOK'
    BY <1>1, <1>3, <1>4 DEF TypeInv, TypeOK, LockInv, LockTypeOK
  <1>6. ASSUME NEW t \in Thread
        PROVE  LocalOK(pc'[t], req'[t], loc'[t], Len(dir_inode'))
    <2>1. loc'[t] = NoLocals /\ pc'[t] \in {"new", "done"}
      BY DEF Crash
    <2>2. QED
      BY <2>1, IdleOK, NewOK
  <1>7. QED
    BY <1>4, <1>5, <1>6 DEF TypeInv, DiskOK

LEMMA TypeInvStep == TypeInv /\ [Next]_vars => TypeInv'
  <1> SUFFICES ASSUME TypeInv, [Next]_vars PROVE TypeInv'
    OBVIOUS
  <1>1. LockInv'
    BY LockInvStep DEF TypeInv
  <1>2. ASSUME NEW t \in Thread, Step(t) PROVE TypeInv'
    BY <1>1, <1>2, ReadTypes, AppendTypes, CreateTypes, DeleteTypes, EndTypes DEF Step
  <1>3. ASSUME NEW t \in Thread, NEW r \in Request, Accept(t, r) PROVE TypeInv'
    BY <1>1, <1>3, AcceptTypes
  <1>4. CASE Crash
    BY <1>1, <1>4, CrashTypes
  <1>5. CASE UNCHANGED vars
    BY <1>1, <1>5 DEF vars, memory, locks, TypeInv, TypeOK, DiskOK
  <1>6. QED
    BY <1>2, <1>3, <1>4, <1>5 DEF Next, Quiet

\* Every variable keeps its type, and no block list ever outgrows the array
\* of its inode: neither the directory nor a file, in memory or on disk.
THEOREM TypeCorrect == Spec => []TypeOK
  <1>1. TypeInv => TypeOK
    BY DEF TypeInv
  <1>2. QED
    BY TypeInvInit, TypeInvStep, <1>1, PTL DEF Spec

-----------------------------------------------------------------------------
(* The owners of blocks.                                                   *)

Root == << "root" >>
Free == << "free" >>
InDirectory == << "directory" >>
FileOf(n) == << "file", n >>
HeldBy(t) == << "held", t >>

Owner == {Root, Free, InDirectory}
           \cup {FileOf(n) : n \in Name \cup {NoName}}
           \cup {HeldBy(t) : t \in Thread}

\* The owners of a block that a delete has freed and not yet dropped: the
\* free list, or a create that took it from there.
Spare == {Free} \cup {HeldBy(t) : t \in Thread}

Distinct(s) == \A i, j \in 1 .. Len(s) : s[i] = s[j] => i = j

\* o owns every block of s, and s has no block twice.
Owns(own, o, s) == Distinct(s) /\ \A i \in 1 .. Len(s) : own[s[i]] = o

Used == {s \in Slots : EntryAt(s).inode_block > 0}
FileBlocks(s) == disk[EntryAt(s).inode_block].blocks

DirectoryOwned(own) ==
    /\ own[0] = Root
    /\ Distinct(dir_inode)
    /\ \A i \in 1 .. Len(dir_inode) :
         \/ own[dir_inode[i]] = InDirectory
         \/ i \in Dropping /\ own[dir_inode[i]] \in Spare

FilesOwned(own) ==
    \A s \in Used :
      /\ own[EntryAt(s).inode_block] = FileOf(EntryAt(s).name)
      /\ Owns(own, FileOf(EntryAt(s).name), FileBlocks(s))

Ownership(own) ==
    /\ DirectoryOwned(own)
    /\ FilesOwned(own)
    /\ Owns(own, Free, free_block)
    /\ \A t \in Thread : Owns(own, HeldBy(t), HeldBlocks(t))

-----------------------------------------------------------------------------
(* The directory and its files.                                            *)

TablesOK ==
    \A i \in 1 .. Len(dir_inode) :
      disk[dir_inode[i]].kind = "table" /\ UsedEntries(TableAt(i)) # {}

NamesOK == \A r, s \in Used : EntryAt(r).name = EntryAt(s).name => r = s

FileOK(b) ==
    /\ disk[b].kind = "inode"
    /\ disk[b].owner \in User
    /\ \A i \in 1 .. Len(disk[b].blocks) : disk[disk[b].blocks[i]].kind = "data"

DirectoryInv ==
    /\ disk[0] = DirectoryBlock(dir_inode)
    /\ TablesOK
    /\ NamesOK
    /\ \A s \in Used : FileOK(EntryAt(s).inode_block)

-----------------------------------------------------------------------------
(* What a handler knows at a step.                                         *)

FoundLabel == {"append_filelock", "append_inode", "append_alloc",
               "append_partial", "append_data", "append_commit"}
CopyLabel == {"append_alloc", "append_partial", "append_data", "append_commit"}

\* The entry that an append found is still the one of its file.
FoundOK(t) ==
    pc[t] \in FoundLabel =>
      \E s \in Used : /\ EntryAt(s).name = req[t].name
                      /\ EntryAt(s).inode_block = loc[t].inode_block

\* The copy of the inode is the one on disk, but for the blocks linked.
CopyOK(t) ==
    LET i == loc[t].inode
        d == disk[loc[t].inode_block]
    IN
    pc[t] \in CopyLabel =>
      /\ i.owner = d.owner /\ i.size = d.size
      /\ Len(d.blocks) <= Len(i.blocks)
      /\ \A k \in 1 .. Len(i.blocks) :
           IF k <= Len(d.blocks) THEN i.blocks[k] = d.blocks[k]
                                 ELSE disk[i.blocks[k]].kind = "data"

\* The name is new, the slot free, its table the one read, and the blocks
\* that a step wrote hold what it wrote.
CreateOK(t) ==
    LET l == loc[t] IN
    /\ pc[t] \in {"create_inode", "create_entry", "create_extend",
                  "create_new_inode", "create_new_table", "create_dir_inode"} =>
         \A s \in Used : EntryAt(s).name # req[t].name
    /\ pc[t] \in {"create_inode", "create_entry"} =>
         /\ l.slot \in Slots
         /\ EntryAt(l.slot).inode_block = 0
         /\ l.table = TableAt(l.slot[1])
    /\ pc[t] = "create_entry" => disk[l.free_b_1] = EmptyInode(req[t].user)
    /\ pc[t] \in {"create_new_table", "create_dir_inode"} =>
         disk[l.free_b_2] = EmptyInode(req[t].user)
    /\ pc[t] = "create_dir_inode" =>
         disk[l.free_b_1] = TableBlock(WithEntry(EmptyTable, 1, req[t].name, l.free_b_2))

\* The slot, the table and the inode are still those read, and the table is
\* dropped only with its last entry.
DeleteOK(t) ==
    LET l == loc[t] IN
    pc[t] \in {"delete_free_table", "delete_dir_inode", "delete_entry"} =>
      /\ l.slot \in Used
      /\ l.table = TableAt(l.slot[1])
      /\ l.inode_block = EntryAt(l.slot).inode_block
      /\ l.inode = disk[l.inode_block]
      /\ UsedEntries(l.table) = {l.slot[2]} <=> pc[t] # "delete_entry"

HandlerOK(t) == FoundOK(t) /\ CopyOK(t) /\ CreateOK(t) /\ DeleteOK(t)

RunningInv ==
    /\ DirectoryInv
    /\ \A t \in Thread : HandlerOK(t)
    /\ \E own \in [Block -> Owner] : Ownership(own)

StoreInv ==
    /\ TypeInv
    /\ up => RunningInv
    /\ ~up => DiskConsistent /\ \A t \in Thread : pc[t] \in {"new", "done"}

-----------------------------------------------------------------------------
(* Owners differ, and how a change of owner keeps what the others own.     *)

LEMMA OwnersDiffer ==
    /\ Root # Free /\ Root # InDirectory /\ Free # InDirectory
    /\ \A n : FileOf(n) # Root /\ FileOf(n) # Free /\ FileOf(n) # InDirectory
    /\ \A t : HeldBy(t) # Root /\ HeldBy(t) # Free /\ HeldBy(t) # InDirectory
    /\ \A n, t : FileOf(n) # HeldBy(t)
    /\ \A m, n : FileOf(m) = FileOf(n) => m = n
    /\ \A t, u : HeldBy(t) = HeldBy(u) => t = u
  BY DEF Root, Free, InDirectory, FileOf, HeldBy

LEMMA OwnerTypes ==
    /\ Root \in Owner /\ Free \in Owner /\ InDirectory \in Owner
    /\ \A n \in Name \cup {NoName} : FileOf(n) \in Owner
    /\ \A t \in Thread : HeldBy(t) \in Owner
    /\ Free \in Spare /\ \A t \in Thread : HeldBy(t) \in Spare
    /\ Root \notin Spare /\ InDirectory \notin Spare /\ \A n : FileOf(n) \notin Spare
  BY OwnersDiffer DEF Owner, Spare

\* The blocks of M get the owner o.
Moved(own, M, o) == [b \in Block |-> IF b \in M THEN o ELSE own[b]]

LEMMA MovedType ==
    ASSUME NEW own \in [Block -> Owner], NEW M, NEW o \in Owner
    PROVE  Moved(own, M, o) \in [Block -> Owner]
  BY DEF Moved

\* A sequence keeps its owner when its blocks do.
LEMMA OwnsFrame ==
    ASSUME NEW own, NEW own2, NEW o, NEW s \in Seq(Block), Owns(own, o, s),
           \A b \in Block : own[b] = o => own2[b] = o
    PROVE  Owns(own2, o, s)
  BY DEF Owns

LEMMA OwnsEmpty == \A own, o : Owns(own, o, << >>)
  BY DEF Owns, Distinct

LEMMA OwnsOne ==
    ASSUME NEW own, NEW o, NEW b \in Block
    PROVE  Owns(own, o, << b >>) <=> own[b] = o
  BY DEF Owns, Distinct

LEMMA OwnsConcat ==
    ASSUME NEW own, NEW o, NEW a \in Seq(Block), NEW c \in Seq(Block)
    PROVE  Owns(own, o, a \o c) <=>
             /\ Owns(own, o, a) /\ Owns(own, o, c)
             /\ \A i \in 1 .. Len(a), j \in 1 .. Len(c) : a[i] # c[j]
  <1> DEFINE s == a \o c
  <1>1. /\ Len(s) = Len(a) + Len(c)
        /\ Len(a) \in Nat /\ Len(c) \in Nat
        /\ \A i \in 1 .. Len(a) : s[i] = a[i] /\ i \in 1 .. Len(s)
        /\ \A j \in 1 .. Len(c) : s[Len(a) + j] = c[j] /\ Len(a) + j \in 1 .. Len(s)
    OBVIOUS
  <1>2. \A i \in 1 .. Len(s) : i \in 1 .. Len(a) \/ i - Len(a) \in 1 .. Len(c)
    BY <1>1
  <1>3. \A i \in 1 .. Len(s) \ (1 .. Len(a)) : s[i] = c[i - Len(a)]
    BY <1>1, <1>2
  <1> HIDE DEF s
  <1>4. ASSUME Owns(own, o, s)
        PROVE  /\ Owns(own, o, a) /\ Owns(own, o, c)
               /\ \A i \in 1 .. Len(a), j \in 1 .. Len(c) : a[i] # c[j]
    <2>1. Owns(own, o, a)
      BY <1>1, <1>4 DEF Owns, Distinct
    <2>2. Owns(own, o, c)
      <3>1. ASSUME NEW i \in 1 .. Len(c), NEW j \in 1 .. Len(c), c[i] = c[j] PROVE i = j
        <4>1. s[Len(a) + i] = s[Len(a) + j]
          BY <1>1, <3>1
        <4>2. Len(a) + i = Len(a) + j
          BY <1>1, <1>4, <4>1 DEF Owns, Distinct
        <4>3. QED
          BY <1>1, <4>2
      <3>2. QED
        BY <1>1, <1>4, <3>1 DEF Owns, Distinct
    <2>3. ASSUME NEW i \in 1 .. Len(a), NEW j \in 1 .. Len(c), a[i] = c[j] PROVE FALSE
      <3>1. i = Len(a) + j
        BY <1>1, <1>4, <2>3 DEF Owns, Distinct
      <3>2. QED
        BY <1>1, <3>1
    <2>4. QED
      BY <2>1, <2>2, <2>3
  <1>5. ASSUME Owns(own, o, a), Owns(own, o, c),
               \A i \in 1 .. Len(a), j \in 1 .. Len(c) : a[i] # c[j]
        PROVE  Owns(own, o, s)
    <2>1. ASSUME NEW i \in 1 .. Len(s) PROVE own[s[i]] = o
      <3>1. CASE i \in 1 .. Len(a)
        BY <1>1, <1>5, <3>1 DEF Owns
      <3>2. CASE i \notin 1 .. Len(a)
        <4>1. s[i] = c[i - Len(a)] /\ i - Len(a) \in 1 .. Len(c)
          BY <1>2, <1>3, <3>2
        <4>2. QED
          BY <1>5, <4>1 DEF Owns
      <3>3. QED
        BY <3>1, <3>2
    <2>2. ASSUME NEW i \in 1 .. Len(s), NEW j \in 1 .. Len(s), s[i] = s[j] PROVE i = j
      <3>1. CASE i \in 1 .. Len(a) /\ j \in 1 .. Len(a)
        BY <1>1, <1>5, <2>2, <3>1 DEF Owns, Distinct
      <3>2. CASE i \in 1 .. Len(a) /\ j \notin 1 .. Len(a)
        BY <1>1, <1>2, <1>3, <1>5, <2>2, <3>2
      <3>3. CASE i \notin 1 .. Len(a) /\ j \in 1 .. Len(a)
        BY <1>1, <1>2, <1>3, <1>5, <2>2, <3>3
      <3>4. CASE i \notin 1 .. Len(a) /\ j \notin 1 .. Len(a)
        <4>1. i - Len(a) = j - Len(a)
          BY <1>2, <1>3, <1>5, <2>2, <3>4 DEF Owns, Distinct
        <4>2. i \in Int /\ j \in Int /\ Len(a) \in Int
          BY <1>1
        <4>3. QED
          BY <4>1, <4>2
      <3>5. QED
        BY <3>1, <3>2, <3>3, <3>4
    <2>3. QED
      BY <2>1, <2>2 DEF Owns, Distinct
  <1>6. QED
    BY <1>4, <1>5 DEF s

-----------------------------------------------------------------------------
(* The blocks of files and handlers.                                       *)

LEMMA FileTypes ==
    ASSUME TypeInv, DirectoryInv, NEW s \in Used
    PROVE  /\ s \in Slots
           /\ EntryAt(s).inode_block \in Block \ {0}
           /\ EntryAt(s).name \in Name \cup {NoName}
           /\ disk[EntryAt(s).inode_block] \in Inode
           /\ FileBlocks(s) \in Seq(Block)
           /\ Len(FileBlocks(s)) = CeilDiv(disk[EntryAt(s).inode_block].size)
  <1> DEFINE b == EntryAt(s).inode_block
  <1>1. s \in Slots /\ b > 0 /\ FileOK(b)
    BY DEF Used, DirectoryInv
  <1>2. TableAt(s[1]) \in Table /\ b \in Block
    BY <1>1, SlotTypes DEF TypeInv
  <1>3. EntryAt(s).name \in Name \cup {NoName}
    BY <1>1, <1>2 DEF EntryAt, Slots, Table, Entry
  <1>4. disk[b].kind = "inode" /\ AsInode(disk[b]) = disk[b]
    BY <1>1 DEF FileOK, AsInode
  <1>5. disk[b] \in Inode /\ InodeOK(disk[b])
    BY <1>2, <1>4, InodeOfDisk DEF TypeInv
  <1>6. QED
    BY <1>1, <1>2, <1>3, <1>5 DEF FileBlocks, Inode, InodeOK

LEMMA SubSeqTail ==
    ASSUME NEW s \in Seq(Block), NEW n \in Nat
    PROVE  /\ SubSeq(s, n + 1, Len(s)) \in Seq(Block)
           /\ n >= Len(s) => SubSeq(s, n + 1, Len(s)) = << >>
           /\ n <= Len(s) => /\ Len(SubSeq(s, n + 1, Len(s))) = Len(s) - n
                             /\ \A i \in 1 .. Len(s) - n :
                                  SubSeq(s, n + 1, Len(s))[i] = s[n + i]
  <1>1. \A i \in n + 1 .. Len(s) : s[i] \in Block
    OBVIOUS
  <1>2. SubSeq(s, n + 1, Len(s)) \in Seq(Block)
    BY <1>1, SubSeqProperties
  <1>3. QED
    BY <1>2

LEMMA HeldTypes ==
    ASSUME TypeInv, NEW t \in Thread
    PROVE  HeldBlocks(t) \in Seq(Block)
  <1> DEFINE l == loc[t]
             linked == SubSeq(l.inode.blocks, CeilDiv(l.inode.size) + 1,
                              Len(l.inode.blocks))
  <1>1. /\ l.tmp \in Seq(Block) /\ l.inode.blocks \in Seq(Block)
        /\ l.inode_block \in Block /\ l.free_b_1 \in Block /\ l.free_b_2 \in Block
    BY LocalTypes
  <1>2. linked \in Seq(Block)
    <2>1. CeilDiv(l.inode.size) \in Nat
      BY LocalTypes, CeilDivBounds
    <2>2. QED
      BY <1>1, <2>1, SubSeqTail
  <1> HIDE DEF linked
  <1>3. /\ << l.free_b_1 >> \in Seq(Block) /\ << l.free_b_1, l.free_b_2 >> \in Seq(Block)
        /\ << l.inode_block >> \in Seq(Block) /\ << >> \in Seq(Block)
    BY <1>1
  <1>4. l.tmp \o linked \in Seq(Block) /\ l.inode.blocks \o << l.inode_block >> \in Seq(Block)
    BY <1>1, <1>2, <1>3
  <1>5. QED
    BY <1>3, <1>4 DEF HeldBlocks, linked

LEMMA OthersHold ==
    ASSUME TypeInv, NEW t \in Thread, Step(t), NEW u \in Thread \ {t}
    PROVE  HeldBlocks(u)' = HeldBlocks(u)
  <1>1. pc'[u] = pc[u] /\ loc'[u] = loc[u]
    BY OthersUnchanged DEF TypeInv
  <1>2. QED
    BY <1>1 DEF HeldBlocks

\* A handler of the directory that is not dropping a table has no other
\* thread that does.
LEMMA NoneDropping ==
    ASSUME TypeInv, NEW t \in Thread, t \in ReadingDir \cup WritingDir,
           pc[t] # "delete_dir_inode"
    PROVE  Dropping = {}
  <1>1. ASSUME NEW u \in Thread, pc[u] = "delete_dir_inode" PROVE FALSE
    <2>1. u \in WritingDir
      BY <1>1 DEF WritingDir, WritingDirLabel, DeleteLabel
    <2>2. ReadingDir = {} /\ WritingDir = {u}
      BY <2>1, LockInvExclusion DEF TypeInv, Exclusion
    <2>3. QED
      BY <1>1, <2>2
  <1>2. QED
    BY <1>1 DEF Dropping, At

LEMMA OthersDrop ==
    ASSUME TypeInv, NEW t \in Thread, Step(t), pc[t] # "delete_dir_inode"
    PROVE  Dropping \subseteq Dropping'
  <1>1. ASSUME NEW u \in Thread, pc[u] = "delete_dir_inode"
        PROVE  pc'[u] = "delete_dir_inode" /\ loc'[u] = loc[u]
    BY <1>1, OthersUnchanged DEF TypeInv
  <1>2. QED
    BY <1>1 DEF Dropping, At

-----------------------------------------------------------------------------
(* Steps that leave the disk and the directory alone.                      *)

LEMMA DirectoryFrame ==
    ASSUME dir_inode' = dir_inode,
           \A i \in 1 .. Len(dir_inode) : disk'[dir_inode[i]] = disk[dir_inode[i]]
    PROVE  /\ Slots' = Slots
           /\ \A i \in 1 .. Len(dir_inode) : TableAt(i)' = TableAt(i)
           /\ \A s \in Slots : EntryAt(s)' = EntryAt(s)
           /\ Used' = Used
  <1>1. Slots' = Slots
    BY DEF Slots
  <1>2. \A i \in 1 .. Len(dir_inode) : TableAt(i)' = TableAt(i)
    BY DEF TableAt
  <1>3. \A s \in Slots : EntryAt(s)' = EntryAt(s)
    BY <1>2 DEF EntryAt, Slots
  <1>4. QED
    BY <1>1, <1>2, <1>3 DEF Used

LEMMA SameDisk ==
    ASSUME TypeInv, DirectoryInv, UNCHANGED << disk, dir_inode >>
    PROVE  /\ DirectoryInv'
           /\ \A own : FilesOwned(own) => FilesOwned(own)'
           /\ \A own : DirectoryOwned(own) /\ Dropping \subseteq Dropping' =>
                         DirectoryOwned(own)'
  <1>1. /\ Slots' = Slots /\ Used' = Used
        /\ \A i \in 1 .. Len(dir_inode) : TableAt(i)' = TableAt(i)
        /\ \A s \in Slots : EntryAt(s)' = EntryAt(s)
    BY DirectoryFrame
  <1>2. \A s \in Used : s \in Slots /\ EntryAt(s)' = EntryAt(s) /\ FileBlocks(s)' = FileBlocks(s)
    BY <1>1 DEF Used, FileBlocks
  <1>3. DirectoryInv'
    BY <1>1, <1>2 DEF DirectoryInv, TablesOK, NamesOK, FileOK
  <1>4. ASSUME NEW own, FilesOwned(own) PROVE FilesOwned(own)'
    BY <1>1, <1>2, <1>4 DEF FilesOwned, Owns
  <1>5. ASSUME NEW own, DirectoryOwned(own), Dropping \subseteq Dropping'
        PROVE  DirectoryOwned(own)'
    BY <1>5 DEF DirectoryOwned
  <1>6. QED
    BY <1>3, <1>4, <1>5

\* What a thread that does not move knows of the disk and the directory
\* stays true.
LEMMA SameDiskHandler ==
    ASSUME UNCHANGED << disk, dir_inode >>, NEW u, HandlerOK(u),
           pc'[u] = pc[u], loc'[u] = loc[u], req'[u] = req[u]
    PROVE  HandlerOK(u)'
  <1>1. pc'[u] = pc[u] /\ loc'[u] = loc[u] /\ req'[u] = req[u]
    OBVIOUS
  <1>2. /\ Slots' = Slots /\ Used' = Used
        /\ \A i \in 1 .. Len(dir_inode) : TableAt(i)' = TableAt(i)
        /\ \A s \in Slots : EntryAt(s)' = EntryAt(s)
    BY DirectoryFrame
  <1>3. \A s \in Used : s \in Slots
    BY DEF Used
  <1>4. FoundOK(u)'
    BY <1>1, <1>2, <1>3 DEF HandlerOK, FoundOK
  <1>5. CopyOK(u)'
    BY <1>1 DEF HandlerOK, CopyOK
  <1>6. CreateOK(u)'
    <2>1. \A s \in Slots : s[1] \in 1 .. Len(dir_inode)
      BY DEF Slots
    <2>2. QED
      BY <1>1, <1>2, <1>3, <2>1 DEF HandlerOK, CreateOK
  <1>7. DeleteOK(u)'
    <2>1. \A s \in Slots : s[1] \in 1 .. Len(dir_inode)
      BY DEF Slots
    <2>2. QED
      BY <1>1, <1>2, <1>3, <2>1 DEF HandlerOK, DeleteOK
  <1>8. QED
    BY <1>4, <1>5, <1>6, <1>7 DEF HandlerOK

LEMMA SameDiskOthers ==
    ASSUME TypeInv, NEW t \in Thread, Step(t), UNCHANGED << disk, dir_inode >>,
           NEW u \in Thread \ {t}, HandlerOK(u)
    PROVE  HandlerOK(u)'
  BY OthersUnchanged, SameDiskHandler DEF TypeInv

-----------------------------------------------------------------------------
(* How a step keeps StoreInv.                                              *)

\* A step keeps StoreInv when it does so for the directory, its own thread
\* and what the others know, and takes no block of another thread.
LEMMA Assemble ==
    ASSUME StoreInv, up, TypeInv', NEW t \in Thread, Step(t),
           DirectoryInv', HandlerOK(t)', \A u \in Thread \ {t} : HandlerOK(u)',
           NEW own \in [Block -> Owner], Ownership(own),
           NEW own2 \in [Block -> Owner],
           DirectoryOwned(own2)', FilesOwned(own2)',
           Owns(own2, Free, free_block)', Owns(own2, HeldBy(t), HeldBlocks(t))',
           \A u \in Thread \ {t} : \A b \in Block :
             own[b] = HeldBy(u) => own2[b] = HeldBy(u)
    PROVE  StoreInv'
  <1>1. TypeInv /\ up'
    BY ControlUnchanged DEF StoreInv, TypeInv
  <1>2. ASSUME NEW u \in Thread PROVE Owns(own2, HeldBy(u), HeldBlocks(u))'
    <2>1. CASE u = t
      BY <2>1
    <2>2. CASE u # t
      <3>1. HeldBlocks(u)' = HeldBlocks(u) /\ HeldBlocks(u) \in Seq(Block)
        BY <1>1, <2>2, OthersHold, HeldTypes
      <3>2. Owns(own, HeldBy(u), HeldBlocks(u))
        BY DEF Ownership
      <3>3. Owns(own2, HeldBy(u), HeldBlocks(u))
        BY <2>2, <3>1, <3>2, OwnsFrame
      <3>4. QED
        BY <3>1, <3>3 DEF Owns, HeldBy
    <2>3. QED
      BY <2>1, <2>2
  <1>3. Ownership(own2)'
    BY <1>2 DEF Ownership
  <1>4. \A u \in Thread : HandlerOK(u)'
    OBVIOUS
  <1>5. QED
    BY <1>1, <1>3, <1>4 DEF StoreInv, RunningInv

\* A step that leaves the disk and the memory of the server alone, and
\* releases what it holds or holds on to it.
LEMMA QuietStep ==
    ASSUME StoreInv, up, TypeInv', NEW t \in Thread, Step(t),
           UNCHANGED << disk, dir_inode, free_block >>,
           pc[t] # "delete_dir_inode",
           HeldBlocks(t)' = HeldBlocks(t) \/ HeldBlocks(t)' = << >>,
           HandlerOK(t)'
    PROVE  StoreInv'
  <1>1. TypeInv /\ RunningInv
    BY DEF StoreInv
  <1>2. PICK own \in [Block -> Owner] : Ownership(own)
    BY <1>1 DEF RunningInv
  <1>3. DirectoryInv' /\ FilesOwned(own)' /\ DirectoryOwned(own)'
    BY <1>1, <1>2, SameDisk, OthersDrop DEF RunningInv, Ownership
  <1>4. Owns(own, Free, free_block)'
    BY <1>2 DEF Ownership, Owns, Free
  <1>5. Owns(own, HeldBy(t), HeldBlocks(t))'
    <2>1. Owns(own, HeldBy(t), HeldBlocks(t)')
      BY <1>2, OwnsEmpty DEF Ownership
    <2>2. QED
      BY <2>1 DEF Owns, HeldBy
  <1>6. \A u \in Thread \ {t} : HandlerOK(u)'
    BY <1>1, SameDiskOthers DEF RunningInv
  <1>7. QED
    BY <1>2, <1>3, <1>4, <1>5, <1>6, Assemble

\* A step that changes the free list and what the thread holds, and leaves
\* the blocks of the directory and the files to them.
LEMMA FreeListStep ==
    ASSUME StoreInv, up, TypeInv', NEW t \in Thread, Step(t),
           UNCHANGED << disk, dir_inode >>, HandlerOK(t)',
           NEW own \in [Block -> Owner], Ownership(own),
           NEW own2 \in [Block -> Owner], DirectoryOwned(own2)',
           \A b \in Block : own2[b] # own[b] =>
             own[b] \in {Free, InDirectory, HeldBy(t)},
           Owns(own2, Free, free_block)', Owns(own2, HeldBy(t), HeldBlocks(t))'
    PROVE  StoreInv'
  <1>1. TypeInv /\ RunningInv
    BY DEF StoreInv
  <1>2. DirectoryInv' /\ FilesOwned(own)' /\ \A s \in Used' : s \in Used
    <2>1. Used' = Used
      BY DirectoryFrame
    <2>2. QED
      BY <1>1, <2>1, SameDisk DEF RunningInv, Ownership
  <1>3. FilesOwned(own2)
    <2>1. ASSUME NEW s \in Used
          PROVE  /\ own2[EntryAt(s).inode_block] = FileOf(EntryAt(s).name)
                 /\ Owns(own2, FileOf(EntryAt(s).name), FileBlocks(s))
      <3>1. \A b \in Block : own[b] = FileOf(EntryAt(s).name) =>
                               own2[b] = FileOf(EntryAt(s).name)
        BY OwnersDiffer
      <3>2. QED
        BY <1>1, <3>1, FileTypes, OwnsFrame DEF RunningInv, Ownership, FilesOwned
    <2>2. QED
      BY <2>1 DEF FilesOwned
  <1>4. FilesOwned(own2)'
    BY <1>1, <1>3, SameDisk DEF RunningInv
  <1>5. \A u \in Thread \ {t} : HandlerOK(u)'
    BY <1>1, SameDiskOthers DEF RunningInv
  <1>6. \A u \in Thread \ {t} : \A b \in Block :
          own[b] = HeldBy(u) => own2[b] = HeldBy(u)
    BY OwnersDiffer
  <1>7. QED
    BY <1>2, <1>4, <1>5, <1>6, Assemble

LEMMA SubSeqHead ==
    ASSUME NEW s \in Seq(Block), NEW n \in 0 .. Len(s)
    PROVE  /\ SubSeq(s, 1, n) \in Seq(Block)
           /\ Len(SubSeq(s, 1, n)) = n
           /\ \A i \in 1 .. n : SubSeq(s, 1, n)[i] = s[i]
  <1>1. \A i \in 1 .. n : s[i] \in Block
    OBVIOUS
  <1>2. SubSeq(s, 1, n) \in Seq(Block)
    BY <1>1, SubSeqProperties
  <1>3. QED
    BY <1>2

\* The top of the free list goes to o.
LEMMA TakeBlocks ==
    ASSUME NEW own \in [Block -> Owner], NEW f \in Seq(Block), NEW n \in 0 .. Len(f),
           NEW o \in Owner, o # Free, Owns(own, Free, f)
    PROVE  \E own2 \in [Block -> Owner] :
             /\ Owns(own2, Free, SubSeq(f, 1, n))
             /\ Owns(own2, o, SubSeq(f, n + 1, Len(f)))
             /\ \A b \in Block : own2[b] # own[b] => own[b] = Free /\ own2[b] = o
  <1> DEFINE kept == SubSeq(f, 1, n)
             taken == SubSeq(f, n + 1, Len(f))
             M == {f[i] : i \in n + 1 .. Len(f)}
             own2 == Moved(own, M, o)
  <1>1. /\ Len(kept) = n /\ \A i \in 1 .. n : kept[i] = f[i]
        /\ Len(taken) = Len(f) - n /\ \A i \in 1 .. Len(f) - n : taken[i] = f[n + i]
    BY SubSeqHead, SubSeqTail
  <1>2. own2 \in [Block -> Owner] /\ \A b \in Block : own2[b] = IF b \in M THEN o ELSE own[b]
    BY MovedType DEF Moved
  <1>3. \A i \in 1 .. Len(f) : f[i] \in Block /\ own[f[i]] = Free
    BY DEF Owns
  <1>4. \A i, j \in 1 .. Len(f) : f[i] = f[j] => i = j
    BY DEF Owns, Distinct
  <1> HIDE DEF kept, taken, own2
  <1>5. Owns(own2, Free, kept)
    <2>1. \A i \in 1 .. n : i \in 1 .. Len(f) /\ f[i] \notin M
      BY <1>4
    <2>2. \A i \in 1 .. n : own2[kept[i]] = Free
      BY <1>1, <1>2, <1>3, <2>1
    <2>3. ASSUME NEW i \in 1 .. n, NEW j \in 1 .. n, kept[i] = kept[j] PROVE i = j
      <3>1. f[i] = f[j]
        BY <1>1, <2>3
      <3>2. QED
        BY <1>4, <2>1, <3>1
    <2>4. QED
      BY <1>1, <2>2, <2>3 DEF Owns, Distinct
  <1>6. Owns(own2, o, taken)
    <2>1. \A i \in 1 .. Len(f) - n : n + i \in n + 1 .. Len(f) /\ n + i \in 1 .. Len(f)
      OBVIOUS
    <2>2. \A i \in 1 .. Len(f) - n : taken[i] = f[n + i] /\ f[n + i] \in M
      BY <1>1, <2>1
    <2>3. \A i \in 1 .. Len(f) - n : own2[taken[i]] = o
      BY <1>2, <1>3, <2>1, <2>2
    <2>4. ASSUME NEW i \in 1 .. Len(f) - n, NEW j \in 1 .. Len(f) - n, taken[i] = taken[j]
          PROVE  i = j
      <3>1. n + i = n + j
        BY <1>1, <1>4, <2>1, <2>4
      <3>2. QED
        BY <3>1
    <2>5. QED
      BY <1>1, <2>3, <2>4 DEF Owns, Distinct
  <1>7. \A b \in Block : own2[b] # own[b] => own[b] = Free /\ own2[b] = o
    <2>1. \A i \in n + 1 .. Len(f) : i \in 1 .. Len(f)
      OBVIOUS
    <2>2. \A b \in M : own[b] = Free
      BY <1>3, <2>1
    <2>3. QED
      BY <1>2, <2>2
  <1>8. QED
    BY <1>2, <1>5, <1>6, <1>7 DEF kept, taken

BlocksOf(s) == {s[i] : i \in 1 .. Len(s)}

\* The blocks of s go from o to o2, which keeps its own.
LEMMA GiveBlocks ==
    ASSUME NEW own \in [Block -> Owner], NEW s \in Seq(Block),
           NEW o \in Owner, NEW o2 \in Owner, o # o2, Owns(own, o, s),
           NEW own2, own2 = Moved(own, BlocksOf(s), o2)
    PROVE  /\ own2 \in [Block -> Owner]
           /\ Owns(own2, o2, s)
           /\ \A f \in Seq(Block) : Owns(own, o2, f) => Owns(own2, o2, f)
           /\ \A b \in Block : own2[b] # own[b] =>
                own[b] = o /\ own2[b] = o2 /\ b \in BlocksOf(s)
  <1>1. own2 \in [Block -> Owner]
        /\ \A b \in Block : own2[b] = IF b \in BlocksOf(s) THEN o2 ELSE own[b]
    BY MovedType DEF Moved
  <1>2. \A i \in 1 .. Len(s) : s[i] \in Block /\ own[s[i]] = o /\ s[i] \in BlocksOf(s)
    BY DEF Owns, BlocksOf
  <1>3. \A f \in Seq(Block) : \A i \in 1 .. Len(f) : f[i] \in Block
    OBVIOUS
  <1>4. Owns(own2, o2, s)
    BY <1>1, <1>2 DEF Owns
  <1>5. \A f \in Seq(Block) : Owns(own, o2, f) => Owns(own2, o2, f)
    BY <1>1, <1>3 DEF Owns
  <1>6. \A b \in Block : own2[b] # own[b] =>
          own[b] = o /\ own2[b] = o2 /\ b \in BlocksOf(s)
    BY <1>1, <1>2 DEF BlocksOf
  <1>7. QED
    BY <1>1, <1>4, <1>5, <1>6

LEMMA SpareMoves ==
    ASSUME TypeInv, NEW own, NEW own2, DirectoryOwned(own),
           \A b \in Block : own2[b] # own[b] => own[b] \in Spare /\ own2[b] \in Spare
    PROVE  DirectoryOwned(own2)
  <1>1. 0 \in Block /\ \A i \in 1 .. Len(dir_inode) : dir_inode[i] \in Block
    BY ZeroIsBlock DEF TypeInv, TypeOK
  <1>2. QED
    BY <1>1, OwnerTypes DEF DirectoryOwned

\* A handler takes the top of the free list.
LEMMA TakeStep ==
    ASSUME StoreInv, up, TypeInv', NEW t \in Thread, Step(t),
           UNCHANGED << disk, dir_inode >>, pc[t] # "delete_dir_inode", HandlerOK(t)',
           NEW n \in 0 .. Len(free_block), free_block' = SubSeq(free_block, 1, n),
           HeldBlocks(t)' = HeldBlocks(t) \o SubSeq(free_block, n + 1, Len(free_block))
    PROVE  StoreInv'
  <1> DEFINE taken == SubSeq(free_block, n + 1, Len(free_block))
  <1>1. TypeInv /\ RunningInv /\ free_block \in Seq(Block)
    BY DEF StoreInv, TypeInv, TypeOK
  <1>2. PICK own \in [Block -> Owner] : Ownership(own)
    BY <1>1 DEF RunningInv
  <1>3. HeldBy(t) \in Owner /\ HeldBy(t) # Free /\ Owns(own, Free, free_block)
    BY <1>2, OwnersDiffer, OwnerTypes DEF Ownership
  <1>4. PICK own2 \in [Block -> Owner] :
             /\ Owns(own2, Free, SubSeq(free_block, 1, n))
             /\ Owns(own2, HeldBy(t), taken)
             /\ \A b \in Block : own2[b] # own[b] => own[b] = Free /\ own2[b] = HeldBy(t)
    BY <1>1, <1>3, TakeBlocks
  <1>5. DirectoryOwned(own2)'
    <2>1. DirectoryOwned(own2)
      BY <1>1, <1>2, <1>4, SpareMoves, OwnerTypes DEF Ownership
    <2>2. QED
      BY <1>1, <2>1, SameDisk, OthersDrop DEF RunningInv
  <1>6. Owns(own2, Free, free_block)'
    BY <1>4 DEF Owns, Free
  <1>7. taken \in Seq(Block) /\ HeldBlocks(t) \in Seq(Block)
    BY <1>1, HeldTypes, SubSeqTail
  <1>8. Owns(own, HeldBy(t), HeldBlocks(t))
    BY <1>2 DEF Ownership
  <1>9. Owns(own2, HeldBy(t), HeldBlocks(t) \o taken)
    <2>1. \A i \in 1 .. Len(taken) : own[taken[i]] = Free
      <3>1. Len(free_block) - n \in Nat /\ Len(taken) = Len(free_block) - n
        BY <1>1, SubSeqTail
      <3>2. ASSUME NEW i \in 1 .. Len(taken) PROVE own[taken[i]] = Free
        <4>1. taken[i] = free_block[n + i] /\ n + i \in 1 .. Len(free_block)
          BY <1>1, <3>1, SubSeqTail
        <4>2. QED
          BY <1>3, <4>1 DEF Owns
      <3>3. QED
        BY <3>2
    <2>2. \A i \in 1 .. Len(HeldBlocks(t)), j \in 1 .. Len(taken) : HeldBlocks(t)[i] # taken[j]
      BY <1>3, <1>8, <2>1 DEF Owns
    <2>3. Owns(own2, HeldBy(t), HeldBlocks(t))
      BY <1>3, <1>4, <1>7, <1>8, OwnsFrame
    <2>4. QED
      BY <1>4, <1>7, <2>2, <2>3, OwnsConcat
  <1>10. Owns(own2, HeldBy(t), HeldBlocks(t))'
    BY <1>9 DEF Owns, HeldBy
  <1>11. QED
    BY <1>2, <1>4, <1>5, <1>6, <1>10, FreeListStep

\* A handler puts what it holds on the free list.
LEMMA GiveStep ==
    ASSUME StoreInv, up, TypeInv', NEW t \in Thread, Step(t),
           UNCHANGED << disk, dir_inode >>, pc[t] # "delete_dir_inode", HandlerOK(t)',
           free_block' = free_block \o HeldBlocks(t), HeldBlocks(t)' = << >>
    PROVE  StoreInv'
  <1>1. TypeInv /\ RunningInv /\ free_block \in Seq(Block) /\ HeldBlocks(t) \in Seq(Block)
    BY HeldTypes DEF StoreInv, TypeInv, TypeOK
  <1>2. PICK own \in [Block -> Owner] : Ownership(own)
    BY <1>1 DEF RunningInv
  <1>3. /\ HeldBy(t) \in Owner /\ Free \in Owner /\ HeldBy(t) # Free
        /\ Owns(own, Free, free_block) /\ Owns(own, HeldBy(t), HeldBlocks(t))
    BY <1>2, OwnersDiffer, OwnerTypes DEF Ownership
  <1>4. PICK own2 : own2 = Moved(own, BlocksOf(HeldBlocks(t)), Free)
    OBVIOUS
  <1>5. /\ own2 \in [Block -> Owner]
        /\ Owns(own2, Free, HeldBlocks(t)) /\ Owns(own2, Free, free_block)
        /\ \A b \in Block : own2[b] # own[b] => own[b] = HeldBy(t) /\ own2[b] = Free
    BY <1>1, <1>3, <1>4, GiveBlocks
  <1>6. DirectoryOwned(own2)'
    <2>1. DirectoryOwned(own2)
      BY <1>1, <1>2, <1>5, SpareMoves, OwnerTypes DEF Ownership
    <2>2. QED
      BY <1>1, <2>1, SameDisk, OthersDrop DEF RunningInv
  <1>7. Owns(own2, Free, free_block)'
    <2>1. \A i \in 1 .. Len(free_block), j \in 1 .. Len(HeldBlocks(t)) :
            free_block[i] # HeldBlocks(t)[j]
      BY <1>3 DEF Owns
    <2>2. Owns(own2, Free, free_block \o HeldBlocks(t))
      BY <1>1, <1>5, <2>1, OwnsConcat
    <2>3. QED
      BY <2>2 DEF Owns, Free
  <1>8. Owns(own2, HeldBy(t), HeldBlocks(t))'
    BY OwnsEmpty DEF Owns, HeldBy
  <1>9. QED
    BY <1>2, <1>5, <1>6, <1>7, <1>8, FreeListStep

-----------------------------------------------------------------------------
(* Steps that write a block no other structure sees change.                *)

LEMMA FrameDirectory ==
    ASSUME TypeInv, DirectoryInv, UNCHANGED dir_inode, disk'[0] = disk[0],
           \A i \in 1 .. Len(dir_inode) : disk'[dir_inode[i]] = disk[dir_inode[i]],
           \A s \in Used :
             /\ disk'[EntryAt(s).inode_block] = disk[EntryAt(s).inode_block]
             /\ \A k \in 1 .. Len(FileBlocks(s)) : disk'[FileBlocks(s)[k]].kind = "data"
    PROVE  /\ DirectoryInv'
           /\ \A own : FilesOwned(own) => FilesOwned(own)'
  <1>1. /\ Slots' = Slots /\ Used' = Used
        /\ \A i \in 1 .. Len(dir_inode) : TableAt(i)' = TableAt(i)
        /\ \A s \in Slots : EntryAt(s)' = EntryAt(s)
    BY DirectoryFrame
  <1>2. \A s \in Used : s \in Slots /\ EntryAt(s)' = EntryAt(s) /\ FileBlocks(s)' = FileBlocks(s)
    BY <1>1 DEF Used, FileBlocks
  <1>3. ASSUME NEW s \in Used PROVE FileOK(EntryAt(s).inode_block)'
    <2>1. FileOK(EntryAt(s).inode_block)
      BY DEF DirectoryInv
    <2>2. QED
      BY <1>2, <2>1 DEF FileOK, FileBlocks
  <1>4. DirectoryInv'
    BY <1>1, <1>2, <1>3 DEF DirectoryInv, TablesOK, NamesOK
  <1>5. ASSUME NEW own, FilesOwned(own) PROVE FilesOwned(own)'
    BY <1>1, <1>2, <1>5 DEF FilesOwned, Owns
  <1>6. QED
    BY <1>4, <1>5

\* The blocks that an append has linked and not yet committed are held.
Linked(i) == SubSeq(i.blocks, CeilDiv(i.size) + 1, Len(i.blocks))

LEMMA LinkedTypes ==
    ASSUME NEW i \in Inode
    PROVE  /\ Linked(i) \in Seq(Block)
           /\ CeilDiv(i.size) \in Nat
           /\ CeilDiv(i.size) <= Len(i.blocks) =>
                /\ Len(Linked(i)) = Len(i.blocks) - CeilDiv(i.size)
                /\ \A j \in 1 .. Len(i.blocks) - CeilDiv(i.size) :
                     Linked(i)[j] = i.blocks[CeilDiv(i.size) + j]
           /\ CeilDiv(i.size) >= Len(i.blocks) => Linked(i) = << >>
  <1>1. i.blocks \in Seq(Block) /\ CeilDiv(i.size) \in Nat
    BY CeilDivBounds DEF Inode
  <1>2. QED
    BY <1>1, SubSeqTail DEF Linked

LEMMA LinkedAppend ==
    ASSUME NEW i \in Inode, CeilDiv(i.size) <= Len(i.blocks), NEW b \in Block
    PROVE  Linked([i EXCEPT !.blocks = Append(@, b)]) = Append(Linked(i), b)
  <1> DEFINE n == CeilDiv(i.size)
             bs == i.blocks
             cs == Append(bs, b)
             r == Linked([i EXCEPT !.blocks = Append(@, b)])
  <1>1. bs \in Seq(Block) /\ n \in Nat /\ Len(bs) \in Nat
    BY LinkedTypes DEF Inode
  <1>2. /\ cs \in Seq(Block) /\ Len(cs) = Len(bs) + 1
        /\ \A k \in 1 .. Len(bs) : cs[k] = bs[k]
        /\ cs[Len(bs) + 1] = b
    BY <1>1
  <1>3. r = SubSeq(cs, n + 1, Len(cs))
    BY DEF Linked, Inode
  <1> HIDE DEF n, bs, cs
  <1>4. n <= Len(bs)
    BY DEF n, bs
  <1>5. /\ r \in Seq(Block) /\ Len(r) = Len(bs) + 1 - n
        /\ \A k \in 1 .. Len(bs) + 1 - n : r[k] = cs[n + k]
    <2>1. SubSeq(cs, n + 1, Len(cs)) \in Seq(Block)
          /\ Len(SubSeq(cs, n + 1, Len(cs))) = Len(cs) - n
          /\ \A k \in 1 .. Len(cs) - n : SubSeq(cs, n + 1, Len(cs))[k] = cs[n + k]
      BY <1>1, <1>2, <1>4, SubSeqTail
    <2> HIDE DEF r
    <2>2. Len(cs) - n = Len(bs) + 1 - n
      BY <1>1, <1>2
    <2>3. QED
      BY <1>3, <2>1, <2>2
  <1>6. /\ Linked(i) \in Seq(Block) /\ Len(Linked(i)) = Len(bs) - n
        /\ \A k \in 1 .. Len(bs) - n : Linked(i)[k] = bs[n + k]
    BY <1>4, LinkedTypes DEF n, bs
  <1> HIDE DEF r
  <1> DEFINE q == Append(Linked(i), b)
  <1>7. /\ q \in Seq(Block) /\ Len(q) = Len(bs) - n + 1
        /\ \A k \in 1 .. Len(bs) - n : q[k] = Linked(i)[k]
        /\ q[Len(bs) - n + 1] = b
    BY <1>6
  <1> HIDE DEF q
  <1>8. ASSUME NEW k \in 1 .. Len(r) PROVE r[k] = q[k]
    <2>1. CASE k <= Len(bs) - n
      <3>1. k \in 1 .. Len(bs) + 1 - n
        BY <1>5
      <3>2. k \in 1 .. Len(bs) - n /\ n + k \in 1 .. Len(bs)
        BY <1>1, <1>4, <2>1, <3>1
      <3>3. r[k] = cs[n + k] /\ cs[n + k] = bs[n + k]
        BY <1>2, <1>5, <3>1, <3>2
      <3>4. q[k] = Linked(i)[k] /\ Linked(i)[k] = bs[n + k]
        BY <1>6, <1>7, <3>2
      <3>5. QED
        BY <3>3, <3>4
    <2>2. CASE k > Len(bs) - n
      <3>1. k \in 1 .. Len(bs) + 1 - n
        BY <1>5
      <3>2. k = Len(bs) - n + 1 /\ n + k = Len(bs) + 1
        BY <1>1, <1>4, <2>2, <3>1
      <3>3. r[k] = cs[n + k]
        BY <1>5, <3>1
      <3>4. r[k] = cs[Len(bs) + 1]
        BY ONLY <3>2, <3>3
      <3>5. r[k] = b
        BY ONLY <1>2, <3>4
      <3>6. q[k] = q[Len(bs) - n + 1]
        BY ONLY <3>2
      <3>7. QED
        BY ONLY <1>7, <3>5, <3>6
    <2>3. QED
      BY <1>1, <1>4, <1>5, <2>1, <2>2
  <1>9. Len(r) = Len(q)
    BY <1>1, <1>5, <1>7
  <1>10. r = q
    BY <1>5, <1>7, <1>8, <1>9, SeqEqual
  <1>11. QED
    BY <1>10 DEF r, q

\* The first of a sequence of blocks moves to the end of another.
LEMMA OwnsRotate ==
    ASSUME NEW own, NEW o, NEW a \in Seq(Block), a # << >>, NEW c \in Seq(Block),
           Owns(own, o, a \o c)
    PROVE  Owns(own, o, Tail(a) \o Append(c, Head(a)))
  <1>1. /\ Owns(own, o, a) /\ Owns(own, o, c)
        /\ \A i \in 1 .. Len(a), j \in 1 .. Len(c) : a[i] # c[j]
    <2>1. \A x \in Seq(Block), y \in Seq(Block) :
            Owns(own, o, x \o y) <=>
              /\ Owns(own, o, x) /\ Owns(own, o, y)
              /\ \A i \in 1 .. Len(x), j \in 1 .. Len(y) : x[i] # y[j]
      BY OwnsConcat
    <2>2. QED
      BY <2>1, ZenonT(30)
  <1> DEFINE h == Head(a)
             tail == Tail(a)
             last == Append(c, h)
  <1>2. /\ h = a[1] /\ h \in Block /\ 1 \in 1 .. Len(a)
        /\ tail \in Seq(Block) /\ Len(tail) = Len(a) - 1
        /\ \A i \in 1 .. Len(a) - 1 : tail[i] = a[i + 1] /\ i + 1 \in 1 .. Len(a)
    <2>1. Len(a) \in Nat \ {0}
      OBVIOUS
    <2>2. h = a[1] /\ h \in Block /\ 1 \in 1 .. Len(a)
      BY <2>1
    <2>3. tail \in Seq(Block) /\ Len(tail) = Len(a) - 1
          /\ \A i \in 1 .. Len(tail) : tail[i] = a[i + 1]
      BY HeadTailProperties
    <2>4. \A i \in 1 .. Len(a) - 1 : i + 1 \in 1 .. Len(a)
      BY <2>1
    <2>5. QED
      BY <2>2, <2>3, <2>4
  <1>3. /\ last \in Seq(Block) /\ Len(last) = Len(c) + 1 /\ Len(c) \in Nat
        /\ last[Len(c) + 1] = h
        /\ \A j \in 1 .. Len(c) : last[j] = c[j]
    BY <1>2
  <1> HIDE DEF h, tail, last
  <1>4. Owns(own, o, tail)
    <2>1. ASSUME NEW i \in 1 .. Len(tail), NEW j \in 1 .. Len(tail), tail[i] = tail[j]
          PROVE  i = j
      <3>1. i + 1 = j + 1
        BY <1>1, <1>2, <2>1 DEF Owns, Distinct
      <3>2. QED
        BY <3>1
    <2>2. QED
      BY <1>1, <1>2, <2>1 DEF Owns, Distinct
  <1>5. Owns(own, o, last)
    <2>1. \A j \in 1 .. Len(last) : j \in 1 .. Len(c) \/ j = Len(c) + 1
      BY <1>3
    <2>2. \A j \in 1 .. Len(last) : own[last[j]] = o
      BY <1>1, <1>2, <1>3, <2>1 DEF Owns
    <2>3. \A j \in 1 .. Len(c) : c[j] # h
      BY <1>1, <1>2
    <2>4. ASSUME NEW i \in 1 .. Len(last), NEW j \in 1 .. Len(last), last[i] = last[j]
          PROVE  i = j
      BY <1>1, <1>3, <2>1, <2>3, <2>4 DEF Owns, Distinct
    <2>5. QED
      BY <2>2, <2>4 DEF Owns, Distinct
  <1>6. ASSUME NEW i \in 1 .. Len(tail), NEW j \in 1 .. Len(last), tail[i] = last[j]
        PROVE  FALSE
    <2>1. i + 1 \in 1 .. Len(a) /\ tail[i] = a[i + 1] /\ i + 1 # 1
      BY <1>2
    <2>2. CASE j \in 1 .. Len(c)
      BY <1>1, <1>3, <1>6, <2>1, <2>2
    <2>3. CASE j = Len(c) + 1
      BY <1>1, <1>2, <1>3, <1>6, <2>1, <2>3 DEF Owns, Distinct
    <2>4. QED
      BY <1>3, <2>2, <2>3
  <1>7. Owns(own, o, tail \o last)
    BY <1>2, <1>3, <1>4, <1>5, <1>6, OwnsConcat
  <1>8. QED
    BY <1>7 DEF tail, last, h

\* What an append that has read the inode knows of its file.
LEMMA CopyFacts ==
    ASSUME TypeInv, DirectoryInv, NEW t \in Thread, HandlerOK(t), pc[t] \in CopyLabel
    PROVE  /\ \E s \in Used : /\ EntryAt(s).name = req[t].name
                              /\ EntryAt(s).inode_block = loc[t].inode_block
                              /\ FileBlocks(s) = disk[loc[t].inode_block].blocks
           /\ FileOK(loc[t].inode_block)
           /\ disk[loc[t].inode_block].size = loc[t].inode.size
           /\ disk[loc[t].inode_block].owner = loc[t].inode.owner
           /\ disk[loc[t].inode_block].blocks \in Seq(Block)
           /\ Len(disk[loc[t].inode_block].blocks) = CeilDiv(loc[t].inode.size)
           /\ CeilDiv(loc[t].inode.size) \in Nat
           /\ CeilDiv(loc[t].inode.size) <= Len(loc[t].inode.blocks)
           /\ \A k \in 1 .. CeilDiv(loc[t].inode.size) :
                loc[t].inode.blocks[k] = disk[loc[t].inode_block].blocks[k]
  <1> DEFINE i == loc[t].inode
             d == disk[loc[t].inode_block]
  <1>1. PICK s \in Used : /\ EntryAt(s).name = req[t].name
                          /\ EntryAt(s).inode_block = loc[t].inode_block
    BY DEF HandlerOK, FoundOK, CopyLabel, FoundLabel
  <1>2. FileBlocks(s) = d.blocks /\ FileOK(loc[t].inode_block)
    BY <1>1 DEF FileBlocks, DirectoryInv
  <1>3. d.blocks \in Seq(Block) /\ Len(d.blocks) = CeilDiv(d.size)
    BY <1>1, FileTypes DEF FileBlocks
  <1>4. i \in Inode /\ i.blocks \in Seq(Block)
    BY LocalTypes
  <1>5. /\ d.size = i.size /\ d.owner = i.owner /\ Len(d.blocks) <= Len(i.blocks)
        /\ \A k \in 1 .. Len(i.blocks) : k <= Len(d.blocks) => i.blocks[k] = d.blocks[k]
    BY DEF HandlerOK, CopyOK, CopyLabel
  <1>6. \A k \in 1 .. Len(d.blocks) : i.blocks[k] = d.blocks[k]
    BY <1>3, <1>4, <1>5
  <1>7. CeilDiv(i.size) \in Nat
    BY <1>4, LinkedTypes
  <1>8. QED
    BY <1>1, <1>2, <1>3, <1>5, <1>6, <1>7

\* The copy of the inode: the blocks on disk, then those linked.
LEMMA CopySplits ==
    ASSUME TypeInv, DirectoryInv, NEW t \in Thread, HandlerOK(t), pc[t] \in CopyLabel
    PROVE  loc[t].inode.blocks
             = disk[loc[t].inode_block].blocks \o Linked(loc[t].inode)
  <1> DEFINE i == loc[t].inode
             ds == disk[loc[t].inode_block].blocks
             n == CeilDiv(i.size)
             both == ds \o Linked(i)
  <1>1. /\ ds \in Seq(Block) /\ Len(ds) = n /\ n \in Nat /\ n <= Len(i.blocks)
        /\ \A k \in 1 .. n : i.blocks[k] = ds[k]
    BY CopyFacts
  <1>2. i \in Inode /\ i.blocks \in Seq(Block) /\ Len(i.blocks) \in Nat
    BY LocalTypes
  <1>3. /\ Linked(i) \in Seq(Block) /\ Len(Linked(i)) = Len(i.blocks) - n
        /\ \A j \in 1 .. Len(i.blocks) - n : Linked(i)[j] = i.blocks[n + j]
    BY <1>1, <1>2, LinkedTypes
  <1> HIDE DEF n, ds
  <1>4. /\ both \in Seq(Block) /\ Len(both) = n + (Len(i.blocks) - n)
        /\ \A k \in 1 .. n : both[k] = ds[k]
        /\ \A j \in 1 .. Len(i.blocks) - n : both[n + j] = Linked(i)[j]
    BY <1>1, <1>3
  <1> HIDE DEF both
  <1>5. Len(both) = Len(i.blocks)
    BY <1>1, <1>2, <1>4
  <1>6. ASSUME NEW k \in 1 .. Len(i.blocks) PROVE i.blocks[k] = both[k]
    <2>1. CASE k <= n
      <3>1. k \in 1 .. n
        BY <1>1, <2>1
      <3>2. QED
        BY <1>1, <1>4, <3>1
    <2>2. CASE k > n
      <3>1. k - n \in 1 .. Len(i.blocks) - n /\ n + (k - n) = k
        BY <1>1, <1>2, <2>2
      <3>2. both[n + (k - n)] = i.blocks[n + (k - n)]
        BY <1>3, <1>4, <3>1
      <3>3. QED
        BY <3>1, <3>2
    <2>3. QED
      BY <1>1, <2>1, <2>2
  <1>7. i.blocks = both
    BY <1>2, <1>4, <1>5, <1>6, SeqEqual
  <1>8. QED
    BY <1>7 DEF both, ds

LEMMA LinkedHeld ==
    ASSUME TypeInv, DirectoryInv, NEW t \in Thread, HandlerOK(t), pc[t] \in CopyLabel,
           NEW own, Owns(own, HeldBy(t), HeldBlocks(t)),
           NEW k \in 1 .. Len(loc[t].inode.blocks),
           k > Len(disk[loc[t].inode_block].blocks)
    PROVE  own[loc[t].inode.blocks[k]] = HeldBy(t)
  <1> DEFINE i == loc[t].inode
             d == disk[loc[t].inode_block]
             n == CeilDiv(i.size)
  <1>1. i \in Inode /\ i.blocks \in Seq(Block) /\ loc[t].tmp \in Seq(Block)
    BY LocalTypes
  <1>2. Len(d.blocks) = n /\ n \in Nat /\ n <= Len(i.blocks)
    BY CopyFacts
  <1>3. CASE pc[t] = "append_alloc"
    <2>1. Len(i.blocks) = n
      BY <1>3, LocalTypes DEF LocalOK, AppendOK, InodeOK
    <2>2. QED
      BY <1>1, <1>2, <2>1
  <1>4. CASE pc[t] # "append_alloc"
    <2>1. Owns(own, HeldBy(t), loc[t].tmp \o Linked(i))
      <3>1. pc[t] \in {"append_partial", "append_data", "append_commit"}
        BY <1>4 DEF CopyLabel
      <3>2. HeldBlocks(t) = loc[t].tmp \o Linked(i)
        BY <3>1 DEF HeldBlocks, Linked
      <3>3. QED
        BY <3>2
    <2>2. /\ Linked(i) \in Seq(Block) /\ Len(Linked(i)) = Len(i.blocks) - n
          /\ \A j \in 1 .. Len(i.blocks) - n : Linked(i)[j] = i.blocks[n + j]
      BY <1>1, <1>2, LinkedTypes
    <2>3. Owns(own, HeldBy(t), Linked(i))
      BY <1>1, <2>1, <2>2, OwnsConcat
    <2>4. k - n \in 1 .. Len(Linked(i)) /\ Linked(i)[k - n] = i.blocks[k]
      <3>1. k - n \in 1 .. Len(i.blocks) - n /\ n + (k - n) = k
        BY <1>1, <1>2
      <3>2. QED
        BY <2>2, <3>1
    <2>5. QED
      BY <2>3, <2>4 DEF Owns
  <1>5. QED
    BY <1>3, <1>4

\* What the other threads know stays true when a thread in the directory
\* writes none of their blocks.
LEMMA FrameOthers ==
    ASSUME TypeInv, NEW t \in Thread, Step(t), t \in ReadingDir \cup WritingDir,
           UNCHANGED dir_inode,
           \A i \in 1 .. Len(dir_inode) : disk'[dir_inode[i]] = disk[dir_inode[i]],
           NEW u \in Thread \ {t}, HandlerOK(u),
           pc[u] \in CopyLabel =>
             /\ disk'[loc[u].inode_block] = disk[loc[u].inode_block]
             /\ \A k \in 1 .. Len(loc[u].inode.blocks) :
                  k > Len(disk[loc[u].inode_block].blocks) =>
                    disk'[loc[u].inode.blocks[k]].kind = "data"
    PROVE  HandlerOK(u)'
  <1>1. pc'[u] = pc[u] /\ loc'[u] = loc[u] /\ req'[u] = req[u]
    BY OthersUnchanged DEF TypeInv
  <1>2. /\ Used' = Used /\ \A s \in Used : EntryAt(s)' = EntryAt(s)
    BY DirectoryFrame DEF Used
  <1>3. FoundOK(u)'
    BY <1>1, <1>2 DEF HandlerOK, FoundOK
  <1>4. CopyOK(u)'
    BY <1>1 DEF HandlerOK, CopyOK, CopyLabel
  <1>5. u \notin WritingDir
    BY LockInvExclusion DEF TypeInv, Exclusion
  <1>6. pc[u] \notin WritingDirLabel
    BY <1>5 DEF WritingDir
  <1>7. CreateOK(u)' /\ DeleteOK(u)'
    BY <1>1, <1>6 DEF CreateOK, DeleteOK, WritingDirLabel, CreateLabel, DeleteLabel
  <1>8. QED
    BY <1>3, <1>4, <1>7 DEF HandlerOK

\* A block that a handler of the directory holds is in no other structure.
LEMMA HeldApart ==
    ASSUME StoreInv, up, NEW t \in Thread, t \in ReadingDir \cup WritingDir,
           pc[t] # "delete_dir_inode", NEW b \in BlocksOf(HeldBlocks(t))
    PROVE  /\ b # 0 /\ b \in Block
           /\ \A i \in 1 .. Len(dir_inode) : dir_inode[i] # b
           /\ \A s \in Used : /\ EntryAt(s).inode_block # b
                              /\ \A k \in 1 .. Len(FileBlocks(s)) : FileBlocks(s)[k] # b
  <1>1. TypeInv /\ RunningInv
    BY DEF StoreInv
  <1>2. PICK own \in [Block -> Owner] : Ownership(own)
    BY <1>1 DEF RunningInv
  <1>3. own[b] = HeldBy(t) /\ b \in Block
    BY <1>1, <1>2, HeldTypes DEF Ownership, Owns, BlocksOf
  <1>4. Dropping = {}
    BY <1>1, NoneDropping
  <1>5. QED
    BY <1>2, <1>3, <1>4, OwnersDiffer DEF Ownership, DirectoryOwned, FilesOwned, Owns

\* A handler of the directory writes a block that it holds.
LEMMA HeldWriteStep ==
    ASSUME StoreInv, up, TypeInv', NEW t \in Thread, Step(t),
           t \in ReadingDir \cup WritingDir, pc[t] # "delete_dir_inode",
           UNCHANGED << dir_inode, free_block >>, HandlerOK(t)',
           NEW b \in BlocksOf(HeldBlocks(t)), NEW c, disk' = [disk EXCEPT ![b] = c],
           \A own : Owns(own, HeldBy(t), HeldBlocks(t)) =>
                      Owns(own, HeldBy(t), HeldBlocks(t)')
    PROVE  StoreInv'
  <1>1. TypeInv /\ RunningInv /\ disk \in [Block -> Content]
    BY DEF StoreInv, TypeInv, TypeOK
  <1>2. PICK own \in [Block -> Owner] : Ownership(own)
    BY <1>1 DEF RunningInv
  <1>3. own[b] = HeldBy(t)
    BY <1>2 DEF Ownership, Owns, BlocksOf
  <1>4. \A a \in Block : own[a] # HeldBy(t) => disk'[a] = disk[a]
    BY <1>1, <1>3
  <1>5. disk'[0] = disk[0]
    BY <1>1, HeldApart, ZeroIsBlock
  <1>6. Dropping = {}
    BY <1>1, NoneDropping
  <1>7. \A i \in 1 .. Len(dir_inode) : disk'[dir_inode[i]] = disk[dir_inode[i]]
    BY <1>1, HeldApart DEF TypeInv, TypeOK
  <1>8. ASSUME NEW s \in Used
        PROVE  /\ disk'[EntryAt(s).inode_block] = disk[EntryAt(s).inode_block]
               /\ \A k \in 1 .. Len(FileBlocks(s)) : disk'[FileBlocks(s)[k]].kind = "data"
    <2>1. EntryAt(s).inode_block \in Block /\ FileBlocks(s) \in Seq(Block)
      BY <1>1, FileTypes DEF RunningInv
    <2>2. EntryAt(s).inode_block # b /\ \A k \in 1 .. Len(FileBlocks(s)) : FileBlocks(s)[k] # b
      BY HeldApart
    <2>3. \A k \in 1 .. Len(FileBlocks(s)) :
            FileBlocks(s)[k] \in Block /\ disk[FileBlocks(s)[k]].kind = "data"
      BY <1>1, <2>1 DEF RunningInv, DirectoryInv, FileOK, FileBlocks
    <2>4. QED
      BY <1>1, <2>1, <2>2, <2>3
  <1>9. DirectoryInv' /\ FilesOwned(own)'
    BY <1>1, <1>2, <1>5, <1>7, <1>8, FrameDirectory DEF RunningInv, Ownership
  <1>10. DirectoryOwned(own)'
    BY <1>1, <1>2, OthersDrop DEF Ownership, DirectoryOwned
  <1>11. ASSUME NEW u \in Thread \ {t} PROVE HandlerOK(u)'
    <2>1. HandlerOK(u)
      BY <1>1 DEF RunningInv
    <2>2. ASSUME pc[u] \in CopyLabel
          PROVE  /\ disk'[loc[u].inode_block] = disk[loc[u].inode_block]
                 /\ \A k \in 1 .. Len(loc[u].inode.blocks) :
                      k > Len(disk[loc[u].inode_block].blocks) =>
                        disk'[loc[u].inode.blocks[k]].kind = "data"
      <3>1. PICK s \in Used : EntryAt(s).inode_block = loc[u].inode_block
        BY <2>1, <2>2 DEF HandlerOK, FoundOK, CopyLabel, FoundLabel
      <3>2. ASSUME NEW k \in 1 .. Len(loc[u].inode.blocks),
                   k > Len(disk[loc[u].inode_block].blocks)
            PROVE  disk'[loc[u].inode.blocks[k]].kind = "data"
        <4>1. own[loc[u].inode.blocks[k]] = HeldBy(u)
          BY <1>1, <1>2, <2>1, <2>2, <3>2, LinkedHeld DEF RunningInv, Ownership
        <4>2. loc[u].inode.blocks[k] \in Block
          BY <1>1, LocalTypes
        <4>3. disk[loc[u].inode.blocks[k]].kind = "data"
          BY <2>1, <2>2, <3>2 DEF HandlerOK, CopyOK, CopyLabel
        <4>4. QED
          BY <1>4, <4>1, <4>2, <4>3, OwnersDiffer
      <3>3. QED
        BY <1>8, <3>1, <3>2
    <2>3. QED
      BY <1>1, <1>7, <2>1, <2>2, FrameOthers
  <1>12. Owns(own, Free, free_block)'
    BY <1>2 DEF Ownership, Owns, Free
  <1>13. Owns(own, HeldBy(t), HeldBlocks(t))'
    <2>1. Owns(own, HeldBy(t), HeldBlocks(t)')
      BY <1>2 DEF Ownership
    <2>2. QED
      BY <2>1 DEF Owns, HeldBy
  <1>14. QED
    BY <1>2, <1>9, <1>10, <1>11, <1>12, <1>13, Assemble

-----------------------------------------------------------------------------
(* Steps of a create or delete, which has the directory to itself.         *)

\* Nobody else knows anything of the directory.
LEMMA OthersOutside ==
    ASSUME TypeInv, NEW t \in Thread, Step(t), t \in WritingDir, NEW u \in Thread \ {t}
    PROVE  HandlerOK(u)'
  <1>1. u \notin ReadingDir /\ u \notin WritingDir
    BY LockInvExclusion DEF TypeInv, Exclusion
  <1>2. pc'[u] = pc[u] /\ pc[u] \notin ReadingDirLabel /\ pc[u] \notin WritingDirLabel
    BY <1>1, OthersUnchanged DEF TypeInv, ReadingDir, WritingDir
  <1>3. QED
    BY <1>2 DEF HandlerOK, FoundOK, CopyOK, CreateOK, DeleteOK, FoundLabel, CopyLabel,
                ReadingDirLabel, WritingDirLabel, ReadLabel, AppendLabel, CreateLabel,
                DeleteLabel

\* The file of an entry is whole and owns its blocks.
FileGood(own, e) ==
    /\ FileOK(e.inode_block)
    /\ own[e.inode_block] = FileOf(e.name)
    /\ Owns(own, FileOf(e.name), disk[e.inode_block].blocks)

\* A step that changes the directory: every entry has its file after it.
LEMMA DirectoryStep ==
    ASSUME NEW own, disk'[0] = DirectoryBlock(dir_inode'), TablesOK', NamesOK',
           \A s \in Used' : \E e : EntryAt(s)' = e /\ FileGood(own, e)'
    PROVE  DirectoryInv' /\ FilesOwned(own)'
  <1>1. ASSUME NEW s \in Used'
        PROVE  /\ FileOK(EntryAt(s).inode_block)'
               /\ own[EntryAt(s)'.inode_block] = FileOf(EntryAt(s)'.name)
               /\ Owns(own, FileOf(EntryAt(s)'.name), disk'[EntryAt(s)'.inode_block].blocks)
    <2>1. PICK e : EntryAt(s)' = e /\ FileGood(own, e)'
      OBVIOUS
    <2>2. /\ FileOK(EntryAt(s).inode_block)'
      BY <2>1 DEF FileGood, FileOK
    <2>3. /\ own[e.inode_block] = FileOf(e.name)
          /\ Owns(own, FileOf(e.name), disk'[e.inode_block].blocks)
      BY <2>1 DEF FileGood, Owns, FileOf
    <2>4. QED
      BY <2>1, <2>2, <2>3
  <1>2. DirectoryInv'
    BY <1>1 DEF DirectoryInv
  <1>3. FilesOwned(own)'
    BY <1>1 DEF FilesOwned, FileBlocks, FileOf, Owns
  <1>4. QED
    BY <1>2, <1>3

\* A file whose blocks are left to it and not written stays whole.
LEMMA KeptFile ==
    ASSUME TypeInv, DirectoryInv, NEW own, FilesOwned(own), NEW own2,
           NEW s \in Used, NEW e, e = EntryAt(s),
           \A b \in Block : own[b] = FileOf(e.name) =>
                              own2[b] = FileOf(e.name) /\ disk'[b] = disk[b]
    PROVE  FileGood(own2, e)'
  <1>1. /\ e.inode_block \in Block /\ disk[e.inode_block].blocks \in Seq(Block)
        /\ own[e.inode_block] = FileOf(e.name)
        /\ Owns(own, FileOf(e.name), disk[e.inode_block].blocks)
        /\ FileOK(e.inode_block)
    BY FileTypes DEF FilesOwned, FileBlocks, DirectoryInv
  <1>2. Owns(own2, FileOf(e.name), disk[e.inode_block].blocks)
    BY <1>1, OwnsFrame
  <1>3. disk'[e.inode_block] = disk[e.inode_block] /\ own2[e.inode_block] = FileOf(e.name)
    BY <1>1
  <1>4. \A k \in 1 .. Len(disk[e.inode_block].blocks) :
          disk'[disk[e.inode_block].blocks[k]] = disk[disk[e.inode_block].blocks[k]]
    BY <1>1 DEF Owns
  <1>5. FileOK(e.inode_block)'
    BY <1>1, <1>3, <1>4 DEF FileOK
  <1>6. QED
    BY <1>2, <1>3, <1>5 DEF FileGood, FileOf, Owns

\* What is left to show of a step that has the directory to itself and
\* leaves the free list alone.
LEMMA ExclusiveStep ==
    ASSUME StoreInv, up, TypeInv', NEW t \in Thread, Step(t), t \in WritingDir,
           UNCHANGED free_block, HandlerOK(t)',
           NEW own \in [Block -> Owner], Ownership(own),
           NEW own2 \in [Block -> Owner],
           DirectoryInv', DirectoryOwned(own2)', FilesOwned(own2)',
           Owns(own2, HeldBy(t), HeldBlocks(t)'),
           \A b \in Block : own2[b] # own[b] =>
             own[b] = HeldBy(t) \/ \E n : own[b] = FileOf(n)
    PROVE  StoreInv'
  <1>1. TypeInv /\ free_block \in Seq(Block) /\ Owns(own, Free, free_block)
    BY DEF StoreInv, TypeInv, TypeOK, Ownership
  <1>2. \A u \in Thread \ {t} : HandlerOK(u)'
    BY <1>1, OthersOutside
  <1>3. Owns(own2, Free, free_block)
    BY <1>1, OwnsFrame, OwnersDiffer
  <1>4. Owns(own2, Free, free_block)' /\ Owns(own2, HeldBy(t), HeldBlocks(t))'
    BY <1>3 DEF Owns, Free, HeldBy
  <1>5. \A u \in Thread \ {t} : \A b \in Block : own[b] = HeldBy(u) => own2[b] = HeldBy(u)
    BY OwnersDiffer
  <1>6. QED
    BY <1>2, <1>4, <1>5, Assemble

\* One table is written: the entries of the others and its other entries
\* are the same.
LEMMA TableWrite ==
    ASSUME TypeInv, Distinct(dir_inode), UNCHANGED dir_inode,
           NEW k \in 1 .. Len(dir_inode), NEW j \in 1 .. DirEntries, NEW tab,
           disk'[dir_inode[k]] = TableBlock(tab),
           \A b \in Block \ {dir_inode[k]} : disk'[b] = disk[b],
           \A i \in (1 .. DirEntries) \ {j} : tab[i] = TableAt(k)[i]
    PROVE  /\ Slots' = Slots /\ << k, j >> \in Slots
           /\ TableAt(k)' = tab
           /\ disk'[dir_inode[k]].kind = "table"
           /\ \A i \in (1 .. Len(dir_inode)) \ {k} :
                TableAt(i)' = TableAt(i) /\ disk'[dir_inode[i]] = disk[dir_inode[i]]
           /\ EntryAt(<< k, j >>)' = tab[j]
           /\ \A s \in Slots \ {<< k, j >>} : EntryAt(s)' = EntryAt(s)
  <1>1. \A i \in 1 .. Len(dir_inode) : dir_inode[i] \in Block
    BY DEF TypeInv, TypeOK
  <1>2. disk'[dir_inode[k]] = TableBlock(tab)
    OBVIOUS
  <1>3. \A i \in (1 .. Len(dir_inode)) \ {k} : dir_inode[i] \in Block \ {dir_inode[k]}
    BY <1>1 DEF Distinct
  <1>4. \A i \in (1 .. Len(dir_inode)) \ {k} :
          TableAt(i)' = TableAt(i) /\ disk'[dir_inode[i]] = disk[dir_inode[i]]
    BY <1>2, <1>3 DEF TableAt
  <1>5. TableAt(k)' = tab /\ disk'[dir_inode[k]].kind = "table"
    BY <1>2 DEF TableAt, AsTable, TableBlock
  <1>6. Slots' = Slots /\ << k, j >> \in Slots
    BY DEF Slots
  <1>7. EntryAt(<< k, j >>)' = tab[j]
    BY <1>5 DEF EntryAt
  <1>8. ASSUME NEW s \in Slots \ {<< k, j >>} PROVE EntryAt(s)' = EntryAt(s)
    <2>1. s[1] \in 1 .. Len(dir_inode) /\ s[2] \in 1 .. DirEntries /\ s = << s[1], s[2] >>
      BY DEF Slots
    <2>2. CASE s[1] = k
      <3>1. s[2] # j
        BY <2>1, <2>2
      <3>2. QED
        BY <1>5, <2>1, <2>2, <3>1 DEF EntryAt
    <2>3. CASE s[1] # k
      BY <1>4, <2>1, <2>3 DEF EntryAt
    <2>4. QED
      BY <2>2, <2>3
  <1>9. QED
    BY <1>4, <1>5, <1>6, <1>7, <1>8
=============================================================================
