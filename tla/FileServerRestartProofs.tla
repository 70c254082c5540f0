---------------------- MODULE FileServerRestartProofs ----------------------
(***************************************************************************)
(* What main() recovers from a disk, for every size of it.                 *)
(*                                                                         *)
(* The first restart recovers every block, and any restart does that finds *)
(* a consistent disk, for all requests.  That the disk is consistent at a  *)
(* second restart, and what is served after the first, is proved under a   *)
(* limit: no create or append comes after the first restart, which is      *)
(* NothingAllocated.  The theorems that need it name it.                   *)
(*                                                                         *)
(* Until the first restart StoreInv holds.  A crash leaves of it that the  *)
(* disk is consistent, and that is enough for main() to give every file    *)
(* and the directory their blocks again.  It does not restore StoreInv:    *)
(* the blocks of inodes are on the free list too.  Reads and deletes take  *)
(* nothing from the free list, so KeepersInv, which says nothing of it,    *)
(* holds until the next crash, and they are served as the store promises.  *)
(***************************************************************************)
EXTENDS FileServerRestart, FileServerRefinement, Induction

(* The free list that main() builds.                                       *)

\* s has the blocks from 1 to b that no file and no table uses, each once.
FreeUpTo(s, b) ==
    /\ s \in Seq(Block)
    /\ Distinct(s)
    /\ BlocksOf(s) = (1 .. b) \ BootUses

LEMMA FreeAppend ==
    ASSUME NEW b \in Block, b # 0, NEW s, FreeUpTo(s, b - 1)
    PROVE  FreeUpTo(IF b \in BootUses THEN s ELSE Append(s, b), b)
  <1>1. b \in Nat /\ b >= 1 /\ b - 1 \in Nat
    BY LayoutAssumption DEF Block
  <1>2. (1 .. b) = (1 .. b - 1) \cup {b} /\ b \notin 1 .. b - 1
    BY <1>1
  <1>3. CASE b \in BootUses
    BY <1>2, <1>3 DEF FreeUpTo
  <1>4. CASE b \notin BootUses
    <2>1. PICK r : r = Append(s, b)
      OBVIOUS
    <2>2. PICK n \in Nat : n = Len(s)
      BY DEF FreeUpTo
    <2>3. /\ r \in Seq(Block) /\ Len(r) = n + 1 /\ r[n + 1] = b
          /\ \A i \in 1 .. n : r[i] = s[i]
      BY <2>1, <2>2 DEF FreeUpTo
    <2>4. \A i \in 1 .. n : s[i] \in 1 .. b - 1
      BY <2>2 DEF FreeUpTo, BlocksOf
    <2>5. Distinct(r)
      <3>1. ASSUME NEW i \in 1 .. n + 1, NEW j \in 1 .. n + 1, r[i] = r[j] PROVE i = j
        <4>1. CASE i \in 1 .. n /\ j \in 1 .. n
          BY <2>2, <2>3, <3>1, <4>1 DEF FreeUpTo, Distinct
        <4>2. CASE i = n + 1 /\ j \in 1 .. n
          BY <1>2, <2>3, <2>4, <3>1, <4>2
        <4>3. CASE j = n + 1 /\ i \in 1 .. n
          BY <1>2, <2>3, <2>4, <3>1, <4>3
        <4>4. CASE i = n + 1 /\ j = n + 1
          BY <4>4
        <4>5. QED
          BY <4>1, <4>2, <4>3, <4>4
      <3>2. QED
        BY <2>3, <3>1 DEF Distinct
    <2>6. BlocksOf(r) = BlocksOf(s) \cup {b}
      <3>1. BlocksOf(r) = {r[i] : i \in 1 .. n + 1}
        BY <2>3 DEF BlocksOf
      <3>2. BlocksOf(s) = {s[i] : i \in 1 .. n}
        BY <2>2 DEF BlocksOf
      <3>3. 1 .. n + 1 = (1 .. n) \cup {n + 1}
        OBVIOUS
      <3>4. QED
        BY <2>3, <3>1, <3>2, <3>3
    <2>7. BlocksOf(r) = (1 .. b) \ BootUses
      BY <1>2, <1>4, <2>6 DEF FreeUpTo
    <2>8. QED
      BY <1>4, <2>1, <2>3, <2>5, <2>7 DEF FreeUpTo
  <1>5. QED
    BY <1>3, <1>4

\* The blocks up to b of the free list, of the blocks up to the one before.
Grown(b, s) == IF b \in BootUses THEN s ELSE Append(s, b)

LEMMA FreeExists ==
    \E f : f = [b \in Block |-> IF b = 0 THEN << >>
                                ELSE IF b \in BootUses THEN f[b - 1]
                                ELSE Append(f[b - 1], b)]
  <1>1. PICK n \in Nat : n = DiskSize - 1
    BY LayoutAssumption
  <1>2. Block = 0 .. n
    BY <1>1 DEF Block
  <1>3. PICK D : D = Seq(Block)
    OBVIOUS
  <1>4. PICK step : step = [p \in (1 .. n) \X D |-> Grown(p[1], p[2])]
    OBVIOUS
  <1>5. PICK a : a = << >>
    OBVIOUS
  <1>6. a \in D
    BY <1>3, <1>5
  <1>7. ASSUME NEW i \in 1 .. n, NEW d \in D
        PROVE  step[<< i, d >>] = Grown(i, d) /\ step[<< i, d >>] \in D
    <2>1. step[<< i, d >>] = Grown(i, d)
      BY <1>4
    <2>2. Grown(i, d) \in Seq(Block)
      <3>1. i \in Block /\ d \in Seq(Block)
        BY <1>2, <1>3
      <3>2. Append(d, i) \in Seq(Block)
        BY <3>1
      <3>3. QED
        BY <3>1, <3>2 DEF Grown
    <2>3. QED
      BY <1>3, <2>1, <2>2
  <1>8. Closed(step, n, D)
    BY <1>7 DEF Closed
  <1>9. PICK f \in [0 .. n -> D] : Steps(f, n, a, step)
    BY <1>1, <1>6, <1>8, Recursion
  <1>10. f[0] = << >>
    BY <1>5, <1>9 DEF Steps
  <1>11. ASSUME NEW b \in Block, b # 0
         PROVE  f[b] = IF b \in BootUses THEN f[b - 1] ELSE Append(f[b - 1], b)
    <2>1. b \in 1 .. n /\ b - 1 \in 0 .. n
      BY <1>2, <1>11
    <2>2. f[b] = step[<< b, f[b - 1] >>]
      BY <1>9, <2>1 DEF Steps
    <2>3. f[b - 1] \in D
      BY <1>9, <2>1
    <2>4. f[b] = Grown(b, f[b - 1])
      BY <1>7, <2>1, <2>2, <2>3
    <2>5. QED
      BY <2>4 DEF Grown
  <1>12. f = [b \in Block |-> f[b]]
    BY <1>2, <1>9
  <1>13. QED
    BY <1>10, <1>11, <1>12

\* The free list has every block that no file and no table uses, once.
LEMMA BootFreeIs == FreeUpTo(BootFree, DiskSize - 1)
  <1>1. \E f : f = [b \in Block |-> IF b = 0 THEN << >>
                                    ELSE IF b \in BootUses THEN f[b - 1]
                                    ELSE Append(f[b - 1], b)]
    BY FreeExists
  <1>2. PICK n \in Nat : n = DiskSize - 1
    BY LayoutAssumption
  <1>3. PICK f : /\ f = [b \in Block |-> IF b = 0 THEN << >>
                                        ELSE IF b \in BootUses THEN f[b - 1]
                                        ELSE Append(f[b - 1], b)]
                 /\ BootFree = f[n]
    BY <1>1, <1>2 DEF BootFree
  <1>4. Block = 0 .. n
    BY <1>2 DEF Block
  <1>5. f[0] = << >>
    BY <1>3, <1>4
  <1>6. \A b \in Block : b # 0 =>
          f[b] = IF b \in BootUses THEN f[b - 1] ELSE Append(f[b - 1], b)
    BY <1>3
  <1>7. PICK S : S = {b \in 0 .. n : FreeUpTo(f[b], b)}
    OBVIOUS
  <1>8. 0 \in S
    <2>1. FreeUpTo(<< >>, 0)
      BY DEF FreeUpTo, Distinct, BlocksOf
    <2>2. 0 \in 0 .. n
      BY <1>2
    <2>3. QED
      BY <1>5, <1>7, <2>1, <2>2
  <1>9. ASSUME NEW k \in 0 .. n - 1, k \in S PROVE k + 1 \in S
    <2>1. PICK b : b = k + 1
      OBVIOUS
    <2>2. b \in Block /\ b # 0 /\ b - 1 = k
      BY <1>4, <2>1
    <2>3. FreeUpTo(f[b - 1], b - 1)
      BY <1>7, <1>9, <2>2
    <2>4. FreeUpTo(IF b \in BootUses THEN f[b - 1] ELSE Append(f[b - 1], b), b)
      BY <2>2, <2>3, FreeAppend
    <2>5. FreeUpTo(f[b], b)
      BY <1>6, <2>2, <2>4
    <2>6. QED
      BY <1>4, <1>7, <2>1, <2>2, <2>5
  <1>10. \A k \in 0 .. n : k \in S
    BY <1>8, <1>9, UpTo
  <1>11. n \in S
    BY <1>10
  <1>12. FreeUpTo(f[n], n)
    BY <1>7, <1>11
  <1>13. QED
    BY <1>2, <1>3, <1>12

-----------------------------------------------------------------------------
(* What a consistent disk says of the files and the directory.             *)

LEMMA DiskTypes ==
    ASSUME TypeInv
    PROVE  /\ Directory \in Seq(Block) /\ Fits(Directory)
           /\ \A s \in FileSlots :
                /\ s[1] \in 1 .. Len(Directory) /\ s[2] \in 1 .. DirEntries
                /\ s = << s[1], s[2] >>
                /\ FileEntry(s).inode_block \in Block /\ FileEntry(s).inode_block > 0
                /\ FileEntry(s).name \in Name \cup {NoName}
                /\ FileInode(s) \in Inode /\ InodeOK(FileInode(s))
  <1>1. DiskOK /\ disk[0] \in Content /\ ContentOK(disk[0])
    BY ZeroIsBlock DEF TypeInv, DiskOK
  <1>2. Directory \in Seq(Block)
    BY <1>1, ContentViews DEF Directory
  <1>3. Fits(Directory)
    <2>1. CASE disk[0].kind = "directory"
      BY <1>1, <2>1 DEF ContentOK, Directory, AsDirectory
    <2>2. CASE disk[0].kind # "directory"
      BY <2>2, LayoutAssumption DEF Directory, AsDirectory, Fits
    <2>3. QED
      BY <2>1, <2>2
  <1>4. ASSUME NEW s \in FileSlots
        PROVE  /\ s[1] \in 1 .. Len(Directory) /\ s[2] \in 1 .. DirEntries
               /\ s = << s[1], s[2] >>
               /\ FileEntry(s).inode_block \in Block /\ FileEntry(s).inode_block > 0
               /\ FileEntry(s).name \in Name \cup {NoName}
               /\ FileInode(s) \in Inode /\ InodeOK(FileInode(s))
    <2>1. /\ s[1] \in 1 .. Len(Directory) /\ s[2] \in 1 .. DirEntries
          /\ s = << s[1], s[2] >> /\ FileEntry(s).inode_block > 0
      BY DEF FileSlots, FileEntry
    <2>2. Directory[s[1]] \in Block
      BY <1>2, <2>1
    <2>3. DiskTable(s[1]) \in Table
      BY <1>1, <2>2, ContentViews DEF DiskTable, DiskOK
    <2>4. FileEntry(s) \in Entry
      BY <2>1, <2>3 DEF FileEntry, Table
    <2>5. FileEntry(s).inode_block \in Block /\ FileEntry(s).name \in Name \cup {NoName}
      BY <2>4 DEF Entry
    <2>6. FileInode(s) \in Inode /\ InodeOK(FileInode(s))
      BY <1>1, <2>5, InodeOfDisk DEF FileInode
    <2>7. QED
      BY <2>1, <2>5, <2>6
  <1>5. QED
    BY <1>2, <1>3, <1>4

\* The claims of the disk, and the blocks of a file there.
DiskClaims == FileClaims \cup TableClaims(1 .. Len(Directory))
HasBlock(s, b) == b = FileEntry(s).inode_block \/ b \in BlocksOf(FileInode(s).blocks)

LEMMA BlockClaimed ==
    ASSUME NEW s \in FileSlots, NEW b, HasBlock(s, b)
    PROVE  \E c \in DiskClaims : /\ c[1] \in {"inode", "data"}
                                 /\ c[2] = SlotNumber(s) /\ c[4] = b
  <1>1. CASE b = FileEntry(s).inode_block
    <2>1. PICK c : c = << "inode", SlotNumber(s), 0, FileEntry(s).inode_block >>
      OBVIOUS
    <2>2. c \in FileClaims
      BY <2>1 DEF FileClaims
    <2>3. QED
      BY <1>1, <2>1, <2>2 DEF DiskClaims
  <1>2. CASE b \in BlocksOf(FileInode(s).blocks)
    <2>1. PICK i \in 1 .. Len(FileInode(s).blocks) : b = FileInode(s).blocks[i]
      BY <1>2 DEF BlocksOf
    <2>2. PICK c : c = << "data", SlotNumber(s), i, FileInode(s).blocks[i] >>
      OBVIOUS
    <2>3. c \in FileClaims
      BY <2>2 DEF FileClaims
    <2>4. QED
      BY <2>1, <2>2, <2>3 DEF DiskClaims
  <1>3. QED
    BY <1>1, <1>2 DEF HasBlock

\* Slots have different numbers.
LEMMA SlotNumbers ==
    ASSUME TypeInv, NEW r \in FileSlots, NEW s \in FileSlots, SlotNumber(r) = SlotNumber(s)
    PROVE  r = s
  <1>1. PICK i \in 1 .. Len(Directory), j \in 1 .. DirEntries : r = << i, j >>
    BY DiskTypes
  <1>2. PICK k \in 1 .. Len(Directory), l \in 1 .. DirEntries : s = << k, l >>
    BY DiskTypes
  <1>3. /\ i \in Int /\ j \in Int /\ k \in Int /\ l \in Int /\ DirEntries \in Int
        /\ 1 <= j /\ j <= DirEntries /\ 1 <= l /\ l <= DirEntries
    BY <1>1, <1>2, LayoutAssumption
  <1>4. (i - k) * DirEntries = l - j
    <2>1. i * DirEntries + j = k * DirEntries + l
      BY <1>1, <1>2 DEF SlotNumber
    <2>2. \A x, y, z \in Int : (x - y) * z = x * z - y * z
      OBVIOUS
    <2>3. i * DirEntries \in Int /\ k * DirEntries \in Int
      BY <1>3
    <2>4. i * DirEntries - k * DirEntries = l - j
      BY <1>3, <2>1, <2>3
    <2>5. QED
      BY <1>3, <2>2, <2>4
  <1>5. i = k
    <2>1. \A x \in Int : x >= 1 => x * DirEntries >= DirEntries
      BY <1>3
    <2>2. \A x \in Int : x <= -1 => x * DirEntries <= -DirEntries
      BY <1>3
    <2>3. i - k \in Int
      BY <1>3
    <2>4. ~(i - k >= 1) /\ ~(i - k <= -1)
      BY <1>3, <1>4, <2>1, <2>2, <2>3
    <2>5. QED
      BY <1>3, <2>3, <2>4
  <1>6. j = l
    BY <1>3, <1>4, <1>5
  <1>7. QED
    BY <1>1, <1>2, <1>5, <1>6

\* A block is in one file only, and then neither a table nor block 0.
LEMMA FilesApart ==
    ASSUME TypeInv, DiskConsistent, NEW s \in FileSlots, NEW b, HasBlock(s, b)
    PROVE  /\ \A r \in FileSlots : HasBlock(r, b) => r = s
           /\ \A i \in 1 .. Len(Directory) : Directory[i] # b
           /\ b # 0
  <1>1. Separate(DiskClaims)
    BY DEF DiskConsistent, DiskClaims
  <1>2. PICK c \in DiskClaims : /\ c[1] \in {"inode", "data"}
                                /\ c[2] = SlotNumber(s) /\ c[4] = b
    BY BlockClaimed
  <1>3. ASSUME NEW r \in FileSlots, HasBlock(r, b) PROVE r = s
    <2>1. PICK d \in DiskClaims : d[2] = SlotNumber(r) /\ d[4] = b
      BY <1>3, BlockClaimed
    <2>2. c = d
      BY <1>1, <1>2, <2>1 DEF Separate
    <2>3. QED
      BY <1>2, <2>1, <2>2, SlotNumbers
  <1>4. ASSUME NEW i \in 1 .. Len(Directory), Directory[i] = b PROVE FALSE
    <2>1. PICK d : d = << "table", 0, i, Directory[i] >>
      OBVIOUS
    <2>2. d \in DiskClaims /\ d[4] = b /\ d[1] = "table"
      BY <1>4, <2>1 DEF DiskClaims, TableClaims
    <2>3. c = d
      BY <1>1, <1>2, <2>2 DEF Separate
    <2>4. QED
      BY <1>2, <2>2, <2>3
  <1>5. b # 0
    BY <1>1, <1>2 DEF Separate
  <1>6. QED
    BY <1>3, <1>4, <1>5

LEMMA TablesApart ==
    ASSUME DiskConsistent
    PROVE  Distinct(Directory) /\ \A i \in 1 .. Len(Directory) : Directory[i] # 0
  <1>1. Separate(DiskClaims)
    BY DEF DiskConsistent, DiskClaims
  <1>2. ASSUME NEW i \in 1 .. Len(Directory)
        PROVE  << "table", 0, i, Directory[i] >> \in DiskClaims
    BY DEF DiskClaims, TableClaims
  <1>3. ASSUME NEW i \in 1 .. Len(Directory), NEW j \in 1 .. Len(Directory),
               Directory[i] = Directory[j]
        PROVE  i = j
    <2>1. PICK c, d : c = << "table", 0, i, Directory[i] >> /\ d = << "table", 0, j, Directory[j] >>
      OBVIOUS
    <2>2. c \in DiskClaims /\ d \in DiskClaims /\ c[4] = d[4] /\ c[3] = i /\ d[3] = j
      BY <1>2, <1>3, <2>1
    <2>3. QED
      BY <1>1, <2>2 DEF Separate
  <1>4. ASSUME NEW i \in 1 .. Len(Directory) PROVE Directory[i] # 0
    <2>1. PICK c : c = << "table", 0, i, Directory[i] >>
      OBVIOUS
    <2>2. c \in DiskClaims /\ c[4] = Directory[i]
      BY <1>2, <2>1
    <2>3. QED
      BY <1>1, <2>2 DEF Separate
  <1>5. QED
    BY <1>3, <1>4 DEF Distinct

LEMMA DataApart ==
    ASSUME DiskConsistent, NEW s \in FileSlots
    PROVE  Distinct(FileInode(s).blocks)
  <1>1. Separate(DiskClaims)
    BY DEF DiskConsistent, DiskClaims
  <1>2. PICK bs : bs = FileInode(s).blocks
    OBVIOUS
  <1>3. ASSUME NEW i \in 1 .. Len(bs), NEW j \in 1 .. Len(bs), bs[i] = bs[j]
        PROVE  i = j
    <2>1. PICK c, d : c = << "data", SlotNumber(s), i, bs[i] >>
                      /\ d = << "data", SlotNumber(s), j, bs[j] >>
      OBVIOUS
    <2>2. c \in DiskClaims /\ d \in DiskClaims
      BY <1>2, <2>1 DEF DiskClaims, FileClaims
    <2>3. c[4] = d[4] /\ c[3] = i /\ d[3] = j
      BY <1>3, <2>1
    <2>4. QED
      BY <1>1, <2>2, <2>3 DEF Separate
  <1>4. QED
    BY <1>2, <1>3 DEF Distinct

\* Every block of a consistent disk has an owner.
OwnedAs(b, o) ==
    /\ b = 0 => o = Root
    /\ \A i \in 1 .. Len(Directory) : Directory[i] = b => o = InDirectory
    /\ \A s \in FileSlots : HasBlock(s, b) => o = FileOf(FileEntry(s).name)

LEMMA DiskOwners ==
    ASSUME TypeInv, DiskConsistent
    PROVE  \E own \in [Block -> Owner] : \A b \in Block : OwnedAs(b, own[b])
  <1>1. ASSUME NEW b \in Block PROVE \E o \in Owner : OwnedAs(b, o)
    <2>1. CASE \E s \in FileSlots : HasBlock(s, b)
      <3>1. PICK s \in FileSlots : HasBlock(s, b)
        BY <2>1
      <3>2. FileOf(FileEntry(s).name) \in Owner
        BY DiskTypes, OwnerTypes
      <3>3. OwnedAs(b, FileOf(FileEntry(s).name))
        BY <3>1, FilesApart DEF OwnedAs
      <3>4. QED
        BY <3>2, <3>3
    <2>2. CASE (\A s \in FileSlots : ~HasBlock(s, b)) /\ b = 0
      BY <2>2, TablesApart, OwnerTypes DEF OwnedAs
    <2>3. CASE (\A s \in FileSlots : ~HasBlock(s, b)) /\ b # 0
      BY <2>3, OwnerTypes DEF OwnedAs
    <2>4. QED
      BY <2>1, <2>2, <2>3
  <1>2. PICK own : own = [b \in Block |-> CHOOSE o \in Owner : OwnedAs(b, o)]
    OBVIOUS
  <1>3. ASSUME NEW b \in Block PROVE own[b] \in Owner /\ OwnedAs(b, own[b])
    <2>1. own[b] = CHOOSE o \in Owner : OwnedAs(b, o)
      BY <1>2
    <2>2. QED
      BY <1>1, <2>1
  <1>4. own \in [Block -> Owner]
    BY <1>2, <1>3
  <1>5. QED
    BY <1>3, <1>4

-----------------------------------------------------------------------------
(* main() on a consistent disk.                                            *)

LEMMA BootTypes ==
    ASSUME TypeInv, Boot, \A t \in Thread : pc[t] \in {"new", "done"}
    PROVE  TypeInv'
  <1>1. /\ dir_inode' = Directory /\ free_block' = BootFree /\ up' = TRUE
        /\ UNCHANGED << disk, the_lock, file_lock, pc, req, loc, outcome >>
    BY DEF Boot, locks
  <1>2. LockInv'
    BY <1>1 DEF TypeInv, LockInv, LockTypeOK, OneWriter, ReadingDir, WritingDir,
                ReadingFile, WritingFile
  <1>3. BootFree \in Seq(Block)
    BY BootFreeIs DEF FreeUpTo
  <1>4. Directory \in Seq(Block) /\ Fits(Directory)
    BY DiskTypes
  <1>5. TypeOK'
    <2>1. Fits(dir_inode)'
      BY <1>1, <1>4 DEF Fits
    <2>2. \A t \in Thread : Fits(loc[t].inode.blocks)'
      BY <1>1 DEF TypeInv, TypeOK, Fits
    <2>3. \A b \in Block : disk'[b].kind \in {"directory", "inode"} => Fits(disk[b].blocks)'
      BY <1>1 DEF TypeInv, TypeOK, Fits
    <2>4. /\ disk' \in [Block -> Content] /\ dir_inode' \in Seq(Block)
          /\ free_block' \in Seq(Block) /\ the_lock' \in SUBSET Hold
          /\ file_lock' \in [Name -> SUBSET Hold] /\ up' \in BOOLEAN
          /\ pc' \in [Thread -> Label]
          /\ req' \in [Thread -> RequestType \cup {NoRequest}]
          /\ loc' \in [Thread -> Locals] /\ outcome' \in [Thread -> Outcome]
      BY <1>1, <1>3, <1>4 DEF TypeInv, TypeOK
    <2>5. QED
      BY <2>1, <2>2, <2>3, <2>4 DEF TypeOK
  <1>6. DiskOK'
    BY <1>1 DEF TypeInv, DiskOK
  <1>7. ASSUME NEW t \in Thread
        PROVE  LocalOK(pc'[t], req'[t], loc'[t], Len(dir_inode'))
    <2>1. CASE pc[t] = "new"
      <3>1. loc[t] = NoLocals
        BY <2>1 DEF TypeInv, LocalOK
      <3>2. QED
        BY <1>1, <2>1, <3>1, NewOK
    <2>2. CASE pc[t] = "done"
      BY <1>1, <2>2, IdleOK
    <2>3. QED
      BY <2>1, <2>2
  <1>8. QED
    BY <1>2, <1>5, <1>6, <1>7 DEF TypeInv

\* The server describes the files as the disk does.
LEMMA BootView ==
    ASSUME Boot
    PROVE  /\ dir_inode' = Directory /\ disk' = disk
           /\ \A i : TableAt(i)' = DiskTable(i)
           /\ \A s : EntryAt(s)' = FileEntry(s)
           /\ Used' = FileSlots
           /\ Dropping' = Dropping
  <1>1. /\ dir_inode' = Directory /\ disk' = disk /\ pc' = pc /\ loc' = loc
    BY DEF Boot
  <1>2. \A i : TableAt(i)' = DiskTable(i)
    BY <1>1 DEF TableAt, DiskTable
  <1>3. \A s : EntryAt(s)' = FileEntry(s)
    BY <1>2 DEF EntryAt, FileEntry
  <1>4. Used' = FileSlots
    <2>1. Slots' = (1 .. Len(Directory)) \X (1 .. DirEntries)
      BY <1>1 DEF Slots
    <2>2. QED
      BY <1>3, <2>1 DEF Used, FileSlots, FileEntry
  <1>5. Dropping' = Dropping
    BY <1>1 DEF Dropping, At
  <1>6. QED
    BY <1>1, <1>2, <1>3, <1>4, <1>5

LEMMA BootDirectory ==
    ASSUME TypeInv, DiskConsistent, Boot
    PROVE  DirectoryInv'
  <1>1. /\ dir_inode' = Directory /\ disk' = disk
        /\ \A i : TableAt(i)' = DiskTable(i)
        /\ \A s : EntryAt(s)' = FileEntry(s)
        /\ Used' = FileSlots
    BY BootView
  <1>2. disk[0] = DirectoryBlock(Directory)
    <2>1. disk[0] \in Content /\ disk[0].kind = "directory"
      BY ZeroIsBlock DEF TypeInv, TypeOK, DiskConsistent
    <2>2. Directory = disk[0].blocks
      BY <2>1 DEF Directory, AsDirectory
    <2>3. disk[0] \in [kind : {"directory"}, blocks : Seq(Block)]
      BY <2>1 DEF Content, Inode
    <2>4. QED
      BY <2>2, <2>3 DEF DirectoryBlock
  <1>3. (disk[0] = DirectoryBlock(dir_inode))'
    BY <1>1, <1>2 DEF DirectoryBlock
  <1>4. TablesOK'
    BY <1>1 DEF TablesOK, DiskConsistent, UsedEntries
  <1>5. NamesOK'
    BY <1>1 DEF NamesOK, DiskConsistent
  <1>6. ASSUME NEW s \in FileSlots PROVE FileOK(EntryAt(s).inode_block)'
    <2>1. /\ disk[FileEntry(s).inode_block].kind = "inode"
          /\ FileInode(s).owner \in User
          /\ \A i \in 1 .. Len(FileInode(s).blocks) :
               disk[FileInode(s).blocks[i]].kind = "data"
      BY DEF DiskConsistent
    <2>2. FileInode(s) = disk[FileEntry(s).inode_block]
      BY <2>1 DEF FileInode, AsInode
    <2>3. QED
      BY <1>1, <2>1, <2>2 DEF FileOK
  <1>7. QED
    BY <1>1, <1>3, <1>4, <1>5, <1>6 DEF DirectoryInv

LEMMA BootOwners ==
    ASSUME TypeInv, DiskConsistent, Boot, NEW own,
           \A b \in Block : OwnedAs(b, own[b])
    PROVE  TablesOwned(own, 0)' /\ FilesOwned(own)'
  <1>1. /\ dir_inode' = Directory /\ disk' = disk
        /\ \A s : EntryAt(s)' = FileEntry(s)
        /\ Used' = FileSlots
    BY BootView
  <1>2. own[0] = Root
    BY ZeroIsBlock DEF OwnedAs
  <1>3. ASSUME NEW i \in 1 .. Len(Directory) PROVE own[Directory[i]] = InDirectory
    <2>1. Directory[i] \in Block
      BY DiskTypes
    <2>2. QED
      BY <2>1 DEF OwnedAs
  <1>4. TablesOwned(own, 0)'
    <2>1. Distinct(Directory)
      BY TablesApart
    <2>2. QED
      BY <1>1, <1>2, <1>3, <2>1 DEF TablesOwned, Root, InDirectory, Distinct
  <1>5. ASSUME NEW s \in FileSlots
        PROVE  /\ own[FileEntry(s).inode_block] = FileOf(FileEntry(s).name)
               /\ Owns(own, FileOf(FileEntry(s).name), disk[FileEntry(s).inode_block].blocks)
    <2>1. FileEntry(s).inode_block \in Block /\ FileInode(s).blocks \in Seq(Block)
      BY DiskTypes DEF Inode
    <2>2. \A b \in Block : HasBlock(s, b) => own[b] = FileOf(FileEntry(s).name)
      BY DEF OwnedAs
    <2>3. own[FileEntry(s).inode_block] = FileOf(FileEntry(s).name)
      BY <2>1, <2>2 DEF HasBlock
    <2>4. \A i \in 1 .. Len(FileInode(s).blocks) :
            own[FileInode(s).blocks[i]] = FileOf(FileEntry(s).name)
      BY <2>1, <2>2 DEF HasBlock, BlocksOf
    <2>5. Owns(own, FileOf(FileEntry(s).name), FileInode(s).blocks)
      BY <2>4, DataApart DEF Owns
    <2>6. FileInode(s) = disk[FileEntry(s).inode_block]
      BY DEF FileInode, AsInode, DiskConsistent
    <2>7. QED
      BY <2>3, <2>5, <2>6
  <1>6. FilesOwned(own)'
    BY <1>1, <1>5 DEF FilesOwned, FileBlocks, FileOf, Owns
  <1>7. QED
    BY <1>4, <1>6

-----------------------------------------------------------------------------
(* The invariant.                                                          *)

KeepLabel == {"new", "reply", "done"} \cup ReadLabel \cup DeleteLabel

\* The directory and the files own their blocks, whatever the free list has,
\* and every request reads or deletes.
KeepersRunning ==
    /\ DirectoryInv
    /\ \A t \in Thread : pc[t] \in KeepLabel /\ HandlerOK(t)
    /\ \E own \in [Block -> Owner] : TablesOwned(own, 0) /\ FilesOwned(own)

KeepersInv ==
    /\ TypeInv
    /\ boots \in Nat
    /\ up => IF boots = 0 THEN RunningInv ELSE KeepersRunning
    /\ ~up => DiskConsistent /\ \A t \in Thread : pc[t] \in {"new", "done"}

\* main() gives the directory and every file their blocks again.
LEMMA BootRuns ==
    ASSUME TypeInv, DiskConsistent, Boot, \A t \in Thread : pc[t] \in {"new", "done"}
    PROVE  KeepersRunning'
  <1>1. ASSUME NEW t \in Thread PROVE pc'[t] \in KeepLabel /\ HandlerOK(t)'
    <2>1. pc'[t] \in {"new", "done"}
      BY DEF Boot
    <2>2. QED
      BY <2>1 DEF KeepLabel, HandlerOK, FoundOK, CopyOK, CreateOK, DeleteOK,
                  FoundLabel, CopyLabel
  <1>2. PICK own \in [Block -> Owner] : \A b \in Block : OwnedAs(b, own[b])
    BY DiskOwners
  <1>3. TablesOwned(own, 0)' /\ FilesOwned(own)'
    BY <1>2, BootOwners
  <1>4. own \in [Block -> Owner]'
    BY <1>2 DEF Block, Owner, Root, Free, InDirectory, FileOf, HeldBy
  <1>5. DirectoryInv'
    BY BootDirectory
  <1>6. QED
    BY <1>1, <1>3, <1>4, <1>5 DEF KeepersRunning

\* A step that writes no block.
LEMMA KeepersQuiet ==
    ASSUME TypeInv, KeepersRunning, UNCHANGED << disk, dir_inode >>,
           \A t \in Thread : pc'[t] \in KeepLabel /\ HandlerOK(t)'
    PROVE  KeepersRunning'
  <1>1. DirectoryInv
    BY DEF KeepersRunning
  <1>2. PICK own \in [Block -> Owner] : TablesOwned(own, 0) /\ FilesOwned(own)
    BY DEF KeepersRunning
  <1>3. DirectoryInv' /\ FilesOwned(own)'
    BY <1>1, <1>2, SameDisk
  <1>4. TablesOwned(own, 0)'
    BY <1>2 DEF TablesOwned, Root, InDirectory, Distinct
  <1>5. own \in [Block -> Owner]'
    BY <1>2 DEF Block, Owner, Root, Free, InDirectory, FileOf, HeldBy
  <1>6. QED
    BY <1>3, <1>4, <1>5 DEF KeepersRunning

\* A step of a handler that writes no block.
LEMMA KeepersQuietStep ==
    ASSUME TypeInv, KeepersRunning, UNCHANGED << disk, dir_inode >>,
           NEW t \in Thread, Step(t), pc'[t] \in KeepLabel, HandlerOK(t)'
    PROVE  KeepersRunning'
  <1>1. ASSUME NEW u \in Thread PROVE pc'[u] \in KeepLabel /\ HandlerOK(u)'
    <2>1. CASE u = t
      BY <2>1
    <2>2. CASE u # t
      <3>1. pc'[u] = pc[u]
        BY <2>2, OthersUnchanged DEF TypeInv
      <3>2. pc[u] \in KeepLabel /\ HandlerOK(u)
        BY DEF KeepersRunning
      <3>3. HandlerOK(u)'
        BY <2>2, <3>2, SameDiskOthers
      <3>4. QED
        BY <3>1, <3>2, <3>3
    <2>3. QED
      BY <2>1, <2>2
  <1>2. QED
    BY <1>1, KeepersQuiet

\* A file is gone: the others keep theirs.
LEMMA KeepersDrop ==
    ASSUME TypeInv, KeepersRunning, NEW t \in Thread,
           DeleteEntry(t) \/ DeleteDirInode(t)
    PROVE  KeepersRunning'
  <1>1. /\ Step(t) /\ pc[t] \in {"delete_entry", "delete_dir_inode"}
        /\ UNCHANGED loc /\ HandlerOK(t) /\ DirectoryInv
    BY DEF KeepersRunning, Step, DeleteStep, DeleteEntry, DeleteDirInode, At
  <1>2. pc'[t] = "delete_free"
    BY Moves DEF DeleteEntry, DeleteDirInode
  <1>3. t \in WritingDir
    BY <1>1 DEF WritingDir, WritingDirLabel, DeleteLabel
  <1>4. PICK own \in [Block -> Owner] : TablesOwned(own, 0) /\ FilesOwned(own)
    BY DEF KeepersRunning
  <1>5. DirectoryInv' /\ FilesOwned(own)' /\ TablesOwned(own, 0)'
    <2>1. CASE DeleteEntry(t)
      BY <1>1, <1>4, <2>1, EntryDropped
    <2>2. CASE DeleteDirInode(t)
      <3>1. \A k : TablesOwned(own, k)
        BY <1>4 DEF TablesOwned
      <3>2. QED
        BY <1>1, <1>4, <2>2, <3>1, TableGone
    <2>3. QED
      BY <2>1, <2>2
  <1>6. ASSUME NEW u \in Thread PROVE pc'[u] \in KeepLabel /\ HandlerOK(u)'
    <2>1. CASE u = t
      BY <1>1, <1>2, <2>1, DeletedFile DEF KeepLabel, DeleteLabel
    <2>2. CASE u # t
      <3>1. pc'[u] = pc[u] /\ pc[u] \in KeepLabel
        BY <1>1, <2>2, OthersUnchanged DEF TypeInv, KeepersRunning
      <3>2. QED
        BY <1>1, <1>3, <2>2, <3>1, OthersOutside
    <2>3. QED
      BY <2>1, <2>2
  <1>7. own \in [Block -> Owner]'
    BY <1>4 DEF Block, Owner, Root, Free, InDirectory, FileOf, HeldBy
  <1>8. QED
    BY <1>5, <1>6, <1>7 DEF KeepersRunning

LEMMA KeepersOps ==
    ASSUME NEW t \in Thread, Step(t), pc[t] \in KeepLabel
    PROVE  /\ ReadStep(t) \/ DeleteStep(t) \/ EndRequest(t)
           /\ ~AppendWrite(t)
  <1>1. ~AppendStep(t) /\ ~AppendWrite(t)
    BY DEF AppendStep, AppendRoom, AppendLock, AppendFind, AppendFileLock,
           AppendInode, AppendAlloc, AppendPartial, AppendData, AppendCommit,
           AppendUnlock, AppendWrite, At, KeepLabel, ReadLabel, DeleteLabel
  <1>2. ~CreateStep(t)
    BY DEF CreateStep, CreateReserve, CreateLock, CreateScan, CreateInode,
           CreateEntry, CreateExtend, CreateNewInode, CreateNewTable,
           CreateDirInode, CreateUnlock, At, KeepLabel, ReadLabel, DeleteLabel
  <1>3. QED
    BY <1>1, <1>2 DEF Step

\* Every step of a handler, after a restart.
LEMMA KeepersStep ==
    ASSUME TypeInv, KeepersRunning, NEW t \in Thread, Step(t)
    PROVE  KeepersRunning'
  <1>1. DirectoryInv /\ HandlerOK(t) /\ pc[t] \in KeepLabel
    BY DEF KeepersRunning
  <1>2. ASSUME UNCHANGED << disk, dir_inode >>, pc'[t] \in QuietLabel \cap KeepLabel
        PROVE  KeepersRunning'
    BY <1>2, QuietLabels, KeepersQuietStep
  <1>3. CASE ReadStep(t)
    <2>1. UNCHANGED << disk, dir_inode >>
      BY <1>3 DEF ReadStep, ReadLock, ReadFind, ReadFileLock, ReadInode, ReadBlock,
                  ReadUnlock, memory
    <2>2. pc'[t] \in ReadLabel \cup {"reply"}
      BY <1>3, Moves DEF ReadStep, ReadLock, ReadFind, ReadFileLock, ReadInode,
                         ReadBlock, ReadUnlock, ReadLabel
    <2>3. QED
      BY <1>2, <2>1, <2>2 DEF QuietLabel, KeepLabel
  <1>4. CASE DeleteLock(t) \/ DeleteUnlock(t) \/ DeleteFree(t)
    <2>1. UNCHANGED << disk, dir_inode >>
      BY <1>4 DEF DeleteLock, DeleteUnlock, DeleteFree, memory
    <2>2. pc'[t] \in {"delete_find", "reply", "delete_unlock"}
      BY <1>4, Moves DEF DeleteLock, DeleteUnlock, DeleteFree
    <2>3. QED
      BY <1>2, <2>1, <2>2 DEF QuietLabel, KeepLabel, DeleteLabel
  <1>5. CASE DeleteFind(t)
    <2>1. UNCHANGED << disk, dir_inode >>
      BY <1>5 DEF DeleteFind, memory
    <2>2. pc'[t] \in {"reply", "delete_free_table", "delete_entry"}
      BY <1>5, Moves DEF DeleteFind
    <2>3. CASE pc'[t] = "reply"
      BY <1>2, <2>1, <2>3 DEF QuietLabel, KeepLabel
    <2>4. CASE pc'[t] \in {"delete_free_table", "delete_entry"}
      <3>1. HandlerOK(t)'
        BY <1>1, <1>5, <2>4, DeleteFindOpens
      <3>2. Step(t) /\ pc'[t] \in KeepLabel
        BY <2>4 DEF KeepLabel, DeleteLabel
      <3>3. QED
        BY <2>1, <3>1, <3>2, KeepersQuietStep
    <2>5. QED
      BY <2>2, <2>3, <2>4
  <1>6. CASE DeleteFreeTable(t)
    <2>1. UNCHANGED << disk, dir_inode >>
      BY <1>6 DEF DeleteFreeTable
    <2>2. HandlerOK(t)'
      BY <1>1, <1>6, FreedTable
    <2>3. pc'[t] \in KeepLabel
      BY <1>6, Moves DEF DeleteFreeTable, KeepLabel, DeleteLabel
    <2>4. QED
      BY <2>1, <2>2, <2>3, KeepersQuietStep
  <1>7. CASE DeleteEntry(t) \/ DeleteDirInode(t)
    BY <1>7, KeepersDrop
  <1>8. CASE EndRequest(t)
    <2>1. UNCHANGED << disk, dir_inode >> /\ pc'[t] = "done"
      BY <1>8 DEF EndRequest, memory, TypeInv, TypeOK
    <2>2. QED
      BY <1>2, <2>1 DEF QuietLabel, KeepLabel
  <1>9. QED
    BY <1>1, <1>3, <1>4, <1>5, <1>6, <1>7, <1>8, KeepersOps DEF DeleteStep

\* A connection that asks to read or to delete.
LEMMA KeepersAccept ==
    ASSUME TypeInv, KeepersRunning, NEW t \in Thread, NEW r \in Request, Accept(t, r),
           req'[t].op \in {"read", "delete"}
    PROVE  KeepersRunning'
  <1>1. UNCHANGED << disk, dir_inode >>
    BY DEF Accept, memory
  <1>2. pc'[t] \in {"read_lock", "delete_lock", "reply"}
    <2>1. req'[t] = r
      BY DEF Accept, TypeInv, TypeOK
    <2>2. CASE ~Valid(r) /\ Return(t, "invalid")
      BY <2>2, Moves
    <2>3. CASE Valid(r) /\ Goto(t, FirstStep(r.op))
      BY <2>1, <2>3, Moves DEF FirstStep
    <2>4. QED
      BY <2>2, <2>3 DEF Accept
  <1>3. ASSUME NEW u \in Thread PROVE pc'[u] \in KeepLabel /\ HandlerOK(u)'
    <2>1. CASE u = t
      BY <1>2, <2>1, QuietLabels DEF QuietLabel, KeepLabel, ReadLabel, DeleteLabel
    <2>2. CASE u # t
      <3>1. pc'[u] = pc[u] /\ loc'[u] = loc[u] /\ req'[u] = req[u]
        BY <2>2 DEF Accept, Goto, Return, TypeInv, TypeOK
      <3>2. pc[u] \in KeepLabel /\ HandlerOK(u)
        BY DEF KeepersRunning
      <3>3. HandlerOK(u)'
        BY <1>1, <3>1, <3>2, SameDiskHandler
      <3>4. QED
        BY <3>1, <3>2, <3>3
    <2>3. QED
      BY <2>1, <2>2
  <1>4. QED
    BY <1>1, <1>3, KeepersQuiet

\* A crash leaves a disk that main() can boot from, restarted or not.
LEMMA KeepersConsistent == KeepersInv => DiskConsistent
  <1> SUFFICES ASSUME KeepersInv PROVE DiskConsistent
    OBVIOUS
  <1>1. CASE ~up
    BY <1>1 DEF KeepersInv
  <1>2. CASE up /\ boots = 0
    BY <1>2, RunningConsistent DEF KeepersInv
  <1>3. CASE up /\ boots # 0
    <2>1. TypeInv /\ KeepersRunning
      BY <1>3 DEF KeepersInv
    <2>2. PICK own \in [Block -> Owner] : TablesOwned(own, 0) /\ FilesOwned(own)
      BY <2>1 DEF KeepersRunning
    <2>3. QED
      BY <2>1, <2>2, TablesAreOwned, OwnedConsistent DEF KeepersRunning
  <1>4. QED
    BY <1>1, <1>2, <1>3

LEMMA KeepersInvInit == RestartInit => KeepersInv
  BY StoreInvInit DEF RestartInit, KeepersInv, StoreInv

LEMMA KeepersInvStep == KeepersInv /\ [KeepersNext]_restartVars => KeepersInv'
  <1> SUFFICES ASSUME KeepersInv, [KeepersNext]_restartVars PROVE KeepersInv'
    OBVIOUS
  <1>1. TypeInv /\ boots \in Nat
    BY DEF KeepersInv
  <1>2. CASE Boot
    <2>1. DiskConsistent /\ ~up /\ \A t \in Thread : pc[t] \in {"new", "done"}
      BY <1>2 DEF KeepersInv, Boot
    <2>2. TypeInv' /\ KeepersRunning'
      BY <1>1, <1>2, <2>1, BootTypes, BootRuns
    <2>3. up' = TRUE /\ boots' \in Nat /\ boots' # 0
      BY <1>1, <1>2 DEF Boot
    <2>4. QED
      BY <2>2, <2>3 DEF KeepersInv
  <1>3. CASE [Next]_vars /\ boots' = boots /\ boots = 0
    <2>1. StoreInv
      BY <1>3 DEF KeepersInv, StoreInv
    <2>2. StoreInv'
      BY <1>3, <2>1, StoreInvStep
    <2>3. QED
      BY <1>1, <1>3, <2>2 DEF KeepersInv, StoreInv
  <1>4. CASE [Next /\ NothingAllocated]_vars /\ boots' = boots /\ boots # 0
    <2>1. TypeInv'
      BY <1>1, <1>4, TypeInvStep
    <2>2. DiskConsistent /\ boots > 0
      BY <1>1, <1>4, KeepersConsistent
    <2>3. ASSUME NEW t \in Thread, Step(t) PROVE KeepersInv'
      <3>1. up
        BY <2>3, StepsWork DEF KeepersInv
      <3>2. KeepersRunning'
        BY <1>1, <1>4, <2>3, <3>1, KeepersStep DEF KeepersInv
      <3>3. up'
        BY <1>1, <2>3, <3>1, ControlUnchanged DEF TypeInv
      <3>4. QED
        BY <1>1, <1>4, <2>1, <3>2, <3>3 DEF KeepersInv
    <2>4. ASSUME NEW t \in Thread, NEW r \in Request, Accept(t, r), NothingAllocated
          PROVE  KeepersInv'
      <3>1. up /\ up' = up /\ pc[t] = "new"
        BY <2>4 DEF Accept, At
      <3>2. pc'[t] # "new"
        <4>1. r.op \in Op
          BY RequestAssumption DEF RequestType
        <4>2. pc'[t] = "reply" \/ pc'[t] = FirstStep(r.op)
          BY <1>1, <2>4, Moves DEF Accept
        <4>3. QED
          BY <4>1, <4>2 DEF Op, FirstStep
      <3>3. req'[t].op \in {"read", "delete"}
        BY <2>2, <2>4, <3>1, <3>2 DEF NothingAllocated
      <3>4. KeepersRunning'
        BY <1>1, <1>4, <2>4, <3>1, <3>3, KeepersAccept DEF KeepersInv
      <3>5. QED
        BY <1>1, <1>4, <2>1, <3>1, <3>4 DEF KeepersInv
    <2>5. CASE Crash
      <3>1. disk' = disk /\ ~up' /\ \A t \in Thread : pc'[t] \in {"new", "done"}
        BY <2>5 DEF Crash
      <3>2. QED
        BY <1>1, <1>4, <2>1, <2>2, <3>1, SameDiskConsistent DEF KeepersInv
    <2>6. CASE UNCHANGED vars
      <3>1. /\ UNCHANGED << disk, dir_inode, up >>
            /\ pc' = pc /\ loc' = loc /\ req' = req
        BY <2>6 DEF vars, memory
      <3>2. CASE ~up
        BY <1>1, <1>4, <2>1, <2>2, <3>1, <3>2, SameDiskConsistent DEF KeepersInv
      <3>3. CASE up
        <4>1. KeepersRunning
          BY <1>4, <3>3 DEF KeepersInv
        <4>2. \A t \in Thread : pc'[t] \in KeepLabel /\ HandlerOK(t)'
          BY <3>1, <4>1, SameDiskHandler DEF KeepersRunning
        <4>3. KeepersRunning'
          BY <1>1, <3>1, <4>1, <4>2, KeepersQuiet
        <4>4. QED
          BY <1>1, <1>4, <2>1, <3>1, <3>3, <4>3 DEF KeepersInv
      <3>4. QED
        BY <3>2, <3>3
    <2>7. QED
      BY <1>4, <2>3, <2>4, <2>5, <2>6 DEF Next, Quiet
  <1>5. QED
    <2>1. \/ Boot
          \/ (Next /\ NothingAllocated) /\ boots' = boots
          \/ UNCHANGED vars /\ boots' = boots
      BY DEF KeepersNext, restartVars
    <2>2. QED
      BY <1>2, <1>3, <1>4, <2>1

-----------------------------------------------------------------------------
(* What a restart recovers.                                                *)

\* The claims after main(): the free list, the files and the directory.
LEMMA BootClaims ==
    ASSUME Boot, \A t \in Thread : pc[t] \in {"new", "done"}
    PROVE  Claims' = {<< "free", 0, i, BootFree[i] >> : i \in 1 .. Len(BootFree)}
                       \cup DiskClaims
  <1>1. /\ free_block' = BootFree /\ disk' = disk
        /\ \A t \in Thread : pc'[t] \in {"new", "done"}
    BY DEF Boot
  <1>2. FreeClaims' = {<< "free", 0, i, BootFree[i] >> : i \in 1 .. Len(BootFree)}
    BY <1>1 DEF FreeClaims
  <1>3. HeldClaims' = {}
    <2>1. \A t \in Thread : HeldBlocks(t)' = << >>
      BY <1>1 DEF HeldBlocks
    <2>2. \A t \in Thread : 1 .. Len(HeldBlocks(t)') = {}
      BY <2>1
    <2>3. QED
      BY <2>2 DEF HeldClaims
  <1>4. Dropping' = {}
    BY <1>1 DEF Dropping, At
  <1>5. Directory' = Directory
    BY <1>1 DEF Directory
  <1>6. FileClaims' = FileClaims
    <2>1. /\ FileSlots' = FileSlots
          /\ \A s : FileEntry(s)' = FileEntry(s) /\ FileInode(s)' = FileInode(s)
      BY <1>1 DEF Directory, DiskTable, FileSlots, FileEntry, FileInode
    <2>2. QED
      BY <2>1 DEF FileClaims
  <1>7. TableClaims(1 .. Len(Directory) \ Dropping)' = TableClaims(1 .. Len(Directory))
    BY <1>4, <1>5 DEF TableClaims
  <1>8. QED
    BY <1>2, <1>3, <1>6, <1>7 DEF Claims, DiskClaims

\* main() takes off the free list the tables and the data, as the claims
\* have them.
LEMMA BootUsesClaimed ==
    ASSUME TypeInv, DiskConsistent
    PROVE  /\ BootUses \subseteq {c[4] : c \in DiskClaims}
           /\ \A c \in DiskClaims : c[1] = "inode" \/ c[4] \in BootUses
  <1>1. \A s \in FileSlots : Len(FileInode(s).blocks) = CeilDiv(FileInode(s).size)
    BY DEF DiskConsistent
  <1>2. ASSUME NEW i \in 1 .. Len(Directory)
        PROVE  \E c \in DiskClaims : c[4] = Directory[i]
    <2>1. PICK c : c = << "table", 0, i, Directory[i] >>
      OBVIOUS
    <2>2. c \in DiskClaims /\ c[4] = Directory[i]
      BY <2>1 DEF DiskClaims, TableClaims
    <2>3. QED
      BY <2>2
  <1>3. ASSUME NEW s \in FileSlots, NEW i \in 1 .. CeilDiv(FileInode(s).size)
        PROVE  \E c \in DiskClaims : c[4] = FileInode(s).blocks[i]
    <2>1. FileInode(s).blocks[i] \in BlocksOf(FileInode(s).blocks)
      BY <1>1 DEF BlocksOf
    <2>2. QED
      BY <2>1, BlockClaimed DEF HasBlock
  <1>4. BootUses \subseteq {c[4] : c \in DiskClaims}
    BY <1>2, <1>3 DEF BootUses
  <1>5. ASSUME NEW c \in TableClaims(1 .. Len(Directory)) PROVE c[4] \in BootUses
    BY DEF TableClaims, BootUses
  <1>6. ASSUME NEW c \in FileClaims, c[1] # "inode" PROVE c[4] \in BootUses
    <2>1. PICK s \in FileSlots :
            \/ c = << "inode", SlotNumber(s), 0, FileEntry(s).inode_block >>
            \/ \E i \in 1 .. Len(FileInode(s).blocks) :
                 c = << "data", SlotNumber(s), i, FileInode(s).blocks[i] >>
      BY DEF FileClaims
    <2>2. PICK i \in 1 .. Len(FileInode(s).blocks) :
            c = << "data", SlotNumber(s), i, FileInode(s).blocks[i] >>
      BY <1>6, <2>1
    <2>3. i \in 1 .. CeilDiv(FileInode(s).size) /\ c[4] = FileInode(s).blocks[i]
      BY <1>1, <2>2
    <2>4. QED
      BY <2>3 DEF BootUses
  <1>7. QED
    BY <1>4, <1>5, <1>6 DEF DiskClaims

LEMMA BootIsWhole ==
    ASSUME TypeInv, DiskConsistent, Boot, \A t \in Thread : pc[t] \in {"new", "done"}
    PROVE  Recovered'
  <1>1. PICK free : free = BootFree
    OBVIOUS
  <1>2. PICK F : F = {<< "free", 0, i, free[i] >> : i \in 1 .. Len(free)}
    OBVIOUS
  <1>3. Claims' = F \cup DiskClaims
    BY <1>1, <1>2, BootClaims
  <1>4. /\ Distinct(free)
        /\ {free[i] : i \in 1 .. Len(free)} = (1 .. DiskSize - 1) \ BootUses
    BY <1>1, BootFreeIs DEF FreeUpTo, BlocksOf
  <1>5. \A c \in F : c[1] = "free" /\ \E i \in 1 .. Len(free) : c = << "free", 0, i, free[i] >>
    BY <1>2
  <1>6. ASSUME NEW b \in Block \ {0} PROVE \E c \in F \cup DiskClaims : c[4] = b
    <2>1. CASE b \in BootUses
      BY <2>1, BootUsesClaimed
    <2>2. CASE b \notin BootUses
      <3>1. b \in 1 .. DiskSize - 1
        BY LayoutAssumption DEF Block
      <3>2. PICK i \in 1 .. Len(free) : b = free[i]
        BY <1>4, <2>2, <3>1
      <3>3. PICK c : c = << "free", 0, i, free[i] >>
        OBVIOUS
      <3>4. c \in F /\ c[4] = b
        BY <1>2, <3>2, <3>3
      <3>5. QED
        BY <3>4
    <2>3. QED
      BY <2>1, <2>2
  <1>7. ASSUME NEW c \in F, NEW d \in DiskClaims, c[4] = d[4]
        PROVE  {c[1], d[1]} = {"free", "inode"}
    <2>1. c[1] = "free" /\ c[4] \notin BootUses
      BY <1>4, <1>5
    <2>2. d[1] = "inode"
      BY <1>7, <2>1, BootUsesClaimed
    <2>3. QED
      BY <2>1, <2>2
  <1>8. ASSUME NEW c \in F, NEW d \in F, c[4] = d[4] PROVE c = d
    <2>1. PICK i \in 1 .. Len(free) : c = << "free", 0, i, free[i] >>
      BY <1>5
    <2>2. PICK j \in 1 .. Len(free) : d = << "free", 0, j, free[j] >>
      BY <1>5
    <2>3. i = j
      BY <1>4, <1>8, <2>1, <2>2 DEF Distinct
    <2>4. QED
      BY <2>1, <2>2, <2>3
  <1>9. ASSUME NEW c \in DiskClaims, NEW d \in DiskClaims, c[4] = d[4] PROVE c = d
    BY <1>9 DEF DiskConsistent, DiskClaims, Separate
  <1>10. ASSUME NEW c \in F \cup DiskClaims, NEW d \in F \cup DiskClaims,
                c[4] = d[4], c # d
         PROVE  {c[1], d[1]} = {"free", "inode"}
    <2>1. CASE c \in F /\ d \in DiskClaims
      BY <1>7, <1>10, <2>1
    <2>2. CASE d \in F /\ c \in DiskClaims
      <3>1. {d[1], c[1]} = {"free", "inode"}
        BY <1>7, <1>10, <2>2
      <3>2. QED
        BY <3>1
    <2>3. QED
      BY <1>8, <1>9, <1>10, <2>1, <2>2
  <1>11. Claimed' = {c[4] : c \in Claims'}
    BY DEF Claimed
  <1>12. QED
    BY <1>3, <1>6, <1>10, <1>11 DEF Recovered, Block

\* Only main() brings the process up, and only from no requests in progress.
DownInv == TypeInv /\ (~up => \A t \in Thread : pc[t] \in {"new", "done"})

LEMMA DownInvInit == RestartInit => DownInv
  BY StoreInvInit DEF RestartInit, StoreInv, DownInv

LEMMA DownInvStep == DownInv /\ [RestartNext]_restartVars => DownInv'
  <1> SUFFICES ASSUME DownInv, [RestartNext]_restartVars PROVE DownInv'
    OBVIOUS
  <1>1. CASE Boot
    <2>1. TypeInv'
      BY <1>1, BootTypes DEF DownInv, Boot
    <2>2. up'
      BY <1>1 DEF Boot
    <2>3. QED
      BY <2>1, <2>2 DEF DownInv
  <1>2. CASE [Next]_vars
    <2>1. TypeInv'
      BY <1>2, TypeInvStep DEF DownInv
    <2>2. ASSUME NEW t \in Thread, Step(t) PROVE up'
      BY <2>2, StepsWork, StepsKeepUp DEF DownInv
    <2>3. ASSUME NEW t \in Thread, NEW r \in Request, Accept(t, r) PROVE up'
      BY <2>3 DEF Accept
    <2>4. ASSUME Crash \/ UNCHANGED vars, ~up'
          PROVE  \A t \in Thread : pc'[t] \in {"new", "done"}
      BY <2>4 DEF Crash, vars, DownInv
    <2>5. QED
      BY <1>2, <2>1, <2>2, <2>3, <2>4 DEF Next, Quiet, DownInv
  <1>3. QED
    BY <1>1, <1>2 DEF RestartNext, restartVars

LEMMA OnlyBoot ==
    ASSUME DownInv, [RestartNext]_restartVars, ~up, up'
    PROVE  Boot
  <1>1. \A t \in Thread : ~Step(t)
    BY StepsWork DEF DownInv
  <1>2. QED
    BY <1>1 DEF RestartNext, restartVars, Next, Quiet, Crash, Accept, vars

\* For every disk, every set of requests and every number of connections: a
\* restart that finds a consistent disk, the first one or a later one and
\* after any requests, finds every block again, and none has two uses but
\* that the blocks of inodes are free too (main(), fs.cc:1067-1099).
THEOREM ConsistentBootRecoversAlways == RestartSpec => ConsistentBootRecovers
  <1>1. DownInv /\ [RestartNext]_restartVars
          => [~up /\ up' /\ DiskConsistent => Recovered']_restartVars
    <2>1. SUFFICES ASSUME DownInv, [RestartNext]_restartVars, ~up, up', DiskConsistent
                   PROVE  Recovered'
      OBVIOUS
    <2>2. Boot
      BY <2>1, OnlyBoot
    <2>3. QED
      BY <2>1, <2>2, BootIsWhole DEF DownInv
  <1>2. QED
    BY DownInvInit, DownInvStep, <1>1, PTL DEF RestartSpec, ConsistentBootRecovers

\* Until the first restart the disk is consistent at every step.
FirstLifeInv == boots \in Nat /\ (boots = 0 => StoreInv)

LEMMA FirstLifeInvStep == FirstLifeInv /\ [RestartNext]_restartVars => FirstLifeInv'
  <1> SUFFICES ASSUME FirstLifeInv, [RestartNext]_restartVars PROVE FirstLifeInv'
    OBVIOUS
  <1>1. CASE Boot
    BY <1>1 DEF Boot, FirstLifeInv
  <1>2. CASE [Next]_vars /\ boots' = boots
    BY <1>2, StoreInvStep DEF FirstLifeInv
  <1>3. QED
    BY <1>1, <1>2 DEF RestartNext, restartVars

\* Whatever requests came, and whatever steps of theirs the process died at,
\* the first restart finds every block again, and none has two uses but that
\* the blocks of inodes are free too (main(), fs.cc:1067-1099).
THEOREM FirstBootRecoversAlways == RestartSpec => FirstBootRecovers
  <1>1. RestartInit => FirstLifeInv
    BY StoreInvInit DEF RestartInit, FirstLifeInv
  <1>2. FirstLifeInv => (boots = 0 /\ ~up => DiskConsistent)
    BY DEF FirstLifeInv, StoreInv
  <1>3. FirstLifeInv /\ [~up /\ up' /\ DiskConsistent => Recovered']_restartVars
          => [~up /\ up' /\ boots = 0 => Recovered']_restartVars
    BY <1>2
  <1>4. RestartSpec => [][~up /\ up' /\ DiskConsistent => Recovered']_restartVars
    BY ConsistentBootRecoversAlways DEF ConsistentBootRecovers
  <1>5. QED
    BY <1>1, FirstLifeInvStep, <1>3, <1>4, PTL DEF RestartSpec, FirstBootRecovers

-----------------------------------------------------------------------------
(* Any number of restarts, with no create or append after the first.       *)

\* KeepersSpec is RestartSpec under that limit.
LEMMA LimitIsKeepers == RestartSpec /\ [][NothingAllocated]_restartVars => KeepersSpec
  <1>1. [RestartNext]_restartVars /\ [NothingAllocated]_restartVars
          => [KeepersNext]_restartVars
    BY DEF RestartNext, KeepersNext
  <1>2. QED
    BY <1>1, PTL DEF RestartSpec, KeepersSpec

LEMMA KeepersInvAlways == KeepersSpec => []KeepersInv
  BY KeepersInvInit, KeepersInvStep, PTL DEF KeepersSpec

\* The disk is consistent at every step of every process that main() starts
\* on it, if no create or append comes after the first restart: reads and
\* deletes do no harm, and the next crash may fall between any two of their
\* steps.
THEOREM KeepersConsistentAlways ==
    RestartSpec /\ [][NothingAllocated]_restartVars => []DiskConsistent
  BY LimitIsKeepers, KeepersInvAlways, KeepersConsistent, PTL

\* If no create or append comes after the first restart, every restart finds
\* every block again, at whatever steps the process died and however often:
\* none has two uses but that the blocks of inodes are free too.  With
\* creates or appends after the first restart this is false, since they may
\* overwrite the inode of a file (fs.cc:1085-1098).
THEOREM RestartRecovers ==
    RestartSpec /\ [][NothingAllocated]_restartVars => BootRecovers
  <1>1. DiskConsistent /\ [~up /\ up' /\ DiskConsistent => Recovered']_restartVars
          => [~up /\ up' => Recovered']_restartVars
    OBVIOUS
  <1>2. RestartSpec => [][~up /\ up' /\ DiskConsistent => Recovered']_restartVars
    BY ConsistentBootRecoversAlways DEF ConsistentBootRecovers
  <1>3. QED
    BY <1>1, <1>2, KeepersConsistentAlways, PTL DEF BootRecovers

-----------------------------------------------------------------------------
(* After a restart requests are served as the store promises.              *)

LEMMA KeepersServe == KeepersInv /\ up => ServingInv
  BY StoreServes DEF KeepersInv, StoreInv, KeepersRunning, TablesOwned, ServingInv

LEMMA KeepersKnow ==
    ASSUME ServingInv, NEW t \in Thread, Step(t), pc[t] \in KeepLabel,
           NEW u \in Thread, KnowsOK(u)
    PROVE  KnowsOK(u)'
  <1>1. TypeInv /\ ~AppendWrite(t) /\ (ReadStep(t) \/ DeleteStep(t) \/ EndRequest(t))
    BY KeepersOps DEF ServingInv
  <1>2. CASE u # t
    BY <1>1, <1>2, ApartKnow
  <1>3. CASE u = t /\ (ReadStep(t) \/ DeleteStep(t))
    BY <1>3, ReadKnows, DeleteKnows
  <1>4. CASE u = t /\ EndRequest(t)
    <2>1. pc'[t] = "done"
      BY <1>1, <1>4 DEF EndRequest, TypeInv, TypeOK
    <2>2. QED
      BY <1>4, <2>1, NothingKnown DEF CopyLabel
  <1>5. QED
    BY <1>1, <1>2, <1>3, <1>4

LEMMA KeepersDataStep == KeepersInv /\ DataInv /\ [KeepersNext]_restartVars => DataInv'
  <1> SUFFICES ASSUME KeepersInv, DataInv, [KeepersNext]_restartVars PROVE DataInv'
    OBVIOUS
  <1>1. TypeInv /\ (\A t \in Thread : OpOK(t)) /\ (up => \A t \in Thread : KnowsOK(t))
    BY DEF KeepersInv, DataInv
  <1>2. CASE Boot
    <2>1. /\ pc' = pc /\ req' = req /\ outcome' = outcome
          /\ \A t \in Thread : pc'[t] \in {"new", "done"}
      BY <1>2 DEF Boot, KeepersInv
    <2>2. \A t \in Thread : OpOK(t)'
      BY <1>1, <2>1 DEF OpOK
    <2>3. \A t \in Thread : KnowsOK(t)'
      BY <2>1, NothingKnown DEF CopyLabel
    <2>4. QED
      BY <2>2, <2>3 DEF DataInv
  <1>3. CASE [Next]_vars /\ boots = 0
    <2>1. StoreInv
      BY <1>3 DEF KeepersInv, StoreInv
    <2>2. QED
      BY <1>3, <2>1, DataInvStep
  <1>4. CASE [Next]_vars /\ boots # 0
    <2>1. \A t \in Thread : OpOK(t)'
      BY <1>1, <1>4, OpStep
    <2>2. ASSUME NEW t \in Thread, Step(t) PROVE \A u \in Thread : KnowsOK(u)'
      <3>1. up
        BY <2>2, StepsWork DEF KeepersInv
      <3>2. ServingInv /\ pc[t] \in KeepLabel
        BY <1>4, <3>1, KeepersServe DEF KeepersInv, KeepersRunning
      <3>3. QED
        BY <1>1, <2>2, <3>1, <3>2, KeepersKnow
    <2>3. ASSUME NEW t \in Thread, NEW r \in Request, Accept(t, r)
          PROVE  \A u \in Thread : KnowsOK(u)'
      BY <1>1, <2>3, AcceptKnows DEF Accept
    <2>4. ASSUME UNCHANGED vars, up PROVE \A u \in Thread : KnowsOK(u)'
      BY <1>1, <2>4, QuietOthers DEF vars
    <2>5. up' => \A u \in Thread : KnowsOK(u)'
      BY <1>4, <2>2, <2>3, <2>4 DEF Next, Quiet, Crash, vars
    <2>6. QED
      BY <2>1, <2>5 DEF DataInv
  <1>5. QED
    BY <1>2, <1>3, <1>4 DEF KeepersNext, restartVars

\* A boot is hidden from the store: no file changes, and no request is open.
LEMMA KeepersMaps ==
    KeepersInv /\ DataInv /\ KeepersInv' /\ [KeepersNext]_restartVars
      => [Store!StoreNext]_(Store!storeVars)
  <1> SUFFICES ASSUME KeepersInv, DataInv, KeepersInv', [KeepersNext]_restartVars
               PROVE  [Store!StoreNext]_(Store!storeVars)
    OBVIOUS
  <1>1. TypeInv /\ (\A t \in Thread : OpOK(t)) /\ (up => \A t \in Thread : KnowsOK(t))
    BY DEF KeepersInv, DataInv
  <1>2. CASE Boot
    BY <1>2, HiddenFromStore DEF Boot
  <1>3. CASE [Next]_vars /\ boots' = boots /\ boots = 0
    <2>1. StoreInv /\ StoreInv'
      BY <1>3 DEF KeepersInv, StoreInv
    <2>2. QED
      BY <1>3, <2>1, NextMaps
  <1>4. CASE [Next]_vars /\ boots' = boots /\ boots # 0
    <2>1. ASSUME NEW t \in Thread, Step(t) PROVE [Store!StoreNext]_(Store!storeVars)
      <3>1. up /\ up'
        BY <2>1, StepsWork, StepsKeepUp DEF KeepersInv
      <3>2. ServingInv /\ ServingInv'
        BY <3>1, KeepersServe, PTL
      <3>3. pc[t] \in KeepLabel /\ OpOK(t) /\ KnowsOK(t)
        BY <1>1, <1>4, <3>1 DEF KeepersInv, KeepersRunning
      <3>4. CASE ReadStep(t)
        BY <3>2, <3>3, <3>4, ReadStepMaps DEF Store!StoreNext
      <3>5. CASE DeleteStep(t)
        BY <3>2, <3>3, <3>5, DeleteStepMaps DEF Store!StoreNext
      <3>6. CASE EndRequest(t)
        BY <1>1, <3>6, EndRequestMaps DEF Store!StoreNext
      <3>7. QED
        BY <2>1, <3>3, <3>4, <3>5, <3>6, KeepersOps
    <2>2. ASSUME NEW t \in Thread, NEW r \in Request, Accept(t, r)
          PROVE  [Store!StoreNext]_(Store!storeVars)
      BY <1>1, <2>2, AcceptMaps DEF Store!StoreNext
    <2>3. CASE Crash
      BY <1>1, <2>3, CrashMaps DEF Store!StoreNext
    <2>4. CASE UNCHANGED vars
      BY <2>4, HiddenFromStore DEF vars
    <2>5. QED
      BY <1>4, <2>1, <2>2, <2>3, <2>4 DEF Next, Quiet
  <1>5. QED
    BY <1>2, <1>3, <1>4 DEF KeepersNext, restartVars

\* The files outlive the process, if no create or append comes after the
\* first restart: what was acknowledged before a crash, at whatever step, is
\* what reads and deletes find after main() has booted from the disk, and a
\* request the crash cut off either took effect whole or not at all
\* (fs.cc:1067-1099).
THEOREM RestartImplementsStore ==
    RestartSpec /\ [][NothingAllocated]_restartVars => ImplementsStore
  <1>1. RestartInit => KeepersInv /\ DataInv /\ Store!StoreInit
    BY KeepersInvInit, DataInvInit, InitMaps DEF RestartInit
  <1>2. KeepersSpec => Store!StoreSpec
    BY <1>1, KeepersInvStep, KeepersDataStep, KeepersMaps, PTL
       DEF KeepersSpec, Store!StoreSpec
  <1>3. QED
    BY <1>2, LimitIsKeepers, PTL DEF ImplementsStore
=============================================================================
