----------------------------- MODULE DiskLayout -----------------------------
(***************************************************************************)
(* What the blocks of the disk hold (fs_server.h, fs_param.h) and the      *)
(* computations on them that the handlers of fs.cc share.                  *)
(*                                                                         *)
(* A block keeps what was last written to it, tagged with the structure    *)
(* that was written: block 0 the inode of the directory, other blocks a    *)
(* table of directory entries, the inode of a file, or file data.  The     *)
(* code reads a block as the structure it expects: the As* operators give  *)
(* what it then sees, an arbitrary fixed value when the block was last     *)
(* written as something else.                                              *)
(*                                                                         *)
(* The entries of fs_inode.blocks past the size are never read, so the     *)
(* array is the sequence of the entries below it.  The size of the         *)
(* directory is FS_BLOCKSIZE times the length of its sequence at every     *)
(* step of the code, so it is not kept.                                    *)
(***************************************************************************)
EXTENDS Integers, Sequences, FiniteSets

CONSTANTS
    User,           \* user names of the password list
    Name,           \* file names clients use
    Byte,           \* byte values clients append
    NoUser,         \* owner field of an inode that was never written
    NoName,         \* name field of a directory entry that was never written
    NoByte,         \* a byte of a data block that no append wrote
    DiskSize,       \* FS_DISKSIZE
    BlockSize,      \* FS_BLOCKSIZE
    DirEntries,     \* FS_DIRENTRIES
    MaxFileBlocks   \* FS_MAXFILEBLOCKS

ASSUME LayoutAssumption ==
    /\ DiskSize \in Nat \ {0}
    /\ BlockSize \in Nat \ {0}
    /\ DirEntries \in Nat \ {0}
    /\ MaxFileBlocks \in Nat \ {0}

Block == 0 .. DiskSize - 1

\* fs_direntry: an entry is in use iff its inode_block is not 0.
Entry == [name : Name \cup {NoName}, inode_block : Block]
Table == [1 .. DirEntries -> Entry]

\* fs_inode of a file.
Inode == [kind : {"inode"}, owner : User \cup {NoUser},
          size : Nat, blocks : Seq(Block)]

Bytes == [1 .. BlockSize -> Byte \cup {NoByte}]

Content ==
    [kind : {"directory"}, blocks : Seq(Block)]
      \cup [kind : {"table"}, entry : Table]
      \cup Inode
      \cup [kind : {"data"}, bytes : Bytes]

-----------------------------------------------------------------------------
(* Fresh structures and the views of a block.                              *)

UnusedEntry == [name |-> NoName, inode_block |-> 0]
EmptyTable == [j \in 1 .. DirEntries |-> UnusedEntry]
EmptyInode(u) == [kind |-> "inode", owner |-> u, size |-> 0, blocks |-> << >>]
EmptyBytes == [i \in 1 .. BlockSize |-> NoByte]

DirectoryBlock(bs) == [kind |-> "directory", blocks |-> bs]
TableBlock(tab) == [kind |-> "table", entry |-> tab]
DataBlock(bytes) == [kind |-> "data", bytes |-> bytes]

AsDirectory(c) == IF c.kind = "directory" THEN c.blocks ELSE << >>
AsTable(c) == IF c.kind = "table" THEN c.entry ELSE EmptyTable
AsInode(c) == IF c.kind = "inode" THEN c ELSE EmptyInode(NoUser)
AsBytes(c) == IF c.kind = "data" THEN c.bytes ELSE EmptyBytes

-----------------------------------------------------------------------------
(* Sizes, and the bytes of a block.                                        *)

\* (unsigned int)ceil((double)n / FS_BLOCKSIZE)
CeilDiv(n) == (n + BlockSize - 1) \div BlockSize

MaxFileSize == MaxFileBlocks * BlockSize

\* memcpy of d over old from offset on, up to the end of the block.
Overlay(old, offset, d) ==
    [i \in 1 .. BlockSize |->
        IF offset < i /\ i <= offset + Len(d) THEN d[i - offset] ELSE old[i]]

\* What is left of d once a block was filled from offset on.
Rest(offset, d) == SubSeq(d, BlockSize - offset + 1, Len(d))

\* The bytes from offset on, at most n and none past the end of the block.
Slice(bytes, offset, n) ==
    [i \in 1 .. (IF n <= BlockSize - offset THEN n ELSE BlockSize - offset)
        |-> bytes[offset + i]]

\* A table with the entry at j replaced, and one with it marked unused.
WithEntry(tab, j, n, b) ==
    [tab EXCEPT ![j] = [name |-> n, inode_block |-> b]]
WithoutEntry(tab, j) == [tab EXCEPT ![j].inode_block = 0]

UsedEntries(tab) == {j \in 1 .. DirEntries : tab[j].inode_block > 0}

\* s without its element at i.
DropAt(s, i) == SubSeq(s, 1, i - 1) \o SubSeq(s, i + 1, Len(s))
=============================================================================
