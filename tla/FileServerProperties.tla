------------------------ MODULE FileServerProperties ------------------------
(***************************************************************************)
(* What the handlers of FileServer keep true of the disk, the free list    *)
(* and the locks, whatever the interleaving of the connections.            *)
(***************************************************************************)
EXTENDS FileServer

(* The file system as the disk alone describes it.                         *)

Directory == AsDirectory(disk[0])
DiskTable(i) == AsTable(disk[Directory[i]])
FileSlots ==
    {s \in (1 .. Len(Directory)) \X (1 .. DirEntries) :
        DiskTable(s[1])[s[2]].inode_block > 0}
FileEntry(s) == DiskTable(s[1])[s[2]]
FileInode(s) == AsInode(disk[FileEntry(s).inode_block])

\* A number for a slot, so that claims compare.
SlotNumber(s) == s[1] * DirEntries + s[2]

\* The blocks in use by the files, each with what uses it.
FileClaims ==
    UNION {{<< "inode", SlotNumber(s), 0, FileEntry(s).inode_block >>}
             \cup {<< "data", SlotNumber(s), i, FileInode(s).blocks[i] >> :
                     i \in 1 .. Len(FileInode(s).blocks)} : s \in FileSlots}

TableClaims(is) == {<< "table", 0, i, Directory[i] >> : i \in is}

\* No block is used twice, and block 0 only by the directory.
Separate(claims) ==
    \A c \in claims : /\ c[4] # 0
                      /\ \A d \in claims : c[4] = d[4] => c = d

-----------------------------------------------------------------------------
(* Blocks in the memory of the server.                                     *)

\* The table that a delete has put on the free list and not yet dropped.
Dropping == {loc[t].slot[1] : t \in {u \in Thread : At(u, "delete_dir_inode")}}

\* The blocks a handler holds and no structure on disk refers to.
HeldBlocks(t) ==
    LET l == loc[t] IN
    CASE pc[t] \in {"create_lock", "create_scan", "create_inode",
                    "create_entry", "create_extend"} -> << l.free_b_1 >>
      [] pc[t] \in {"create_new_inode", "create_new_table",
                    "create_dir_inode"} -> << l.free_b_1, l.free_b_2 >>
      [] pc[t] \in {"append_partial", "append_data", "append_commit"} ->
           l.tmp \o SubSeq(l.inode.blocks, CeilDiv(l.inode.size) + 1,
                           Len(l.inode.blocks))
      [] pc[t] = "delete_free" -> l.inode.blocks \o << l.inode_block >>
      [] OTHER -> << >>

HeldClaims ==
    UNION {{<< "held", t, i, HeldBlocks(t)[i] >> :
              i \in 1 .. Len(HeldBlocks(t))} : t \in Thread}

FreeClaims == {<< "free", 0, i, free_block[i] >> : i \in 1 .. Len(free_block)}

Claims ==
    FreeClaims \cup FileClaims \cup HeldClaims
      \cup TableClaims(1 .. Len(Directory) \ Dropping)

Claimed == {c[4] : c \in Claims}

-----------------------------------------------------------------------------
(* Safety                                                                  *)

\* A block has one owner: an entry of the free list, the directory, one
\* file, or one handler that took it.  free_block is popped and pushed by
\* handlers that hold different locks (fs.cc:599, 754, 819, 941, 977), and
\* a delete frees a table before block 0 drops it (fs.cc:942, 949).
BlocksOwnedOnce == up => Separate(Claims)

\* A crash at any step leaves a disk that main() can boot from: tables that
\* hold an entry, entries with different names whose blocks hold inodes with
\* an owner and as many data blocks as their size needs, no block used
\* twice.  The handlers order their writes for this and have no journal.
DiskConsistent ==
    /\ disk[0].kind = "directory"
    /\ \A i \in 1 .. Len(Directory) :
         /\ disk[Directory[i]].kind = "table"
         /\ UsedEntries(DiskTable(i)) # {}
    /\ \A r, s \in FileSlots : FileEntry(r).name = FileEntry(s).name => r = s
    /\ \A s \in FileSlots :
         /\ disk[FileEntry(s).inode_block].kind = "inode"
         /\ FileInode(s).owner \in User
         /\ Len(FileInode(s).blocks) = CeilDiv(FileInode(s).size)
         /\ \A i \in 1 .. Len(FileInode(s).blocks) :
              disk[FileInode(s).blocks[i]].kind = "data"
    /\ Separate(FileClaims \cup TableClaims(1 .. Len(Directory)))

\* Threads that use the directory under each mode of the_lock, and the file
\* they locked under each mode of its lock.
ReadingDirLabel ==
    (ReadLabel \ {"read_lock"}) \cup (AppendLabel \ {"append_room", "append_lock"})
WritingDirLabel ==
    (CreateLabel \ {"create_reserve", "create_lock"}) \cup (DeleteLabel \ {"delete_lock"})
ReadingFileLabel == {"read_inode", "read_block", "read_unlock"}
WritingFileLabel ==
    {"append_inode", "append_alloc", "append_partial", "append_data",
     "append_commit", "append_unlock"}

ReadingDir == {t \in Thread : pc[t] \in ReadingDirLabel}
WritingDir == {t \in Thread : pc[t] \in WritingDirLabel}
ReadingFile(n) == {t \in Thread : req[t].name = n /\ pc[t] \in ReadingFileLabel}
WritingFile(n) == {t \in Thread : req[t].name = n /\ pc[t] \in WritingFileLabel}

\* A create or delete has the directory to itself, and an append its file.
Exclusion ==
    /\ \A t \in WritingDir : ReadingDir = {} /\ WritingDir = {t}
    /\ \A n \in Name : \A t \in WritingFile(n) :
         ReadingFile(n) = {} /\ WritingFile(n) = {t}

\* A step loses no block, but for a create whose name exists: it forgets the
\* block it reserved for an inode (fs.cc:760, 798-802).
OnlyExistingNameLeaks ==
    [][up' => \A b \in Claimed \ Claimed' :
                \E t \in Thread : /\ At(t, "create_scan")
                                  /\ outcome'[t] = "exists"
                                  /\ b = loc[t].free_b_1]_vars

\* A create is refused for want of a block only when "the directory or disk
\* is out of space" (fs_client.h:82): files and handlers use every block.
NoSpaceMeansDiskFull ==
    \A t \in Thread :
        At(t, "reply") /\ outcome[t] = "no_inode_space" => Block \ {0} \subseteq Claimed

-----------------------------------------------------------------------------
(* Liveness                                                                *)

\* Every accepted request is answered or its connection closed: no handler
\* waits for a lock for ever.
RequestsEnd == \A t \in Thread : pc[t] # "new" ~> At(t, "done")
=============================================================================
