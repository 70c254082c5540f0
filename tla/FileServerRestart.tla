------------------------- MODULE FileServerRestart --------------------------
(***************************************************************************)
(* main() on the disk that an earlier process left: it reads the           *)
(* directory's inode from block 0 and rebuilds the free list from the      *)
(* files it finds, before any thread starts.                               *)
(***************************************************************************)
EXTENDS FileServerStore

CONSTANT MaxBoots   \* bound on the restarts of a run

ASSUME BootAssumption == MaxBoots \in Nat

VARIABLE boots      \* the restarts so far

restartVars == << vars, boots >>

\* (Mutant of BootUses: only the tables are taken off the free list.)
BootUsesTables == {Directory[i] : i \in 1 .. Len(Directory)}

\* The blocks main() takes off the free list: the tables of the directory
\* and the data of the files in them.
BootUses ==
    {Directory[i] : i \in 1 .. Len(Directory)}
      \cup UNION {{FileInode(s).blocks[i] : i \in 1 .. CeilDiv(FileInode(s).size)} :
                    s \in FileSlots}

\* The blocks left to the free list, in their order.
BootFree ==
    LET free[b \in Block] ==
          IF b = 0 THEN << >>
          ELSE IF b \in BootUses THEN free[b - 1]
          ELSE Append(free[b - 1], b)
    IN  free[DiskSize - 1]

\* (Mutant of Boot: block 0 is not read.)
BootEmpty ==
    /\ ~up /\ boots < MaxBoots
    /\ up' = TRUE
    /\ boots' = boots + 1
    /\ free_block' = BootFree
    /\ UNCHANGED << disk, dir_inode, locks, pc, req, loc, outcome >>

Boot ==
    /\ ~up /\ boots < MaxBoots
    /\ up' = TRUE
    /\ boots' = boots + 1
    /\ dir_inode' = Directory
    /\ free_block' = BootFree
    /\ UNCHANGED << disk, locks, pc, req, loc, outcome >>

RestartInit == Init /\ boots = 0

RestartNext ==
    \/ Next /\ UNCHANGED boots
    \/ Boot

RestartSpec == RestartInit /\ [][RestartNext]_restartVars

\* The limit under which restarts after the first one are studied: once
\* main() has booted from a disk, clients read and delete only.  It puts the
\* blocks of inodes on the free list, so a create or an append may then
\* overwrite one, and the disk is not consistent any more (EntriesNameInodes).
NothingAllocated ==
    boots > 0 => \A t \in Thread :
        pc[t] = "new" /\ pc'[t] # "new" => req'[t].op \in {"read", "delete"}

KeepersNext ==
    \/ Next /\ NothingAllocated /\ UNCHANGED boots
    \/ Boot

KeepersSpec == RestartInit /\ [][KeepersNext]_restartVars

\* main() has found every block again, the ones the process had lost or taken
\* for an unfinished request too, and no data block or table has two uses:
\* the free list shares with the files nothing but the blocks of their inodes
\* (fs.cc:1067-1099).
Recovered ==
    /\ Block \ {0} \subseteq Claimed
    /\ \A c, d \in Claims : c[4] = d[4] /\ c # d => {c[1], d[1]} = {"free", "inode"}

\* Every restart recovers, under the limit NothingAllocated.  Without it the
\* second one may not: a file whose inode was overwritten stays as it is.
BootRecovers == [][~up /\ up' => Recovered']_restartVars

\* The first restart recovers, whatever requests came before it and whatever
\* step the process died at: no limit is needed for that.
FirstBootRecovers == [][~up /\ up' /\ boots = 0 => Recovered']_restartVars

\* Any restart recovers that finds a consistent disk, without the limit too.
ConsistentBootRecovers ==
    [][~up /\ up' /\ DiskConsistent => Recovered']_restartVars

\* The inode_block of an entry is the "disk block that stores the inode for
\* this file" (fs_server.h:27): no other file and no data is stored there.
EntriesNameInodes ==
    \A s \in FileSlots :
        /\ disk[FileEntry(s).inode_block].kind = "inode"
        /\ \A r \in FileSlots :
             FileEntry(r).inode_block = FileEntry(s).inode_block => r = s
=============================================================================
