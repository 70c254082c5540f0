-------------------------- MODULE FileServerStore ---------------------------
(***************************************************************************)
(* FileServer implements FileStore: the refinement mapping.                *)
(*                                                                         *)
(* The files are what the disk says, at every step: a create takes effect  *)
(* with the write of its entry's table or of block 0, a delete with the    *)
(* write that drops the entry or its table, an append with the write of    *)
(* the inode, a read with the last block it reads.                         *)
(***************************************************************************)
EXTENDS FileServerProperties

FileBytes(s) ==
    [i \in 1 .. FileInode(s).size |->
        LET block == FileInode(s).blocks[(i - 1) \div BlockSize + 1]
        IN  AsBytes(disk[block])[((i - 1) % BlockSize) + 1]]

FileNamed(n) == CHOOSE s \in FileSlots : FileEntry(s).name = n

FilesOnDisk ==
    [n \in {FileEntry(s).name : s \in FileSlots} |->
        [owner |-> FileInode(FileNamed(n)).owner,
         data |-> FileBytes(FileNamed(n))]]

\* The steps after the one at which a request takes effect.
TookEffect ==
    {"read_unlock", "append_unlock", "create_unlock", "delete_free",
     "delete_unlock"}

PhaseOf(t) ==
    CASE pc[t] = "new" -> "idle"
      [] pc[t] = "done" -> "gone"
      [] pc[t] = "reply" -> outcome[t]
      [] pc[t] \in TookEffect -> "ok"
      [] OTHER -> "pending"

\* A handler that fails does not answer: only a read that is ok has bytes.
AnswerOf(t) ==
    IF req[t].op = "read" /\ PhaseOf(t) = "ok" THEN loc[t].result ELSE << >>

Store == INSTANCE FileStore WITH
    files <- FilesOnDisk,
    ask <- [t \in Thread |->
              IF req[t] = NoRequest THEN [op |-> "none"] ELSE req[t]],
    phase <- [t \in Thread |-> PhaseOf(t)],
    answer <- [t \in Thread |-> AnswerOf(t)]

\* Every behaviour of the handlers, with its crashes, is one of the store:
\* requests of concurrent connections are linearizable and atomic, reads
\* return the appended bytes in order and never a torn append.
ImplementsStore == Store!StoreSpec
=============================================================================
