# A verification of the network file server

The repository is a multi-threaded file server: `fs.cc` serves five requests
(session, read, append, create, delete) over TCP to the client library behind
`fs_client.h`, and keeps a directory of files on a raw disk of 512-byte blocks.
There is one source file that matters, `src/Network_File_Server/fs.cc`, and
everything hard about it is between its lines: threads share a free list, a
directory and files under four kinds of locks, and every block write is a point
at which the process may die, with no journal and no recovery but the rebuild of
the free list.

This directory holds TLA+ modules of that program, TLC configurations, and
proofs checked by TLAPS. Line numbers below are those of `fs.cc` unless another
file is named.

## 1. Inventory

| Component | State | Operations | What makes it correct |
|---|---|---|---|
| Handlers of `run_request` (365-996) | locals of each thread | `FS_READ`, `FS_APPEND`, `FS_CREATE`, `FS_DELETE` | linearizable, all-or-nothing requests; a refusal is true and has no effect |
| Disk (`fs_server.h`) | blocks: directory inode in 0, tables of entries, inodes, data | `disk_readblock`, `disk_writeblock` (atomic per block) | consistent after every single write |
| Directory in memory | `dir_inode` | extended by create (848-850), shrunk by delete (944-949) | equals block 0 when nobody holds the directory lock for writing; never longer than its array |
| Free list | `free_block`, a stack, under `free_block_lock` | check (561-567), take (599-625, 754-763, 819-829), give back (824, 941-943, 977-982) | a block has one owner; no block is lost |
| Directory lock | `the_lock` | read by read and append, write by create and delete | released on every path; creates and deletes alone |
| File locks | `filename_rwlock_map`, `filename_count`, under `the_mutex` | `filelock_start`, `filelock_end` (160-187) | an append alone with its file; a lock lives while somebody counts on it |
| Sessions | `session_user_map`, `session_sequence_map`, `smallest_session`, `session_free`, under `error_check_lock` | `FS_SESSION` (323-363), the check of each handler (374-394) | numbers unique up to the wrap; sequence numbers only grow |
| Messages | none | header (215-228), decryption, `get_message_vector`, `if_unsigned`, `string_to_unsigned` (79-148) | accepts exactly the documented syntax; 32-bit numbers |
| Accept loop | sockets | `server()` (1040-1046): a detached thread per connection; `endRequest` | every accepted connection is closed |
| Boot | reads the disk | `main()` (1067-1099) | the files of before are served, every other block is free |
| Libraries | binary | encryption, client protocol, disk | external |

How they interact. `server()` starts a thread for each connection. The thread
parses one message, checks its session, runs one handler and ends. Handlers meet
only in the shared variables above. The order of locks is: `the_lock`, a file's
lock, `free_block_lock`; a create, however, takes and releases `free_block_lock`
once before `the_lock`, so blocks are in flight outside the directory lock.
`disk_readblock` and `disk_writeblock` are thread safe (`fs_server.h:62-63`) and
are the only durable effects.

What is hard: the interleavings of the free list's critical sections with the
directory's; the order of writes under a crash at any step; the early returns,
each of which must undo what its handler did; the arithmetic of partial blocks;
the boundaries (last free block, full directory, largest file); and that nobody
waits for ever. `PROJECT.json` lists these hazards line by line, with the property
that covers each or the reason none does yet.

## 2. Modules

| Module | Models |
|---|---|
| `DiskLayout` | what blocks hold, the structures of `fs_server.h`, and the pure computations on them |
| `FileServer` | the four handlers, the locks as holders, the free list, crashes; `Spec`, `FairSpec` |
| `FileServerProperties` | claims on blocks, safety and liveness properties |
| `FileStore` | abstract: the store `fs_client.h` promises, each request atomic |
| `FileServerStore` | the refinement mapping, `ImplementsStore` |
| `FileServerRestart` | `main()` after a crash, restarts |
| `RWLocks` | abstract: one read-write lock per file name, each call atomic |
| `FileLock` | `filelock_start`, `filelock_end`: the map of locks, its counts, `the_mutex`; `ImplementsLocks` |
| `Sessions` | `FS_SESSION` and the check of session and sequence number, restarts |
| `Server` | `Sessions` in front of `FileStore`: the server as clients see it |
| `Messages` | one connection from its first byte to its handler: header, decryption, words, numbers, arguments |
| `MCFileServer`, `MCFileServerRestart`, `MCServer`, `MCMessages` | requests, messages and symmetry for TLC |
| `FileServerInvariants` | lemmas on block arithmetic and the helpers; `ExclusionAlways`, `TypeCorrect`, `TooBigExact`; then the inductive invariant `StoreInv` (who owns each block, what each handler knows), and how a step may change it |
| `FileServerStoreProofs` | every step keeps `StoreInv` (`BlocksOwnedAlways`, `DiskConsistentAlways`) and the blocks in use (`OnlyExistingNameLeaksAlways`) |
| `FileServerRefinement` | what handlers know of data (`DataInv`), and each step as one of `FileStore`: `ServerImplementsStore` |
| `FileServerRestartProofs` | what a boot makes of a disk: `ConsistentBootRecoversAlways`, `FirstBootRecoversAlways`; and, under a limit on the requests after it, `KeepersConsistentAlways`, `RestartRecovers`, `RestartImplementsStore` |
| `FileLockProofs` | `LockTypesCorrect`, `LocksLiveAlways`, `LookupStaysValidAlways`, `FileLockImplementsLocks` |
| `ServerProofs` | `NumbersGivenOnceAlways`, `AdmittedUnderOwnSessionAlways`, `AdmittedOnceAlways`, `AdmittedInOrderAlways`, `AppendedOncePerLifeAlways` |
| `Induction` | induction on the naturals over a set, and that recursive functions exist |
| `MessageProofs` | `DispatchedAsSentAlways`, `ProperIsDispatchedAlways`, `ArgumentsFitAlways`, `HeaderWasReceivedAlways`, `IfUnsignedExact` |

How they fit together. A connection passes through three layers, each modelled on
its own with the next one behind an abstraction:

```
bytes -> Messages -> Sessions -> FileServer -> disk
                        |            |  implements FileStore
                     Server = Sessions + FileStore
                                     |  file_lock[name]
                                  RWLocks, implemented by FileLock
```

`Messages` ends where the session check begins, and lets the check close the
connection. `Server` composes `Sessions` with the store that `FileServer` was shown
to implement, so that a session property may speak of the files. `FileServer`
has `file_lock[name]` as an object that is always there; `FileLock` shows that the
map of locks that come and go behaves like one.

### How `FileServer` corresponds to the code

* `disk`, `dir_inode`, `free_block` are the variables of that name. A block
  carries the kind of structure last written to it; code that reads it as another
  structure sees a fixed arbitrary value (`AsTable`, `AsInode`, `AsBytes`), which
  is what makes a confusion of blocks visible. The array `blocks[]` of an inode is
  the sequence of its entries below the size; entries beyond are never read.
  The size of the directory is always `FS_BLOCKSIZE` times the length, so only the
  length is kept.
* `the_lock` and `file_lock[name]` are sets of holders with their modes. Taking is
  guarded by `CanRead`/`CanWrite`; a release removes the holder. A lock that its
  holder forgets stays held, as with pthreads.
* `pc[t]` is the next step of thread `t`. A step is one access to shared state:
  a lock operation, one critical section of `free_block_lock` (a mutex held for
  no other access, so a critical section is one step), one block read or write.
  Private computation belongs to the step before it. The scan of the directory is
  one step: `the_lock` is held throughout, and `ExclusionAlways` says that nobody
  changes the directory meanwhile. A `filelock_end` followed at once by the
  release of `the_lock` is one step, as is a search that fails followed by the
  release. Three steps have more than one block access, each under a lock in write
  mode that keeps every other handler off those blocks: `AppendPartial` reads the last block of a
  file and writes it back (the file's lock), `CreateScan` and `DeleteFind` scan the tables,
  and `DeleteFind` reads the inode too (`the_lock`). Only the last access of each
  may write, so a crash inside the step is one before it.
* `loc[t]` holds the handler's variables under the code's names (`free_b_1`,
  `free_b_2`, `tmp` for `tmp_free_block`, `inode` for `file_inode`, `data`,
  `result`, `table` for `the_buf` or `buf`).
* `outcome[t]` says which `return` was taken. All failures look the same to a
  client (the connection is closed without an answer); the model tells them apart
  so that each refusal can be shown justified.
* `Crash` may happen at any step. Besides power and `kill`, it stands for the
  `SIGPIPE` that `send` raises when a client has gone (359, 514, 711, 862, 993): the
  program does not ignore it.
* Bytes that nobody wrote (the rest of `databuf` at 629, uninitialized) are `NoByte`.
  Reads end at the size of the file, so none may appear in an answer:
  `ImplementsStore` would fail, since the store has no such byte.

Requests are those whose session and sequence were accepted. A name the check of
399 refuses is a member of `BadName`.

### How `FileLock` corresponds to the code

* `filename_rwlock_map[n]` is the address of the lock, or `NoLock` when the map has
  no entry; `initialized` is the set of addresses between `rwlock_init` (165) and
  `rwlock_destroy` (181); a freed address may be given again by `new`.
* `StartMutex`, `Enter` are 161-168; `BeginLookup`, `EndLookup` the read of the map at
  170 or 172, outside the mutex, in two steps; `TakeLock` the lock itself.
  `EndMutex`, `Leave`, `Drop` are 176-186. The count and the unlock (178-179) are one
  step, because both are inside the mutex and a thread that sees the lock free
  is already past the mutex.
* The lookup may overlap an insertion or an erasure. That is undefined behaviour; the
  outcomes kept are that it finds the entry all the same, or misses it
  (`MissLookup`), in which case `operator[]` inserts a null pointer and locking it ends
  the process. `raced` is the set of lookups that overlap a change.

### How `Sessions` and `Server` correspond to the code

* The two maps, `smallest_session` and `session_free` are the code's. The maps are
  functions whose domain grows. `Unsigned` wraps at `SessionCount`, 2^32 in the code.
* The whole critical section of `error_check_lock` is one step, in `FS_SESSION` (336-347)
  and in the check of each request (374-394). `Admit` records the sequence number
  before the handler looks at the request, as the code does.
* A connection carries one message, so a client that retries uses another connection:
  the same message may be served on several, in any order. `served[c]` remembers what
  became of it, for the properties.
* A restart loses the maps (`Restart`), and the requests in flight (`StoreCrash`).
  `life` numbers the lives of the process.

### How `Messages` corresponds to the code

* A string is a sequence of characters, `Value` is `c - '0'`, an unsigned int has
  `Word` values and `Limit` is the literal "4294967296" of line 135. The name of an
  operation is one character, since the code only compares it.
* `RecvHeader` is one turn of the loop 215-228, with the order of the code: the byte in
  `buf_header` is looked at before the result of `recv`, so a failed `recv` meets the byte
  of before, or an uninitialized one.
* `Splits` and `WordsOf` are the two halves of `get_message_vector` (79-113); `IfUnsigned` and
  `StringToUnsigned` have their names from the code. `WordsOf`, which is where the code's loops
  end, goes through the text once: a space begins a new word (`Cut`). `Pos` keeps `find`'s `npos` in an
  unsigned int, as 290 does, so `pos + 1` wraps to 0.
* Decryption gives what the client encrypted, or fails (`Decrypt`).

## 3. Properties and runs

| Run | Question | Properties | Distinct states |
|---|---|---|---|
| `interleave` | any three of four concurrent requests | `BlocksOwnedOnce`, `Exclusion`, `OnlyExistingNameLeaks` | 232 821 |
| `crash` | the same, and a crash at any step | `DiskConsistent`, `ImplementsStore` | 234 057 |
| `limits` | a disk, directory and files that fill up | `TypeOK`, `BlocksOwnedOnce`, `ImplementsStore` | 83 210 |
| `progress` | does every request end, given space? | `RequestsEnd` | 121 600 |
| `restart` | a boot after a crash at any step, then reads and deletes | `ImplementsStore`, `BootRecovers` | 68 776 |
| `file_lock` | do the locks of the map behave as one lock per name? | `TypeOK`, `LocksLiveWhileCounted`, `LookupStaysValid`, `ImplementsLocks`, `CallsEnd` | 151 832 |
| `server` | who is admitted, when messages are resent, reordered and forged, and the server restarts? | `NumbersGivenOnce`, `AdmittedUnderOwnSession`, `AdmittedOnce`, `AdmittedInOrder`, `AppendedOncePerLife` | 106 717 |
| `messages` | which messages reach a handler, and as what? | `HeaderWasReceived`, `DispatchedAsSent`, `ProperIsDispatched`, `ArgumentsFit` | 212 457 |
| `extend_keeps_lock` | the same as `progress`, on a small disk | `RequestsEnd` violated | |
| `existing_name_leaks` | is a create refused only when the disk is full? | `NoSpaceMeansDiskFull` violated | |
| `restart_reuses_inodes` | does an entry keep its inode after a restart? | `EntriesNameInodes` violated | |
| `lookup_races` | is a lookup alone with the map? | `LookupAlone` violated | |

What the properties say.

* `BlocksOwnedOnce`: at every step a block is on the free list once, or in the
  directory, or used by one file, or held by one handler. It relates the free
  list, the disk and every handler's locals, and would fail for any double pop,
  double push or early free that another thread can see.
* `OnlyExistingNameLeaks`: no step loses a block, but for the one path that does.
* `Exclusion`: who may be inside the directory or a file together. The lock
  labels are those of the steps between taking and releasing.
* `DiskConsistent`: every crash leaves a disk that `main()` can boot from.
* `ImplementsStore`: the handlers implement `FileStore`. A create takes effect with
  the write of a table or of block 0, a delete with the write that drops the entry
  or its table, an append with the write of the inode, a read with its last
  block. The mapping computes the abstract files from the *disk*, at every step,
  so a torn append or a half-made create would be a change that no abstract action
  allows. A refusal must be true at the step that decides it, and must have no
  effect; the store may refuse for space at any time, because space is not part
  of what it promises.
* `RequestsEnd`: every accepted request ends.
* `BootRecovers`: every boot finds every block, lost ones too, and what it frees is in
  use only as the block of an inode. It is checked, and proved, under the limit that no
  create or append comes after the first boot (`NothingAllocated`): finding 3 makes it false of a
  second boot otherwise. `ConsistentBootRecovers` needs no limit: it says the same of
  the boots that find a consistent disk. `FirstBootRecovers` says it of the first boot, whose
  disk is always consistent. These two are proved (section 4), not checked by a run: that of
  `restart` has one boot, of which `BootRecovers` says as much. They were
  model-checked with two boots and any requests between them before they were proved, on
  the instance of `restart` with `RestartSpec` and a disk of six blocks, where
  `BootRecovers` is violated.
* `LocksLiveWhileCounted`: the count of a name is that of the threads that use its lock,
  a lock lives as long as one does and is destroyed after, and two names never
  share one. `LookupStaysValid`: what a thread looked up without the mutex is still the
  lock of its name while it waits, holds and unlocks (179 looks it up again).
  `ImplementsLocks`: `FileLock` implements `RWLocks`. `CallsEnd`: every call ends; it returns,
  but that the death of the process in `MissLookup` (finding 4) counts as an end too.
* `NumbersGivenOnce`: no session number twice in a life, at the wrap too. `FS_SESSION` is one
  step, so this is about the numbers and not about the lock around them.
  `AdmittedUnderOwnSession`: nobody acts in the session of another.
  `AdmittedOnce`, `AdmittedInOrder`: a request sent again is not done again, and one
  that was overtaken is not done at all. `AppendedOncePerLife` says what this is worth to
  a client that retries an append: its bytes are in the file once for each life of
  the server at most, and a restart does allow a second time.
* `DispatchedAsSent`: the words and the data of a dispatched message, put together again,
  are the message that was sent, and its numbers are those written, with no wrap.
  `ProperIsDispatched` is the converse: no proper message is closed before
  the session check. Proper is a request of `fs_client.h` (`IsRequest`: its operation, as many
  arguments as that takes, session 0 for `FS_SESSION`) whose words are not empty and whose session and
  sequence are numbers; so neither parsing nor the checks on the number of words
  (325, 367, 521, 718, 869) refuse it. `HeaderWasReceived`: no stale byte gets into a header.
  `ArgumentsFit`: the sums and differences of unsigned numbers in the checks of
  `FS_READ` (404-420) and `FS_APPEND` (556) let nothing wrapped through. The sum at 417
  cannot wrap because 406 and 412 bound its terms; with the bound of 406 dropped (`SumFits`) the
  run finds a sum that wraps.

Findings, each shown by a run that TLC ends with a counterexample.

1. The create that finds no block for a new table (824-827) returns without
   releasing the directory lock. Every later request on the directory waits for
   ever. `limits` and `progress` stay clear of it in what they check: `limits`
   lets the system stop (`CHECK_DEADLOCK FALSE`) and checks safety, `progress` has
   space.
2. The create of a name that exists (798-802) loses the block reserved at 760.
   Repeated, it leaves a disk on which creates are refused although there are blocks that
   nothing uses: in the run, of four blocks, two hold a file's inode and the table with its
   entry, and two are lost. A restart recovers them.
3. The boot scan (1085-1098) does not take the blocks of inodes off the free list.
   A create or append after a restart may overwrite a file's inode. This is why
   `restart` lets clients read and delete after the boot (`NothingAllocated`):
   with creates or appends the store's promise is broken at once, which is what
   `restart_reuses_inodes` shows.

4. `filelock_start` reads the map (170, 172) after it released `the_mutex`, which line 152
   names as what protects it, while another thread may insert a name or erase one. The
   proofs say that a lookup that completes finds the right lock; the race is
   that it may not complete.

### Bounds

| Constant | Value | Why it is enough |
|---|---|---|
| `Thread`, `MaxActive` | 4 requests, 3 (or 2) at a time; 3 in `progress` | three concurrent requests contain each pair of handlers in conflict and a third that takes or returns blocks between their steps; the fourth starts from what they leave |
| `BlockSize` | 2 | the smallest with a partial block: appends of 1 and 3 bytes fill, cross and end at a boundary |
| `DirEntries` | 2 (1 in `limits`) | a table with a free entry, a full one, and one that loses its last entry; with 1 every create extends and every delete drops a table |
| `MaxFileBlocks` | 2 | a second block and a second table, and the overflow of both |
| `DiskSize` | 12; 6, 5 and 4 in the runs about space | 12 has space for every run of four requests; the others run out at different critical sections |
| `MaxBoots` | 1 | with reads and deletes a second boot starts from a disk like the first one's |
| `Request` | ten requests of two users on three names | every pair of operations on the same and on different files, the owner and another user, a refused name |
| `file_lock` | 3 threads, 2 names, 2 addresses, each thread with any name and mode | a lock that one thread drops, a second waits for and a third looks up; an address freed by one name and taken by the other |
| `server` | 5 connections, 2 session numbers, 1 restart | two sessions and a third that finds none; a session, a create, an append, its retry in the same life; a session, an append, a restart, a session, the append again |
| `messages` | `Word` 21, `HeaderMax` 5, `MaxFileSize` 2, up to six words | "21" is the limit with two digits, as 4294967296 is with ten, so that numbers of full length fall on both sides; sums reach `MaxFileSize` and pass it, and would wrap for the offset 20; headers end before, at and after the limit |

Threads are interchangeable, so the safety runs of `FileServer` and `server` use symmetry;
`progress` and `file_lock`, which check liveness, do not. `server` and `limits` let the
system stop: connections run out, and finding 1 blocks.
Each thread makes one request, as a connection does.

### Fairness

`FairSpec` has weak fairness of the steps of each thread, and none of `Accept` or
`Crash`. It stands for a kernel that schedules every thread and a lock that, if it
stays free, goes to a thread that waits. No strong fairness is assumed. With
finitely many connections readers run out, so a writer's lock becomes and stays
free; the runs say nothing of an endless stream of readers, against which the
default `pthread_rwlock_t` (which prefers readers) gives no guarantee. `FileLock` has the
same fairness: weak, of each thread that was called.

## 4. Proofs

All proofs are for arbitrary constants; those of the handlers are under `LayoutAssumption`
(sizes are positive) and `RequestAssumption` (requests have the type of requests), and cover
`Crash`.

* `ExclusionAlways == Spec => []Exclusion`. `Exclusion` is not inductive: it speaks of
  program counters, not of the locks. `LockInv` adds that a thread at a step under
  a lock is among its holders in the right mode, and that a writer is the only
  holder. The converse (a holder is at such a step) is false in this code because
  of finding 1, and the proof does not need it.
* `TypeCorrect == Spec => []TypeOK`. `TypeOK` contains that no block list outgrows its
  array. That is not inductive either: an append links blocks one at a time,
  against a check made several steps before. `TypeInv` adds that every inode, on
  disk or in a handler that has just read one, has `CeilDiv(size)` blocks; that in
  the middle of an append the blocks linked, the blocks taken and the data left
  add up to the new size; that a create at the steps of an extension still has
  room in the directory; and that the slot a create or delete found is still within
  the directory. The last two hold because nobody else changes the directory,
  so `TypeInv` includes `LockInv` and uses `Exclusion`. One lemma per handler has one
  step per action.
* `TooBigExact`: the three unsigned conditions of line 600 refuse exactly the
  appends that would make the file too large or need more blocks, as the code
  below counts them, than there are. It rests on `BlockDivision`, `CeilDivBounds` and
  the other lemmas at the head of `FileServerInvariants` on division by a block size that is not
  fixed.

* `LocksLiveAlways`, `LookupStaysValidAlways`, `FileLockImplementsLocks`: for any finite set of
  threads and any names and addresses. `LocksLiveWhileCounted` alone is not inductive; `MapInv`
  adds that a thread in a critical section holds the mutex, that only a thread between
  `count--` and the end of its critical section may see a lock nobody counts on, and
  that the holders of a name's lock are the threads between the two calls. The
  counts are cardinalities, and the steps on them rest on `FiniteSetTheorems`. The
  refinement has one step per action; a drop is a stutter because the lock it
  destroys has no holder, which is a clause of `MapInv`.
* `NumbersGivenOnceAlways`, `AdmittedUnderOwnSessionAlways`, `AdmittedOnceAlways`,
  `AdmittedInOrderAlways`: for any connections, messages and number of session numbers,
  restarts included. `SessionsInv` adds that while `session_free` the sessions
  are the numbers below `smallest_session` (so the next is new, and after the wrap
  there is none), that each was given to somebody in this life, and that the number
  recorded for a session is at least every number admitted under it. It is proved of
  `SessionsSpec`; `ServerKeepsSessions` shows that `ServerSpec` implies `SessionsSpec`.

* `BlocksOwnedAlways == Spec => []BlocksOwnedOnce` and `DiskConsistentAlways == Spec =>
  []DiskConsistent`, from one inductive invariant, `StoreInv`. Neither property is
  inductive: `Separate(Claims)` says nothing of why the block that an append links at its
  end is still its own, nor why the entry that a delete rewrites is still the one
  it read. `StoreInv` has three parts, besides `TypeInv`.
  * *Owners.* There is a function from blocks to owners (block 0, the free list, the
    directory, a file by its name, a thread), under which the free list, the directory's
    blocks, each file's inode and blocks and each handler's blocks are without
    repetition and have the owner they should. A file is known by its name rather than its
    slot, since a delete that drops a table renumbers the slots behind it. The table that a
    delete has freed and not yet dropped may be owned by the free list or already by
    a create that took it.
  * *The directory.* Block 0 is the directory in memory; tables are tables and none is
    empty; names differ; an entry names an inode, and an inode names data blocks.
  * *What a handler knows* (`FoundOK`, `CopyOK`, `CreateOK`, `DeleteOK`): the entry an append
    found is still there, its copy of the inode is the one on disk but for the blocks it
    linked, the slot and table of a create or delete are as read, and what a create wrote
    on its blocks is still on them.

  While the process is down only `DiskConsistent` is kept. The proof has one lemma per action
  (`AppendDataOwners`, `DeleteDirInodeOwners`, ...), which says what moves: nothing
  (`QuietStep`), blocks between the free list and a thread (`TakeStep`, `GiveStep`), a
  write on a block that a thread holds (`HeldWriteStep`), or a step of a create or delete, alone
  in the directory (`ExclusiveStep`). Each step exhibits the new owners (`Moved`) and shows
  that the blocks it wrote belong to none of the others. That an append is alone with
  its file, and a create or delete with the directory, is `Exclusion`. `StoreInv`, with the
  owner function written out, was model-checked on the instances of `interleave`, `crash`
  and `limits` before it was proved.
* `OnlyExistingNameLeaksAlways == Spec => OnlyExistingNameLeaks`, an action property: the step
  of a create that finds its name to exist is the only one that may lose a block. It
  rests on `StoreInv`: where a handler works from a copy, no block is lost only because the copy
  is right. `InUse` restates `Claimed` (the free list, the directory, the entries on disk and
  what handlers hold) in terms of what is in memory, `NothingLost` says what a step without
  loss is, and each action has a lemma (`AppendDataKeeps`, `DeleteFreeKeeps`, ...). The ones that
  needed most of the invariant: an append drops its list at the commit, so every block
  in it must be linked by then; a delete that frees a table loses the inode and the
  blocks of each entry the table had, so it must have had no other entry; the entry
  written by a create must name the block whose inode it has just written.
* `ServerImplementsStore == Spec => ImplementsStore`: the refinement, for every disk, set of
  requests and number of connections. `StoreInv` says whose a block is, not what is in it;
  `DataInv` adds what handlers know of data (`DataInvAlways`): the entry found is the one asked
  for and its inode is of the user (`SeenOK`, `MineOK`); a read's result so far is the
  file's bytes (`ResultOK`); the blocks of an append's copy hold its data so far, past the end
  of the file on disk (`WrittenOK`). Each is true when the handler learns it, and stays
  true because a block that another handler writes has another owner, or is the last block of
  a file that the other has locked, written past its end only (`OthersKnow`). `DataInv` was
  model-checked on the instances of `interleave`, `limits` and `crash` before it was proved.

  What is left is to see the store in the disk. A step that writes the disk either leaves
  every file's bytes as they are (`HiddenStep`: a block with another owner, or bytes past the end)
  or is one of the six writes with an effect: the commit of an append (`CommitFiles`), the
  entry or block 0 of a create (`CreateEntryFiles`, `CreateDirInodeFiles`), the entry
  or block 0 of a delete (`DeleteEntryFiles`, `DeleteDirInodeFiles`). These say what
  `FilesOnDisk` is afterwards. As `FilesOnDisk` is by name, it does not see the
  renumbering of slots when a table is dropped; that each name has one entry is
  `NamesOK`. Then each action has a lemma (`ReadBlockMaps`, `AppendCommitMaps`, ...) that it is the
  store's step, a refusal that is true, or a stutter. A refusal of a read or delete holds of
  the files because the scan saw the whole directory under the lock (`ScanView`).
* `AppendedOncePerLifeAlways`: for any connections, messages and restarts. It supposes
  `BytesTellMessages` (a byte appears in one message, once), which is how the property
  recognizes an append; the server never looks at the bytes, so they may serve as
  labels. The instance of `server` satisfies it (an `ASSUME` of `MCServer`). The invariant
  `ServerInv` adds to `SessionsInv` that a pending request was admitted with its message's
  session and number, and that each byte of a file came on a connection whose request is
  over, different ones for equal bytes. `AdmittedOnce` then puts the connections of
  one message in different lives, of which there are `life + 1`.

* `DispatchedAsSentAlways`, `ProperIsDispatchedAlways`, `ArgumentsFitAlways`,
  `HeaderWasReceivedAlways`: for any characters, messages of any length, and any width of
  numbers, under `MessageAssumption` (the digits are different characters, a sum of two offsets
  fits, the words clients compose have no space or Nul), `LimitAssumption` (the literal of
  135 is the number of values of an unsigned int) and `CleartextAssumption` (a message is shorter
  than the largest unsigned int). `MsgInv` says for each place of the thread what it may rely
  on; what it needs are two facts about data.
  * *Numbers* (`IfUnsignedExact`). The code compares strings. A longer string without a leading
    zero is a larger number (`ShorterIsLess`), of two of the same length the first digit that
    differs decides (`LessIsLess`, `LessOrNot`), and a number below the limit never wrapped on the
    way (`NoWrap`).
  * *Words.* Cutting a text at its spaces and joining the words gives the text (`WordsJoin`);
    joining words without spaces and cutting gives the words (`WordsBack`). With no stray space no
    word is empty (`WordsPlain`), and the first Nul separates the text from the data (`PartsAre`,
    `PartsExist`).

  Both are inductions over the positions of a string. The library's induction theorems take a
  predicate, which the provers here cannot instantiate, so the induction is over a *set* of
  naturals: it has a least element (`LeastNat`, from `NatLessThanWellFounded`), hence `UpTo`.
  (These lemmas are in `Induction`.) `Recursion` shows that a function given by its first value and its steps exists, without
  which nothing is known of a recursive definition. `MsgInv` was model-checked on the instance
  of `messages` before it was proved.

* `ConsistentBootRecoversAlways == RestartSpec => ConsistentBootRecovers` and
  `FirstBootRecoversAlways == RestartSpec => FirstBootRecovers`: for any disk, any number of crashes and
  restarts, and any requests before and after them.
  `KeepersConsistentAlways` (`[]DiskConsistent`), `RestartRecovers` (`BootRecovers`) and
  `RestartImplementsStore` (`ImplementsStore`) are of `RestartSpec /\ [][NothingAllocated]_restartVars`:
  any requests until the first restart, reads and deletes after it. Their statements name the limit,
  since finding 3 makes each of them false without it. Two things are proved.
  * *What `main()` makes of a disk.* The loop over the blocks is a recursive function, so that
    its result is the blocks not in `BootUses`, each once, is by induction on the blocks seen
    (`FreeUpTo`, `BootFreeIs`). `DiskConsistent` gives the directory and every file their
    owners again (`DiskOwners`): a data block or a table thus has one use, and the free list
    none of them. The handlers have nothing at a boot, so every block is claimed.
  * *That the disk was consistent when the process died*, in a later life too. Before the
    first restart this is `StoreInv`. After it `StoreInv` is not restored, because the blocks
    of inodes are on the free list as well. `KeepersInv` keeps what does not speak of the free
    list: `DirectoryInv`, what each handler knows, and the owners of the directory and the
    files. A read takes no block, and a delete writes tables and block 0 only and returns
    blocks to the free list without looking at it (`KeepersQuietStep`, `KeepersDrop`), so
    nothing else is needed. `KeepersInv` (with `Separate` for the owners) and `DataInv` were model-checked on
    the instance of `restart`.
* `RestartImplementsStore`: what was acknowledged before a crash is what is read and deleted
  after the boot, under the same limit. The lemmas of `FileServerRefinement` on reads and
  deletes rest on `ServingInv`, the part of `StoreInv` that says nothing of the free list and
  that `KeepersInv` gives too (`KeepersServe`). `DataInv` stays true (`KeepersDataStep`): after a
  restart no step writes a block of an append. `main()` is hidden from the store, since it writes
  no block and no request is open (`KeepersMaps`).

Only model-checked: liveness under fairness (`RequestsEnd`, `CallsEnd`), which is out of the
prover's reach. Every safety property that a passing run checks is stated by a theorem.

## 5. Plan

The modules of the plan are written, and the safety properties proved. Liveness stays with TLC.

## 6. Not modelled

* Encryption, the client library and the disk: binary libraries. A block write is
  atomic and in order, as `fs_server.h` gives no other failure than an assertion.
* Sockets, the accept loop and `endRequest` but for what a connection sees of them: a
  connection may end at any byte (`Messages`), before a handler starts it is a request that
  is never accepted, and after it the answer is simply not received. The loop
  itself has no state besides the kernel's.
* Starvation of writers by an endless stream of readers (777): connections are finitely
  many here, and the code's comments promise nothing else. Likewise that blocks reserved
  by requests in flight make another fail for want of space (754): the interface
  promises nothing of space.
* `cout_lock` (154): the handlers print under a lock of their own rather than under
  the library's `cout_lock_pthread` (`fs_server.h:46-48`); only output is affected.
* Failure of `new`, `pthread_create` and `accept`, which the code does not check.
* Tests and `example.cc`: sequential or small uses of the client interface, and an
  unrelated sample.
