------------------------------ MODULE FileLock ------------------------------
(***************************************************************************)
(* filelock_start and filelock_end (fs.cc:160-187): the map from file      *)
(* names to read-write locks that live while somebody counts on them.      *)
(*                                                                         *)
(* The map and the counts are changed in critical sections of the_mutex;   *)
(* the lock is looked up, and waited for, outside it.  A lookup has a      *)
(* beginning and an end, so that a change of the map may fall within it.   *)
(* That is a data race on the unordered_map: the lookup may still find the *)
(* lock, or miss it and dereference the null pointer that operator[]       *)
(* inserts, which ends the process.                                        *)
(*                                                                         *)
(* A thread makes one call of each, as handlers do.  A name that is not in *)
(* the map has NoLock there and the count 0, which operator[] would give.  *)
(***************************************************************************)
EXTENDS Naturals, FiniteSets

CONSTANTS
    Thread,   \* the threads, one for each connection
    Name,     \* file names
    Address,  \* what new pthread_rwlock_t may return
    NoLock    \* no entry in the map

ASSUME FileLockAssumption ==
    /\ IsFiniteSet(Thread)
    /\ NoLock \notin Address

VARIABLES
    filename_rwlock_map,  \* for each name, the address of its lock
    filename_count,       \* for each name, the threads that count on its lock
    the_mutex,            \* holders of the mutex of the map
    initialized,          \* the addresses between rwlock_init and rwlock_destroy
    holders,              \* for each address, who holds the lock there
    raced,                \* threads whose lookup overlapped a change of the map
    up,                   \* the process is running
    want,                 \* for each thread, the arguments of filelock_start
    found,                \* for each thread, the lock it looked up
    pc                    \* for each thread, the step it takes next

map == << filename_rwlock_map, filename_count, initialized >>
vars == << map, the_mutex, holders, raced, up, want, found, pc >>

Mode == {"read", "write"}
Holder(t, m) == [thread |-> t, mode |-> m]

TypeOK ==
    /\ filename_rwlock_map \in [Name -> Address \cup {NoLock}]
    /\ filename_count \in [Name -> Nat]
    /\ the_mutex \in SUBSET Thread
    /\ initialized \in SUBSET Address
    /\ holders \in [Address -> SUBSET [thread : Thread, mode : Mode]]
    /\ raced \in SUBSET Thread
    /\ up \in BOOLEAN
    /\ want \in [Thread -> [name : Name, mode : Mode]]
    /\ found \in [Thread -> Address \cup {NoLock}]
    /\ pc \in [Thread -> {"new", "start", "enter", "lookup", "looking", "wait",
                          "hold", "leave", "left", "done"}]

At(t, label) == pc[t] = label
Goto(t, label) == pc' = [pc EXCEPT ![t] = label]

Looking == {t \in Thread : At(t, "looking")}

Init ==
    /\ filename_rwlock_map = [n \in Name |-> NoLock]
    /\ filename_count = [n \in Name |-> 0]
    /\ the_mutex = {}
    /\ initialized = {}
    /\ holders = [a \in Address |-> {}]
    /\ raced = {}
    /\ up = TRUE
    /\ want \in [Thread -> [name : Name, mode : Mode]]
    /\ found = [t \in Thread |-> NoLock]
    /\ pc = [t \in Thread |-> "new"]

-----------------------------------------------------------------------------
(* filelock_start                                                          *)

Call(t) ==
    /\ up /\ At(t, "new")
    /\ Goto(t, "start")
    /\ UNCHANGED << map, the_mutex, holders, raced, up, want, found >>

StartMutex(t) ==
    /\ At(t, "start")
    /\ the_mutex = {}
    /\ the_mutex' = {t}
    /\ Goto(t, "enter")
    /\ UNCHANGED << map, holders, raced, up, want, found >>

\* (Mutant of Count: a lock that is there already is not counted on.)
CountFirst(n) == [filename_count EXCEPT ![n] = 1]

Count(n) == [filename_count EXCEPT ![n] = @ + 1]

\* A new lock for a name without one; the count; the mutex is released.
Enter(t) ==
    LET n == want[t].name IN
    /\ At(t, "enter")
    /\ \/ /\ filename_rwlock_map[n] # NoLock
          /\ UNCHANGED << filename_rwlock_map, initialized, holders, raced >>
       \/ /\ filename_rwlock_map[n] = NoLock
          /\ \E a \in Address \ initialized :
               /\ filename_rwlock_map' = [filename_rwlock_map EXCEPT ![n] = a]
               /\ initialized' = initialized \cup {a}
               /\ holders' = [holders EXCEPT ![a] = {}]
          /\ raced' = raced \cup Looking
    /\ filename_count' = Count(n)
    /\ the_mutex' = {}
    /\ Goto(t, "lookup")
    /\ UNCHANGED << up, want, found >>

BeginLookup(t) ==
    /\ At(t, "lookup")
    /\ Goto(t, "looking")
    /\ UNCHANGED << map, the_mutex, holders, raced, up, want, found >>

EndLookup(t) ==
    /\ At(t, "looking")
    /\ found' = [found EXCEPT ![t] = filename_rwlock_map[want[t].name]]
    /\ raced' = raced \ {t}
    /\ Goto(t, "wait")
    /\ UNCHANGED << map, the_mutex, holders, up, want >>

\* The lookup missed the entry that is there.
MissLookup(t) ==
    /\ At(t, "looking") /\ t \in raced
    /\ up' = FALSE
    /\ filename_rwlock_map' = [n \in Name |-> NoLock]
    /\ filename_count' = [n \in Name |-> 0]
    /\ the_mutex' = {}
    /\ initialized' = {}
    /\ holders' = [a \in Address |-> {}]
    /\ raced' = {}
    /\ found' = [u \in Thread |-> NoLock]
    /\ pc' = [u \in Thread |-> "done"]
    /\ UNCHANGED want

\* (Mutant of Grantable: a writer waits for writers only.)
GrantableToAll(holds, m) == \A h \in holds : h.mode # "write"

\* Who gets a pthread_rwlock_t: a reader unless somebody writes, a writer
\* when nobody holds it.
Grantable(holds, m) ==
    IF m = "read" THEN \A h \in holds : h.mode # "write" ELSE holds = {}

TakeLock(t) ==
    LET a == found[t] IN
    /\ At(t, "wait") /\ a # NoLock
    /\ Grantable(holders[a], want[t].mode)
    /\ holders' = [holders EXCEPT ![a] = @ \cup {Holder(t, want[t].mode)}]
    /\ Goto(t, "hold")
    /\ UNCHANGED << map, the_mutex, raced, up, want, found >>

-----------------------------------------------------------------------------
(* filelock_end                                                            *)

EndMutex(t) ==
    /\ At(t, "hold")
    /\ the_mutex = {}
    /\ the_mutex' = {t}
    /\ Goto(t, "leave")
    /\ UNCHANGED << map, holders, raced, up, want, found >>

\* The thread no longer counts on the lock, and releases it.
Leave(t) ==
    LET n == want[t].name
        a == filename_rwlock_map[n]
    IN
    /\ At(t, "leave")
    /\ filename_count' = [filename_count EXCEPT ![n] = @ - 1]
    /\ holders' = [holders EXCEPT ![a] = {h \in @ : h.thread # t}]
    /\ Goto(t, "left")
    /\ UNCHANGED << filename_rwlock_map, the_mutex, initialized, raced, up, want, found >>

\* (Mutants of Unused: the lock goes with any thread that leaves; it goes
\* when nobody holds it, though somebody may wait; it never goes.)
UnusedAlways(n) == TRUE
UnusedIfFree(n) == holders[filename_rwlock_map[n]] = {}
UnusedNever(n) == FALSE

Unused(n) == filename_count[n] = 0

\* The last thread destroys the lock; the mutex is released.
Drop(t) ==
    LET n == want[t].name IN
    /\ At(t, "left")
    /\ \/ /\ Unused(n)
          /\ initialized' = initialized \ {filename_rwlock_map[n]}
          /\ filename_rwlock_map' = [filename_rwlock_map EXCEPT ![n] = NoLock]
          /\ filename_count' = [filename_count EXCEPT ![n] = 0]
          /\ raced' = raced \cup Looking
       \/ /\ ~Unused(n)
          /\ UNCHANGED << map, raced >>
    /\ the_mutex' = {}
    /\ Goto(t, "done")
    /\ UNCHANGED << holders, up, want, found >>

Finished ==
    /\ \A t \in Thread : At(t, "done")
    /\ UNCHANGED vars

Step(t) ==
    \/ StartMutex(t) \/ Enter(t) \/ BeginLookup(t) \/ EndLookup(t)
    \/ MissLookup(t) \/ TakeLock(t) \/ EndMutex(t) \/ Leave(t) \/ Drop(t)

Next == Finished \/ \E t \in Thread : Call(t) \/ Step(t)

Spec == Init /\ [][Next]_vars

\* A thread that can go on does, as in FileServer.
FairSpec == Spec /\ \A t \in Thread : WF_vars(Step(t))

-----------------------------------------------------------------------------
(* Properties                                                              *)

\* The threads between count++ (167) and count-- (178) of a name.
Counting(n) ==
    {t \in Thread : /\ want[t].name = n
                    /\ pc[t] \in {"lookup", "looking", "wait", "hold", "leave"}}

\* A lock lives as long as somebody counts on it, no longer, and only for
\* one name: the count is that of the threads between 167 and 178, a name
\* they count on has an initialized lock of its own, and outside the critical
\* sections every other lock is destroyed.
LocksLiveWhileCounted ==
    /\ \A n \in Name :
         /\ filename_count[n] = Cardinality(Counting(n))
         /\ Counting(n) # {} => filename_rwlock_map[n] \in initialized
         /\ Counting(n) = {} /\ the_mutex = {} => filename_rwlock_map[n] = NoLock
    /\ \A a \in initialized : \E n \in Name : filename_rwlock_map[n] = a
    /\ \A m, n \in Name :
         filename_rwlock_map[m] = filename_rwlock_map[n]
           /\ filename_rwlock_map[m] # NoLock => m = n

\* A thread waits for, holds and releases the lock that the map has for its
\* name: what it looked up (170, 172) is still what 179 unlocks.
LookupStaysValid ==
    \A t \in Thread :
        pc[t] \in {"wait", "hold", "leave"} =>
            found[t] = filename_rwlock_map[want[t].name]

\* The map is "mutual exclusion"-protected by the_mutex (fs.cc:152): it does
\* not change while a thread looks a lock up.
LookupAlone == raced = {}

\* Every filelock_start is granted and every filelock_end returns.
CallsEnd == \A t \in Thread : At(t, "start") ~> At(t, "done")

\* The locks as RWLocks has them: those the map has for the names.
HeldFor(n) ==
    IF filename_rwlock_map[n] = NoLock THEN {} ELSE holders[filename_rwlock_map[n]]

PhaseOf(t) ==
    CASE pc[t] = "new" -> "new"
      [] pc[t] \in {"start", "enter", "lookup", "looking", "wait"} -> "waiting"
      [] pc[t] \in {"hold", "leave"} -> "holding"
      [] OTHER -> "done"

Locks == INSTANCE RWLocks WITH
    held <- [n \in Name |-> HeldFor(n)],
    phase <- [t \in Thread |-> PhaseOf(t)]

\* The locks that come and go with the map are, to their callers, one
\* read-write lock per name: nobody ever locks an object another thread has
\* destroyed or replaced.
ImplementsLocks == Locks!LocksSpec
=============================================================================
