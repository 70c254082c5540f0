--------------------------- MODULE FileLockProofs ---------------------------
(***************************************************************************)
(* For every set of threads, names and addresses: the locks of the map     *)
(* live while they are counted on, and FileLock implements RWLocks.        *)
(*                                                                         *)
(* LocksLiveWhileCounted is not inductive.  MapInv adds who is in the      *)
(* critical sections of the_mutex, that only a thread between count-- and  *)
(* the release of the_mutex may see a lock nobody counts on, and that the  *)
(* holders of the lock of a name are the threads between filelock_start    *)
(* and filelock_end.                                                       *)
(***************************************************************************)
EXTENDS FileLock, FiniteSetTheorems, TLAPS

InMutex == {"enter", "leave", "left"}
Labels == {"new", "start", "enter", "lookup", "looking", "wait",
           "hold", "leave", "left", "done"}
CountedLabel == {"lookup", "looking", "wait", "hold", "leave"}

HoldersFor(n) ==
    {Holder(t, want[t].mode) :
       t \in {u \in Thread : want[u].name = n /\ pc[u] \in {"hold", "leave"}}}

MutexInv == \A t \in Thread : pc[t] \in InMutex => the_mutex = {t}

CountInv == \A n \in Name : filename_count[n] = Cardinality(Counting(n))

EntryInv ==
    /\ \A n \in Name :
         /\ filename_rwlock_map[n] # NoLock => filename_rwlock_map[n] \in initialized
         /\ \A t \in Counting(n) : filename_rwlock_map[n] # NoLock
         /\ \/ filename_rwlock_map[n] = NoLock
            \/ \E t \in Thread : want[t].name = n /\ pc[t] \in CountedLabel \cup {"left"}
    /\ \A t \in Thread : pc[t] = "left" => filename_rwlock_map[want[t].name] # NoLock
    /\ \A a \in initialized : \E n \in Name : filename_rwlock_map[n] = a
    /\ \A m, n \in Name :
         filename_rwlock_map[m] = filename_rwlock_map[n]
           /\ filename_rwlock_map[m] # NoLock => m = n

HoldersInv ==
    \A n \in Name :
        filename_rwlock_map[n] # NoLock =>
            holders[filename_rwlock_map[n]] = HoldersFor(n)

MapInv ==
    /\ TypeOK /\ MutexInv /\ CountInv
    /\ EntryInv /\ HoldersInv /\ LookupStaysValid

-----------------------------------------------------------------------------
\* The threads that count on a lock are finitely many.
LEMMA CountingFinite == ASSUME NEW n PROVE IsFiniteSet(Counting(n))
  <1>1. Counting(n) \in SUBSET Thread
    BY DEF Counting
  <1> QED
    BY <1>1, FS_Subset, FileLockAssumption

\* No entry, no lock and no thread on its way, when the server starts.
LEMMA MapInvInit == Init => MapInv
  <1> SUFFICES ASSUME Init PROVE MapInv
    OBVIOUS
  <1>1. \A n \in Name : Counting(n) = {}
    BY DEF Init, Counting
  <1>2. CountInv
    BY <1>1, FS_EmptySet DEF CountInv, Init
  <1>3. TypeOK
    BY DEF Init, TypeOK, Mode
  <1> QED
    BY <1>1, <1>2, <1>3 DEF Init, MapInv, MutexInv, EntryInv, HoldersInv,
       LookupStaysValid, InMutex

\* A step of one thread that leaves the map, the counts and the mutex
\* alone, and does not enter or leave a critical section.
LEMMA MapInvMove ==
    ASSUME MapInv, NEW t \in Thread, NEW label \in Labels, Goto(t, label),
           pc[t] \notin InMutex, label \notin InMutex,
           pc[t] \in CountedLabel <=> label \in CountedLabel,
           UNCHANGED << map, the_mutex, want >>
    PROVE  (MutexInv /\ CountInv /\ EntryInv)'
  <1> USE DEF MapInv, TypeOK, Goto, map, CountedLabel, InMutex, Labels
  <1>1. \A n : Counting(n)' = Counting(n)
    BY DEF Counting
  <1>2. MutexInv'
    BY DEF MutexInv
  <1>3. CountInv'
    BY <1>1 DEF CountInv
  <1>4. EntryInv'
    BY <1>1 DEF EntryInv
  <1> QED
    BY <1>2, <1>3, <1>4

\* Taking the mutex of the map.
LEMMA MapInvTakeMutex ==
    ASSUME MapInv, NEW t \in Thread, StartMutex(t) \/ EndMutex(t)
    PROVE  MapInv'
  <1> USE DEF MapInv, TypeOK, StartMutex, EndMutex, At, Goto, map
  <1>1. TypeOK'
    OBVIOUS
  <1>2. \A n : Counting(n)' = Counting(n)
    BY DEF Counting
  <1>3. \A n : HoldersFor(n)' = HoldersFor(n)
    BY DEF HoldersFor
  <1>4. MutexInv'
    BY DEF MutexInv, InMutex
  <1>5. CountInv'
    BY <1>2 DEF CountInv
  <1>6. EntryInv'
    BY <1>2 DEF EntryInv, CountedLabel
  <1>7. HoldersInv'
    BY <1>3 DEF HoldersInv
  <1>8. LookupStaysValid'
    BY DEF LookupStaysValid
  <1> QED
    BY <1>1, <1>4, <1>5, <1>6, <1>7, <1>8

\* A thread begins to count on the lock of its name.
LEMMA MapInvEnter ==
    ASSUME MapInv, NEW t \in Thread, Enter(t)
    PROVE  MapInv'
  <1> DEFINE n == want[t].name
  <1> USE DEF MapInv, Enter, At, Goto, map, Count
  <1>0. n \in Name /\ want' = want
    BY DEF TypeOK
  <1>1. TypeOK'
    <2>1. /\ filename_count' \in [Name -> Nat]
          /\ raced' \in SUBSET Thread
          /\ pc' \in [Thread -> Labels]
      BY <1>0 DEF TypeOK, Looking, Labels
    <2>2. /\ filename_rwlock_map' \in [Name -> Address \cup {NoLock}]
          /\ initialized' \in SUBSET Address
          /\ holders' \in [Address -> SUBSET [thread : Thread, mode : Mode]]
      BY <1>0 DEF TypeOK
    <2> QED
      BY <2>1, <2>2 DEF TypeOK, Labels
  <1>2. /\ t \notin Counting(n)
        /\ Counting(n)' = Counting(n) \cup {t}
        /\ \A m \in Name \ {n} : Counting(m)' = Counting(m)
    BY <1>0 DEF TypeOK, Counting
  <1>3. \A m : HoldersFor(m)' = HoldersFor(m)
    BY <1>0 DEF TypeOK, HoldersFor
  <1>4. MutexInv'
    <2>1. \A u \in Thread : pc[u] \in InMutex => u = t
      BY DEF MutexInv, InMutex
    <2> QED
      BY <2>1 DEF TypeOK, MutexInv, InMutex
  <1>5. CountInv'
    <2>1. Cardinality(Counting(n)') = Cardinality(Counting(n)) + 1
      BY <1>2, CountingFinite, FS_AddElement
    <2> QED
      BY <1>0, <1>2, <2>1 DEF CountInv, TypeOK
  <1>6. /\ filename_rwlock_map'[n] # NoLock
        /\ \A m \in Name \ {n} : filename_rwlock_map'[m] = filename_rwlock_map[m]
        /\ filename_rwlock_map[n] # NoLock => UNCHANGED << filename_rwlock_map, initialized, holders >>
    BY <1>0, FileLockAssumption DEF TypeOK
  <1>7. EntryInv'
    <2>1. CASE filename_rwlock_map[n] # NoLock
      BY <1>0, <1>2, <1>6, <2>1 DEF EntryInv, TypeOK, CountedLabel
    <2>2. CASE filename_rwlock_map[n] = NoLock
      <3>1. PICK a \in Address \ initialized :
               /\ filename_rwlock_map' = [filename_rwlock_map EXCEPT ![n] = a]
               /\ initialized' = initialized \cup {a}
        BY <2>2
      <3> QED
        BY <1>0, <1>2, <1>6, <2>2, <3>1, FileLockAssumption DEF EntryInv, TypeOK, CountedLabel
    <2> QED
      BY <2>1, <2>2
  <1>8. HoldersInv'
    <2>1. CASE filename_rwlock_map[n] # NoLock
      BY <1>3, <1>6, <2>1 DEF HoldersInv
    <2>2. CASE filename_rwlock_map[n] = NoLock
      <3>1. PICK a \in Address \ initialized :
               /\ filename_rwlock_map' = [filename_rwlock_map EXCEPT ![n] = a]
               /\ holders' = [holders EXCEPT ![a] = {}]
        BY <2>2
      <3>2. HoldersFor(n) = {}
        BY <1>0, <2>2 DEF HoldersFor, EntryInv, Counting
      <3> QED
        BY <1>0, <1>3, <3>1, <3>2 DEF HoldersInv, EntryInv, TypeOK
    <2> QED
      BY <2>1, <2>2
  <1>9. LookupStaysValid'
    <2>1. \A u \in Thread : pc[u] \in {"wait", "hold", "leave"} =>
             filename_rwlock_map[want[u].name] # NoLock
      BY <1>0 DEF EntryInv, Counting, TypeOK
    <2> QED
      BY <1>0, <1>6, <2>1 DEF LookupStaysValid, TypeOK
  <1> QED
    BY <1>1, <1>4, <1>5, <1>7, <1>8, <1>9

\* The lookup finds the lock that the thread counts on.
LEMMA MapInvLookup ==
    ASSUME MapInv, NEW t \in Thread, Call(t) \/ BeginLookup(t) \/ EndLookup(t)
    PROVE  MapInv'
  <1> USE DEF MapInv, Call, BeginLookup, EndLookup, At, Goto, map
  <1>1. TypeOK'
    BY DEF TypeOK
  <1>2. \A n : HoldersFor(n)' = HoldersFor(n)
    BY DEF TypeOK, HoldersFor
  <1>3. (MutexInv /\ CountInv /\ EntryInv)'
    BY MapInvMove DEF Labels, InMutex, CountedLabel
  <1>4. HoldersInv'
    BY <1>2 DEF HoldersInv
  <1>5. LookupStaysValid'
    BY DEF TypeOK, LookupStaysValid
  <1> QED
    BY <1>1, <1>3, <1>4, <1>5

\* The lock is granted.
LEMMA MapInvTakeLock ==
    ASSUME MapInv, NEW t \in Thread, TakeLock(t)
    PROVE  MapInv'
  <1> DEFINE n == want[t].name
  <1> USE DEF MapInv, TakeLock, At, Goto, map
  <1>1. /\ n \in Name /\ want' = want
        /\ filename_rwlock_map' = filename_rwlock_map
        /\ found[t] = filename_rwlock_map[n] /\ found[t] \in Address
    BY DEF TypeOK, LookupStaysValid
  <1>2. TypeOK'
    BY <1>1 DEF TypeOK, Holder
  <1>3. (MutexInv /\ CountInv /\ EntryInv)'
    BY MapInvMove DEF Labels, InMutex, CountedLabel
  <1>4. /\ HoldersFor(n)' = HoldersFor(n) \cup {Holder(t, want[t].mode)}
        /\ \A m \in Name \ {n} : HoldersFor(m)' = HoldersFor(m)
    BY <1>1 DEF TypeOK, HoldersFor
  <1>5. holders' = [holders EXCEPT ![filename_rwlock_map[n]] = @ \cup {Holder(t, want[t].mode)}]
    BY <1>1
  <1>6. HoldersInv'
    <2> SUFFICES ASSUME NEW m \in Name, filename_rwlock_map[m] # NoLock
                 PROVE  holders'[filename_rwlock_map[m]] = HoldersFor(m)'
      BY <1>1 DEF HoldersInv
    <2>1. CASE m = n
      BY <1>1, <1>4, <1>5, <2>1 DEF TypeOK, HoldersInv
    <2>2. CASE m # n
      BY <1>1, <1>4, <1>5, <2>2 DEF TypeOK, HoldersInv, EntryInv
    <2> QED
      BY <2>1, <2>2
  <1>7. LookupStaysValid'
    BY DEF TypeOK, LookupStaysValid
  <1> QED
    BY <1>2, <1>3, <1>6, <1>7

\* A thread ceases to count on its lock, and releases it.
LEMMA MapInvLeave ==
    ASSUME MapInv, NEW t \in Thread, Leave(t)
    PROVE  MapInv'
  <1> DEFINE n == want[t].name
  <1> USE DEF MapInv, Leave, At, Goto, map
  <1>1. /\ n \in Name /\ want' = want
        /\ filename_rwlock_map' = filename_rwlock_map
        /\ t \in Counting(n) /\ filename_rwlock_map[n] \in Address
    BY DEF TypeOK, EntryInv, Counting
  <1>2. /\ Counting(n)' = Counting(n) \ {t}
        /\ \A m \in Name \ {n} : Counting(m)' = Counting(m)
    BY <1>1 DEF TypeOK, Counting
  <1>3. Cardinality(Counting(n)') = Cardinality(Counting(n)) - 1
    BY <1>1, <1>2, CountingFinite, FS_RemoveElement
  <1>4. Cardinality(Counting(n)') \in Nat
    <2>1. IsFiniteSet(Counting(n) \ {t})
      BY CountingFinite, FS_RemoveElement
    <2> QED
      BY <1>2, <2>1, FS_CardinalityType
  <1>5. CountInv'
    BY <1>1, <1>2, <1>3 DEF TypeOK, CountInv
  <1>6. TypeOK'
    <2>1. filename_count' \in [Name -> Nat]
      BY <1>1, <1>3, <1>4 DEF TypeOK, CountInv
    <2>2. holders' \in [Address -> SUBSET [thread : Thread, mode : Mode]]
      BY <1>1 DEF TypeOK
    <2>3. pc' \in [Thread -> Labels]
      BY DEF TypeOK, Labels
    <2> QED
      BY <2>1, <2>2, <2>3 DEF TypeOK, Labels
  <1>7. MutexInv'
    BY DEF TypeOK, MutexInv, InMutex
  <1>8. EntryInv'
    BY <1>1, <1>2 DEF TypeOK, EntryInv, CountedLabel
  <1>9. /\ HoldersFor(n)' = {h \in HoldersFor(n) : h.thread # t}
        /\ \A m \in Name \ {n} : HoldersFor(m)' = HoldersFor(m)
    BY <1>1 DEF TypeOK, HoldersFor, Holder
  <1>10. HoldersInv'
    BY <1>1, <1>9 DEF TypeOK, HoldersInv, EntryInv
  <1>11. LookupStaysValid'
    BY DEF TypeOK, LookupStaysValid
  <1> QED
    BY <1>5, <1>6, <1>7, <1>8, <1>10, <1>11

\* The last thread to leave drops the lock of its name.
LEMMA MapInvDrop ==
    ASSUME MapInv, NEW t \in Thread, Drop(t)
    PROVE  MapInv'
  <1> DEFINE n == want[t].name
  <1> USE DEF MapInv, Drop, At, Goto, map, Unused
  <1>1. /\ n \in Name /\ want' = want /\ holders' = holders
        /\ filename_rwlock_map[n] \in Address
        /\ filename_rwlock_map[n] \in initialized
    BY DEF TypeOK, EntryInv
  <1>2. TypeOK'
    <2>1. /\ raced' \in SUBSET Thread
          /\ pc' \in [Thread -> Labels]
      BY DEF TypeOK, Looking, Labels
    <2>2. /\ filename_rwlock_map' \in [Name -> Address \cup {NoLock}]
          /\ filename_count' \in [Name -> Nat]
          /\ initialized' \in SUBSET Address
      BY <1>1 DEF TypeOK
    <2> QED
      BY <2>1, <2>2 DEF TypeOK, Labels
  <1>3. \A m : Counting(m)' = Counting(m)
    BY DEF TypeOK, Counting
  <1>4. \A m : HoldersFor(m)' = HoldersFor(m)
    BY DEF TypeOK, HoldersFor
  <1>5. MutexInv'
    <2>1. \A u \in Thread : pc[u] \in InMutex => u = t
      BY DEF MutexInv, InMutex
    <2> QED
      BY <2>1 DEF TypeOK, MutexInv, InMutex
  <1>6. CASE filename_count[n] = 0
    <2>1. Counting(n) = {}
      BY <1>1, <1>6, CountingFinite, FS_EmptySet DEF CountInv
    <2>2. /\ filename_rwlock_map' = [filename_rwlock_map EXCEPT ![n] = NoLock]
          /\ initialized' = initialized \ {filename_rwlock_map[n]}
          /\ filename_count' = filename_count
      BY <1>6 DEF TypeOK
    <2>3. CountInv'
      BY <1>3, <2>2 DEF CountInv
    <2>4. \A m \in Name \ {n} :
             /\ filename_rwlock_map'[m] = filename_rwlock_map[m]
             /\ filename_rwlock_map[m] # filename_rwlock_map[n]
      BY <1>1, <2>2, FileLockAssumption DEF TypeOK, EntryInv
    <2>5. filename_rwlock_map'[n] = NoLock
      BY <1>1, <2>2 DEF TypeOK
    <2>6. EntryInv'
      <3>1. \A m \in Name :
              /\ filename_rwlock_map'[m] # NoLock => filename_rwlock_map'[m] \in initialized'
              /\ \A u \in Counting(m) : filename_rwlock_map'[m] # NoLock
        BY <2>1, <2>2, <2>4, <2>5 DEF EntryInv
      <3>2. \A m \in Name :
               \/ filename_rwlock_map'[m] = NoLock
               \/ \E u \in Thread : want[u].name = m /\ pc'[u] \in CountedLabel \cup {"left"}
        BY <1>1, <2>4, <2>5 DEF EntryInv, TypeOK
      <3>3. \A u \in Thread : pc'[u] = "left" => filename_rwlock_map'[want[u].name] # NoLock
        BY <1>1 DEF TypeOK, MutexInv, InMutex
      <3>4. \A a \in initialized' : \E m \in Name : filename_rwlock_map'[m] = a
        BY <2>2, <2>4 DEF EntryInv
      <3>5. \A m, l \in Name :
               filename_rwlock_map'[m] = filename_rwlock_map'[l]
                 /\ filename_rwlock_map'[m] # NoLock => m = l
        BY <2>4, <2>5 DEF EntryInv
      <3> QED
        BY <1>1, <1>3, <3>1, <3>2, <3>3, <3>4, <3>5 DEF EntryInv
    <2>7. HoldersInv'
      BY <1>1, <1>4, <2>4, <2>5 DEF HoldersInv
    <2>8. LookupStaysValid'
      <3>1. \A u \in Thread : pc[u] \in {"wait", "hold", "leave"} => want[u].name # n
        BY <2>1 DEF Counting
      <3> QED
        BY <1>1, <2>4, <3>1 DEF TypeOK, LookupStaysValid
    <2> QED
      BY <1>2, <1>5, <2>3, <2>6, <2>7, <2>8
  <1>7. CASE filename_count[n] # 0
    <2>1. /\ filename_rwlock_map' = filename_rwlock_map
          /\ initialized' = initialized
          /\ filename_count' = filename_count
      BY <1>7
    <2>2. CountInv'
      BY <1>3, <2>1 DEF CountInv
    <2>3. Counting(n) # {}
      BY <1>1, <1>7, FS_EmptySet DEF CountInv
    <2>4. EntryInv'
      <3>1. \A m \in Name :
               \/ filename_rwlock_map'[m] = NoLock
               \/ \E u \in Thread : want[u].name = m /\ pc'[u] \in CountedLabel \cup {"left"}
        <4> SUFFICES ASSUME NEW m \in Name, filename_rwlock_map[m] # NoLock
                     PROVE  \E u \in Thread : want[u].name = m
                                                /\ pc'[u] \in CountedLabel \cup {"left"}
          BY <2>1
        <4>1. CASE m = n
          BY <2>3, <4>1, <1>1 DEF Counting, CountedLabel, TypeOK
        <4>2. CASE m # n
          BY <4>2, <1>1 DEF EntryInv, TypeOK
        <4> QED
          BY <4>1, <4>2
      <3>2. \A u \in Thread : pc'[u] = "left" => pc[u] = "left"
        BY DEF TypeOK
      <3> QED
        BY <1>1, <1>3, <2>1, <3>1, <3>2 DEF EntryInv
    <2>5. HoldersInv'
      BY <1>1, <1>4, <2>1 DEF HoldersInv
    <2>6. LookupStaysValid'
      BY <1>1, <2>1 DEF TypeOK, LookupStaysValid
    <2> QED
      BY <1>2, <1>5, <2>2, <2>4, <2>5, <2>6
  <1> QED
    BY <1>6, <1>7

\* The process dies at a lookup that missed its lock.
LEMMA MapInvMiss ==
    ASSUME MapInv, NEW t \in Thread, MissLookup(t)
    PROVE  MapInv'
  <1> USE DEF MapInv, MissLookup
  <1>1. \A n : Counting(n)' = {}
    BY DEF Counting
  <1>2. CountInv'
    BY <1>1, FS_EmptySet DEF CountInv
  <1>3. TypeOK'
    BY DEF TypeOK
  <1> QED
    BY <1>1, <1>2, <1>3 DEF MutexInv, EntryInv, HoldersInv, LookupStaysValid, InMutex

LEMMA MapInvStep == MapInv /\ [Next]_vars => MapInv'
  <1> SUFFICES ASSUME MapInv, [Next]_vars PROVE MapInv'
    OBVIOUS
  <1>1. CASE UNCHANGED vars
    <2>1. \A n : Counting(n)' = Counting(n) /\ HoldersFor(n)' = HoldersFor(n)
      BY <1>1 DEF Counting, HoldersFor, vars
    <2> QED
      BY <1>1, <2>1 DEF vars, map, MapInv, TypeOK, MutexInv, CountInv, EntryInv,
         HoldersInv, LookupStaysValid
  <1>2. ASSUME NEW t \in Thread, Call(t) \/ Step(t)
        PROVE  MapInv'
    BY <1>2, MapInvTakeMutex, MapInvEnter, MapInvLookup, MapInvTakeLock,
       MapInvLeave, MapInvDrop, MapInvMiss DEF Step
  <1> QED
    BY <1>1, <1>2 DEF Next, Finished

LEMMA MapInvAlways == Spec => []MapInv
  BY MapInvInit, MapInvStep, PTL DEF Spec

-----------------------------------------------------------------------------
\* Every count is that of the threads that count on the lock, and a lock
\* lives as long as one does, no longer, and for one name only
\* (filelock_start and filelock_end, fs.cc:160-187).
THEOREM LocksLiveAlways == Spec => []LocksLiveWhileCounted
  <1>1. MapInv => LocksLiveWhileCounted
    <2> SUFFICES ASSUME MapInv PROVE LocksLiveWhileCounted
      OBVIOUS
    <2>1. ASSUME NEW n \in Name, Counting(n) = {}, the_mutex = {}
          PROVE  filename_rwlock_map[n] = NoLock
      BY <2>1 DEF MapInv, EntryInv, MutexInv, Counting, CountedLabel, InMutex
    <2> QED
      BY <2>1 DEF MapInv, EntryInv, CountInv, LocksLiveWhileCounted
  <1> QED
    BY <1>1, MapInvAlways, PTL

\* The lock that a thread looked up outside the_mutex (fs.cc:170, 172) is
\* still that of its name when it gets and releases it.
THEOREM LookupStaysValidAlways == Spec => []LookupStaysValid
  <1>1. MapInv => LookupStaysValid
    BY DEF MapInv
  <1> QED
    BY <1>1, MapInvAlways, PTL

\* Counts do not wrap below zero and every variable keeps its type.
THEOREM LockTypesCorrect == Spec => []TypeOK
  <1>1. MapInv => TypeOK
    BY DEF MapInv
  <1> QED
    BY <1>1, MapInvAlways, PTL

-----------------------------------------------------------------------------
(* The refinement: under MapInv, what RWLocks calls held is HoldersFor.    *)

LEMMA HeldForIs == MapInv => \A n \in Name : HeldFor(n) = HoldersFor(n)
  <1> SUFFICES ASSUME MapInv, NEW n \in Name PROVE HeldFor(n) = HoldersFor(n)
    OBVIOUS
  <1>1. CASE filename_rwlock_map[n] = NoLock
    BY <1>1 DEF MapInv, EntryInv, HeldFor, HoldersFor, Counting
  <1>2. CASE filename_rwlock_map[n] # NoLock
    BY <1>2 DEF MapInv, HoldersInv, HeldFor
  <1> QED
    BY <1>1, <1>2

LEMMA HeldForStaysSo == MapInv' => (\A n \in Name : HeldFor(n) = HoldersFor(n))'
  BY HeldForIs, PTL

\* Steps that a caller does not see.
LEMMA HiddenSteps ==
    ASSUME MapInv, MapInv', NEW t \in Thread,
           \/ StartMutex(t) \/ Enter(t) \/ BeginLookup(t) \/ EndLookup(t)
           \/ EndMutex(t) \/ Drop(t)
    PROVE  UNCHANGED Locks!lockVars
  <1> USE DEF StartMutex, Enter, BeginLookup, EndLookup, EndMutex, Drop, At, Goto
  <1>1. pc \in [Thread -> Labels] /\ want' = want
    BY DEF MapInv, TypeOK, Labels
  <1>2. \A n : HoldersFor(n)' = HoldersFor(n)
    BY <1>1 DEF HoldersFor
  <1>3. \A n \in Name : HeldFor(n)' = HeldFor(n)
    BY <1>2, HeldForIs, HeldForStaysSo
  <1>4. \A u \in Thread : PhaseOf(u)' = PhaseOf(u)
    BY <1>1 DEF PhaseOf
  <1> QED
    BY <1>1, <1>3, <1>4 DEF Locks!lockVars

LEMMA CallAsks ==
    ASSUME MapInv, MapInv', NEW t \in Thread, Call(t)
    PROVE  Locks!Ask(t)
  <1> USE DEF Call, At, Goto
  <1>1. pc \in [Thread -> Labels] /\ want' = want
    BY DEF MapInv, TypeOK, Labels
  <1>2. \A n : HoldersFor(n)' = HoldersFor(n)
    BY <1>1 DEF HoldersFor
  <1>3. \A n \in Name : HeldFor(n)' = HeldFor(n)
    BY <1>2, HeldForIs, HeldForStaysSo
  <1>4. [u \in Thread |-> PhaseOf(u)'] = [[u \in Thread |-> PhaseOf(u)] EXCEPT ![t] = "waiting"]
    BY <1>1 DEF PhaseOf
  <1>5. PhaseOf(t) = "new"
    BY DEF PhaseOf
  <1> QED
    BY <1>1, <1>3, <1>4, <1>5 DEF Locks!Ask, Locks!Become

LEMMA TakeLockTakes ==
    ASSUME MapInv, MapInv', NEW t \in Thread, TakeLock(t)
    PROVE  Locks!Take(t)
  <1> DEFINE n == want[t].name
             h == Holder(t, want[t].mode)
  <1> USE DEF TakeLock, At, Goto
  <1>1. /\ pc \in [Thread -> Labels] /\ want' = want
        /\ n \in Name /\ found[t] = filename_rwlock_map[n] /\ found[t] # NoLock
    BY DEF MapInv, TypeOK, Labels, LookupStaysValid
  <1>2. /\ HoldersFor(n)' = HoldersFor(n) \cup {h}
        /\ \A m \in Name \ {n} : HoldersFor(m)' = HoldersFor(m)
    BY <1>1 DEF HoldersFor
  <1>3. [m \in Name |-> HeldFor(m)'] = [[m \in Name |-> HeldFor(m)] EXCEPT ![n] = @ \cup {h}]
    BY <1>1, <1>2, HeldForIs, HeldForStaysSo
  <1>4. [u \in Thread |-> PhaseOf(u)'] = [[u \in Thread |-> PhaseOf(u)] EXCEPT ![t] = "holding"]
    BY <1>1 DEF PhaseOf
  <1>5. PhaseOf(t) = "waiting"
    BY DEF PhaseOf
  <1>6. Locks!Grantable(HeldFor(n), want[t].mode)
    BY <1>1 DEF HeldFor, Grantable, Locks!Grantable
  <1>7. h = Locks!Holder(t, want[t].mode)
    BY DEF Holder, Locks!Holder
  <1> QED
    BY <1>1, <1>3, <1>4, <1>5, <1>6, <1>7 DEF Locks!Take, Locks!Become

LEMMA LeaveReleases ==
    ASSUME MapInv, MapInv', NEW t \in Thread, Leave(t)
    PROVE  Locks!Release(t)
  <1> DEFINE n == want[t].name
  <1> USE DEF Leave, At, Goto
  <1>1. pc \in [Thread -> Labels] /\ want' = want /\ n \in Name
    BY DEF MapInv, TypeOK, Labels
  <1>2. /\ HoldersFor(n)' = {h \in HoldersFor(n) : h.thread # t}
        /\ \A m \in Name \ {n} : HoldersFor(m)' = HoldersFor(m)
    BY <1>1 DEF HoldersFor, Holder
  <1>3. [m \in Name |-> HeldFor(m)']
          = [[m \in Name |-> HeldFor(m)] EXCEPT ![n] = {h \in @ : h.thread # t}]
    BY <1>1, <1>2, HeldForIs, HeldForStaysSo
  <1>4. [u \in Thread |-> PhaseOf(u)'] = [[u \in Thread |-> PhaseOf(u)] EXCEPT ![t] = "done"]
    BY <1>1 DEF PhaseOf
  <1>5. PhaseOf(t) = "holding"
    BY DEF PhaseOf
  <1> QED
    BY <1>1, <1>3, <1>4, <1>5 DEF Locks!Release, Locks!Become

LEMMA MissLoses ==
    ASSUME NEW t \in Thread, MissLookup(t)
    PROVE  Locks!Lost
  BY DEF MissLookup, HeldFor, PhaseOf, Locks!Lost

\* To its callers, filelock_start and filelock_end are one read-write lock
\* per name, for any number of threads, names and addresses: a call takes
\* effect at one step, and nobody locks an object that was destroyed.
THEOREM FileLockImplementsLocks == Spec => ImplementsLocks
  <1>1. Init => Locks!LocksInit
    BY DEF Init, HeldFor, PhaseOf, Mode, Locks!LocksInit, Locks!Mode
  <1>2. MapInv /\ MapInv' /\ [Next]_vars => [Locks!LocksNext]_(Locks!lockVars)
    <2> SUFFICES ASSUME MapInv, MapInv', [Next]_vars
                 PROVE  [Locks!LocksNext]_(Locks!lockVars)
      OBVIOUS
    <2>1. CASE UNCHANGED vars
      BY <2>1 DEF vars, map, HeldFor, PhaseOf, Locks!lockVars
    <2>2. ASSUME NEW t \in Thread, Call(t) \/ Step(t)
          PROVE  [Locks!LocksNext]_(Locks!lockVars)
      BY <2>2, HiddenSteps, CallAsks, TakeLockTakes, LeaveReleases, MissLoses
         DEF Step, Locks!LocksNext
    <2> QED
      BY <2>1, <2>2 DEF Next, Finished
  <1> QED
    BY <1>1, <1>2, MapInvAlways, PTL DEF Spec, ImplementsLocks, Locks!LocksSpec
=============================================================================
