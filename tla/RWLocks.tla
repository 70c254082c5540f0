------------------------------ MODULE RWLocks -------------------------------
(***************************************************************************)
(* What filelock_start and filelock_end promise their callers, and what    *)
(* FileServer takes file_lock for: a read-write lock for every file name.  *)
(* A call takes the lock at one instant before it returns.                 *)
(***************************************************************************)
CONSTANTS Thread, Name

VARIABLES
    held,   \* for each name, its holders and their modes
    want,   \* for each thread, the name and the mode it asks for
    phase   \* for each thread, how far it is

lockVars == << held, want, phase >>

Mode == {"read", "write"}

Holder(t, m) == [thread |-> t, mode |-> m]

\* A reader waits for writers, a writer for everybody.
Grantable(holds, m) ==
    IF m = "read" THEN \A h \in holds : h.mode # "write" ELSE holds = {}

LocksInit ==
    /\ held = [n \in Name |-> {}]
    /\ want \in [Thread -> [name : Name, mode : Mode]]
    /\ phase = [t \in Thread |-> "new"]

Become(t, p) ==
    /\ phase' = [phase EXCEPT ![t] = p]
    /\ UNCHANGED want

Ask(t) ==
    /\ phase[t] = "new"
    /\ Become(t, "waiting")
    /\ UNCHANGED held

Take(t) ==
    /\ phase[t] = "waiting"
    /\ Grantable(held[want[t].name], want[t].mode)
    /\ held' = [held EXCEPT ![want[t].name] = @ \cup {Holder(t, want[t].mode)}]
    /\ Become(t, "holding")

Release(t) ==
    /\ phase[t] = "holding"
    /\ held' = [held EXCEPT ![want[t].name] = {h \in @ : h.thread # t}]
    /\ Become(t, "done")

\* The process ends, and every lock with it.
Lost ==
    /\ held' = [n \in Name |-> {}]
    /\ phase' = [t \in Thread |-> "done"]
    /\ UNCHANGED want

LocksNext == Lost \/ \E t \in Thread : Ask(t) \/ Take(t) \/ Release(t)

LocksSpec == LocksInit /\ [][LocksNext]_lockVars
=============================================================================
