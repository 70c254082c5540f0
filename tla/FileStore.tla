----------------------------- MODULE FileStore ------------------------------
(***************************************************************************)
(* What the file server promises its clients (fs_client.h): a set of named *)
(* files, each with an owner and its bytes, on which every request takes   *)
(* effect at one instant between its call and its answer, or not at all.   *)
(* A refused request has no effect, and a refusal for what a file is or    *)
(* contains was true at some instant of the request.  A crash takes the    *)
(* pending calls, never the effect of one that was answered.               *)
(***************************************************************************)
EXTENDS Integers, Sequences

CONSTANTS
    Thread,     \* the connections
    Request     \* what clients ask

VARIABLES
    files,      \* the files that exist: name -> owner and bytes
    ask,        \* for each connection, its request
    phase,      \* for each connection, how far its request is
    answer      \* for each connection, the bytes a read returns

storeVars == << files, ask, phase, answer >>

Phase == {"idle", "pending", "ok", "invalid", "no_file", "not_owner",
          "out_of_range", "no_space", "exists", "no_inode_space",
          "no_dir_space", "gone"}

NothingAsked == [op |-> "none"]

\* No file exists, and no connection was made.
StoreInit ==
    /\ files = << >>
    /\ ask = [t \in Thread |-> NothingAsked]
    /\ phase = [t \in Thread |-> "idle"]
    /\ answer = [t \in Thread |-> << >>]

Exists(n) == n \in DOMAIN files

Call(t, r) ==
    /\ phase[t] = "idle"
    /\ ask' = [ask EXCEPT ![t] = r]
    /\ \E p \in {"pending", "invalid"} : phase' = [phase EXCEPT ![t] = p]
    /\ UNCHANGED << files, answer >>

Pending(t, op) == phase[t] = "pending" /\ ask[t].op = op

Done(t, why) ==
    /\ phase' = [phase EXCEPT ![t] = why]
    /\ UNCHANGED ask

Create(t) ==
    LET r == ask[t] IN
    /\ Pending(t, "create")
    /\ ~Exists(r.name)
    /\ files' = [n \in DOMAIN files \cup {r.name} |->
                   IF n = r.name THEN [owner |-> r.user, data |-> << >>]
                                 ELSE files[n]]
    /\ Done(t, "ok")
    /\ UNCHANGED answer

Owned(r) == Exists(r.name) /\ files[r.name].owner = r.user

AppendTo(t) ==
    LET r == ask[t] IN
    /\ Pending(t, "append")
    /\ Owned(r)
    /\ files' = [files EXCEPT ![r.name].data = @ \o r.data]
    /\ Done(t, "ok")
    /\ UNCHANGED answer

Delete(t) ==
    LET r == ask[t] IN
    /\ Pending(t, "delete")
    /\ Owned(r)
    /\ files' = [n \in DOMAIN files \ {r.name} |-> files[n]]
    /\ Done(t, "ok")
    /\ UNCHANGED answer

InRange(r) == r.offset + r.size <= Len(files[r.name].data)

Read(t) ==
    LET r == ask[t] IN
    /\ Pending(t, "read")
    /\ Owned(r) /\ InRange(r)
    /\ answer' = [answer EXCEPT ![t] =
                     SubSeq(files[r.name].data, r.offset + 1, r.offset + r.size)]
    /\ Done(t, "ok")
    /\ UNCHANGED files

\* The refusals a client can be given, and when each is true.
MayRefuse(t, why) ==
    LET r == ask[t] IN
    CASE why = "no_file" -> r.op # "create" /\ ~Exists(r.name)
      [] why = "exists" -> r.op = "create" /\ Exists(r.name)
      [] why = "not_owner" -> Exists(r.name) /\ ~Owned(r)
      [] why = "out_of_range" -> r.op = "read" /\ Owned(r) /\ ~InRange(r)
      [] why = "no_space" -> r.op = "append"
      [] why \in {"no_inode_space", "no_dir_space"} -> r.op = "create"

Refuse(t) ==
    /\ phase[t] = "pending"
    /\ \E why \in Phase \ {"idle", "pending", "ok", "invalid", "gone"} :
         MayRefuse(t, why) /\ Done(t, why)
    /\ UNCHANGED << files, answer >>

Return(t) ==
    /\ phase[t] \notin {"idle", "pending", "gone"}
    /\ phase' = [phase EXCEPT ![t] = "gone"]
    /\ ask' = [ask EXCEPT ![t] = NothingAsked]
    /\ answer' = [answer EXCEPT ![t] = << >>]
    /\ UNCHANGED files

StoreCrash ==
    /\ phase' = [t \in Thread |-> IF phase[t] = "idle" THEN "idle" ELSE "gone"]
    /\ ask' = [t \in Thread |-> NothingAsked]
    /\ answer' = [t \in Thread |-> << >>]
    /\ UNCHANGED files

StoreNext ==
    \/ \E t \in Thread : \/ \E r \in Request : Call(t, r)
                         \/ Create(t) \/ AppendTo(t) \/ Delete(t) \/ Read(t)
                         \/ Refuse(t) \/ Return(t)
    \/ StoreCrash

StoreSpec == StoreInit /\ [][StoreNext]_storeVars
=============================================================================
