---------------------------- MODULE MCFileServer ----------------------------
(***************************************************************************)
(* Instances of FileServer for TLC: what the clients of each run ask.      *)
(***************************************************************************)
EXTENDS FileServerStore, TLC

CONSTANTS Alice, Bob, F, G, H

Ask(op, u, n) == [op |-> op, user |-> u, name |-> n,
                  offset |-> 0, size |-> 0, data |-> << >>]
AskRead(u, n, offset, size) ==
    [Ask("read", u, n) EXCEPT !.offset = offset, !.size = size]
AskAppend(u, n, data) == [Ask("append", u, n) EXCEPT !.data = data]

\* Two users and two names; a read and an append that cross a block, an
\* append that fills one, a bad name, and a delete by another user.
MixedRequests ==
    {Ask("create", Alice, F), Ask("create", Bob, G), Ask("create", Bob, H),
     Ask("delete", Alice, F), Ask("delete", Bob, G), Ask("delete", Alice, G),
     AskRead(Alice, F, 1, 2), AskAppend(Alice, F, << "a", "b", "a" >>),
     AskAppend(Alice, F, << "b" >>), AskAppend(Bob, F, << "b" >>)}

\* More files than the directory holds, appends to the limit of a file.
LimitRequests ==
    {Ask("create", Alice, n) : n \in {F, G, H}}
      \cup {AskAppend(Alice, F, << "a", "b", "a" >>), AskAppend(Alice, G, << "b" >>),
            AskRead(Alice, F, 3, 1), AskRead(Bob, F, 0, 1), Ask("delete", Alice, F)}

\* One user creates files, one of them twice.
CreateRequests == {Ask("create", Alice, n) : n \in {F, G}}

ThreadSymmetry == Permutations(Thread)
=============================================================================
