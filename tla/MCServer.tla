------------------------------ MODULE MCServer ------------------------------
(***************************************************************************)
(* An instance of Server for TLC: two users, two session numbers.          *)
(***************************************************************************)
EXTENDS Server, TLC

CONSTANTS Alice, Bob, F

Send(op, u, session, seq, data) ==
    [op |-> op, user |-> u, session |-> session, seq |-> seq,
     name |-> F, offset |-> 0, size |-> 1, data |-> data]

\* Both users open sessions; Alice uses number 0, and Bob 1 or hers.
Messages ==
    {Send("session", u, 0, 0, << >>) : u \in {Alice, Bob}}
      \cup {Send("create", Alice, 0, 1, << >>),
            Send("append", Alice, 0, 2, << "a" >>),
            Send("append", Alice, 1, 1, << "b" >>),
            Send("read", Alice, 0, 3, << >>),
            Send("read", Bob, 0, 2, << >>),
            Send("delete", Alice, 0, 3, << >>),
            Send("delete", Bob, 1, 1, << >>)}

ConnectionSymmetry == Permutations(Connection)

ASSUME MessagesAssumption == BytesTellMessages
=============================================================================
