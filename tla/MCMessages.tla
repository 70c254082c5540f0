----------------------------- MODULE MCMessages -----------------------------
(***************************************************************************)
(* An instance of Messages for TLC: numbers below 21, files of two bytes,  *)
(* headers of up to five bytes, and every message of up to six words of    *)
(* these, the empty one among them, with and without data.                 *)
(***************************************************************************)
EXTENDS Messages

MCHeaderChar == {"0", "1", "a", "space", "nul"}
Operation == {"FS_SESSION", "FS_READ", "FS_APPEND", "FS_CREATE", "FS_DELETE"}
MCChar == MCHeaderChar \cup Operation \cup {"2"}

MCValue == [c \in MCChar |-> CASE c = "0" -> 0 [] c = "1" -> 1 [] c = "2" -> 2
                               [] c = "space" -> -16 [] c = "nul" -> -48
                               [] OTHER -> 49]
MCLimit == << "2", "1" >>
MCUser == {<< "a" >>}

OperationWord == {<< op >> : op \in Operation \cup {"a"}} \cup {<< >>}
NumberWord == {<< >>, << "0" >>, << "2", "0" >>, << "2", "1" >>, << "0", "1" >>, << "a" >>}
ArgumentWord == {<< >>, << "0" >>, << "1" >>, << "2" >>, << "2", "0" >>, << "2", "1" >>}

Start == {<< op, session, seq >> :
            op \in OperationWord, session \in NumberWord, seq \in NumberWord}
Arguments == UNION {[1 .. n -> ArgumentWord] : n \in 0 .. 3}
WordLists == {s \o args : s \in Start, args \in Arguments}
               \cup {SubSeq(s, 1, n) : s \in Start, n \in 1 .. 2}

MCComposed == [words : WordLists, data : {<< >>, << "a" >>, << "a", "nul" >>}]
MCNoise == {<< >>} \cup {Joined(s) : s \in Start}
=============================================================================
