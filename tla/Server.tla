------------------------------- MODULE Server -------------------------------
(***************************************************************************)
(* The server as its clients see it: the sessions of Sessions in front of  *)
(* the store of FileStore, which the handlers implement.  A message that   *)
(* is admitted becomes a request of the store on the same connection; the  *)
(* store may then refuse it, and its sequence number is used up.           *)
(***************************************************************************)
EXTENDS Sessions, Sequences, FiniteSets

\* What a message carries is a sequence.
Data == UNION {{m.data[i] : i \in DOMAIN m.data} : m \in Message}

ASSUME DataAssumption == \A m \in Message : m.data \in Seq(Data)

VARIABLES files, ask, phase, answer

storeVars == << files, ask, phase, answer >>
serverVars == << sessionVars, storeVars >>

\* The handlers take the user from the header of the message.
RequestOf(m) == [op |-> m.op, user |-> m.user, name |-> m.name,
                 offset |-> m.offset, size |-> m.size, data |-> m.data]

Store == INSTANCE FileStore WITH
    Thread <- Connection,
    Request <- {RequestOf(m) : m \in {n \in Message : n.op # "session"}}

ServerInit == SessionsInit /\ Store!StoreInit

FsSession(c, m) == NewSession(c, m) /\ UNCHANGED storeVars

Fs(op, c, m) ==
    /\ m.op = op
    /\ \/ Admit(c, m) /\ Store!Call(c, RequestOf(m))
       \/ Refuse(c, m) /\ UNCHANGED storeVars

FsRead(c, m) == Fs("read", c, m)
FsAppend(c, m) == Fs("append", c, m)
FsCreate(c, m) == Fs("create", c, m)
FsDelete(c, m) == Fs("delete", c, m)

\* The handler of a connection goes on.
Handle(c) ==
    /\ \/ Store!Create(c) \/ Store!AppendTo(c) \/ Store!Delete(c)
       \/ Store!Read(c) \/ Store!Refuse(c) \/ Store!Return(c)
    /\ UNCHANGED sessionVars

ServerRestart == Restart /\ Store!StoreCrash

ServerNext ==
    \/ ServerRestart
    \/ \E c \in Connection :
         \/ Handle(c)
         \/ \E m \in Message :
              \/ FsSession(c, m) \/ FsRead(c, m) \/ FsAppend(c, m)
              \/ FsCreate(c, m) \/ FsDelete(c, m)

ServerSpec == ServerInit /\ [][ServerNext]_serverVars

-----------------------------------------------------------------------------
(* Properties                                                              *)

\* Which message a byte of a file is from can be told from the byte.  The
\* server does not look at the bytes, so they may serve as labels.
BytesTellMessages ==
    \A m, n \in Message : \A i \in DOMAIN m.data, j \in DOMAIN n.data :
        m.data[i] = n.data[j] => m = n /\ i = j

\* An append that a client sends again, because it got no answer, is in the
\* file once for each life of the server at most: sequence numbers make the
\* retry safe, and a restart, which forgets them, does not.  (It supposes
\* BytesTellMessages.)
AppendedOncePerLife ==
    \A n \in DOMAIN files : \A d \in {files[n].data[i] : i \in DOMAIN files[n].data} :
        Cardinality({i \in DOMAIN files[n].data : files[n].data[i] = d}) <= life + 1
=============================================================================
