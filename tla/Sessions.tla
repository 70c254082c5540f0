------------------------------ MODULE Sessions ------------------------------
(***************************************************************************)
(* Sessions and sequence numbers of run_request (fs.cc): FS_SESSION, and   *)
(* the check that every other request passes before its handler.           *)
(*                                                                         *)
(* Both are one critical section of error_check_lock, so one step.  A      *)
(* connection carries one message.  Clients may send any message, on any   *)
(* number of connections: one they sent before, when an answer is lost, or *)
(* one whose session number they were not given.                           *)
(***************************************************************************)
EXTENDS Integers

CONSTANTS
    Connection,     \* the connections of a run
    Message,        \* what clients send
    SessionCount,   \* how many numbers an unsigned int has
    MaxLife         \* bound on the lives of the server: it may die and restart

ASSUME SessionAssumption ==
    /\ SessionCount \in Nat \ {0}
    /\ \A m \in Message : m.session \in 0 .. SessionCount - 1 /\ m.seq \in Nat
    /\ MaxLife \in Nat

VARIABLES
    session_user_map,       \* for each session, whose it is
    session_sequence_map,   \* for each session, the last number accepted
    smallest_session,       \* the number of the next session
    session_free,           \* FALSE once every number was given
    life,                   \* the life of the server: its memory lasts one
    served                  \* for each connection, its message and what came of it

sessions == << session_user_map, session_sequence_map, smallest_session, session_free >>
sessionVars == << sessions, life, served >>

Session == 0 .. SessionCount - 1

Unsigned(i) == i % SessionCount

Put(f, k, v) == [x \in DOMAIN f \cup {k} |-> IF x = k THEN v ELSE f[x]]

\* A connection is new, or was served: the life of the server, the message,
\* the fate of the request and the session number it is about.
New == [fate |-> "new"]
Serve(c, m, fate, session) ==
    served' = [served EXCEPT ![c] =
        [fate |-> fate, life |-> life, user |-> m.user, session |-> session, seq |-> m.seq]]

IsNew(c) == served[c].fate = "new"

SessionsInit ==
    /\ session_user_map = << >>
    /\ session_sequence_map = << >>
    /\ smallest_session = 0
    /\ session_free = TRUE
    /\ life = 0
    /\ served = [c \in Connection |-> New]

\* (Mutant of FreeAfter: the wrap to 0 goes unnoticed.)
FreeForEver(next) == TRUE

FreeAfter(next) == next # 0

\* FS_SESSION: the next number, answered as smallest_session - 1, or none.
NewSession(c, m) ==
    /\ IsNew(c) /\ m.op = "session"
    /\ \/ /\ session_free
          /\ session_user_map' = Put(session_user_map, smallest_session, m.user)
          /\ session_sequence_map' = Put(session_sequence_map, smallest_session, m.seq)
          /\ smallest_session' = Unsigned(smallest_session + 1)
          /\ session_free' = FreeAfter(smallest_session')
          /\ Serve(c, m, "session", Unsigned(smallest_session' - 1))
       \/ /\ ~session_free
          /\ Serve(c, m, "refused", m.session)
          /\ UNCHANGED sessions
    /\ UNCHANGED life

\* (Mutant of Owns: any user may use a session.)
Exists(m) == m.session \in DOMAIN session_user_map

Owns(m) ==
    /\ m.session \in DOMAIN session_user_map
    /\ session_user_map[m.session] = m.user

\* (Mutants of Follows: the number accepted last is accepted again; the
\* numbers are not compared.)
FollowsOrRepeats(m) == m.seq >= session_sequence_map[m.session]
FollowsAnything(m) == m.session \in DOMAIN session_sequence_map

Follows(m) == m.seq > session_sequence_map[m.session]

\* The check passes: the sequence number is recorded, whatever the handler
\* finds wrong with the request later.
Admit(c, m) ==
    /\ IsNew(c) /\ m.op # "session"
    /\ Owns(m) /\ Follows(m)
    /\ session_sequence_map' = [session_sequence_map EXCEPT ![m.session] = m.seq]
    /\ Serve(c, m, "admitted", m.session)
    /\ UNCHANGED << session_user_map, smallest_session, session_free, life >>

\* The check fails: the connection is closed.
Refuse(c, m) ==
    /\ IsNew(c) /\ m.op # "session"
    /\ ~(Owns(m) /\ Follows(m))
    /\ Serve(c, m, "refused", m.session)
    /\ UNCHANGED << sessions, life >>

\* The process dies and starts again: main() has no sessions.
Restart ==
    /\ life < MaxLife
    /\ life' = life + 1
    /\ session_user_map' = << >>
    /\ session_sequence_map' = << >>
    /\ smallest_session' = 0
    /\ session_free' = TRUE
    /\ UNCHANGED served

SessionsNext ==
    \/ Restart
    \/ \E c \in Connection, m \in Message :
         NewSession(c, m) \/ Admit(c, m) \/ Refuse(c, m)

SessionsSpec == SessionsInit /\ [][SessionsNext]_sessionVars

-----------------------------------------------------------------------------
(* Properties                                                              *)

Given == {c \in Connection : served[c].fate = "session"}
Admitted == {c \in Connection : served[c].fate = "admitted"}

\* In a life of the server no session number is given twice, to clients that
\* ask at the same time or after all numbers were used (fs.cc:336-347).
NumbersGivenOnce ==
    \A c, d \in Given :
        served[c].life = served[d].life /\ served[c].session = served[d].session
            => c = d

\* A request is admitted only under a session that the server gave to the
\* same user in the same life, with a higher number than the one it was
\* opened with: no client acts in the session of another.
AdmittedUnderOwnSession ==
    \A c \in Admitted : \E d \in Given :
        /\ served[d].life = served[c].life
        /\ served[d].session = served[c].session
        /\ served[d].user = served[c].user
        /\ served[d].seq < served[c].seq

\* Of the requests admitted under a session, each has its own number: one
\* that is sent again, or overtaken by a later one, is not admitted twice.
AdmittedOnce ==
    \A c, d \in Admitted :
        /\ served[c].life = served[d].life
        /\ served[c].session = served[d].session
        /\ served[c].seq = served[d].seq
        => c = d

\* Requests of a session are admitted in the order of their numbers, in
\* whatever order their connections arrive.
AdmittedInOrder ==
    [][\A c \in Admitted' \ Admitted, d \in Admitted :
         served'[c].life = served[d].life /\ served'[c].session = served[d].session
            => served[d].seq < served'[c].seq]_sessionVars
=============================================================================
