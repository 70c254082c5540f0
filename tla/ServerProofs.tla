---------------------------- MODULE ServerProofs ----------------------------
(***************************************************************************)
(* What sessions promise, for every set of connections and messages, every *)
(* number of session numbers and any restarts.                             *)
(*                                                                         *)
(* SessionsInv says what the maps know of the connections served in this   *)
(* life of the server: whose each session is, that the number recorded is  *)
(* at least every number admitted, and that each session was given to      *)
(* somebody.  While session_free, the sessions are the numbers below       *)
(* smallest_session, so the next number is new.                            *)
(***************************************************************************)
EXTENDS Server, FiniteSetTheorems, TLAPS

Known == DOMAIN session_user_map

Serving == [fate : {"session", "admitted", "refused"}, life : Nat,
            user : {m.user : m \in Message}, session : Session, seq : Nat]

SessionsTypeOK ==
    /\ life \in Nat
    /\ smallest_session \in Session
    /\ session_free \in BOOLEAN
    /\ Known \subseteq Session
    /\ session_user_map \in [Known -> {m.user : m \in Message}]
    /\ session_sequence_map \in [Known -> Nat]
    /\ served \in [Connection -> {New} \cup Serving]

LiveSession(c) ==
    /\ served[c].session \in Known
    /\ session_user_map[served[c].session] = served[c].user
    /\ served[c].seq <= session_sequence_map[served[c].session]

Recorded ==
    \A c \in Given \cup Admitted :
        /\ served[c].life <= life
        /\ served[c].life = life => LiveSession(c)

GivenToSomebody ==
    \A s \in Known : \E d \in Given : served[d].life = life /\ served[d].session = s

SessionsInv ==
    /\ SessionsTypeOK
    /\ session_free => Known = {s \in Session : s < smallest_session}
    /\ Recorded /\ GivenToSomebody
    /\ NumbersGivenOnce /\ AdmittedUnderOwnSession /\ AdmittedOnce

-----------------------------------------------------------------------------
\* The arithmetic of smallest_session: the next number, and the answer.
LEMMA NextNumber ==
    ASSUME NEW n \in Session
    PROVE  /\ Unsigned(n + 1) = IF n + 1 = SessionCount THEN 0 ELSE n + 1
           /\ Unsigned(Unsigned(n + 1) - 1) = n
  <1> USE SessionAssumption DEF Session, Unsigned
  <1>1. ASSUME NEW i \in Int, NEW q \in Int, NEW r \in 0 .. SessionCount - 1,
               i = SessionCount * q + r
        PROVE  i % SessionCount = r
    BY <1>1
  <1>2. CASE n + 1 = SessionCount
    <2>1. (n + 1) % SessionCount = 0
      BY <1>2, <1>1, n + 1 = SessionCount * 1 + 0
    <2>2. (0 - 1) % SessionCount = SessionCount - 1
      BY <1>1, 0 - 1 = SessionCount * (0 - 1) + (SessionCount - 1)
    <2> QED
      BY <1>2, <2>1, <2>2
  <1>3. CASE n + 1 # SessionCount
    <2>1. (n + 1) % SessionCount = n + 1
      BY <1>3, <1>1, n + 1 = SessionCount * 0 + (n + 1)
    <2>2. n % SessionCount = n
      BY <1>1, n = SessionCount * 0 + n
    <2> QED
      BY <1>3, <2>1, <2>2
  <1> QED
    BY <1>2, <1>3

LEMMA SessionsInvInit == SessionsInit => SessionsInv
  BY SessionAssumption
     DEF SessionsInit, SessionsInv, SessionsTypeOK, Known, Session, Serving, New,
         Recorded, GivenToSomebody, Given, Admitted, NumbersGivenOnce,
         AdmittedUnderOwnSession, AdmittedOnce

\* Serving one connection leaves the others as they were.
LEMMA OthersStay ==
    ASSUME SessionsInv, NEW c \in Connection, NEW m \in Message, IsNew(c),
           NEW fate \in {"session", "admitted", "refused"}, NEW s \in Session,
           Serve(c, m, fate, s)
    PROVE  /\ c \notin Given \cup Admitted
           /\ served'[c] = [fate |-> fate, life |-> life, user |-> m.user,
                            session |-> s, seq |-> m.seq]
           /\ \A d \in Connection \ {c} : served'[d] = served[d]
           /\ Given' = IF fate = "session" THEN Given \cup {c} ELSE Given
           /\ Admitted' = IF fate = "admitted" THEN Admitted \cup {c} ELSE Admitted
           /\ served' \in [Connection -> {New} \cup Serving]
  <1>1. /\ served \in [Connection -> {New} \cup Serving]
        /\ life \in Nat /\ m.seq \in Nat
    BY SessionAssumption DEF SessionsInv, SessionsTypeOK
  <1>2. c \notin Given \cup Admitted
    BY DEF IsNew, Given, Admitted
  <1>3. /\ served'[c] = [fate |-> fate, life |-> life, user |-> m.user,
                         session |-> s, seq |-> m.seq]
        /\ \A d \in Connection \ {c} : served'[d] = served[d]
    BY <1>1 DEF Serve
  <1>4. served'[c] \in Serving
    BY <1>1, <1>3 DEF Serving
  <1>5. served' \in [Connection -> {New} \cup Serving]
    BY <1>1, <1>4 DEF Serve
  <1>6. Given' = IF fate = "session" THEN Given \cup {c} ELSE Given
    BY <1>2, <1>3 DEF Given
  <1>7. Admitted' = IF fate = "admitted" THEN Admitted \cup {c} ELSE Admitted
    BY <1>2, <1>3 DEF Admitted
  <1> QED
    BY <1>2, <1>3, <1>5, <1>6, <1>7

\* A request that is refused changes no session.
LEMMA SessionsInvRefused ==
    ASSUME SessionsInv, NEW c \in Connection, NEW m \in Message, IsNew(c),
           Serve(c, m, "refused", m.session), UNCHANGED << sessions, life >>
    PROVE  SessionsInv'
  <1>1. m.session \in Session
    BY SessionAssumption DEF Session
  <1>2. /\ c \notin Given \cup Admitted
        /\ \A d \in Connection \ {c} : served'[d] = served[d]
        /\ Given' = Given /\ Admitted' = Admitted
        /\ served' \in [Connection -> {New} \cup Serving]
    BY <1>1, OthersStay
  <1>3. \A d \in Given \cup Admitted : d \in Connection \ {c} /\ served'[d] = served[d]
    BY <1>2 DEF Given, Admitted
  <1>4. SessionsTypeOK'
    BY <1>2 DEF SessionsInv, SessionsTypeOK, sessions, Known
  <1>5. Recorded'
    BY <1>2, <1>3 DEF SessionsInv, Recorded, LiveSession, sessions, Known
  <1>6. GivenToSomebody'
    BY <1>2, <1>3 DEF SessionsInv, GivenToSomebody, sessions, Known
  <1>7. (NumbersGivenOnce /\ AdmittedUnderOwnSession /\ AdmittedOnce)'
    BY <1>2, <1>3 DEF SessionsInv, NumbersGivenOnce, AdmittedUnderOwnSession, AdmittedOnce
  <1> QED
    BY <1>4, <1>5, <1>6, <1>7 DEF SessionsInv, sessions, Known

\* FS_SESSION gives a number that nobody has in this life.
LEMMA SessionsInvNew ==
    ASSUME SessionsInv, NEW c \in Connection, NEW m \in Message, NewSession(c, m)
    PROVE  SessionsInv'
  <1>1. CASE ~session_free
    BY <1>1, SessionsInvRefused DEF NewSession
  <1>2. CASE session_free
    <2> DEFINE n == smallest_session
    <2>1. /\ n \in Session /\ n \notin Known
          /\ Known = {s \in Session : s < n}
      BY <1>2, SessionAssumption DEF SessionsInv, SessionsTypeOK, Session
    <2>2. /\ session_user_map' = Put(session_user_map, n, m.user)
          /\ session_sequence_map' = Put(session_sequence_map, n, m.seq)
          /\ smallest_session' = Unsigned(n + 1)
          /\ session_free' = (smallest_session' # 0)
          /\ Serve(c, m, "session", n)
          /\ IsNew(c) /\ life' = life
      BY <1>2, <2>1, NextNumber DEF NewSession, FreeAfter
    <2>3. /\ c \notin Given \cup Admitted
          /\ served'[c] = [fate |-> "session", life |-> life, user |-> m.user,
                           session |-> n, seq |-> m.seq]
          /\ Given' = Given \cup {c} /\ Admitted' = Admitted
          /\ served' \in [Connection -> {New} \cup Serving]
          /\ \A d \in Given \cup Admitted : served'[d] = served[d]
      <3>1. Given \cup Admitted \subseteq Connection
        BY DEF Given, Admitted
      <3> QED
        BY <3>1, <2>1, <2>2, OthersStay
    <2>4. /\ Known' = Known \cup {n}
          /\ \A s \in Known : /\ session_user_map'[s] = session_user_map[s]
                              /\ session_sequence_map'[s] = session_sequence_map[s]
          /\ session_user_map'[n] = m.user /\ session_sequence_map'[n] = m.seq
      BY <2>1, <2>2 DEF Known, Put, SessionsInv, SessionsTypeOK
    <2>5. SessionsTypeOK'
      <3>1. smallest_session' \in Session /\ session_free' \in BOOLEAN /\ life' \in Nat
        BY <2>1, <2>2, NextNumber, SessionAssumption DEF Session, SessionsInv, SessionsTypeOK
      <3>2. /\ session_user_map' \in [Known' -> {k.user : k \in Message}]
            /\ session_sequence_map' \in [Known' -> Nat]
        BY <2>1, <2>2, <2>4, SessionAssumption DEF Known, Put, SessionsInv, SessionsTypeOK
      <3> QED
        BY <2>1, <2>3, <2>4, <3>1, <3>2 DEF SessionsInv, SessionsTypeOK
    <2>6. (session_free => Known = {s \in Session : s < smallest_session})'
      <3>1. Unsigned(n + 1) = IF n + 1 = SessionCount THEN 0 ELSE n + 1
        BY <2>1, NextNumber
      <3>2. CASE n + 1 = SessionCount
        BY <3>1, <3>2, <2>2
      <3>3. CASE n + 1 # SessionCount
        <4>1. smallest_session' = n + 1
          BY <3>1, <3>3, <2>2
        <4>2. Known \cup {n} = {s \in Session : s < n + 1}
          BY <2>1 DEF Session
        <4> QED
          BY <4>1, <4>2, <2>4
      <3> QED
        BY <3>2, <3>3
    <2>7. Recorded'
      <3>1. ASSUME NEW d \in Given \cup Admitted
            PROVE  /\ served'[d].life <= life'
                   /\ served'[d].life = life' => LiveSession(d)'
        BY <3>1, <2>2, <2>3, <2>4 DEF SessionsInv, Recorded, LiveSession
      <3>2. /\ served'[c].life <= life'
            /\ served'[c].life = life' => LiveSession(c)'
        BY <2>2, <2>3, <2>4, SessionAssumption
           DEF SessionsInv, SessionsTypeOK, LiveSession
      <3> QED
        BY <3>1, <3>2, <2>3 DEF Recorded
    <2>8. GivenToSomebody'
      BY <2>2, <2>3, <2>4 DEF SessionsInv, GivenToSomebody
    <2>9. NumbersGivenOnce'
      <3>1. \A d \in Given : served[d].life = life => served[d].session # n
        BY <2>1 DEF SessionsInv, Recorded, LiveSession
      <3> QED
        BY <3>1, <2>3 DEF SessionsInv, NumbersGivenOnce
    <2>10. AdmittedUnderOwnSession'
      BY <2>3 DEF SessionsInv, AdmittedUnderOwnSession
    <2>11. AdmittedOnce'
      BY <2>3 DEF SessionsInv, AdmittedOnce
    <2> QED
      BY <2>5, <2>6, <2>7, <2>8, <2>9, <2>10, <2>11 DEF SessionsInv
  <1> QED
    BY <1>1, <1>2 DEF SessionsInv, SessionsTypeOK

\* A request admitted follows every request admitted under its session: the
\* number recorded is at least theirs.
LEMMA AdmitFollows ==
    ASSUME SessionsInv, NEW c \in Connection, NEW m \in Message, Admit(c, m)
    PROVE  /\ m.session \in Session /\ m.session \in Known
           /\ c \notin Given \cup Admitted
           /\ served'[c] = [fate |-> "admitted", life |-> life, user |-> m.user,
                            session |-> m.session, seq |-> m.seq]
           /\ Given' = Given /\ Admitted' = Admitted \cup {c}
           /\ served' \in [Connection -> {New} \cup Serving]
           /\ \A d \in Given \cup Admitted :
                /\ served'[d] = served[d]
                /\ served[d].life = life /\ served[d].session = m.session
                     => served[d].seq < m.seq /\ served[d].user = m.user
  <1>1. /\ m.session \in Session /\ m.session \in Known /\ m.seq \in Nat
        /\ session_user_map[m.session] = m.user
        /\ m.seq > session_sequence_map[m.session]
        /\ session_sequence_map[m.session] \in Nat
        /\ IsNew(c) /\ Serve(c, m, "admitted", m.session)
    BY SessionAssumption
       DEF Admit, Owns, Follows, Session, Known, SessionsInv, SessionsTypeOK
  <1>2. /\ c \notin Given \cup Admitted
        /\ served'[c] = [fate |-> "admitted", life |-> life, user |-> m.user,
                         session |-> m.session, seq |-> m.seq]
        /\ Given' = Given /\ Admitted' = Admitted \cup {c}
        /\ served' \in [Connection -> {New} \cup Serving]
        /\ \A d \in Connection \ {c} : served'[d] = served[d]
    BY <1>1, OthersStay
  <1>3. ASSUME NEW d \in Given \cup Admitted
        PROVE  /\ served'[d] = served[d]
               /\ served[d].life = life /\ served[d].session = m.session
                    => served[d].seq < m.seq /\ served[d].user = m.user
    <2>1. d \in Connection /\ d # c
      BY <1>2 DEF Given, Admitted
    <2>2. served[d] \in Serving
      BY <2>1 DEF SessionsInv, SessionsTypeOK, Given, Admitted, New
    <2>3. served[d].seq \in Nat
      BY <2>2 DEF Serving
    <2>4. served[d].life = life => LiveSession(d)
      BY DEF SessionsInv, Recorded
    <2> QED
      BY <1>1, <1>2, <2>1, <2>3, <2>4 DEF LiveSession
  <1> QED
    BY <1>1, <1>2, <1>3

LEMMA SessionsInvAdmit ==
    ASSUME SessionsInv, NEW c \in Connection, NEW m \in Message, Admit(c, m)
    PROVE  SessionsInv'
  <1>1. /\ m.session \in Session /\ m.session \in Known
        /\ c \notin Given \cup Admitted
        /\ served'[c] = [fate |-> "admitted", life |-> life, user |-> m.user,
                         session |-> m.session, seq |-> m.seq]
        /\ Given' = Given /\ Admitted' = Admitted \cup {c}
        /\ served' \in [Connection -> {New} \cup Serving]
        /\ \A d \in Given \cup Admitted :
             /\ served'[d] = served[d]
             /\ served[d].life = life /\ served[d].session = m.session
                  => served[d].seq < m.seq /\ served[d].user = m.user
    BY AdmitFollows
  <1>2. /\ session_sequence_map' = [session_sequence_map EXCEPT ![m.session] = m.seq]
        /\ UNCHANGED << session_user_map, smallest_session, session_free, life >>
        /\ session_user_map[m.session] = m.user /\ m.seq \in Nat
    BY SessionAssumption DEF Admit, Owns
  <1>3. /\ Known' = Known
        /\ session_sequence_map' \in [Known -> Nat]
        /\ \A s \in Known : session_sequence_map'[s] =
             IF s = m.session THEN m.seq ELSE session_sequence_map[s]
    BY <1>2 DEF Known, SessionsInv, SessionsTypeOK
  <1>4. SessionsTypeOK'
    BY <1>1, <1>2, <1>3 DEF SessionsInv, SessionsTypeOK
  <1>5. (session_free => Known = {s \in Session : s < smallest_session})'
    BY <1>2, <1>3 DEF SessionsInv
  <1>6. Recorded'
    <2>1. ASSUME NEW d \in Given \cup Admitted
          PROVE  /\ served'[d].life <= life'
                 /\ served'[d].life = life' => LiveSession(d)'
      <3>1. served'[d] = served[d] /\ served[d].life <= life
        BY <1>1 DEF SessionsInv, Recorded
      <3>2. ASSUME served[d].life = life
            PROVE  LiveSession(d)'
        <4>1. LiveSession(d)
          BY <3>2 DEF SessionsInv, Recorded
        <4>2. CASE served[d].session = m.session
          <5>1. served[d].seq < m.seq
            BY <1>1, <3>2, <4>2
          <5>2. served[d].seq \in Nat
            BY DEF SessionsInv, SessionsTypeOK, Given, Admitted, New, Serving
          <5> QED
            BY <1>2, <1>3, <3>1, <4>1, <4>2, <5>1, <5>2 DEF LiveSession
        <4>3. CASE served[d].session # m.session
          BY <1>2, <1>3, <3>1, <4>1, <4>3 DEF LiveSession
        <4> QED
          BY <4>2, <4>3
      <3> QED
        BY <1>2, <3>1, <3>2
    <2>2. /\ served'[c].life <= life'
          /\ served'[c].life = life' => LiveSession(c)'
      <3>1. life \in Nat
        BY DEF SessionsInv, SessionsTypeOK
      <3> QED
        BY <1>1, <1>2, <1>3, <3>1 DEF LiveSession
    <2> QED
      BY <1>1, <2>1, <2>2 DEF Recorded
  <1>7. GivenToSomebody'
    BY <1>1, <1>2, <1>3 DEF SessionsInv, GivenToSomebody
  <1>8. NumbersGivenOnce'
    BY <1>1 DEF SessionsInv, NumbersGivenOnce
  <1>9. AdmittedUnderOwnSession'
    <2>1. PICK d \in Given : served[d].life = life /\ served[d].session = m.session
      BY <1>1 DEF SessionsInv, GivenToSomebody
    <2>2. /\ served'[d].life = served'[c].life
          /\ served'[d].session = served'[c].session
          /\ served'[d].user = served'[c].user
          /\ served'[d].seq < served'[c].seq
      BY <1>1, <2>1
    <2> QED
      BY <1>1, <2>2 DEF SessionsInv, AdmittedUnderOwnSession
  <1>10. AdmittedOnce'
    <2>1. \A d \in Admitted :
            served[d].life = life /\ served[d].session = m.session => served[d].seq # m.seq
      <3>1. ASSUME NEW d \in Admitted
            PROVE  served[d].seq \in Nat
        BY DEF SessionsInv, SessionsTypeOK, Admitted, New, Serving
      <3> QED
        BY <1>1, <1>2, <3>1
    <2> QED
      BY <1>1, <2>1 DEF SessionsInv, AdmittedOnce
  <1> QED
    BY <1>4, <1>5, <1>6, <1>7, <1>8, <1>9, <1>10 DEF SessionsInv

\* A restart forgets the sessions; what was served belongs to an earlier life.
LEMMA SessionsInvRestart ==
    ASSUME SessionsInv, Restart
    PROVE  SessionsInv'
  <1>1. /\ Known' = {} /\ life \in Nat /\ life' = life + 1
        /\ smallest_session' = 0 /\ session_free' = TRUE
        /\ served' = served /\ Given' = Given /\ Admitted' = Admitted
    BY DEF Restart, Known, SessionsInv, SessionsTypeOK, Given, Admitted
  <1>2. SessionsTypeOK'
    BY <1>1, SessionAssumption DEF SessionsInv, SessionsTypeOK, Restart, Known, Session
  <1>3. Known' = {s \in Session : s < smallest_session'}
    BY <1>1, SessionAssumption DEF Session
  <1>4. \A c \in Given \cup Admitted : served[c].life <= life /\ served[c].life \in Nat
    BY DEF SessionsInv, SessionsTypeOK, Recorded, Given, Admitted, New, Serving
  <1>5. Recorded'
    BY <1>1, <1>4 DEF Recorded
  <1>6. GivenToSomebody'
    BY <1>1 DEF GivenToSomebody
  <1>7. (NumbersGivenOnce /\ AdmittedUnderOwnSession /\ AdmittedOnce)'
    BY <1>1 DEF SessionsInv, NumbersGivenOnce, AdmittedUnderOwnSession, AdmittedOnce
  <1> QED
    BY <1>2, <1>3, <1>5, <1>6, <1>7 DEF SessionsInv

LEMMA SessionsInvStep ==
    ASSUME SessionsInv, [SessionsNext]_sessionVars
    PROVE  SessionsInv'
  <1>1. CASE UNCHANGED sessionVars
    BY <1>1
       DEF sessionVars, sessions, SessionsInv, SessionsTypeOK, Known, Recorded, LiveSession,
           GivenToSomebody, Given, Admitted, NumbersGivenOnce, AdmittedUnderOwnSession,
           AdmittedOnce
  <1>2. CASE Restart
    BY <1>2, SessionsInvRestart
  <1>3. ASSUME NEW c \in Connection, NEW m \in Message,
               NewSession(c, m) \/ Admit(c, m) \/ Refuse(c, m)
        PROVE  SessionsInv'
    BY <1>3, SessionsInvNew, SessionsInvAdmit, SessionsInvRefused DEF Refuse
  <1> QED
    BY <1>1, <1>2, <1>3 DEF SessionsNext

LEMMA SessionsInvAlways == SessionsSpec => []SessionsInv
  <1>1. SessionsInit => SessionsInv
    BY SessionsInvInit
  <1>2. SessionsInv /\ [SessionsNext]_sessionVars => SessionsInv'
    BY SessionsInvStep
  <1> QED
    BY <1>1, <1>2, PTL DEF SessionsSpec

\* The step that admits a connection is Admit: its number is above those of
\* the connections admitted before.
LEMMA AdmittedInOrderStep ==
    ASSUME SessionsInv, [SessionsNext]_sessionVars
    PROVE  [\A c \in Admitted' \ Admitted, d \in Admitted :
               served'[c].life = served[d].life /\ served'[c].session = served[d].session
                  => served[d].seq < served'[c].seq]_sessionVars
  <1> SUFFICES ASSUME NEW c \in Admitted' \ Admitted, NEW d \in Admitted,
                      served'[c].life = served[d].life,
                      served'[c].session = served[d].session
               PROVE  served[d].seq < served'[c].seq
    OBVIOUS
  <1>1. CASE UNCHANGED sessionVars \/ Restart
    <2>1. Admitted' = Admitted
      BY <1>1 DEF sessionVars, Restart, Admitted
    <2> QED
      BY <2>1
  <1>2. ASSUME NEW k \in Connection, NEW m \in Message, Admit(k, m)
        PROVE  served[d].seq < served'[c].seq
    <2>1. /\ Admitted' = Admitted \cup {k}
          /\ served'[k].life = life /\ served'[k].session = m.session
          /\ served'[k].seq = m.seq
          /\ served[d].life = life /\ served[d].session = m.session
               => served[d].seq < m.seq
      <3>1. \A e \in Given \cup Admitted :
              served[e].life = life /\ served[e].session = m.session => served[e].seq < m.seq
        BY <1>2, AdmitFollows
      <3>2. Admitted' = Admitted \cup {k} /\ served'[k] =
              [fate |-> "admitted", life |-> life, user |-> m.user,
               session |-> m.session, seq |-> m.seq]
        BY <1>2, AdmitFollows
      <3> QED
        BY <3>1, <3>2
    <2>2. c = k
      BY <2>1
    <2> QED
      BY <2>1, <2>2
  <1>3. ASSUME NEW k \in Connection, NEW m \in Message, NewSession(k, m) \/ Refuse(k, m)
        PROVE  FALSE
    <2>1. PICK fate \in {"session", "refused"} : \E s :
            IsNew(k) /\ Serve(k, m, fate, s)
      BY <1>3 DEF NewSession, Refuse
    <2>2. \A x \in Connection : served'[x].fate = "admitted" => served[x] = served'[x]
      BY <2>1 DEF Serve, SessionsInv, SessionsTypeOK
    <2> QED
      BY <2>2 DEF Admitted
  <1> QED
    BY <1>1, <1>2, <1>3 DEF SessionsNext

-----------------------------------------------------------------------------
(* The server                                                              *)

\* With the store behind them, sessions behave as they do alone: the handlers
\* do not touch them.
LEMMA ServerKeepsSessions == ServerSpec => SessionsSpec
  <1>1. ServerInit => SessionsInit
    BY DEF ServerInit
  <1>2. [ServerNext]_serverVars => [SessionsNext]_sessionVars
    BY DEF ServerNext, serverVars, SessionsNext, ServerRestart, Handle, FsSession,
           FsRead, FsAppend, FsCreate, FsDelete, Fs
  <1> QED
    BY <1>1, <1>2, PTL DEF ServerSpec, SessionsSpec

LEMMA ServerInvAlways == ServerSpec => []SessionsInv
  BY SessionsInvAlways, ServerKeepsSessions, PTL

\* No session number is given twice in a life of the server, up to and after
\* the last one (fs.cc:336-347).
THEOREM NumbersGivenOnceAlways == ServerSpec => []NumbersGivenOnce
  <1>1. SessionsInv => NumbersGivenOnce
    BY DEF SessionsInv
  <1> QED
    BY <1>1, ServerInvAlways, PTL

\* Whoever is admitted was given the session, in this life of the server
\* (fs.cc:374-394 and the same check of each handler).
THEOREM AdmittedUnderOwnSessionAlways == ServerSpec => []AdmittedUnderOwnSession
  <1>1. SessionsInv => AdmittedUnderOwnSession
    BY DEF SessionsInv
  <1> QED
    BY <1>1, ServerInvAlways, PTL

\* However often a request is sent and in whatever order its copies arrive, it
\* is admitted at most once in a life of the server (fs.cc:388-394).
THEOREM AdmittedOnceAlways == ServerSpec => []AdmittedOnce
  <1>1. SessionsInv => AdmittedOnce
    BY DEF SessionsInv
  <1> QED
    BY <1>1, ServerInvAlways, PTL

\* The requests of a session are admitted in the order of their numbers
\* (fs.cc:388-394).
THEOREM AdmittedInOrderAlways == ServerSpec => AdmittedInOrder
  <1>1. SessionsInv /\ [SessionsNext]_sessionVars
          => [\A c \in Admitted' \ Admitted, d \in Admitted :
                 served'[c].life = served[d].life /\ served'[c].session = served[d].session
                    => served[d].seq < served'[c].seq]_sessionVars
    BY AdmittedInOrderStep
  <1> QED
    BY <1>1, ServerInvAlways, ServerKeepsSessions, PTL DEF SessionsSpec, AdmittedInOrder

-----------------------------------------------------------------------------
(* The store behind the sessions: where the bytes of the files come from.  *)

\* The connection c carried the message m, and was admitted.
Sent(c, m) ==
    c \in Admitted /\ served[c].session = m.session /\ served[c].seq = m.seq

Request == {m \in Message : m.op # "session"}

File == [owner : {m.user : m \in Message}, data : Seq(Data)]

StoreTypeOK ==
    /\ phase \in [Connection -> Store!Phase]
    /\ ask \in [Connection -> {Store!NothingAsked} \cup {RequestOf(m) : m \in Request}]
    /\ files \in [DOMAIN files -> File]

\* What is pending was admitted.
PendingWasSent ==
    \A c \in Connection : phase[c] = "pending" =>
        \E m \in Request : ask[c] = RequestOf(m) /\ Sent(c, m)

Over(c) == phase[c] \notin {"idle", "pending"}

\* Each element of s is from a message that was sent on the connection that
\* from names, whose request is over.
Written(s, from) ==
    /\ from \in [1 .. Len(s) -> Connection]
    /\ \A i \in 1 .. Len(s) :
         /\ Over(from[i])
         /\ \E m \in Message : Sent(from[i], m) /\ \E k \in DOMAIN m.data : s[i] = m.data[k]
    /\ \A i, j \in 1 .. Len(s) : s[i] = s[j] /\ from[i] = from[j] => i = j

BytesWereSent ==
    \A n \in DOMAIN files : \E from : Written(files[n].data, from)

ServerInv == SessionsInv /\ StoreTypeOK /\ PendingWasSent /\ BytesWereSent

LEMMA ServerInvInit == ServerInit => ServerInv
  <1> SUFFICES ASSUME ServerInit PROVE ServerInv
    OBVIOUS
  <1>1. SessionsInv
    BY SessionsInvInit DEF ServerInit
  <1>2. phase = [c \in Connection |-> "idle"] /\ DOMAIN files = {}
    BY DEF ServerInit, Store!StoreInit
  <1>3. StoreTypeOK
    BY <1>2 DEF ServerInit, Store!StoreInit, StoreTypeOK, Store!Phase
  <1>4. PendingWasSent /\ BytesWereSent
    BY <1>2 DEF PendingWasSent, BytesWereSent
  <1>5. QED
    BY <1>1, <1>3, <1>4 DEF ServerInv

\* Who was admitted stays so.
LEMMA AdmittedStay ==
    ASSUME SessionsInv, [SessionsNext]_sessionVars, NEW d \in Admitted
    PROVE  d \in Admitted' /\ served'[d] = served[d]
  <1>1. CASE UNCHANGED sessionVars \/ Restart
    BY <1>1 DEF sessionVars, Restart, Admitted
  <1>2. ASSUME NEW c \in Connection, NEW m \in Message, Admit(c, m)
        PROVE  d \in Admitted' /\ served'[d] = served[d]
    BY <1>2, AdmitFollows
  <1>3. ASSUME NEW c \in Connection, NEW m \in Message, NewSession(c, m) \/ Refuse(c, m)
        PROVE  d \in Admitted' /\ served'[d] = served[d]
    <2>1. PICK fate, s : IsNew(c) /\ Serve(c, m, fate, s)
      BY <1>3 DEF NewSession, Refuse
    <2>2. d # c
      BY <2>1 DEF IsNew, Admitted
    <2>3. QED
      BY <2>1, <2>2 DEF Serve, SessionsInv, SessionsTypeOK, Admitted
  <1>4. QED
    BY <1>1, <1>2, <1>3 DEF SessionsNext

\* What was written stays so while requests that are over stay over.
LEMMA WrittenStays ==
    ASSUME \A d \in Admitted : d \in Admitted' /\ served'[d] = served[d],
           \A c \in Connection : Over(c) => Over(c)',
           NEW s, NEW from, Written(s, from)
    PROVE  Written(s, from)'
  <1>1. \A c, m : Sent(c, m) => Sent(c, m)'
    BY DEF Sent
  <1>2. QED
    BY <1>1 DEF Written

LEMMA BytesStay ==
    ASSUME BytesWereSent,
           \A d \in Admitted : d \in Admitted' /\ served'[d] = served[d],
           \A c \in Connection : Over(c) => Over(c)',
           DOMAIN files' \subseteq DOMAIN files,
           \A n \in DOMAIN files' : files'[n].data = files[n].data
    PROVE  BytesWereSent'
  <1>1. ASSUME NEW n \in DOMAIN files'
        PROVE  \E from : Written(files[n].data, from)'
    <2>1. PICK s : s = files[n].data
      OBVIOUS
    <2>2. PICK from : Written(s, from)
      BY <2>1 DEF BytesWereSent
    <2>3. Written(s, from)'
      BY <2>2, WrittenStays
    <2>4. s = files'[n].data
      BY <2>1
    <2>5. QED
      BY <2>3, <2>4 DEF Written
  <1>2. QED
    BY <1>1 DEF BytesWereSent

\* A request that is admitted is pending, and no other is disturbed.
LEMMA ServerInvCall ==
    ASSUME ServerInv, SessionsInv', NEW c \in Connection, NEW m \in Request,
           Admit(c, m), Store!Call(c, RequestOf(m))
    PROVE  ServerInv'
  <1>1. SessionsInv /\ m \in Message /\ [SessionsNext]_sessionVars
    BY DEF ServerInv, Request, SessionsNext
  <1>2. \A d \in Admitted : d \in Admitted' /\ served'[d] = served[d]
    BY <1>1, AdmittedStay
  <1>3. Sent(c, m)'
    <2>1. /\ Admitted' = Admitted \cup {c}
          /\ served'[c] = [fate |-> "admitted", life |-> life, user |-> m.user,
                           session |-> m.session, seq |-> m.seq]
      BY <1>1, AdmitFollows
    <2>2. QED
      BY <2>1 DEF Sent
  <1>4. /\ files' = files /\ phase[c] = "idle"
        /\ ask' = [ask EXCEPT ![c] = RequestOf(m)]
        /\ \E p \in {"pending", "invalid"} : phase' = [phase EXCEPT ![c] = p]
    BY DEF Store!Call
  <1>5. StoreTypeOK'
    BY <1>4 DEF ServerInv, StoreTypeOK, Store!Phase
  <1>6. PendingWasSent'
    <2>1. ASSUME NEW d \in Connection, phase'[d] = "pending"
          PROVE  \E k \in Request : ask'[d] = RequestOf(k) /\ Sent(d, k)'
      <3>1. CASE d = c
        BY <1>3, <1>4, <3>1 DEF ServerInv, StoreTypeOK
      <3>2. CASE d # c
        <4>1. phase[d] = "pending" /\ ask'[d] = ask[d]
          BY <1>4, <2>1, <3>2 DEF ServerInv, StoreTypeOK
        <4>2. PICK k \in Request : ask[d] = RequestOf(k) /\ Sent(d, k)
          BY <4>1 DEF ServerInv, PendingWasSent
        <4>3. QED
          BY <1>2, <4>1, <4>2 DEF Sent
      <3>3. QED
        BY <3>1, <3>2
    <2>2. QED
      BY <2>1 DEF PendingWasSent
  <1>7. \A d \in Connection : Over(d) => Over(d)'
    BY <1>4 DEF Over, ServerInv, StoreTypeOK
  <1>8. BytesWereSent'
    BY <1>2, <1>4, <1>7, BytesStay DEF ServerInv, BytesWereSent
  <1>9. QED
    BY <1>5, <1>6, <1>8 DEF ServerInv

\* The request of one connection moves on, and was not over before; or all
\* that were not idle end with the process.
Moves(c, p) ==
    /\ phase[c] \notin {"idle", "gone"}
    /\ p \in Store!Phase \ {"idle", "pending"}
    /\ phase' = [phase EXCEPT ![c] = p]
    /\ ask' \in {ask, [ask EXCEPT ![c] = Store!NothingAsked]}

LEMMA MoveKeeps ==
    ASSUME ServerInv, [SessionsNext]_sessionVars, NEW c \in Connection, NEW p, Moves(c, p)
    PROVE  /\ phase' \in [Connection -> Store!Phase]
           /\ ask' \in [Connection -> {Store!NothingAsked} \cup {RequestOf(m) : m \in Request}]
           /\ PendingWasSent'
           /\ \A d \in Admitted : d \in Admitted' /\ served'[d] = served[d]
           /\ \A d \in Connection : Over(d) => Over(d)'
           /\ Over(c)'
  <1>1. /\ phase \in [Connection -> Store!Phase]
        /\ ask \in [Connection -> {Store!NothingAsked} \cup {RequestOf(m) : m \in Request}]
    BY DEF ServerInv, StoreTypeOK
  <1>2. \A d \in Admitted : d \in Admitted' /\ served'[d] = served[d]
    BY AdmittedStay DEF ServerInv
  <1>3. /\ phase' \in [Connection -> Store!Phase]
        /\ ask' \in [Connection -> {Store!NothingAsked} \cup {RequestOf(m) : m \in Request}]
        /\ \A d \in Connection \ {c} : phase'[d] = phase[d] /\ ask'[d] = ask[d]
        /\ phase'[c] \notin {"idle", "pending"}
    BY <1>1 DEF Moves
  <1>4. PendingWasSent'
    <2>1. ASSUME NEW d \in Connection, phase'[d] = "pending"
          PROVE  \E k \in Request : ask'[d] = RequestOf(k) /\ Sent(d, k)'
      <3>1. phase[d] = "pending" /\ ask'[d] = ask[d]
        BY <1>3, <2>1
      <3>2. PICK k \in Request : ask[d] = RequestOf(k) /\ Sent(d, k)
        BY <3>1 DEF ServerInv, PendingWasSent
      <3>3. QED
        BY <1>2, <3>1, <3>2 DEF Sent
    <2>2. QED
      BY <2>1 DEF PendingWasSent
  <1>5. (\A d \in Connection : Over(d) => Over(d)') /\ Over(c)'
    BY <1>3 DEF Over
  <1>6. QED
    BY <1>2, <1>3, <1>4, <1>5

\* Requests that write nothing, the answer, and the end of a connection.
LEMMA ServerInvQuiet ==
    ASSUME ServerInv, SessionsInv', UNCHANGED sessionVars, NEW c \in Connection,
           Store!Read(c) \/ Store!Refuse(c) \/ Store!Return(c)
    PROVE  ServerInv'
  <1>1. files' = files /\ \E p : Moves(c, p)
    BY DEF Moves, Store!Read, Store!Refuse, Store!Return, Store!Pending, Store!Done,
           Store!Phase
  <1>2. PICK p : Moves(c, p)
    BY <1>1
  <1>3. QED
    BY <1>1, <1>2, MoveKeeps, BytesStay DEF ServerInv, StoreTypeOK, BytesWereSent

LEMMA ServerInvDelete ==
    ASSUME ServerInv, SessionsInv', UNCHANGED sessionVars, NEW c \in Connection,
           Store!Delete(c)
    PROVE  ServerInv'
  <1>1. /\ Moves(c, "ok")
        /\ files' = [n \in DOMAIN files \ {ask[c].name} |-> files[n]]
    BY DEF Moves, Store!Delete, Store!Pending, Store!Done, Store!Phase
  <1>2. files' \in [DOMAIN files' -> File]
    BY <1>1 DEF ServerInv, StoreTypeOK
  <1>3. DOMAIN files' \subseteq DOMAIN files /\ \A n \in DOMAIN files' : files'[n] = files[n]
    BY <1>1
  <1>4. BytesWereSent'
    BY <1>1, <1>3, MoveKeeps, BytesStay DEF ServerInv
  <1>5. QED
    BY <1>1, <1>2, <1>4, MoveKeeps DEF ServerInv, StoreTypeOK

\* A new file has no bytes.
LEMMA ServerInvCreate ==
    ASSUME ServerInv, SessionsInv', UNCHANGED sessionVars, NEW c \in Connection,
           Store!Create(c)
    PROVE  ServerInv'
  <1>1. PICK r : r = ask[c]
    OBVIOUS
  <1>2. /\ Moves(c, "ok")
        /\ files' = [n \in DOMAIN files \cup {r.name} |->
                       IF n = r.name THEN [owner |-> r.user, data |-> << >>]
                                     ELSE files[n]]
    BY <1>1 DEF Moves, Store!Create, Store!Pending, Store!Done, Store!Phase
  <1>3. [owner |-> r.user, data |-> << >>] \in File
    <2>1. PICK m \in Request : r = RequestOf(m)
      BY <1>1 DEF ServerInv, PendingWasSent, Store!Create, Store!Pending
    <2>2. r.user = m.user /\ m \in Message
      BY <2>1 DEF RequestOf, Request
    <2>3. QED
      BY <2>2 DEF File
  <1>4. files' \in [DOMAIN files' -> File]
    BY <1>2, <1>3 DEF ServerInv, StoreTypeOK
  <1>5. BytesWereSent'
    <2>1. ASSUME NEW n \in DOMAIN files'
          PROVE  \E from : Written(files[n].data, from)'
      <3>1. CASE n = r.name
        <4>1. files'[n].data = << >>
          BY <1>2, <3>1
        <4>2. PICK s : s = files'[n].data
          OBVIOUS
        <4>3. s = << >> /\ Len(s) = 0 /\ 1 .. Len(s) = {}
          BY <4>1, <4>2
        <4>4. PICK from : from = [i \in 1 .. Len(s) |-> c]
          OBVIOUS
        <4>5. Written(s, from)'
          BY <4>3, <4>4 DEF Written
        <4>6. QED
          BY <4>2, <4>5 DEF Written
      <3>2. CASE n # r.name
        <4>1. PICK s : s = files[n].data
          OBVIOUS
        <4>2. n \in DOMAIN files /\ files'[n].data = s
          BY <1>2, <2>1, <3>2, <4>1
        <4>3. PICK from : Written(s, from)
          BY <4>1, <4>2 DEF ServerInv, BytesWereSent
        <4>4. Written(s, from)'
          BY <1>2, <4>3, MoveKeeps, WrittenStays
        <4>5. QED
          BY <4>2, <4>4 DEF Written
      <3>3. QED
        BY <3>1, <3>2
    <2>2. QED
      BY <2>1 DEF BytesWereSent
  <1>6. QED
    BY <1>2, <1>4, <1>5, MoveKeeps DEF ServerInv, StoreTypeOK

\* An append puts its bytes after those of the file, once for its connection.
LEMMA AppendWrites ==
    ASSUME BytesTellMessages, NEW s \in Seq(Data), NEW from, Written(s, from),
           NEW c \in Connection, ~Over(c), NEW m \in Message, Sent(c, m),
           \A d \in Admitted : d \in Admitted' /\ served'[d] = served[d],
           \A d \in Connection : Over(d) => Over(d)',
           Over(c)'
    PROVE  \E both : Written(s \o m.data, both)'
  <1>1. PICK d, u : d = m.data /\ u = s \o d
    OBVIOUS
  <1>2. d \in Seq(Data)
    BY <1>1, DataAssumption
  <1>3. /\ u \in Seq(Data) /\ Len(u) = Len(s) + Len(d)
        /\ Len(s) \in Nat /\ Len(d) \in Nat
        /\ \A i \in 1 .. Len(s) : u[i] = s[i]
        /\ \A i \in 1 .. Len(u) \ (1 .. Len(s)) : i - Len(s) \in 1 .. Len(d) /\ u[i] = d[i - Len(s)]
    BY <1>1, <1>2
  <1>4. PICK both : both = [i \in 1 .. Len(u) |-> IF i <= Len(s) THEN from[i] ELSE c]
    OBVIOUS
  <1>5. Written(s, from)'
    BY WrittenStays
  <1>6. Sent(c, m)'
    BY DEF Sent
  <1>7. /\ \A i \in 1 .. Len(s) : both[i] = from[i] /\ from[i] \in Connection /\ from[i] # c
        /\ \A i \in 1 .. Len(u) \ (1 .. Len(s)) : both[i] = c
        /\ both \in [1 .. Len(u) -> Connection]
    <2>1. \A i \in 1 .. Len(s) : from[i] \in Connection /\ from[i] # c
      BY DEF Written
    <2>2. \A i \in 1 .. Len(u) : i \in 1 .. Len(s) <=> i <= Len(s)
      BY <1>3
    <2>3. \A i \in 1 .. Len(s) : i \in 1 .. Len(u)
      BY <1>3
    <2>4. QED
      BY <1>4, <2>1, <2>2, <2>3
  <1>8. ASSUME NEW i \in 1 .. Len(u)
        PROVE  /\ Over(both[i])'
               /\ \E k \in Message : Sent(both[i], k)' /\ \E j \in DOMAIN k.data : u[i] = k.data[j]
    <2>1. CASE i \in 1 .. Len(s)
      <3>1. both[i] = from[i] /\ u[i] = s[i]
        BY <1>3, <1>7, <2>1
      <3>2. QED
        BY <1>5, <2>1, <3>1 DEF Written
    <2>2. CASE i \notin 1 .. Len(s)
      <3>1. both[i] = c /\ i - Len(s) \in DOMAIN d /\ u[i] = d[i - Len(s)]
        BY <1>2, <1>3, <1>7, <2>2
      <3>2. QED
        BY <1>1, <1>6, <3>1
    <2>3. QED
      BY <2>1, <2>2
  <1>9. ASSUME NEW i \in 1 .. Len(u), NEW j \in 1 .. Len(u), u[i] = u[j], both[i] = both[j]
        PROVE  i = j
    <2>1. CASE i \in 1 .. Len(s) /\ j \in 1 .. Len(s)
      BY <1>3, <1>7, <1>9, <2>1 DEF Written
    <2>2. CASE i \notin 1 .. Len(s) /\ j \notin 1 .. Len(s)
      <3>1. PICK x, y : x = i - Len(s) /\ y = j - Len(s)
        OBVIOUS
      <3>2. x \in DOMAIN m.data /\ y \in DOMAIN m.data /\ m.data[x] = m.data[y]
        BY <1>1, <1>2, <1>3, <1>9, <2>2, <3>1
      <3>3. x = y
        BY <3>2 DEF BytesTellMessages
      <3>4. i \in Int /\ j \in Int /\ Len(s) \in Int
        BY <1>3
      <3>5. QED
        BY <3>1, <3>3, <3>4
    <2>3. QED
      BY <1>7, <1>9, <2>1, <2>2
  <1>10. Written(u, both)'
    BY <1>7, <1>8, <1>9 DEF Written
  <1>11. QED
    BY <1>1, <1>10

LEMMA ServerInvAppend ==
    ASSUME BytesTellMessages, ServerInv, SessionsInv', UNCHANGED sessionVars,
           NEW c \in Connection, Store!AppendTo(c)
    PROVE  ServerInv'
  <1>1. PICK r : r = ask[c]
    OBVIOUS
  <1>2. /\ Moves(c, "ok") /\ phase[c] = "pending" /\ r.name \in DOMAIN files
        /\ files' = [files EXCEPT ![r.name].data = @ \o r.data]
    BY <1>1 DEF Moves, Store!AppendTo, Store!Pending, Store!Done, Store!Phase,
                Store!Owned, Store!Exists
  <1>3. PICK m \in Request : r = RequestOf(m) /\ Sent(c, m)
    BY <1>1, <1>2 DEF ServerInv, PendingWasSent
  <1>4. m \in Message /\ r.data = m.data /\ m.data \in Seq(Data)
    BY <1>3, DataAssumption DEF Request, RequestOf
  <1>5. PICK s : s = files[r.name].data
    OBVIOUS
  <1>6. s \in Seq(Data) /\ s \o m.data \in Seq(Data)
    BY <1>2, <1>4, <1>5 DEF ServerInv, StoreTypeOK, File
  <1>7. files' \in [DOMAIN files -> File] /\ files'[r.name].data = s \o m.data
    BY <1>2, <1>4, <1>5, <1>6 DEF ServerInv, StoreTypeOK, File
  <1>8. \A n \in DOMAIN files \ {r.name} : files'[n] = files[n]
    BY <1>2
  <1>9. /\ \A d \in Admitted : d \in Admitted' /\ served'[d] = served[d]
        /\ \A d \in Connection : Over(d) => Over(d)'
        /\ Over(c)' /\ ~Over(c)
    BY <1>2, MoveKeeps DEF Over
  <1>10. BytesWereSent'
    <2>1. ASSUME NEW n \in DOMAIN files
          PROVE  \E from : Written(files[n].data, from)'
      <3>1. CASE n = r.name
        <4>1. PICK from : Written(s, from)
          BY <1>2, <1>5 DEF ServerInv, BytesWereSent
        <4>2. PICK both : Written(s \o m.data, both)'
          BY <1>3, <1>4, <1>6, <1>9, <4>1, AppendWrites
        <4>3. PICK u : u = s \o m.data
          OBVIOUS
        <4>4. Written(u, both)' /\ u = files'[n].data
          BY <1>7, <3>1, <4>2, <4>3
        <4>5. QED
          BY <4>4 DEF Written
      <3>2. CASE n # r.name
        <4>1. PICK t : t = files[n].data
          OBVIOUS
        <4>2. PICK from : Written(t, from)
          BY <4>1 DEF ServerInv, BytesWereSent
        <4>3. Written(t, from)' /\ t = files'[n].data
          BY <1>8, <1>9, <3>2, <4>1, <4>2, WrittenStays
        <4>4. QED
          BY <4>3 DEF Written
      <3>3. QED
        BY <3>1, <3>2
    <2>2. QED
      BY <1>7, <2>1 DEF BytesWereSent
  <1>11. QED
    BY <1>2, <1>7, <1>10, MoveKeeps DEF ServerInv, StoreTypeOK

\* A restart ends every connection that made a request.
LEMMA ServerInvRestart ==
    ASSUME ServerInv, SessionsInv', ServerRestart
    PROVE  ServerInv'
  <1>1. [SessionsNext]_sessionVars /\ files' = files
    BY DEF ServerRestart, SessionsNext, Store!StoreCrash
  <1>2. /\ phase' = [c \in Connection |-> IF phase[c] = "idle" THEN "idle" ELSE "gone"]
        /\ ask' = [c \in Connection |-> Store!NothingAsked]
    BY DEF ServerRestart, Store!StoreCrash
  <1>3. StoreTypeOK' /\ PendingWasSent'
    BY <1>1, <1>2 DEF ServerInv, StoreTypeOK, PendingWasSent, Store!Phase
  <1>4. \A c \in Connection : Over(c) => Over(c)'
    BY <1>2 DEF Over
  <1>5. \A d \in Admitted : d \in Admitted' /\ served'[d] = served[d]
    BY <1>1, AdmittedStay DEF ServerInv
  <1>6. BytesWereSent'
    BY <1>1, <1>4, <1>5, BytesStay DEF ServerInv
  <1>7. QED
    BY <1>3, <1>6 DEF ServerInv

\* A message that is refused, a session and a stutter leave the store alone.
LEMMA ServerInvAside ==
    ASSUME ServerInv, SessionsInv', [SessionsNext]_sessionVars, UNCHANGED storeVars
    PROVE  ServerInv'
  <1>1. files' = files /\ ask' = ask /\ phase' = phase
    BY DEF storeVars
  <1>2. \A d \in Admitted : d \in Admitted' /\ served'[d] = served[d]
    BY AdmittedStay DEF ServerInv
  <1>3. StoreTypeOK'
    BY <1>1 DEF ServerInv, StoreTypeOK
  <1>4. PendingWasSent'
    BY <1>1, <1>2 DEF ServerInv, PendingWasSent, Sent
  <1>5. \A c \in Connection : Over(c) => Over(c)'
    BY <1>1 DEF Over
  <1>6. BytesWereSent'
    BY <1>1, <1>2, <1>5, BytesStay DEF ServerInv
  <1>7. QED
    BY <1>3, <1>4, <1>6 DEF ServerInv

LEMMA ServerInvStep ==
    ASSUME BytesTellMessages, ServerInv, [ServerNext]_serverVars
    PROVE  ServerInv'
  <1>1. [SessionsNext]_sessionVars
    BY DEF ServerNext, serverVars, SessionsNext, ServerRestart, Handle, FsSession,
           FsRead, FsAppend, FsCreate, FsDelete, Fs
  <1>2. SessionsInv'
    BY <1>1, SessionsInvStep DEF ServerInv
  <1>3. CASE ServerRestart
    BY <1>2, <1>3, ServerInvRestart
  <1>4. ASSUME NEW c \in Connection, Handle(c) PROVE ServerInv'
    BY <1>2, <1>4, ServerInvCreate, ServerInvAppend, ServerInvDelete, ServerInvQuiet
       DEF Handle
  <1>5. ASSUME NEW c \in Connection, NEW m \in Message, NEW op, op # "session", Fs(op, c, m)
        PROVE  ServerInv'
    <2>1. CASE Admit(c, m) /\ Store!Call(c, RequestOf(m))
      BY <1>2, <1>5, <2>1, ServerInvCall DEF Fs, Request
    <2>2. CASE UNCHANGED storeVars
      BY <1>1, <1>2, <2>2, ServerInvAside
    <2>3. QED
      BY <1>5, <2>1, <2>2 DEF Fs
  <1>6. ASSUME NEW c \in Connection, NEW m \in Message, FsSession(c, m) PROVE ServerInv'
    BY <1>1, <1>2, <1>6, ServerInvAside DEF FsSession
  <1>7. CASE UNCHANGED serverVars
    BY <1>1, <1>2, <1>7, ServerInvAside DEF serverVars
  <1>8. QED
    BY <1>3, <1>4, <1>5, <1>6, <1>7 DEF ServerNext, FsRead, FsAppend, FsCreate, FsDelete

\* Lives tell apart the connections on which one message was admitted, so a
\* byte is in a file once for each of them at most.
LEMMA OncePerLife ==
    ASSUME BytesTellMessages, ServerInv PROVE AppendedOncePerLife
  <1> SUFFICES ASSUME NEW n \in DOMAIN files, NEW b
               PROVE  Cardinality({i \in DOMAIN files[n].data : files[n].data[i] = b}) <= life + 1
    BY DEF AppendedOncePerLife
  <1>1. PICK s, P : s = files[n].data /\ P = {i \in DOMAIN s : s[i] = b}
    OBVIOUS
  <1>2. s \in Seq(Data) /\ DOMAIN s = 1 .. Len(s)
    BY <1>1 DEF ServerInv, StoreTypeOK, File
  <1>3. PICK from : Written(s, from)
    BY <1>1 DEF ServerInv, BytesWereSent
  <1>4. ASSUME NEW i \in P
        PROVE  /\ from[i] \in Admitted
               /\ served[from[i]].life \in 0 .. life
               /\ \E m \in Message : Sent(from[i], m) /\ \E k \in DOMAIN m.data : b = m.data[k]
    <2>1. \E m \in Message : Sent(from[i], m) /\ \E k \in DOMAIN m.data : b = m.data[k]
      BY <1>1, <1>2, <1>3 DEF Written
    <2>2. from[i] \in Admitted
      BY <2>1 DEF Sent
    <2>3. served[from[i]].life <= life /\ served[from[i]].life \in Nat
      BY <2>2 DEF ServerInv, SessionsInv, Recorded, SessionsTypeOK, Admitted, New, Serving
    <2>4. life \in Nat
      BY DEF ServerInv, SessionsInv, SessionsTypeOK
    <2>5. QED
      BY <2>1, <2>2, <2>3, <2>4
  <1>5. ASSUME NEW i \in P, NEW j \in P, served[from[i]].life = served[from[j]].life
        PROVE  i = j
    <2>1. PICK m \in Message : Sent(from[i], m) /\ \E k \in DOMAIN m.data : b = m.data[k]
      BY <1>4
    <2>2. PICK l \in Message : Sent(from[j], l) /\ \E k \in DOMAIN l.data : b = l.data[k]
      BY <1>4
    <2>3. m = l
      BY <2>1, <2>2 DEF BytesTellMessages
    <2>4. from[i] = from[j]
      BY <1>4, <1>5, <2>1, <2>2, <2>3 DEF Sent, ServerInv, SessionsInv, AdmittedOnce
    <2>5. QED
      BY <1>1, <1>2, <1>3, <2>4 DEF Written
  <1>6. PICK f : f = [i \in P |-> served[from[i]].life]
    OBVIOUS
  <1>7. f \in Injection(P, 0 .. life)
    BY <1>4, <1>5, <1>6 DEF Injection, IsInjective
  <1>8. IsFiniteSet(0 .. life) /\ Cardinality(0 .. life) = life + 1
    <2>1. life \in Nat
      BY DEF ServerInv, SessionsInv, SessionsTypeOK
    <2>2. QED
      BY <2>1, FS_Interval
  <1>9. Cardinality(P) <= life + 1
    BY <1>7, <1>8, FS_Injection
  <1>10. QED
    BY <1>1, <1>9

\* A client may send an append again until it gets an answer: whatever the
\* other clients do, its bytes are in a file once for each life of the server
\* at most (fs.cc:388-394, 556-711).
THEOREM AppendedOncePerLifeAlways ==
    ASSUME BytesTellMessages PROVE ServerSpec => []AppendedOncePerLife
  <1>1. ServerInv /\ [ServerNext]_serverVars => ServerInv'
    BY ServerInvStep
  <1>2. ServerInv => AppendedOncePerLife
    BY OncePerLife
  <1>3. QED
    BY ServerInvInit, <1>1, <1>2, PTL DEF ServerSpec

=============================================================================
