------------------------------ MODULE Messages ------------------------------
(***************************************************************************)
(* How run_request (fs.cc) receives and reads the message of a connection: *)
(* the header byte by byte, the encrypted message, its words and numbers,  *)
(* up to the session check, and the arguments after it.                    *)
(*                                                                         *)
(* Strings are sequences of characters.  The name of an operation is one   *)
(* character here, since the code only compares it.  Encryption is in a    *)
(* library: fs_decrypt gives what the client encrypted, or fails.          *)
(***************************************************************************)
EXTENDS Integers, Sequences

CONSTANTS
    Char,         \* characters; Space, Nul and "FS_READ", ... are among them
    HeaderChar,   \* those a client sends in a header
    Space, Nul,
    Value,        \* for each character, c - '0'
    Word,         \* how many values an unsigned int has: 2^32
    Limit,        \* Word as a string: "4294967296"
    HeaderMax,    \* the most bytes of a header, but for the last: 30
    MaxFileSize,  \* FS_MAXFILEBLOCKS * FS_BLOCKSIZE
    KnownUser,    \* the names in user_password_map
    Composed,     \* the words and the data that clients send
    Noise         \* other strings that clients encrypt

IsDigit(c) == Value[c] \in 0 .. 9

ASSUME MessageAssumption ==
    /\ {Space, Nul} \subseteq Char /\ Space # Nul
    /\ Value \in [Char -> Int]
    /\ \A c, d \in Char : IsDigit(c) /\ Value[c] = Value[d] => c = d
    /\ Word \in Nat /\ MaxFileSize \in Nat /\ 2 * MaxFileSize < Word
    /\ HeaderMax \in Nat
    /\ HeaderChar \subseteq Char
    /\ \A r \in Composed : /\ r.words \in Seq(Seq(Char \ {Space, Nul}))
                           /\ r.words # << >>
                           /\ r.data \in Seq(Char)
    /\ Noise \subseteq Seq(Char)

VARIABLES
    buf_header,     \* the byte recv wrote last
    header,         \* the bytes of the header so far
    received,       \* the bytes that came in
    missing,        \* encrypted_msg_size - count
    decrypted_msg,  \* what the client encrypted
    msg_vector,     \* its words
    data,           \* what follows them
    pc              \* where the thread is

stream == << buf_header, header, received, missing >>
message == << decrypted_msg, msg_vector, data >>
vars == << stream, message, pc >>

Unsigned(i) == i % Word

-----------------------------------------------------------------------------
(* Words and numbers                                                       *)

\* (Mutant of Splits: two spaces in a row are not noticed.)
SplitsAnywhere(s) ==
    Len(s) >= 2 /\ s[Len(s)] = Nul /\ s[1] # Space /\ s[Len(s) - 1] # Space

\* What get_message_vector accepts.
Splits(s) ==
    /\ Len(s) >= 2
    /\ s[Len(s)] = Nul
    /\ \A i \in 2 .. Len(s) : s[i - 1] # Space \/ s[i] # Space
    /\ s[1] # Space
    /\ s[Len(s) - 1] # Space

\* A space ends the last word, another character is added to it.
Cut(v, c) == IF c = Space THEN Append(v, << >>)
                          ELSE [v EXCEPT ![Len(v)] = Append(@, c)]

\* The words it then finds: cut at every space before the Nul.
WordsOf(s) ==
    LET v[i \in 0 .. Len(s) - 1] ==
          IF i = 0 THEN << << >> >> ELSE Cut(v[i - 1], s[i])
    IN  v[Len(s) - 1]

\* s < t for strings of the same length.
Less(s, t) ==
    \E i \in DOMAIN s : /\ Value[s[i]] < Value[t[i]]
                        /\ \A j \in 1 .. i - 1 : s[j] = t[j]

\* (Mutants of IfUnsigned: numbers of all digits are taken, or none is.)
IfDigits(s) ==
    /\ Len(s) \in 1 .. Len(Limit)
    /\ Len(s) > 1 => Value[s[1]] # 0
    /\ \A i \in DOMAIN s : IsDigit(s[i])
IfShort(s) == IfDigits(s) /\ Len(s) < Len(Limit)

IfUnsigned(s) ==
    /\ Len(s) # 0
    /\ Len(s) <= Len(Limit)
    /\ Len(s) > 1 => Value[s[1]] # 0
    /\ \A i \in DOMAIN s : IsDigit(s[i])
    /\ Len(s) = Len(Limit) => Less(s, Limit)

\* Computed for any string, with wrap-around.
StringToUnsigned(s) ==
    LET temp[i \in 0 .. Len(s)] ==
          IF i = 0 THEN 0 ELSE Unsigned(temp[i - 1] * 10 + Value[s[i]])
    IN  temp[Len(s)]

\* The number a string of digits means, without wrap-around.
Meaning(s) ==
    LET number[i \in 0 .. Len(s)] ==
          IF i = 0 THEN 0 ELSE number[i - 1] * 10 + Value[s[i]]
    IN  number[Len(s)]

ASSUME LimitAssumption ==
    /\ Limit \in Seq(Char) /\ Limit # << >> /\ Value[Limit[1]] # 0
    /\ \A i \in DOMAIN Limit : IsDigit(Limit[i])
    /\ Meaning(Limit) = Word

-----------------------------------------------------------------------------
(* The messages of clients: words between spaces, a Nul, and data.         *)

Joined(words) ==
    LET joined[i \in 1 .. Len(words)] ==
          IF i = 1 THEN words[1] ELSE joined[i - 1] \o << Space >> \o words[i]
    IN  joined[Len(words)]

Compose(words, d) == Joined(words) \o << Nul >> \o d

Cleartext == {Compose(r.words, r.data) : r \in Composed} \cup Noise

ASSUME CleartextAssumption == \A m \in Cleartext : Len(m) < Word - 1

-----------------------------------------------------------------------------
(* One connection                                                          *)

Init ==
    /\ buf_header \in HeaderChar   \* uninitialized
    /\ header = << >>
    /\ received = << >>
    /\ missing = 0
    /\ decrypted_msg = << >>
    /\ msg_vector = << >>
    /\ data = << >>
    /\ pc = "header"

\* endRequest: nothing of the thread's variables is left.
Close ==
    /\ header' = << >> /\ received' = << >> /\ missing' = 0
    /\ decrypted_msg' = << >> /\ msg_vector' = << >> /\ data' = << >>
    /\ buf_header' = Nul
    /\ pc' = "closed"

\* What is in buf_header after recv returned 1, and what is appended.
Byte(b) ==
    /\ buf_header' = b
    /\ IF b = Nul \/ Len(header) < HeaderMax
       THEN /\ header' = Append(header, b)
            /\ received' = Append(received, b)
            /\ pc' = IF b = Nul THEN "parse" ELSE "header"
            /\ UNCHANGED << missing, message >>
       ELSE Close

\* (Mutant of Stale: the buffer is a fresh variable for every byte.)
StaleAnew == HeaderChar

\* What buf_header may hold when recv wrote nothing.
Stale == {buf_header}

\* recv returned 0 or -1: the byte examined is an old one.  Only before the
\* first byte can it be Nul.
NoByte ==
    \/ /\ Nul \in Stale
       /\ header' = Append(header, Nul)
       /\ pc' = "parse"
       /\ UNCHANGED << buf_header, received, missing, message >>
    \/ Stale # {Nul} /\ Close

RecvHeader == pc = "header" /\ (NoByte \/ \E b \in HeaderChar : Byte(b))

ParseHeader ==
    LET words == WordsOf(header) IN
    /\ pc = "parse"
    /\ \/ /\ Splits(header) /\ Len(words) = 2 /\ words[1] \in KnownUser
          /\ missing' = StringToUnsigned(words[2])
          /\ header' = << >> /\ received' = << >>
          /\ pc' = "body"
          /\ UNCHANGED << buf_header, message >>
       \/ ~(Splits(header) /\ Len(words) = 2 /\ words[1] \in KnownUser) /\ Close

\* recv gives any part of what is missing, or fails.
RecvBody ==
    /\ pc = "body" /\ missing > 0
    /\ \/ /\ \E n \in 1 .. missing : missing' = missing - n
          /\ UNCHANGED << buf_header, header, received, message, pc >>
       \/ Close

Decrypt ==
    /\ pc = "body" /\ missing = 0
    /\ \/ /\ decrypted_msg' \in Cleartext
          /\ pc' = "message"
          /\ UNCHANGED << stream, msg_vector, data >>
       \/ Close

\* decrypted_msg.find('\0'), kept in an unsigned int: npos becomes Word - 1.
Pos(m) ==
    LET at == {i \in DOMAIN m : m[i] = Nul} IN
    IF at = {} THEN Word - 1
    ELSE (CHOOSE i \in at : \A j \in at : i <= j) - 1

\* The text up to the first Nul, and the data after it.
TextOf(m) == SubSeq(m, 1, Unsigned(Pos(m) + 1))

DataOf(m) == SubSeq(m, Unsigned(Pos(m) + 1) + 1, Len(m))

ParseMessage ==
    LET text == TextOf(decrypted_msg)
        words == WordsOf(text)
        good == /\ Pos(decrypted_msg) # Len(decrypted_msg)
                /\ Splits(text) /\ Len(words) >= 3
                /\ IfUnsigned(words[2]) /\ IfUnsigned(words[3])
    IN
    /\ pc = "message"
    /\ \/ /\ good
          /\ msg_vector' = words
          /\ data' = DataOf(decrypted_msg)
          /\ pc' = "dispatch"
          /\ UNCHANGED << stream, decrypted_msg >>
       \/ ~good /\ Close

Op == msg_vector[1]
Number(i) == StringToUnsigned(msg_vector[i])

\* (Mutant of Arity: the sizes of FS_READ and FS_APPEND are left out.)
ArityNoSize == { << << "FS_SESSION" >>, 3 >>, << << "FS_READ" >>, 5 >>,
                 << << "FS_APPEND" >>, 4 >>, << << "FS_CREATE" >>, 4 >>,
                 << << "FS_DELETE" >>, 4 >> }

\* How many words each operation has (fs.cc:325, 367, 521, 718, 869).
Arity == { << << "FS_SESSION" >>, 3 >>, << << "FS_READ" >>, 6 >>,
           << << "FS_APPEND" >>, 5 >>, << << "FS_CREATE" >>, 4 >>,
           << << "FS_DELETE" >>, 4 >> }

Dispatch ==
    LET good == /\ << Op, Len(msg_vector) >> \in Arity
                /\ Op = << "FS_SESSION" >> => msg_vector[2] = << "0" >>
    IN
    /\ pc = "dispatch"
    /\ \/ /\ good
          /\ pc' = IF Op = << "FS_SESSION" >> THEN "session" ELSE "check"
          /\ UNCHANGED << stream, message >>
       \/ ~good /\ Close

\* (Mutant of SizeMatches: the size given for the data is not compared.)
SizeGiven == IfUnsigned(msg_vector[5]) /\ Number(5) # 0

\* FS_APPEND: the size given is that of the data.
SizeMatches ==
    /\ IfUnsigned(msg_vector[5])
    /\ Unsigned(Len(decrypted_msg) - Pos(decrypted_msg) - 1) = Number(5)
    /\ Number(5) # 0

\* (Mutant of RangeFits: only their sum is compared with the largest file.)
SumFits ==
    /\ IfUnsigned(msg_vector[5]) /\ IfUnsigned(msg_vector[6]) /\ Number(6) # 0
    /\ Unsigned(Number(5) + Number(6)) <= MaxFileSize

\* FS_READ: the offset and the size are those of some file.
RangeFits ==
    /\ IfUnsigned(msg_vector[5]) /\ Number(5) < MaxFileSize
    /\ IfUnsigned(msg_vector[6]) /\ Number(6) # 0 /\ Number(6) <= MaxFileSize
    /\ Unsigned(Number(5) + Number(6)) <= MaxFileSize

\* The session check, which is in Sessions, and then the arguments: either
\* may close the connection.
CheckArguments ==
    LET good == /\ Op = << "FS_APPEND" >> => SizeMatches
                /\ Op = << "FS_READ" >> => RangeFits
    IN
    /\ pc = "check"
    /\ \/ /\ good
          /\ pc' = "handler"
          /\ UNCHANGED << stream, message >>
       \/ Close

Ended ==
    /\ pc \in {"session", "handler", "closed"}
    /\ UNCHANGED vars

Next ==
    \/ RecvHeader \/ ParseHeader \/ RecvBody \/ Decrypt
    \/ ParseMessage \/ Dispatch \/ CheckArguments \/ Ended

Spec == Init /\ [][Next]_vars

-----------------------------------------------------------------------------
(* Properties                                                              *)

\* s is the one way to write n, which fits an unsigned int.
Writes(s, n) ==
    /\ s # << >> /\ \A i \in DOMAIN s : IsDigit(s[i])
    /\ Value[s[1]] = 0 => Len(s) = 1
    /\ n = Meaning(s) /\ n < Word

\* A header is taken from what the client sent, byte for byte, and is no
\* longer than the limit, although the loop looks at buf_header before it
\* looks at the result of recv (fs.cc:217-228).
HeaderWasReceived ==
    [][pc = "parse" /\ pc' = "body" =>
         header = received /\ Len(header) <= HeaderMax + 1]_vars

\* What is dispatched is the message: put together again, its words and its
\* data are what the client encrypted, a message without a Nul (fs.cc:290) or
\* with stray spaces is not, and the session and sequence numbers are the
\* numbers written, never wrapped ones (fs.cc:135).
DispatchedAsSent ==
    pc \in {"dispatch", "check", "session", "handler"} =>
        /\ decrypted_msg = Compose(msg_vector, data)
        /\ Len(msg_vector) >= 3
        /\ \A i \in DOMAIN msg_vector :
             /\ msg_vector[i] # << >>
             /\ \A j \in DOMAIN msg_vector[i] : msg_vector[i][j] \notin {Space, Nul}
        /\ \A i \in {2, 3} : Writes(msg_vector[i], Number(i))

\* The words of a call of fs_client.h: its name, its session and sequence
\* numbers and its arguments.  fs_session has no session yet and sends 0.
IsRequest(words) ==
    LET arguments == Len(words) - 3 IN
    \/ arguments = 0 /\ words[1] = << "FS_SESSION" >> /\ words[2] = << "0" >>
    \/ arguments = 1 /\ words[1] \in {<< "FS_CREATE" >>, << "FS_DELETE" >>}
    \/ arguments = 2 /\ words[1] = << "FS_APPEND" >>
    \/ arguments = 3 /\ words[1] = << "FS_READ" >>

\* Clients' messages that are requests, with proper words and numbers.
Proper(r) ==
    /\ IsRequest(r.words)
    /\ \A i \in DOMAIN r.words : r.words[i] # << >>
    /\ \A i \in {2, 3} : Writes(r.words[i], Meaning(r.words[i]))

ProperMessages == {Compose(r.words, r.data) : r \in {q \in Composed : Proper(q)}}

\* No proper message is refused before the session check: neither by
\* get_message_vector and if_unsigned (fs.cc:300-319) nor for the number of
\* its words or the session of FS_SESSION (fs.cc:325-333, 367, 521, 718, 869).
ProperIsDispatched ==
    [][pc' = "closed" /\ pc \in {"message", "dispatch"}
         => decrypted_msg \notin ProperMessages]_vars

\* A handler gets arguments that fit: an append the size of its data, which
\* is not empty, and a read a range within the largest file, with no sum
\* that wrapped (fs.cc:404-420, 556).
ArgumentsFit ==
    pc = "handler" =>
        /\ Op = << "FS_APPEND" >> => data # << >> /\ Writes(msg_vector[5], Len(data))
        /\ Op = << "FS_READ" >> =>
             /\ Writes(msg_vector[5], Number(5)) /\ Writes(msg_vector[6], Number(6))
             /\ Number(6) > 0 /\ Number(5) + Number(6) <= MaxFileSize
=============================================================================
