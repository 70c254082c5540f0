CONSTANTS
    Connection = {c1, c2, c3, c4, c5}
    Alice = Alice
    Bob = Bob
    F = F
    Message <- Messages
    SessionCount = 2
    MaxLife = 1
SPECIFICATION ServerSpec
SYMMETRY ConnectionSymmetry
INVARIANT NumbersGivenOnce
INVARIANT AdmittedUnderOwnSession
INVARIANT AdmittedOnce
INVARIANT AppendedOncePerLife
PROPERTY AdmittedInOrder
CHECK_DEADLOCK FALSE
