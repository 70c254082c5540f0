CONSTANTS
    Thread = {t1, t2, t3, t4}
    User = {Alice, Bob}
    Name = {F, G, H}
    BadName = {}
    Byte = {"a", "b"}
    NoUser = NoUser
    NoName = NoName
    NoByte = NoByte
    Alice = Alice
    Bob = Bob
    F = F
    G = G
    H = H
    DiskSize = 6
    BlockSize = 2
    DirEntries = 1
    MaxFileBlocks = 2
    MaxActive = 2
    MayCrash = FALSE
    Request <- LimitRequests
SPECIFICATION Spec
SYMMETRY ThreadSymmetry
CHECK_DEADLOCK FALSE
INVARIANTS TypeOK BlocksOwnedOnce
PROPERTY ImplementsStore
