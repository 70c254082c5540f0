CONSTANTS
    Thread = {t1, t2, t3}
    User = {Alice, Bob}
    Name = {F, G, H}
    BadName = {H}
    Byte = {"a", "b"}
    NoUser = NoUser
    NoName = NoName
    NoByte = NoByte
    Alice = Alice
    Bob = Bob
    F = F
    G = G
    H = H
    DiskSize = 4
    BlockSize = 2
    DirEntries = 1
    MaxFileBlocks = 2
    MaxActive = 2
    MayCrash = FALSE
    Request <- CreateRequests
SPECIFICATION FairSpec
CHECK_DEADLOCK FALSE
PROPERTY RequestsEnd
