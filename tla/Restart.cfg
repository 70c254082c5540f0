CONSTANTS
    Thread = {t1, t2, t3, t4}
    User = {Alice, Bob}
    Name = {F, G, H}
    BadName = {H}
    Byte = {"a", "b"}
    NoUser = NoUser
    NoName = NoName
    NoByte = NoByte
    Alice = Alice
    Bob = Bob
    F = F
    G = G
    H = H
    DiskSize = 12
    BlockSize = 2
    DirEntries = 2
    MaxFileBlocks = 2
    MaxActive = 2
    MayCrash = TRUE
    Request <- MixedRequests
    MaxBoots = 1
SPECIFICATION KeepersSpec
SYMMETRY ThreadSymmetry
PROPERTIES ImplementsStore BootRecovers
