CONSTANTS
    Thread = {t1, t2, t3}
    Name = {F, G}
    Address = {l1, l2}
    NoLock = NoLock
SPECIFICATION FairSpec
INVARIANT TypeOK
INVARIANT LocksLiveWhileCounted
INVARIANT LookupStaysValid
PROPERTY ImplementsLocks
PROPERTY CallsEnd
