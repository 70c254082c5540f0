CONSTANTS
    Thread = {t1, t2}
    Name = {F, G}
    Address = {l1, l2}
    NoLock = NoLock
SPECIFICATION Spec
INVARIANT LookupAlone
