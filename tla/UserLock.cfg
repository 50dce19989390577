CONSTANTS
    Callers = {c1, c2, c3}
    Tokens = {t1, t2, t3}
    NoToken = NoToken
    Ttl = 4
    RenewEvery = 2
SPECIFICATION LeaseSpec
INVARIANTS MutualExclusion
PROPERTIES OnlyHolderUnlocks ImplementsTurnMutex LockFreed
