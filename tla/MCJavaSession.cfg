SPECIFICATION JSpec
CONSTANTS
    Threads = {t1, t2}
    PoolSize = 3
    Memory = {b1, b2}
    NULL = NULL
    NoEnv = NoEnv
    Descriptors = {1, 2}
SYMMETRY Symmetric
CONSTRAINT Careful
INVARIANTS JTypeOK OnePlaceEach NoUseAfterFree NoSessionLost NoSocketLost OwnEnv StringsReleased
