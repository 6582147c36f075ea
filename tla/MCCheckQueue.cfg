SPECIFICATION Spec
CONSTANTS
    Workers = {w1, w2}
    Masters = {m1, m2}
    Checks = {c1, c2, c3}
    FailingChecks = {c3}
    nBatchSize = 2
    NoMaster = NoMaster
INVARIANTS
    TodoAccounting
    LoopCounters
    ResultExact
    CleanBetweenSessions
PROPERTY
    SessionCloses
