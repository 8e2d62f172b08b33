\* Concurrent StoreUser / UpdateUser / DeleteUser calls on two email hashes
\* and two SSH keys, with one failing statement.
SPECIFICATION Spec
CONSTANTS
    Txns = {t1, t2, t3}
    Emails = {e1, e2}
    Keys = {k1, k2}
    None = None
    MaxFailures = 1
    PoolSize = 2
    InitialUsers <- MCNoUsers
INVARIANT SSHKeysUnique
PROPERTY ConflictErrorsTruthful
PROPERTY EveryCallReturns
CHECK_DEADLOCK FALSE
