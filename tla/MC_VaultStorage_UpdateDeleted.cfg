\* A registered user is updated while another goroutine deletes it and a
\* third registers the same email hash again: does the update stay atomic?
SPECIFICATION Spec
CONSTANTS
    Txns = {t1, t2, t3}
    Emails = {e1}
    Keys = {k1, k2}
    None = None
    MaxFailures = 0
    PoolSize = 2
    InitialUsers <- MCRegistered
INVARIANT UpdateUserAtomic
CHECK_DEADLOCK FALSE
