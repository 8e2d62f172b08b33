----------------------------- MODULE VaultStorage -----------------------------
(***************************************************************************)
(* The Database-Vault's PostgreSQLStorage (StoreUser, UpdateUser,          *)
(* DeleteUser) run by concurrent goroutines against one PostgreSQL users   *)
(* table at READ COMMITTED: email_hash is the primary key and              *)
(* idx_users_ssh_key a unique index. Each statement is one step; it reads  *)
(* the committed table plus the transaction's own writes, and a write that *)
(* meets another transaction's uncommitted index entry or row lock waits   *)
(* for that transaction to end. Any statement may fail (context timeout,   *)
(* lost connection); a failing COMMIT may have committed on the server.    *)
(***************************************************************************)
EXTENDS Integers, FiniteSets, TLC

CONSTANTS
    Txns,          \* goroutines, each running one storage call
    Emails,        \* email hashes
    Keys,          \* SSH public keys
    None,          \* no row / no value
    MaxFailures,   \* bound on failing statements
    PoolSize,      \* pgxpool MaxConns
    InitialUsers   \* the users table when the calls begin

ASSUME None \notin Keys /\ MaxFailures \in Nat /\ PoolSize \in Nat \ {0}

Ops == {"StoreUser", "UpdateUser", "DeleteUser", "UpdateLastAccess",
        "GetUserByEmailHash", "EmailHashExists", "SSHKeyExists"}
Results == {"pending", "ok", "email_exists", "ssh_exists", "constraint",
            "not_found", "db_error", "not_implemented"}

\* A users row: its SSH key, and the SSH key given with the password hash
\* it holds (by the StoreUser or UpdateUser call that wrote that hash).
Row == [key: Keys, pwdKey: Keys]
KeyOf(row) == IF row = None THEN None ELSE row.key

ASSUME /\ InitialUsers \in [Emails -> Row \cup {None}]
       /\ \A e1, e2 \in Emails : e1 # e2 /\ InitialUsers[e1] # None =>
             InitialUsers[e1].key # KeyOf(InitialUsers[e2])

VARIABLES
    users,     \* committed table: email hash -> Row, or None
    txn,       \* Txns -> [op, email, key, pc, result, read, exists]
    effect,    \* Txns -> uncommitted writes: email hash -> new Row
    idxEmail,  \* Txns -> primary-key entries inserted, uncommitted
    idxKey,    \* Txns -> ssh_public_key entries held, uncommitted
    rowLock,   \* Txns -> rows locked by an UPDATE
    failures

vars == <<users, txn, effect, idxEmail, idxKey, rowLock, failures>>

Active(t) == txn[t].pc \notin {"idle", "done"}

\* What a statement of t sees: the committed table and t's own writes.
View(t) == [e \in Emails |-> IF e \in DOMAIN effect[t] THEN effect[t][e] ELSE users[e]]

(* The pgxpool: a transaction holds its connection from pool.Begin to the *)
(* deferred Rollback or Commit; an autocommitted statement on s.pool      *)
(* acquires one for that statement alone. Acquire blocks while all        *)
(* MaxConns connections are out.                                          *)
TxnOps == {"StoreUser", "UpdateUser"}
HoldsConn(t) == txn[t].op \in TxnOps /\ txn[t].pc \notin {"idle", "begin", "done"}
FreeConns == PoolSize - Cardinality({t \in Txns : HoldsConn(t)})

Others(t) == {u \in Txns \ {t} : Active(u)}
PKBusy(t, e)   == \E u \in Others(t) : e \in idxEmail[u] \cup rowLock[u]
RowBusy(t, e)  == \E u \in Others(t) : e \in rowLock[u]
KeyBusy(t, k)  == \E u \in Others(t) : k \in idxKey[u]
KeyTaken(k, but) == \E e \in Emails \ {but} : KeyOf(users[e]) = k
KeyVisible(t, k) == \E e \in Emails : KeyOf(View(t)[e]) = k

Goto(t, pc) == txn' = [txn EXCEPT ![t].pc = pc]

\* Mutant: only the email_hash Detail is recognised.
mapUniqueViolationEmailOnly(column) ==
    IF column = "email_hash" THEN "email_exists" ELSE "constraint"

(* mapPostgreSQLError on a unique violation (23505): the Detail names the *)
(* column of the violated index.                                          *)
mapUniqueViolation(column) ==
    CASE column = "email_hash"     -> "email_exists"
      [] column = "ssh_public_key" -> "ssh_exists"
      [] OTHER                     -> "constraint"

\* Mutant: an error path returns without the deferred tx.Rollback; the
\* transaction stays open on its pooled connection, holding its locks.
RollbackLeaked(t, res) ==
    /\ txn' = [txn EXCEPT ![t].pc = "leaked", ![t].result = res]
    /\ UNCHANGED <<effect, idxEmail, idxKey, rowLock>>

(* The call returns: the deferred tx.Rollback discards every uncommitted  *)
(* write and releases its index entries and row locks.                    *)
Rollback(t, res) ==
    /\ txn' = [txn EXCEPT ![t].pc = "done", ![t].result = res]
    /\ effect' = [effect EXCEPT ![t] = [e \in {} |-> None]]
    /\ idxEmail' = [idxEmail EXCEPT ![t] = {}]
    /\ idxKey' = [idxKey EXCEPT ![t] = {}]
    /\ rowLock' = [rowLock EXCEPT ![t] = {}]

-----------------------------------------------------------------------------
\* The first statement of each call.
Entry == [StoreUser |-> "begin", UpdateUser |-> "begin",
          DeleteUser |-> "delete", UpdateLastAccess |-> "lastAccess",
          GetUserByEmailHash |-> "get", EmailHashExists |-> "emailExists",
          SSHKeyExists |-> "sshExists"]

(* A goroutine calls the storage with arguments; StoreUser and UpdateUser *)
(* begin a transaction (pool.Begin).                                      *)
Call(t, op, e, k) ==
    /\ txn[t].pc = "idle"
    /\ txn' = [txn EXCEPT ![t] =
                 [op |-> op, email |-> e, key |-> k, result |-> "pending",
                  read |-> None, exists |-> FALSE, pc |-> Entry[op]]]
    /\ UNCHANGED <<users, effect, idxEmail, idxKey, rowLock, failures>>

(* pool.Begin: waits for a free connection, then the first statement.    *)
Begin(t) ==
    /\ txn[t].pc = "begin" /\ FreeConns > 0
    /\ Goto(t, IF txn[t].op = "StoreUser" THEN "checkEmail" ELSE "checkExists")
    /\ UNCHANGED <<users, effect, idxEmail, idxKey, rowLock, failures>>

(* StoreUser: emailHashExistsQuery, then sshKeyExistsQuery. *)
StoreCheckEmail(t) ==
    /\ txn[t].pc = "checkEmail"
    /\ IF View(t)[txn[t].email] # None
       THEN Rollback(t, "email_exists")
       ELSE Goto(t, "checkSSH") /\ UNCHANGED <<effect, idxEmail, idxKey, rowLock>>
    /\ UNCHANGED <<users, failures>>

StoreCheckSSH(t) ==
    /\ txn[t].pc = "checkSSH"
    /\ IF KeyVisible(t, txn[t].key)
       THEN Rollback(t, "ssh_exists")
       ELSE Goto(t, "insert") /\ UNCHANGED <<effect, idxEmail, idxKey, rowLock>>
    /\ UNCHANGED <<users, failures>>

\* Mutant: the INSERT as if idx_users_ssh_key were not unique.
StoreInsertNoKeyIndex(t) ==
    LET e == txn[t].email
        k == txn[t].key
    IN
    /\ txn[t].pc = "insert"
    /\ ~PKBusy(t, e)
    /\ IF users[e] # None
       THEN Rollback(t, mapUniqueViolation("email_hash"))
       ELSE /\ effect' = [effect EXCEPT ![t] = (e :> [key |-> k, pwdKey |-> k]) @@ effect[t]]
            /\ idxEmail' = [idxEmail EXCEPT ![t] = @ \cup {e}]
            /\ Goto(t, "commit")
            /\ UNCHANGED <<idxKey, rowLock>>
    /\ UNCHANGED <<users, failures>>

(* StoreUser's INSERT: the primary key is checked first, then the SSH     *)
(* index; each waits for an in-progress transaction holding the value.    *)
StoreInsert(t) ==
    LET e == txn[t].email
        k == txn[t].key
    IN
    /\ txn[t].pc = "insert"
    /\ ~PKBusy(t, e)
    /\ users[e] = None => ~KeyBusy(t, k)
    /\ CASE users[e] # None -> Rollback(t, mapUniqueViolation("email_hash"))
         [] KeyTaken(k, e) -> Rollback(t, mapUniqueViolation("ssh_public_key"))
         [] OTHER ->
              /\ effect' = [effect EXCEPT ![t] = (e :> [key |-> k, pwdKey |-> k]) @@ effect[t]]
              /\ idxEmail' = [idxEmail EXCEPT ![t] = @ \cup {e}]
              /\ idxKey' = [idxKey EXCEPT ![t] = @ \cup {k}]
              /\ Goto(t, "commit")
              /\ UNCHANGED rowLock
    /\ UNCHANGED <<users, failures>>

(* tx.Commit succeeds: the writes become visible and the locks are freed. *)
Commit(t) ==
    /\ txn[t].pc = "commit"
    /\ users' = View(t)
    /\ Rollback(t, "ok")
    /\ UNCHANGED failures

(* tx.Commit reaches the server, which commits, but the 5 s context       *)
(* expires before the reply: the caller gets an error for a stored write. *)
CommitUnacknowledged(t) ==
    /\ txn[t].pc = "commit" /\ failures < MaxFailures
    /\ users' = View(t)
    /\ Rollback(t, "db_error")
    /\ failures' = failures + 1

(* The statement in progress, or Begin, fails: context deadline while     *)
(* waiting for a lock, lost connection, deadlock abort.                   *)
Fail(t) ==
    /\ Active(t) /\ failures < MaxFailures
    /\ Rollback(t, "db_error")
    /\ failures' = failures + 1
    /\ UNCHANGED users

-----------------------------------------------------------------------------
(* UpdateUser with a new password and a new SSH key: check the user       *)
(* exists, UPDATE the password (locking the row), check the new key is    *)
(* unused, UPDATE the key, commit. An UPDATE of a row deleted meanwhile   *)
(* matches no row and is not an error.                                    *)
UpdateCheckExists(t) ==
    /\ txn[t].pc = "checkExists"
    /\ IF View(t)[txn[t].email] = None
       THEN Rollback(t, "not_found")
       ELSE Goto(t, "updatePassword") /\ UNCHANGED <<effect, idxEmail, idxKey, rowLock>>
    /\ UNCHANGED <<users, failures>>

UpdatePassword(t) ==
    LET e == txn[t].email IN
    /\ txn[t].pc = "updatePassword"
    /\ ~RowBusy(t, e)
    /\ IF View(t)[e] # None
       THEN /\ effect' = [effect EXCEPT ![t] = (e :> [View(t)[e] EXCEPT !.pwdKey = txn[t].key]) @@ effect[t]]
            /\ rowLock' = [rowLock EXCEPT ![t] = @ \cup {e}]
       ELSE UNCHANGED <<effect, rowLock>>
    /\ Goto(t, "checkSSH2")
    /\ UNCHANGED <<users, idxEmail, idxKey, failures>>

UpdateCheckSSH(t) ==
    /\ txn[t].pc = "checkSSH2"
    /\ IF KeyVisible(t, txn[t].key)
       THEN Rollback(t, "ssh_exists")
       ELSE Goto(t, "updateSSH") /\ UNCHANGED <<effect, idxEmail, idxKey, rowLock>>
    /\ UNCHANGED <<users, failures>>

UpdateSSH(t) ==
    LET e == txn[t].email
        k == txn[t].key
    IN
    /\ txn[t].pc = "updateSSH"
    /\ ~RowBusy(t, e)
    /\ View(t)[e] # None => ~KeyBusy(t, k)
    /\ CASE View(t)[e] = None ->
              Goto(t, "commit") /\ UNCHANGED <<effect, idxEmail, idxKey, rowLock>>
         [] KeyTaken(k, e) -> Rollback(t, mapUniqueViolation("ssh_public_key"))
         [] OTHER ->
              /\ effect' = [effect EXCEPT ![t] = (e :> [View(t)[e] EXCEPT !.key = k]) @@ effect[t]]
              /\ idxKey' = [idxKey EXCEPT ![t] = @ \cup {k, KeyOf(users[e])}]
              /\ rowLock' = [rowLock EXCEPT ![t] = @ \cup {e}]
              /\ Goto(t, "commit")
              /\ UNCHANGED idxEmail
    /\ UNCHANGED <<users, failures>>

(* DeleteUser(permanent): a soft delete is refused outright; otherwise    *)
(* one autocommitted DELETE, which waits for a row lock and does not see  *)
(* uncommitted inserts. No row deleted (RowsAffected = 0): not found.     *)
DeleteUser(t, permanent) ==
    LET e == txn[t].email IN
    /\ txn[t].pc = "delete" /\ FreeConns > 0
    /\ permanent => ~RowBusy(t, e)
    /\ CASE ~permanent     -> UNCHANGED users /\ Rollback(t, "not_implemented")
         [] users[e] = None -> UNCHANGED users /\ Rollback(t, "not_found")
         [] OTHER           -> users' = [users EXCEPT ![e] = None] /\ Rollback(t, "ok")
    /\ UNCHANGED failures

(* UpdateLastAccess: one autocommitted UPDATE of last_access_at (a column  *)
(* no property reads); it waits for a row lock. RowsAffected = 0: the     *)
(* user is not found.                                                     *)
UpdateLastAccess(t) ==
    LET e == txn[t].email IN
    /\ txn[t].pc = "lastAccess" /\ FreeConns > 0
    /\ ~RowBusy(t, e)
    /\ Rollback(t, IF users[e] = None THEN "not_found" ELSE "ok")
    /\ UNCHANGED <<users, failures>>

(* The autocommitted reads: a plain SELECT takes no lock and sees the     *)
(* committed table. GetUserByEmailHash answers nil, nil for no row.       *)
Answer(t, field, value) ==
    /\ FreeConns > 0
    /\ txn' = [txn EXCEPT ![t].pc = "done", ![t].result = "ok", ![t][field] = value]
    /\ UNCHANGED <<users, effect, idxEmail, idxKey, rowLock, failures>>

GetUserByEmailHash(t) ==
    txn[t].pc = "get" /\ Answer(t, "read", users[txn[t].email])

EmailHashExists(t) ==
    txn[t].pc = "emailExists" /\ Answer(t, "exists", users[txn[t].email] # None)

SSHKeyExists(t) ==
    txn[t].pc = "sshExists" /\ Answer(t, "exists", KeyTaken(txn[t].key, None))

-----------------------------------------------------------------------------
Init ==
    /\ users = InitialUsers
    /\ txn = [t \in Txns |-> [op |-> "none", email |-> None, key |-> None,
                              pc |-> "idle", result |-> "pending", read |-> None,
                              exists |-> FALSE]]
    /\ effect = [t \in Txns |-> [e \in {} |-> None]]
    /\ idxEmail = [t \in Txns |-> {}]
    /\ idxKey = [t \in Txns |-> {}]
    /\ rowLock = [t \in Txns |-> {}]
    /\ failures = 0

Next ==
    \/ \E t \in Txns, e \in Emails, k \in Keys :
          \/ Call(t, "StoreUser", e, k)
          \/ Call(t, "UpdateUser", e, k)
    \/ \E t \in Txns, e \in Emails, op \in {"DeleteUser", "UpdateLastAccess",
                                          "GetUserByEmailHash", "EmailHashExists"} :
          Call(t, op, e, None)
    \/ \E t \in Txns, k \in Keys : Call(t, "SSHKeyExists", None, k)
    \/ \E t \in Txns, permanent \in BOOLEAN : DeleteUser(t, permanent)
    \/ \E t \in Txns :
          \/ Begin(t) \/ StoreCheckEmail(t) \/ StoreCheckSSH(t) \/ StoreInsert(t)
          \/ UpdateCheckExists(t) \/ UpdatePassword(t) \/ UpdateCheckSSH(t)
          \/ UpdateSSH(t) \/ UpdateLastAccess(t)
          \/ GetUserByEmailHash(t) \/ EmailHashExists(t) \/ SSHKeyExists(t)
          \/ Commit(t) \/ CommitUnacknowledged(t) \/ Fail(t)

(* Every goroutine that has a statement to run, and is not waiting for    *)
(* another transaction, eventually runs it (the database serves each      *)
(* connection); failures are the environment and are not forced.         *)
Progress(t) ==
    \/ Begin(t) \/ StoreCheckEmail(t) \/ StoreCheckSSH(t) \/ StoreInsert(t)
    \/ UpdateCheckExists(t) \/ UpdatePassword(t) \/ UpdateCheckSSH(t)
    \/ UpdateSSH(t) \/ (\E p \in BOOLEAN : DeleteUser(t, p)) \/ Commit(t) \/ UpdateLastAccess(t)
    \/ GetUserByEmailHash(t) \/ EmailHashExists(t) \/ SSHKeyExists(t)

Spec == Init /\ [][Next]_vars /\ \A t \in Txns : WF_vars(Progress(t))

-----------------------------------------------------------------------------
(* idx_users_ssh_key: no two stored users share an SSH key, although       *)
(* StoreUser's and UpdateUser's sshKeyExistsQuery pre-checks race with    *)
(* each other at READ COMMITTED and with DeleteUser.                       *)
SSHKeysUnique ==
    \A e1, e2 \in Emails :
        e1 # e2 /\ users[e1] # None => users[e1].key # KeyOf(users[e2])

(* A call that fails on a uniqueness conflict says which one (the 409s of  *)
(* spec scenarios 2 and 3): EmailHashExists only when a stored user has    *)
(* its email hash, SSHKeyExists only when a stored user has its key --     *)
(* whether the pre-check or the index (mapPostgreSQLError) caught it --    *)
(* and never a generic ConstraintViolation.                                *)
ConflictErrorsTruthful ==
    [][\A t \in Txns :
          txn[t].result = "pending" /\ txn'[t].result # "pending" =>
             /\ txn'[t].result # "constraint"
             /\ txn'[t].result = "email_exists" => users[txn[t].email] # None
             /\ txn'[t].result = "ssh_exists" => KeyTaken(txn[t].key, None)
      ]_vars

(* Every storage call returns: no goroutine waits for ever on a lock or an *)
(* index entry held by another transaction, or on a pooled connection     *)
(* when more calls run than the pool has connections.                    *)
EveryCallReturns ==
    \A t \in Txns : (txn[t].pc # "idle") ~> (txn[t].result # "pending")

(* UpdateUser is one transaction: its password and SSH-key UPDATEs commit  *)
(* together or not at all, so a stored row, and any row GetUserByEmailHash *)
(* returns, pairs a password hash with the SSH key given by the same call, *)
(* whatever the other calls do in between. UpdateUser checks that the user *)
(* exists once, then runs each UPDATE without looking at RowsAffected.    *)
UpdateUserAtomic ==
    /\ \A e \in Emails : users[e] # None => users[e].key = users[e].pwdKey
    /\ \A t \in Txns : txn[t].op = "GetUserByEmailHash" /\ txn[t].read \in Row =>
          txn[t].read.key = txn[t].read.pwdKey

=============================================================================
