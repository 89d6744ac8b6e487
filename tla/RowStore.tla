------------------------------ MODULE RowStore ------------------------------
(***************************************************************************)
(* The database as src/transaction.ts and db/repositories/ use it:         *)
(* Postgres at READ COMMITTED.  A statement sees the committed rows and    *)
(* the transaction's own writes; a write or a locking read waits for every *)
(* other transaction that holds a conflicting lock on the row; locks are   *)
(* held to the end of the transaction.                                     *)
(*                                                                         *)
(* A multi-row statement takes all its row locks in one step, when they    *)
(* are all free.  Postgres takes them one by one, but what the statement   *)
(* has locked nobody else can change, so a statement that completes sees   *)
(* the same rows as if it had locked them all when it got the last one.    *)
(* The deadlocks this hides end in the abort of a transaction, which       *)
(* DbFailure of module Tenancy allows at every point.                      *)
(***************************************************************************)

CONSTANTS
    Slot,       \* database connections: at most one transaction each
    Unwritten   \* marks a row that a transaction has not written

VARIABLES
    db,         \* row -> its last committed value
    own,        \* own[t][row]: t's uncommitted value of row, or Unwritten
    held        \* the locks: triples <<t, row, mode>>

RowLock == {"KEY SHARE", "SHARE", "NO KEY UPDATE", "UPDATE"}

\* pg_advisory_xact_lock(hashtext(userId)) is a lock on the user's row that
\* conflicts with nothing but itself.
Mode == RowLock \cup {"ADVISORY"}

\* The conflict table of Postgres row locks.
ConflictsWith(m) ==
    CASE m = "KEY SHARE"     -> {"UPDATE"}
      [] m = "SHARE"         -> {"NO KEY UPDATE", "UPDATE"}
      [] m = "NO KEY UPDATE" -> {"SHARE", "NO KEY UPDATE", "UPDATE"}
      [] m = "UPDATE"        -> RowLock
      [] m = "ADVISORY"      -> {"ADVISORY"}

\* No other transaction holds a lock on row r that conflicts with mode m.
Free(t, r, m) ==
    \A h \in held : h[1] # t /\ h[2] = r => h[3] \notin ConflictsWith(m)

AllFree(t, need) == \A l \in need : Free(t, l[1], l[2])

\* What transaction t reads: its own writes over the committed rows.
View(t) == [r \in DOMAIN db |-> IF own[t][r] = Unwritten THEN db[r] ELSE own[t][r]]

Clean == [r \in DOMAIN db |-> Unwritten]

LocksOf(t) == {h \in held : h[1] = t}

\* One statement of t: it takes the locks in need, pairs <<row, mode>>, and
\* leaves the transaction with the uncommitted rows w.
Execute(t, need, w) ==
    /\ AllFree(t, need)
    /\ held' = held \cup {<<t, l[1], l[2]>> : l \in need}
    /\ own' = [own EXCEPT ![t] = w]
    /\ UNCHANGED db

\* ROLLBACK: the writes vanish and the locks go.
Discard(t) ==
    /\ own' = [own EXCEPT ![t] = Clean]
    /\ held' = held \ LocksOf(t)
    /\ UNCHANGED db

\* COMMIT: the writes become visible at once and the locks go.
Publish(t) ==
    /\ db' = View(t)
    /\ own' = [own EXCEPT ![t] = Clean]
    /\ held' = held \ LocksOf(t)

=============================================================================
