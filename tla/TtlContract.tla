----------------------------- MODULE TtlContract ----------------------------
(***************************************************************************)
(* What the callers of the TTL store rely on (docs/adr/0019): an entry is  *)
(* there from the write until it is deleted, overwritten or expires, and   *)
(* is gone at its expiry, for every caller at once.  Nothing else makes it *)
(* disappear or come back.  KvStore is shown to implement this.            *)
(***************************************************************************)
EXTENDS TtlStore

CONSTANTS
    Ttl,        \* the lifetimes that are asked for
    Forever     \* the expiry of an entry that was written without a lifetime

VARIABLE
    parity      \* flips with every call that a client makes

TtlInit == store = [k \in Key |-> NoEntry] /\ now = 1 /\ parity = 0

\* The clock advances and every entry that has reached its expiry is gone.
TtlTick ==
    /\ now' = now + 1
    /\ UNCHANGED parity
    /\ store' = [k \in Key |-> IF store[k].expiresAt > now' THEN store[k] ELSE NoEntry]

\* Somebody writes a value of his choice.
TtlWrite(k) ==
    /\ parity' = 1 - parity
    /\ UNCHANGED now
    /\ \/ \E ttl \in Ttl : Set(k, store'[k].value, ttl)
       \/ store' = [store EXCEPT ![k] = [value |-> store'[k].value, expiresAt |-> Forever]]

TtlDelete(k) == Delete(k) /\ parity' = 1 - parity /\ UNCHANGED now

TtlNext == TtlTick \/ \E k \in Key : TtlWrite(k) \/ TtlDelete(k)

TtlSpec == TtlInit /\ [][TtlNext]_<<store, now, parity>>

=============================================================================
