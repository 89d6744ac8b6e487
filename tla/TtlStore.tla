------------------------------ MODULE TtlStore ------------------------------
(***************************************************************************)
(* The store of short-lived values behind the TtlStore service             *)
(* (src/ttl-store-service.ts): one entry per key, with the time at which   *)
(* it expires.  Both backends (src/kv-store.do.ts, src/kv-store.memory.ts) *)
(* hide an expired entry from every operation, so when it is physically    *)
(* removed (the alarm of the Durable Object) makes no difference here.     *)
(*                                                                         *)
(* Every operation is one step: a Durable Object runs the requests to a    *)
(* key one after the other.  A call that fails or exceeds its 2 seconds is *)
(* not repeated, except get, and may or may not have taken effect.         *)
(***************************************************************************)
EXTENDS Naturals

CONSTANTS Key, NoValue

VARIABLES
    store,      \* store[k]: the entry of key k
    now         \* the clock, which starts at 1

NoEntry == [value |-> NoValue, expiresAt |-> 0]

\* The entry of k is there and has not expired.
LiveEntry(k) == store[k].expiresAt > now

Set(k, value, ttl) ==
    store' = [store EXCEPT ![k] = [value |-> value, expiresAt |-> now + ttl]]

Delete(k) == store' = [store EXCEPT ![k] = NoEntry]

\* The count that an increment of the window k returns.
NextCount(k) == IF LiveEntry(k) THEN store[k].value + 1 ELSE 1

\* Every increment starts the window anew.
IncrementWindow(k, window) == Set(k, NextCount(k), window)

\* A call of A whose caller sees a failure.
Fails(A) == A \/ UNCHANGED store

=============================================================================
