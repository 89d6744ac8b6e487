------------------------------- MODULE KvStore ------------------------------
(***************************************************************************)
(* The Durable Objects that hold the short-lived values (src/kv-store.do.ts*)
(* and, behind it, src/ttl-store.ts): one object per key, with its stored  *)
(* entry and the alarm that removes the entry once it has expired.         *)
(*                                                                         *)
(* The input gate of an object lets one request run to its end before the  *)
(* next one or the alarm starts, so each operation is one step.  An alarm  *)
(* that is due is taken off the storage and delivered later, possibly      *)
(* after other requests, and delivered again when its handler fails.       *)
(***************************************************************************)
EXTENDS Naturals

CONSTANTS
    Key,
    IndexKey,       \* the keys of the indexes of active sessions
    Null,           \* nothing stored, no expiry, no alarm
    MaxNow          \* bound: the last moment of the clock

ASSUME KeyAssumption == IndexKey \subseteq Key /\ MaxNow \in Nat \ {0}

VARIABLES
    entry,      \* entry[k]: what the object of k has stored under ENTRY
    alarmAt,    \* alarmAt[k]: when its alarm is due
    ringing,    \* ringing[k]: its alarm is being delivered
    now,
    parity      \* flips with every call that a client makes

kvVars == <<entry, alarmAt, ringing, now, parity>>

KvInit ==
    /\ entry = [k \in Key |-> Null]
    /\ alarmAt = [k \in Key |-> Null]
    /\ ringing = [k \in Key |-> FALSE]
    /\ now = 1
    /\ parity = 0

-----------------------------------------------------------------------------
\* The entry of k as the operations see it: an expired one is hidden.
live(k) ==
    /\ entry[k] # Null
    /\ entry[k].expiresAt # Null => entry[k].expiresAt > now

\* Mutant: the alarm is forgotten.
write_NoAlarm(k, value, expiresAt) ==
    /\ entry' = [entry EXCEPT ![k] = [value |-> value, expiresAt |-> expiresAt]]
    /\ parity' = 1 - parity
    /\ UNCHANGED <<alarmAt, ringing, now>>

write(k, value, expiresAt) ==
    /\ entry' = [entry EXCEPT ![k] = [value |-> value, expiresAt |-> expiresAt]]
    /\ alarmAt' = [alarmAt EXCEPT ![k] = expiresAt]
    /\ parity' = 1 - parity
    /\ UNCHANGED <<ringing, now>>

\* A value without a lifetime (Null) never expires.
set(k, value, ttl) == write(k, value, IF ttl = Null THEN Null ELSE now + ttl)

\* deleteAll takes the alarm with it (delete_all_deletes_alarm, wrangler.jsonc);
\* a delivery that is under way goes on.
Cleared(k) == entry' = [entry EXCEPT ![k] = Null] /\ alarmAt' = [alarmAt EXCEPT ![k] = Null]

delete(k) == Cleared(k) /\ parity' = 1 - parity /\ UNCHANGED <<ringing, now>>

getAndDelete(k) == live(k) /\ delete(k)

incrementWindow(k, window) ==
    write(k, IF live(k) THEN entry[k].value + 1 ELSE 1, now + window)

-----------------------------------------------------------------------------
(* The index of a user's active sessions: a set of tokens with the expiry  *)
(* of each.                                                                *)

\* The list stored under an index key, as get returns it.
stored(k) == IF live(k) THEN entry[k].value ELSE {}

\* What is written wins over what is stored; what is only stored stays until
\* it expires.
merged(k, written) ==
    written \cup {e \in stored(k) : /\ \A w \in written : w.token # e.token
                                    /\ e.expiresAt > now}

\* The index lives as long as its last session.
latest(entries) ==
    IF entries = {} THEN now
    ELSE LET last == CHOOSE e \in entries : \A f \in entries : f.expiresAt <= e.expiresAt
         IN  IF last.expiresAt > now THEN last.expiresAt ELSE now

\* Mutant: the writer's copy replaces the stored list.
mergeSessionIndex_Overwrite(k, written) == write(k, written, latest(written))

mergeSessionIndex(k, written) == write(k, merged(k, written), latest(merged(k, written)))

-----------------------------------------------------------------------------
\* The runtime starts the delivery of an alarm that is due.
ring(k) ==
    /\ alarmAt[k] # Null
    /\ alarmAt[k] <= now
    /\ alarmAt' = [alarmAt EXCEPT ![k] = Null]
    /\ ringing' = [ringing EXCEPT ![k] = TRUE]
    /\ UNCHANGED <<entry, now, parity>>

\* Mutant: the alarm removes the entry without looking at its expiry.
alarm_NoRecheck(k) ==
    /\ ringing[k]
    /\ ringing' = [ringing EXCEPT ![k] = FALSE]
    /\ Cleared(k)
    /\ UNCHANGED <<now, parity>>

\* The handler: an entry that has been rewritten meanwhile stays, and the alarm
\* is set for its new expiry.  A handler that fails leaves the alarm ringing.
alarm(k) ==
    /\ ringing[k]
    /\ ringing' = [ringing EXCEPT ![k] = FALSE]
    /\ IF live(k)
       THEN /\ alarmAt' = [alarmAt EXCEPT ![k] = IF entry[k].expiresAt = Null
                                                 THEN @ ELSE entry[k].expiresAt]
            /\ UNCHANGED entry
       ELSE Cleared(k)
    /\ UNCHANGED <<now, parity>>

Tick == now < MaxNow /\ now' = now + 1 /\ UNCHANGED <<entry, alarmAt, ringing, parity>>

-----------------------------------------------------------------------------
(* What callers see of the objects is the contract of the TTL store.       *)

Forever == MaxNow + 100

visible ==
    [k \in Key |-> IF live(k)
                   THEN [value |-> entry[k].value,
                         expiresAt |-> IF entry[k].expiresAt = Null THEN Forever
                                       ELSE entry[k].expiresAt]
                   ELSE [value |-> Null, expiresAt |-> 0]]

=============================================================================
