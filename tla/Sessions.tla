------------------------------ MODULE Sessions ------------------------------
(***************************************************************************)
(* The sessions of one user in the TTL store.  better-auth keeps each      *)
(* session under its token and the list of them under the user's index     *)
(* key, through the adapter src/ttl-store-better-auth.ts; the worker's own *)
(* keys (attempt windows, challenges) are objects of the same kind.        *)
(*                                                                         *)
(* The library works in single calls to the store: it reads the index,     *)
(* writes it back, then writes or deletes the session.  A call that fails  *)
(* or exceeds its 2 seconds ends the request, whether it took effect or    *)
(* not.                                                                    *)
(***************************************************************************)
EXTENDS KvStore

CONSTANTS
    Token,          \* the tokens that are drawn
    index,          \* the index key of the user
    OwnKey,         \* keys of the worker's own values
    Slot,           \* requests under way at a time
    Lifetime,       \* of a session
    MaxCount,       \* bound: of a counter
    MaxRemovals     \* bound: deletions of sessions

ASSUME SessionKeys ==
    /\ Key = Token \cup {index} \cup OwnKey /\ IndexKey = {index}
    /\ index \notin Token /\ OwnKey \cap (Token \cup {index}) = {}

\* A session in the index, and what is stored under a key.
Listing == [token : Token, expiresAt : Nat]
Entry == [value : BOOLEAN \cup Nat \cup SUBSET Listing, expiresAt : Nat \cup {Null}]

ASSUME LifetimeAssumption == Lifetime \in Nat
ASSUME NullAssumption == Null \notin Nat /\ Null \notin Entry

VARIABLES
    issued,         \* the tokens drawn so far
    removals,       \* how many deletions of sessions have begun
    job             \* job[t]: the request in slot t

vars == <<entry, alarmAt, ringing, now, parity, issued, removals, job>>

Idle == [op |-> "idle", pc |-> "idle", token |-> Null, list |-> {}, before |-> {}, expiresAt |-> 0]

Init ==
    /\ KvInit
    /\ issued = {}
    /\ removals = 0
    /\ job = [t \in Slot |-> Idle]

At(t, op, pc) == job[t].op = op /\ job[t].pc = pc
Goto(t, pc) == job' = [job EXCEPT ![t].pc = pc]
End(t) == job' = [job EXCEPT ![t] = Idle]

\* The tokens under which a session can be found.
LiveTokens == {k \in Token : live(k)}

\* A call whose caller is told that it failed: it may have taken effect.
Fails(t, call) == (call \/ UNCHANGED kvVars) /\ End(t)

-----------------------------------------------------------------------------
(* createSession: the index first, then the session.                       *)

CreateSession(t) == \E tok \in Token \ issued :
    /\ job[t] = Idle
    /\ job' = [job EXCEPT ![t] = [Idle EXCEPT
                 !.op = "create", !.pc = "index", !.token = tok,
                 !.list = {e \in stored(index) : e.expiresAt > now}
                          \cup {[token |-> tok, expiresAt |-> now + Lifetime]},
                 !.expiresAt = now + Lifetime]]
    /\ issued' = issued \cup {tok}
    /\ UNCHANGED <<kvVars, removals>>

ListSession(t) ==
    /\ At(t, "create", "index")
    /\ LET call == mergeSessionIndex(index, job[t].list)
       IN  (call /\ Goto(t, "session")) \/ Fails(t, call)
    /\ UNCHANGED <<issued, removals>>

StoreSession(t) ==
    /\ At(t, "create", "session")
    /\ LET call == write(job[t].token, TRUE, job[t].expiresAt)
       IN  (call /\ End(t)) \/ Fails(t, call)
    /\ UNCHANGED <<issued, removals>>

-----------------------------------------------------------------------------
(* deleteSession: the rest of the list, then the session.                  *)

DeleteSession(t) == \E tok \in LiveTokens :
    /\ job[t] = Idle
    /\ job' = [job EXCEPT ![t] = [Idle EXCEPT
                 !.op = "delete", !.pc = "index", !.token = tok,
                 !.list = {e \in stored(index) : e.token # tok /\ e.expiresAt > now}]]
    /\ removals < MaxRemovals /\ removals' = removals + 1
    /\ UNCHANGED <<kvVars, issued>>

UnlistSession(t) ==
    /\ At(t, "delete", "index")
    /\ LET call == IF job[t].list = {} THEN delete(index)
                   ELSE mergeSessionIndex(index, job[t].list)
       IN  (call /\ Goto(t, "session")) \/ Fails(t, call)
    /\ UNCHANGED <<issued, removals>>

RemoveSession(t) ==
    /\ At(t, "delete", "session")
    /\ LET call == delete(job[t].token)
       IN  (call /\ End(t)) \/ Fails(t, call)
    /\ UNCHANGED <<issued, removals>>

-----------------------------------------------------------------------------
(* deleteUserSessions: every listed session, then the index.               *)

DeleteUserSessions(t) ==
    /\ job[t] = Idle
    /\ job' = [job EXCEPT ![t] = [Idle EXCEPT
                 !.op = "deleteAll", !.pc = "sessions",
                 !.list = stored(index), !.before = LiveTokens]]
    /\ removals < MaxRemovals /\ removals' = removals + 1
    /\ UNCHANGED <<kvVars, issued>>

\* Mutant: the first listed session is skipped.
RemoveListed_StopsEarly(t) ==
    /\ At(t, "deleteAll", "sessions")
    /\ \E e \in job[t].list :
         /\ delete(e.token)
         /\ job' = [job EXCEPT ![t].list = {}]
    /\ UNCHANGED <<issued, removals>>

RemoveListed(t) ==
    /\ At(t, "deleteAll", "sessions")
    /\ \E e \in job[t].list :
         LET call == delete(e.token)
         IN  (call /\ job' = [job EXCEPT ![t].list = @ \ {e}]) \/ Fails(t, call)
    /\ UNCHANGED <<issued, removals>>

RemoveIndex(t) ==
    /\ At(t, "deleteAll", "sessions")
    /\ job[t].list = {}
    /\ LET call == delete(index)
       IN  (call /\ Goto(t, "done")) \/ Fails(t, call)
    /\ UNCHANGED <<issued, removals>>

\* The request is answered.
Answer(t) == job[t].pc = "done" /\ End(t) /\ UNCHANGED <<kvVars, issued, removals>>

-----------------------------------------------------------------------------
(* The worker's own keys.  They share nothing with the sessions, and are   *)
(* used before the first sign-in only, to keep the two explorations apart. *)

Untouched(k) == entry[k] = Null /\ alarmAt[k] = Null /\ ~ringing[k]

OwnCall == \E k \in OwnKey :
    /\ issued = {} /\ job = [t \in Slot |-> Idle]
    /\ \/ \E ttl \in {Null, 1, 2} : set(k, 1, ttl)
       \/ /\ live(k) => entry[k].value < MaxCount
          /\ incrementWindow(k, 2)
       \/ getAndDelete(k)
       \/ delete(k)
    /\ UNCHANGED <<issued, removals, job>>

SessionCall(t) ==
    /\ \A k \in OwnKey : Untouched(k)
    /\ \/ CreateSession(t) \/ ListSession(t) \/ StoreSession(t)
       \/ DeleteSession(t) \/ UnlistSession(t) \/ RemoveSession(t)
       \/ DeleteUserSessions(t) \/ RemoveListed(t) \/ RemoveIndex(t) \/ Answer(t)

Ring == (\E k \in Key : ring(k)) /\ UNCHANGED <<issued, removals, job>>
Alarm(k) == alarm(k) /\ UNCHANGED <<issued, removals, job>>
Clock == Tick /\ UNCHANGED <<issued, removals, job>>

Next ==
    \/ OwnCall
    \/ \E t \in Slot : SessionCall(t)
    \/ Ring
    \/ \E k \in Key : Alarm(k)
    \/ Clock

\* The runtime delivers an alarm that is due and repeats a delivery that fails
\* (at least once, with a retry), and time passes.  No request is assumed to
\* finish.
Fairness ==
    /\ WF_vars(Clock)
    /\ \A k \in Key : /\ WF_vars(ring(k) /\ UNCHANGED <<issued, removals, job>>)
                      /\ WF_vars(Alarm(k))

Spec == Init /\ [][Next]_vars /\ Fairness

-----------------------------------------------------------------------------
\* A session that can be used is in the index from which revocations are made,
\* however many sign-ins wrote the list from copies they had read before:
\* mergeSessionIndex keeps what only the stored list has.  (Deletions are
\* excepted: the library deletes an index it has read as empty, with what was
\* added meanwhile.)
SignInsListed ==
    removals = 0 => \A k \in LiveTokens : \E e \in stored(index) : e.token = k

Contract == INSTANCE TtlContract WITH
    store <- visible, NoValue <- Null, Ttl <- 0 .. Lifetime + 2, Forever <- Forever

\* The objects keep the contract of the TTL store: no alarm, however late it is
\* delivered, takes away an entry that was rewritten in the meantime, and
\* nothing that has expired is seen again.
KeepsContract == Contract!TtlSpec

\* deleteUserSessions, when it succeeds and no other deletion meddles with the
\* index, has removed every session that could be used when it began: sessions
\* are listed before they are stored.
RevocationReaches ==
    \A t \in Slot : At(t, "deleteAll", "done") /\ removals = 1
                    => job[t].before \cap LiveTokens = {}

\* Whatever has expired is removed from the storage in the end.
ExpiredRemoved ==
    \A k \in Key : (entry[k] # Null /\ ~live(k)) ~> (entry[k] = Null \/ live(k))

=============================================================================
