--------------------------- MODULE SessionsProofs ---------------------------
(***************************************************************************)
(* Theorems about KvStore and Sessions, for any number of sessions, keys   *)
(* and requests, any lifetime and any length of time.                      *)
(*                                                                         *)
(* A token is drawn once, so everybody who knows of a session, the stored  *)
(* index, the copies that requests have read and the session itself, knows *)
(* the same expiry (Agreed).  The index outlives what it lists (Covered).  *)
(* From the two, a stored session is listed as long as it lives (Listed)   *)
(* until something is deleted, and a revocation has every session in hand  *)
(* that it must remove (Reached), since none of them is stored again       *)
(* (StoredOnce).                                                           *)
(***************************************************************************)
EXTENDS Sessions, Integers, WellFoundedInduction, TLAPS

Job == [op : {"idle", "create", "delete", "deleteAll"},
        pc : {"idle", "index", "session", "sessions", "done"},
        token : Token \cup {Null}, list : SUBSET Listing, before : SUBSET Token,
        expiresAt : Nat]

KvTyped ==
    /\ entry \in [Key -> Entry \cup {Null}]
    /\ now \in Nat \ {0} /\ now <= MaxNow
    /\ \A k \in Key : entry[k] # Null =>
         /\ k \in Token => entry[k].expiresAt \in Nat
         /\ k = index => entry[k].value \subseteq Listing /\ entry[k].expiresAt \in Nat
         /\ k \in OwnKey => entry[k].value \in Nat

JobsTyped ==
    /\ job \in [Slot -> Job] /\ issued \subseteq Token /\ removals \in Nat
    /\ \A t \in Slot :
         /\ job[t].op = "create" => job[t].token \in issued
         /\ job[t].op = "delete" => job[t].token \in Token
         /\ job[t].op \in {"delete", "deleteAll"} => removals > 0

Creating == {t \in Slot : job[t].op = "create"}
Written == {k \in Token : entry[k] # Null}
Indexed == IF entry[index] = Null THEN {} ELSE entry[index].value

Claim(k, x) == [token |-> k, expiresAt |-> x]

\* What anybody knows of sessions.
Claims ==
    Indexed \cup (UNION {job[t].list : t \in Slot})
    \cup {Claim(job[t].token, job[t].expiresAt) : t \in Creating}
    \cup {Claim(k, entry[k].expiresAt) : k \in Written}

Agreed ==
    /\ \A c \in Claims : c.token \in issued /\ c.expiresAt <= now + Lifetime
    /\ \A c, d \in Claims : c.token = d.token => c.expiresAt = d.expiresAt

\* The index outlives what it lists.
Covered ==
    entry[index] # Null => \A e \in entry[index].value : e.expiresAt <= entry[index].expiresAt

\* A session is stored by one request, once.
StoredOnce ==
    /\ \A t, u \in Creating : job[t].token = job[u].token => t = u
    /\ \A t \in Creating : /\ job[t].token \notin Written
                           /\ \A u \in Slot : job[t].token \notin job[u].before
    /\ \A t \in Slot : job[t].before \subseteq issued

\* A session is listed before it is stored, and from then on while it lives.
Listed ==
    /\ \A t \in Creating :
         job[t].pc = "index" => Claim(job[t].token, job[t].expiresAt) \in job[t].list
    /\ removals = 0 =>
         /\ \A t \in Creating : job[t].pc # "index" /\ job[t].expiresAt > now =>
              Claim(job[t].token, job[t].expiresAt) \in stored(index)
         /\ \A k \in LiveTokens : Claim(k, entry[k].expiresAt) \in stored(index)

\* What a revocation must remove and has not, it has in its list.
Reached ==
    removals = 1 => \A t \in Slot : job[t].op = "deleteAll" =>
        \A k \in job[t].before : live(k) => /\ job[t].pc # "done"
                                            /\ \E e \in job[t].list : e.token = k

SessionInv ==
    KvTyped /\ JobsTyped /\ Agreed /\ Covered /\ StoredOnce /\ Listed /\ Reached

-----------------------------------------------------------------------------
(* The expiry of the index.                                                *)

\* Sessions that expire by a common time have a last one.
LEMMA LastExists ==
    ASSUME NEW S \in SUBSET Listing, S # {}, NEW b \in Nat, \A e \in S : e.expiresAt <= b
    PROVE  \E e \in S : \A f \in S : f.expiresAt <= e.expiresAt
<1> DEFINE T == {b - e.expiresAt : e \in S}
<1>1. T \subseteq Nat /\ T # {}
  BY DEF Listing
<1>2. PICK m \in T : \A n \in T : ~(<<n, m>> \in OpToRel(<, Nat))
  BY <1>1, WFMin, NatLessThanWellFounded
<1>3. PICK e \in S : m = b - e.expiresAt
  BY <1>2
<1>4. ASSUME NEW f \in S PROVE f.expiresAt <= e.expiresAt
  <2>1. /\ b - f.expiresAt \in Nat /\ m \in Nat /\ b - f.expiresAt \in T
        /\ f.expiresAt \in Nat /\ e.expiresAt \in Nat
    BY <1>1, <1>2 DEF Listing
  <2>2. ~(b - f.expiresAt < m)
    BY <1>2, <2>1 DEF OpToRel
  <2> QED BY <1>3, <2>1, <2>2
<1> QED BY <1>4

\* The index is written with an expiry that covers what it lists and is no later
\* than a new session's.
LEMMA LatestCovers ==
    ASSUME now \in Nat, NEW S \in SUBSET Listing, \A e \in S : e.expiresAt <= now + Lifetime
    PROVE  /\ latest(S) \in Nat /\ now <= latest(S) /\ latest(S) <= now + Lifetime
           /\ \A e \in S : e.expiresAt <= latest(S)
<1>1. CASE S = {}
  BY <1>1, LifetimeAssumption DEF latest
<1>2. CASE S # {}
  <2> DEFINE last == CHOOSE e \in S : \A f \in S : f.expiresAt <= e.expiresAt
  <2>1. last \in S /\ \A f \in S : f.expiresAt <= last.expiresAt
    <3>1. now + Lifetime \in Nat
      BY LifetimeAssumption
    <3> QED BY <1>2, <3>1, LastExists
  <2>2. latest(S) = IF last.expiresAt > now THEN last.expiresAt ELSE now
    BY <1>2 DEF latest
  <2> HIDE DEF last
  <2>3. last.expiresAt \in Nat /\ \A e \in S : e.expiresAt \in Nat
    BY <2>1 DEF Listing
  <2> QED BY <2>1, <2>2, <2>3, LifetimeAssumption
<1> QED BY <1>1, <1>2

-----------------------------------------------------------------------------
(* What the callers see.                                                   *)

\* A write is a write of the contract, or the deletion of a value that has
\* expired by the time it is stored.
LEMMA WriteVisible ==
    ASSUME KvTyped, NEW k \in Key, NEW v, NEW x, [value |-> v, expiresAt |-> x] \in Entry,
           x = Null \/ x <= now + Lifetime + 2,
           write(k, v, x)
    PROVE  Contract!TtlNext
<1> DEFINE e == [value |-> v, expiresAt |-> x]
<1>1. /\ entry' = [entry EXCEPT ![k] = e] /\ parity' = 1 - parity /\ now' = now
      /\ e # Null /\ e.value = v /\ e.expiresAt = x /\ x \in Nat \cup {Null}
  BY NullAssumption DEF write, Entry
<1> HIDE DEF e
<1>2. \A j \in Key : j # k => live(j)' = live(j) /\ entry'[j] = entry[j]
  BY <1>1 DEF live, KvTyped
<1>3. entry'[k] = e /\ (live(k)' <=> x = Null \/ x > now)
  BY <1>1, NullAssumption DEF live, KvTyped
<1> DEFINE y == IF x = Null THEN Forever ELSE x
<1>4. CASE live(k)'
  <2>1. visible' = [visible EXCEPT ![k] = [value |-> v, expiresAt |-> y]]
    BY <1>1, <1>2, <1>3, <1>4 DEF visible, Forever
  <2>2. visible'[k].value = v
    BY <1>1, <1>3, <1>4 DEF visible
  <2>3. CASE x = Null
    <3>1. Contract!TtlWrite(k)
      BY <1>1, <2>1, <2>2, <2>3 DEF Contract!TtlWrite
    <3> QED BY <3>1 DEF Contract!TtlNext
  <2>4. CASE x # Null
    <3>1. x \in Nat /\ x - now \in 0 .. Lifetime + 2 /\ x = now + (x - now)
      BY <1>1, <1>3, <1>4, <2>4, LifetimeAssumption DEF KvTyped
    <3>2. Contract!Set(k, visible'[k].value, x - now)
      BY <2>1, <2>2, <2>4, <3>1 DEF Contract!Set
    <3>3. Contract!TtlWrite(k)
      BY <1>1, <3>1, <3>2 DEF Contract!TtlWrite
    <3> QED BY <3>3 DEF Contract!TtlNext
  <2> QED BY <2>3, <2>4
<1>5. CASE ~live(k)'
  <2>1. visible' = [visible EXCEPT ![k] = [value |-> Null, expiresAt |-> 0]]
    BY <1>1, <1>2, <1>3, <1>5 DEF visible, Forever
  <2> QED BY <1>1, <2>1 DEF Contract!TtlNext, Contract!TtlDelete, Contract!Delete,
       Contract!NoEntry
<1> QED BY <1>4, <1>5

LEMMA DeleteVisible ==
    ASSUME KvTyped, NEW k \in Key, delete(k)
    PROVE  Contract!TtlNext
<1>1. entry' = [entry EXCEPT ![k] = Null] /\ parity' = 1 - parity /\ now' = now
  BY DEF delete, Cleared
<1>2. \A j \in Key : j # k => live(j)' = live(j) /\ entry'[j] = entry[j]
  BY <1>1 DEF live, KvTyped
<1>3. ~live(k)'
  BY <1>1 DEF live, KvTyped
<1>4. visible' = [visible EXCEPT ![k] = [value |-> Null, expiresAt |-> 0]]
  BY <1>1, <1>2, <1>3 DEF visible, Forever
<1> QED BY <1>1, <1>4 DEF Contract!TtlNext, Contract!TtlDelete, Contract!Delete,
     Contract!NoEntry

\* Time hides what has expired, and nothing else.
LEMMA TickVisible ==
    ASSUME KvTyped, Tick
    PROVE  Contract!TtlTick
<1>1. now' = now + 1 /\ entry' = entry /\ parity' = parity /\ now' <= MaxNow /\ now \in Nat
      /\ MaxNow \in Nat
  BY KeyAssumption DEF Tick, KvTyped
<1>2. ASSUME NEW k \in Key
      PROVE  visible'[k] = IF visible[k].expiresAt > now' THEN visible[k]
                           ELSE [value |-> Null, expiresAt |-> 0]
  <2>1. CASE entry[k] = Null
    BY <1>1, <2>1 DEF visible, live
  <2>2. CASE entry[k] # Null /\ entry[k].expiresAt = Null
    BY <1>1, <2>2 DEF visible, live, Forever
  <2>3. CASE entry[k] # Null /\ entry[k].expiresAt # Null
    <3>1. entry[k].expiresAt \in Nat
      BY <2>3 DEF KvTyped, Entry
    <3> QED BY <1>1, <2>3, <3>1 DEF visible, live, Forever
  <2> QED BY <2>1, <2>2, <2>3
<1>3. visible' = [k \in Key |-> visible'[k]]
  BY DEF visible
<1> QED BY <1>1, <1>2, <1>3 DEF Contract!TtlTick, Contract!NoEntry

\* The alarm takes away only what nobody sees.
LEMMA AlarmVisible ==
    ASSUME KvTyped, NEW k \in Key, ring(k) \/ alarm(k)
    PROVE  UNCHANGED <<visible, now, parity>>
<1>1. now' = now /\ parity' = parity
  BY DEF ring, alarm
<1>2. entry' = entry \/ (~live(k) /\ entry' = [entry EXCEPT ![k] = Null])
  BY DEF ring, alarm, Cleared
<1>3. CASE entry' = entry
  BY <1>1, <1>3 DEF visible, live, Forever
<1>4. CASE ~live(k) /\ entry' = [entry EXCEPT ![k] = Null]
  <2>1. \A j \in Key : live(j)' = live(j) /\ (live(j) => entry'[j] = entry[j])
    BY <1>1, <1>4 DEF live, KvTyped
  <2> QED BY <1>1, <2>1 DEF visible, Forever
<1> QED BY <1>2, <1>3, <1>4

-----------------------------------------------------------------------------
(* The operations of the store.                                            *)

\* All keys but k are as they were.
Others(k) == now' = now /\ \A j \in Key \ {k} : entry'[j] = entry[j] /\ live(j)' = live(j)

LEMMA Keys == index \in Key /\ Token \subseteq Key /\ OwnKey \subseteq Key
             /\ index \notin Token /\ index \notin OwnKey
             /\ \A k \in OwnKey : k \notin Token
BY SessionKeys

LEMMA WriteEffect ==
    ASSUME KvTyped, NEW k \in Key, NEW v, NEW x, write(k, v, x),
           [value |-> v, expiresAt |-> x] \in Entry,
           k \in Token => x \in Nat,
           k = index => v \subseteq Listing /\ x \in Nat,
           k \in OwnKey => v \in Nat
    PROVE  /\ KvTyped' /\ Others(k)
           /\ entry'[k] # Null /\ entry'[k].value = v /\ entry'[k].expiresAt = x
           /\ x \in Nat => (live(k)' <=> x > now)
<1> DEFINE e == [value |-> v, expiresAt |-> x]
<1>1. /\ entry' = [entry EXCEPT ![k] = e] /\ now' = now
      /\ e # Null /\ e.value = v /\ e.expiresAt = x /\ e \in Entry
  BY NullAssumption DEF write
<1> HIDE DEF e
<1>2. entry'[k] = e /\ \A j \in Key \ {k} : entry'[j] = entry[j]
  BY <1>1 DEF KvTyped
<1>3. Others(k)
  BY <1>1, <1>2 DEF Others, live
<1>4. KvTyped'
  <2>1. entry' \in [Key -> Entry \cup {Null}]
    BY <1>1 DEF KvTyped
  <2> QED BY <1>1, <1>2, <2>1 DEF KvTyped
<1>5. x \in Nat => (live(k)' <=> x > now)
  BY <1>1, <1>2, NullAssumption DEF live
<1> QED BY <1>1, <1>2, <1>3, <1>4, <1>5

LEMMA ClearedEffect ==
    ASSUME KvTyped, NEW k \in Key, entry' = [entry EXCEPT ![k] = Null], now' = now
    PROVE  KvTyped' /\ Others(k) /\ entry'[k] = Null /\ ~live(k)'
<1>1. entry'[k] = Null /\ \A j \in Key \ {k} : entry'[j] = entry[j]
  BY DEF KvTyped
<1>2. entry' \in [Key -> Entry \cup {Null}]
  BY DEF KvTyped
<1> QED BY <1>1, <1>2 DEF KvTyped, Others, live

\* The list that is written to the index: what the writer has and what was stored.
LEMMA MergeEffect ==
    ASSUME SessionInv, NEW t \in Slot, mergeSessionIndex(index, job[t].list)
    PROVE  /\ KvTyped' /\ Covered' /\ Others(index)
           /\ Indexed' \subseteq job[t].list \cup Indexed
           /\ \A c \in job[t].list \cup stored(index) :
                 /\ c.expiresAt > now
                 /\ \A d \in Claims : d.token = c.token => d.expiresAt = c.expiresAt
                 => c \in stored(index)'
<1> DEFINE S == merged(index, job[t].list)
<1>1. /\ job[t].list \subseteq Listing /\ job[t].list \subseteq Claims
      /\ stored(index) \subseteq Indexed /\ Indexed \subseteq Listing /\ Indexed \subseteq Claims
  BY Keys DEF SessionInv, JobsTyped, Job, KvTyped, Claims, stored, live, Indexed
<1>2. S \subseteq Listing /\ S \subseteq Claims /\ S \subseteq job[t].list \cup Indexed
  BY <1>1 DEF merged
<1>3. \A e \in S : e.expiresAt <= now + Lifetime
  BY <1>2 DEF SessionInv, Agreed
<1>4. /\ latest(S) \in Nat /\ now \in Nat
      /\ \A e \in S : e.expiresAt <= latest(S)
  BY <1>2, <1>3, LatestCovers DEF SessionInv, KvTyped
<1>5. write(index, S, latest(S))
  BY DEF mergeSessionIndex
<1> HIDE DEF S
<1>6. [value |-> S, expiresAt |-> latest(S)] \in Entry
  BY <1>2, <1>4 DEF Entry
<1>7. /\ KvTyped' /\ Others(index)
      /\ entry'[index] # Null /\ entry'[index].value = S
      /\ entry'[index].expiresAt = latest(S)
      /\ (live(index)' <=> latest(S) > now)
  BY <1>2, <1>4, <1>5, <1>6, Keys, WriteEffect DEF SessionInv
<1>8. Covered' /\ Indexed' = S
  BY <1>4, <1>7 DEF Covered, Indexed
<1>9. ASSUME NEW c \in job[t].list \cup stored(index), c.expiresAt > now,
             \A d \in Claims : d.token = c.token => d.expiresAt = c.expiresAt
      PROVE  c \in stored(index)'
  <2>1. c \in S
    <3>1. CASE c \in job[t].list
      BY <3>1 DEF merged, S
    <3>2. CASE c \in stored(index) /\ c \notin job[t].list
      <4>1. ASSUME NEW w \in job[t].list, w.token = c.token PROVE FALSE
        <5>1. w.expiresAt = c.expiresAt /\ w \in Listing /\ c \in Listing
          BY <1>1, <1>9, <4>1
        <5>2. w = c
          BY <4>1, <5>1 DEF Listing
        <5> QED BY <3>2, <5>2
      <4> QED BY <1>9, <3>2, <4>1 DEF merged, S
    <3> QED BY <3>1, <3>2
  <2>2. live(index)'
    <3>1. c.expiresAt \in Nat /\ c.expiresAt <= latest(S)
      BY <1>2, <1>4, <2>1 DEF Listing
    <3> QED BY <1>4, <1>7, <1>9, <3>1
  <2> QED BY <1>7, <2>1, <2>2 DEF stored
<1> QED BY <1>2, <1>7, <1>8, <1>9

-----------------------------------------------------------------------------
(* The requests.                                                           *)

\* A request that goes on with less in hand, or ends.
Narrowed(t, j) ==
    /\ job' = [job EXCEPT ![t] = j]
    /\ j \in Job /\ j.list \subseteq job[t].list /\ j.before \subseteq job[t].before
    /\ j.op \in {"idle", job[t].op}
    /\ j.op # "idle" => j.token = job[t].token /\ j.expiresAt = job[t].expiresAt

LEMMA Moves ==
    ASSUME SessionInv, NEW t \in Slot
    PROVE  /\ End(t) => Narrowed(t, Idle)
           /\ \A p \in {"index", "session", "sessions", "done"} :
                 Goto(t, p) => Narrowed(t, [job[t] EXCEPT !.pc = p])
           /\ job[t] \in Job
<1>1. job \in [Slot -> Job] /\ job[t] \in Job
  BY DEF SessionInv, JobsTyped
<1>2. Idle \in Job /\ Idle.list = {} /\ Idle.before = {} /\ Idle.op = "idle"
  BY DEF Idle, Job
<1>3. End(t) => Narrowed(t, Idle)
  BY <1>1, <1>2 DEF End, Narrowed
<1>4. ASSUME NEW p \in {"index", "session", "sessions", "done"}, Goto(t, p)
      PROVE  Narrowed(t, [job[t] EXCEPT !.pc = p])
  BY <1>1, <1>4 DEF Goto, Narrowed, Job
<1> QED BY <1>1, <1>3, <1>4

LEMMA ClaimsNow ==
    ASSUME NEW c
    PROVE  c \in Claims <=>
              \/ c \in Indexed \/ \E t \in Slot : c \in job[t].list
              \/ \E t \in Creating : c = Claim(job[t].token, job[t].expiresAt)
              \/ \E k \in Written : c = Claim(k, entry[k].expiresAt)
<1> DEFINE A == UNION {job[t].list : t \in Slot}
           B == {Claim(job[t].token, job[t].expiresAt) : t \in Creating}
           C == {Claim(k, entry[k].expiresAt) : k \in Written}
<1>1. Claims = Indexed \cup A \cup B \cup C
  BY DEF Claims, Claim
<1>2. c \in A <=> \E t \in Slot : c \in job[t].list
  OBVIOUS
<1>3. c \in B <=> \E t \in Creating : c = Claim(job[t].token, job[t].expiresAt)
  OBVIOUS
<1>4. c \in C <=> \E k \in Written : c = Claim(k, entry[k].expiresAt)
  OBVIOUS
<1> QED BY <1>1, <1>2, <1>3, <1>4

LEMMA ClaimsNext ==
    ASSUME NEW c
    PROVE  c \in Claims' <=>
              \/ c \in Indexed' \/ \E t \in Slot : c \in job'[t].list
              \/ \E t \in Creating' : c = Claim(job'[t].token, job'[t].expiresAt)
              \/ \E k \in Written' : c = Claim(k, entry'[k].expiresAt)
<1> DEFINE A == UNION {job'[t].list : t \in Slot}
           B == {Claim(job'[t].token, job'[t].expiresAt) : t \in Creating'}
           C == {Claim(k, entry'[k].expiresAt) : k \in Written'}
<1>1. Claims' = Indexed' \cup A \cup B \cup C
  BY DEF Claims, Claim
<1>2. c \in A <=> \E t \in Slot : c \in job'[t].list
  OBVIOUS
<1>3. c \in B <=> \E t \in Creating' : c = Claim(job'[t].token, job'[t].expiresAt)
  OBVIOUS
<1>4. c \in C <=> \E k \in Written' : c = Claim(k, entry'[k].expiresAt)
  OBVIOUS
<1> QED BY <1>1, <1>2, <1>3, <1>4

\* A session that comes to be stored is that of the request that ends with it.
LEMMA NarrowedKeeps ==
    ASSUME SessionInv, NEW t \in Slot, NEW j, Narrowed(t, j),
           UNCHANGED <<issued, removals, now>>, KvTyped',
           Indexed' \subseteq Claims,
           \A k \in Token : entry'[k] # Null =>
              /\ Claim(k, entry'[k].expiresAt) \in Claims
              /\ \/ k \in Written
                 \/ job[t].op = "create" /\ job[t].token = k /\ j.op = "idle"
    PROVE  /\ JobsTyped' /\ Agreed' /\ StoredOnce'
           /\ \A u \in Creating' : u \in Creating /\ job'[u].token = job[u].token
                                   /\ job'[u].expiresAt = job[u].expiresAt
<1>1. /\ job \in [Slot -> Job] /\ job'[t] = j
      /\ \A u \in Slot \ {t} : job'[u] = job[u]
  BY DEF SessionInv, JobsTyped, Narrowed
<1>2. JobsTyped'
  <2>1. job' \in [Slot -> Job] /\ issued' \subseteq Token /\ removals' \in Nat
    BY <1>1 DEF SessionInv, JobsTyped, Narrowed
  <2>2. ASSUME NEW u \in Slot
        PROVE  /\ job'[u].op = "create" => job'[u].token \in issued
               /\ job'[u].op = "delete" => job'[u].token \in Token
               /\ job'[u].op \in {"delete", "deleteAll"} => removals > 0
    <3>1. CASE u = t
      BY <1>1, <3>1 DEF SessionInv, JobsTyped, Narrowed
    <3>2. CASE u # t
      BY <1>1, <3>2 DEF SessionInv, JobsTyped
    <3> QED BY <3>1, <3>2
  <2> QED BY <2>1, <2>2 DEF JobsTyped
<1>3. \A u \in Creating' : /\ u \in Creating /\ job'[u].token = job[u].token
                           /\ job'[u].expiresAt = job[u].expiresAt
  BY <1>1 DEF Creating, Narrowed
<1>4. \A u \in Slot : /\ job'[u].list \subseteq job[u].list
                      /\ job'[u].before \subseteq job[u].before
  BY <1>1 DEF Narrowed
<1>5. Claims' \subseteq Claims
  <2> SUFFICES ASSUME NEW c \in Claims' PROVE c \in Claims
    OBVIOUS
  <2>1. CASE c \in Indexed'
    BY <2>1
  <2>2. ASSUME NEW u \in Slot, c \in job'[u].list PROVE c \in Claims
    BY <1>4, <2>2, ClaimsNow
  <2>3. ASSUME NEW u \in Creating', c = Claim(job'[u].token, job'[u].expiresAt)
        PROVE  c \in Claims
    BY <1>3, <2>3, ClaimsNow
  <2>4. ASSUME NEW k \in Token, entry'[k] # Null, c = Claim(k, entry'[k].expiresAt)
        PROVE  c \in Claims
    BY <2>4
  <2> QED BY <2>1, <2>2, <2>3, <2>4, ClaimsNext DEF Written
<1>6. Agreed'
  BY <1>5 DEF SessionInv, Agreed
<1>7. StoredOnce'
  <2>1. \A u, v \in Creating' : job'[u].token = job'[v].token => u = v
    BY <1>3 DEF SessionInv, StoredOnce
  <2>2. ASSUME NEW u \in Creating', job'[u].token \in Written' PROVE FALSE
    <3>1. u \in Creating /\ job[u].token \notin Written /\ job'[u].token = job[u].token
      BY <1>3 DEF SessionInv, StoredOnce
    <3>2. job[t].op = "create" /\ job[t].token = job[u].token /\ j.op = "idle"
      BY <2>2, <3>1 DEF Written
    <3>3. u = t
      BY <3>1, <3>2 DEF SessionInv, StoredOnce, Creating
    <3> QED BY <1>1, <3>2, <3>3 DEF Creating
  <2>3. \A u \in Creating', v \in Slot : job'[u].token \notin job'[v].before
    BY <1>3, <1>4 DEF SessionInv, StoredOnce
  <2>4. \A u \in Slot : job'[u].before \subseteq issued'
    BY <1>4 DEF SessionInv, StoredOnce
  <2> QED BY <2>1, <2>2, <2>3, <2>4 DEF StoredOnce
<1> QED BY <1>2, <1>3, <1>6, <1>7

\* Other requests, and the part of the invariant that is about them.
LEMMA OtherJobs ==
    ASSUME SessionInv, NEW t \in Slot, NEW j, Narrowed(t, j)
    PROVE  job'[t] = j /\ \A u \in Slot : u # t => job'[u] = job[u]
BY DEF SessionInv, JobsTyped, Narrowed

\* Nobody stores a session again that a revocation had found.
LEMMA ReachedKeeps ==
    ASSUME SessionInv, NEW t \in Slot, NEW j, Narrowed(t, j), UNCHANGED removals,
           \A k \in Token : live(k)' => live(k) \/ (t \in Creating /\ k = job[t].token),
           j.op = "deleteAll" /\ removals = 1 =>
              \A k \in j.before : live(k)' => j.pc # "done" /\ \E e \in j.list : e.token = k
    PROVE  Reached'
<1>1. SUFFICES ASSUME removals = 1, NEW u \in Slot, job'[u].op = "deleteAll",
                      NEW k \in job'[u].before, live(k)'
               PROVE  job'[u].pc # "done" /\ \E e \in job'[u].list : e.token = k
  BY DEF Reached
<1>2. CASE u = t
  BY <1>1, <1>2, OtherJobs
<1>3. CASE u # t
  <2>1. job'[u] = job[u] /\ job[u] \in Job
    BY <1>3, OtherJobs DEF SessionInv, JobsTyped
  <2>2. k \in Token /\ k \in job[u].before
    BY <1>1, <2>1 DEF Job
  <2>3. live(k)
    BY <1>1, <2>2 DEF SessionInv, StoredOnce
  <2> QED BY <1>1, <2>1, <2>2, <2>3 DEF SessionInv, Reached
<1> QED BY <1>2, <1>3

LEMMA MergePreserves ==
    ASSUME SessionInv, NEW t \in Slot, mergeSessionIndex(index, job[t].list),
           job[t].pc = "index", job[t].op \in {"create", "delete"},
           NEW j, Narrowed(t, j), j.pc # "index", UNCHANGED <<issued, removals>>
    PROVE  SessionInv'
<1>1. /\ KvTyped' /\ Covered' /\ Others(index)
      /\ Indexed' \subseteq job[t].list \cup Indexed
      /\ \A c \in job[t].list \cup stored(index) :
            /\ c.expiresAt > now
            /\ \A d \in Claims : d.token = c.token => d.expiresAt = c.expiresAt
            => c \in stored(index)'
  BY MergeEffect
<1>2. \A k \in Token : entry'[k] = entry[k] /\ live(k)' = live(k)
  BY <1>1, Keys DEF Others
<1>3. Indexed' \subseteq Claims /\ now' = now
  BY <1>1, ClaimsNow DEF Others
<1>4. \A k \in Token : entry'[k] # Null =>
        Claim(k, entry'[k].expiresAt) \in Claims /\ k \in Written
  BY <1>2, ClaimsNow DEF Written
<1>5. /\ JobsTyped' /\ Agreed' /\ StoredOnce'
      /\ \A u \in Creating' : u \in Creating /\ job'[u].token = job[u].token
                              /\ job'[u].expiresAt = job[u].expiresAt
  BY <1>1, <1>3, <1>4, NarrowedKeeps
<1>6. Listed'
  <2>1. ASSUME NEW u \in Creating', job'[u].pc = "index"
        PROVE  Claim(job'[u].token, job'[u].expiresAt) \in job'[u].list
    <3>1. u # t /\ u \in Creating /\ u \in Slot
      BY <1>5, <2>1, OtherJobs DEF Creating
    <3> QED BY <2>1, <3>1, OtherJobs DEF SessionInv, Listed
  <2>2. ASSUME NEW c \in job[t].list \cup stored(index), c \in Claims, c.expiresAt > now
        PROVE  c \in stored(index)'
    BY <1>1, <2>2 DEF SessionInv, Agreed
  <2>3. ASSUME removals = 0, NEW u \in Creating', job'[u].pc # "index",
               job'[u].expiresAt > now
        PROVE  Claim(job'[u].token, job'[u].expiresAt) \in stored(index)'
    <3>1. u \in Creating /\ u \in Slot /\ job'[u].token = job[u].token
          /\ job'[u].expiresAt = job[u].expiresAt
      BY <1>5 DEF Creating
    <3> DEFINE c == Claim(job[u].token, job[u].expiresAt)
    <3>2. c \in Claims /\ c.expiresAt = job[u].expiresAt
      <4>1. c \in Claims
        BY <3>1, ClaimsNow
      <4> QED BY <4>1 DEF Claim
    <3>3. CASE u = t
      <4>1. c \in job[t].list
        BY <3>1, <3>3 DEF SessionInv, Listed
      <4> QED BY <2>2, <2>3, <3>1, <3>2, <4>1
    <3>4. CASE u # t
      <4>1. c \in stored(index)
        BY <2>3, <3>1, <3>4, OtherJobs DEF SessionInv, Listed
      <4> QED BY <2>2, <2>3, <3>1, <3>2, <4>1
    <3> QED BY <3>3, <3>4
  <2>4. ASSUME removals = 0, NEW k \in LiveTokens'
        PROVE  Claim(k, entry'[k].expiresAt) \in stored(index)'
    <3>1. k \in Token /\ live(k) /\ k \in LiveTokens /\ entry'[k] = entry[k]
      BY <1>2 DEF LiveTokens
    <3> DEFINE c == Claim(k, entry[k].expiresAt)
    <3>2. c \in stored(index) /\ c \in Claims
      BY <2>4, <3>1, ClaimsNow DEF SessionInv, Listed, Written, live
    <3>3. c.expiresAt > now
      BY <3>1, Keys, NullAssumption DEF Claim, live, SessionInv, KvTyped
    <3> QED BY <2>2, <3>1, <3>2, <3>3
  <2> QED BY <1>3, <2>1, <2>3, <2>4 DEF Listed
<1>7. Reached'
  <2>1. j.op # "deleteAll"
    BY DEF Narrowed
  <2> QED BY <1>2, <2>1, ReachedKeeps
<1> QED BY <1>1, <1>5, <1>6, <1>7 DEF SessionInv

\* A request ends without effect on the store.
LEMMA EndPreserves ==
    ASSUME SessionInv, NEW t \in Slot, End(t), UNCHANGED kvVars,
           UNCHANGED <<issued, removals>>
    PROVE  SessionInv'
<1>0. Narrowed(t, Idle) /\ Idle.op = "idle"
  BY Moves DEF Idle
<1>1. UNCHANGED <<entry, now>>
  BY DEF kvVars
<1>2. /\ KvTyped' /\ Covered' /\ Indexed' = Indexed /\ stored(index)' = stored(index)
      /\ \A k \in Token : live(k)' = live(k)
  BY <1>1 DEF SessionInv, KvTyped, Covered, Indexed, stored, live
<1>3. Indexed \subseteq Claims
  BY ClaimsNow
<1>4. \A k \in Token : entry'[k] # Null =>
        Claim(k, entry'[k].expiresAt) \in Claims /\ k \in Written
  BY <1>1, ClaimsNow DEF Written
<1>5. /\ JobsTyped' /\ Agreed' /\ StoredOnce'
      /\ \A u \in Creating' : u \in Creating /\ job'[u].token = job[u].token
                              /\ job'[u].expiresAt = job[u].expiresAt
  BY <1>0, <1>1, <1>2, <1>3, <1>4, NarrowedKeeps
<1>6. \A u \in Creating' : u \in Slot /\ job'[u] = job[u]
  BY <1>0, OtherJobs DEF Creating
<1>7. LiveTokens' = LiveTokens
  BY <1>2 DEF LiveTokens
<1>8. Listed'
  BY <1>1, <1>2, <1>5, <1>6, <1>7 DEF SessionInv, Listed
<1>9. Reached'
  BY <1>0, <1>2, ReachedKeeps
<1> QED BY <1>2, <1>5, <1>8, <1>9 DEF SessionInv

\* A session is stored, and was listed before.
LEMMA StorePreserves ==
    ASSUME SessionInv, NEW t \in Slot, At(t, "create", "session"), End(t),
           write(job[t].token, TRUE, job[t].expiresAt), UNCHANGED <<issued, removals>>
    PROVE  SessionInv'
<1>a. job[t].token \in Token /\ job[t].expiresAt \in Nat
  BY DEF At, SessionInv, JobsTyped, Job
<1>b. PICK k \in Token, x \in Nat : k = job[t].token /\ x = job[t].expiresAt
  BY <1>a
<1>0. /\ Narrowed(t, Idle) /\ Idle.op = "idle" /\ t \in Creating
      /\ k \in Key /\ k # index /\ k \notin OwnKey
      /\ k = job[t].token /\ x = job[t].expiresAt
  BY <1>b, Moves, Keys DEF Idle, At, Creating
<1>1. /\ KvTyped' /\ Others(k) /\ entry'[k] # Null /\ entry'[k].expiresAt = x
      /\ (live(k)' <=> x > now)
  <2> DEFINE v == TRUE
  <2>1. [value |-> v, expiresAt |-> x] \in Entry
    BY DEF Entry
  <2>2. KvTyped /\ write(k, v, x)
    BY <1>0 DEF SessionInv
  <2> HIDE DEF v
  <2> QED BY <1>0, <2>1, <2>2, WriteEffect
<1>2. /\ entry'[index] = entry[index] /\ live(index)' = live(index) /\ now' = now
      /\ Covered' /\ Indexed' = Indexed /\ stored(index)' = stored(index)
  BY <1>0, <1>1, Keys DEF Others, SessionInv, Covered, Indexed, stored
<1>3. Indexed \subseteq Claims /\ Claim(k, x) \in Claims
  BY <1>0, ClaimsNow
<1>4. \A i \in Token : entry'[i] # Null =>
        /\ Claim(i, entry'[i].expiresAt) \in Claims
        /\ i \in Written \/ i = k
  BY <1>0, <1>1, <1>3, ClaimsNow, Keys DEF Written, Others
<1>5. /\ JobsTyped' /\ Agreed' /\ StoredOnce'
      /\ \A u \in Creating' : u \in Creating /\ job'[u].token = job[u].token
                              /\ job'[u].expiresAt = job[u].expiresAt
  BY <1>0, <1>1, <1>2, <1>3, <1>4, NarrowedKeeps DEF At
<1>6. \A u \in Creating' : u \in Slot /\ job'[u] = job[u]
  BY <1>0, OtherJobs DEF Creating
<1>7. Listed'
  <2>1. ASSUME removals = 0, NEW i \in LiveTokens'
        PROVE  Claim(i, entry'[i].expiresAt) \in stored(index)
    <3>1. CASE i = k
      <4>1. x > now /\ job[t].pc # "index" /\ entry'[i].expiresAt = x
        BY <1>1, <2>1, <3>1 DEF LiveTokens, At
      <4> QED BY <1>0, <2>1, <3>1, <4>1 DEF SessionInv, Listed
    <3>2. CASE i # k
      <4>1. i \in LiveTokens /\ entry'[i] = entry[i]
        BY <1>1, <2>1, <3>2, Keys DEF LiveTokens, Others
      <4> QED BY <2>1, <4>1 DEF SessionInv, Listed
    <3> QED BY <3>1, <3>2
  <2> QED BY <1>2, <1>5, <1>6, <2>1 DEF SessionInv, Listed
<1>8. Reached'
  <2>1. \A i \in Token : live(i)' => live(i) \/ i = k
    BY <1>1, Keys DEF Others
  <2> QED BY <1>0, <2>1, ReachedKeeps
<1> QED BY <1>1, <1>2, <1>5, <1>7, <1>8 DEF SessionInv

\* A session, or the index, is deleted.
LEMMA DeletePreserves ==
    ASSUME SessionInv, NEW t \in Slot, job[t].op \in {"delete", "deleteAll"},
           NEW k \in Token \cup {index}, delete(k),
           NEW j, Narrowed(t, j), UNCHANGED <<issued, removals>>,
           j.op = "deleteAll" /\ removals = 1 =>
              \A i \in j.before : live(i)' => j.pc # "done" /\ \E e \in j.list : e.token = i
    PROVE  SessionInv'
<1>0. k \in Key /\ removals # 0 /\ t \notin Creating /\ j.op # "create" /\ KvTyped
  BY Keys DEF SessionInv, JobsTyped, Creating, Narrowed
<1>1. KvTyped' /\ Others(k) /\ entry'[k] = Null /\ ~live(k)' /\ now' = now
  BY <1>0, ClearedEffect DEF delete, Cleared
<1>2. \A i \in Key : entry'[i] = Null \/ entry'[i] = entry[i]
  BY <1>1 DEF Others
<1>3. \A i \in Key : live(i)' => live(i)
  BY <1>1 DEF Others
<1>4. Covered' /\ Indexed' \subseteq Claims
  <2>1. Indexed' \subseteq Indexed
    BY <1>2, Keys DEF Indexed
  <2>2. Covered'
    BY <1>2, Keys DEF SessionInv, Covered
  <2> QED BY <2>1, <2>2, ClaimsNow
<1>5. \A i \in Token : entry'[i] # Null =>
        Claim(i, entry'[i].expiresAt) \in Claims /\ i \in Written
  BY <1>2, ClaimsNow, Keys DEF Written
<1>6. /\ JobsTyped' /\ Agreed' /\ StoredOnce'
      /\ \A u \in Creating' : u \in Creating /\ job'[u].token = job[u].token
                              /\ job'[u].expiresAt = job[u].expiresAt
  BY <1>1, <1>4, <1>5, NarrowedKeeps
<1>7. \A u \in Creating' : u \in Creating /\ u \in Slot /\ job'[u] = job[u]
  BY <1>0, <1>6, OtherJobs DEF Creating
<1>8. Listed'
  BY <1>0, <1>7 DEF SessionInv, Listed
<1>9. Reached'
  BY <1>3, Keys, ReachedKeeps
<1> QED BY <1>1, <1>4, <1>6, <1>8, <1>9 DEF SessionInv

-----------------------------------------------------------------------------
(* The requests begin.                                                     *)

\* A request that begins takes a slot that is idle.
Begun(t, j) == job[t] = Idle /\ job' = [job EXCEPT ![t] = j]

LEMMA BegunJobs ==
    ASSUME SessionInv, NEW t \in Slot, NEW j \in Job, Begun(t, j)
    PROVE  /\ job' \in [Slot -> Job] /\ job'[t] = j
           /\ \A u \in Slot : u # t => job'[u] = job[u]
           /\ t \notin Creating
BY DEF SessionInv, JobsTyped, Begun, Creating, Idle

\* A step that only begins a request leaves the store as it is.
LEMMA StoreKept ==
    ASSUME SessionInv, UNCHANGED kvVars
    PROVE  /\ KvTyped' /\ Covered' /\ UNCHANGED <<entry, now>>
           /\ Indexed' = Indexed /\ Written' = Written /\ LiveTokens' = LiveTokens
           /\ stored(index)' = stored(index) /\ \A k \in Token : live(k)' = live(k)
           /\ stored(index) \subseteq Indexed /\ Indexed \subseteq Listing
           /\ Indexed \subseteq Claims
<1>1. UNCHANGED <<entry, now>>
  BY DEF kvVars
<1>2. Indexed \subseteq Claims
  BY ClaimsNow
<1>3. \A k \in Token : live(k)' = live(k)
  BY <1>1 DEF live
<1>4. KvTyped' /\ Covered' /\ Indexed' = Indexed /\ Written' = Written
  BY <1>1 DEF SessionInv, KvTyped, Covered, Indexed, Written
<1>5. stored(index)' = stored(index)
  BY <1>1 DEF stored, live
<1>6. stored(index) \subseteq Indexed /\ Indexed \subseteq Listing
  BY Keys DEF SessionInv, KvTyped, stored, live, Indexed
<1>7. LiveTokens' = LiveTokens
  BY <1>3 DEF LiveTokens
<1> QED BY <1>1, <1>2, <1>3, <1>4, <1>5, <1>6, <1>7

\* The token is new, so nobody knows of it.
LEMMA CreateSessionPreserves ==
    ASSUME SessionInv, NEW t \in Slot, CreateSession(t)
    PROVE  SessionInv'
<1>1. PICK tok \in Token \ issued :
        /\ job[t] = Idle
        /\ job' = [job EXCEPT ![t] = [Idle EXCEPT
                     !.op = "create", !.pc = "index", !.token = tok,
                     !.list = {e \in stored(index) : e.expiresAt > now}
                              \cup {[token |-> tok, expiresAt |-> now + Lifetime]},
                     !.expiresAt = now + Lifetime]]
        /\ issued' = issued \cup {tok} /\ UNCHANGED <<kvVars, removals>>
  BY DEF CreateSession
<1>2. /\ KvTyped' /\ Covered' /\ UNCHANGED <<entry, now>>
      /\ Indexed' = Indexed /\ Written' = Written /\ LiveTokens' = LiveTokens
      /\ stored(index)' = stored(index) /\ (\A k \in Token : live(k)' = live(k))
      /\ stored(index) \subseteq Indexed /\ Indexed \subseteq Listing
      /\ Indexed \subseteq Claims
  BY <1>1, StoreKept
<1> DEFINE x == now + Lifetime
           new == Claim(tok, x)
           list == {e \in stored(index) : e.expiresAt > now} \cup {new}
           j == [Idle EXCEPT !.op = "create", !.pc = "index", !.token = tok,
                             !.list = list, !.expiresAt = x]
<1>3. /\ x \in Nat /\ now \in Nat /\ new \in Listing
      /\ new.token = tok /\ new.expiresAt = x
      /\ list \subseteq Listing /\ list \subseteq Claims \cup {new} /\ new \in list
  BY <1>2, LifetimeAssumption DEF SessionInv, KvTyped, Listing, Claim
<1>4. PICK jj : jj = j
  OBVIOUS
<1>5. job' = [job EXCEPT ![t] = jj]
  BY <1>1, <1>4 DEF Claim
<1>6. /\ jj \in Job /\ jj.op = "create" /\ jj.pc = "index" /\ jj.token = tok
      /\ jj.list = list /\ jj.expiresAt = x /\ jj.before = {}
  <2> HIDE DEF list, x
  <2> QED BY <1>1, <1>3, <1>4 DEF Job, Idle
<1>7. /\ job' \in [Slot -> Job] /\ job'[t] = jj
      /\ \A u \in Slot : u # t => job'[u] = job[u]
      /\ t \notin Creating
  BY <1>1, <1>5, <1>6, BegunJobs DEF Begun
<1> HIDE DEF list, x, new, j
<1>8. Creating' = Creating \cup {t} /\ \A u \in Creating : u \in Slot /\ job'[u] = job[u]
  BY <1>6, <1>7 DEF Creating
<1>9. JobsTyped'
  <2>1. ASSUME NEW u \in Slot
        PROVE  /\ job'[u].op = "create" => job'[u].token \in issued'
               /\ job'[u].op = "delete" => job'[u].token \in Token
               /\ job'[u].op \in {"delete", "deleteAll"} => removals > 0
    <3>0. tok \in issued'
      BY <1>1
    <3>1. CASE u = t
      BY <1>6, <1>7, <3>0, <3>1
    <3>2. CASE u # t
      BY <1>1, <1>7, <3>2 DEF SessionInv, JobsTyped
    <3> QED BY <3>1, <3>2
  <2> QED BY <1>1, <1>7, <2>1 DEF SessionInv, JobsTyped
<1>10. Agreed'
  <2>1. Claims' \subseteq Claims \cup {new}
    <3> SUFFICES ASSUME NEW c \in Claims' PROVE c \in Claims \cup {new}
      OBVIOUS
    <3>1. CASE c \in Indexed'
      BY <1>2, <3>1
    <3>2. ASSUME NEW u \in Slot, c \in job'[u].list PROVE c \in Claims \cup {new}
      BY <1>3, <1>6, <1>7, <3>2, ClaimsNow
    <3>3. ASSUME NEW u \in Creating', c = Claim(job'[u].token, job'[u].expiresAt)
          PROVE  c \in Claims \cup {new}
      <4>1. CASE u = t
        BY <1>6, <1>7, <3>3, <4>1 DEF new
      <4>2. CASE u # t
        BY <1>7, <1>8, <3>3, <4>2, ClaimsNow
      <4> QED BY <4>1, <4>2
    <3>4. ASSUME NEW k \in Written', c = Claim(k, entry'[k].expiresAt)
          PROVE  c \in Claims
      BY <1>2, <3>4, ClaimsNow
    <3> QED BY <3>1, <3>2, <3>3, <3>4, ClaimsNext
  <2>2. \A c \in Claims : c.token # tok
    BY <1>1 DEF SessionInv, Agreed
  <2>3. \A c \in Claims' : c.token \in issued' /\ c.expiresAt <= now + Lifetime
    BY <1>1, <1>3, <2>1, LifetimeAssumption DEF SessionInv, Agreed, x
  <2>4. \A c, d \in Claims' : c.token = d.token => c.expiresAt = d.expiresAt
    BY <1>3, <2>1, <2>2 DEF SessionInv, Agreed
  <2> QED BY <1>2, <2>3, <2>4 DEF Agreed
<1>11. StoredOnce'
  <2>1. tok \notin Written
    <3>1. ASSUME tok \in Written PROVE FALSE
      <4>1. Claim(tok, entry[tok].expiresAt) \in Claims
        BY <3>1, ClaimsNow
      <4> QED BY <1>1, <4>1 DEF SessionInv, Agreed, Claim
    <3> QED BY <3>1
  <2>2. \A u \in Slot : job'[u].before \subseteq issued /\ tok \notin job'[u].before
                        /\ (job'[u].before = job[u].before \/ job'[u].before = {})
    BY <1>1, <1>6, <1>7 DEF SessionInv, StoredOnce
  <2>3. \A u \in Creating : job[u].token \in issued /\ job[u].token # tok
    BY <1>1, <1>8 DEF SessionInv, JobsTyped, Creating
  <2>4. \A u, v \in Creating' : job'[u].token = job'[v].token => u = v
    BY <1>6, <1>7, <1>8, <2>3 DEF SessionInv, StoredOnce
  <2>5. \A u \in Creating' : /\ job'[u].token \notin Written'
                             /\ \A v \in Slot : job'[u].token \notin job'[v].before
    BY <1>2, <1>6, <1>7, <1>8, <2>1, <2>2 DEF SessionInv, StoredOnce
  <2> QED BY <1>1, <2>2, <2>4, <2>5 DEF StoredOnce
<1>12. Listed'
  <2>1. ASSUME NEW u \in Creating', job'[u].pc = "index"
        PROVE  Claim(job'[u].token, job'[u].expiresAt) \in job'[u].list
    <3>1. CASE u = t
      BY <1>3, <1>6, <1>7, <3>1 DEF new
    <3>2. CASE u # t
      BY <1>8, <2>1, <3>2 DEF SessionInv, Listed
    <3> QED BY <3>1, <3>2
  <2>2. ASSUME removals = 0, NEW u \in Creating', job'[u].pc # "index",
               job'[u].expiresAt > now
        PROVE  Claim(job'[u].token, job'[u].expiresAt) \in stored(index)
    BY <1>6, <1>7, <1>8, <2>2 DEF SessionInv, Listed
  <2> QED BY <1>1, <1>2, <2>1, <2>2 DEF SessionInv, Listed
<1>13. Reached'
  <2> SUFFICES ASSUME removals = 1, NEW u \in Slot, job'[u].op = "deleteAll",
                      NEW k \in job'[u].before, live(k)'
               PROVE  job'[u].pc # "done" /\ \E e \in job'[u].list : e.token = k
    BY <1>1 DEF Reached
  <2>1. job'[u] = job[u] /\ job[u] \in Job
    BY <1>6, <1>7 DEF SessionInv, JobsTyped
  <2>2. live(k)
    BY <1>2, <2>1 DEF Job
  <2> QED BY <2>1, <2>2 DEF SessionInv, Reached
<1> QED BY <1>2, <1>9, <1>10, <1>11, <1>12, <1>13 DEF SessionInv

\* A deletion begins, with the listed sessions it has read.
LEMMA BeginPreserves ==
    ASSUME SessionInv, NEW t \in Slot, NEW j \in Job, Begun(t, j),
           j.op \in {"delete", "deleteAll"}, j.op = "delete" => j.token \in Token,
           j.list \subseteq stored(index), j.before \subseteq LiveTokens,
           j.op = "deleteAll" => j.list = stored(index) /\ j.pc # "done",
           removals' = removals + 1, UNCHANGED <<kvVars, issued>>
    PROVE  SessionInv'
<1>1. /\ KvTyped' /\ Covered' /\ UNCHANGED <<entry, now>>
      /\ Indexed' = Indexed /\ Written' = Written /\ LiveTokens' = LiveTokens
      /\ stored(index)' = stored(index) /\ (\A k \in Token : live(k)' = live(k))
      /\ stored(index) \subseteq Indexed /\ Indexed \subseteq Listing
      /\ Indexed \subseteq Claims
  BY StoreKept
<1>2. /\ job' \in [Slot -> Job] /\ job'[t] = j
      /\ \A u \in Slot : u # t => job'[u] = job[u]
      /\ t \notin Creating
  BY BegunJobs
<1>3. Creating' = Creating /\ \A u \in Creating : u \in Slot /\ job'[u] = job[u]
  BY <1>2 DEF Creating
<1>4. removals \in Nat /\ removals' \in Nat /\ removals' > 0
  BY DEF SessionInv, JobsTyped
<1>5. JobsTyped'
  <2>1. ASSUME NEW u \in Slot
        PROVE  /\ job'[u].op = "create" => job'[u].token \in issued
               /\ job'[u].op = "delete" => job'[u].token \in Token
    BY <1>2 DEF SessionInv, JobsTyped
  <2> QED BY <1>2, <1>4, <2>1 DEF SessionInv, JobsTyped
<1>6. Claims' \subseteq Claims
  <2> SUFFICES ASSUME NEW c \in Claims' PROVE c \in Claims
    OBVIOUS
  <2>1. ASSUME NEW u \in Slot, c \in job'[u].list PROVE c \in Claims
    BY <1>1, <1>2, <2>1, ClaimsNow
  <2>2. ASSUME NEW u \in Creating', c = Claim(job'[u].token, job'[u].expiresAt)
        PROVE  c \in Claims
    BY <1>3, <2>2, ClaimsNow
  <2>3. ASSUME NEW k \in Written', c = Claim(k, entry'[k].expiresAt)
        PROVE  c \in Claims
    BY <1>1, <2>3, ClaimsNow
  <2> QED BY <1>1, <2>1, <2>2, <2>3, ClaimsNext
<1>7. Agreed'
  BY <1>1, <1>6 DEF SessionInv, Agreed
<1>8. StoredOnce'
  <2>1. LiveTokens \subseteq Written
    BY DEF LiveTokens, Written, live
  <2>2. Written \subseteq issued
    <3> SUFFICES ASSUME NEW k \in Written PROVE k \in issued
      OBVIOUS
    <3>1. Claim(k, entry[k].expiresAt) \in Claims
      BY ClaimsNow
    <3> QED BY <3>1 DEF SessionInv, Agreed, Claim
  <2>3. \A u \in Creating', v \in Slot : job'[u].token \notin job'[v].before
    BY <1>2, <1>3, <2>1 DEF SessionInv, StoredOnce
  <2>4. \A u \in Slot : job'[u].before \subseteq issued
    BY <1>2, <2>1, <2>2 DEF SessionInv, StoredOnce
  <2> QED BY <1>1, <1>3, <2>3, <2>4 DEF SessionInv, StoredOnce
<1>9. Listed'
  BY <1>3, <1>4 DEF SessionInv, Listed
<1>10. Reached'
  <2> SUFFICES ASSUME removals' = 1, NEW u \in Slot, job'[u].op = "deleteAll",
                      NEW k \in job'[u].before, live(k)'
               PROVE  job'[u].pc # "done" /\ \E e \in job'[u].list : e.token = k
    BY DEF Reached
  <2>1. removals = 0
    BY <1>4
  <2>2. u = t
    BY <1>2, <2>1 DEF SessionInv, JobsTyped
  <2>3. k \in LiveTokens
    BY <1>2, <2>2
  <2>4. Claim(k, entry[k].expiresAt) \in stored(index)
    BY <2>1, <2>3 DEF SessionInv, Listed
  <2> QED BY <1>2, <2>2, <2>4 DEF Claim
<1> QED BY <1>1, <1>5, <1>7, <1>8, <1>9, <1>10 DEF SessionInv

LEMMA DeletionBegins ==
    ASSUME SessionInv, NEW t \in Slot, DeleteSession(t) \/ DeleteUserSessions(t)
    PROVE  SessionInv'
<1>1. stored(index) \subseteq Listing
  BY Keys DEF SessionInv, KvTyped, stored, live
<1>2. CASE DeleteSession(t)
  <2>1. PICK tok \in LiveTokens :
          /\ job[t] = Idle
          /\ job' = [job EXCEPT ![t] = [Idle EXCEPT
                       !.op = "delete", !.pc = "index", !.token = tok,
                       !.list = {e \in stored(index) : e.token # tok /\ e.expiresAt > now}]]
          /\ removals' = removals + 1 /\ UNCHANGED <<kvVars, issued>>
    BY <1>2 DEF DeleteSession
  <2> DEFINE list == {e \in stored(index) : e.token # tok /\ e.expiresAt > now}
  <2>2. PICK j : j = [Idle EXCEPT !.op = "delete", !.pc = "index", !.token = tok,
                                  !.list = list]
    OBVIOUS
  <2>3. list \subseteq stored(index) /\ tok \in Token
    BY DEF LiveTokens
  <2>4. Begun(t, j) /\ removals' = removals + 1 /\ UNCHANGED <<kvVars, issued>>
    BY <2>1, <2>2 DEF Begun
  <2> HIDE DEF list
  <2>5. /\ j \in Job /\ j.op = "delete" /\ j.token = tok /\ j.list = list /\ j.before = {}
    BY <1>1, <2>2, <2>3 DEF Job, Idle
  <2> QED BY <2>3, <2>4, <2>5, BeginPreserves
<1>3. CASE DeleteUserSessions(t)
  <2>1. PICK j : j = [Idle EXCEPT !.op = "deleteAll", !.pc = "sessions",
                                  !.list = stored(index), !.before = LiveTokens]
    OBVIOUS
  <2>2. Begun(t, j) /\ removals' = removals + 1 /\ UNCHANGED <<kvVars, issued>>
    BY <1>3, <2>1 DEF Begun, DeleteUserSessions
  <2>3. LiveTokens \subseteq Token
    BY DEF LiveTokens
  <2>4. /\ j \in Job /\ j.op = "deleteAll" /\ j.pc = "sessions" /\ j.list = stored(index)
        /\ j.before = LiveTokens
    BY <1>1, <2>1, <2>3 DEF Job, Idle
  <2> QED BY <2>2, <2>4, BeginPreserves
<1> QED BY <1>2, <1>3

\* A request goes on: with a call that takes effect or not, and an answer that
\* tells it or not.
LEMMA SessionCallPreserves ==
    ASSUME SessionInv, NEW t \in Slot, SessionCall(t)
    PROVE  SessionInv'
<1>0. /\ End(t) => Narrowed(t, Idle)
      /\ Idle.pc = "idle" /\ Idle.op = "idle" /\ job[t] \in Job
  BY Moves DEF Idle
<1>1. ASSUME NEW p \in {"session", "done"}, Goto(t, p)
      PROVE  \E j : /\ Narrowed(t, j) /\ j.pc = p /\ j.op = job[t].op
                    /\ j.list = job[t].list /\ j.before = job[t].before
  <2> DEFINE j == [job[t] EXCEPT !.pc = p]
  <2>1. Narrowed(t, j)
    BY <1>1, Moves
  <2>2. /\ j.pc = p /\ j.op = job[t].op /\ j.list = job[t].list
        /\ j.before = job[t].before
    BY <1>0 DEF Job
  <2> HIDE DEF j
  <2> QED BY <2>1, <2>2
<1>2. CASE CreateSession(t)
  BY <1>2, CreateSessionPreserves
<1>3. CASE ListSession(t)
  BY <1>0, <1>1, <1>3, EndPreserves, MergePreserves DEF ListSession, At, Fails
<1>4. CASE StoreSession(t)
  BY <1>4, EndPreserves, StorePreserves DEF StoreSession, Fails
<1>5. CASE DeleteSession(t) \/ DeleteUserSessions(t)
  BY <1>5, DeletionBegins
<1>6. CASE UnlistSession(t)
  <2>1. /\ job[t].op = "delete" /\ job[t].pc = "index" /\ UNCHANGED <<issued, removals>>
        /\ index \in Token \cup {index}
    BY <1>6 DEF UnlistSession, At
  <2>2. CASE End(t) /\ UNCHANGED kvVars
    BY <2>1, <2>2, EndPreserves
  <2>3. CASE ~(End(t) /\ UNCHANGED kvVars)
    <3>1. PICK j : Narrowed(t, j) /\ j.pc # "index" /\ j.op # "deleteAll"
      BY <1>0, <1>1, <1>6, <2>1 DEF UnlistSession, Fails
    <3>2. delete(index) \/ mergeSessionIndex(index, job[t].list)
      BY <1>6, <2>3 DEF UnlistSession, Fails
    <3> QED BY <2>1, <3>1, <3>2, DeletePreserves, MergePreserves
  <2> QED BY <2>2, <2>3
<1>7. CASE RemoveSession(t)
  <2>1. job[t].op = "delete" /\ UNCHANGED <<issued, removals>>
    BY <1>7 DEF RemoveSession, At
  <2>2. PICK k \in Token : k = job[t].token
    BY <2>1 DEF SessionInv, JobsTyped
  <2>3. CASE End(t) /\ UNCHANGED kvVars
    BY <2>1, <2>3, EndPreserves
  <2>4. CASE End(t) /\ delete(k)
    BY <1>0, <2>1, <2>4, DeletePreserves
  <2> QED BY <1>7, <2>2, <2>3, <2>4 DEF RemoveSession, Fails
<1>8. CASE RemoveListed(t)
  <2>1. /\ job[t].op = "deleteAll" /\ job[t].pc = "sessions" /\ UNCHANGED <<issued, removals>>
    BY <1>8 DEF RemoveListed, At
  <2>2. PICK e \in job[t].list :
          LET call == delete(e.token)
          IN  (call /\ job' = [job EXCEPT ![t].list = @ \ {e}]) \/ Fails(t, call)
    BY <1>8 DEF RemoveListed
  <2>3. PICK k \in Token : k = e.token
    BY <1>0 DEF Job, Listing
  <2>4. CASE End(t) /\ UNCHANGED kvVars
    BY <2>1, <2>4, EndPreserves
  <2>5. CASE End(t) /\ delete(k)
    BY <1>0, <2>1, <2>5, DeletePreserves
  <2>6. CASE delete(k) /\ job' = [job EXCEPT ![t].list = @ \ {e}]
    <3>1. PICK j : j = [job[t] EXCEPT !.list = @ \ {e}]
      OBVIOUS
    <3>2. /\ j \in Job /\ j.list = job[t].list \ {e} /\ j.before = job[t].before
          /\ j.op = "deleteAll" /\ j.pc = "sessions"
          /\ j.token = job[t].token /\ j.expiresAt = job[t].expiresAt
      BY <1>0, <2>1, <3>1 DEF Job
    <3>3. Narrowed(t, j)
      BY <2>1, <2>6, <3>1, <3>2 DEF Narrowed
    <3>4. ~live(k)' /\ \A i \in Token : live(i)' => live(i)
      BY <2>6, Keys, ClearedEffect DEF delete, Cleared, Others, SessionInv
    <3>5. ASSUME removals = 1, NEW i \in j.before, live(i)'
          PROVE  \E f \in j.list : f.token = i
      <4>1. i \in Token /\ live(i) /\ i # k
        BY <3>2, <3>4, <3>5 DEF Job
      <4>2. PICK f \in job[t].list : f.token = i
        BY <2>1, <3>2, <3>5, <4>1 DEF SessionInv, Reached
      <4> QED BY <2>3, <3>2, <4>1, <4>2
    <3> QED BY <2>1, <2>6, <3>2, <3>3, <3>5, DeletePreserves
  <2> QED BY <2>2, <2>3, <2>4, <2>5, <2>6 DEF Fails
<1>9. CASE RemoveIndex(t)
  <2>1. /\ job[t].op = "deleteAll" /\ UNCHANGED <<issued, removals>> /\ job[t].list = {}
        /\ index \in Token \cup {index}
    BY <1>9 DEF RemoveIndex, At
  <2>2. CASE End(t) /\ UNCHANGED kvVars
    BY <2>1, <2>2, EndPreserves
  <2>3. CASE End(t) /\ delete(index)
    BY <1>0, <2>1, <2>3, DeletePreserves
  <2>4. CASE delete(index) /\ Goto(t, "done")
    <3>1. PICK j : /\ Narrowed(t, j) /\ j.pc = "done" /\ j.op = job[t].op
                   /\ j.list = job[t].list /\ j.before = job[t].before
      BY <1>1, <2>4
    <3>2. \A i \in Token : live(i)' => live(i)
      BY <2>4, Keys, ClearedEffect DEF delete, Cleared, Others, SessionInv
    <3>3. ASSUME removals = 1, NEW i \in j.before, live(i)' PROVE FALSE
      BY <1>0, <2>1, <3>1, <3>2, <3>3 DEF SessionInv, Reached, Job
    <3> QED BY <2>1, <2>4, <3>1, <3>3, DeletePreserves
  <2> QED BY <1>9, <2>2, <2>3, <2>4 DEF RemoveIndex, Fails
<1>10. CASE Answer(t)
  BY <1>10, EndPreserves DEF Answer
<1> QED BY <1>2, <1>3, <1>4, <1>5, <1>6, <1>7, <1>8, <1>9, <1>10 DEF SessionCall

-----------------------------------------------------------------------------
(* The worker's own keys, the alarms and the clock.                        *)

\* What the sessions are about is as it was.
LEMMA SessionsUntouched ==
    ASSUME SessionInv, KvTyped', UNCHANGED <<issued, removals, job>>, now' = now,
           \A k \in Token \cup {index} :
              /\ live(k)' = live(k)
              /\ entry'[k] = entry[k] \/ (entry'[k] = Null /\ ~live(k))
    PROVE  SessionInv'
<1>1. stored(index)' = stored(index) /\ LiveTokens' = LiveTokens
  <2>1. live(index) => entry'[index] = entry[index]
    OBVIOUS
  <2> QED BY <2>1 DEF stored, LiveTokens
<1>2. /\ Indexed' \subseteq Indexed /\ Written' \subseteq Written /\ Creating' = Creating
      /\ \A k \in Written' : entry'[k] = entry[k]
  BY DEF Indexed, Written, Creating
<1>3. Claims' \subseteq Claims
  <2> SUFFICES ASSUME NEW c \in Claims' PROVE c \in Claims
    OBVIOUS
  <2> QED BY <1>2, ClaimsNow, ClaimsNext
<1>4. Agreed' /\ JobsTyped'
  BY <1>3 DEF SessionInv, Agreed, JobsTyped
<1>5. Covered'
  BY DEF SessionInv, Covered
<1>6. StoredOnce'
  BY <1>2 DEF SessionInv, StoredOnce
<1>7. Listed'
  <2>1. \A k \in LiveTokens : entry'[k] = entry[k]
    BY DEF LiveTokens
  <2> QED BY <1>1, <1>2, <2>1 DEF SessionInv, Listed
<1>8. Reached'
  <2>1. \A t \in Slot : job[t].before \subseteq Token
    BY DEF SessionInv, JobsTyped, Job
  <2>2. \A t \in Slot : \A k \in job[t].before : live(k)' = live(k)
    BY <2>1
  <2> QED BY <2>2 DEF SessionInv, Reached
<1> QED BY <1>4, <1>5, <1>6, <1>7, <1>8 DEF SessionInv

LEMMA OwnCallEffect ==
    ASSUME SessionInv, OwnCall
    PROVE  KvTyped' /\ \E k \in OwnKey : Others(k)
<1>1. PICK k \in OwnKey :
        \/ \E ttl \in {Null, 1, 2} : set(k, 1, ttl)
        \/ incrementWindow(k, 2)
        \/ delete(k)
  BY DEF OwnCall, getAndDelete
<1>2. /\ KvTyped /\ k \in Key /\ k \notin Token /\ k # index /\ now \in Nat
      /\ entry[k] # Null => entry[k].value \in Nat
  BY Keys DEF SessionInv, KvTyped
<1>3. CASE delete(k)
  BY <1>2, <1>3, ClearedEffect DEF delete, Cleared
<1>4. ASSUME NEW v \in Nat, NEW x \in Nat \cup {Null}, write(k, v, x)
      PROVE  KvTyped' /\ Others(k)
  <2>1. [value |-> v, expiresAt |-> x] \in Entry
    BY DEF Entry
  <2> QED BY <1>2, <1>4, <2>1, WriteEffect
<1>5. CASE \E ttl \in {Null, 1, 2} : set(k, 1, ttl)
  <2>1. PICK ttl \in {Null, 1, 2} : set(k, 1, ttl)
    BY <1>5
  <2>2. PICK x \in Nat \cup {Null} : x = IF ttl = Null THEN Null ELSE now + ttl
    <3>1. CASE ttl = Null
      BY <3>1
    <3>2. CASE ttl # Null
      <4>1. ttl = 1 \/ ttl = 2
        BY <3>2
      <4>2. now + ttl \in Nat
        BY <1>2, <4>1
      <4> QED BY <3>2, <4>2
    <3> QED BY <3>1, <3>2
  <2> QED BY <1>4, <2>1, <2>2 DEF set
<1>6. CASE incrementWindow(k, 2)
  <2>1. PICK v \in Nat : v = IF live(k) THEN entry[k].value + 1 ELSE 1
    BY <1>2 DEF live
  <2>2. PICK x \in Nat : x = now + 2
    BY <1>2
  <2> QED BY <1>4, <1>6, <2>1, <2>2 DEF incrementWindow
<1> QED BY <1>1, <1>3, <1>5, <1>6

LEMMA OwnCallPreserves ==
    ASSUME SessionInv, OwnCall
    PROVE  SessionInv'
<1>1. KvTyped' /\ \E k \in OwnKey : Others(k)
  BY OwnCallEffect
<1>2. UNCHANGED <<issued, removals, job>>
  BY DEF OwnCall
<1> QED BY <1>1, <1>2, Keys, SessionsUntouched DEF Others

LEMMA AlarmPreserves ==
    ASSUME SessionInv, NEW k \in Key, ring(k) \/ alarm(k), UNCHANGED <<issued, removals, job>>
    PROVE  SessionInv'
<1>1. KvTyped /\ now' = now /\ (entry' = entry \/ (~live(k) /\ entry' = [entry EXCEPT ![k] = Null]))
  BY DEF ring, alarm, Cleared, SessionInv
<1>2. CASE entry' = entry
  <2>1. KvTyped' /\ \A i \in Key : live(i)' = live(i)
    BY <1>1, <1>2 DEF KvTyped, live
  <2> QED BY <1>1, <1>2, <2>1, Keys, SessionsUntouched
<1>3. CASE ~live(k) /\ entry' = [entry EXCEPT ![k] = Null]
  <2>1. KvTyped' /\ Others(k) /\ entry'[k] = Null /\ ~live(k)'
    BY <1>1, <1>3, ClearedEffect
  <2>2. \A i \in Token \cup {index} :
          /\ live(i)' = live(i)
          /\ entry'[i] = entry[i] \/ (entry'[i] = Null /\ ~live(i))
    <3> SUFFICES ASSUME NEW i \in Token \cup {index}
                 PROVE  /\ live(i)' = live(i)
                        /\ entry'[i] = entry[i] \/ (entry'[i] = Null /\ ~live(i))
      OBVIOUS
    <3>1. CASE i = k
      <4>1. live(i)' = FALSE /\ live(i) = FALSE
        BY <1>3, <2>1, <3>1 DEF live
      <4> QED BY <2>1, <3>1, <4>1
    <3>2. CASE i # k
      BY <2>1, <3>2, Keys DEF Others
    <3> QED BY <3>1, <3>2
  <2> QED BY <1>1, <2>1, <2>2, SessionsUntouched
<1> QED BY <1>1, <1>2, <1>3

\* The index does not expire before a session that is listed in it.
LEMMA ClockPreserves ==
    ASSUME SessionInv, Clock
    PROVE  SessionInv'
<1>1. /\ now' = now + 1 /\ now \in Nat \ {0} /\ now' \in Nat \ {0} /\ now' <= MaxNow
      /\ entry' = entry /\ UNCHANGED <<issued, removals, job>>
  BY KeyAssumption DEF Clock, Tick, SessionInv, KvTyped
<1>2. KvTyped' /\ JobsTyped' /\ Covered'
  BY <1>1 DEF SessionInv, KvTyped, JobsTyped, Covered
<1>3. Indexed' = Indexed /\ Written' = Written /\ Creating' = Creating
  BY <1>1 DEF Indexed, Written, Creating
<1>4. Claims' \subseteq Claims
  <2> SUFFICES ASSUME NEW c \in Claims' PROVE c \in Claims
    OBVIOUS
  <2> QED BY <1>1, <1>3, ClaimsNow, ClaimsNext
<1>5. Claims \subseteq Listing
  <2> SUFFICES ASSUME NEW c \in Claims PROVE c \in Listing
    OBVIOUS
  <2>1. CASE c \in Indexed
    BY <2>1, Keys DEF Indexed, SessionInv, KvTyped
  <2>2. ASSUME NEW t \in Slot, c \in job[t].list PROVE c \in Listing
    BY <2>2 DEF SessionInv, JobsTyped, Job
  <2>3. ASSUME NEW t \in Creating, c = Claim(job[t].token, job[t].expiresAt)
        PROVE  c \in Listing
    BY <2>3 DEF Creating, SessionInv, JobsTyped, Job, Claim, Listing
  <2>4. ASSUME NEW k \in Written, c = Claim(k, entry[k].expiresAt)
        PROVE  c \in Listing
    BY <2>4, Keys DEF Written, SessionInv, KvTyped, Claim, Listing
  <2> QED BY <2>1, <2>2, <2>3, <2>4, ClaimsNow
<1>6. Agreed'
  <2>1. \A c \in Claims' : c.token \in issued /\ c.expiresAt <= now' + Lifetime
    <3> SUFFICES ASSUME NEW c \in Claims' PROVE c.token \in issued /\ c.expiresAt <= now' + Lifetime
      OBVIOUS
    <3>1. c \in Claims /\ c.expiresAt \in Nat
      BY <1>4, <1>5 DEF Listing
    <3> QED BY <1>1, <3>1, LifetimeAssumption DEF SessionInv, Agreed
  <2> QED BY <1>1, <1>4, <2>1 DEF SessionInv, Agreed
<1>7. StoredOnce'
  BY <1>1, <1>3 DEF SessionInv, StoredOnce
<1>8. \A k \in Key : live(k)' => live(k)
  <2> SUFFICES ASSUME NEW k \in Key, live(k)' PROVE live(k)
    OBVIOUS
  <2>1. entry[k] # Null /\ entry[k].expiresAt \in Nat \cup {Null}
    BY <1>1 DEF live, SessionInv, KvTyped, Entry
  <2> QED BY <1>1, <2>1 DEF live
<1>9. ASSUME NEW c \in stored(index), c.expiresAt > now' PROVE c \in stored(index)'
  <2>1. live(index) /\ c \in entry[index].value
    BY DEF stored
  <2>2. entry[index].expiresAt \in Nat /\ c.expiresAt \in Nat
    BY <2>1, Keys DEF SessionInv, KvTyped, live, Listing
  <2>3. c.expiresAt <= entry[index].expiresAt
    BY <2>1 DEF SessionInv, Covered, live
  <2>4. live(index)'
    BY <1>1, <1>9, <2>1, <2>2, <2>3 DEF live
  <2> QED BY <1>1, <2>1, <2>4 DEF stored
<1>10. Listed'
  <2>1. ASSUME removals = 0, NEW t \in Creating, job[t].pc # "index",
               job[t].expiresAt > now'
        PROVE  Claim(job[t].token, job[t].expiresAt) \in stored(index)'
    <3>1. job[t].expiresAt \in Nat
      BY DEF Creating, SessionInv, JobsTyped, Job
    <3>2. Claim(job[t].token, job[t].expiresAt) \in stored(index)
      BY <1>1, <2>1, <3>1 DEF SessionInv, Listed
    <3> QED BY <1>9, <2>1, <3>2 DEF Claim
  <2>2. ASSUME removals = 0, NEW k \in LiveTokens'
        PROVE  Claim(k, entry[k].expiresAt) \in stored(index)'
    <3>1. k \in LiveTokens /\ k \in Token /\ live(k)'
      BY <1>8, Keys DEF LiveTokens
    <3>2. entry[k].expiresAt > now'
      BY <1>1, <3>1, Keys, NullAssumption DEF live, SessionInv, KvTyped
    <3> QED BY <1>9, <2>2, <3>1, <3>2 DEF Claim, SessionInv, Listed
  <2> QED BY <1>1, <1>3, <2>1, <2>2 DEF SessionInv, Listed
<1>11. Reached'
  <2>1. \A t \in Slot : job[t].before \subseteq Key
    BY Keys DEF SessionInv, JobsTyped, Job
  <2> QED BY <1>1, <1>8, <2>1 DEF SessionInv, Reached
<1> QED BY <1>2, <1>6, <1>7, <1>10, <1>11 DEF SessionInv

-----------------------------------------------------------------------------
(* The theorems.                                                           *)

LEMMA SessionInitially == Init => SessionInv
<1> SUFFICES ASSUME Init PROVE SessionInv
  OBVIOUS
<1>1. entry = [k \in Key |-> Null] /\ now = 1 /\ issued = {} /\ removals = 0
      /\ job = [t \in Slot |-> Idle]
  BY DEF Init, KvInit
<1>2. /\ Idle \in Job /\ Idle.op = "idle" /\ Idle.list = {} /\ Idle.before = {}
  BY DEF Idle, Job
<1>3. KvTyped /\ Covered
  <2>1. now \in Nat \ {0}
    BY <1>1
  <2>2. now <= MaxNow
    BY <1>1, KeyAssumption
  <2>3. entry \in [Key -> Entry \cup {Null}] /\ \A k \in Key : entry[k] = Null
    BY <1>1
  <2> QED BY <2>1, <2>2, <2>3, Keys DEF KvTyped, Covered
<1>4. \A t \in Slot : job[t] = Idle
  BY <1>1
<1>5. JobsTyped
  BY <1>1, <1>2, <1>4 DEF JobsTyped
<1>6. Creating = {} /\ Written = {} /\ Indexed = {} /\ LiveTokens = {}
  BY <1>1, <1>2, <1>4, Keys DEF Creating, Written, Indexed, LiveTokens, live
<1>7. Claims = {}
  BY <1>2, <1>4, <1>6, ClaimsNow
<1> QED BY <1>2, <1>3, <1>4, <1>5, <1>6, <1>7 DEF SessionInv, Agreed, StoredOnce, Listed, Reached

LEMMA SessionStep == SessionInv /\ [Next]_vars => SessionInv'
<1> SUFFICES ASSUME SessionInv, [Next]_vars PROVE SessionInv'
  OBVIOUS
<1>1. CASE OwnCall
  BY <1>1, OwnCallPreserves
<1>2. ASSUME NEW t \in Slot, SessionCall(t) PROVE SessionInv'
  BY <1>2, SessionCallPreserves
<1>3. CASE Ring \/ \E k \in Key : Alarm(k)
  BY <1>3, AlarmPreserves DEF Ring, Alarm
<1>4. CASE Clock
  BY <1>4, ClockPreserves
<1>5. CASE UNCHANGED vars
  <2>1. /\ UNCHANGED <<issued, removals, job>> /\ now' = now /\ entry' = entry
    BY <1>5 DEF vars
  <2>2. KvTyped' /\ \A k \in Token \cup {index} : live(k)' = live(k)
    BY <2>1 DEF SessionInv, KvTyped, live
  <2> QED BY <2>1, <2>2, SessionsUntouched
<1> QED BY <1>1, <1>2, <1>3, <1>4, <1>5 DEF Next

\* Everybody who knows of a session agrees on it, and it is listed while it lives.
THEOREM SessionsConsistent == Spec => []SessionInv
BY SessionInitially, SessionStep, PTL DEF Spec

\* Sign-ins never lose each other's sessions from the index, although each writes
\* the list from a copy (mergeSessionIndex of kv-store.do.ts).
THEOREM SignInsKept == Spec => []SignInsListed
<1>1. SessionInv => SignInsListed
  <2> SUFFICES ASSUME SessionInv, removals = 0, NEW k \in LiveTokens
               PROVE  \E e \in stored(index) : e.token = k
    BY DEF SignInsListed
  <2>1. Claim(k, entry[k].expiresAt) \in stored(index)
    BY DEF SessionInv, Listed
  <2> QED BY <2>1 DEF Claim
<1> QED BY <1>1, SessionsConsistent, PTL

\* A revocation of all sessions that nobody meddles with has removed every session
\* there was when it began (deleteUserSessions).
THEOREM RevocationComplete == Spec => []RevocationReaches
<1>1. SessionInv => RevocationReaches
  BY DEF SessionInv, Reached, RevocationReaches, At, LiveTokens
<1> QED BY <1>1, SessionsConsistent, PTL

-----------------------------------------------------------------------------
(* The refinement.                                                         *)

LEMMA ContractInitially == Init => Contract!TtlInit
<1> SUFFICES ASSUME Init PROVE Contract!TtlInit
  OBVIOUS
<1>1. entry = [k \in Key |-> Null] /\ now = 1 /\ parity = 0
  BY DEF Init, KvInit
<1>2. visible = [k \in Key |-> [value |-> Null, expiresAt |-> 0]]
  BY <1>1 DEF visible, live
<1> QED BY <1>1, <1>2 DEF Contract!TtlInit, Contract!NoEntry

\* The writes of a request ask for lifetimes of the contract.
LEMMA SessionCallVisible ==
    ASSUME SessionInv, NEW t \in Slot, SessionCall(t)
    PROVE  Contract!TtlNext \/ UNCHANGED <<visible, now, parity>>
<1>0. KvTyped /\ index \in Key /\ Token \subseteq Key /\ job[t] \in Job /\ now \in Nat
  BY Keys DEF SessionInv, JobsTyped, KvTyped
<1>1. UNCHANGED kvVars => UNCHANGED <<visible, now, parity>>
  BY DEF kvVars, visible, live, Forever
<1>2. ASSUME mergeSessionIndex(index, job[t].list) PROVE Contract!TtlNext
  <2>1. /\ job[t].list \subseteq Claims /\ stored(index) \subseteq Claims
        /\ stored(index) \subseteq Listing /\ job[t].list \subseteq Listing
    BY <1>0, ClaimsNow DEF SessionInv, KvTyped, stored, live, Indexed, Job
  <2>2. PICK S : S = merged(index, job[t].list)
    OBVIOUS
  <2>3. S \in SUBSET Listing /\ \A e \in S : e.expiresAt <= now + Lifetime
    BY <2>1, <2>2 DEF merged, SessionInv, Agreed
  <2>4. latest(S) \in Nat /\ latest(S) <= now + Lifetime
    BY <1>0, <2>3, LatestCovers
  <2>5. PICK x \in Nat : x = latest(S)
    BY <2>4
  <2>6. write(index, S, x) /\ x <= now + Lifetime + 2
    BY <1>0, <1>2, <2>2, <2>4, <2>5, LifetimeAssumption DEF mergeSessionIndex
  <2>7. [value |-> S, expiresAt |-> x] \in Entry
    BY <2>3 DEF Entry
  <2> QED BY <1>0, <2>6, <2>7, WriteVisible
<1>3. CASE ListSession(t)
  BY <1>1, <1>2, <1>3 DEF ListSession, Fails
<1>4. CASE StoreSession(t)
  <2>1. CASE UNCHANGED kvVars
    BY <1>1, <2>1
  <2>2. CASE write(job[t].token, TRUE, job[t].expiresAt)
    <3>1. t \in Creating /\ job[t].token \in Token /\ job[t].expiresAt \in Nat
      BY <1>0, <1>4 DEF StoreSession, At, Creating, SessionInv, JobsTyped, Job
    <3>2. job[t].expiresAt <= now + Lifetime
      <4>1. Claim(job[t].token, job[t].expiresAt) \in Claims
        BY <3>1, ClaimsNow
      <4> QED BY <4>1 DEF SessionInv, Agreed, Claim
    <3>3. PICK k \in Token, x \in Nat : k = job[t].token /\ x = job[t].expiresAt
      BY <3>1
    <3> DEFINE v == TRUE
    <3>4. [value |-> v, expiresAt |-> x] \in Entry
      BY DEF Entry
    <3>5. write(k, v, x)
      BY <2>2, <3>3
    <3>6. x <= now + Lifetime + 2
      BY <1>0, <3>2, <3>3, LifetimeAssumption
    <3> HIDE DEF v
    <3> QED BY <1>0, <3>4, <3>5, <3>6, WriteVisible
  <2> QED BY <1>4, <2>1, <2>2 DEF StoreSession, Fails
<1>5. CASE UnlistSession(t)
  BY <1>0, <1>1, <1>2, <1>5, DeleteVisible DEF UnlistSession, Fails
<1>6. CASE RemoveSession(t)
  <2>1. PICK k \in Token : k = job[t].token
    BY <1>6 DEF RemoveSession, At, SessionInv, JobsTyped
  <2>2. delete(k) \/ UNCHANGED kvVars
    BY <1>6, <2>1 DEF RemoveSession, Fails
  <2> QED BY <1>0, <1>1, <2>2, DeleteVisible
<1>7. CASE RemoveListed(t)
  <2>1. PICK e \in job[t].list : delete(e.token) \/ UNCHANGED kvVars
    BY <1>7 DEF RemoveListed, Fails
  <2>2. PICK k \in Token : k = e.token
    BY <1>0 DEF Job, Listing
  <2> QED BY <1>0, <1>1, <2>1, <2>2, DeleteVisible
<1>8. CASE RemoveIndex(t)
  BY <1>0, <1>1, <1>8, DeleteVisible DEF RemoveIndex, Fails
<1>9. CASE CreateSession(t) \/ DeleteSession(t) \/ DeleteUserSessions(t) \/ Answer(t)
  BY <1>1, <1>9 DEF CreateSession, DeleteSession, DeleteUserSessions, Answer
<1> QED BY <1>3, <1>4, <1>5, <1>6, <1>7, <1>8, <1>9 DEF SessionCall

LEMMA OwnCallVisible ==
    ASSUME SessionInv, OwnCall
    PROVE  Contract!TtlNext
<1>1. PICK k \in OwnKey :
        \/ \E ttl \in {Null, 1, 2} : set(k, 1, ttl)
        \/ incrementWindow(k, 2)
        \/ delete(k)
  BY DEF OwnCall, getAndDelete
<1>2. KvTyped /\ k \in Key /\ now \in Nat /\ (entry[k] # Null => entry[k].value \in Nat)
  BY Keys DEF SessionInv, KvTyped
<1>3. CASE delete(k)
  BY <1>2, <1>3, DeleteVisible
<1>4. ASSUME NEW v \in Nat, NEW x \in Nat \cup {Null}, write(k, v, x),
             x = Null \/ x <= now + Lifetime + 2
      PROVE  Contract!TtlNext
  <2>1. [value |-> v, expiresAt |-> x] \in Entry
    BY DEF Entry
  <2> QED BY <1>2, <1>4, <2>1, WriteVisible
<1>5. ASSUME NEW ttl \in {Null, 1, 2}, set(k, 1, ttl) PROVE Contract!TtlNext
  <2>1. CASE ttl = Null
    BY <1>4, <1>5, <2>1 DEF set
  <2>2. CASE ttl # Null
    <3>1. ttl = 1 \/ ttl = 2
      BY <1>5, <2>2
    <3>2. PICK x \in Nat : x = now + ttl /\ x <= now + Lifetime + 2
      BY <1>2, <3>1, LifetimeAssumption
    <3> QED BY <1>4, <1>5, <2>2, <3>2 DEF set
  <2> QED BY <2>1, <2>2
<1>6. CASE incrementWindow(k, 2)
  <2>1. PICK v \in Nat : v = IF live(k) THEN entry[k].value + 1 ELSE 1
    BY <1>2 DEF live
  <2>2. PICK x \in Nat : x = now + 2 /\ x <= now + Lifetime + 2
    BY <1>2, LifetimeAssumption
  <2> QED BY <1>4, <1>6, <2>1, <2>2 DEF incrementWindow
<1> QED BY <1>1, <1>3, <1>5, <1>6

\* The Durable Objects implement the contract of the TTL store: callers never see
\* an expired value, and never miss one that was rewritten while an alarm for the
\* old one was on its way (alarm of kv-store.do.ts).
THEOREM ContractImplemented == Spec => KeepsContract
<1>1. SessionInv /\ [Next]_vars => [Contract!TtlNext]_<<visible, now, parity>>
  <2> SUFFICES ASSUME SessionInv, [Next]_vars
               PROVE  Contract!TtlNext \/ UNCHANGED <<visible, now, parity>>
    OBVIOUS
  <2>0. KvTyped
    BY DEF SessionInv
  <2>1. CASE OwnCall
    BY <2>1, OwnCallVisible
  <2>2. ASSUME NEW t \in Slot, SessionCall(t)
        PROVE  Contract!TtlNext \/ UNCHANGED <<visible, now, parity>>
    BY <2>2, SessionCallVisible
  <2>3. CASE Ring \/ \E k \in Key : Alarm(k)
    BY <2>0, <2>3, AlarmVisible DEF Ring, Alarm
  <2>4. CASE Clock
    BY <2>0, <2>4, TickVisible DEF Clock, Contract!TtlNext
  <2>5. CASE UNCHANGED vars
    BY <2>5 DEF vars, visible, live, Forever
  <2> QED BY <2>1, <2>2, <2>3, <2>4, <2>5 DEF Next
<1> QED BY <1>1, ContractInitially, SessionsConsistent, PTL
     DEF Spec, KeepsContract, Contract!TtlSpec

=============================================================================
