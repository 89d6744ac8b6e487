-------------------------- MODULE MembershipProofs --------------------------
(***************************************************************************)
(* Theorems about who belongs where in Tenancy, for any number of users,   *)
(* companies, invitations and connections and any set of served requests.  *)
(*                                                                         *)
(* TenancyProofs shows that writers exclude each other row by row.  What   *)
(* is shown here relates several rows: a user row and the memberships of   *)
(* the user.  It rests on the locks that are not taken for writing: the    *)
(* KEY SHARE of a foreign key, the FOR SHARE of a switch and of the        *)
(* inviter's membership, the advisory lock of a joining user (Compatible). *)
(* For each transaction under way Pending says what the rows it has written *)
(* still owe to the rows it has not.                                       *)
(***************************************************************************)
EXTENDS TenancyProofs

Has(t, r, m) == <<t, r, m>> \in held

\* No two transactions hold conflicting locks on a row.
Compatible ==
    \A s, t \in Slot, r \in Row, m, n \in Mode :
        Has(s, r, m) /\ Has(t, r, n) /\ m \in ConflictsWith(n) => s = t

\* What transaction t sees of row r.
Seen(t, r) == IF own[t][r] = Unwritten THEN db[r] ELSE own[t][r]

Alive(v) == v \notin {None, Gone}

\* The statements before which no user, no membership is written.
UserPhase == {"orphan", "deleteUser", "softDelete", "commit"}
MemberPhase == UserPhase \cup {"demote", "countOwners", "reassign", "setCurrent"}

Untouched(t) ==
    /\ job[t].pc \notin UserPhase => \A u \in User : own[t][u] = Unwritten
    /\ job[t].pc \notin MemberPhase => \A m \in Membership : own[t][m] = Unwritten

\* The account of u has no active company that t can see.
Nowhere(t, u) ==
    \A c \in Company : Seen(t, <<u, c>>) # None => Seen(t, c) # "ACTIVE"

\* t has taken u out of c and has still to look at the current company.
Leaving(t, u, c) ==
    /\ job[t].company = c /\ db[<<u, c>>] # None
    /\ \/ job[t].op = "removeMember" /\ job[t].pc = "countOwners" /\ job[t].user = u
       \/ job[t].pc = "reassign" /\ u \in job[t].leavers

\* Whoever was taken out of a company is locked and does not point to it.
Left(t) ==
    \A u \in User, c \in Company : own[t][<<u, c>>] = None =>
        /\ Leaving(t, u, c) \/ (Has(t, u, "UPDATE") /\ Seen(t, u) # c)
        /\ own[t][u] # Gone => c = job[t].company

JoinOps == {"createSignupCompany", "addCompany", "acceptInvitation"}

\* Whoever was added to a company is there, cannot be deleted meanwhile, and
\* points to it in the end.
Joined(t) ==
    \A u \in User, c \in Company : own[t][<<u, c>>] \in Role /\ db[<<u, c>>] = None =>
        /\ job[t].op \in JoinOps /\ job[t].user = u /\ job[t].company = c
        /\ Has(t, u, "KEY SHARE") /\ Has(t, <<u, c>>, "UPDATE") /\ Alive(db[u])
        /\ \/ job[t].pc = "setCurrent"
           \/ /\ job[t].pc = "commit" /\ Seen(t, u) = c
              /\ \E m \in Exclusive : Has(t, u, m)

\* A user is pointed to a company he belongs to, and nobody can take him out of
\* it first.
Moved(t) ==
    \A u \in User : own[t][u] \in Company =>
        LET m == <<u, own[t][u]>>
        IN  /\ Seen(t, m) # None
            /\ Has(t, m, "SHARE") \/ Has(t, m, "UPDATE") \/ Has(t, u, "UPDATE")

\* A user who is pointed nowhere is about to be deleted.
Homeless(t) ==
    \A u \in User : own[t][u] = NoCompany =>
        /\ Has(t, u, "UPDATE") /\ Nowhere(t, u)
        /\ u \in job[t].leavers /\ job[t].pc \in {"orphan", "deleteUser"}
        /\ job[t].op \in {"removeMember", "deleteCompany"}

\* A deleted user leaves no membership behind and, unless it is a withdrawal,
\* had none in an active company but the one that is being left.
Deleted(t) ==
    \A u \in User : own[t][u] = Gone =>
        /\ Has(t, u, "UPDATE")
        /\ \A c \in Company : Seen(t, <<u, c>>) = None
        /\ job[t].op # "deleteAccount" =>
             \A c \in Company : db[<<u, c>>] # None /\ db[c] = "ACTIVE"
                                => c = job[t].company

\* Only accounts that exist are written, and none is unmade.
UserWrites(t) ==
    \A u \in User : own[t][u] # Unwritten => own[t][u] # None /\ Alive(db[u])

\* A removal, a company deletion and the sweep deal with users who have an
\* account or had one, and delete those who belong nowhere.
Orphans(t) ==
    /\ \A u \in User : \/ u \in job[t].leavers
                       \/ job[t].op = "removeMember" /\ job[t].user = u
                       => db[u] # None
    /\ job[t].pc = "deleteUser" /\ job[t].op # "deleteAccount" =>
         \/ Has(t, job[t].user, "UPDATE") /\ Nowhere(t, job[t].user)
         \/ Seen(t, job[t].user) = Gone

\* What setCurrent writes is the company that was joined, or one whose
\* membership is held FOR SHARE.
Pointing(t) ==
    job[t].pc = "setCurrent" =>
        LET m == <<job[t].user, job[t].company>>
        IN  IF job[t].op = "switchCurrentCompany"
            THEN Has(t, m, "SHARE") /\ db[m] # None /\ own[t][m] = Unwritten
            ELSE own[t][m] \in Role /\ db[m] = None

\* Companies that are named exist.
Named(t) ==
    /\ job[t].op \in {"createInvitation", "acceptInvitation"} => db[job[t].company] # None
    /\ \A c \in Company : own[t][c] # Unwritten => own[t][c] # None /\ c = job[t].company
    /\ \A i \in Invitation : own[t][i] \in InvitationRecord => db[own[t][i].company] # None
    /\ \A u \in User, c \in Company : own[t][<<u, c>>] \in Role => Seen(t, c) # None
    /\ \/ job[t].op = "createSignupCompany"
            /\ job[t].pc \in {"insertMembership", "setCurrent", "commit"}
       \/ job[t].op = "addCompany" /\ job[t].pc # "insertCompany"
       => own[t][job[t].company] = "ACTIVE"

\* From its advisory lock on, nobody but t adds the user of t to a company, and
\* a company for a new account is for one that had none.
Alone(t) ==
    /\ \/ job[t].pc \in {"countActive", "insertMembership"}
       \/ job[t].pc \in {"setCurrent", "commit"} /\ job[t].op \in JoinOps
       \/ job[t].op = "createSignupCompany" /\ job[t].pc # "advisory"
       => Has(t, job[t].user, "ADVISORY")
    /\ job[t].op = "createSignupCompany" /\ job[t].pc \notin {"advisory", "countActive"} =>
         \A c \in Company : db[<<job[t].user, c>>] # None => db[c] # "ACTIVE"

\* The inviter that t has verified stays OWNER.
Backed(t) ==
    job[t].op = "acceptInvitation" /\ job[t].role = "OWNER"
    /\ job[t].pc \notin {"markAccepted", "verifyInviter"} =>
        LET m == <<job[t].actor, job[t].company>>
        IN  Has(t, m, "SHARE") /\ db[m] = "OWNER"

Pending(t) ==
    /\ Untouched(t) /\ Left(t) /\ Joined(t) /\ Moved(t) /\ Homeless(t) /\ Deleted(t)
    /\ UserWrites(t) /\ Orphans(t) /\ Pointing(t) /\ Named(t) /\ Alone(t) /\ Backed(t)

\* The inductive invariant.
BelongInv == IInv /\ Compatible /\ Consistent(db) /\ \A t \in Slot : Pending(t)

-----------------------------------------------------------------------------
(* Locks.                                                                  *)

LEMMA ConflictsSymmetric ==
    \A m, n \in Mode : m \in ConflictsWith(n) => n \in ConflictsWith(m)
BY DEF Mode, RowLock, ConflictsWith

\* What a statement of t leaves.
LEMMA StatementEffect ==
    ASSUME IInv, NEW t \in Slot, NEW need, NEW w, NEW j, Statement(t, need, w, j)
    PROVE  /\ db' = db
           /\ own'[t] = w /\ job'[t] = j
           /\ \A s \in Slot : s # t => own'[s] = own[s] /\ job'[s] = job[s]
           /\ \A s, r, m : Has(s, r, m) => Has(s, r, m)'
           /\ \A r, m : <<r, m>> \in need => Has(t, r, m)'
<1>1. /\ db' = db /\ own' = [own EXCEPT ![t] = w] /\ job' = [job EXCEPT ![t] = j]
      /\ held' = held \cup {<<t, l[1], l[2]>> : l \in need}
  BY DEF Statement, Execute
<1>2. DOMAIN own = Slot /\ DOMAIN job = Slot
  BY DEF IInv, TypeOK
<1>3. ASSUME NEW r, NEW m, <<r, m>> \in need
      PROVE  <<t, r, m>> \in held'
  <2>1. <<r, m>>[1] = r /\ <<r, m>>[2] = m
    OBVIOUS
  <2> QED BY <1>1, <1>3, <2>1
<1> QED BY <1>1, <1>2, <1>3 DEF Has

LEMMA CompatibleStatement ==
    ASSUME IInv, Compatible, NEW t \in Slot, NEW need, NEW w, NEW j, Statement(t, need, w, j)
    PROVE  Compatible'
<1>1. held' = held \cup {<<t, l[1], l[2]>> : l \in need} /\ AllFree(t, need)
  BY DEF Statement, Execute
<1>2. ASSUME NEW s \in Slot, NEW r \in Row, NEW m \in Mode, NEW n \in Mode,
             s # t, <<s, r, m>> \in held', <<t, r, n>> \in held', m \in ConflictsWith(n)
      PROVE  FALSE
  <2>1. <<s, r, m>> \in held
    BY <1>1, <1>2
  <2>2. CASE <<t, r, n>> \in held
    BY <1>2, <2>1, <2>2 DEF Compatible, Has
  <2>3. CASE <<t, r, n>> \notin held
    <3>1. PICK l \in need : r = l[1] /\ n = l[2]
      BY <1>1, <1>2, <2>3
    <3>2. Free(t, r, n)
      BY <1>1, <3>1 DEF AllFree
    <3>3. <<s, r, m>>[1] = s /\ <<s, r, m>>[2] = r /\ <<s, r, m>>[3] = m
      OBVIOUS
    <3> QED BY <1>2, <2>1, <3>2, <3>3 DEF Free
  <2> QED BY <2>2, <2>3
<1>3. ASSUME NEW p \in Slot, NEW q \in Slot, NEW r \in Row, NEW m \in Mode, NEW n \in Mode,
             <<p, r, m>> \in held', <<q, r, n>> \in held', m \in ConflictsWith(n), p # q
      PROVE  FALSE
  <2>1. n \in ConflictsWith(m)
    BY <1>3, ConflictsSymmetric
  <2>2. CASE q = t
    BY <1>2, <1>3, <2>2
  <2>3. CASE p = t
    BY <1>2, <1>3, <2>1, <2>3
  <2>4. CASE p # t /\ q # t
    <3>1. <<p, r, m>> \in held /\ <<q, r, n>> \in held
      BY <1>1, <1>3, <2>4
    <3> QED BY <1>3, <3>1 DEF Compatible, Has
  <2> QED BY <2>2, <2>3, <2>4
<1> QED BY <1>3 DEF Compatible, Has

\* Locks that are given back conflict with nothing.
LEMMA CompatibleLess ==
    ASSUME Compatible, held' \subseteq held
    PROVE  Compatible'
BY DEF Compatible, Has

-----------------------------------------------------------------------------
(* What other transactions leave alone.                                    *)

\* Nothing that Pending(s) speaks of has changed, except that s may have got locks.
LEMMA OthersKept ==
    ASSUME NEW s \in Slot, Pending(s), db' = db, own'[s] = own[s], job'[s] = job[s],
           \A r, m : Has(s, r, m) => Has(s, r, m)'
    PROVE  Pending(s)'
<1> USE DEF Pending
<1>1. Untouched(s)'
  BY DEF Untouched
<1>2. \A r : Seen(s, r)' = Seen(s, r)
  BY DEF Seen
<1>3. \A u, c : Leaving(s, u, c) => Leaving(s, u, c)'
  BY DEF Leaving
<1>4. \A u : Nowhere(s, u) => Nowhere(s, u)'
  BY <1>2 DEF Nowhere
<1>5. Left(s)'
  BY <1>2, <1>3 DEF Left
<1>6. Joined(s)'
  BY <1>2 DEF Joined
<1>7. Moved(s)'
  BY <1>2 DEF Moved
<1>8. Homeless(s)'
  BY <1>4 DEF Homeless
<1>9. Deleted(s)'
  BY <1>2 DEF Deleted
<1>10. UserWrites(s)' /\ Orphans(s)'
  BY <1>2, <1>4 DEF UserWrites, Orphans
<1>11. Pointing(s)' /\ Named(s)'
  BY <1>2 DEF Pointing, Named
<1>12. Alone(s)' /\ Backed(s)'
  BY DEF Alone, Backed
<1> QED BY <1>1, <1>5, <1>6, <1>7, <1>8, <1>9, <1>10, <1>11, <1>12

\* A transaction that has written no user and no membership owes nothing for them.
LEMMA NothingOwed ==
    ASSUME NEW t \in Slot, \A u \in User : own'[t][u] = Unwritten,
           \A m \in Membership : own'[t][m] = Unwritten
    PROVE  /\ Untouched(t)' /\ Left(t)' /\ Joined(t)' /\ Moved(t)' /\ Homeless(t)'
           /\ Deleted(t)' /\ UserWrites(t)'
<1>1. \A u \in User, c \in Company : own'[t][<<u, c>>] = Unwritten
  BY DEF Membership
<1>2. Unwritten \notin Company /\ Unwritten \notin Role /\ Unwritten \notin {None, Gone, NoCompany}
  BY MarkersDistinct
<1>3. Untouched(t)' /\ Left(t)' /\ Joined(t)'
  BY <1>1, <1>2 DEF Untouched, Left, Joined
<1>4. Moved(t)' /\ Homeless(t)' /\ Deleted(t)' /\ UserWrites(t)'
  BY <1>1, <1>2 DEF Moved, Homeless, Deleted, UserWrites
<1> QED BY <1>3, <1>4

\* A slot that serves no request owes nothing.
LEMMA NothingPending ==
    ASSUME NEW t \in Slot, job'[t] = NoJob, \A r \in Row : own'[t][r] = Unwritten
    PROVE  Pending(t)'
<1>1. \A u \in User : own'[t][u] = Unwritten
  BY RowTypes
<1>2. \A m \in Membership : own'[t][m] = Unwritten
  BY RowTypes
<1>3. \A u \in User, c \in Company : own'[t][<<u, c>>] = Unwritten
  BY <1>2 DEF Membership
<1>4. Unwritten \notin Role /\ Unwritten \notin InvitationRecord
  BY MarkersDistinct
<1>5. Orphans(t)' /\ Pointing(t)' /\ Alone(t)' /\ Backed(t)'
  BY MarkersDistinct DEF Orphans, Pointing, Alone, Backed, NoJob
<1>6. Named(t)'
  BY <1>3, <1>4, RowTypes DEF Named, NoJob
<1> QED BY <1>1, <1>2, <1>5, <1>6, NothingOwed DEF Pending

-----------------------------------------------------------------------------
(* Commits.                                                                *)

\* What t cannot have written, or changed, when another transaction s holds
\* a lock; and what no commit does.
LEMMA CommitBounds ==
    ASSUME BelongInv, NEW t \in Slot, Commit(t), NEW s \in Slot, s # t
    PROVE  /\ own'[s] = own[s] /\ job'[s] = job[s]
           /\ \A r, m : Has(s, r, m) => Has(s, r, m)'
           /\ \A r \in Row : own[s][r] # Unwritten => db'[r] = db[r]
           /\ \A r \in Row : Has(s, r, "UPDATE") \/ Has(s, r, "NO KEY UPDATE") \/ Has(s, r, "SHARE")
                             => db'[r] = db[r]
           /\ \A u \in User, c \in Company :
                Has(s, u, "UPDATE") /\ db'[<<u, c>>] # None => db[<<u, c>>] # None
           /\ \A u \in User, c \in Company :
                Has(s, u, "UPDATE") /\ db[<<u, c>>] # None => db'[<<u, c>>] # None
           /\ \A u \in User : Has(s, u, "KEY SHARE") /\ Alive(db[u]) => Alive(db'[u])
<1>0. /\ \A r \in Row : db'[r] = IF own[t][r] = Unwritten THEN db[r] ELSE own[t][r]
      /\ own'[s] = own[s] /\ job'[s] = job[s] /\ held' = held \ LocksOf(t)
      /\ \A r \in Row : own[s][r] # Unwritten => db'[r] = db[r]
  BY CommitEffect DEF BelongInv
<1>1. \A r, m : Has(s, r, m) => Has(s, r, m)'
  BY <1>0 DEF Has, LocksOf
<1>2. \A r \in Row, m, n \in Mode : Has(s, r, m) /\ Has(t, r, n) => n \notin ConflictsWith(m)
  BY DEF BelongInv, Compatible
<1>3. /\ {"UPDATE", "NO KEY UPDATE", "SHARE", "KEY SHARE"} \subseteq Mode
      /\ "KEY SHARE" \in ConflictsWith("UPDATE") /\ "UPDATE" \in ConflictsWith("UPDATE")
      /\ "UPDATE" \in ConflictsWith("KEY SHARE")
      /\ \A m \in Exclusive : /\ m \in Mode /\ m \in ConflictsWith("UPDATE")
                              /\ m \in ConflictsWith("NO KEY UPDATE") /\ m \in ConflictsWith("SHARE")
  BY DEF Mode, RowLock, ConflictsWith, Exclusive
<1>4. \A r \in Row : Has(s, r, "UPDATE") \/ Has(s, r, "NO KEY UPDATE") \/ Has(s, r, "SHARE")
                     => own[t][r] = Unwritten
  <2>1. \A r \in Row : own[t][r] # Unwritten => \E m \in Exclusive : Has(t, r, m)
    BY DEF BelongInv, IInv, WritesLocked, Has
  <2> QED BY <1>2, <1>3, <2>1
<1>5. Pending(t) /\ job[t].pc = "commit"
  BY DEF BelongInv, Commit, At
<1>6. ASSUME NEW u \in User, NEW c \in Company, Has(s, u, "UPDATE")
      PROVE  db'[<<u, c>>] # None <=> db[<<u, c>>] # None
  <2>1. u \in Row /\ <<u, c>> \in Row /\ own[t][<<u, c>>] \in Role \cup {None, Unwritten}
    BY RowTypes DEF Membership, MembershipValue, BelongInv, IInv, TypeOK, WritesTyped
  <2>2. ~Has(t, u, "UPDATE") /\ ~Has(t, u, "KEY SHARE")
    BY <1>2, <1>3, <1>6, <2>1
  <2>3. own[t][<<u, c>>] # None
    BY <1>5, <2>2 DEF Pending, Left, Leaving
  <2>4. ~(own[t][<<u, c>>] \in Role /\ db[<<u, c>>] = None)
    BY <1>5, <2>2 DEF Pending, Joined
  <2>5. Unwritten \notin Role /\ None \notin Role
    BY MarkersDistinct
  <2> QED BY <1>0, <2>1, <2>3, <2>4, <2>5
<1>7. ASSUME NEW u \in User, Has(s, u, "KEY SHARE"), Alive(db[u])
      PROVE  Alive(db'[u])
  <2>1. u \in Row
    BY RowTypes
  <2>2. ~Has(t, u, "UPDATE")
    BY <1>2, <1>3, <1>7, <2>1
  <2>3. own[t][u] # Gone /\ own[t][u] # None
    BY <1>5, <2>2, MarkersDistinct DEF Pending, Deleted, UserWrites
  <2> QED BY <1>0, <1>7, <2>1, <2>3 DEF Alive
<1> QED BY <1>0, <1>1, <1>4, <1>6, <1>7

\* Companies and accounts are not unmade, and companies not reopened.
LEMMA CommitForward ==
    ASSUME BelongInv, NEW t \in Slot, Commit(t)
    PROVE  /\ \A c \in Company : db[c] # None => db'[c] # None
           /\ \A c \in Company : db[c] # None /\ db'[c] = "ACTIVE" => db[c] = "ACTIVE"
           /\ \A u \in User : db[u] # None => db'[u] # None
           /\ \A u \in User : db[u] = Gone => db'[u] = Gone
<1>0. \A r \in Row : db'[r] = IF own[t][r] = Unwritten THEN db[r] ELSE own[t][r]
  BY CommitEffect DEF BelongInv
<1>1. Pending(t)
  BY DEF BelongInv
<1>2. \A c \in Company : c \in Row /\ (db[c] # None => db'[c] # None)
  BY <1>0, <1>1, RowTypes DEF Pending, Named
<1>3. \A c \in Company : db[c] # None /\ db'[c] = "ACTIVE" => db[c] = "ACTIVE"
  BY <1>0, <1>2 DEF BelongInv, IInv, CompanyWrites
<1>4. \A u \in User : /\ u \in Row /\ (db[u] # None => db'[u] # None)
                      /\ (db[u] = Gone => db'[u] = Gone)
  BY <1>0, <1>1, RowTypes DEF Pending, UserWrites, Alive
<1> QED BY <1>2, <1>3, <1>4

\* What another transaction owes, it owes after the commit of t, and can pay.
LEMMA CommitKept ==
    ASSUME BelongInv, NEW t \in Slot, Commit(t), NEW s \in Slot, s # t
    PROVE  Pending(s)'
<1>0. /\ own'[s] = own[s] /\ job'[s] = job[s]
      /\ \A r, m : Has(s, r, m) => Has(s, r, m)'
      /\ \A r \in Row : own[s][r] # Unwritten => db'[r] = db[r]
      /\ \A r \in Row : Has(s, r, "UPDATE") \/ Has(s, r, "NO KEY UPDATE") \/ Has(s, r, "SHARE")
                        => db'[r] = db[r]
  BY CommitBounds
<1>1. \A u \in User, c \in Company :
         /\ Has(s, u, "UPDATE") => (db'[<<u, c>>] # None <=> db[<<u, c>>] # None)
         /\ Has(s, u, "KEY SHARE") /\ Alive(db[u]) => Alive(db'[u])
  BY CommitBounds
<1>2. /\ \A c \in Company : db[c] # None => db'[c] # None
      /\ \A c \in Company : db[c] # None /\ db'[c] = "ACTIVE" => db[c] = "ACTIVE"
      /\ \A u \in User : db[u] # None => db'[u] # None
      /\ \A u \in User : db[u] = Gone => db'[u] = Gone
  BY CommitForward
<1>3. /\ \A u \in User : u \in Row
      /\ \A c \in Company : c \in Row
      /\ \A u \in User, c \in Company : <<u, c>> \in Row
      /\ \A i \in Invitation : i \in Row
  BY RowTypes DEF Membership
<1>4. Pending(s) /\ Consistent(db)
  BY DEF BelongInv
<1>5. \A r : Seen(s, r)' = IF own[s][r] = Unwritten THEN db'[r] ELSE own[s][r]
  BY <1>0 DEF Seen
<1>6. \A r \in Row : db'[r] = db[r] => Seen(s, r)' = Seen(s, r)
  BY <1>5 DEF Seen
<1>7. ASSUME NEW u \in User, Has(s, u, "UPDATE"), Nowhere(s, u)
      PROVE  Nowhere(s, u)'
  <2> SUFFICES ASSUME NEW c \in Company, Seen(s, <<u, c>>)' # None, Seen(s, c)' = "ACTIVE"
               PROVE  FALSE
    BY DEF Nowhere
  <2>1. Seen(s, <<u, c>>) # None
    BY <1>1, <1>5, <1>7 DEF Seen
  <2>2. Seen(s, c) # "ACTIVE"
    BY <1>7, <2>1 DEF Nowhere
  <2>3. own[s][c] = Unwritten /\ db'[c] = "ACTIVE" /\ db[c] # "ACTIVE"
    BY <1>5, <2>2 DEF Seen
  <2>4. db[c] # None
    <3>1. CASE own[s][<<u, c>>] = Unwritten
      BY <1>4, <2>1, <3>1 DEF Seen, Consistent, IsMember
    <3>2. CASE own[s][<<u, c>>] # Unwritten
      <4>1. own[s][<<u, c>>] \in Role
        <5>1. own[s][<<u, c>>] \in Role \cup {None, Unwritten}
          BY <1>3, RowTypes DEF Membership, MembershipValue, BelongInv, IInv, TypeOK, WritesTyped
        <5> QED BY <2>1, <3>2, <5>1 DEF Seen
      <4> QED BY <1>4, <2>3, <4>1 DEF Pending, Named, Seen
    <3> QED BY <3>1, <3>2
  <2> QED BY <1>2, <2>3, <2>4
<1>8. Untouched(s)'
  BY <1>0, <1>4 DEF Pending, Untouched
<1>9. Left(s)'
  <2> SUFFICES ASSUME NEW u \in User, NEW c \in Company, own[s][<<u, c>>] = None
               PROVE  /\ Leaving(s, u, c)' \/ (Has(s, u, "UPDATE")' /\ Seen(s, u)' # c)
                      /\ own[s][u] # Gone => c = job[s].company
    BY <1>0 DEF Left
  <2>1. db'[<<u, c>>] = db[<<u, c>>]
    BY <1>0, <1>3, MarkersDistinct
  <2>2. Leaving(s, u, c) => Leaving(s, u, c)'
    BY <1>0, <2>1 DEF Leaving
  <2>3. Has(s, u, "UPDATE") => Has(s, u, "UPDATE")' /\ Seen(s, u)' = Seen(s, u)
    BY <1>0, <1>3, <1>6
  <2> QED BY <1>4, <2>2, <2>3 DEF Pending, Left
<1>10. Joined(s)'
  <2> SUFFICES ASSUME NEW u \in User, NEW c \in Company, own[s][<<u, c>>] \in Role,
                      db'[<<u, c>>] = None
               PROVE  /\ job[s].op \in JoinOps /\ job[s].user = u /\ job[s].company = c
                      /\ Has(s, u, "KEY SHARE")' /\ Has(s, <<u, c>>, "UPDATE")' /\ Alive(db'[u])
                      /\ \/ job[s].pc = "setCurrent"
                         \/ /\ job[s].pc = "commit" /\ Seen(s, u)' = c
                            /\ \E m \in Exclusive : Has(s, u, m)'
    BY <1>0 DEF Joined
  <2>1. db[<<u, c>>] = None
    BY <1>0, <1>3, MarkersDistinct
  <2>2. /\ job[s].op \in JoinOps /\ job[s].user = u /\ job[s].company = c
        /\ Has(s, u, "KEY SHARE") /\ Has(s, <<u, c>>, "UPDATE") /\ Alive(db[u])
        /\ \/ job[s].pc = "setCurrent"
           \/ /\ job[s].pc = "commit" /\ Seen(s, u) = c
              /\ \E m \in Exclusive : Has(s, u, m)
    BY <1>4, <2>1 DEF Pending, Joined
  <2>3. (\E m \in Exclusive : Has(s, u, m)) => Seen(s, u)' = Seen(s, u)
    BY <1>0, <1>3, <1>6 DEF Exclusive
  <2> QED BY <1>0, <1>1, <2>2, <2>3
<1>11. Moved(s)'
  <2> SUFFICES ASSUME NEW u \in User, NEW c \in Company, own[s][u] = c
               PROVE  /\ Seen(s, <<u, c>>)' # None
                      /\ Has(s, <<u, c>>, "SHARE")' \/ Has(s, <<u, c>>, "UPDATE")' \/ Has(s, u, "UPDATE")'
    BY <1>0 DEF Moved
  <2>1. /\ Seen(s, <<u, c>>) # None
        /\ Has(s, <<u, c>>, "SHARE") \/ Has(s, <<u, c>>, "UPDATE") \/ Has(s, u, "UPDATE")
    BY <1>4 DEF Pending, Moved
  <2>2. Seen(s, <<u, c>>)' # None
    BY <1>0, <1>1, <1>3, <1>5, <2>1 DEF Seen
  <2> QED BY <1>0, <2>1, <2>2
<1>12. Homeless(s)'
  BY <1>0, <1>4, <1>7 DEF Pending, Homeless
<1>13. Deleted(s)'
  <2> SUFFICES ASSUME NEW u \in User, own[s][u] = Gone
               PROVE  /\ Has(s, u, "UPDATE")'
                      /\ \A c \in Company : Seen(s, <<u, c>>)' = None
                      /\ job[s].op # "deleteAccount" =>
                           \A c \in Company : db'[<<u, c>>] # None /\ db'[c] = "ACTIVE"
                                              => c = job[s].company
    BY <1>0 DEF Deleted
  <2>1. /\ Has(s, u, "UPDATE") /\ \A c \in Company : Seen(s, <<u, c>>) = None
        /\ job[s].op # "deleteAccount" =>
             \A c \in Company : db[<<u, c>>] # None /\ db[c] = "ACTIVE" => c = job[s].company
    BY <1>4 DEF Pending, Deleted
  <2>2. \A c \in Company : Seen(s, <<u, c>>)' = None
    BY <1>1, <1>5, <2>1 DEF Seen
  <2>3. \A c \in Company : db[<<u, c>>] # None => db[c] # None
    BY <1>4 DEF Consistent, IsMember
  <2> QED BY <1>0, <1>1, <1>2, <2>1, <2>2, <2>3
<1>14. UserWrites(s)'
  BY <1>0, <1>3, <1>4 DEF Pending, UserWrites
<1>15. Orphans(s)'
  <2>1. ASSUME job[s].pc = "deleteUser", job[s].op # "deleteAccount"
        PROVE  \/ Has(s, job[s].user, "UPDATE")' /\ Nowhere(s, job[s].user)'
               \/ Seen(s, job[s].user)' = Gone
    <3>1. job[s].user \in User
      BY <2>1 DEF BelongInv, IInv, Flow, JobSound
    <3>2. CASE Has(s, job[s].user, "UPDATE") /\ Nowhere(s, job[s].user)
      BY <1>0, <1>7, <3>1, <3>2
    <3>3. CASE Seen(s, job[s].user) = Gone
      BY <1>0, <1>2, <1>5, <3>1, <3>3 DEF Seen
    <3> QED BY <1>4, <2>1, <3>2, <3>3 DEF Pending, Orphans
  <2>2. \A u \in User : \/ u \in job[s].leavers
                        \/ job[s].op = "removeMember" /\ job[s].user = u
                        => db'[u] # None
    BY <1>2, <1>4 DEF Pending, Orphans
  <2> QED BY <1>0, <2>1, <2>2 DEF Orphans, Nowhere
<1>16. Pointing(s)'
  <2> SUFFICES ASSUME job[s].pc = "setCurrent"
               PROVE  LET m == <<job[s].user, job[s].company>>
                      IN  IF job[s].op = "switchCurrentCompany"
                          THEN Has(s, m, "SHARE")' /\ db'[m] # None /\ own[s][m] = Unwritten
                          ELSE own[s][m] \in Role /\ db'[m] = None
    BY <1>0 DEF Pointing
  <2>1. <<job[s].user, job[s].company>> \in Row
    BY <1>3 DEF BelongInv, IInv, Flow, JobSound, InFlow
  <2> QED BY <1>0, <1>4, <2>1, MarkersDistinct DEF Pending, Pointing
<1>17. Named(s)'
  <2>1. ASSUME NEW u \in User, NEW c \in Company, own[s][<<u, c>>] \in Role
        PROVE  Seen(s, c)' # None
    BY <1>2, <1>4, <1>5, <2>1 DEF Pending, Named, Seen
  <2>2. ASSUME NEW i \in Invitation, own[s][i] \in InvitationRecord
        PROVE  db'[own[s][i].company] # None
    BY <1>2, <1>4, <2>2 DEF Pending, Named, InvitationRecord
  <2>3. job[s].op \in {"createInvitation", "acceptInvitation"} => job[s].company \in Company
    BY DEF BelongInv, IInv, Flow, JobSound
  <2> QED BY <1>0, <1>2, <1>4, <2>1, <2>2, <2>3 DEF Pending, Named
<1>18. Alone(s)'
  <2>1. ASSUME job[s].op = "createSignupCompany", job[s].pc \notin {"advisory", "countActive"},
               NEW c \in Company, db'[<<job[s].user, c>>] # None, db'[c] = "ACTIVE"
        PROVE  FALSE
    <3> DEFINE u == job[s].user
    <3>1. u \in User /\ u \in Row /\ Has(s, u, "ADVISORY")
      BY <1>3, <1>4, <2>1 DEF Pending, Alone, BelongInv, IInv, Flow, JobSound
    <3>2. db[<<u, c>>] # None => db[c] # None /\ db[c] # "ACTIVE"
      BY <1>4, <2>1, <3>1 DEF Pending, Alone, Consistent, IsMember
    <3>3. db[<<u, c>>] = None
      BY <1>2, <2>1, <3>2
    <3>4. own[t][<<u, c>>] \in Role
      <4>1. <<u, c>> \in Row /\ own[t][<<u, c>>] \in Role \cup {None, Unwritten}
        BY <3>1, RowTypes DEF Membership, MembershipValue, BelongInv, IInv, TypeOK, WritesTyped
      <4>2. db'[<<u, c>>] = IF own[t][<<u, c>>] = Unwritten THEN db[<<u, c>>] ELSE own[t][<<u, c>>]
        BY <4>1, CommitEffect DEF BelongInv
      <4> QED BY <2>1, <3>3, <4>1, <4>2
    <3>5. Pending(t) /\ job[t].pc = "commit" /\ JobSound(job[t])
      BY DEF BelongInv, Commit, At, IInv, Flow
    <3>6. job[t].user = u /\ job[t].op \in JoinOps
      BY <3>1, <3>3, <3>4, <3>5 DEF Pending, Joined
    <3>7. Has(t, u, "ADVISORY")
      BY <3>5, <3>6 DEF Pending, Alone
    <3>8. "ADVISORY" \in Mode /\ "ADVISORY" \in ConflictsWith("ADVISORY")
      BY DEF Mode, ConflictsWith
    <3> QED BY <3>1, <3>7, <3>8 DEF BelongInv, Compatible
  <2> QED BY <1>0, <1>4, <2>1 DEF Pending, Alone
<1>19. Backed(s)'
  <2>1. job[s].op = "acceptInvitation" => <<job[s].actor, job[s].company>> \in Row
    BY <1>3 DEF BelongInv, IInv, Flow, JobSound
  <2> QED BY <1>0, <1>4, <2>1 DEF Pending, Backed
<1> QED BY <1>8, <1>9, <1>10, <1>11, <1>12, <1>13, <1>14, <1>15, <1>16, <1>17, <1>18, <1>19 DEF Pending

\* What t commits keeps the foreign keys and the current companies.
LEMMA CommitConsistent ==
    ASSUME BelongInv, NEW t \in Slot, Commit(t)
    PROVE  Consistent(db)'
<1>0. \A r \in Row : db'[r] = IF own[t][r] = Unwritten THEN db[r] ELSE own[t][r]
  BY CommitEffect DEF BelongInv
<1>1. Pending(t) /\ job[t].pc = "commit" /\ Consistent(db)
  BY DEF BelongInv, Commit, At
<1>2. /\ \A u \in User : u \in Row /\ own[t][u] \in UserValue \cup {Unwritten} /\ db[u] \in UserValue
      /\ \A i \in Invitation : i \in Row /\ own[t][i] \in InvitationValue \cup {Unwritten}
                               /\ db[i] \in InvitationValue
      /\ \A c \in Company : c \in Row
      /\ \A u \in User, c \in Company : /\ <<u, c>> \in Row
                                        /\ own[t][<<u, c>>] \in Role \cup {None, Unwritten}
  BY RowTypes DEF Membership, MembershipValue, BelongInv, IInv, TypeOK, WritesTyped, RowsTyped
<1>3. /\ \A c \in Company : db[c] # None => db'[c] # None
      /\ \A u \in User : own[t][u] \notin {None, NoCompany}
  BY <1>1, CommitForward, MarkersDistinct DEF Pending, UserWrites, Homeless
<1>4. ASSUME NEW u \in User, NEW c \in Company, IsMember(db', u, c)
      PROVE  Live(db', u) /\ db'[c] # None
  <2>1. own[t][u] # Gone
    BY <1>0, <1>1, <1>2, <1>4 DEF Pending, Deleted, IsMember, Seen
  <2>2. CASE db[<<u, c>>] = None
    <3>1. own[t][<<u, c>>] \in Role
      BY <1>0, <1>2, <1>4, <2>2 DEF IsMember
    <3>2. Alive(db[u])
      BY <1>1, <2>2, <3>1 DEF Pending, Joined
    <3>3. Seen(t, c) # None
      BY <1>1, <3>1 DEF Pending, Named
    <3> QED BY <1>0, <1>2, <1>3, <2>1, <3>2, <3>3 DEF Alive, Live, Seen
  <2>3. CASE db[<<u, c>>] # None
    <3>1. Live(db, u) /\ db[c] # None
      BY <1>1, <2>3 DEF Consistent, IsMember
    <3> QED BY <1>0, <1>2, <1>3, <2>1, <3>1 DEF Live
  <2> QED BY <2>2, <2>3
<1>5. ASSUME NEW i \in Invitation, IsRow(db', i)
      PROVE  db'[db'[i].company] # None
  <2>1. CASE own[t][i] = Unwritten
    <3>1. db'[i] = db[i] /\ IsRow(db, i)
      BY <1>0, <1>2, <1>5, <2>1 DEF IsRow
    <3>2. db[i] \in InvitationRecord
      BY <1>2, <3>1 DEF IsRow, InvitationValue
    <3>3. db[db[i].company] # None /\ db[i].company \in Company
      BY <1>1, <3>1, <3>2 DEF Consistent, InvitationRecord
    <3> QED BY <1>3, <3>1, <3>3
  <2>2. CASE own[t][i] # Unwritten
    <3>1. db'[i] = own[t][i] /\ own[t][i] \in InvitationRecord
      BY <1>0, <1>2, <1>5, <2>2 DEF IsRow, InvitationValue
    <3>2. db[own[t][i].company] # None /\ own[t][i].company \in Company
      BY <1>1, <3>1 DEF Pending, Named, InvitationRecord
    <3> QED BY <1>3, <3>1, <3>2
  <2> QED BY <2>1, <2>2
<1>6. ASSUME NEW u \in User, Live(db', u), db'[u] = NoCompany, NEW c \in Company
      PROVE  ~IsMember(db', u, c)
  <2>1. own[t][u] = Unwritten /\ db[u] = NoCompany
    BY <1>0, <1>2, <1>3, <1>6
  <2>2. db[<<u, c>>] = None
    BY <1>1, <2>1, MarkersDistinct DEF Consistent, Live, IsMember
  <2>3. own[t][<<u, c>>] \notin Role
    BY <1>1, <2>1, <2>2, MarkersDistinct DEF Pending, Joined, Seen
  <2> QED BY <1>0, <1>2, <2>2, <2>3 DEF IsMember
<1>7. ASSUME NEW u \in User, Live(db', u), db'[u] # NoCompany
      PROVE  IsMember(db', u, db'[u])
  <2>1. db'[u] \in Company
    BY <1>0, <1>2, <1>7 DEF Live, UserValue
  <2>2. CASE own[t][u] # Unwritten
    BY <1>0, <1>1, <1>2, <2>1, <2>2 DEF Pending, Moved, IsMember, Seen
  <2>3. CASE own[t][u] = Unwritten
    <3>1. db'[u] = db[u] /\ db[<<u, db[u]>>] # None
      BY <1>0, <1>1, <1>2, <1>7, <2>3 DEF Consistent, Live, IsMember
    <3>2. own[t][<<u, db[u]>>] # None
      BY <1>1, <2>1, <2>3, <3>1 DEF Pending, Left, Leaving, Seen
    <3> QED BY <1>0, <1>2, <2>1, <3>1, <3>2 DEF IsMember
  <2> QED BY <2>2, <2>3
<1> QED BY <1>4, <1>5, <1>6, <1>7 DEF Consistent

LEMMA CommitBelongs ==
    ASSUME BelongInv, NEW t \in Slot, Commit(t)
    PROVE  Compatible' /\ Consistent(db)' /\ \A s \in Slot : Pending(s)'
<1>1. /\ job'[t] = NoJob /\ \A r \in Row : own'[t][r] = Unwritten
      /\ held' \subseteq held
  BY CommitEffect DEF BelongInv, LocksOf
<1>2. Pending(t)'
  BY <1>1, NothingPending
<1>3. \A s \in Slot : s # t => Pending(s)'
  BY CommitKept
<1> QED BY <1>1, <1>2, <1>3, CommitConsistent, CompatibleLess DEF BelongInv

-----------------------------------------------------------------------------
(* Rollbacks, grants and the world outside.                                *)

LEMMA RollbackBelongs ==
    ASSUME BelongInv, NEW t \in Slot, Rollback(t)
    PROVE  Compatible' /\ Consistent(db)' /\ \A s \in Slot : Pending(s)'
<1>1. /\ job' = [job EXCEPT ![t] = NoJob] /\ db' = db /\ held' = held \ LocksOf(t)
      /\ own' = [own EXCEPT ![t] = Clean]
  BY DEF Rollback, Discard
<1>2. /\ job'[t] = NoJob /\ \A r \in Row : own'[t][r] = Unwritten
      /\ \A s \in Slot : s # t => own'[s] = own[s] /\ job'[s] = job[s]
  BY <1>1 DEF BelongInv, IInv, TypeOK, RowsTyped, Clean
<1>3. Pending(t)'
  BY <1>2, NothingPending
<1>4. ASSUME NEW s \in Slot, s # t PROVE Pending(s)'
  <2>1. \A r, m : Has(s, r, m) => Has(s, r, m)'
    BY <1>1, <1>4 DEF Has, LocksOf
  <2> QED BY <1>1, <1>2, <1>4, <2>1, OthersKept DEF BelongInv
<1>5. Consistent(db)'
  BY <1>1 DEF BelongInv, Consistent, IsMember, Live, IsRow
<1> QED BY <1>1, <1>3, <1>4, <1>5, CompatibleLess DEF BelongInv

\* The request j has nothing behind it, and names what exists.
StartsClean(j) ==
    /\ j.pc \notin {"deleteUser", "setCurrent", "countActive", "insertMembership", "commit"}
    /\ \A u \in User : u \in j.leavers \/ (j.op = "removeMember" /\ j.user = u) => db[u] # None
    /\ j.op \in {"createInvitation", "acceptInvitation"} => db[j.company] # None
    /\ j.op = "createSignupCompany" => j.pc = "advisory"
    /\ j.op = "addCompany" => j.pc = "insertCompany"
    /\ j.op = "acceptInvitation" => j.pc = "markAccepted"

\* A request begins with nothing owed.
LEMMA GrantBelongs ==
    ASSUME BelongInv, NEW t \in Slot, NEW j, Grant(t, j), StartsClean(j)
    PROVE  Compatible' /\ Consistent(db)' /\ \A s \in Slot : Pending(s)'
<1>1. /\ UNCHANGED <<db, own, held>> /\ job[t] = NoJob /\ job'[t] = j
      /\ \A s \in Slot : s # t => job'[s] = job[s]
  BY DEF Grant, BelongInv, IInv, TypeOK
<1>2. Pending(t)
  BY DEF BelongInv
<1>3. /\ \A u \in User : own'[t][u] = Unwritten
      /\ \A m \in Membership : own'[t][m] = Unwritten
      /\ \A u \in User, c \in Company : own'[t][<<u, c>>] = Unwritten
      /\ \A c \in Company : own'[t][c] = Unwritten
  <2>1. job[t].pc = "idle" /\ job[t].company \notin Company
    BY <1>1, MarkersDistinct DEF NoJob
  <2>2. /\ \A u \in User : own[t][u] = Unwritten
        /\ \A m \in Membership : own[t][m] = Unwritten
    BY <1>2, <2>1 DEF Pending, Untouched, MemberPhase, UserPhase
  <2>3. \A c \in Company : own[t][c] = Unwritten
    BY <1>2, <2>1 DEF Pending, Named
  <2> QED BY <1>1, <2>2, <2>3 DEF Membership
<1>4. Orphans(t)' /\ Pointing(t)' /\ Alone(t)' /\ Backed(t)'
  BY <1>1 DEF Orphans, Pointing, Alone, Backed, StartsClean
<1>5. Named(t)'
  BY <1>1, <1>2, <1>3, MarkersDistinct DEF Pending, Named, StartsClean
<1>6. Pending(t)'
  BY <1>3, <1>4, <1>5, NothingOwed DEF Pending
<1>7. ASSUME NEW s \in Slot, s # t PROVE Pending(s)'
  <2>1. \A r, m : Has(s, r, m) => Has(s, r, m)'
    BY <1>1 DEF Has
  <2> QED BY <1>1, <1>7, <2>1, OthersKept DEF BelongInv
<1>8. Consistent(db)'
  BY <1>1 DEF BelongInv, Consistent, IsMember, Live, IsRow
<1> QED BY <1>1, <1>6, <1>7, <1>8, CompatibleLess DEF BelongInv

\* Every guard grants such a request.
LEMMA GuardClean ==
    ASSUME BelongInv, NEW t \in Slot, Guard(t)
    PROVE  \E j : Grant(t, j) /\ StartsClean(j)
<1>0. Consistent(db)
  BY DEF BelongInv
<1>1. CASE RequireRoleChange(t)
  <2>1. PICK a, u \in User, c \in Company, r \in Role :
           /\ Grant(t, [NoJob EXCEPT !.op = "changeRole", !.pc = "snapshotOwners", !.user = u, !.company = c, !.role = r])
    BY <1>1 DEF RequireRoleChange
  <2>2. StartsClean([NoJob EXCEPT !.op = "changeRole", !.pc = "snapshotOwners", !.user = u, !.company = c, !.role = r])
    BY DEF StartsClean, NoJob
  <2> QED BY <2>1, <2>2
<1>2. CASE RequireRemoval(t)
  <2>1. PICK a, u \in User, c \in Company :
           /\ IsMember(db, u, c)
           /\ Grant(t, [NoJob EXCEPT !.op = "removeMember", !.pc = "snapshotOwners", !.user = u, !.company = c])
    BY <1>2 DEF RequireRemoval
  <2>2. db[u] # None
    BY <1>0, <2>1 DEF Consistent, Live
  <2>3. StartsClean([NoJob EXCEPT !.op = "removeMember", !.pc = "snapshotOwners", !.user = u, !.company = c])
    BY <2>2 DEF StartsClean, NoJob
  <2> QED BY <2>1, <2>3
<1>3. CASE RequireTransferOwnership(t)
  <2>1. PICK a, u \in User, c \in Company :
           /\ Grant(t, [NoJob EXCEPT !.op = "transferOwnership", !.pc = "snapshotOwners", !.actor = a, !.user = u, !.company = c])
    BY <1>3 DEF RequireTransferOwnership
  <2>2. StartsClean([NoJob EXCEPT !.op = "transferOwnership", !.pc = "snapshotOwners", !.actor = a, !.user = u, !.company = c])
    BY DEF StartsClean, NoJob
  <2> QED BY <2>1, <2>2
<1>4. CASE RequireCompanyDelete(t)
  <2>1. PICK a \in User, c \in Company :
           /\ Grant(t, [NoJob EXCEPT !.op = "deleteCompany", !.pc = "snapshotOwners", !.actor = a, !.company = c])
    BY <1>4 DEF RequireCompanyDelete
  <2>2. StartsClean([NoJob EXCEPT !.op = "deleteCompany", !.pc = "snapshotOwners", !.actor = a, !.company = c])
    BY DEF StartsClean, NoJob
  <2> QED BY <2>1, <2>2
<1>5. CASE RequireCompanyUpdate(t)
  <2>1. PICK a \in User, c \in Company :
           /\ Grant(t, [NoJob EXCEPT !.op = "updateCompanyInfo", !.pc = "findCompany", !.company = c])
    BY <1>5 DEF RequireCompanyUpdate
  <2>2. StartsClean([NoJob EXCEPT !.op = "updateCompanyInfo", !.pc = "findCompany", !.company = c])
    BY DEF StartsClean, NoJob
  <2> QED BY <2>1, <2>2
<1>6. CASE RequireActorToCreate(t)
  <2>1. PICK a \in User, c \in Company :
           \/ Grant(t, [NoJob EXCEPT !.op = "createSignupCompany", !.pc = "advisory", !.user = a, !.company = c, !.role = "OWNER"])
           \/ Grant(t, [NoJob EXCEPT !.op = "addCompany", !.pc = "insertCompany", !.user = a, !.company = c, !.role = "OWNER"])
    BY <1>6 DEF RequireActorToCreate
  <2>2. /\ StartsClean([NoJob EXCEPT !.op = "createSignupCompany", !.pc = "advisory", !.user = a, !.company = c, !.role = "OWNER"])
        /\ StartsClean([NoJob EXCEPT !.op = "addCompany", !.pc = "insertCompany", !.user = a, !.company = c, !.role = "OWNER"])
    BY DEF StartsClean, NoJob
  <2> QED BY <2>1, <2>2
<1>7. CASE RequireActorToSwitch(t)
  <2>1. PICK a \in User, c \in Company :
           /\ Grant(t, [NoJob EXCEPT !.op = "switchCurrentCompany", !.pc = "lockMembership", !.user = a, !.company = c])
    BY <1>7 DEF RequireActorToSwitch
  <2>2. StartsClean([NoJob EXCEPT !.op = "switchCurrentCompany", !.pc = "lockMembership", !.user = a, !.company = c])
    BY DEF StartsClean, NoJob
  <2> QED BY <2>1, <2>2
<1>8. CASE RequireActorToDelete(t)
  <2>1. PICK a \in User :
           /\ Grant(t, [NoJob EXCEPT !.op = "deleteAccount", !.pc = "snapshotOwners", !.user = a])
    BY <1>8 DEF RequireActorToDelete
  <2>2. StartsClean([NoJob EXCEPT !.op = "deleteAccount", !.pc = "snapshotOwners", !.user = a])
    BY DEF StartsClean, NoJob
  <2> QED BY <2>1, <2>2
<1>9. CASE RequireInvite(t)
  <2>1. PICK a, e \in User, c \in Company, r \in Role, i \in Invitation :
           /\ IsMember(db, a, c)
           /\ Grant(t, [NoJob EXCEPT !.op = "createInvitation", !.pc = "insertInvitation", !.actor = a, !.user = e, !.company = c,
                                     !.role = r, !.invitation = i])
    BY <1>9 DEF RequireInvite, requireMembershipOf
  <2>2. db[c] # None
    BY <1>0, <2>1 DEF Consistent
  <2>3. StartsClean([NoJob EXCEPT !.op = "createInvitation", !.pc = "insertInvitation", !.actor = a, !.user = e, !.company = c,
                                     !.role = r, !.invitation = i])
    BY <2>2 DEF StartsClean, NoJob
  <2> QED BY <2>1, <2>3
<1>10. CASE RequireRevoke(t)
  <2>1. PICK a \in User, c \in Company, i \in Invitation :
           /\ Grant(t, [NoJob EXCEPT !.op = "revokeInvitation", !.pc = "markRevoked", !.company = c, !.invitation = i])
    BY <1>10 DEF RequireRevoke
  <2>2. StartsClean([NoJob EXCEPT !.op = "revokeInvitation", !.pc = "markRevoked", !.company = c, !.invitation = i])
    BY DEF StartsClean, NoJob
  <2> QED BY <2>1, <2>2
<1>11. CASE RequireInvitationAccept(t)
  <2>1. PICK a \in User, i \in Invitation :
           /\ IsRow(db, i)
           /\ Grant(t, [NoJob EXCEPT !.op = "acceptInvitation", !.pc = "markAccepted", !.actor = db[i].invitedBy, !.user = a,
                                     !.company = db[i].company, !.role = db[i].role, !.invitation = i])
    BY <1>11 DEF RequireInvitationAccept
  <2>2. db[db[i].company] # None
    BY <1>0, <2>1 DEF Consistent
  <2>3. StartsClean([NoJob EXCEPT !.op = "acceptInvitation", !.pc = "markAccepted", !.actor = db[i].invitedBy, !.user = a,
                                     !.company = db[i].company, !.role = db[i].role, !.invitation = i])
    BY <2>2 DEF StartsClean, NoJob
  <2> QED BY <2>1, <2>3
<1>12. CASE FindAbandonedSignup(t)
  <2>1. PICK u \in User :
           /\ Live(db, u)
           /\ Grant(t, [NoJob EXCEPT !.op = "sweep", !.pc = "orphan", !.leavers = {u}])
    BY <1>12 DEF FindAbandonedSignup
  <2>2. db[u] # None
    BY <1>0, <2>1 DEF Live
  <2>3. StartsClean([NoJob EXCEPT !.op = "sweep", !.pc = "orphan", !.leavers = {u}])
    BY <2>2 DEF StartsClean, NoJob
  <2> QED BY <2>1, <2>3
<1> QED BY <1>1, <1>2, <1>3, <1>4, <1>5, <1>6, <1>7, <1>8, <1>9, <1>10, <1>11, <1>12 DEF Guard

\* A first sign-in adds an account that belongs nowhere.
LEMMA OutsideBelongs ==
    ASSUME BelongInv, (\E u \in User : SignUp(u)) \/ (\E i \in Invitation : Expire(i))
    PROVE  Compatible' /\ Consistent(db)' /\ \A s \in Slot : Pending(s)'
<1>1. ASSUME NEW i \in Invitation, Expire(i)
      PROVE  Compatible' /\ Consistent(db)' /\ \A s \in Slot : Pending(s)'
  <2>1. UNCHANGED <<db, own, held, job>>
    BY <1>1 DEF Expire
  <2>2. Consistent(db)'
    BY <2>1 DEF BelongInv, Consistent, IsMember, Live, IsRow
  <2> QED BY <2>1, <2>2, OthersKept, CompatibleLess DEF BelongInv, Has
<1>2. ASSUME NEW a \in User, SignUp(a)
      PROVE  Compatible' /\ Consistent(db)' /\ \A s \in Slot : Pending(s)'
  <2>1. /\ UNCHANGED <<own, held, job>> /\ db[a] = None /\ db'[a] = NoCompany
        /\ \A r \in Row : r # a => db'[r] = db[r]
    BY <1>2, RowTypes DEF SignUp, BelongInv, IInv, TypeOK, RowsTyped
  <2>2. Consistent(db)
    BY DEF BelongInv
  <2>3. /\ \A u \in User, c \in Company : db'[<<u, c>>] = db[<<u, c>>]
        /\ \A c \in Company : db'[c] = db[c]
        /\ \A i \in Invitation : db'[i] = db[i]
        /\ \A u \in User : u # a => db'[u] = db[u]
    <3>1. \A u \in User, c \in Company : <<u, c>> \in Row /\ <<u, c>> # a
      BY RowTypes, RowTables DEF Membership
    <3>2. \A c \in Company \cup Invitation : c \in Row /\ c # a
      BY RowTypes, RowTables
    <3> QED BY <2>1, <3>1, <3>2, RowTypes
  <2>4. NoCompany \notin {None, Gone} /\ NoCompany \notin Company /\ Gone # None
    BY MarkersDistinct
  <2>5. \A c \in Company : db[<<a, c>>] = None
    BY <2>1, <2>2 DEF Consistent, IsMember, Live
  <2>6. Consistent(db)'
    <3>1. \A i \in Invitation : IsRow(db, i) => db[i].company \in Company
      BY RowTypes DEF IsRow, BelongInv, IInv, TypeOK, RowsTyped, InvitationValue, InvitationRecord
    <3>2. \A u \in User, c \in Company :
             IsMember(db', u, c) => u # a /\ Live(db', u) /\ db'[c] # None
      BY <2>2, <2>3, <2>5 DEF Consistent, IsMember, Live
    <3>3. \A i \in Invitation : IsRow(db', i) => db'[db'[i].company] # None
      BY <2>2, <2>3, <3>1 DEF Consistent, IsRow
    <3>4. ASSUME NEW u \in User, Live(db', u)
          PROVE  IF db'[u] = NoCompany THEN \A c \in Company : ~IsMember(db', u, c)
                 ELSE IsMember(db', u, db'[u])
      <4>1. CASE u = a
        BY <2>1, <2>3, <2>5, <4>1 DEF IsMember
      <4>2. CASE u # a
        <5>1. db'[u] = db[u] /\ Live(db, u) /\ db[u] \in Company \cup {NoCompany}
          BY <2>3, <3>4, <4>2, RowTypes
             DEF Live, BelongInv, IInv, TypeOK, RowsTyped, UserValue
        <5> QED BY <2>2, <2>3, <5>1 DEF Consistent, IsMember
      <4> QED BY <4>1, <4>2
    <3> QED BY <3>2, <3>3, <3>4 DEF Consistent
  <2>7. ASSUME NEW s \in Slot PROVE Pending(s)'
    <3>1. Pending(s)
      BY DEF BelongInv
    <3>2. own[s][a] = Unwritten
      BY <2>1, <3>1 DEF Pending, UserWrites, Alive
    <3>3. \A r, m : Has(s, r, m)' <=> Has(s, r, m)
      BY <2>1 DEF Has
    <3>4. /\ \A u \in User, c \in Company : Seen(s, <<u, c>>)' = Seen(s, <<u, c>>)
          /\ \A c \in Company : Seen(s, c)' = Seen(s, c)
          /\ \A u \in User : u # a => Seen(s, u)' = Seen(s, u)
          /\ Seen(s, a) = None /\ Seen(s, a)' = NoCompany
      BY <2>1, <2>3, <3>2 DEF Seen
    <3>5. \A u \in User : Nowhere(s, u) <=> Nowhere(s, u)'
      BY <3>4 DEF Nowhere
    <3>6. \A u \in User, c \in Company : Leaving(s, u, c) => Leaving(s, u, c)'
      BY <2>1, <2>3 DEF Leaving
    <3>7. Untouched(s)' /\ Left(s)'
      BY <2>1, <2>4, <3>1, <3>3, <3>4, <3>6 DEF Pending, Untouched, Left
    <3>8. Joined(s)' /\ Moved(s)'
      <4>1. Moved(s)'
        BY <2>1, <3>1, <3>3, <3>4 DEF Pending, Moved
      <4>2. \A u \in User : Alive(db[u]) => Alive(db'[u]) /\ Seen(s, u)' = Seen(s, u)
        BY <2>1, <2>3, <3>4 DEF Alive
      <4>3. Joined(s)'
        <5> SUFFICES ASSUME NEW u \in User, NEW c \in Company, own[s][<<u, c>>] \in Role,
                            db'[<<u, c>>] = None
                     PROVE  /\ job[s].op \in JoinOps /\ job[s].user = u /\ job[s].company = c
                            /\ Has(s, u, "KEY SHARE")' /\ Has(s, <<u, c>>, "UPDATE")' /\ Alive(db'[u])
                            /\ \/ job[s].pc = "setCurrent"
                               \/ /\ job[s].pc = "commit" /\ Seen(s, u)' = c
                                  /\ \E m \in Exclusive : Has(s, u, m)'
          BY <2>1 DEF Joined
        <5>1. db[<<u, c>>] = None
          BY <2>3
        <5>2. /\ job[s].op \in JoinOps /\ job[s].user = u /\ job[s].company = c
              /\ Has(s, u, "KEY SHARE") /\ Has(s, <<u, c>>, "UPDATE") /\ Alive(db[u])
              /\ \/ job[s].pc = "setCurrent"
                 \/ /\ job[s].pc = "commit" /\ Seen(s, u) = c
                    /\ \E m \in Exclusive : Has(s, u, m)
          BY <3>1, <5>1 DEF Pending, Joined
        <5> QED BY <3>3, <4>2, <5>2
      <4> QED BY <4>1, <4>3
    <3>9. Homeless(s)' /\ Deleted(s)' /\ UserWrites(s)'
      BY <2>1, <2>3, <2>4, <3>1, <3>3, <3>4, <3>5 DEF Pending, Homeless, Deleted, UserWrites, Alive
    <3>10. Orphans(s)'
      <4>1. job[s].pc = "deleteUser" => job[s].user \in User
        BY DEF BelongInv, IInv, Flow, JobSound
      <4>2. \A u \in User : db[u] # None => db'[u] # None
        BY <2>1, <2>3
      <4>3. job'[s] = job[s]
        BY <2>1
      <4>4. job[s].pc = "deleteUser" /\ Seen(s, job[s].user) = Gone => Seen(s, job[s].user)' = Gone
        BY <2>4, <3>4, <4>1, <4>3
      <4>5. job[s].pc = "deleteUser" /\ Nowhere(s, job[s].user) => Nowhere(s, job[s].user)'
        BY <3>5, <4>1, <4>3
      <4> QED BY <3>1, <3>3, <4>2, <4>3, <4>4, <4>5 DEF Pending, Orphans
    <3>11. Pointing(s)' /\ Backed(s)'
      <4>1. /\ job[s].pc = "setCurrent" => job[s].user \in User /\ job[s].company \in Company
            /\ job[s].op = "acceptInvitation" => job[s].actor \in User /\ job[s].company \in Company
        BY DEF BelongInv, IInv, Flow, JobSound, InFlow
      <4> QED BY <2>1, <2>3, <3>1, <3>3, <4>1 DEF Pending, Pointing, Backed
    <3>12. Named(s)'
      <4>1. /\ job[s].op \in {"createInvitation", "acceptInvitation"} => job[s].company \in Company
            /\ \A i \in Invitation : own[s][i] \in InvitationRecord => own[s][i].company \in Company
        BY DEF BelongInv, IInv, Flow, JobSound, InvitationRecord
      <4> QED BY <2>1, <2>3, <3>1, <3>4, <4>1 DEF Pending, Named
    <3>13. Alone(s)'
      <4>1. job[s].op = "createSignupCompany" => job[s].user \in User
        BY DEF BelongInv, IInv, Flow, JobSound
      <4> QED BY <2>1, <2>3, <3>1, <3>3, <4>1 DEF Pending, Alone
    <3> QED BY <3>7, <3>8, <3>9, <3>10, <3>11, <3>12, <3>13 DEF Pending
  <2> QED BY <2>1, <2>6, <2>7, CompatibleLess DEF BelongInv
<1> QED BY <1>1, <1>2

-----------------------------------------------------------------------------
(* Statements.                                                             *)

\* The ways a request takes a step and owes only what Pending says.
Owes(t) ==
    \/ Commit(t)
    \/ Rollback(t)
    \/ \E need, w, j : Statement(t, need, w, j) /\ Pending(t)'

LEMMA OwesBelongs ==
    ASSUME BelongInv, NEW t \in Slot, Owes(t)
    PROVE  Compatible' /\ Consistent(db)' /\ \A s \in Slot : Pending(s)'
<1>1. CASE Commit(t)
  BY <1>1, CommitBelongs
<1>2. CASE Rollback(t)
  BY <1>2, RollbackBelongs
<1>3. ASSUME NEW need, NEW w, NEW j, Statement(t, need, w, j), Pending(t)'
      PROVE  Compatible' /\ Consistent(db)' /\ \A s \in Slot : Pending(s)'
  <2>1. Compatible'
    BY <1>3, CompatibleStatement DEF BelongInv
  <2>2. /\ db' = db /\ \A s \in Slot : s # t => own'[s] = own[s] /\ job'[s] = job[s]
        /\ \A s, r, m : Has(s, r, m) => Has(s, r, m)'
    BY <1>3, StatementEffect DEF BelongInv
  <2>3. Consistent(db)'
    BY <2>2 DEF BelongInv, Consistent, IsMember, Live, IsRow
  <2>4. ASSUME NEW s \in Slot, s # t PROVE Pending(s)'
    BY <2>2, <2>4, OthersKept DEF BelongInv
  <2> QED BY <1>3, <2>1, <2>3, <2>4
<1> QED BY <1>1, <1>2, <1>3 DEF Owes

\* Seen is the view of the transaction, row by row.
LEMMA ViewSeen ==
    ASSUME IInv, NEW t \in Slot
    PROVE  \A r \in Row : View(t)[r] = Seen(t, r)
BY ViewTyped DEF IInv, Seen

\* Job j is the request of t with other places in it: only the statement, the
\* snapshot of the owners and, for an orphan, the user and the leavers differ.
SameRequest(t, j) ==
    /\ j.op = job[t].op /\ j.actor = job[t].actor /\ j.user = job[t].user
    /\ j.company = job[t].company /\ j.role = job[t].role
    /\ j.leavers = job[t].leavers

\* t writes no user and no membership, and what it writes names what exists.
EarlyWrites(t, w) ==
    /\ \A u \in User : w[u] = own[t][u]
    /\ \A m \in Membership : w[m] = own[t][m]
    /\ \A c \in Company : w[c] # own[t][c] => w[c] = "ACTIVE" /\ c = job[t].company
    /\ \A i \in Invitation : w[i] # own[t][i] /\ w[i] \in InvitationRecord
                             => db[w[i].company] # None

\* The statement before a membership or a user is written owes what it takes:
\* the advisory lock, the membership held FOR SHARE, the new company.
EarlyTakes(t, need, w, j) ==
    /\ j.pc = "deleteUser" => j.op = "deleteAccount"
    /\ j.pc = "setCurrent" =>
         /\ j.op = "switchCurrentCompany" /\ db[<<j.user, j.company>>] # None
         /\ <<<<j.user, j.company>>, "SHARE">> \in need
    /\ \/ j.op = "createSignupCompany"
            /\ j.pc \in {"insertMembership", "setCurrent", "commit"}
       \/ j.op = "addCompany" /\ j.pc # "insertCompany"
       => w[j.company] = "ACTIVE"
    /\ \/ j.pc \in {"countActive", "insertMembership"}
       \/ j.pc \in {"setCurrent", "commit"} /\ j.op \in JoinOps
       \/ j.op = "createSignupCompany" /\ j.pc # "advisory"
       => Has(t, j.user, "ADVISORY") \/ <<j.user, "ADVISORY">> \in need
    /\ j.op = "createSignupCompany" /\ j.pc \notin {"advisory", "countActive"} =>
         \A c \in Company : db[<<j.user, c>>] # None => db[c] # "ACTIVE"
    /\ j.op = "acceptInvitation" /\ j.role = "OWNER"
       /\ j.pc \notin {"markAccepted", "verifyInviter"} =>
         LET m == <<j.actor, j.company>>
         IN  db[m] = "OWNER" /\ (Has(t, m, "SHARE") \/ <<m, "SHARE">> \in need)

LEMMA EarlyStatement ==
    ASSUME BelongInv, NEW t \in Slot, NEW need, NEW w, NEW j, Statement(t, need, w, j),
           job[t].pc \notin MemberPhase, SameRequest(t, j), EarlyWrites(t, w),
           EarlyTakes(t, need, w, j)
    PROVE  Owes(t)
<1>0. /\ db' = db /\ own'[t] = w /\ job'[t] = j
      /\ \A r, m : Has(t, r, m) => Has(t, r, m)'
      /\ \A r, m : <<r, m>> \in need => Has(t, r, m)'
  BY StatementEffect DEF BelongInv
<1>1. Pending(t)
  BY DEF BelongInv
<1>2. /\ \A u \in User : own'[t][u] = Unwritten
      /\ \A m \in Membership : own'[t][m] = Unwritten
      /\ \A u \in User, c \in Company : own'[t][<<u, c>>] = Unwritten
  BY <1>0, <1>1 DEF Pending, Untouched, MemberPhase, EarlyWrites, Membership
<1>3. Orphans(t)'
  BY <1>0, <1>1 DEF Pending, Orphans, SameRequest, EarlyTakes
<1>4. Pointing(t)'
  <2>1. j.pc = "setCurrent" => j.user \in User /\ j.company \in Company
    <3>1. JobSound(job[t])
      BY DEF BelongInv, IInv, Flow
    <3> QED BY <3>1 DEF JobSound, EarlyTakes, SameRequest
  <2> QED BY <1>0, <1>2, <2>1 DEF Pointing, EarlyTakes
<1>5. Named(t)'
  <2>1. j.op \in {"createInvitation", "acceptInvitation"} => db[j.company] # None
    BY <1>1 DEF Pending, Named, SameRequest
  <2>2. \A c \in Company : w[c] # Unwritten => w[c] # None /\ c = j.company
    BY <1>1, MarkersDistinct DEF Pending, Named, SameRequest, EarlyWrites
  <2>3. \A i \in Invitation : w[i] \in InvitationRecord => db[w[i].company] # None
    BY <1>1 DEF Pending, Named, EarlyWrites
  <2>4. \A u \in User, c \in Company : own'[t][<<u, c>>] \notin Role
    BY <1>2, MarkersDistinct
  <2> QED BY <1>0, <2>1, <2>2, <2>3, <2>4 DEF Named, EarlyTakes
<1>6. Alone(t)'
  BY <1>0 DEF Alone, EarlyTakes
<1>7. Backed(t)'
  BY <1>0 DEF Backed, EarlyTakes
<1> QED BY <1>2, <1>3, <1>4, <1>5, <1>6, <1>7, NothingOwed DEF Pending, Owes

\* What holds of the request of t wherever it is.
LEMMA RequestFacts ==
    ASSUME BelongInv, NEW t \in Slot
    PROVE  /\ job[t] \in Job /\ JobSound(job[t]) /\ WritesTyped(own[t])
           /\ Pending(t) /\ Consistent(db) /\ EarlyWrites(t, own[t])
           /\ \A pc : GoTo(t, pc).pc = pc /\ SameRequest(t, GoTo(t, pc))
           /\ \A r \in Row : View(t)[r] = Seen(t, r)
<1>1. job[t] \in Job /\ JobSound(job[t]) /\ WritesTyped(own[t])
  BY JobFacts DEF BelongInv
<1>2. \A pc : GoTo(t, pc).pc = pc /\ SameRequest(t, GoTo(t, pc))
  BY <1>1 DEF GoTo, SameRequest, Job
<1> QED BY <1>1, <1>2, ViewSeen DEF BelongInv, EarlyWrites

\* Locking the owners, and the reads before anything is written.
LEMMA EarlyOwners ==
    ASSUME BelongInv, NEW t \in Slot,
           \/ SnapshotOwners(t) \/ LockOwners(t) \/ CheckBlocking(t) \/ Recheck(t)
           \/ FindCompany(t)
    PROVE  Owes(t)
<1>0. /\ job[t] \in Job /\ JobSound(job[t]) /\ EarlyWrites(t, own[t])
      /\ \A pc : GoTo(t, pc).pc = pc /\ SameRequest(t, GoTo(t, pc))
  BY RequestFacts
<1>1. CASE SnapshotOwners(t)
  <2> DEFINE rows == UNION {ownerMembershipsOf(View(t), c) : c \in ownerLockScope(t)}
             j == [job[t] EXCEPT !.pc = "lockOwners", !.owners = rows]
  <2>1. Statement(t, {}, own[t], j) /\ job[t].pc = "snapshotOwners"
    BY <1>1 DEF SnapshotOwners, At
  <2> HIDE DEF rows
  <2>2. SameRequest(t, j) /\ j.pc = "lockOwners"
    BY <1>0 DEF SameRequest, Job
  <2>3. EarlyTakes(t, {}, own[t], j)
    BY <1>0, <2>1, <2>2 DEF EarlyTakes, SameRequest, JobSound, InFlow
  <2> HIDE DEF j
  <2> QED BY <1>0, <2>1, <2>2, <2>3, EarlyStatement DEF MemberPhase, UserPhase
<1>2. CASE LockOwners(t)
  <2> DEFINE need == {<<m, "UPDATE">> : m \in {x \in job[t].owners : View(t)[x] # None}}
             j == [job[t] EXCEPT !.pc = afterOwnerLock(job[t].op), !.owners = {}]
  <2>1. Statement(t, need, own[t], j) /\ job[t].pc = "lockOwners"
    BY <1>2 DEF LockOwners, At
  <2>2. SameRequest(t, j) /\ j.pc = afterOwnerLock(job[t].op)
    BY <1>0 DEF SameRequest, Job
  <2> HIDE DEF j, need
  <2>3. /\ j.pc \in {"setRole", "promote", "deleteMembership", "recheck", "advisory"}
        /\ j.op \notin JoinOps
    BY <1>0, <2>1, <2>2 DEF afterOwnerLock, SameRequest, JobSound, InFlow, JoinOps
  <2>4. EarlyTakes(t, need, own[t], j)
    BY <2>3 DEF EarlyTakes, JoinOps
  <2> QED BY <1>0, <2>1, <2>2, <2>4, EarlyStatement DEF MemberPhase, UserPhase
<1>3. CASE CheckBlocking(t)
  <2>1. /\ Statement(t, {}, own[t], GoTo(t, "deleteUser")) \/ Rollback(t)
        /\ job[t].pc = "blocking"
    BY <1>3 DEF CheckBlocking, At
  <2>2. EarlyTakes(t, {}, own[t], GoTo(t, "deleteUser"))
    BY <1>0, <2>1 DEF EarlyTakes, SameRequest, JobSound, InFlow
  <2> QED BY <1>0, <2>1, <2>2, EarlyStatement DEF Owes, MemberPhase, UserPhase
<1>4. CASE Recheck(t)
  <2>1. /\ \/ Statement(t, {}, own[t], GoTo(t, "revokePending"))
           \/ Statement(t, {}, own[t], GoTo(t, "commit"))
           \/ Rollback(t)
        /\ job[t].pc = "recheck"
    BY <1>4 DEF Recheck, At
  <2>2. job[t].op = "deleteCompany"
    BY <1>0, <2>1 DEF JobSound, InFlow
  <2>3. /\ EarlyTakes(t, {}, own[t], GoTo(t, "revokePending"))
        /\ EarlyTakes(t, {}, own[t], GoTo(t, "commit"))
    BY <1>0, <2>2 DEF EarlyTakes, SameRequest, JoinOps
  <2> QED BY <1>0, <2>1, <2>3, EarlyStatement DEF Owes, MemberPhase, UserPhase
<1>5. CASE FindCompany(t)
  <2>1. /\ Statement(t, {}, own[t], GoTo(t, "updateCompany")) \/ Rollback(t)
        /\ job[t].pc = "findCompany"
    BY <1>5 DEF FindCompany, At
  <2>2. EarlyTakes(t, {}, own[t], GoTo(t, "updateCompany"))
    BY <1>0, <2>1 DEF EarlyTakes, SameRequest, JobSound, InFlow
  <2> QED BY <1>0, <2>1, <2>2, EarlyStatement DEF Owes, MemberPhase, UserPhase
<1> QED BY <1>1, <1>2, <1>3, <1>4, <1>5

\* Joining, up to the membership.
LEMMA EarlyJoining ==
    ASSUME BelongInv, NEW t \in Slot,
           \/ LockMembershipChanges(t) \/ CountActive(t) \/ InsertCompany(t)
           \/ LockMembershipForShare(t) \/ VerifyInviter(t)
    PROVE  Owes(t)
<1>0. /\ job[t] \in Job /\ JobSound(job[t]) /\ EarlyWrites(t, own[t]) /\ WritesTyped(own[t])
      /\ \A pc : GoTo(t, pc).pc = pc /\ SameRequest(t, GoTo(t, pc))
      /\ Pending(t) /\ \A r \in Row : View(t)[r] = Seen(t, r)
  BY RequestFacts
<1>1. CASE LockMembershipChanges(t)
  <2> DEFINE need == {<<job[t].user, "ADVISORY">>}
             next == CASE job[t].op = "createSignupCompany" -> "countActive"
                       [] job[t].op = "deleteAccount"       -> "blocking"
                       [] OTHER                             -> "insertMembership"
  <2>1. Statement(t, need, own[t], GoTo(t, next)) /\ job[t].pc = "advisory"
    BY <1>1 DEF LockMembershipChanges, At
  <2>2. /\ next \in {"countActive", "blocking", "insertMembership"}
        /\ job[t].op = "createSignupCompany" => next = "countActive"
    OBVIOUS
  <2> HIDE DEF next
  <2>3. EarlyTakes(t, need, own[t], GoTo(t, next))
    <3> DEFINE j == GoTo(t, next)
    <3>1. j.pc = next /\ SameRequest(t, j)
      BY <1>0
    <3> HIDE DEF j
    <3>2. <<j.user, "ADVISORY">> \in need
      BY <3>1 DEF SameRequest
    <3>3. j.op = "addCompany" => own[t][j.company] = "ACTIVE"
      BY <1>0, <2>1, <3>1 DEF Pending, Named, SameRequest
    <3>4. j.op = "acceptInvitation" /\ j.role = "OWNER" =>
            LET m == <<j.actor, j.company>> IN db[m] = "OWNER" /\ Has(t, m, "SHARE")
      BY <1>0, <2>1, <3>1 DEF Pending, Backed, SameRequest
    <3>5. EarlyTakes(t, need, own[t], j)
      BY <2>2, <3>1, <3>2, <3>3, <3>4 DEF EarlyTakes, SameRequest
    <3> QED BY <3>5 DEF j
  <2> QED BY <1>0, <2>1, <2>3, EarlyStatement DEF MemberPhase, UserPhase
<1>2. CASE CountActive(t)
  <2>1. /\ \/ /\ Statement(t, {}, own[t], GoTo(t, "insertCompany"))
              /\ activeCompaniesOf(View(t), job[t].user) = {}
           \/ Rollback(t)
        /\ job[t].pc = "countActive"
    BY <1>2 DEF CountActive, At
  <2>2. job[t].op = "createSignupCompany" /\ job[t].user \in User /\ job[t].company \in Company
    BY <1>0, <2>1 DEF JobSound, InFlow
  <2>3. Has(t, job[t].user, "ADVISORY")
    BY <1>0, <2>1 DEF Pending, Alone
  <2>4. ASSUME activeCompaniesOf(View(t), job[t].user) = {}, NEW c \in Company,
               db[<<job[t].user, c>>] # None
        PROVE  db[c] # "ACTIVE"
    <3>1. <<job[t].user, c>> \in Membership /\ <<job[t].user, c>> \in Row /\ c \in Row
      BY <2>2, RowTypes DEF Membership
    <3>2. own[t][<<job[t].user, c>>] = Unwritten
      BY <1>0, <2>1, <3>1 DEF Pending, Untouched, MemberPhase, UserPhase
    <3>3. View(t)[c] # "ACTIVE"
      BY <1>0, <2>4, <3>1, <3>2 DEF activeCompaniesOf, IsMember, Seen
    <3>4. CASE own[t][c] = Unwritten
      BY <1>0, <3>1, <3>3, <3>4 DEF Seen
    <3>5. CASE own[t][c] # Unwritten
      <4>1. c = job[t].company
        BY <1>0, <3>5 DEF Pending, Named
      <4>2. db[c] = None
        BY <2>2, <4>1 DEF BelongInv, IInv, FreshIds, Creates
      <4> QED BY <4>2, MarkersDistinct
    <3> QED BY <3>4, <3>5
  <2>5. activeCompaniesOf(View(t), job[t].user) = {}
        => EarlyTakes(t, {}, own[t], GoTo(t, "insertCompany"))
    BY <1>0, <2>2, <2>3, <2>4 DEF EarlyTakes, SameRequest
  <2> QED BY <1>0, <2>1, <2>5, EarlyStatement DEF Owes, MemberPhase, UserPhase
<1>3. CASE InsertCompany(t)
  <2> DEFINE c == job[t].company
             next == IF job[t].op = "addCompany" THEN "advisory" ELSE "insertMembership"
             w == [own[t] EXCEPT ![c] = "ACTIVE"]
  <2>1. Statement(t, {<<c, "UPDATE">>}, w, GoTo(t, next)) /\ job[t].pc = "insertCompany"
    BY <1>3 DEF InsertCompany, At
  <2>2. job[t].op \in {"createSignupCompany", "addCompany"} /\ c \in Company /\ c \in Row
    BY <1>0, <2>1, RowTypes DEF JobSound, InFlow
  <2>3. \A r \in Row : w[r] = IF r = c THEN "ACTIVE" ELSE own[t][r]
    BY <1>0, <2>2 DEF WritesTyped
  <2>4. /\ job[t].op = "createSignupCompany" => Has(t, job[t].user, "ADVISORY")
        /\ job[t].op = "createSignupCompany" =>
             \A d \in Company : db[<<job[t].user, d>>] # None => db[d] # "ACTIVE"
        /\ next = "advisory" \/ (next = "insertMembership" /\ job[t].op = "createSignupCompany")
    BY <1>0, <2>1, <2>2 DEF Pending, Alone
  <2> HIDE DEF w, next
  <2>5. EarlyWrites(t, w)
    <3>1. \A x : x \in User \cup Membership \cup Invitation => x # c /\ x \in Row
      BY <2>2, RowTables, RowTypes
    <3> QED BY <2>3, <3>1, RowTypes DEF EarlyWrites
  <2>6. EarlyTakes(t, {<<c, "UPDATE">>}, w, GoTo(t, next))
    BY <1>0, <2>2, <2>3, <2>4 DEF EarlyTakes, SameRequest
  <2> QED BY <1>0, <2>1, <2>5, <2>6, EarlyStatement DEF MemberPhase, UserPhase
<1>4. CASE LockMembershipForShare(t)
  <2> DEFINE m == <<job[t].user, job[t].company>>
  <2>1. /\ \/ View(t)[m] # None /\ Statement(t, {<<m, "SHARE">>}, own[t], GoTo(t, "setCurrent"))
           \/ Rollback(t)
        /\ job[t].pc = "lockMembership"
    BY <1>4 DEF LockMembershipForShare, At
  <2>2. job[t].op = "switchCurrentCompany" /\ m \in Membership /\ m \in Row
    BY <1>0, <2>1, RowTypes DEF JobSound, InFlow, Membership
  <2>3. own[t][m] = Unwritten
    BY <1>0, <2>1, <2>2 DEF Pending, Untouched, MemberPhase, UserPhase
  <2>4. View(t)[m] # None => db[m] # None
    BY <1>0, <2>2, <2>3 DEF Seen
  <2>5. View(t)[m] # None => EarlyTakes(t, {<<m, "SHARE">>}, own[t], GoTo(t, "setCurrent"))
    BY <1>0, <2>2, <2>4 DEF EarlyTakes, SameRequest, JoinOps
  <2> HIDE DEF m
  <2> QED BY <1>0, <2>1, <2>5, EarlyStatement DEF Owes, MemberPhase, UserPhase
<1>5. CASE VerifyInviter(t)
  <2> DEFINE m == <<job[t].actor, job[t].company>>
  <2>1. /\ \/ View(t)[m] = "OWNER" /\ Statement(t, {<<m, "SHARE">>}, own[t], GoTo(t, "advisory"))
           \/ Rollback(t)
        /\ job[t].pc = "verifyInviter"
    BY <1>5 DEF VerifyInviter, At
  <2>2. job[t].op = "acceptInvitation" /\ m \in Membership /\ m \in Row
    BY <1>0, <2>1, RowTypes DEF JobSound, InFlow, Membership
  <2>3. own[t][m] = Unwritten
    BY <1>0, <2>1, <2>2 DEF Pending, Untouched, MemberPhase, UserPhase
  <2>4. View(t)[m] = "OWNER" => db[m] = "OWNER"
    BY <1>0, <2>2, <2>3 DEF Seen
  <2>5. View(t)[m] = "OWNER" => EarlyTakes(t, {<<m, "SHARE">>}, own[t], GoTo(t, "advisory"))
    BY <1>0, <2>2, <2>4 DEF EarlyTakes, SameRequest, JoinOps
  <2> HIDE DEF m
  <2> QED BY <1>0, <2>1, <2>5, EarlyStatement DEF Owes, MemberPhase, UserPhase
<1> QED BY <1>1, <1>2, <1>3, <1>4, <1>5

\* An invitation that t can see is one of a company that exists.
LEMMA InvitationSeen ==
    ASSUME BelongInv, NEW t \in Slot, NEW i \in Invitation, IsRow(View(t), i)
    PROVE  /\ View(t)[i] \in InvitationRecord /\ db[View(t)[i].company] # None
           /\ \A s : [View(t)[i] EXCEPT !.status = s].company = View(t)[i].company
<1>0. Pending(t) /\ Consistent(db) /\ \A r \in Row : View(t)[r] = Seen(t, r)
  BY RequestFacts
<1>1. i \in Row /\ View(t)[i] \in InvitationRecord
  BY RowTypes, ViewTyped DEF IsRow, RowsTyped, InvitationValue, BelongInv, IInv
<1>2. db[View(t)[i].company] # None
  <2>1. CASE own[t][i] = Unwritten
    <3>1. View(t)[i] = db[i] /\ IsRow(db, i)
      BY <1>0, <1>1, <2>1 DEF Seen, IsRow
    <3> QED BY <1>0, <3>1 DEF Consistent
  <2>2. CASE own[t][i] # Unwritten
    <3>1. View(t)[i] = own[t][i]
      BY <1>0, <1>1, <2>2 DEF Seen
    <3> QED BY <1>0, <1>1, <3>1 DEF Pending, Named
  <2> QED BY <2>1, <2>2
<1>3. \A s : [View(t)[i] EXCEPT !.status = s].company = View(t)[i].company
  BY <1>1 DEF InvitationRecord
<1> QED BY <1>1, <1>2, <1>3

\* Writing invitations that name companies which exist.
LEMMA InvitationOnly ==
    ASSUME NEW t \in Slot, NEW w, \A r \in Row : r \notin Invitation => w[r] = own[t][r],
           \A i \in Invitation : w[i] # own[t][i] => db[w[i].company] # None
    PROVE  EarlyWrites(t, w)
<1>1. \A r : r \in User \cup Membership \cup Company => r \in Row /\ r \notin Invitation
  BY RowTypes, RowTables
<1> QED BY <1>1 DEF EarlyWrites

\* Invitations and the data of a company.
LEMMA EarlyInvitations ==
    ASSUME BelongInv, NEW t \in Slot,
           \/ RevokePendingInvitations(t) \/ UpdateCompany(t) \/ InsertInvitation(t)
           \/ MarkInvitationAccepted(t) \/ MarkInvitationRevoked(t)
    PROVE  Owes(t)
<1>0. /\ job[t] \in Job /\ JobSound(job[t]) /\ WritesTyped(own[t])
      /\ \A pc : GoTo(t, pc).pc = pc /\ SameRequest(t, GoTo(t, pc))
      /\ Pending(t)
  BY RequestFacts
<1>1. CASE RevokePendingInvitations(t)
  <2> DEFINE d == View(t)
             pending == {i \in Invitation : IsPending(d, i) /\ d[i].company = job[t].company}
             need == {<<i, "NO KEY UPDATE">> : i \in pending}
             w == [r \in Row |-> IF r \in pending THEN [d[r] EXCEPT !.status = "REVOKED"]
                                 ELSE own[t][r]]
  <2>1. Statement(t, need, w, GoTo(t, "removeMemberships")) /\ job[t].pc = "revokePending"
    BY <1>1 DEF RevokePendingInvitations, At
  <2>2. \A i \in pending : i \in Invitation /\ IsRow(View(t), i)
    BY DEF IsPending
  <2> HIDE DEF pending
  <2>3. \A i \in Invitation : w[i] # own[t][i] => db[w[i].company] # None
    BY <2>2, InvitationSeen, RowTypes
  <2>4. \A r \in Row : r \notin Invitation => w[r] = own[t][r]
    BY <2>2
  <2> HIDE DEF w, need
  <2>5. EarlyWrites(t, w)
    BY <2>3, <2>4, InvitationOnly
  <2>6. EarlyTakes(t, need, w, GoTo(t, "removeMemberships"))
    BY <1>0, <2>1 DEF EarlyTakes, SameRequest, JobSound, InFlow, JoinOps
  <2> QED BY <1>0, <2>1, <2>5, <2>6, EarlyStatement DEF MemberPhase, UserPhase
<1>2. CASE UpdateCompany(t)
  <2> DEFINE c == job[t].company
             need == {<<c, "NO KEY UPDATE">>}
             w == [own[t] EXCEPT ![c] = "ACTIVE"]
  <2>1. /\ Statement(t, need, w, GoTo(t, "commit")) \/ Rollback(t)
        /\ job[t].pc = "updateCompany"
    BY <1>2 DEF UpdateCompany, renames, At
  <2>2. job[t].op = "updateCompanyInfo" /\ c \in Company
    BY <1>0, <2>1 DEF JobSound, InFlow
  <2>3. \A r \in Row : w[r] = IF r = c THEN "ACTIVE" ELSE own[t][r]
    BY <1>0, <2>2, RowTypes DEF WritesTyped
  <2> HIDE DEF w, need
  <2>4. EarlyWrites(t, w)
    <3>1. \A x : x \in User \cup Membership \cup Invitation => x # c /\ x \in Row
      BY <2>2, RowTables, RowTypes
    <3> QED BY <2>3, <3>1, RowTypes DEF EarlyWrites
  <2>5. EarlyTakes(t, need, w, GoTo(t, "commit"))
    BY <1>0, <2>2 DEF EarlyTakes, SameRequest, JoinOps
  <2> QED BY <1>0, <2>1, <2>4, <2>5, EarlyStatement DEF Owes, MemberPhase, UserPhase
<1>3. CASE InsertInvitation(t)
  <2> DEFINE j == job[t]
             need == {<<j.invitation, "UPDATE">>, <<j.actor, "KEY SHARE">>,
                      <<j.company, "KEY SHARE">>}
             row == [company |-> j.company, email |-> j.user, role |-> j.role,
                     invitedBy |-> j.actor, status |-> "PENDING"]
             w == [own[t] EXCEPT ![j.invitation] = row]
  <2>1. /\ Statement(t, need, w, GoTo(t, "commit")) \/ Rollback(t)
        /\ job[t].pc = "insertInvitation"
    BY <1>3 DEF InsertInvitation, At
  <2>2. job[t].op = "createInvitation" /\ job[t].invitation \in Invitation
    BY <1>0, <2>1 DEF JobSound, InFlow
  <2>3. db[row.company] # None
    BY <1>0, <2>2 DEF Pending, Named
  <2> HIDE DEF row
  <2>4. \A r \in Row : w[r] = IF r = job[t].invitation THEN row ELSE own[t][r]
    BY <1>0, <2>2, RowTypes DEF WritesTyped
  <2> HIDE DEF w, need
  <2>5. EarlyWrites(t, w)
    BY <2>2, <2>3, <2>4, RowTypes, InvitationOnly
  <2>6. EarlyTakes(t, need, w, GoTo(t, "commit"))
    BY <1>0, <2>2 DEF EarlyTakes, SameRequest, JoinOps
  <2> QED BY <1>0, <2>1, <2>5, <2>6, EarlyStatement DEF Owes, MemberPhase, UserPhase
<1>4. ASSUME NEW matches \in BOOLEAN, NEW status, NEW pc, spendPending(t, matches, status, pc),
             matches => IsPending(View(t), job[t].invitation), job[t].invitation \in Invitation,
             job[t].pc \notin MemberPhase,
             \A need, w : EarlyTakes(t, need, w, GoTo(t, pc))
      PROVE  Owes(t)
  <2> DEFINE i == job[t].invitation
             v == [View(t)[i] EXCEPT !.status = status]
             need == {<<i, "NO KEY UPDATE">>}
             w == [own[t] EXCEPT ![i] = v]
  <2>1. (matches /\ Statement(t, need, w, GoTo(t, pc))) \/ Rollback(t)
    BY <1>4 DEF spendPending
  <2>2. matches => db[v.company] # None
    BY <1>4, InvitationSeen DEF IsPending
  <2> HIDE DEF v
  <2>3. \A r \in Row : w[r] = IF r = i THEN v ELSE own[t][r]
    BY <1>0, <1>4, RowTypes DEF WritesTyped
  <2> HIDE DEF w, need
  <2>4. matches => EarlyWrites(t, w)
    BY <1>4, <2>2, <2>3, RowTypes, InvitationOnly
  <2> QED BY <1>0, <1>4, <2>1, <2>4, EarlyStatement DEF Owes
<1>5. CASE MarkInvitationAccepted(t)
  <2> DEFINE pc == IF job[t].role = "OWNER" THEN "verifyInviter" ELSE "advisory"
  <2>1. /\ spendPending(t, IsPending(View(t), job[t].invitation), "ACCEPTED", pc)
        /\ job[t].pc = "markAccepted"
    BY <1>5 DEF MarkInvitationAccepted, At
  <2>2. job[t].op = "acceptInvitation" /\ job[t].invitation \in Invitation
    BY <1>0, <2>1 DEF JobSound, InFlow
  <2>3. \A need, w : EarlyTakes(t, need, w, GoTo(t, pc))
    BY <1>0, <2>2 DEF EarlyTakes, SameRequest, JoinOps
  <2>4. IsPending(View(t), job[t].invitation) \in BOOLEAN
    BY DEF IsPending, IsRow
  <2> HIDE DEF pc
  <2> QED BY <1>4, <2>1, <2>2, <2>3, <2>4 DEF MemberPhase, UserPhase
<1>6. CASE MarkInvitationRevoked(t)
  <2> DEFINE matches == /\ IsPending(View(t), job[t].invitation)
                        /\ View(t)[job[t].invitation].company = job[t].company
  <2>1. spendPending(t, matches, "REVOKED", "commit") /\ job[t].pc = "markRevoked"
    BY <1>6 DEF MarkInvitationRevoked, At
  <2>2. job[t].op = "revokeInvitation" /\ job[t].invitation \in Invitation
    BY <1>0, <2>1 DEF JobSound, InFlow
  <2>3. \A need, w : EarlyTakes(t, need, w, GoTo(t, "commit"))
    BY <1>0, <2>2 DEF EarlyTakes, SameRequest, JoinOps
  <2>4. matches \in BOOLEAN /\ (matches => IsPending(View(t), job[t].invitation))
    BY DEF IsPending, IsRow
  <2> HIDE DEF matches
  <2> QED BY <1>4, <2>1, <2>2, <2>3, <2>4 DEF MemberPhase, UserPhase
<1> QED BY <1>1, <1>2, <1>3, <1>5, <1>6

\* t changes roles or takes users out of its company, and writes nothing else:
\* it rewrites memberships it sees, and those it deletes it has still to follow up.
MemberWrites(t, w, j) ==
    /\ \A r \in Row : r \notin Membership => w[r] = own[t][r]
    /\ \A m \in Membership : w[m] # own[t][m] => w[m] \in Role \cup {None} /\ Seen(t, m) # None
    /\ \A u \in User, c \in Company : w[<<u, c>>] = None /\ own[t][<<u, c>>] # None =>
         /\ c = j.company
         /\ \/ j.op = "removeMember" /\ j.pc = "countOwners" /\ j.user = u
            \/ j.pc = "reassign" /\ u \in j.leavers

\* Job j goes on with the follow-up of what was deleted before.
MemberFollows(t, j) ==
    /\ j.op = job[t].op /\ j.company = job[t].company /\ j.user = job[t].user
    /\ j.op \in {"changeRole", "transferOwnership", "removeMember", "deleteCompany"}
    /\ j.pc \in {"demote", "countOwners", "reassign", "commit"}
    /\ \A u \in User : u \in j.leavers => db[u] # None
    /\ j.op = "removeMember" /\ job[t].pc = "countOwners" =>
         j.pc = "reassign" /\ job[t].user \in j.leavers

LEMMA MemberStatement ==
    ASSUME BelongInv, NEW t \in Slot, NEW need, NEW w, NEW j, Statement(t, need, w, j),
           job[t].pc \notin UserPhase \cup {"reassign", "setCurrent"},
           MemberWrites(t, w, j), MemberFollows(t, j)
    PROVE  Owes(t)
<1>0. /\ db' = db /\ own'[t] = w /\ job'[t] = j
      /\ \A r, m : Has(t, r, m) => Has(t, r, m)'
  BY StatementEffect DEF BelongInv
<1>1. Pending(t) /\ Consistent(db) /\ WritesTyped(own[t])
  BY RequestFacts
<1>2. /\ \A u \in User : own[t][u] = Unwritten /\ w[u] = Unwritten
      /\ \A c \in Company \cup Invitation : w[c] = own[t][c]
      /\ \A u \in User, c \in Company : <<u, c>> \in Membership /\ <<u, c>> \in Row
  <2>1. \A u \in User : own[t][u] = Unwritten
    BY <1>1 DEF Pending, Untouched, MemberPhase
  <2>2. \A r : r \in User \cup Company \cup Invitation => r \in Row /\ r \notin Membership
    BY RowTypes, RowTables
  <2> QED BY <2>1, <2>2, RowTypes DEF MemberWrites, Membership
<1>3. Unwritten \notin Company /\ Unwritten \notin {None, Gone, NoCompany} /\ None \notin Role
  BY MarkersDistinct
<1>4. \* Whatever t sees of a membership is committed as some role.
      \A u \in User, c \in Company : Seen(t, <<u, c>>) # None => db[<<u, c>>] # None
  <2>1. ASSUME NEW u \in User, NEW c \in Company, own[t][<<u, c>>] \in Role
        PROVE  db[<<u, c>>] # None
    BY <1>1, <2>1 DEF Pending, Joined, MemberFollows, JoinOps
  <2>2. \A u \in User, c \in Company : own[t][<<u, c>>] \in Role \cup {None, Unwritten}
    BY <1>1, <1>2, RowTypes DEF WritesTyped, MembershipValue
  <2> QED BY <2>1, <2>2 DEF Seen
<1>5. Untouched(t)' /\ Moved(t)' /\ Homeless(t)' /\ Deleted(t)' /\ UserWrites(t)'
  <2>1. Untouched(t)'
    BY <1>0, <1>2 DEF Untouched, MemberFollows, MemberPhase, UserPhase
  <2>2. Moved(t)' /\ Homeless(t)' /\ Deleted(t)' /\ UserWrites(t)'
    BY <1>0, <1>2, <1>3 DEF Moved, Homeless, Deleted, UserWrites
  <2> QED BY <2>1, <2>2
<1>6. Left(t)'
  <2> SUFFICES ASSUME NEW u \in User, NEW c \in Company, w[<<u, c>>] = None
               PROVE  /\ Leaving(t, u, c)' \/ (Has(t, u, "UPDATE")' /\ Seen(t, u)' # c)
                      /\ c = j.company
    BY <1>0 DEF Left
  <2>1. CASE own[t][<<u, c>>] # None
    <3>1. db[<<u, c>>] # None
      BY <1>2, <1>4, <2>1 DEF MemberWrites
    <3> QED BY <1>0, <2>1, <3>1 DEF MemberWrites, Leaving
  <2>2. CASE own[t][<<u, c>>] = None
    <3>1. /\ Leaving(t, u, c) \/ (Has(t, u, "UPDATE") /\ Seen(t, u) # c)
          /\ c = job[t].company
      BY <1>1, <1>2, <1>3, <2>2 DEF Pending, Left
    <3>2. Leaving(t, u, c) => Leaving(t, u, c)'
      BY <1>0 DEF Leaving, MemberFollows
    <3>3. Seen(t, u)' = Seen(t, u)
      BY <1>0, <1>2 DEF Seen
    <3> QED BY <1>0, <3>1, <3>2, <3>3 DEF MemberFollows
  <2> QED BY <2>1, <2>2
<1>7. Joined(t)'
  <2>1. ASSUME NEW u \in User, NEW c \in Company, w[<<u, c>>] \in Role
        PROVE  db[<<u, c>>] # None
    <3>1. CASE w[<<u, c>>] = own[t][<<u, c>>]
      BY <1>1, <2>1, <3>1 DEF Pending, Joined, MemberFollows, JoinOps
    <3>2. CASE w[<<u, c>>] # own[t][<<u, c>>]
      BY <1>2, <1>4, <3>2 DEF MemberWrites
    <3> QED BY <3>1, <3>2
  <2> QED BY <1>0, <2>1 DEF Joined
<1>8. Orphans(t)'
  BY <1>0, <1>1 DEF Pending, Orphans, MemberFollows
<1>9. Named(t)'
  <2>1. ASSUME NEW u \in User, NEW c \in Company, w[<<u, c>>] \in Role
        PROVE  Seen(t, c)' # None
    <3>1. CASE w[<<u, c>>] = own[t][<<u, c>>]
      BY <1>0, <1>1, <1>2, <2>1, <3>1 DEF Pending, Named, Seen
    <3>2. CASE w[<<u, c>>] # own[t][<<u, c>>]
      <4>1. db[c] # None
        BY <1>1, <1>2, <1>4, <3>2 DEF MemberWrites, Consistent, IsMember
      <4> QED BY <1>0, <1>1, <1>2, <4>1 DEF Pending, Named, Seen
    <3> QED BY <3>1, <3>2
  <2> QED BY <1>0, <1>1, <1>2, <2>1 DEF Pending, Named, MemberFollows
<1>10. Pointing(t)' /\ Alone(t)' /\ Backed(t)'
  BY <1>0 DEF Pointing, Alone, Backed, MemberFollows, JoinOps
<1> QED BY <1>5, <1>6, <1>7, <1>8, <1>9, <1>10 DEF Pending, Owes

\* Role changes and removals.
LEMMA MemberStatements ==
    ASSUME BelongInv, NEW t \in Slot,
           \/ SetRole(t) \/ Promote(t) \/ Demote(t) \/ DeleteMembership(t)
           \/ CountOwners(t) \/ RemoveMemberships(t)
    PROVE  Owes(t)
<1>0. /\ job[t] \in Job /\ JobSound(job[t]) /\ WritesTyped(own[t])
      /\ \A pc : GoTo(t, pc).pc = pc /\ SameRequest(t, GoTo(t, pc))
      /\ Pending(t) /\ Consistent(db) /\ \A r \in Row : View(t)[r] = Seen(t, r)
  BY RequestFacts
<1>00. job[t].op \in {"changeRole", "transferOwnership", "removeMember", "deleteCompany"}
  BY <1>0 DEF JobSound, InFlow, SetRole, Promote, Demote, DeleteMembership, CountOwners,
     RemoveMemberships, At
<1>1. ASSUME NEW u \in User, NEW role \in Role, NEW pc \in {"demote", "countOwners"},
             job[t].company \in Company, job[t].pc \in {"setRole", "promote", "demote"},
             updateMembershipRole(t, u, role, pc)
      PROVE  Owes(t)
  <2> DEFINE m == <<u, job[t].company>>
             need == {<<m, "NO KEY UPDATE">>}
             w == [own[t] EXCEPT ![m] = role]
  <2>1. (View(t)[m] # None /\ Statement(t, need, w, GoTo(t, pc))) \/ Rollback(t)
    BY <1>1 DEF updateMembershipRole
  <2>2. m \in Membership /\ m \in Row
    BY <1>1, RowTypes DEF Membership
  <2>3. \A r \in Row : w[r] = IF r = m THEN role ELSE own[t][r]
    BY <1>0, <2>2 DEF WritesTyped
  <2> HIDE DEF w, need, m
  <2>4. View(t)[m] # None => MemberWrites(t, w, GoTo(t, pc))
    <3>1. \A x \in Membership : w[x] # own[t][x] => x = m /\ w[x] = role
      BY <2>3, RowTypes
    <3>2. None # role
      BY <1>1, MarkersDistinct
    <3>3. \A v \in User, c \in Company : <<v, c>> \in Membership
      BY DEF Membership
    <3> QED BY <1>0, <1>1, <2>2, <2>3, <3>1, <3>2, <3>3 DEF MemberWrites
  <2>5. MemberFollows(t, GoTo(t, pc))
    BY <1>0, <1>00, <1>1 DEF MemberFollows, SameRequest, Pending, Orphans
  <2> QED BY <1>1, <2>1, <2>4, <2>5, MemberStatement DEF Owes, UserPhase
<1>2. CASE SetRole(t)
  BY <1>0, <1>1, <1>2 DEF SetRole, At, JobSound, InFlow, Job
<1>3. CASE Promote(t)
  BY <1>0, <1>1, <1>3 DEF Promote, At, JobSound, InFlow, Role
<1>4. CASE Demote(t)
  BY <1>0, <1>1, <1>4 DEF Demote, At, JobSound, InFlow, Role
<1>5. CASE DeleteMembership(t)
  <2> DEFINE m == <<job[t].user, job[t].company>>
             need == {<<m, "UPDATE">>}
             w == [own[t] EXCEPT ![m] = None]
  <2>1. /\ (View(t)[m] # None /\ Statement(t, need, w, GoTo(t, "countOwners"))) \/ Rollback(t)
        /\ job[t].pc = "deleteMembership"
    BY <1>5 DEF DeleteMembership, At
  <2>2. /\ m \in Membership /\ m \in Row
        /\ job[t].op = "removeMember"
    BY <1>0, <2>1, RowTypes DEF JobSound, InFlow, Membership
  <2>3. \A r \in Row : w[r] = IF r = m THEN None ELSE own[t][r]
    BY <1>0, <2>2 DEF WritesTyped
  <2> HIDE DEF w, need
  <2>4. View(t)[m] # None => MemberWrites(t, w, GoTo(t, "countOwners"))
    <3>1. \A x \in Membership : w[x] # own[t][x] => x = m /\ w[x] = None
      BY <2>3, RowTypes
    <3>2. \A v \in User, c \in Company : /\ <<v, c>> \in Membership
                                         /\ <<v, c>> = m => v = job[t].user /\ c = job[t].company
      BY DEF Membership
    <3> QED BY <1>0, <2>2, <2>3, <3>1, <3>2 DEF MemberWrites, SameRequest
  <2>5. MemberFollows(t, GoTo(t, "countOwners"))
    BY <1>0, <1>00, <2>1 DEF MemberFollows, SameRequest, Pending, Orphans
  <2> HIDE DEF m
  <2> QED BY <2>1, <2>4, <2>5, MemberStatement DEF Owes, UserPhase
<1>6. CASE CountOwners(t)
  <2> DEFINE j == IF job[t].op = "removeMember"
                  THEN [job[t] EXCEPT !.pc = "reassign", !.leavers = {job[t].user}]
                  ELSE GoTo(t, "commit")
  <2>1. /\ Statement(t, {}, own[t], j) \/ Rollback(t)
        /\ job[t].pc = "countOwners"
    BY <1>6 DEF CountOwners, At
  <2>2. /\ j.op = job[t].op /\ j.company = job[t].company /\ j.user = job[t].user
        /\ IF job[t].op = "removeMember" THEN j.pc = "reassign" /\ j.leavers = {job[t].user}
           ELSE j.pc = "commit" /\ j.leavers = job[t].leavers
    BY <1>0 DEF GoTo, Job
  <2> HIDE DEF j
  <2>3. MemberWrites(t, own[t], j)
    BY DEF MemberWrites
  <2>4. MemberFollows(t, j)
    BY <1>0, <1>00, <2>1, <2>2 DEF MemberFollows, Pending, Orphans
  <2> QED BY <2>1, <2>3, <2>4, MemberStatement DEF Owes, UserPhase
<1>7. CASE RemoveMemberships(t)
  <2> DEFINE rows == {m \in Membership : m[2] = job[t].company /\ View(t)[m] # None}
             need == {<<m, "UPDATE">> : m \in rows}
             w == [r \in Row |-> IF r \in rows THEN None ELSE own[t][r]]
             j == [job[t] EXCEPT !.pc = "reassign", !.leavers = {m[1] : m \in rows}]
  <2>1. Statement(t, need, w, j) /\ job[t].pc = "removeMemberships"
    BY <1>7 DEF RemoveMemberships, At
  <2>2. /\ \A r \in Row : w[r] = IF r \in rows THEN None ELSE own[t][r]
        /\ \A m \in rows : m \in Membership /\ View(t)[m] # None
        /\ \A u \in User, c \in Company : <<u, c>> \in rows =>
              c = job[t].company /\ u \in {m[1] : m \in rows}
        /\ \A u \in {m[1] : m \in rows} : \E c \in Company : <<u, c>> \in rows
    <3>1. \A u \in User, c \in Company : <<u, c>> \in rows =>
              c = job[t].company /\ u \in {m[1] : m \in rows}
      <4>1. \A u \in User, c \in Company : <<u, c>>[1] = u /\ <<u, c>>[2] = c
        OBVIOUS
      <4> QED BY <4>1
    <3>2. \A u \in {m[1] : m \in rows} : \E c \in Company : <<u, c>> \in rows
      <4>1. \A m \in Membership : m[2] \in Company /\ m = <<m[1], m[2]>>
        BY DEF Membership
      <4> QED BY <4>1
    <3> QED BY <3>1, <3>2
  <2> HIDE DEF rows
  <2>3. /\ j.op = job[t].op /\ j.company = job[t].company /\ j.user = job[t].user
        /\ j.pc = "reassign" /\ j.leavers = {m[1] : m \in rows}
    BY <1>0 DEF Job
  <2> HIDE DEF w, j, need
  <2>4. MemberWrites(t, w, j)
    <3>1. \A r \in Row : r \notin Membership => w[r] = own[t][r]
      BY <2>2
    <3>2. \A m \in Membership : w[m] # own[t][m] => m \in rows /\ w[m] = None /\ Seen(t, m) # None
      BY <1>0, <2>2, RowTypes
    <3>3. \A u \in User, c \in Company : w[<<u, c>>] = None /\ own[t][<<u, c>>] # None
                                         => c = j.company /\ u \in j.leavers
      <4>1. \A u \in User, c \in Company : <<u, c>> \in Membership
        BY DEF Membership
      <4> QED BY <2>2, <2>3, <3>2, <4>1
    <3> QED BY <2>3, <3>1, <3>2, <3>3 DEF MemberWrites
  <2>5. MemberFollows(t, j)
    <3>1. ASSUME NEW u \in User, u \in j.leavers PROVE db[u] # None
      <4>1. PICK c \in Company : <<u, c>> \in rows
        BY <2>2, <2>3, <3>1
      <4>2. <<u, c>> \in Membership /\ <<u, c>> \in Row /\ View(t)[<<u, c>>] # None
        BY <2>2, <4>1, RowTypes
      <4>3. own[t][<<u, c>>] = Unwritten
        BY <1>0, <2>1, <4>2 DEF Pending, Untouched, MemberPhase, UserPhase
      <4>4. IsMember(db, u, c)
        BY <1>0, <4>2, <4>3 DEF Seen, IsMember
      <4> QED BY <1>0, <4>4 DEF Consistent, Live
    <3> QED BY <1>00, <2>1, <2>3, <3>1 DEF MemberFollows
  <2> QED BY <2>1, <2>4, <2>5, MemberStatement DEF UserPhase
<1> QED BY <1>2, <1>3, <1>4, <1>5, <1>6, <1>7

LeaveOps == {"removeMember", "deleteCompany", "deleteAccount", "sweep"}

\* A statement that follows up those who leave joins nobody to anything.
LeaveKept(t, w, j) ==
    /\ j.op = job[t].op /\ j.op \in LeaveOps /\ j.company = job[t].company
    /\ j.pc \in UserPhase
    /\ \A m \in Membership : w[m] \in Role => w[m] = own[t][m]
    /\ \A c \in Company : w[c] = own[t][c] \/ (w[c] = "DELETED" /\ c = j.company)
    /\ \A i \in Invitation : w[i] = own[t][i] \/ w[i] = Gone

LEMMA LeaveStatement ==
    ASSUME BelongInv, NEW t \in Slot, NEW need, NEW w, NEW j, Statement(t, need, w, j),
           LeaveKept(t, w, j)
    PROVE  /\ Untouched(t)' /\ Joined(t)' /\ Pointing(t)' /\ Named(t)' /\ Alone(t)' /\ Backed(t)'
           /\ db' = db /\ own'[t] = w /\ job'[t] = j
           /\ \A r, m : Has(t, r, m) => Has(t, r, m)'
           /\ \A r, m : <<r, m>> \in need => Has(t, r, m)'
<1>0. /\ db' = db /\ own'[t] = w /\ job'[t] = j
      /\ \A r, m : Has(t, r, m) => Has(t, r, m)'
      /\ \A r, m : <<r, m>> \in need => Has(t, r, m)'
  BY StatementEffect DEF BelongInv
<1>1. Pending(t)
  BY DEF BelongInv
<1>2. Untouched(t)' /\ Pointing(t)' /\ Alone(t)' /\ Backed(t)'
  BY <1>0 DEF Untouched, Pointing, Alone, Backed, LeaveKept, MemberPhase, UserPhase,
     LeaveOps, JoinOps
<1>3. ASSUME NEW u \in User, NEW c \in Company, w[<<u, c>>] \in Role
      PROVE  db[<<u, c>>] # None /\ Seen(t, c)' # None
  <2>1. own[t][<<u, c>>] \in Role
    BY <1>3 DEF LeaveKept, Membership
  <2>2. db[<<u, c>>] # None
    BY <1>1, <2>1 DEF Pending, Joined, LeaveKept, LeaveOps, JoinOps
  <2>3. Seen(t, c) # None
    BY <1>1, <2>1 DEF Pending, Named
  <2> QED BY <1>0, <2>2, <2>3, MarkersDistinct DEF Seen, LeaveKept
<1>4. Joined(t)'
  BY <1>0, <1>3 DEF Joined
<1>5. Named(t)'
  <2>1. \A c \in Company : w[c] # Unwritten => w[c] # None /\ c = j.company
    BY <1>1, MarkersDistinct DEF Pending, Named, LeaveKept
  <2>2. \A i \in Invitation : w[i] \in InvitationRecord => db[w[i].company] # None
    BY <1>1, MarkersDistinct DEF Pending, Named, LeaveKept
  <2> QED BY <1>0, <1>3, <2>1, <2>2 DEF Named, LeaveKept, LeaveOps
<1> QED BY <1>0, <1>2, <1>4, <1>5

\* Those who leave are locked and moved to a company they still belong to.
LEMMA ReassignOwes ==
    ASSUME BelongInv, NEW t \in Slot, ReassignLastUsedCompany(t)
    PROVE  Owes(t)
<1>0. /\ job[t] \in Job /\ JobSound(job[t]) /\ WritesTyped(own[t]) /\ Pending(t)
      /\ Consistent(db) /\ \A r \in Row : View(t)[r] = Seen(t, r)
      /\ \A pc : GoTo(t, pc).pc = pc /\ SameRequest(t, GoTo(t, pc))
  BY RequestFacts
<1> DEFINE d == View(t)
           present == {u \in job[t].leavers : Live(d, u)}
           moved == {u \in present : d[u] = job[t].company}
           need == {<<u, "UPDATE">> : u \in present}
           j == GoTo(t, IF job[t].leavers = {} THEN afterOrphans(t) ELSE "orphan")
<1>1. PICK next \in [moved -> Company \cup {NoCompany}] :
        /\ \A u \in moved : IF activeCompaniesOf(d, u) = {} THEN next[u] = NoCompany
                            ELSE next[u] \in activeCompaniesOf(d, u)
        /\ Statement(t, need, [r \in Row |-> IF r \in moved THEN next[r] ELSE own[t][r]], j)
  BY <1>0 DEF ReassignLastUsedCompany
<1> DEFINE w == [r \in Row |-> IF r \in moved THEN next[r] ELSE own[t][r]]
<1>2. /\ job[t].pc = "reassign" /\ job[t].op \in {"removeMember", "deleteCompany"}
      /\ job[t].company \in Company /\ job[t].leavers \subseteq User
  BY <1>0 DEF ReassignLastUsedCompany, At, JobSound, InFlow, Job
<1>3. /\ SameRequest(t, j)
      /\ j.pc = IF job[t].leavers = {} THEN afterOrphans(t) ELSE "orphan"
      /\ j.pc \in {"softDelete", "commit", "orphan"}
  BY <1>0 DEF afterOrphans
<1>4. \A u \in User : u \in Row /\ own[t][u] = Unwritten /\ View(t)[u] = db[u]
  BY <1>0, <1>2, RowTypes DEF Pending, Untouched, UserPhase, Seen
<1>5. /\ \A u \in User : u \in present <=> u \in job[t].leavers /\ Live(db, u)
      /\ \A u \in User : u \in moved <=> u \in present /\ db[u] = job[t].company
      /\ moved \subseteq User
  BY <1>2, <1>4 DEF Live
<1>6. /\ \A r \in Row : w[r] = IF r \in moved THEN next[r] ELSE own[t][r]
      /\ \A u \in present : <<u, "UPDATE">> \in need
      /\ Statement(t, need, w, j)
  BY <1>1
<1>7. /\ \A r \in Row : r \notin User => w[r] = own[t][r]
      /\ \A c \in Company \cup Invitation : w[c] = own[t][c]
      /\ \A m \in Membership : w[m] = own[t][m]
      /\ \A u \in User, c \in Company : /\ <<u, c>> \in Row /\ w[<<u, c>>] = own[t][<<u, c>>]
                                        /\ View(t)[<<u, c>>] = Seen(t, <<u, c>>)
      /\ \A c \in Company : View(t)[c] = Seen(t, c)
  <2>1. \A r \in Row : r \notin User => w[r] = own[t][r]
    BY <1>5, <1>6
  <2>2. \A r : r \in Company \cup Invitation \cup Membership => r \in Row /\ r \notin User
    BY RowTypes, RowTables
  <2> QED BY <1>0, <2>1, <2>2 DEF Membership
<1>8. \* next never names a company that t does not see the user in.
      \A u \in moved : /\ next[u] \in Company => Seen(t, <<u, next[u]>>) # None
                       /\ next[u] = NoCompany => Nowhere(t, u)
                       /\ next[u] \in Company \cup {NoCompany}
  <2> SUFFICES ASSUME NEW u \in moved
               PROVE  /\ next[u] \in Company => Seen(t, <<u, next[u]>>) # None
                      /\ next[u] = NoCompany => Nowhere(t, u)
                      /\ next[u] \in Company \cup {NoCompany}
    OBVIOUS
  <2>1. u \in User /\ NoCompany \notin Company
    BY <1>5, MarkersDistinct
  <2>2. \A c \in Company : c \in activeCompaniesOf(View(t), u)
                           <=> Seen(t, <<u, c>>) # None /\ Seen(t, c) = "ACTIVE"
    BY <1>7, <2>1 DEF activeCompaniesOf, IsMember
  <2>3. activeCompaniesOf(View(t), u) \subseteq Company
    BY DEF activeCompaniesOf
  <2>4. IF activeCompaniesOf(View(t), u) = {} THEN next[u] = NoCompany
        ELSE next[u] \in activeCompaniesOf(View(t), u)
    BY <1>1
  <2> QED BY <2>1, <2>2, <2>3, <2>4 DEF Nowhere
<1> HIDE DEF w, j, need, moved, present
<1>9. LeaveKept(t, w, j)
  BY <1>2, <1>3, <1>7 DEF LeaveKept, SameRequest, LeaveOps, UserPhase
<1>10. /\ Untouched(t)' /\ Joined(t)' /\ Pointing(t)' /\ Named(t)' /\ Alone(t)' /\ Backed(t)'
       /\ db' = db /\ own'[t] = w /\ job'[t] = j
       /\ \A r, m : Has(t, r, m) => Has(t, r, m)'
       /\ \A r, m : <<r, m>> \in need => Has(t, r, m)'
  BY <1>6, <1>9, LeaveStatement
<1>11. /\ \A u \in User, c \in Company : Seen(t, <<u, c>>)' = Seen(t, <<u, c>>)
       /\ \A c \in Company : Seen(t, c)' = Seen(t, c)
       /\ \A u \in User : Seen(t, u)' = IF u \in moved THEN next[u] ELSE db[u]
  <2>1. \A u \in moved : next[u] # Unwritten
    BY <1>8, MarkersDistinct
  <2> QED BY <1>4, <1>6, <1>7, <1>10, <2>1 DEF Seen
<1>12. \A u \in User : Nowhere(t, u) => Nowhere(t, u)'
  BY <1>11 DEF Nowhere
<1>13. NoCompany \notin Company /\ Gone \notin Company \cup {NoCompany, Unwritten}
       /\ None \notin Company \cup {NoCompany, Unwritten} /\ Unwritten \notin Company \cup {NoCompany}
  BY MarkersDistinct
<1>14. Left(t)'
  <2> SUFFICES ASSUME NEW u \in User, NEW c \in Company, own[t][<<u, c>>] = None
               PROVE  Has(t, u, "UPDATE")' /\ Seen(t, u)' # c /\ c = job[t].company
    BY <1>3, <1>7, <1>10 DEF Left, SameRequest
  <2>1. /\ Leaving(t, u, c) \/ (Has(t, u, "UPDATE") /\ Seen(t, u) # c)
        /\ c = job[t].company
    BY <1>0, <1>4, <1>13 DEF Pending, Left
  <2>2. Seen(t, <<u, c>>) = None
    BY <1>13 DEF Seen
  <2>3. u \in moved => Seen(t, u)' # c
    BY <1>8, <1>11, <1>13, <2>2
  <2>4. CASE Leaving(t, u, c)
    <3>1. u \in job[t].leavers /\ Live(db, u)
      BY <1>0, <1>2, <2>4 DEF Leaving, Consistent, IsMember
    <3>2. u \in present
      BY <1>5, <3>1
    <3> QED BY <1>5, <1>6, <1>10, <1>11, <2>1, <2>3, <3>2
  <2>5. CASE Has(t, u, "UPDATE") /\ Seen(t, u) # c
    BY <1>4, <1>10, <1>11, <2>1, <2>3, <2>5 DEF Seen
  <2> QED BY <2>1, <2>4, <2>5
<1>15. \A u \in User : w[u] # Unwritten => u \in moved /\ w[u] = next[u] /\ Has(t, u, "UPDATE")'
                                           /\ Live(db, u) /\ u \in job[t].leavers
  BY <1>4, <1>5, <1>6, <1>10
<1>16. Moved(t)' /\ Homeless(t)'
  <2>1. Moved(t)'
    BY <1>8, <1>10, <1>11, <1>13, <1>15 DEF Moved
  <2>2. ASSUME NEW u \in User, w[u] = NoCompany
        PROVE  /\ Has(t, u, "UPDATE")' /\ Nowhere(t, u)' /\ u \in j.leavers
               /\ j.pc = "orphan" /\ j.op \in {"removeMember", "deleteCompany"}
    BY <1>2, <1>3, <1>8, <1>12, <1>13, <1>15, <2>2 DEF SameRequest
  <2> QED BY <1>10, <2>1, <2>2 DEF Homeless
<1>17. Deleted(t)' /\ UserWrites(t)'
  <2>1. \A u \in User : w[u] # Unwritten => w[u] \notin {Gone, None} /\ Alive(db[u])
    BY <1>8, <1>13, <1>15 DEF Alive, Live
  <2> QED BY <1>10, <1>13, <2>1 DEF Deleted, UserWrites
<1>18. Orphans(t)'
  BY <1>0, <1>3, <1>10 DEF Pending, Orphans, SameRequest
<1> QED BY <1>6, <1>10, <1>14, <1>16, <1>17, <1>18 DEF Pending, Owes

\* A leaver is kept if he belongs somewhere; else he is locked and deleted next.
LEMMA CountOrphanOwes ==
    ASSUME BelongInv, NEW t \in Slot, CountOrphan(t)
    PROVE  Owes(t)
<1>0. /\ job[t] \in Job /\ JobSound(job[t]) /\ WritesTyped(own[t]) /\ Pending(t)
      /\ Consistent(db) /\ \A r \in Row : View(t)[r] = Seen(t, r)
  BY RequestFacts
<1>1. PICK u \in job[t].leavers :
        Statement(t, IF Live(View(t), u) THEN {<<u, "UPDATE">>} ELSE {}, own[t],
                  IF activeCompaniesOf(View(t), u) = {}
                  THEN [job[t] EXCEPT !.pc = "deleteUser", !.user = u]
                  ELSE withoutLeaver(t, u))
  BY DEF CountOrphan
<1> DEFINE need == IF Live(View(t), u) THEN {<<u, "UPDATE">>} ELSE {}
           orphan == activeCompaniesOf(View(t), u) = {}
           j == IF orphan THEN [job[t] EXCEPT !.pc = "deleteUser", !.user = u]
                ELSE withoutLeaver(t, u)
<1>2. /\ job[t].pc = "orphan" /\ job[t].op \in {"removeMember", "deleteCompany", "sweep"}
      /\ u \in User /\ u \in Row
  BY <1>0, RowTypes DEF CountOrphan, At, JobSound, InFlow, Job
<1>3. /\ j.op = job[t].op /\ j.company = job[t].company
      /\ IF orphan THEN j.pc = "deleteUser" /\ j.user = u /\ j.leavers = job[t].leavers
         ELSE /\ j.user = job[t].user /\ j.leavers = job[t].leavers \ {u}
              /\ j.pc = IF j.leavers = {} THEN afterOrphans(t) ELSE "orphan"
      /\ j.pc \in {"softDelete", "commit", "orphan", "deleteUser"}
      /\ ~orphan => j.pc # "deleteUser"
  BY <1>0 DEF withoutLeaver, afterOrphans, Job
<1>4. orphan <=> Nowhere(t, u)
  <2>1. \A c \in Company : <<u, c>> \in Row /\ c \in Row
    BY <1>2, RowTypes DEF Membership
  <2>2. \A c \in Company : c \in activeCompaniesOf(View(t), u)
                           <=> Seen(t, <<u, c>>) # None /\ Seen(t, c) = "ACTIVE"
    BY <1>0, <2>1 DEF activeCompaniesOf, IsMember
  <2>3. activeCompaniesOf(View(t), u) \subseteq Company
    BY DEF activeCompaniesOf
  <2> QED BY <2>2, <2>3 DEF Nowhere
<1>5. Live(View(t), u) => <<u, "UPDATE">> \in need
  OBVIOUS
<1>6. Statement(t, need, own[t], j)
  BY <1>1
<1> HIDE DEF need, orphan, j
<1>7. LeaveKept(t, own[t], j)
  BY <1>2, <1>3 DEF LeaveKept, LeaveOps, UserPhase
<1>8. /\ Untouched(t)' /\ Joined(t)' /\ Pointing(t)' /\ Named(t)' /\ Alone(t)' /\ Backed(t)'
      /\ db' = db /\ own'[t] = own[t] /\ job'[t] = j
      /\ \A r, m : Has(t, r, m) => Has(t, r, m)'
      /\ \A r, m : <<r, m>> \in need => Has(t, r, m)'
  BY <1>6, <1>7, LeaveStatement
<1>9. /\ \A r : Seen(t, r)' = Seen(t, r)
      /\ \A v : Nowhere(t, v) <=> Nowhere(t, v)'
  BY <1>8 DEF Seen, Nowhere
<1>10. Left(t)'
  BY <1>0, <1>2, <1>3, <1>8, <1>9 DEF Pending, Left, Leaving
<1>11. Moved(t)' /\ UserWrites(t)'
  BY <1>0, <1>8, <1>9 DEF Pending, Moved, UserWrites
<1>12. Homeless(t)'
  <2> SUFFICES ASSUME NEW v \in User, own[t][v] = NoCompany
               PROVE  /\ Has(t, v, "UPDATE")' /\ Nowhere(t, v)'
                      /\ v \in j.leavers /\ j.pc \in {"orphan", "deleteUser"}
                      /\ j.op \in {"removeMember", "deleteCompany"}
    BY <1>8 DEF Homeless
  <2>1. /\ Has(t, v, "UPDATE") /\ Nowhere(t, v) /\ v \in job[t].leavers
        /\ job[t].op \in {"removeMember", "deleteCompany"}
    BY <1>0 DEF Pending, Homeless
  <2>2. ~orphan => v # u
    BY <1>4, <2>1
  <2>3. v \in j.leavers /\ j.pc \in {"orphan", "deleteUser"}
    BY <1>3, <2>1, <2>2
  <2> QED BY <1>3, <1>8, <1>9, <2>1, <2>3
<1>13. Deleted(t)'
  BY <1>0, <1>3, <1>8, <1>9 DEF Pending, Deleted
<1>14. Orphans(t)'
  <2>1. \A v \in User : v \in j.leavers \/ (j.op = "removeMember" /\ j.user = v) => db[v] # None
    BY <1>0, <1>1, <1>2, <1>3 DEF Pending, Orphans
  <2>2. ASSUME orphan
        PROVE  (Has(t, u, "UPDATE")' /\ Nowhere(t, u)') \/ Seen(t, u)' = Gone
    <3>1. CASE Live(View(t), u)
      BY <1>4, <1>5, <1>8, <1>9, <2>2, <3>1
    <3>2. CASE ~Live(View(t), u)
      <4>1. Seen(t, u) \in {None, Gone}
        BY <1>0, <1>2, <3>2 DEF Live
      <4>2. db[u] # None /\ own[t][u] # None
        BY <1>0, <1>2, <1>1, MarkersDistinct DEF Pending, Orphans, UserWrites
      <4> QED BY <1>9, <4>1, <4>2 DEF Seen
    <3> QED BY <3>1, <3>2
  <2>3. j.pc = "deleteUser" => orphan /\ j.user = u
    BY <1>3
  <2>4. j.pc = "deleteUser" => \/ (Has(t, job[t].user, "UPDATE") /\ Nowhere(t, job[t].user))'
                               \/ Seen(t, job[t].user)' = Gone
    BY <1>8, <2>2, <2>3
  <2> QED BY <1>8, <2>1, <2>4 DEF Orphans
<1> QED BY <1>6, <1>8, <1>10, <1>11, <1>12, <1>13, <1>14 DEF Pending, Owes

\* A company is closed once everybody has left.
LEMMA SoftDeleteOwes ==
    ASSUME BelongInv, NEW t \in Slot, SoftDeleteCompany(t)
    PROVE  Owes(t)
<1>0. /\ job[t] \in Job /\ JobSound(job[t]) /\ WritesTyped(own[t]) /\ Pending(t)
      /\ \A pc : GoTo(t, pc).pc = pc /\ SameRequest(t, GoTo(t, pc))
  BY RequestFacts
<1> DEFINE c == job[t].company
           active == View(t)[c] = "ACTIVE"
           need == IF active THEN {<<c, "NO KEY UPDATE">>} ELSE {}
           w == IF active THEN [own[t] EXCEPT ![c] = "DELETED"] ELSE own[t]
           j == GoTo(t, "commit")
<1>1. Statement(t, need, w, j) /\ job[t].pc = "softDelete"
  BY DEF SoftDeleteCompany, At
<1>2. job[t].op = "deleteCompany" /\ c \in Company /\ c \in Row
  BY <1>0, <1>1, RowTypes DEF JobSound, InFlow
<1>3. \A r \in Row : w[r] = own[t][r] \/ (r = c /\ w[r] = "DELETED")
  BY <1>0, <1>2 DEF WritesTyped
<1>4. j.pc = "commit" /\ SameRequest(t, j)
  BY <1>0
<1> HIDE DEF w, need, j
<1>5. /\ \A u \in User : w[u] = own[t][u]
      /\ \A m \in Membership : w[m] = own[t][m]
      /\ \A u \in User, d \in Company : w[<<u, d>>] = own[t][<<u, d>>]
      /\ \A i \in Invitation : w[i] = own[t][i]
  <2>1. \A r : r \in User \cup Membership \cup Invitation => r \in Row /\ r # c
    BY <1>2, RowTypes, RowTables
  <2> QED BY <1>3, <2>1 DEF Membership
<1>6. LeaveKept(t, w, j)
  BY <1>2, <1>3, <1>4, <1>5, RowTypes DEF LeaveKept, SameRequest, LeaveOps, UserPhase
<1>7. /\ Untouched(t)' /\ Joined(t)' /\ Pointing(t)' /\ Named(t)' /\ Alone(t)' /\ Backed(t)'
      /\ db' = db /\ own'[t] = w /\ job'[t] = j
      /\ \A r, m : Has(t, r, m) => Has(t, r, m)'
  BY <1>1, <1>6, LeaveStatement
<1>8. /\ \A u \in User : Seen(t, u)' = Seen(t, u)
      /\ \A u \in User, d \in Company : Seen(t, <<u, d>>)' = Seen(t, <<u, d>>)
  BY <1>5, <1>7 DEF Seen
<1>9. Left(t)'
  BY <1>0, <1>1, <1>4, <1>5, <1>7, <1>8 DEF Pending, Left, Leaving, SameRequest
<1>10. Moved(t)' /\ UserWrites(t)' /\ Homeless(t)'
  <2>1. \A u \in User : own[t][u] # NoCompany
    BY <1>0, <1>1 DEF Pending, Homeless
  <2> QED BY <1>0, <1>5, <1>7, <1>8, <2>1 DEF Pending, Moved, UserWrites, Homeless
<1>11. Deleted(t)' /\ Orphans(t)'
  BY <1>0, <1>4, <1>5, <1>7, <1>8 DEF Pending, Deleted, Orphans, SameRequest
<1> QED BY <1>1, <1>7, <1>9, <1>10, <1>11 DEF Pending, Owes

\* A deleted account takes its memberships along.
LEMMA DeleteUserOwes ==
    ASSUME BelongInv, NEW t \in Slot, DeleteUser(t)
    PROVE  Owes(t)
<1>0. /\ job[t] \in Job /\ JobSound(job[t]) /\ WritesTyped(own[t]) /\ Pending(t)
      /\ \A r \in Row : View(t)[r] = Seen(t, r)
      /\ \A pc : GoTo(t, pc).pc = pc /\ SameRequest(t, GoTo(t, pc))
  BY RequestFacts
<1> DEFINE d == View(t)
           u == job[t].user
           cascade == {m \in Membership : m[1] = u /\ d[m] # None}
                      \cup {i \in Invitation : IsRow(d, i) /\ d[i].invitedBy = u}
           need == {<<r, "UPDATE">> : r \in {u} \cup cascade}
           gone == [r \in Row |-> IF r \in {u} \cup (cascade \cap Invitation) THEN Gone
                                  ELSE IF r \in cascade THEN None
                                  ELSE own[t][r]]
           j == IF job[t].op = "deleteAccount" THEN GoTo(t, "commit") ELSE withoutLeaver(t, u)
<1>1. \/ Live(d, u) /\ Statement(t, need, gone, j)
      \/ ~Live(d, u) /\ job[t].op # "deleteAccount" /\ Statement(t, {}, own[t], j)
      \/ Rollback(t)
  BY DEF DeleteUser
<1>2. /\ job[t].pc = "deleteUser" /\ job[t].op \in LeaveOps /\ u \in User /\ u \in Row
  BY <1>0, RowTypes DEF DeleteUser, At, JobSound, InFlow, LeaveOps
<1>3. /\ j.op = job[t].op /\ j.company = job[t].company /\ j.user = job[t].user
      /\ j.leavers \subseteq job[t].leavers
      /\ j.pc \in {"softDelete", "commit", "orphan"}
      /\ job[t].op # "deleteAccount" =>
           /\ j.leavers = job[t].leavers \ {u}
           /\ j.leavers # {} => j.pc = "orphan"
  BY <1>0 DEF withoutLeaver, afterOrphans, Job, SameRequest
<1>4. Gone \notin Company \cup Role \cup InvitationRecord \cup {NoCompany, Unwritten, None}
      /\ None \notin Company \cup Role \cup {NoCompany, Unwritten}
      /\ Unwritten \notin Company \cup Role \cup {NoCompany}
  BY MarkersDistinct
<1>5. /\ gone[u] = Gone /\ <<u, "UPDATE">> \in need
      /\ \A v \in User : v # u => gone[v] = own[t][v]
      /\ \A c \in Company : gone[c] = own[t][c]
      /\ \A i \in Invitation : gone[i] = own[t][i] \/ gone[i] = Gone
      /\ \A v \in User, c \in Company : v # u => gone[<<v, c>>] = own[t][<<v, c>>]
      /\ \A c \in Company : gone[<<u, c>>] = IF Seen(t, <<u, c>>) # None THEN None
                                             ELSE own[t][<<u, c>>]
      /\ \A m \in Membership : gone[m] = own[t][m] \/ gone[m] = None
  <2>1. gone[u] = Gone /\ <<u, "UPDATE">> \in need
    BY <1>2
  <2>2. \A r \in Row : gone[r] = IF r = u \/ (r \in cascade /\ r \in Invitation) THEN Gone
                                 ELSE IF r \in cascade THEN None
                                 ELSE own[t][r]
    OBVIOUS
  <2>3. /\ \A r \in cascade : r \in Membership \cup Invitation
        /\ \A m \in Membership : m \in cascade <=> m[1] = u /\ View(t)[m] # None
    BY RowTables
  <2> HIDE DEF gone, cascade
  <2>4. \A v \in User : v # u => gone[v] = own[t][v]
    BY <2>2, <2>3, RowTypes, RowTables
  <2>5. \A c \in Company : gone[c] = own[t][c]
    BY <1>2, <2>2, <2>3, RowTypes, RowTables
  <2>6. \A i \in Invitation : gone[i] = own[t][i] \/ gone[i] = Gone
    BY <2>2, RowTypes
  <2>7. \A m \in Membership : /\ m \in Row
                              /\ gone[m] = IF m[1] = u /\ Seen(t, m) # None THEN None ELSE own[t][m]
    <3>1. \A m \in Membership : m \in Row /\ m # u /\ m \notin Invitation
      BY <1>2, RowTypes, RowTables
    <3> QED BY <1>0, <2>2, <2>3, <3>1
  <2>8. \A v \in User, c \in Company : <<v, c>> \in Membership /\ <<v, c>>[1] = v
    BY DEF Membership
  <2> QED BY <1>2, <2>1, <2>4, <2>5, <2>6, <2>7, <2>8
<1> HIDE DEF need, gone, j, cascade
<1>6. ASSUME Live(d, u), Statement(t, need, gone, j)
      PROVE  Owes(t)
  <2>1. LeaveKept(t, gone, j)
    BY <1>2, <1>3, <1>4, <1>5 DEF LeaveKept, UserPhase
  <2>2. /\ Untouched(t)' /\ Joined(t)' /\ Pointing(t)' /\ Named(t)' /\ Alone(t)' /\ Backed(t)'
        /\ db' = db /\ own'[t] = gone /\ job'[t] = j
        /\ \A r, m : Has(t, r, m) => Has(t, r, m)'
        /\ \A r, m : <<r, m>> \in need => Has(t, r, m)'
    BY <1>6, <2>1, LeaveStatement
  <2>3. /\ \A v \in User : v # u => Seen(t, v)' = Seen(t, v)
        /\ \A v \in User, c \in Company : v # u => Seen(t, <<v, c>>)' = Seen(t, <<v, c>>)
        /\ \A c \in Company : Seen(t, c)' = Seen(t, c)
        /\ \A v \in User : Seen(t, v)' = IF v = u THEN Gone ELSE Seen(t, v)
        /\ \A c \in Company : (IF gone[<<u, c>>] = Unwritten THEN db[<<u, c>>] ELSE gone[<<u, c>>]) = None
    BY <1>2, <1>4, <1>5, <2>2 DEF Seen
  <2>4. \A v \in User : v # u /\ Nowhere(t, v) => Nowhere(t, v)'
    BY <2>3 DEF Nowhere
  <2>5. Left(t)'
    <3> SUFFICES ASSUME NEW v \in User, NEW c \in Company, gone[<<v, c>>] = None
                 PROVE  /\ Has(t, v, "UPDATE")' /\ Seen(t, v)' # c
                        /\ gone[v] # Gone => c = j.company
      BY <2>2 DEF Left
    <3>1. CASE v = u
      BY <1>2, <1>4, <1>5, <2>2, <2>3, <3>1
    <3>2. CASE v # u
      <4>1. own[t][<<v, c>>] = None /\ gone[v] = own[t][v]
        BY <1>5, <3>2
      <4>2. Has(t, v, "UPDATE") /\ Seen(t, v) # c /\ (own[t][v] # Gone => c = job[t].company)
        BY <1>0, <1>2, <4>1 DEF Pending, Left, Leaving
      <4> QED BY <1>3, <2>2, <2>3, <3>2, <4>1, <4>2
    <3> QED BY <3>1, <3>2
  <2>6. Moved(t)' /\ UserWrites(t)'
    <3>1. ASSUME NEW v \in User, NEW c \in Company, gone[v] = c
          PROVE  /\ Seen(t, <<v, c>>)' # None
                 /\ Has(t, <<v, c>>, "SHARE")' \/ Has(t, <<v, c>>, "UPDATE")' \/ Has(t, v, "UPDATE")'
      <4>1. v # u /\ own[t][v] = c
        BY <1>4, <1>5, <3>1
      <4>2. /\ Seen(t, <<v, c>>) # None
            /\ Has(t, <<v, c>>, "SHARE") \/ Has(t, <<v, c>>, "UPDATE") \/ Has(t, v, "UPDATE")
        BY <1>0, <4>1 DEF Pending, Moved
      <4> QED BY <2>2, <2>3, <4>1, <4>2
    <3>2. ASSUME NEW v \in User, gone[v] # Unwritten
          PROVE  gone[v] # None /\ Alive(db[v])
      <4>1. CASE v = u
        <5>1. own[t][u] = Unwritten => Alive(db[u])
          BY <1>0, <1>2, <1>6 DEF Live, Alive, Seen
        <5> QED BY <1>0, <1>2, <1>4, <1>5, <4>1, <5>1 DEF Pending, UserWrites
      <4>2. CASE v # u
        BY <1>0, <1>5, <3>2, <4>2 DEF Pending, UserWrites
      <4> QED BY <4>1, <4>2
    <3>3. Moved(t)'
      BY <2>2, <3>1 DEF Moved
    <3> QED BY <2>2, <3>2, <3>3 DEF UserWrites
  <2>7. Homeless(t)'
    <3> SUFFICES ASSUME NEW v \in User, gone[v] = NoCompany
                 PROVE  /\ Has(t, v, "UPDATE")' /\ Nowhere(t, v)'
                        /\ v \in j.leavers /\ j.pc \in {"orphan", "deleteUser"}
                        /\ j.op \in {"removeMember", "deleteCompany"}
      BY <2>2 DEF Homeless
    <3>1. v # u /\ own[t][v] = NoCompany
      BY <1>4, <1>5
    <3>2. /\ Has(t, v, "UPDATE") /\ Nowhere(t, v) /\ v \in job[t].leavers
          /\ job[t].op \in {"removeMember", "deleteCompany"}
      BY <1>0, <3>1 DEF Pending, Homeless
    <3>3. v \in j.leavers /\ j.pc = "orphan"
      BY <1>3, <3>1, <3>2
    <3> QED BY <1>3, <2>2, <2>4, <3>1, <3>2, <3>3
  <2>8. Deleted(t)'
    <3> SUFFICES ASSUME NEW v \in User, gone[v] = Gone
                 PROVE  /\ Has(t, v, "UPDATE")'
                        /\ \A c \in Company : Seen(t, <<v, c>>)' = None
                        /\ j.op # "deleteAccount" =>
                             \A c \in Company : db[<<v, c>>] # None /\ db[c] = "ACTIVE"
                                                => c = j.company
      BY <2>2 DEF Deleted
    <3>1. CASE v # u
      <4>1. /\ Has(t, v, "UPDATE") /\ \A c \in Company : Seen(t, <<v, c>>) = None
            /\ job[t].op # "deleteAccount" =>
                 \A c \in Company : db[<<v, c>>] # None /\ db[c] = "ACTIVE" => c = job[t].company
        BY <1>0, <1>5, <3>1 DEF Pending, Deleted
      <4> QED BY <1>3, <2>2, <2>3, <3>1, <4>1
    <3>2. CASE v = u
      <4>1. \A c \in Company : Seen(t, <<v, c>>)' = None
        BY <2>2, <2>3, <3>2 DEF Seen
      <4>2. ASSUME job[t].op # "deleteAccount", NEW c \in Company,
                   db[<<u, c>>] # None, db[c] = "ACTIVE", c # job[t].company
            PROVE  FALSE
        <5>1. Seen(t, u) \notin {None, Gone}
          BY <1>0, <1>2, <1>6 DEF Live
        <5>2. Nowhere(t, u)
          BY <1>0, <1>2, <4>2, <5>1 DEF Pending, Orphans
        <5>3. own[t][c] = Unwritten
          BY <1>0, <4>2 DEF Pending, Named
        <5>4. own[t][<<u, c>>] # None
          BY <1>0, <1>2, <1>4, <4>2, <5>1 DEF Pending, Left, Seen
        <5> QED BY <4>2, <5>2, <5>3, <5>4 DEF Nowhere, Seen
      <4> QED BY <1>3, <1>5, <2>2, <3>2, <4>1, <4>2
    <3> QED BY <3>1, <3>2
  <2>9. Orphans(t)'
    BY <1>0, <1>3, <2>2 DEF Pending, Orphans
  <2> QED BY <1>6, <2>2, <2>5, <2>6, <2>7, <2>8, <2>9 DEF Pending, Owes
<1>7. ASSUME ~Live(d, u), job[t].op # "deleteAccount", Statement(t, {}, own[t], j)
      PROVE  Owes(t)
  <2>1. LeaveKept(t, own[t], j)
    BY <1>2, <1>3 DEF LeaveKept, UserPhase
  <2>2. /\ Untouched(t)' /\ Joined(t)' /\ Pointing(t)' /\ Named(t)' /\ Alone(t)' /\ Backed(t)'
        /\ db' = db /\ own'[t] = own[t] /\ job'[t] = j
        /\ \A r, m : Has(t, r, m) => Has(t, r, m)'
    BY <1>7, <2>1, LeaveStatement
  <2>3. /\ \A r : Seen(t, r)' = Seen(t, r)
        /\ \A v : Nowhere(t, v) <=> Nowhere(t, v)'
    BY <2>2 DEF Seen, Nowhere
  <2>4. Left(t)'
    BY <1>0, <1>2, <1>3, <2>2, <2>3 DEF Pending, Left, Leaving
  <2>5. Moved(t)' /\ UserWrites(t)' /\ Deleted(t)'
    BY <1>0, <1>3, <2>2, <2>3 DEF Pending, Moved, UserWrites, Deleted
  <2>6. Homeless(t)'
    <3>1. own[t][u] # NoCompany
      BY <1>0, <1>2, <1>4, <1>7, MarkersDistinct DEF Live, Seen
    <3> QED BY <1>0, <1>3, <1>7, <2>2, <2>3, <3>1 DEF Pending, Homeless
  <2>7. Orphans(t)'
    BY <1>0, <1>3, <2>2 DEF Pending, Orphans
  <2> QED BY <1>7, <2>2, <2>4, <2>5, <2>6, <2>7 DEF Pending, Owes
<1> QED BY <1>1, <1>6, <1>7 DEF Owes

\* The membership of a joining user: the account is there and stays.
LEMMA InsertMembershipOwes ==
    ASSUME BelongInv, NEW t \in Slot, InsertMembership(t)
    PROVE  Owes(t)
<1>0. /\ job[t] \in Job /\ JobSound(job[t]) /\ WritesTyped(own[t]) /\ Pending(t)
      /\ \A r \in Row : View(t)[r] = Seen(t, r)
      /\ \A pc : GoTo(t, pc).pc = pc /\ SameRequest(t, GoTo(t, pc))
  BY RequestFacts
<1> DEFINE u == job[t].user
           c == job[t].company
           m == <<u, c>>
           need == {<<m, "UPDATE">>, <<u, "KEY SHARE">>, <<c, "KEY SHARE">>}
           w == [own[t] EXCEPT ![m] = job[t].role]
           j == GoTo(t, "setCurrent")
<1>1. \/ View(t)[m] = None /\ Live(View(t), u) /\ Statement(t, need, w, j)
      \/ Rollback(t)
  BY DEF InsertMembership
<1>2. /\ job[t].pc = "insertMembership" /\ job[t].op \in JoinOps
      /\ u \in User /\ c \in Company /\ job[t].role \in Role
  BY <1>0 DEF InsertMembership, At, JobSound, InFlow, Job, JoinOps
<1>3. SUFFICES ASSUME View(t)[m] = None, Live(View(t), u), Statement(t, need, w, j)
               PROVE  Owes(t)
  BY <1>1 DEF Owes
<1>4. m \in Membership /\ m \in Row /\ u \in Row
  BY <1>2, RowTypes DEF Membership
<1>5. /\ \A v \in User : own[t][v] = Unwritten
      /\ \A x \in Membership : own[t][x] = Unwritten
  BY <1>0, <1>2 DEF Pending, Untouched, MemberPhase, UserPhase
<1>6. db[m] = None /\ Alive(db[u])
  BY <1>0, <1>2, <1>3, <1>4, <1>5 DEF Seen, Live, Alive
<1>7. \A r \in Row : w[r] = IF r = m THEN job[t].role ELSE own[t][r]
  BY <1>0, <1>4 DEF WritesTyped
<1>8. /\ <<m, "UPDATE">> \in need /\ <<u, "KEY SHARE">> \in need
      /\ j.pc = "setCurrent" /\ SameRequest(t, j)
  BY <1>0
<1> HIDE DEF w, need, j
<1>9. /\ db' = db /\ own'[t] = w /\ job'[t] = j
      /\ \A r, n : Has(t, r, n) => Has(t, r, n)'
      /\ \A r, n : <<r, n>> \in need => Has(t, r, n)'
  BY <1>3, StatementEffect DEF BelongInv
<1>10. /\ \A v \in User : w[v] = Unwritten
       /\ \A d \in Company \cup Invitation : w[d] = own[t][d]
       /\ \A v \in User, d \in Company : w[<<v, d>>] = IF v = u /\ d = c THEN job[t].role ELSE Unwritten
  <2>1. \A r : r \in User \cup Company \cup Invitation => r \in Row /\ r # m
    BY <1>4, RowTypes, RowTables
  <2>2. \A v \in User, d \in Company : /\ <<v, d>> \in Membership /\ <<v, d>> \in Row
                                       /\ <<v, d>> = m <=> v = u /\ d = c
    BY RowTypes DEF Membership
  <2> QED BY <1>5, <1>7, <2>1, <2>2
<1>11. /\ Unwritten \notin Company \cup Role \cup {None, Gone, NoCompany} /\ None \notin Role
  BY MarkersDistinct
<1>12. Untouched(t)' /\ Moved(t)' /\ Homeless(t)' /\ Deleted(t)' /\ UserWrites(t)'
  <2>1. Untouched(t)'
    BY <1>8, <1>9, <1>10 DEF Untouched, MemberPhase, UserPhase
  <2>2. Moved(t)' /\ Homeless(t)' /\ Deleted(t)' /\ UserWrites(t)'
    BY <1>9, <1>10, <1>11 DEF Moved, Homeless, Deleted, UserWrites
  <2> QED BY <2>1, <2>2
<1>13. Left(t)'
  BY <1>2, <1>9, <1>10, <1>11 DEF Left
<1>14. Joined(t)'
  <2> SUFFICES ASSUME NEW v \in User, NEW d \in Company, w[<<v, d>>] \in Role
               PROVE  /\ j.op \in JoinOps /\ j.user = v /\ j.company = d
                      /\ Has(t, v, "KEY SHARE")' /\ Has(t, <<v, d>>, "UPDATE")' /\ Alive(db[v])
                      /\ j.pc = "setCurrent"
    BY <1>9 DEF Joined
  <2>1. v = u /\ d = c
    BY <1>10, <1>11
  <2> QED BY <1>2, <1>6, <1>8, <1>9, <2>1 DEF SameRequest
<1>15. Pointing(t)'
  <2>1. w[m] \in Role
    BY <1>2, <1>10
  <2> QED BY <1>2, <1>6, <1>8, <1>9, <2>1 DEF Pointing, SameRequest, JoinOps
<1>16. Named(t)'
  <2>1. Seen(t, c) # None
    <3>1. CASE job[t].op = "acceptInvitation"
      BY <1>0, <1>2, <3>1 DEF Pending, Named, Seen
    <3>2. CASE job[t].op # "acceptInvitation"
      BY <1>0, <1>2, <3>2, <1>11, MarkersDistinct DEF Pending, Named, Seen, JoinOps
    <3> QED BY <3>1, <3>2
  <2>2. \A v \in User, d \in Company : w[<<v, d>>] \in Role => Seen(t, d)' # None
    BY <1>2, <1>9, <1>10, <1>11, <2>1 DEF Seen
  <2>3. j.op \in {"createSignupCompany", "addCompany"} => w[j.company] = "ACTIVE"
    BY <1>0, <1>2, <1>8, <1>10 DEF Pending, Named, SameRequest
  <2>4. j.op \in {"createInvitation", "acceptInvitation"} => db[j.company] # None
    BY <1>0, <1>8 DEF Pending, Named, SameRequest
  <2>5. \A d \in Company : w[d] # Unwritten => w[d] # None /\ d = j.company
    BY <1>0, <1>8, <1>10 DEF Pending, Named, SameRequest
  <2>6. \A i \in Invitation : w[i] \in InvitationRecord => db[w[i].company] # None
    BY <1>0, <1>10 DEF Pending, Named
  <2> QED BY <1>9, <2>2, <2>3, <2>4, <2>5, <2>6 DEF Named
<1>17. Orphans(t)' /\ Alone(t)' /\ Backed(t)'
  <2>1. Orphans(t)'
    BY <1>0, <1>8, <1>9 DEF Pending, Orphans, SameRequest
  <2>2. Alone(t)'
    BY <1>0, <1>2, <1>8, <1>9 DEF Pending, Alone, SameRequest
  <2>3. Backed(t)'
    BY <1>0, <1>2, <1>8, <1>9 DEF Pending, Backed, SameRequest
  <2> QED BY <2>1, <2>2, <2>3
<1> QED BY <1>3, <1>12, <1>13, <1>14, <1>15, <1>16, <1>17 DEF Pending, Owes

\* The company that was joined, or is held FOR SHARE, becomes the current one.
LEMMA SetCurrentOwes ==
    ASSUME BelongInv, NEW t \in Slot, SetCurrent(t)
    PROVE  Owes(t)
<1>0. /\ job[t] \in Job /\ JobSound(job[t]) /\ WritesTyped(own[t]) /\ Pending(t)
      /\ \A r \in Row : View(t)[r] = Seen(t, r)
      /\ \A pc : GoTo(t, pc).pc = pc /\ SameRequest(t, GoTo(t, pc))
  BY RequestFacts
<1> DEFINE u == job[t].user
           c == job[t].company
           m == <<u, c>>
           changes == Live(View(t), u) /\ View(t)[u] # c
           need == {<<u, "NO KEY UPDATE">>} \cup IF changes THEN {<<c, "KEY SHARE">>} ELSE {}
           w == IF changes THEN [own[t] EXCEPT ![u] = c] ELSE own[t]
           j == GoTo(t, "commit")
<1>1. Statement(t, need, w, j) /\ job[t].pc = "setCurrent"
  BY DEF SetCurrent, At
<1>2. /\ job[t].op \in JoinOps \cup {"switchCurrentCompany"}
      /\ u \in User /\ u \in Row /\ c \in Company
  BY <1>0, <1>1, RowTypes DEF JobSound, InFlow, JoinOps
<1>3. /\ \A r \in Row : r # u => w[r] = own[t][r]
      /\ w[u] = IF changes THEN c ELSE own[t][u]
      /\ <<u, "NO KEY UPDATE">> \in need
      /\ j.pc = "commit" /\ SameRequest(t, j)
  BY <1>0, <1>2 DEF WritesTyped
<1>4. /\ \A v \in User : own[t][v] = Unwritten /\ v \in Row
      /\ changes <=> Alive(db[u]) /\ db[u] # c
  <2>1. \A v \in User : own[t][v] = Unwritten /\ v \in Row
    BY <1>0, <1>1, RowTypes DEF Pending, Untouched, UserPhase
  <2> QED BY <1>0, <1>2, <2>1 DEF Seen, Live, Alive
<1> HIDE DEF w, need, j, changes
<1>5. /\ db' = db /\ own'[t] = w /\ job'[t] = j
      /\ \A r, n : Has(t, r, n) => Has(t, r, n)'
      /\ \A r, n : <<r, n>> \in need => Has(t, r, n)'
  BY <1>1, StatementEffect DEF BelongInv
<1>6. /\ \A v \in User : v # u => w[v] = Unwritten
      /\ w[u] = IF changes THEN c ELSE Unwritten
      /\ \A d \in Company \cup Invitation : w[d] = own[t][d]
      /\ \A v \in User, d \in Company : w[<<v, d>>] = own[t][<<v, d>>]
  <2>1. \A r : r \in Membership \cup Company \cup Invitation => r \in Row /\ r # u
    BY <1>2, RowTypes, RowTables
  <2>2. \A v \in User, d \in Company : <<v, d>> \in Membership
    BY DEF Membership
  <2> QED BY <1>2, <1>3, <1>4, <2>1, <2>2
<1>7. /\ Unwritten \notin Company \cup Role \cup {None, Gone, NoCompany} /\ None \notin Role
      /\ c \notin {None, Gone, NoCompany}
  BY <1>2, MarkersDistinct
<1>8. /\ \A v \in User, d \in Company : Seen(t, <<v, d>>)' = Seen(t, <<v, d>>)
      /\ \A d \in Company : Seen(t, d)' = Seen(t, d)
      /\ \A v \in User : Seen(t, v)' = IF v = u /\ changes THEN c ELSE db[v]
      /\ \A v \in User : Seen(t, v) = db[v]
  <2>1. /\ \A v \in User, d \in Company : Seen(t, <<v, d>>)' = Seen(t, <<v, d>>)
        /\ \A d \in Company : Seen(t, d)' = Seen(t, d)
    BY <1>5, <1>6 DEF Seen
  <2>2. \A v \in User : w[v] = IF v = u /\ changes THEN c ELSE Unwritten
    BY <1>6
  <2>3. c # Unwritten
    BY <1>2, <1>7
  <2>4. \A v \in User : Seen(t, v)' = IF v = u /\ changes THEN c ELSE db[v]
    BY <1>5, <2>2, <2>3 DEF Seen
  <2>5. \A v \in User : Seen(t, v) = db[v]
    BY <1>4 DEF Seen
  <2> QED BY <2>1, <2>4, <2>5
<1>9. own[t][m] # None
  BY <1>0, <1>1, <1>7 DEF Pending, Pointing
<1>10. Untouched(t)' /\ Homeless(t)' /\ Deleted(t)' /\ UserWrites(t)'
  <2>1. Untouched(t)'
    BY <1>3, <1>5 DEF Untouched, MemberPhase, UserPhase
  <2>2. \A v \in User : w[v] # Unwritten => w[v] = c /\ Alive(db[v])
    BY <1>4, <1>6
  <2> QED BY <1>5, <1>7, <2>1, <2>2 DEF Homeless, Deleted, UserWrites
<1>11. Left(t)'
  <2> SUFFICES ASSUME NEW v \in User, NEW d \in Company, own[t][<<v, d>>] = None
               PROVE  Has(t, v, "UPDATE")' /\ Seen(t, v)' # d /\ d = j.company
    BY <1>5, <1>6 DEF Left
  <2>1. Has(t, v, "UPDATE") /\ Seen(t, v) # d /\ d = c
    BY <1>0, <1>1, <1>4, <1>7 DEF Pending, Left, Leaving
  <2>2. v # u
    BY <1>9, <2>1
  <2> QED BY <1>3, <1>5, <1>8, <2>1, <2>2 DEF SameRequest
<1>12. Joined(t)'
  <2> SUFFICES ASSUME NEW v \in User, NEW d \in Company, own[t][<<v, d>>] \in Role,
                      db[<<v, d>>] = None
               PROVE  /\ j.op \in JoinOps /\ j.user = v /\ j.company = d
                      /\ Has(t, v, "KEY SHARE")' /\ Has(t, <<v, d>>, "UPDATE")' /\ Alive(db[v])
                      /\ j.pc = "commit" /\ Seen(t, v)' = d
                      /\ \E n \in Exclusive : Has(t, v, n)'
    BY <1>5, <1>6 DEF Joined
  <2>1. /\ job[t].op \in JoinOps /\ u = v /\ c = d
        /\ Has(t, v, "KEY SHARE") /\ Has(t, <<v, d>>, "UPDATE") /\ Alive(db[v])
    BY <1>0 DEF Pending, Joined
  <2>2. Seen(t, v)' = d
    BY <1>4, <1>8, <2>1
  <2>3. Has(t, v, "NO KEY UPDATE")'
    BY <1>3, <1>5, <2>1
  <2> QED BY <1>3, <1>5, <2>1, <2>2, <2>3 DEF SameRequest, Exclusive
<1>13. Moved(t)'
  <2> SUFFICES ASSUME NEW v \in User, NEW d \in Company, w[v] = d
               PROVE  /\ Seen(t, <<v, d>>)' # None
                      /\ Has(t, <<v, d>>, "SHARE")' \/ Has(t, <<v, d>>, "UPDATE")' \/ Has(t, v, "UPDATE")'
    BY <1>5 DEF Moved
  <2>1. v = u /\ d = c
    BY <1>6, <1>7
  <2>2. CASE job[t].op = "switchCurrentCompany"
    <3>1. Has(t, <<v, d>>, "SHARE") /\ Seen(t, <<v, d>>) # None
      BY <1>0, <1>1, <2>1, <2>2 DEF Pending, Pointing, Seen
    <3> QED BY <1>5, <1>8, <3>1
  <2>3. CASE job[t].op # "switchCurrentCompany"
    <3>1. own[t][<<v, d>>] \in Role /\ db[<<v, d>>] = None
      BY <1>0, <1>1, <2>1, <2>3 DEF Pending, Pointing
    <3>2. Has(t, <<v, d>>, "UPDATE") /\ Seen(t, <<v, d>>) # None
      BY <1>0, <1>7, <3>1 DEF Pending, Joined, Seen
    <3> QED BY <1>5, <1>8, <3>2
  <2> QED BY <2>2, <2>3
<1>14. Named(t)'
  <2>1. \A v \in User, d \in Company : w[<<v, d>>] \in Role => Seen(t, d)' # None
    BY <1>0, <1>6, <1>8 DEF Pending, Named
  <2>2. j.op \in {"createSignupCompany", "addCompany"} => w[j.company] = "ACTIVE"
    BY <1>0, <1>1, <1>2, <1>3, <1>6 DEF Pending, Named, SameRequest
  <2>3. j.op \in {"createInvitation", "acceptInvitation"} => db[j.company] # None
    BY <1>0, <1>3 DEF Pending, Named, SameRequest
  <2>4. /\ \A d \in Company : w[d] # Unwritten => w[d] # None /\ d = j.company
        /\ \A i \in Invitation : w[i] \in InvitationRecord => db[w[i].company] # None
    BY <1>0, <1>3, <1>6 DEF Pending, Named, SameRequest
  <2> QED BY <1>5, <2>1, <2>2, <2>3, <2>4 DEF Named
<1>15. Orphans(t)' /\ Pointing(t)'
  BY <1>0, <1>3, <1>5 DEF Pending, Orphans, Pointing, SameRequest
<1>16. Alone(t)'
  BY <1>0, <1>1, <1>3, <1>5 DEF Pending, Alone, SameRequest
<1>17. Backed(t)'
  BY <1>0, <1>1, <1>3, <1>5 DEF Pending, Backed, SameRequest
<1> QED BY <1>1, <1>10, <1>11, <1>12, <1>13, <1>14, <1>15, <1>16, <1>17 DEF Pending, Owes

\* Every statement of every use case owes only what Pending says.
LEMMA TxStepOwes ==
    ASSUME BelongInv, NEW t \in Slot, TxStep(t)
    PROVE  Owes(t)
<1>1. CASE \/ SnapshotOwners(t) \/ LockOwners(t) \/ CheckBlocking(t) \/ Recheck(t)
           \/ FindCompany(t)
  BY <1>1, EarlyOwners
<1>2. CASE \/ LockMembershipChanges(t) \/ CountActive(t) \/ InsertCompany(t)
           \/ LockMembershipForShare(t) \/ VerifyInviter(t)
  BY <1>2, EarlyJoining
<1>3. CASE \/ RevokePendingInvitations(t) \/ UpdateCompany(t) \/ InsertInvitation(t)
           \/ MarkInvitationAccepted(t) \/ MarkInvitationRevoked(t)
  BY <1>3, EarlyInvitations
<1>4. CASE \/ SetRole(t) \/ Promote(t) \/ Demote(t) \/ DeleteMembership(t)
           \/ CountOwners(t) \/ RemoveMemberships(t)
  BY <1>4, MemberStatements
<1>5. CASE ReassignLastUsedCompany(t)
  BY <1>5, ReassignOwes
<1>6. CASE CountOrphan(t)
  BY <1>6, CountOrphanOwes
<1>7. CASE DeleteUser(t)
  BY <1>7, DeleteUserOwes
<1>8. CASE SoftDeleteCompany(t)
  BY <1>8, SoftDeleteOwes
<1>9. CASE InsertMembership(t)
  BY <1>9, InsertMembershipOwes
<1>10. CASE SetCurrent(t)
  BY <1>10, SetCurrentOwes
<1>11. CASE Commit(t)
  BY <1>11 DEF Owes
<1> QED BY <1>1, <1>2, <1>3, <1>4, <1>5, <1>6, <1>7, <1>8, <1>9, <1>10, <1>11 DEF TxStep

-----------------------------------------------------------------------------
(* The theorems.                                                           *)

LEMMA BelongInit == Init => BelongInv
<1> SUFFICES ASSUME Init PROVE BelongInv
  OBVIOUS
<1>1. IInv
  BY InitInv
<1>2. Consistent(db) /\ held = {} /\ \A t \in Slot : job[t] = NoJob
  BY ConsistentStart DEF Init
<1>3. Compatible
  BY <1>2 DEF Compatible, Has
<1>4. ASSUME NEW t \in Slot PROVE Pending(t)
  <2>1. \A r \in Row : own[t][r] = Unwritten
    BY <1>1, <1>2 DEF Init, Clean, IInv, TypeOK, RowsTyped
  <2>2. /\ \A u \in User : own[t][u] = Unwritten
        /\ \A c \in Company : own[t][c] = Unwritten
        /\ \A i \in Invitation : own[t][i] = Unwritten
        /\ \A m \in Membership : own[t][m] = Unwritten
        /\ \A u \in User, c \in Company : own[t][<<u, c>>] = Unwritten
    BY <2>1, RowTypes DEF Membership
  <2>3. /\ Unwritten \notin Company \cup Role \cup InvitationRecord
        /\ Unwritten \notin {None, Gone, NoCompany} /\ None \notin User
    BY MarkersDistinct
  <2>4. Untouched(t) /\ Left(t) /\ Joined(t)
    BY <2>2, <2>3 DEF Untouched, Left, Joined
  <2>5. Moved(t) /\ Homeless(t) /\ Deleted(t) /\ UserWrites(t)
    BY <2>2, <2>3 DEF Moved, Homeless, Deleted, UserWrites
  <2>6. Orphans(t) /\ Pointing(t) /\ Alone(t) /\ Backed(t)
    BY <1>2 DEF Orphans, Pointing, Alone, Backed, NoJob
  <2>7. Named(t)
    BY <1>2, <2>2, <2>3 DEF Named, NoJob
  <2> QED BY <2>4, <2>5, <2>6, <2>7 DEF Pending
<1> QED BY <1>1, <1>2, <1>3, <1>4 DEF BelongInv

\* BelongInv is inductive.
LEMMA BelongStep == BelongInv /\ [Next]_vars => BelongInv'
<1> SUFFICES ASSUME BelongInv, [Next]_vars PROVE BelongInv'
  OBVIOUS
<1>1. IInv'
  BY StepInv DEF BelongInv
<1>2. CASE UNCHANGED vars
  <2>1. UNCHANGED <<db, own, held, job>>
    BY <1>2 DEF vars
  <2>2. Consistent(db)'
    BY <2>1 DEF BelongInv, Consistent, IsMember, Live, IsRow
  <2> QED BY <1>1, <2>1, <2>2, OthersKept, CompatibleLess DEF BelongInv, Has
<1>3. ASSUME NEW t \in Slot, Guard(t) PROVE BelongInv'
  <2>1. PICK j : Grant(t, j) /\ StartsClean(j)
    BY <1>3, GuardClean
  <2> QED BY <1>1, <2>1, GrantBelongs DEF BelongInv
<1>4. ASSUME NEW t \in Slot, TxStep(t) \/ DbFailure(t) PROVE BelongInv'
  <2>1. Owes(t)
    BY <1>4, TxStepOwes DEF DbFailure, Owes
  <2> QED BY <1>1, <2>1, OwesBelongs DEF BelongInv
<1>5. CASE (\E u \in User : SignUp(u)) \/ (\E i \in Invitation : Expire(i))
  BY <1>1, <1>5, OutsideBelongs DEF BelongInv
<1> QED BY <1>2, <1>3, <1>4, <1>5 DEF Next

\* What every transaction under way owes: the locks it holds are compatible
\* with all others, a user it takes out of a company is locked and moved or
\* deleted before it commits, a user it adds exists and stays, and the foreign
\* keys hold in every committed state (db/repositories/, db/schema.ts).
THEOREM BelongingKept == Spec => []BelongInv
BY BelongInit, BelongStep, PTL DEF Spec

\* No interleaving of joins, switches, removals, company deletions,
\* withdrawals and sweeps commits a last_used_company_id that dangles or is
\* NULL for somebody who belongs to a company (applyJoin, switchCurrentCompany,
\* reassignLastUsedCompanyAfterLeaving).
THEOREM CurrentCompanyKept == Spec => []CurrentCompanyTracksMembership
<1>1. BelongInv => CurrentCompanyTracksMembership
  BY DEF BelongInv, Consistent, CurrentCompanyTracksMembership
<1> QED BY <1>1, BelongingKept, PTL

\* Whoever becomes OWNER by an invitation does so while the inviter is OWNER:
\* the FOR SHARE lock of verifyInviter keeps demotions and removals of the
\* inviter out until the acceptance commits (acceptInvitation).
THEOREM OwnerInvitationsBacked == Spec => OwnerInvitationBacked
<1>1. ASSUME BelongInv, [Next]_vars, NEW t \in Slot, Ends(t),
             job[t].op = "acceptInvitation", job[t].role = "OWNER",
             ~IsMember(db, job[t].user, job[t].company),
             IsMember(db', job[t].user, job[t].company)
      PROVE  IsOwner(db, job[t].actor, job[t].company)
  <2> DEFINE m == <<job[t].user, job[t].company>>
  <2>1. m \in Row /\ m \notin User
    <3>1. m \in Membership
      BY <1>1 DEF BelongInv, IInv, Flow, JobSound, Membership
    <3> QED BY <3>1, RowTypes, RowTables
  <2>2. db'[m] # db[m]
    BY <1>1 DEF IsMember
  <2>3. Commit(t)
    BY <1>1, <2>1, <2>2, WritesEndInCommit DEF BelongInv
  <2> QED BY <1>1, <2>3 DEF BelongInv, Pending, Backed, Commit, At, IsOwner
<1> DEFINE Held == \A t \in Slot :
                      /\ Ends(t)
                      /\ job[t].op = "acceptInvitation" /\ job[t].role = "OWNER"
                      /\ ~IsMember(db, job[t].user, job[t].company)
                      /\ IsMember(db', job[t].user, job[t].company)
                      => IsOwner(db, job[t].actor, job[t].company)
<1>2. BelongInv /\ [Next]_vars => [Held]_vars
  BY <1>1
<1> QED BY <1>2, BelongingKept, PTL DEF Spec, OwnerInvitationBacked

\* An account that exists is deleted by a commit only.
LEMMA DeletedByCommit ==
    ASSUME IInv, [Next]_vars, NEW u \in User, Live(db, u), db'[u] = Gone
    PROVE  \E t \in Slot : Commit(t) /\ own[t][u] = Gone
<1>0. u \in Row /\ db[u] # Gone
  BY RowTypes DEF Live
<1>1. ASSUME db' = db PROVE FALSE
  BY <1>0, <1>1
<1>2. ASSUME NEW v \in User, SignUp(v) PROVE FALSE
  <2>1. u # v /\ db' = [db EXCEPT ![v] = NoCompany]
    BY <1>2 DEF SignUp, Live
  <2> QED BY <1>0, <2>1 DEF IInv, TypeOK, RowsTyped
<1>3. ASSUME NEW t \in Slot, Commit(t) PROVE own[t][u] = Gone
  BY <1>0, <1>3, CommitEffect
<1>4. ASSUME NEW t \in Slot, Shape(t) PROVE Commit(t)
  BY <1>1, <1>4 DEF Shape, Statement, Execute, Rollback, Discard
<1>5. CASE UNCHANGED vars
  BY <1>1, <1>5 DEF vars
<1>6. CASE Next
  <2>1. ASSUME NEW t \in Slot, NEW j, Grant(t, j) PROVE FALSE
    BY <1>1, <2>1 DEF Grant
  <2>2. ASSUME NEW i \in Invitation, Expire(i) PROVE FALSE
    BY <1>1, <2>2 DEF Expire
  <2> QED BY <1>2, <1>3, <1>4, <1>6, <2>1, <2>2, StepKinds
<1> QED BY <1>5, <1>6

\* deleteAccountIfOrphaned deletes orphans only: what it counts under the lock
\* of the user is still true when the removal, the company deletion or the
\* sweep commits, since whoever joins a company needs KEY SHARE on the user.
THEOREM OrphansOnly == Spec => OnlyOrphansDeleted
<1>1. ASSUME BelongInv, [Next]_vars, NEW u \in User, Live(db, u), db'[u] = Gone
      PROVE  \E t \in Slot :
                /\ own[t][u] = Gone
                /\ \/ job[t].op = "deleteAccount"
                   \/ activeCompaniesOf(db, u) \subseteq {job[t].company}
  <2>1. PICK t \in Slot : Commit(t) /\ own[t][u] = Gone
    BY <1>1, DeletedByCommit DEF BelongInv
  <2>2. job[t].op # "deleteAccount" =>
          \A c \in Company : db[<<u, c>>] # None /\ db[c] = "ACTIVE" => c = job[t].company
    BY <1>1, <2>1 DEF BelongInv, Pending, Deleted
  <2>3. job[t].op # "deleteAccount" => activeCompaniesOf(db, u) \subseteq {job[t].company}
    BY <2>2 DEF activeCompaniesOf, IsMember
  <2> QED BY <2>1, <2>3
<1> DEFINE Held == \A u \in User : Live(db, u) /\ db'[u] = Gone =>
                      \E t \in Slot :
                         /\ own[t][u] = Gone
                         /\ \/ job[t].op = "deleteAccount"
                            \/ activeCompaniesOf(db, u) \subseteq {job[t].company}
<1>2. BelongInv /\ [Next]_vars => [Held]_vars
  BY <1>1
<1> QED BY <1>2, BelongingKept, PTL DEF Spec, OnlyOrphansDeleted

\* Two sign-ups of the same user, or a sign-up and an acceptance, never both
\* give a first company: the advisory lock of lockMembershipChangesOfUser is
\* held from the count to the commit (createSignupCompany).
THEOREM SignupFirst == Spec => SignupCompanyIsFirst
<1>1. ASSUME BelongInv, [Next]_vars, NEW t \in Slot, job[t].op = "createSignupCompany",
             db[job[t].company] = None, db'[job[t].company] = "ACTIVE"
      PROVE  activeCompaniesOf(db, job[t].user) = {}
  <2> DEFINE c == job[t].company
  <2>1. c \in Company /\ c \in Row /\ c \notin User
    BY <1>1, RowTypes, RowTables DEF BelongInv, IInv, Flow, JobSound
  <2>2. db'[c] # db[c]
    BY <1>1, MarkersDistinct
  <2>3. PICK s \in Slot : Commit(s)
    BY <1>1, <2>1, <2>2, OnlyCommitsWrite DEF BelongInv
  <2>4. own[s][c] # Unwritten
    BY <1>1, <2>1, <2>2, <2>3, CommitEffect DEF BelongInv
  <2>5. Creates(job[s], c) /\ Creates(job[t], c)
    BY <1>1, <2>1, <2>4, MarkersDistinct DEF BelongInv, IInv, CompanyWrites, Creates
  <2>6. s = t
    BY <1>1, <2>1, <2>5 DEF BelongInv, IInv, FreshIds
  <2>7. \A d \in Company : db[<<job[t].user, d>>] # None => db[d] # "ACTIVE"
    BY <1>1, <2>3, <2>6 DEF BelongInv, Pending, Alone, Commit, At
  <2> QED BY <2>7 DEF activeCompaniesOf, IsMember
<1> DEFINE Held == \A t \in Slot :
                      /\ job[t].op = "createSignupCompany"
                      /\ db[job[t].company] = None /\ db'[job[t].company] = "ACTIVE"
                      => activeCompaniesOf(db, job[t].user) = {}
<1>2. BelongInv /\ [Next]_vars => [Held]_vars
  BY <1>1
<1> QED BY <1>2, BelongingKept, PTL DEF Spec, SignupCompanyIsFirst

=============================================================================
