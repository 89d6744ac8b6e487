---------------------------- MODULE TenancyProofs ---------------------------
(***************************************************************************)
(* Theorems about Tenancy for any number of users, companies, invitations  *)
(* and connections.                                                        *)
(*                                                                         *)
(* The argument rests on the lock discipline.  A transaction writes a row  *)
(* only under a lock that no two transactions can hold at once             *)
(* (WritesLocked, LocksExclude), so what it saw of the row when it wrote   *)
(* is still what is committed when it commits.  With the control flow of   *)
(* the use cases (Flow) and the freshness of handed-out ids (FreshIds)     *)
(* this gives the two facts about single rows that the code relies on: a   *)
(* company row is only ever rewritten while it is ACTIVE, an invitation is *)
(* only ever spent while it is PENDING.                                    *)
(***************************************************************************)
EXTENDS Tenancy, TLAPS

\* The modes under which a row may be written.
Exclusive == {"NO KEY UPDATE", "UPDATE"}

\* The statements each use case issues.
InFlow(op, pc) ==
    \/ op = "none" /\ pc \in {"idle"}
    \/ op = "changeRole" /\ pc \in
           {"snapshotOwners", "lockOwners", "setRole", "countOwners", "commit"}
    \/ op = "transferOwnership" /\ pc \in
           {"snapshotOwners", "lockOwners", "promote", "demote", "countOwners",
            "commit"}
    \/ op = "removeMember" /\ pc \in
           {"snapshotOwners", "lockOwners", "deleteMembership", "countOwners",
            "reassign", "orphan", "deleteUser", "commit"}
    \/ op = "deleteCompany" /\ pc \in
           {"snapshotOwners", "lockOwners", "recheck", "revokePending",
            "removeMemberships", "reassign", "orphan", "deleteUser",
            "softDelete", "commit"}
    \/ op = "deleteAccount" /\ pc \in
           {"snapshotOwners", "lockOwners", "advisory", "blocking",
            "deleteUser", "commit"}
    \/ op = "sweep" /\ pc \in {"orphan", "deleteUser", "commit"}
    \/ op = "updateCompanyInfo" /\ pc \in {"findCompany", "updateCompany", "commit"}
    \/ op = "createSignupCompany" /\ pc \in
           {"advisory", "countActive", "insertCompany", "insertMembership",
            "setCurrent", "commit"}
    \/ op = "addCompany" /\ pc \in
           {"insertCompany", "advisory", "insertMembership", "setCurrent",
            "commit"}
    \/ op = "switchCurrentCompany" /\ pc \in {"lockMembership", "setCurrent", "commit"}
    \/ op = "createInvitation" /\ pc \in {"insertInvitation", "commit"}
    \/ op = "revokeInvitation" /\ pc \in {"markRevoked", "commit"}
    \/ op = "acceptInvitation" /\ pc \in
           {"markAccepted", "verifyInviter", "advisory", "insertMembership",
            "setCurrent", "commit"}

\* Request j is at one of its statements and names the rows that they touch.
JobSound(j) ==
    /\ j \in Job
    /\ InFlow(j.op, j.pc)
    /\ j.op \notin {"none", "deleteAccount", "sweep"} => j.company \in Company
    /\ \/ j.op \in {"changeRole", "transferOwnership", "removeMember",
                    "deleteAccount", "createSignupCompany", "addCompany",
                    "switchCurrentCompany", "createInvitation",
                    "acceptInvitation"}
       \/ j.pc = "deleteUser"
       => j.user \in User
    /\ j.op \in {"transferOwnership", "deleteCompany", "createInvitation",
                 "acceptInvitation"} => j.actor \in User
    /\ j.op \in {"createInvitation", "revokeInvitation", "acceptInvitation"}
       => j.invitation \in Invitation

\* Request j brings company c, or invitation i, into being.
Creates(j, c) == j.op \in {"createSignupCompany", "addCompany"} /\ j.company = c
Sends(j, i) == j.op = "createInvitation" /\ j.invitation = i

\* The control flow of the use cases.
Flow == \A t \in Slot : JobSound(job[t])

\* Every uncommitted write is covered by an exclusive lock.
WritesLocked ==
    \A t \in Slot, r \in Row : own[t][r] # Unwritten =>
        \E m \in Exclusive : <<t, r, m>> \in held

\* No two transactions hold an exclusive lock on the same row.
LocksExclude ==
    \A s, t \in Slot, r \in Row, m, n \in Exclusive :
        <<s, r, m>> \in held /\ <<t, r, n>> \in held => s = t

\* The ids handed out to the requests under way are unused and distinct.
FreshIds ==
    /\ \A t \in Slot, c \in Company : Creates(job[t], c) => db[c] = None
    /\ \A s, t \in Slot, c \in Company :
          Creates(job[s], c) /\ Creates(job[t], c) => s = t
    /\ \A t \in Slot, i \in Invitation : Sends(job[t], i) => db[i] = None
    /\ \A s, t \in Slot, i \in Invitation :
          Sends(job[s], i) /\ Sends(job[t], i) => s = t

\* A company row is written by its creator or while it is ACTIVE.
CompanyWrites ==
    \A t \in Slot, c \in Company : own[t][c] # Unwritten =>
        db[c] = "ACTIVE" \/ (db[c] = None /\ Creates(job[t], c))

\* An invitation row is written by its sender, while it is PENDING, or by the
\* cascade that deletes it.
InvitationWrites ==
    \A t \in Slot, i \in Invitation : own[t][i] # Unwritten =>
        \/ IsPending(db, i)
        \/ IsRow(db, i) /\ own[t][i] = Gone
        \/ db[i] = None /\ Sends(job[t], i)

\* Once past its first statement, an acceptance has spent the invitation.
AcceptanceSpends ==
    \A t \in Slot : job[t].op = "acceptInvitation" /\ job[t].pc # "markAccepted" =>
        /\ own[t][job[t].invitation] \in InvitationRecord
        /\ own[t][job[t].invitation].status = "ACCEPTED"
        /\ IsPending(db, job[t].invitation)

\* The inductive invariant.
IInv == /\ TypeOK /\ Flow /\ WritesLocked /\ LocksExclude /\ FreshIds
        /\ CompanyWrites /\ InvitationWrites /\ AcceptanceSpends

-----------------------------------------------------------------------------
(* Types.                                                                  *)

\* The tables are disjoint, so each row has the type of its own table.
LEMMA RowTypes ==
    /\ \A u \in User : u \in Row /\ ValueOf(u) = UserValue
    /\ \A c \in Company : c \in Row /\ ValueOf(c) = CompanyValue
    /\ \A i \in Invitation : i \in Row /\ ValueOf(i) = InvitationValue
    /\ \A m \in Membership : m \in Row /\ ValueOf(m) = MembershipValue
<1>1. \A u \in User : u \in Row /\ ValueOf(u) = UserValue
  BY DEF Row, ValueOf
<1>2. \A c \in Company : c \in Row /\ ValueOf(c) = CompanyValue
  BY TablesDisjoint DEF Row, ValueOf
<1>3. \A i \in Invitation : i \in Row /\ ValueOf(i) = InvitationValue
  BY TablesDisjoint DEF Row, ValueOf
<1>4. \A m \in Membership : m \in Row /\ ValueOf(m) = MembershipValue
  BY TablesDisjoint DEF Row, ValueOf
<1> QED BY <1>1, <1>2, <1>3, <1>4

\* Which table a row belongs to is decided by its key.
LEMMA RowTables ==
    /\ \A u \in User : u \notin Company /\ u \notin Invitation /\ u \notin Membership
    /\ \A c \in Company : c \notin User /\ c \notin Invitation /\ c \notin Membership
    /\ \A i \in Invitation : i \notin User /\ i \notin Company /\ i \notin Membership
    /\ \A m \in Membership : m \notin User /\ m \notin Company /\ m \notin Invitation
BY TablesDisjoint

\* No value of a row is the Unwritten marker.
LEMMA ValuesWritten == \A r \in Row : Unwritten \notin ValueOf(r)
BY MarkersDistinct DEF ValueOf, UserValue, CompanyValue, InvitationValue,
   MembershipValue, Role

\* What a transaction reads is typed: its own write where there is one, else
\* the committed row.
LEMMA ViewTyped ==
    ASSUME TypeOK, NEW t \in Slot
    PROVE  /\ RowsTyped(View(t))
           /\ \A r \in Row : View(t)[r] = IF own[t][r] = Unwritten THEN db[r]
                                          ELSE own[t][r]
BY DEF TypeOK, RowsTyped, WritesTyped, View

\* An idle slot is typed.
LEMMA NoJobSound == JobSound(NoJob)
BY DEF JobSound, NoJob, Job, Op, Pc, Role, InFlow

-----------------------------------------------------------------------------
(* What a statement and a grant of the use cases keep to.                  *)

\* Transaction t may write rows w under locks need: it locks what it writes,
\* and CompanyWrites and InvitationWrites allow it.
WritesSound(t, need, w) ==
    /\ need \subseteq Row \X Mode
    /\ WritesTyped(w)
    /\ \A r \in Row : w[r] # own[t][r] =>
          w[r] # Unwritten /\ \E m \in Exclusive : <<r, m>> \in need
    /\ \A c \in Company : w[c] # own[t][c] =>
          View(t)[c] = "ACTIVE" \/ Creates(job[t], c)
    /\ \A i \in Invitation : w[i] # own[t][i] =>
          \/ IsPending(View(t), i)
          \/ IsRow(View(t), i) /\ w[i] = Gone
          \/ Sends(job[t], i)

\* Job j is the request of t at another of its statements.
Continues(t, j) ==
    /\ JobSound(j)
    /\ j.op = job[t].op /\ j.company = job[t].company
    /\ j.invitation = job[t].invitation

\* An acceptance spends its invitation first and does not touch it again.
SpendsFirst(t, w, j) ==
    job[t].op = "acceptInvitation" =>
        LET i == job[t].invitation
        IN  IF job[t].pc = "markAccepted"
            THEN /\ w[i] \in InvitationRecord /\ w[i].status = "ACCEPTED"
                 /\ IsPending(View(t), i)
            ELSE j.pc # "markAccepted" /\ w[i] = own[t][i]

StatementSound(t, need, w, j) ==
    WritesSound(t, need, w) /\ Continues(t, j) /\ SpendsFirst(t, w, j)

\* A guard grants a well-formed request and hands out fresh ids only.
GrantSound(j) ==
    /\ JobSound(j)
    /\ \A c \in Company : Creates(j, c) => FreshCompany(c)
    /\ \A i \in Invitation : Sends(j, i) => FreshInvitation(i)
    /\ j.op = "acceptInvitation" => j.pc = "markAccepted"

\* A grant preserves the invariant: nothing is written yet.
LEMMA GrantPreserves ==
    ASSUME IInv, NEW t \in Slot, NEW j, Grant(t, j), GrantSound(j)
    PROVE  IInv'
<1> USE DEF Grant
<1>0. /\ job \in [Slot -> Job] /\ j \in Job
      /\ job' = [job EXCEPT ![t] = j]
      /\ \A s \in Slot : job'[s] = IF s = t THEN j ELSE job[s]
      /\ UNCHANGED <<db, own, held, expired>>
  BY DEF IInv, TypeOK, GrantSound, JobSound
<1>1. TypeOK'
  BY <1>0 DEF IInv, TypeOK
<1>2. Flow'
  BY <1>0 DEF IInv, Flow, GrantSound
<1>3. WritesLocked' /\ LocksExclude'
  BY <1>0 DEF IInv, WritesLocked, LocksExclude
<1>4. FreshIds'
  <2>1. \A s \in Slot, c \in Company : Creates(job'[s], c) => db[c] = None
    BY <1>0 DEF IInv, FreshIds, GrantSound, FreshCompany
  <2>2. \A s \in Slot, i \in Invitation : Sends(job'[s], i) => db[i] = None
    BY <1>0 DEF IInv, FreshIds, GrantSound, FreshInvitation
  <2>3. \A s, q \in Slot, c \in Company :
           Creates(job'[s], c) /\ Creates(job'[q], c) => s = q
    BY <1>0 DEF IInv, FreshIds, GrantSound, FreshCompany, Creates
  <2>4. \A s, q \in Slot, i \in Invitation :
           Sends(job'[s], i) /\ Sends(job'[q], i) => s = q
    BY <1>0 DEF IInv, FreshIds, GrantSound, FreshInvitation, Sends
  <2> QED BY <1>0, <2>1, <2>2, <2>3, <2>4 DEF FreshIds
<1>5. job[t] = NoJob
  OBVIOUS
<1>6. CompanyWrites'
  BY <1>0, <1>5 DEF IInv, CompanyWrites, Creates, NoJob
<1>7. InvitationWrites'
  BY <1>0, <1>5 DEF IInv, InvitationWrites, Sends, NoJob, IsPending, IsRow
<1>8. AcceptanceSpends'
  BY <1>0 DEF IInv, AcceptanceSpends, GrantSound, IsPending, IsRow
<1> QED BY <1>1, <1>2, <1>3, <1>4, <1>6, <1>7, <1>8 DEF IInv

\* A rollback preserves the invariant: the slot is as new.
LEMMA RollbackPreserves ==
    ASSUME IInv, NEW t \in Slot, Rollback(t)
    PROVE  IInv'
<1>0. /\ \A s \in Slot : job'[s] = IF s = t THEN NoJob ELSE job[s]
      /\ job' = [job EXCEPT ![t] = NoJob]
      /\ UNCHANGED <<db, expired>>
      /\ held' = held \ LocksOf(t)
      /\ DOMAIN own' = Slot
      /\ \A s \in Slot : s # t => own'[s] = own[s]
      /\ DOMAIN own'[t] = Row /\ \A r \in Row : own'[t][r] = Unwritten
  BY DEF IInv, TypeOK, Rollback, Discard, Clean, RowsTyped
<1>1. TypeOK'
  BY <1>0, NoJobSound DEF IInv, TypeOK, WritesTyped, LocksOf, JobSound
<1>2. Flow'
  BY <1>0, NoJobSound DEF IInv, Flow
<1>3. WritesLocked' /\ LocksExclude'
  <2>1. \A s \in Slot, r \in Row, m \in Exclusive :
           s # t /\ <<s, r, m>> \in held => <<s, r, m>> \in held'
    BY <1>0 DEF LocksOf
  <2>2. WritesLocked'
    <3> SUFFICES ASSUME NEW s \in Slot, NEW r \in Row, own'[s][r] # Unwritten
                 PROVE  \E m \in Exclusive : <<s, r, m>> \in held'
      BY DEF WritesLocked
    <3>1. s # t /\ own[s][r] # Unwritten
      BY <1>0
    <3>2. PICK m \in Exclusive : <<s, r, m>> \in held
      BY <3>1 DEF IInv, WritesLocked
    <3> QED BY <2>1, <3>1, <3>2
  <2>3. LocksExclude'
    BY <1>0 DEF IInv, LocksExclude
  <2> QED BY <2>2, <2>3
<1>4. FreshIds'
  BY <1>0 DEF IInv, FreshIds, NoJob, Creates, Sends
<1>5. CompanyWrites'
  BY <1>0, RowTypes DEF IInv, CompanyWrites
<1>6. InvitationWrites'
  BY <1>0, RowTypes DEF IInv, InvitationWrites, IsPending, IsRow
<1>7. AcceptanceSpends'
  BY <1>0 DEF IInv, AcceptanceSpends, NoJob, IsPending, IsRow
<1> QED BY <1>1, <1>2, <1>3, <1>4, <1>5, <1>6, <1>7 DEF IInv

\* A sound statement preserves the invariant.
LEMMA StatementPreserves ==
    ASSUME IInv, NEW t \in Slot, NEW need, NEW w, NEW j,
           Statement(t, need, w, j), StatementSound(t, need, w, j)
    PROVE  IInv'
<1>0. /\ \A s \in Slot : job'[s] = IF s = t THEN j ELSE job[s]
      /\ job' = [job EXCEPT ![t] = j]
      /\ UNCHANGED <<db, expired>>
      /\ held' = held \cup {<<t, l[1], l[2]>> : l \in need}
      /\ AllFree(t, need)
      /\ DOMAIN own' = Slot
      /\ \A s \in Slot : own'[s] = IF s = t THEN w ELSE own[s]
      /\ need \subseteq Row \X Mode
      /\ JobSound(j)
  BY DEF IInv, TypeOK, Statement, Execute, StatementSound, WritesSound, Continues, SpendsFirst
<1>1. TypeOK'
  <2>1. held' \subseteq Slot \X Row \X Mode
    BY <1>0 DEF IInv, TypeOK
  <2>2. \A s \in Slot : WritesTyped(own'[s])
    BY <1>0 DEF IInv, TypeOK, StatementSound, WritesSound, Continues, SpendsFirst
  <2>3. job' \in [Slot -> Job]
    BY <1>0 DEF IInv, TypeOK, JobSound
  <2> QED BY <1>0, <2>1, <2>2, <2>3 DEF IInv, TypeOK, WritesTyped
<1>2. Flow'
  BY <1>0 DEF IInv, Flow
<1>3. WritesLocked'
  <2> SUFFICES ASSUME NEW s \in Slot, NEW r \in Row, own'[s][r] # Unwritten
               PROVE  \E m \in Exclusive : <<s, r, m>> \in held'
    BY <1>0 DEF WritesLocked
  <2>1. CASE own'[s][r] = own[s][r]
    BY <1>0, <2>1 DEF IInv, WritesLocked
  <2>2. CASE own'[s][r] # own[s][r]
    <3>1. s = t /\ w[r] # own[t][r]
      BY <1>0, <2>2
    <3>2. PICK m \in Exclusive : <<r, m>> \in need
      BY <3>1 DEF StatementSound, WritesSound, Continues, SpendsFirst
    <3>3. <<t, r, m>> \in held'
      <4>1. /\ <<r, m>>[1] = r /\ <<r, m>>[2] = m
        OBVIOUS
      <4> QED BY <1>0, <3>2, <4>1
    <3> QED BY <3>1, <3>2, <3>3
  <2> QED BY <2>1, <2>2
<1>4. LocksExclude'
  <2>1. \A s \in Slot, r \in Row, m, n \in Exclusive :
           s # t /\ <<s, r, m>> \in held => <<r, n>> \notin need
    <3> SUFFICES ASSUME NEW s \in Slot, NEW r \in Row, NEW m \in Exclusive,
                        NEW n \in Exclusive, s # t, <<s, r, m>> \in held,
                        <<r, n>> \in need
                 PROVE  FALSE
      OBVIOUS
    <3>1. Free(t, r, n)
      BY <1>0 DEF AllFree
    <3>2. m \notin ConflictsWith(n)
      BY <3>1 DEF Free
    <3> QED BY <3>2 DEF Exclusive, ConflictsWith, RowLock
  <2>2. \A s \in Slot, r \in Row, m \in Exclusive :
           <<s, r, m>> \in held' =>
              \/ <<s, r, m>> \in held
              \/ s = t /\ <<r, m>> \in need
    BY <1>0
  <2> SUFFICES ASSUME NEW s \in Slot, NEW q \in Slot, NEW r \in Row,
                      NEW m \in Exclusive, NEW n \in Exclusive,
                      <<s, r, m>> \in held', <<q, r, n>> \in held'
               PROVE  s = q
    BY DEF LocksExclude
  <2>3. CASE <<s, r, m>> \in held /\ <<q, r, n>> \in held
    BY <2>3 DEF IInv, LocksExclude
  <2>4. CASE <<s, r, m>> \notin held
    BY <2>1, <2>2, <2>4
  <2>5. CASE <<q, r, n>> \notin held
    BY <2>1, <2>2, <2>5
  <2> QED BY <2>3, <2>4, <2>5
<1>5. FreshIds'
  BY <1>0 DEF IInv, FreshIds, StatementSound, Continues, Creates, Sends
<1>6. CompanyWrites'
  <2> SUFFICES ASSUME NEW s \in Slot, NEW c \in Company, own'[s][c] # Unwritten
               PROVE  db[c] = "ACTIVE" \/ (db[c] = None /\ Creates(job'[s], c))
    BY <1>0 DEF CompanyWrites
  <2>1. Creates(job'[s], c) <=> Creates(job[s], c)
    BY <1>0 DEF StatementSound, Continues, Creates
  <2>2. CASE own[s][c] # Unwritten
    BY <2>1, <2>2 DEF IInv, CompanyWrites
  <2>3. CASE own[s][c] = Unwritten
    <3>1. s = t /\ w[c] # own[t][c]
      BY <1>0, <2>3
    <3>2. View(t)[c] = "ACTIVE" \/ Creates(job[t], c)
      BY <3>1 DEF StatementSound, WritesSound, Continues, SpendsFirst
    <3>3. View(t)[c] = db[c]
      BY <3>1, <2>3, ViewTyped, RowTypes DEF IInv
    <3> QED BY <2>1, <3>1, <3>2, <3>3 DEF IInv, FreshIds
  <2> QED BY <2>2, <2>3
<1>7. InvitationWrites'
  <2> SUFFICES ASSUME NEW s \in Slot, NEW i \in Invitation,
                      own'[s][i] # Unwritten
               PROVE  \/ IsPending(db, i)
                      \/ IsRow(db, i) /\ own'[s][i] = Gone
                      \/ db[i] = None /\ Sends(job'[s], i)
    BY <1>0 DEF InvitationWrites, IsPending, IsRow
  <2>1. Sends(job'[s], i) <=> Sends(job[s], i)
    BY <1>0 DEF StatementSound, Continues, Sends
  <2>2. CASE own'[s][i] = own[s][i]
    BY <2>1, <2>2 DEF IInv, InvitationWrites
  <2>3. CASE own'[s][i] # own[s][i]
    <3>1. s = t /\ w[i] # own[t][i]
      BY <1>0, <2>3
    <3>2. \/ IsPending(View(t), i)
          \/ IsRow(View(t), i) /\ w[i] = Gone
          \/ Sends(job[t], i)
      BY <3>1 DEF StatementSound, WritesSound, Continues, SpendsFirst
    <3>3. View(t)[i] = IF own[t][i] = Unwritten THEN db[i] ELSE own[t][i]
      BY ViewTyped, RowTypes DEF IInv
    <3>4. own'[s][i] = w[i]
      BY <1>0, <3>1
    <3>5. CASE Sends(job[t], i)
      BY <2>1, <3>1, <3>5 DEF IInv, FreshIds
    <3>6. CASE own[t][i] = Unwritten /\ ~Sends(job[t], i)
      BY <3>2, <3>3, <3>4, <3>6 DEF IsPending, IsRow
    <3>7. CASE own[t][i] # Unwritten /\ ~Sends(job[t], i)
      BY <3>2, <3>3, <3>7 DEF IInv, InvitationWrites, IsPending, IsRow
    <3> QED BY <3>5, <3>6, <3>7
  <2> QED BY <2>2, <2>3
<1>8. AcceptanceSpends'
  <2> SUFFICES ASSUME NEW s \in Slot, job'[s].op = "acceptInvitation",
                      job'[s].pc # "markAccepted"
               PROVE  /\ own'[s][job'[s].invitation] \in InvitationRecord
                      /\ own'[s][job'[s].invitation].status = "ACCEPTED"
                      /\ IsPending(db, job'[s].invitation)
    BY <1>0 DEF AcceptanceSpends, IsPending, IsRow
  <2>1. CASE s # t
    BY <1>0, <2>1 DEF IInv, AcceptanceSpends
  <2>2. CASE s = t /\ job[t].pc # "markAccepted"
    BY <1>0, <2>2 DEF IInv, AcceptanceSpends, StatementSound, WritesSound, Continues, SpendsFirst
  <2>3. CASE s = t /\ job[t].pc = "markAccepted"
    <3> DEFINE i == j.invitation
    <3>1. /\ job'[s] = j /\ own'[s] = w /\ job[t].op = "acceptInvitation"
          /\ i \in Invitation /\ job[t].invitation = i
          /\ w[i] \in InvitationRecord /\ w[i].status = "ACCEPTED"
          /\ IsPending(View(t), i)
      BY <1>0, <2>3 DEF StatementSound, Continues, SpendsFirst, JobSound
    <3>2. View(t)[i] = IF own[t][i] = Unwritten THEN db[i] ELSE own[t][i]
      BY <3>1, ViewTyped, RowTypes DEF IInv
    <3>3. ~Sends(job[t], i)
      BY <3>1 DEF Sends
    <3>4. IsPending(db, i)
      BY <3>1, <3>2, <3>3 DEF IInv, InvitationWrites, IsPending, IsRow
    <3> QED BY <3>1, <3>4
  <2> QED BY <2>1, <2>2, <2>3
<1> QED BY <1>1, <1>2, <1>3, <1>4, <1>5, <1>6, <1>7, <1>8 DEF IInv

\* What a commit leaves: the view of the transaction, and a slot as new.
LEMMA CommitEffect ==
    ASSUME IInv, NEW t \in Slot, Commit(t)
    PROVE  /\ DOMAIN db' = Row
           /\ \A r \in Row : db'[r] = IF own[t][r] = Unwritten THEN db[r]
                                      ELSE own[t][r]
           /\ job' = [job EXCEPT ![t] = NoJob]
           /\ \A s \in Slot : job'[s] = IF s = t THEN NoJob ELSE job[s]
           /\ expired' = expired
           /\ held' = held \ LocksOf(t)
           /\ DOMAIN own' = Slot
           /\ \A s \in Slot : s # t => own'[s] = own[s]
           /\ DOMAIN own'[t] = Row /\ \A r \in Row : own'[t][r] = Unwritten
           /\ \A s \in Slot, r \in Row :
                 s # t /\ own[s][r] # Unwritten => db'[r] = db[r]
<1>1. /\ DOMAIN db' = Row
      /\ \A r \in Row : db'[r] = IF own[t][r] = Unwritten THEN db[r]
                                 ELSE own[t][r]
  BY ViewTyped DEF IInv, Commit, Publish, RowsTyped
<1>2. /\ job' = [job EXCEPT ![t] = NoJob]
      /\ \A s \in Slot : job'[s] = IF s = t THEN NoJob ELSE job[s]
      /\ expired' = expired
      /\ held' = held \ LocksOf(t)
  BY DEF IInv, TypeOK, Commit, Publish
<1>3. /\ DOMAIN own' = Slot
      /\ \A s \in Slot : s # t => own'[s] = own[s]
      /\ DOMAIN own'[t] = Row /\ \A r \in Row : own'[t][r] = Unwritten
  BY DEF IInv, TypeOK, RowsTyped, Commit, Publish, Clean
<1>4. ASSUME NEW s \in Slot, NEW r \in Row, s # t, own[s][r] # Unwritten
      PROVE  db'[r] = db[r]
  <2>1. PICK m \in Exclusive : <<s, r, m>> \in held
    BY <1>4 DEF IInv, WritesLocked
  <2>2. own[t][r] = Unwritten
    BY <1>4, <2>1 DEF IInv, WritesLocked, LocksExclude
  <2> QED BY <1>1, <2>2
<1> QED BY <1>1, <1>2, <1>3, <1>4

\* A commit preserves the invariant.
LEMMA CommitPreserves ==
    ASSUME IInv, NEW t \in Slot, Commit(t)
    PROVE  IInv'
<1>0. /\ DOMAIN db' = Row
      /\ \A r \in Row : db'[r] = IF own[t][r] = Unwritten THEN db[r]
                                 ELSE own[t][r]
      /\ job' = [job EXCEPT ![t] = NoJob]
      /\ \A s \in Slot : job'[s] = IF s = t THEN NoJob ELSE job[s]
      /\ expired' = expired
      /\ held' = held \ LocksOf(t)
      /\ DOMAIN own' = Slot
      /\ \A s \in Slot : s # t => own'[s] = own[s]
      /\ DOMAIN own'[t] = Row /\ \A r \in Row : own'[t][r] = Unwritten
      /\ \A s \in Slot, r \in Row :
            s # t /\ own[s][r] # Unwritten => db'[r] = db[r]
  BY CommitEffect
<1>1. TypeOK'
  <2>1. RowsTyped(db')
    BY <1>0 DEF IInv, TypeOK, RowsTyped, WritesTyped
  <2>2. \A s \in Slot : WritesTyped(own'[s])
    BY <1>0 DEF IInv, TypeOK, WritesTyped
  <2>3. job' \in [Slot -> Job]
    BY <1>0, NoJobSound DEF IInv, TypeOK, JobSound
  <2>4. held' \subseteq Slot \X Row \X Mode
    BY <1>0 DEF IInv, TypeOK
  <2> QED BY <1>0, <2>1, <2>2, <2>3, <2>4 DEF IInv, TypeOK, WritesTyped, RowsTyped
<1>2. Flow'
  BY <1>0, NoJobSound DEF IInv, Flow
<1>3. WritesLocked'
  <2> SUFFICES ASSUME NEW s \in Slot, NEW r \in Row, own'[s][r] # Unwritten
               PROVE  \E m \in Exclusive : <<s, r, m>> \in held'
    BY DEF WritesLocked
  <2>1. s # t /\ own[s][r] # Unwritten
    BY <1>0
  <2>2. PICK m \in Exclusive : <<s, r, m>> \in held
    BY <2>1 DEF IInv, WritesLocked
  <2>3. <<s, r, m>> \in held'
    BY <1>0, <2>1, <2>2 DEF LocksOf
  <2> QED BY <2>3
<1>4. LocksExclude'
  BY <1>0 DEF IInv, LocksExclude
<1>5. FreshIds'
  <2>1. ASSUME NEW s \in Slot, NEW c \in Company, Creates(job'[s], c)
        PROVE  db'[c] = None
    <3>1. s # t /\ Creates(job[s], c)
      BY <1>0, <2>1 DEF Creates, NoJob
    <3>2. db[c] = None /\ ~Creates(job[t], c)
      BY <3>1 DEF IInv, FreshIds
    <3>3. own[t][c] = Unwritten
      BY <3>2, MarkersDistinct DEF IInv, CompanyWrites
    <3> QED BY <1>0, <3>2, <3>3, RowTypes
  <2>2. ASSUME NEW s \in Slot, NEW i \in Invitation, Sends(job'[s], i)
        PROVE  db'[i] = None
    <3>1. s # t /\ Sends(job[s], i)
      BY <1>0, <2>2 DEF Sends, NoJob
    <3>2. db[i] = None /\ ~Sends(job[t], i)
      BY <3>1 DEF IInv, FreshIds
    <3>3. own[t][i] = Unwritten
      BY <3>2 DEF IInv, InvitationWrites, IsPending, IsRow
    <3> QED BY <1>0, <3>2, <3>3, RowTypes
  <2>3. \A s, q \in Slot, c \in Company :
           Creates(job'[s], c) /\ Creates(job'[q], c) => s = q
    BY <1>0 DEF IInv, FreshIds, NoJob, Creates
  <2>4. \A s, q \in Slot, i \in Invitation :
           Sends(job'[s], i) /\ Sends(job'[q], i) => s = q
    BY <1>0 DEF IInv, FreshIds, NoJob, Sends
  <2> QED BY <2>1, <2>2, <2>3, <2>4 DEF FreshIds
<1>6. CompanyWrites'
  <2> SUFFICES ASSUME NEW s \in Slot, NEW c \in Company, own'[s][c] # Unwritten
               PROVE  db'[c] = "ACTIVE" \/ (db'[c] = None /\ Creates(job'[s], c))
    BY DEF CompanyWrites
  <2>1. s # t /\ own[s][c] # Unwritten /\ job'[s] = job[s] /\ db'[c] = db[c]
    BY <1>0, RowTypes
  <2> QED BY <2>1 DEF IInv, CompanyWrites
<1>7. InvitationWrites'
  <2> SUFFICES ASSUME NEW s \in Slot, NEW i \in Invitation,
                      own'[s][i] # Unwritten
               PROVE  \/ IsPending(db', i)
                      \/ IsRow(db', i) /\ own'[s][i] = Gone
                      \/ db'[i] = None /\ Sends(job'[s], i)
    BY DEF InvitationWrites, IsPending, IsRow
  <2>1. /\ s # t /\ own[s][i] # Unwritten /\ job'[s] = job[s]
        /\ db'[i] = db[i] /\ own'[s] = own[s]
    BY <1>0, RowTypes
  <2> QED BY <2>1 DEF IInv, InvitationWrites, IsPending, IsRow
<1>8. AcceptanceSpends'
  <2> SUFFICES ASSUME NEW s \in Slot, job'[s].op = "acceptInvitation",
                      job'[s].pc # "markAccepted"
               PROVE  /\ own'[s][job'[s].invitation] \in InvitationRecord
                      /\ own'[s][job'[s].invitation].status = "ACCEPTED"
                      /\ IsPending(db', job'[s].invitation)
    BY DEF AcceptanceSpends, IsPending, IsRow
  <2> DEFINE i == job[s].invitation
  <2>1. s # t /\ job'[s] = job[s] /\ own'[s] = own[s]
    BY <1>0 DEF NoJob
  <2>2. i \in Invitation /\ i \in Row
    BY <2>1, RowTypes DEF IInv, Flow, JobSound
  <2>3. /\ own[s][i] \in InvitationRecord /\ own[s][i].status = "ACCEPTED"
        /\ IsPending(db, i)
    BY <2>1 DEF IInv, AcceptanceSpends
  <2>4. own[s][i] # Unwritten
    BY <2>3, MarkersDistinct
  <2>5. db'[i] = db[i]
    BY <1>0, <2>1, <2>2, <2>4
  <2> QED BY <2>1, <2>3, <2>5 DEF IsPending, IsRow
<1> QED BY <1>1, <1>2, <1>3, <1>4, <1>5, <1>6, <1>7, <1>8 DEF IInv

\* A sign-up touches a user row that did not exist; an expiry touches no row.
LEMMA OutsidePreserves ==
    ASSUME IInv, (\E u \in User : SignUp(u)) \/ (\E i \in Invitation : Expire(i))
    PROVE  IInv'
<1>0. /\ UNCHANGED <<own, held, job>>
      /\ \A r \in Row : r \notin User => db'[r] = db[r]
  BY RowTypes DEF SignUp, Expire, IInv, TypeOK, RowsTyped
<1>1. TypeOK'
  <2>1. RowsTyped(db')
    BY RowTypes DEF SignUp, Expire, IInv, TypeOK, RowsTyped, UserValue
  <2>2. expired' \subseteq Invitation
    BY DEF SignUp, Expire, IInv, TypeOK
  <2> QED BY <1>0, <2>1, <2>2 DEF IInv, TypeOK, WritesTyped, RowsTyped
<1>2. Flow' /\ WritesLocked' /\ LocksExclude'
  BY <1>0 DEF IInv, Flow, WritesLocked, LocksExclude
<1>3. \A r \in Company \cup Invitation : db'[r] = db[r]
  BY <1>0, RowTypes, RowTables
<1>4. FreshIds' /\ CompanyWrites'
  BY <1>0, <1>3 DEF IInv, FreshIds, CompanyWrites
<1>5. InvitationWrites'
  BY <1>0, <1>3 DEF IInv, InvitationWrites, IsPending, IsRow
<1>6. AcceptanceSpends'
  BY <1>0, <1>3 DEF IInv, Flow, JobSound, AcceptanceSpends, IsPending, IsRow
<1> QED BY <1>1, <1>2, <1>4, <1>5, <1>6 DEF IInv

-----------------------------------------------------------------------------
(* Every guard is sound.                                                   *)

\* Whatever a guard lets through is a sound grant.
LEMMA GuardSound ==
    ASSUME IInv, NEW t \in Slot, Guard(t)
    PROVE  \E j : Grant(t, j) /\ GrantSound(j)
<1> USE DEF JobSound, InFlow, Creates, Sends, Job, Op, Pc
<1>1. CASE RequireRoleChange(t)
  <2>1. PICK u \in User, c \in Company, r \in Role :
           Grant(t, [NoJob EXCEPT !.op = "changeRole",
                                  !.pc = "snapshotOwners", !.user = u,
                                  !.company = c, !.role = r])
    BY <1>1 DEF RequireRoleChange
  <2>2. GrantSound([NoJob EXCEPT !.op = "changeRole",
                                 !.pc = "snapshotOwners", !.user = u,
                                 !.company = c, !.role = r])
    BY DEF GrantSound, NoJob, Role
  <2> QED BY <2>1, <2>2
<1>2. CASE RequireRemoval(t)
  <2>1. PICK u \in User, c \in Company :
           Grant(t, [NoJob EXCEPT !.op = "removeMember",
                                  !.pc = "snapshotOwners", !.user = u,
                                  !.company = c])
    BY <1>2 DEF RequireRemoval
  <2>2. GrantSound([NoJob EXCEPT !.op = "removeMember",
                                 !.pc = "snapshotOwners", !.user = u,
                                 !.company = c])
    BY DEF GrantSound, NoJob, Role
  <2> QED BY <2>1, <2>2
<1>3. CASE RequireTransferOwnership(t)
  <2>1. PICK a, u \in User, c \in Company :
           Grant(t, [NoJob EXCEPT !.op = "transferOwnership",
                                  !.pc = "snapshotOwners", !.actor = a,
                                  !.user = u, !.company = c])
    BY <1>3 DEF RequireTransferOwnership
  <2>2. GrantSound([NoJob EXCEPT !.op = "transferOwnership",
                                 !.pc = "snapshotOwners", !.actor = a,
                                 !.user = u, !.company = c])
    BY DEF GrantSound, NoJob, Role
  <2> QED BY <2>1, <2>2
<1>4. CASE RequireCompanyDelete(t)
  <2>1. PICK a \in User, c \in Company :
           Grant(t, [NoJob EXCEPT !.op = "deleteCompany",
                                  !.pc = "snapshotOwners", !.actor = a,
                                  !.company = c])
    BY <1>4 DEF RequireCompanyDelete
  <2>2. GrantSound([NoJob EXCEPT !.op = "deleteCompany",
                                 !.pc = "snapshotOwners", !.actor = a,
                                 !.company = c])
    BY DEF GrantSound, NoJob, Role
  <2> QED BY <2>1, <2>2
<1>5. CASE RequireCompanyUpdate(t)
  <2>1. PICK c \in Company :
           Grant(t, [NoJob EXCEPT !.op = "updateCompanyInfo",
                                  !.pc = "findCompany", !.company = c])
    BY <1>5 DEF RequireCompanyUpdate
  <2>2. GrantSound([NoJob EXCEPT !.op = "updateCompanyInfo",
                                 !.pc = "findCompany", !.company = c])
    BY DEF GrantSound, NoJob, Role
  <2> QED BY <2>1, <2>2
<1>6. CASE RequireActorToCreate(t)
  <2>1. PICK a \in User, c \in Company :
           /\ FreshCompany(c)
           /\ \/ Grant(t, [NoJob EXCEPT !.op = "createSignupCompany",
                                        !.pc = "advisory", !.user = a,
                                        !.company = c, !.role = "OWNER"])
              \/ Grant(t, [NoJob EXCEPT !.op = "addCompany",
                                        !.pc = "insertCompany", !.user = a,
                                        !.company = c, !.role = "OWNER"])
    BY <1>6 DEF RequireActorToCreate
  <2>2. GrantSound([NoJob EXCEPT !.op = "createSignupCompany", !.pc = "advisory",
                                 !.user = a, !.company = c, !.role = "OWNER"])
    BY <2>1 DEF GrantSound, NoJob, Role
  <2>3. GrantSound([NoJob EXCEPT !.op = "addCompany", !.pc = "insertCompany",
                                 !.user = a, !.company = c, !.role = "OWNER"])
    BY <2>1 DEF GrantSound, NoJob, Role
  <2> QED BY <2>1, <2>2, <2>3
<1>7. CASE RequireActorToSwitch(t)
  <2>1. PICK a \in User, c \in Company :
           Grant(t, [NoJob EXCEPT !.op = "switchCurrentCompany",
                                  !.pc = "lockMembership", !.user = a,
                                  !.company = c])
    BY <1>7 DEF RequireActorToSwitch
  <2>2. GrantSound([NoJob EXCEPT !.op = "switchCurrentCompany",
                                 !.pc = "lockMembership", !.user = a,
                                 !.company = c])
    BY DEF GrantSound, NoJob, Role
  <2> QED BY <2>1, <2>2
<1>8. CASE RequireActorToDelete(t)
  <2>1. PICK a \in User :
           Grant(t, [NoJob EXCEPT !.op = "deleteAccount",
                                  !.pc = "snapshotOwners", !.user = a])
    BY <1>8 DEF RequireActorToDelete
  <2>2. GrantSound([NoJob EXCEPT !.op = "deleteAccount",
                                 !.pc = "snapshotOwners", !.user = a])
    BY DEF GrantSound, NoJob, Role
  <2> QED BY <2>1, <2>2
<1>9. CASE RequireInvite(t)
  <2>1. PICK a, e \in User, c \in Company, r \in Role, i \in Invitation :
           /\ FreshInvitation(i)
           /\ Grant(t, [NoJob EXCEPT !.op = "createInvitation",
                                     !.pc = "insertInvitation", !.actor = a,
                                     !.user = e, !.company = c, !.role = r,
                                     !.invitation = i])
    BY <1>9 DEF RequireInvite
  <2>2. GrantSound([NoJob EXCEPT !.op = "createInvitation",
                                 !.pc = "insertInvitation", !.actor = a,
                                 !.user = e, !.company = c, !.role = r,
                                 !.invitation = i])
    BY <2>1 DEF GrantSound, NoJob, Role
  <2> QED BY <2>1, <2>2
<1>10. CASE RequireRevoke(t)
  <2>1. PICK c \in Company, i \in Invitation :
           Grant(t, [NoJob EXCEPT !.op = "revokeInvitation",
                                  !.pc = "markRevoked", !.company = c,
                                  !.invitation = i])
    BY <1>10 DEF RequireRevoke
  <2>2. GrantSound([NoJob EXCEPT !.op = "revokeInvitation",
                                 !.pc = "markRevoked", !.company = c,
                                 !.invitation = i])
    BY DEF GrantSound, NoJob, Role
  <2> QED BY <2>1, <2>2
<1>11. CASE RequireInvitationAccept(t)
  <2>1. PICK a \in User, i \in Invitation :
           /\ IsRow(db, i)
           /\ Grant(t, [NoJob EXCEPT !.op = "acceptInvitation",
                                     !.pc = "markAccepted",
                                     !.actor = db[i].invitedBy, !.user = a,
                                     !.company = db[i].company,
                                     !.role = db[i].role, !.invitation = i])
    BY <1>11 DEF RequireInvitationAccept
  <2>2. db[i] \in InvitationRecord
    BY <2>1, RowTypes DEF IInv, TypeOK, RowsTyped, InvitationValue, IsRow
  <2>3. /\ db[i].invitedBy \in User /\ db[i].company \in Company
        /\ db[i].role \in Role
    BY <2>2 DEF InvitationRecord
  <2>4. GrantSound([NoJob EXCEPT !.op = "acceptInvitation",
                                 !.pc = "markAccepted",
                                 !.actor = db[i].invitedBy, !.user = a,
                                 !.company = db[i].company,
                                 !.role = db[i].role, !.invitation = i])
    BY <2>3 DEF GrantSound, NoJob, Role
  <2> QED BY <2>1, <2>4
<1>12. CASE FindAbandonedSignup(t)
  <2>1. PICK u \in User :
           Grant(t, [NoJob EXCEPT !.op = "sweep", !.pc = "orphan",
                                  !.leavers = {u}])
    BY <1>12 DEF FindAbandonedSignup
  <2>2. GrantSound([NoJob EXCEPT !.op = "sweep", !.pc = "orphan",
                                 !.leavers = {u}])
    BY DEF GrantSound, NoJob, Role
  <2> QED BY <2>1, <2>2
<1> QED BY <1>1, <1>2, <1>3, <1>4, <1>5, <1>6, <1>7, <1>8, <1>9, <1>10, <1>11, <1>12 DEF Guard

-----------------------------------------------------------------------------
(* Every statement is sound.                                               *)

\* The ways a request takes a step.
Shape(t) ==
    \/ Commit(t)
    \/ Rollback(t)
    \/ \E need, w, j : Statement(t, need, w, j) /\ StatementSound(t, need, w, j)

\* The four facts that make a step of t a sound statement.
LEMMA StatementShape ==
    ASSUME NEW t, NEW need, NEW w, NEW j, Statement(t, need, w, j),
           WritesSound(t, need, w), Continues(t, j), SpendsFirst(t, w, j)
    PROVE  Shape(t)
BY DEF Shape, StatementSound

\* A request that moves to another of its statements goes on.
LEMMA GoToContinues ==
    ASSUME IInv, NEW t \in Slot, NEW pc, InFlow(job[t].op, pc),
           pc = "deleteUser" => job[t].user \in User
    PROVE  Continues(t, GoTo(t, pc)) /\ GoTo(t, pc).pc = pc
<1>1. job[t] \in Job /\ JobSound(job[t])
  BY DEF IInv, TypeOK, Flow
<1>2. pc \in Pc
  BY DEF InFlow, Pc
<1> QED BY <1>1, <1>2 DEF Continues, GoTo, JobSound, Job

\* The locks of a statement are pairs of a row and a mode.
LEMMA LockTypes ==
    /\ Exclusive \subseteq Mode /\ "UPDATE" \in Exclusive
    /\ "NO KEY UPDATE" \in Exclusive
    /\ {"KEY SHARE", "SHARE", "ADVISORY"} \subseteq Mode
    /\ \A r \in Row, m \in Mode : {<<r, m>>} \in SUBSET (Row \X Mode)
    /\ \A rows \in SUBSET Row, m \in Mode :
          {<<r, m>> : r \in rows} \in SUBSET (Row \X Mode)
<1>1. /\ Exclusive \subseteq Mode /\ "UPDATE" \in Exclusive
      /\ "NO KEY UPDATE" \in Exclusive
      /\ {"KEY SHARE", "SHARE", "ADVISORY"} \subseteq Mode
  BY DEF Exclusive, Mode, RowLock
<1>2. \A r \in Row, m \in Mode : {<<r, m>>} \in SUBSET (Row \X Mode)
  OBVIOUS
<1>3. \A rows \in SUBSET Row, m \in Mode :
         {<<r, m>> : r \in rows} \in SUBSET (Row \X Mode)
  OBVIOUS
<1> QED BY <1>1, <1>2, <1>3

\* A statement that writes nothing is sound.
LEMMA ReadSound ==
    ASSUME IInv, NEW t \in Slot, NEW need \in SUBSET (Row \X Mode)
    PROVE  WritesSound(t, need, own[t])
BY DEF IInv, TypeOK, WritesSound

\* A statement that writes one row, v in place of row r, is sound if it locks
\* the row and the invariants on company and invitation rows allow it.
LEMMA OneRowSound ==
    ASSUME IInv, NEW t \in Slot, NEW need \in SUBSET (Row \X Mode),
           NEW r \in Row, NEW v \in ValueOf(r),
           NEW m \in Exclusive, <<r, m>> \in need,
           r \in Company => View(t)[r] = "ACTIVE" \/ Creates(job[t], r),
           r \in Invitation =>
              \/ IsPending(View(t), r)
              \/ IsRow(View(t), r) /\ v = Gone
              \/ Sends(job[t], r)
    PROVE  WritesSound(t, need, [own[t] EXCEPT ![r] = v])
<1> DEFINE w == [own[t] EXCEPT ![r] = v]
<1>1. WritesTyped(own[t])
  BY DEF IInv, TypeOK
<1>2. DOMAIN w = Row /\ \A q \in Row : w[q] = IF q = r THEN v ELSE own[t][q]
  BY <1>1 DEF WritesTyped
<1>3. WritesTyped(w)
  BY <1>1, <1>2 DEF WritesTyped
<1>4. v # Unwritten
  BY ValuesWritten
<1> HIDE DEF w
<1>5. \A q \in Row : w[q] # own[t][q] =>
         q = r /\ w[q] = v /\ \E n \in Exclusive : <<q, n>> \in need
  BY <1>2
<1>6. \A c \in Company : w[c] # own[t][c] =>
         View(t)[c] = "ACTIVE" \/ Creates(job[t], c)
  BY <1>5, RowTypes
<1>7. \A i \in Invitation : w[i] # own[t][i] =>
         \/ IsPending(View(t), i)
         \/ IsRow(View(t), i) /\ w[i] = Gone
         \/ Sends(job[t], i)
  BY <1>5, RowTypes
<1>8. WritesSound(t, need, w)
  BY <1>3, <1>4, <1>5, <1>6, <1>7 DEF WritesSound
<1> QED BY <1>8 DEF w

\* Only an acceptance spends an invitation first.
LEMMA OthersSpendNothing ==
    ASSUME NEW t, NEW w, NEW j, job[t].op # "acceptInvitation"
    PROVE  SpendsFirst(t, w, j)
BY DEF SpendsFirst

\* An acceptance past its first statement leaves the invitation alone.
LEMMA SpentBefore ==
    ASSUME NEW t, NEW w, NEW j, job[t].pc # "markAccepted",
           j.pc # "markAccepted", w[job[t].invitation] = own[t][job[t].invitation]
    PROVE  SpendsFirst(t, w, j)
BY DEF SpendsFirst

\* What Flow says of the request of t.
LEMMA JobFacts ==
    ASSUME IInv, NEW t \in Slot
    PROVE  job[t] \in Job /\ JobSound(job[t]) /\ WritesTyped(own[t])
BY DEF IInv, TypeOK, Flow

\* Locking and counting owners, and their roles.
LEMMA OwnerStatements ==
    ASSUME IInv, NEW t \in Slot,
           \/ SnapshotOwners(t) \/ LockOwners(t) \/ SetRole(t) \/ Promote(t)
           \/ Demote(t) \/ DeleteMembership(t) \/ CountOwners(t)
    PROVE  Shape(t)
<1>0. job[t] \in Job /\ JobSound(job[t]) /\ WritesTyped(own[t])
  BY JobFacts
<1>00. job[t].op # "acceptInvitation"
  BY <1>0 DEF JobSound, InFlow, SnapshotOwners, LockOwners, SetRole, Promote,
     Demote, DeleteMembership, CountOwners, At
<1>1. CASE SnapshotOwners(t)
  <2> DEFINE rows == UNION {ownerMembershipsOf(View(t), c) : c \in ownerLockScope(t)}
             j == [job[t] EXCEPT !.pc = "lockOwners", !.owners = rows]
  <2>1. Statement(t, {}, own[t], j) /\ job[t].pc = "snapshotOwners"
    BY <1>1 DEF SnapshotOwners, At
  <2>2. rows \subseteq Membership
    BY DEF ownerMembershipsOf
  <2> HIDE DEF rows
  <2>3. Continues(t, j)
    BY <1>0, <2>1, <2>2 DEF Continues, JobSound, InFlow, Job, Pc
  <2> HIDE DEF j
  <2> QED BY <1>00, <2>1, <2>3, ReadSound, OthersSpendNothing, StatementShape
<1>2. CASE LockOwners(t)
  <2> DEFINE rows == {m \in job[t].owners : View(t)[m] # None}
             need == {<<m, "UPDATE">> : m \in rows}
             j == [job[t] EXCEPT !.pc = afterOwnerLock(job[t].op), !.owners = {}]
  <2>1. Statement(t, need, own[t], j) /\ job[t].pc = "lockOwners"
    BY <1>2 DEF LockOwners, At
  <2>2. need \in SUBSET (Row \X Mode)
    <3>1. rows \in SUBSET Row
      BY <1>0, RowTypes DEF Job
    <3> HIDE DEF rows
    <3> QED BY <3>1, LockTypes
  <2>3. Continues(t, j)
    BY <1>0, <2>1 DEF Continues, JobSound, InFlow, Job, Pc, afterOwnerLock
  <2> HIDE DEF j, need
  <2> QED BY <1>00, <2>1, <2>2, <2>3, ReadSound, OthersSpendNothing, StatementShape
<1>3. ASSUME NEW u \in User, NEW role \in Role, NEW pc,
             job[t].company \in Company, InFlow(job[t].op, pc), pc # "deleteUser",
             updateMembershipRole(t, u, role, pc)
      PROVE  Shape(t)
  <2> DEFINE m == <<u, job[t].company>>
             need == {<<m, "NO KEY UPDATE">>}
             w == [own[t] EXCEPT ![m] = role]
  <2>1. Statement(t, need, w, GoTo(t, pc)) \/ Rollback(t)
    BY <1>3 DEF updateMembershipRole
  <2>2. m \in Membership /\ m \in Row /\ role \in ValueOf(m)
    BY <1>3, RowTypes DEF Membership, MembershipValue
  <2>3. WritesSound(t, need, w)
    <3>1. m \notin Company /\ m \notin Invitation
      BY <2>2, RowTables
    <3> HIDE DEF m
    <3>2. need \in SUBSET (Row \X Mode) /\ <<m, "NO KEY UPDATE">> \in need
      BY <2>2, LockTypes
    <3> HIDE DEF need
    <3> QED BY <2>2, <3>1, <3>2, LockTypes, OneRowSound
  <2>4. Continues(t, GoTo(t, pc))
    BY <1>3, GoToContinues
  <2> HIDE DEF need, w
  <2> QED BY <1>00, <2>1, <2>3, <2>4, OthersSpendNothing, StatementShape DEF Shape
<1>4. CASE SetRole(t)
  BY <1>0, <1>3, <1>4 DEF SetRole, At, JobSound, InFlow, Job
<1>5. CASE Promote(t)
  BY <1>0, <1>3, <1>5 DEF Promote, At, JobSound, InFlow, Role
<1>6. CASE Demote(t)
  BY <1>0, <1>3, <1>6 DEF Demote, At, JobSound, InFlow, Role
<1>7. CASE DeleteMembership(t)
  <2> DEFINE m == <<job[t].user, job[t].company>>
             need == {<<m, "UPDATE">>}
             w == [own[t] EXCEPT ![m] = None]
  <2>1. Statement(t, need, w, GoTo(t, "countOwners")) \/ Rollback(t)
    BY <1>7 DEF DeleteMembership
  <2>2. m \in Membership /\ m \in Row /\ None \in ValueOf(m)
    BY <1>0, <1>7, RowTypes DEF DeleteMembership, At, JobSound, InFlow, Membership,
       MembershipValue
  <2>3. WritesSound(t, need, w)
    <3>1. m \notin Company /\ m \notin Invitation
      BY <2>2, RowTables
    <3> HIDE DEF m
    <3>2. need \in SUBSET (Row \X Mode) /\ <<m, "UPDATE">> \in need
      BY <2>2, LockTypes
    <3> HIDE DEF need
    <3> QED BY <2>2, <3>1, <3>2, LockTypes, OneRowSound
  <2>4. Continues(t, GoTo(t, "countOwners"))
    BY <1>0, <1>7, GoToContinues DEF DeleteMembership, At, JobSound, InFlow
  <2> HIDE DEF need, w
  <2> QED BY <1>00, <2>1, <2>3, <2>4, OthersSpendNothing, StatementShape DEF Shape
<1>8. CASE CountOwners(t)
  <2> DEFINE j == IF job[t].op = "removeMember"
                  THEN [job[t] EXCEPT !.pc = "reassign", !.leavers = {job[t].user}]
                  ELSE GoTo(t, "commit")
  <2>1. /\ Statement(t, {}, own[t], j) \/ Rollback(t)
        /\ job[t].pc = "countOwners"
    BY <1>8 DEF CountOwners, At
  <2>2. Continues(t, j)
    BY <1>0, <2>1 DEF Continues, JobSound, InFlow, Job, Pc, GoTo
  <2> HIDE DEF j
  <2> QED BY <1>00, <2>1, <2>2, ReadSound, OthersSpendNothing, StatementShape DEF Shape
<1> QED BY <1>1, <1>2, <1>4, <1>5, <1>6, <1>7, <1>8

\* Leaving: the current company and the account.
LEMMA LeavingStatements ==
    ASSUME IInv, NEW t \in Slot,
           \/ ReassignLastUsedCompany(t) \/ CountOrphan(t) \/ DeleteUser(t)
    PROVE  Shape(t)
<1>0. job[t] \in Job /\ JobSound(job[t]) /\ WritesTyped(own[t])
  BY JobFacts
<1>00. job[t].op # "acceptInvitation"
  BY <1>0 DEF JobSound, InFlow, ReassignLastUsedCompany, CountOrphan, DeleteUser, At
<1>000. /\ \A r \in Row : View(t)[r] \in ValueOf(r)
        /\ Membership \in SUBSET Row /\ User \in SUBSET Row
  BY ViewTyped, RowTypes DEF IInv, RowsTyped
<1>1. CASE ReassignLastUsedCompany(t)
  <2> DEFINE present == {u \in job[t].leavers : Live(View(t), u)}
             moved == {u \in present : View(t)[u] = job[t].company}
             need == {<<u, "UPDATE">> : u \in present}
             j == GoTo(t, IF job[t].leavers = {} THEN afterOrphans(t) ELSE "orphan")
  <2>1. PICK next \in [moved -> Company \cup {NoCompany}] :
           Statement(t, need,
                     [r \in Row |-> IF r \in moved THEN next[r] ELSE own[t][r]], j)
    BY <1>1 DEF ReassignLastUsedCompany
  <2> DEFINE w == [r \in Row |-> IF r \in moved THEN next[r] ELSE own[t][r]]
  <2>2. present \in SUBSET User /\ moved \in SUBSET present
    BY <1>0 DEF Job
  <2> HIDE DEF moved, present
  <2>3. WritesSound(t, need, w)
    <3>0. present \in SUBSET Row
      BY <1>000, <2>2
    <3>1. need \in SUBSET (Row \X Mode)
      BY <3>0, LockTypes
    <3>2. WritesTyped(w)
      BY <1>0, <1>000, <2>1, <2>2, RowTypes DEF WritesTyped, UserValue
    <3>3. \A r \in Row : w[r] # own[t][r] =>
             r \in moved /\ w[r] # Unwritten /\ <<r, "UPDATE">> \in need
      BY <2>1, <2>2, MarkersDistinct
    <3>4. \A r \in Row : w[r] # own[t][r] =>
             r \notin Company /\ r \notin Invitation
      BY <2>2, <3>3, RowTables
    <3> HIDE DEF w, need
    <3> QED BY <3>1, <3>2, <3>3, <3>4, LockTypes, RowTypes DEF WritesSound
  <2>4. Continues(t, j)
    <3>1. InFlow(job[t].op, IF job[t].leavers = {} THEN afterOrphans(t) ELSE "orphan")
      BY <1>0, <1>1 DEF JobSound, InFlow, ReassignLastUsedCompany, At, afterOrphans
    <3>2. (IF job[t].leavers = {} THEN afterOrphans(t) ELSE "orphan") # "deleteUser"
      BY DEF afterOrphans
    <3> QED BY <3>1, <3>2, GoToContinues
  <2> HIDE DEF w, need, j
  <2> QED BY <1>00, <2>1, <2>3, <2>4, OthersSpendNothing, StatementShape DEF w
<1>2. ASSUME NEW u \in User, job[t].pc \in {"orphan", "deleteUser"},
             job[t].op \in {"removeMember", "deleteCompany", "sweep"}
      PROVE  Continues(t, withoutLeaver(t, u))
  <2> DEFINE rest == job[t].leavers \ {u}
             pc == IF rest = {} THEN afterOrphans(t) ELSE "orphan"
  <2>1. withoutLeaver(t, u) = [job[t] EXCEPT !.pc = pc, !.leavers = rest]
    BY DEF withoutLeaver
  <2>2. pc # "deleteUser" /\ pc \in Pc /\ InFlow(job[t].op, pc)
    BY <1>2 DEF afterOrphans, Pc, InFlow
  <2>3. rest \in SUBSET User
    BY <1>0 DEF Job
  <2> HIDE DEF pc, rest
  <2> DEFINE j == [job[t] EXCEPT !.pc = pc, !.leavers = rest]
  <2>4. /\ j \in Job /\ j.pc = pc /\ j.op = job[t].op
        /\ j.company = job[t].company /\ j.invitation = job[t].invitation
        /\ j.user = job[t].user /\ j.actor = job[t].actor
    BY <1>0, <2>2, <2>3 DEF Job
  <2> HIDE DEF j
  <2>5. Continues(t, j)
    BY <1>0, <2>2, <2>4 DEF Continues, JobSound
  <2> QED BY <2>1, <2>5 DEF j
<1>3. CASE CountOrphan(t)
  <2>1. PICK u \in job[t].leavers :
           Statement(t, IF Live(View(t), u) THEN {<<u, "UPDATE">>} ELSE {}, own[t],
                     IF activeCompaniesOf(View(t), u) = {}
                     THEN [job[t] EXCEPT !.pc = "deleteUser", !.user = u]
                     ELSE withoutLeaver(t, u))
    BY <1>3 DEF CountOrphan
  <2> DEFINE need == IF Live(View(t), u) THEN {<<u, "UPDATE">>} ELSE {}
             j == IF activeCompaniesOf(View(t), u) = {}
                  THEN [job[t] EXCEPT !.pc = "deleteUser", !.user = u]
                  ELSE withoutLeaver(t, u)
  <2>2. u \in User
    BY <1>0 DEF Job
  <2>3. need \in SUBSET (Row \X Mode)
    BY <2>2, RowTypes, LockTypes
  <2>4. job[t].pc = "orphan" /\ job[t].op \in {"removeMember", "deleteCompany", "sweep"}
    BY <1>0, <1>3 DEF CountOrphan, At, JobSound, InFlow
  <2>5. Continues(t, [job[t] EXCEPT !.pc = "deleteUser", !.user = u])
    BY <1>0, <2>2, <2>4 DEF Continues, JobSound, InFlow, Job, Pc
  <2>6. Continues(t, j)
    BY <1>2, <2>2, <2>4, <2>5
  <2> HIDE DEF need, j
  <2> QED BY <1>00, <2>1, <2>3, <2>6, ReadSound, OthersSpendNothing, StatementShape
          DEF need, j
<1>4. CASE DeleteUser(t)
  <2> DEFINE d == View(t)
             u == job[t].user
             cascade == {m \in Membership : m[1] = u /\ d[m] # None}
                        \cup {i \in Invitation : IsRow(d, i) /\ d[i].invitedBy = u}
             rows == {u} \cup cascade
             need == {<<r, "UPDATE">> : r \in rows}
             w == [r \in Row |-> IF r \in {u} \cup (cascade \cap Invitation) THEN Gone
                                 ELSE IF r \in cascade THEN None ELSE own[t][r]]
             j == IF job[t].op = "deleteAccount" THEN GoTo(t, "commit")
                  ELSE withoutLeaver(t, u)
  <2>1. \/ Statement(t, need, w, j)
        \/ job[t].op # "deleteAccount" /\ Statement(t, {}, own[t], j)
        \/ Rollback(t)
    BY <1>4 DEF DeleteUser
  <2>2. /\ u \in User /\ job[t].pc = "deleteUser"
        /\ job[t].op \in {"removeMember", "deleteCompany", "sweep", "deleteAccount"}
    BY <1>0, <1>4 DEF DeleteUser, At, JobSound, InFlow
  <2>3. /\ rows \in SUBSET Row /\ u \in rows
        /\ \A r \in rows : \/ r = u
                           \/ r \in Membership
                           \/ r \in Invitation /\ r \in cascade /\ IsRow(d, r)
    BY <2>2, RowTypes
  <2>4. \A r \in Row : w[r] = IF r = u \/ (r \in cascade /\ r \in Invitation)
                              THEN Gone
                              ELSE IF r \in cascade THEN None ELSE own[t][r]
    OBVIOUS
  <2>5. rows = {u} \cup cascade
    OBVIOUS
  <2>6. DOMAIN w = Row
    OBVIOUS
  <2> HIDE DEF cascade, rows, w
  <2>7. WritesSound(t, need, w)
    <3>1. need \in SUBSET (Row \X Mode)
      BY <2>3, LockTypes
    <3>2. \A r \in Row : w[r] # own[t][r] => r \in rows /\ w[r] \in {Gone, None}
      BY <2>4, <2>5
    <3>3. \A r \in Row : w[r] # own[t][r] =>
             w[r] # Unwritten /\ <<r, "UPDATE">> \in need
      BY <3>2, MarkersDistinct
    <3>4. \A r \in Row : w[r] # own[t][r] =>
             r \notin Company /\ (r \in Invitation => IsRow(d, r) /\ w[r] = Gone)
      BY <2>2, <2>3, <2>4, <3>2, RowTables
    <3>5. \A r \in rows : w[r] \in ValueOf(r)
      BY <2>2, <2>3, <2>4, <2>5, RowTypes, RowTables
         DEF UserValue, MembershipValue, InvitationValue
    <3>6. WritesTyped(w)
      BY <1>0, <2>6, <3>2, <3>5 DEF WritesTyped
    <3> HIDE DEF need
    <3> QED BY <3>1, <3>3, <3>4, <3>6, LockTypes, RowTypes DEF WritesSound
  <2>8. Continues(t, j)
    <3>1. InFlow(job[t].op, "commit")
      BY <2>2 DEF InFlow
    <3> QED BY <1>2, <2>2, <3>1, GoToContinues
  <2>9. WritesSound(t, {}, own[t])
    BY ReadSound
  <2> HIDE DEF need, j
  <2> QED BY <1>00, <2>1, <2>7, <2>8, <2>9, OthersSpendNothing, StatementShape DEF Shape
<1> QED BY <1>1, <1>3, <1>4

\* Withdrawal checks and the deletion and update of a company.
LEMMA CompanyStatements ==
    ASSUME IInv, NEW t \in Slot,
           \/ CheckBlocking(t) \/ Recheck(t) \/ RevokePendingInvitations(t)
           \/ RemoveMemberships(t) \/ SoftDeleteCompany(t)
           \/ FindCompany(t) \/ UpdateCompany(t)
    PROVE  Shape(t)
<1>0. job[t] \in Job /\ JobSound(job[t]) /\ WritesTyped(own[t])
  BY JobFacts
<1>00. job[t].op # "acceptInvitation"
  BY <1>0 DEF JobSound, InFlow, CheckBlocking, Recheck, RevokePendingInvitations,
     RemoveMemberships, SoftDeleteCompany, FindCompany, UpdateCompany, At
<1>1. CASE CheckBlocking(t)
  <2>1. Statement(t, {}, own[t], GoTo(t, "deleteUser")) \/ Rollback(t)
    BY <1>1 DEF CheckBlocking
  <2>2. InFlow(job[t].op, "deleteUser") /\ job[t].user \in User
    BY <1>0, <1>1 DEF CheckBlocking, At, JobSound, InFlow
  <2>3. Continues(t, GoTo(t, "deleteUser"))
    BY <2>2, GoToContinues
  <2> QED BY <1>00, <2>1, <2>3, ReadSound, OthersSpendNothing, StatementShape DEF Shape
<1>2. CASE Recheck(t)
  <2>1. \/ Statement(t, {}, own[t], GoTo(t, "revokePending"))
        \/ Statement(t, {}, own[t], GoTo(t, "commit"))
        \/ Rollback(t)
    BY <1>2 DEF Recheck
  <2>2. InFlow(job[t].op, "revokePending") /\ InFlow(job[t].op, "commit")
    BY <1>0, <1>2 DEF Recheck, At, JobSound, InFlow
  <2>3. Continues(t, GoTo(t, "revokePending")) /\ Continues(t, GoTo(t, "commit"))
    BY <2>2, GoToContinues
  <2> QED BY <1>00, <2>1, <2>3, ReadSound, OthersSpendNothing, StatementShape DEF Shape
<1>3. CASE RevokePendingInvitations(t)
  <2> DEFINE d == View(t)
             pending == {i \in Invitation :
                            IsPending(d, i) /\ d[i].company = job[t].company}
             need == {<<i, "NO KEY UPDATE">> : i \in pending}
             w == [r \in Row |-> IF r \in pending
                                 THEN [d[r] EXCEPT !.status = "REVOKED"]
                                 ELSE own[t][r]]
  <2>1. Statement(t, need, w, GoTo(t, "removeMemberships"))
    BY <1>3 DEF RevokePendingInvitations
  <2>2. /\ pending \in SUBSET Invitation /\ pending \in SUBSET Row
        /\ \A i \in pending : IsPending(d, i)
    BY RowTypes
  <2>3. \A i \in pending : d[i] \in InvitationRecord
    BY <2>2, ViewTyped, RowTypes DEF IInv, RowsTyped, IsPending, IsRow, InvitationValue
  <2> HIDE DEF pending, d
  <2>4. \A i \in pending : [d[i] EXCEPT !.status = "REVOKED"] \in InvitationRecord
    BY <2>3 DEF InvitationRecord
  <2>5. WritesSound(t, need, w)
    <3>1. need \in SUBSET (Row \X Mode)
      BY <2>2, LockTypes
    <3>2. WritesTyped(w)
      BY <1>0, <2>2, <2>4, RowTypes DEF WritesTyped, InvitationValue
    <3>3. \A r \in Row : w[r] # own[t][r] =>
             r \in pending /\ w[r] \in InvitationRecord
      BY <2>4
    <3>4. \A r \in Row : w[r] # own[t][r] =>
             r \notin Company /\ w[r] # Unwritten /\ <<r, "NO KEY UPDATE">> \in need
      BY <2>2, <3>3, RowTables, MarkersDistinct
    <3> HIDE DEF w, need
    <3>5. \A i \in Invitation : w[i] # own[t][i] => IsPending(View(t), i)
      BY <2>2, <3>3, RowTypes DEF d
    <3> QED BY <3>1, <3>2, <3>4, <3>5, LockTypes, RowTypes DEF WritesSound
  <2>6. InFlow(job[t].op, "removeMemberships")
    BY <1>0, <1>3 DEF RevokePendingInvitations, At, JobSound, InFlow
  <2>7. Continues(t, GoTo(t, "removeMemberships"))
    BY <2>6, GoToContinues
  <2> HIDE DEF need, w
  <2> QED BY <1>00, <2>1, <2>5, <2>7, OthersSpendNothing, StatementShape
<1>4. CASE RemoveMemberships(t)
  <2> DEFINE rows == {m \in Membership : m[2] = job[t].company /\ View(t)[m] # None}
             need == {<<m, "UPDATE">> : m \in rows}
             w == [r \in Row |-> IF r \in rows THEN None ELSE own[t][r]]
             leavers == {m[1] : m \in rows}
             j == [job[t] EXCEPT !.pc = "reassign", !.leavers = leavers]
  <2>1. Statement(t, need, w, j)
    BY <1>4 DEF RemoveMemberships
  <2>2. rows \in SUBSET Membership /\ rows \in SUBSET Row
    BY RowTypes
  <2>3. leavers \in SUBSET User
    BY <2>2 DEF Membership
  <2> HIDE DEF rows, leavers
  <2>4. WritesSound(t, need, w)
    <3>1. need \in SUBSET (Row \X Mode)
      BY <2>2, LockTypes
    <3>2. WritesTyped(w)
      BY <1>0, <2>2, RowTypes DEF WritesTyped, MembershipValue
    <3>3. \A r \in Row : w[r] # own[t][r] =>
             r \in rows /\ w[r] # Unwritten /\ <<r, "UPDATE">> \in need
      BY MarkersDistinct
    <3>4. \A r \in Row : w[r] # own[t][r] => r \notin Company /\ r \notin Invitation
      BY <2>2, <3>3, RowTables
    <3> HIDE DEF w, need
    <3> QED BY <3>1, <3>2, <3>3, <3>4, LockTypes, RowTypes DEF WritesSound
  <2>5. Continues(t, j)
    BY <1>0, <1>4, <2>3 DEF RemoveMemberships, At, Continues, JobSound, InFlow, Job, Pc
  <2> HIDE DEF need, w, j
  <2> QED BY <1>00, <2>1, <2>4, <2>5, OthersSpendNothing, StatementShape
<1>5. ASSUME NEW v \in {"ACTIVE", "DELETED"}, job[t].company \in Company,
             View(t)[job[t].company] = "ACTIVE"
      PROVE  WritesSound(t, {<<job[t].company, "NO KEY UPDATE">>},
                         [own[t] EXCEPT ![job[t].company] = v])
  <2> DEFINE c == job[t].company
             need == {<<c, "NO KEY UPDATE">>}
  <2>1. c \in Row /\ v \in ValueOf(c) /\ c \notin Invitation
    BY <1>5, RowTypes, RowTables DEF CompanyValue
  <2>2. need \in SUBSET (Row \X Mode) /\ <<c, "NO KEY UPDATE">> \in need
    BY <2>1, LockTypes
  <2> HIDE DEF need
  <2>3. WritesSound(t, need, [own[t] EXCEPT ![c] = v])
    BY <1>5, <2>1, <2>2, LockTypes, OneRowSound
  <2> QED BY <2>3 DEF need
<1>6. ASSUME job[t].pc \in {"softDelete", "updateCompany"}
      PROVE  job[t].company \in Company /\ Continues(t, GoTo(t, "commit"))
  <2>1. job[t].company \in Company /\ InFlow(job[t].op, "commit")
    BY <1>0, <1>6 DEF JobSound, InFlow
  <2> QED BY <2>1, GoToContinues
<1>7. CASE SoftDeleteCompany(t)
  <2> DEFINE c == job[t].company
  <2>1. job[t].pc = "softDelete"
    BY <1>7 DEF SoftDeleteCompany, At
  <2>2. CASE View(t)[c] = "ACTIVE"
    <3>1. Statement(t, {<<c, "NO KEY UPDATE">>}, [own[t] EXCEPT ![c] = "DELETED"],
                    GoTo(t, "commit"))
      BY <1>7, <2>2 DEF SoftDeleteCompany
    <3> QED BY <1>00, <1>5, <1>6, <2>1, <2>2, <3>1, OthersSpendNothing, StatementShape
  <2>3. CASE View(t)[c] # "ACTIVE"
    <3>1. Statement(t, {}, own[t], GoTo(t, "commit"))
      BY <1>7, <2>3 DEF SoftDeleteCompany
    <3> QED BY <1>00, <1>6, <2>1, <3>1, ReadSound, OthersSpendNothing, StatementShape
  <2> QED BY <2>2, <2>3
<1>8. CASE UpdateCompany(t)
  <2> DEFINE c == job[t].company
  <2>1. /\ job[t].pc = "updateCompany"
        /\ \/ /\ View(t)[c] = "ACTIVE"
              /\ Statement(t, {<<c, "NO KEY UPDATE">>},
                           [own[t] EXCEPT ![c] = "ACTIVE"], GoTo(t, "commit"))
           \/ Rollback(t)
    BY <1>8 DEF UpdateCompany, renames, At
  <2> QED BY <1>00, <1>5, <1>6, <2>1, OthersSpendNothing, StatementShape DEF Shape
<1>9. CASE FindCompany(t)
  <2>1. Statement(t, {}, own[t], GoTo(t, "updateCompany")) \/ Rollback(t)
    BY <1>9 DEF FindCompany
  <2>2. InFlow(job[t].op, "updateCompany")
    BY <1>0, <1>9 DEF FindCompany, At, JobSound, InFlow
  <2>3. Continues(t, GoTo(t, "updateCompany"))
    BY <2>2, GoToContinues
  <2> QED BY <1>00, <2>1, <2>3, ReadSound, OthersSpendNothing, StatementShape DEF Shape
<1> QED BY <1>1, <1>2, <1>3, <1>4, <1>7, <1>8, <1>9

\* A statement that writes no invitation, past the first of an acceptance.
LEMMA InvitationLeftAlone ==
    ASSUME IInv, NEW t \in Slot, NEW r \in Row, NEW v, NEW j,
           r \notin Invitation, job[t].pc # "markAccepted", j.pc # "markAccepted"
    PROVE  /\ SpendsFirst(t, own[t], j)
           /\ SpendsFirst(t, [own[t] EXCEPT ![r] = v], j)
<1>1. job[t] \in Job /\ JobSound(job[t]) /\ WritesTyped(own[t])
  BY JobFacts
<1> QED BY <1>1, RowTypes DEF SpendsFirst, JobSound, WritesTyped

\* Joining a company and switching to one.
LEMMA JoiningStatements ==
    ASSUME IInv, NEW t \in Slot,
           \/ LockMembershipChanges(t) \/ CountActive(t) \/ InsertCompany(t)
           \/ InsertMembership(t) \/ SetCurrent(t) \/ LockMembershipForShare(t)
    PROVE  Shape(t)
<1>0. job[t] \in Job /\ JobSound(job[t]) /\ WritesTyped(own[t])
  BY JobFacts
<1>00. /\ job[t].pc \in {"advisory", "countActive", "insertCompany",
                         "insertMembership", "setCurrent", "lockMembership"}
       /\ job[t].user \in User /\ job[t].user \in Row
       /\ job[t].user \notin Invitation /\ job[t].user \notin Company
       /\ job[t].op # "deleteAccount" =>
             job[t].company \in Company /\ job[t].company \in Row
  BY <1>0, RowTypes, RowTables DEF JobSound, InFlow, LockMembershipChanges,
     CountActive, InsertCompany, InsertMembership, SetCurrent,
     LockMembershipForShare, At
\* A locking read that moves on to pc.
<1>1. ASSUME NEW need \in SUBSET (Row \X Mode), NEW pc, InFlow(job[t].op, pc),
             pc \notin {"deleteUser", "markAccepted"},
             Statement(t, need, own[t], GoTo(t, pc))
      PROVE  Shape(t)
  <2>1. Continues(t, GoTo(t, pc)) /\ GoTo(t, pc).pc = pc
    BY <1>1, GoToContinues
  <2>2. SpendsFirst(t, own[t], GoTo(t, pc))
    BY <1>00, <1>1, <2>1, InvitationLeftAlone
  <2> QED BY <1>1, <2>1, <2>2, ReadSound, StatementShape
\* A write of row r, not an invitation, that moves on to pc.
<1>2. ASSUME NEW need \in SUBSET (Row \X Mode), NEW pc, InFlow(job[t].op, pc),
             pc \notin {"deleteUser", "markAccepted"},
             NEW r \in Row, r \notin Invitation,
             r \in Company => Creates(job[t], r), NEW v \in ValueOf(r),
             NEW m \in Exclusive, <<r, m>> \in need,
             Statement(t, need, [own[t] EXCEPT ![r] = v], GoTo(t, pc))
      PROVE  Shape(t)
  <2>1. Continues(t, GoTo(t, pc)) /\ GoTo(t, pc).pc = pc
    BY <1>2, GoToContinues
  <2>2. SpendsFirst(t, [own[t] EXCEPT ![r] = v], GoTo(t, pc))
    BY <1>00, <1>2, <2>1, InvitationLeftAlone
  <2>3. WritesSound(t, need, [own[t] EXCEPT ![r] = v])
    BY <1>2, OneRowSound
  <2> QED BY <1>2, <2>1, <2>2, <2>3, StatementShape
<1>3. CASE LockMembershipChanges(t)
  <2> DEFINE pc == CASE job[t].op = "createSignupCompany" -> "countActive"
                     [] job[t].op = "deleteAccount"       -> "blocking"
                     [] OTHER                             -> "insertMembership"
             need == {<<job[t].user, "ADVISORY">>}
  <2>1. Statement(t, need, own[t], GoTo(t, pc)) /\ job[t].pc = "advisory"
    BY <1>3 DEF LockMembershipChanges, At
  <2>2. InFlow(job[t].op, pc) /\ pc \notin {"deleteUser", "markAccepted"}
    BY <1>0, <2>1 DEF JobSound, InFlow
  <2>3. need \in SUBSET (Row \X Mode)
    BY <1>00, LockTypes
  <2> HIDE DEF pc, need
  <2> QED BY <1>1, <2>1, <2>2, <2>3
<1>4. CASE CountActive(t)
  <2>1. /\ Statement(t, {}, own[t], GoTo(t, "insertCompany")) \/ Rollback(t)
        /\ job[t].pc = "countActive"
    BY <1>4 DEF CountActive, At
  <2>2. InFlow(job[t].op, "insertCompany")
    BY <1>0, <2>1 DEF JobSound, InFlow
  <2>3. {} \in SUBSET (Row \X Mode)
    OBVIOUS
  <2> QED BY <1>1, <2>1, <2>2, <2>3 DEF Shape
<1>5. CASE InsertCompany(t)
  <2> DEFINE c == job[t].company
             need == {<<c, "UPDATE">>}
             pc == IF job[t].op = "addCompany" THEN "advisory" ELSE "insertMembership"
  <2>1. /\ Statement(t, need, [own[t] EXCEPT ![c] = "ACTIVE"], GoTo(t, pc))
        /\ job[t].pc = "insertCompany"
    BY <1>5 DEF InsertCompany, At
  <2>2. InFlow(job[t].op, pc) /\ pc \notin {"deleteUser", "markAccepted"}
    BY <1>0, <2>1 DEF JobSound, InFlow
  <2>3. /\ c \in Company /\ c \in Row /\ c \notin Invitation /\ Creates(job[t], c)
        /\ "ACTIVE" \in ValueOf(c)
    BY <1>0, <2>1, RowTypes, RowTables DEF JobSound, InFlow, Creates, CompanyValue
  <2>4. need \in SUBSET (Row \X Mode) /\ <<c, "UPDATE">> \in need
    BY <2>3, LockTypes
  <2> HIDE DEF pc, need
  <2> QED BY <1>2, <2>1, <2>2, <2>3, <2>4, LockTypes
<1>6. CASE InsertMembership(t)
  <2> DEFINE u == job[t].user
             c == job[t].company
             m == <<u, c>>
             need == {<<m, "UPDATE">>, <<u, "KEY SHARE">>, <<c, "KEY SHARE">>}
  <2>1. /\ \/ Statement(t, need, [own[t] EXCEPT ![m] = job[t].role],
                        GoTo(t, "setCurrent"))
           \/ Rollback(t)
        /\ job[t].pc = "insertMembership"
    BY <1>6 DEF InsertMembership, At
  <2>2. InFlow(job[t].op, "setCurrent") /\ job[t].op # "deleteAccount"
    BY <1>0, <2>1 DEF JobSound, InFlow
  <2>3. /\ m \in Membership /\ m \in Row /\ m \notin Invitation /\ m \notin Company
        /\ job[t].role \in ValueOf(m) /\ u \in Row /\ c \in Row
    BY <1>0, <1>00, <2>2, RowTypes, RowTables DEF Membership, MembershipValue, Job
  <2> HIDE DEF m, u, c
  <2>4. need \in SUBSET (Row \X Mode) /\ <<m, "UPDATE">> \in need
    BY <2>3, LockTypes
  <2> HIDE DEF need
  <2> QED BY <1>2, <2>1, <2>2, <2>3, <2>4, LockTypes DEF Shape
<1>7. CASE SetCurrent(t)
  <2> DEFINE u == job[t].user
             c == job[t].company
             changes == Live(View(t), u) /\ View(t)[u] # c
             need == {<<u, "NO KEY UPDATE">>}
                     \cup IF changes THEN {<<c, "KEY SHARE">>} ELSE {}
  <2>1. /\ job[t].pc = "setCurrent"
        /\ \/ Statement(t, need, [own[t] EXCEPT ![u] = c], GoTo(t, "commit"))
           \/ Statement(t, need, own[t], GoTo(t, "commit"))
    BY <1>7 DEF SetCurrent, At
  <2>2. InFlow(job[t].op, "commit") /\ job[t].op # "deleteAccount"
    BY <1>0, <2>1 DEF JobSound, InFlow
  <2>3. c \in Row /\ c \in ValueOf(u)
    BY <1>00, <2>2, RowTypes DEF UserValue
  <2> HIDE DEF changes
  <2>4. need \in SUBSET (Row \X Mode) /\ <<u, "NO KEY UPDATE">> \in need
    BY <1>00, <2>3, LockTypes
  <2>5. u \in Row /\ u \notin Invitation /\ u \notin Company
    BY <1>00
  <2> HIDE DEF need, u, c
  <2>6. CASE Statement(t, need, own[t], GoTo(t, "commit"))
    <3>1. need \in SUBSET (Row \X Mode)
      BY <2>4
    <3>2. "commit" \notin {"deleteUser", "markAccepted"}
      OBVIOUS
    <3>3. InFlow(job[t].op, "commit")
      BY <2>2
    <3> QED BY <1>1, <2>6, <3>1, <3>2, <3>3
  <2>7. CASE Statement(t, need, [own[t] EXCEPT ![u] = c], GoTo(t, "commit"))
    BY <1>2, <2>2, <2>3, <2>4, <2>5, <2>7, LockTypes
  <2> QED BY <2>1, <2>6, <2>7
<1>8. CASE LockMembershipForShare(t)
  <2> DEFINE m == <<job[t].user, job[t].company>>
             need == {<<m, "SHARE">>}
  <2>1. /\ Statement(t, need, own[t], GoTo(t, "setCurrent")) \/ Rollback(t)
        /\ job[t].pc = "lockMembership"
    BY <1>8 DEF LockMembershipForShare, At
  <2>2. InFlow(job[t].op, "setCurrent") /\ job[t].op # "deleteAccount"
    BY <1>0, <2>1 DEF JobSound, InFlow
  <2>3. m \in Row
    BY <1>00, <2>2, RowTypes DEF Membership
  <2> HIDE DEF m
  <2>4. need \in SUBSET (Row \X Mode)
    BY <2>3, LockTypes
  <2> HIDE DEF need
  <2> QED BY <1>1, <2>1, <2>2, <2>4 DEF Shape
<1> QED BY <1>3, <1>4, <1>5, <1>6, <1>7, <1>8

\* Sending, accepting and revoking an invitation.
LEMMA InvitationStatements ==
    ASSUME IInv, NEW t \in Slot,
           \/ InsertInvitation(t) \/ MarkInvitationAccepted(t)
           \/ MarkInvitationRevoked(t) \/ VerifyInviter(t)
    PROVE  Shape(t)
<1> DEFINE i == job[t].invitation
<1>0. job[t] \in Job /\ JobSound(job[t]) /\ WritesTyped(own[t])
  BY JobFacts
<1>00. i \in Invitation /\ i \in Row /\ i \notin Company
  BY <1>0, RowTypes, RowTables DEF JobSound, InFlow, InsertInvitation,
     MarkInvitationAccepted, MarkInvitationRevoked, VerifyInviter, At
<1>1. CASE InsertInvitation(t)
  <2> DEFINE j == job[t]
             need == {<<j.invitation, "UPDATE">>, <<j.actor, "KEY SHARE">>,
                      <<j.company, "KEY SHARE">>}
             row == [company |-> j.company, email |-> j.user, role |-> j.role,
                     invitedBy |-> j.actor, status |-> "PENDING"]
  <2>1. /\ job[t].pc = "insertInvitation"
        /\ \/ Statement(t, need, [own[t] EXCEPT ![i] = row], GoTo(t, "commit"))
           \/ Rollback(t)
    BY <1>1 DEF InsertInvitation, At
  <2>2. /\ job[t].op = "createInvitation" /\ InFlow(job[t].op, "commit")
        /\ j.user \in User /\ j.actor \in User /\ j.company \in Company
        /\ j.role \in Role
    BY <1>0, <2>1 DEF JobSound, InFlow, Job
  <2>3. row \in ValueOf(i) /\ j.actor \in Row /\ j.company \in Row
    BY <1>00, <2>2, RowTypes DEF InvitationValue, InvitationRecord
  <2> HIDE DEF row
  <2>4. need \in SUBSET (Row \X Mode) /\ <<i, "UPDATE">> \in need
    BY <1>00, <2>3, LockTypes
  <2> HIDE DEF need
  <2>5. WritesSound(t, need, [own[t] EXCEPT ![i] = row])
    BY <1>00, <2>2, <2>3, <2>4, LockTypes, OneRowSound DEF Sends
  <2>6. Continues(t, GoTo(t, "commit"))
    BY <2>2, GoToContinues
  <2>7. job[t].op # "acceptInvitation"
    BY <2>2
  <2> QED BY <2>1, <2>5, <2>6, <2>7, OthersSpendNothing, StatementShape DEF Shape
\* Spending the invitation while it is PENDING.
<1>2. ASSUME NEW matches, NEW status \in {"ACCEPTED", "REVOKED"}, NEW pc,
             matches => IsPending(View(t), i),
             status = "ACCEPTED" \/ job[t].op # "acceptInvitation",
             job[t].op = "acceptInvitation" => job[t].pc = "markAccepted",
             InFlow(job[t].op, pc), pc # "deleteUser",
             spendPending(t, matches, status, pc)
      PROVE  Shape(t)
  <2> DEFINE v == [View(t)[i] EXCEPT !.status = status]
             need == {<<i, "NO KEY UPDATE">>}
             w == [own[t] EXCEPT ![i] = v]
  <2>1. \/ matches /\ Statement(t, need, w, GoTo(t, pc))
        \/ Rollback(t)
    BY <1>2 DEF spendPending
  <2>2. CASE matches /\ Statement(t, need, w, GoTo(t, pc))
    <3>1. View(t)[i] \in InvitationRecord
      BY <1>00, <1>2, <2>2, ViewTyped, RowTypes
         DEF IInv, RowsTyped, IsPending, IsRow, InvitationValue
    <3>2. v \in InvitationRecord /\ v.status = status
      BY <1>2, <3>1 DEF InvitationRecord
    <3> HIDE DEF v
    <3>3. v \in ValueOf(i)
      BY <1>00, <3>2, RowTypes DEF InvitationValue
    <3>4. need \in SUBSET (Row \X Mode) /\ <<i, "NO KEY UPDATE">> \in need
      BY <1>00, LockTypes
    <3>5. w[i] = v
      BY <1>0, <1>00 DEF WritesTyped
    <3> HIDE DEF need
    <3>6. WritesSound(t, need, w)
      BY <1>00, <1>2, <2>2, <3>3, <3>4, LockTypes, OneRowSound
    <3>7. Continues(t, GoTo(t, pc))
      BY <1>2, GoToContinues
    <3>8. SpendsFirst(t, w, GoTo(t, pc))
      BY <1>2, <2>2, <3>2, <3>5 DEF SpendsFirst
    <3> HIDE DEF w
    <3> QED BY <2>2, <3>6, <3>7, <3>8, StatementShape
  <2> QED BY <2>1, <2>2 DEF Shape
<1>3. CASE MarkInvitationAccepted(t)
  <2> DEFINE pc == IF job[t].role = "OWNER" THEN "verifyInviter" ELSE "advisory"
             matches == IsPending(View(t), i)
  <2>1. job[t].pc = "markAccepted" /\ spendPending(t, matches, "ACCEPTED", pc)
    BY <1>3 DEF MarkInvitationAccepted, At
  <2>2. InFlow(job[t].op, pc) /\ pc # "deleteUser"
    BY <1>0, <2>1 DEF JobSound, InFlow
  <2>3. matches => IsPending(View(t), i)
    OBVIOUS
  <2> HIDE DEF pc, matches
  <2> QED BY <1>2, <2>1, <2>2, <2>3
<1>4. CASE MarkInvitationRevoked(t)
  <2> DEFINE matches == /\ IsPending(View(t), job[t].invitation)
                        /\ View(t)[job[t].invitation].company = job[t].company
  <2>1. job[t].pc = "markRevoked" /\ spendPending(t, matches, "REVOKED", "commit")
    BY <1>4 DEF MarkInvitationRevoked, At
  <2>2. InFlow(job[t].op, "commit") /\ job[t].op # "acceptInvitation"
    BY <1>0, <2>1 DEF JobSound, InFlow
  <2>3. matches => IsPending(View(t), i)
    OBVIOUS
  <2> HIDE DEF matches
  <2> QED BY <1>2, <2>1, <2>2, <2>3
<1>5. CASE VerifyInviter(t)
  <2> DEFINE m == <<job[t].actor, job[t].company>>
             need == {<<m, "SHARE">>}
  <2>1. /\ Statement(t, need, own[t], GoTo(t, "advisory")) \/ Rollback(t)
        /\ job[t].pc = "verifyInviter"
    BY <1>5 DEF VerifyInviter, At
  <2>2. /\ InFlow(job[t].op, "advisory") /\ job[t].actor \in User
        /\ job[t].company \in Company
    BY <1>0, <2>1 DEF JobSound, InFlow
  <2>3. m \in Row
    BY <2>2, RowTypes DEF Membership
  <2> HIDE DEF m
  <2>4. need \in SUBSET (Row \X Mode)
    BY <2>3, LockTypes
  <2>5. Continues(t, GoTo(t, "advisory")) /\ GoTo(t, "advisory").pc = "advisory"
    BY <2>2, GoToContinues
  <2>6. SpendsFirst(t, own[t], GoTo(t, "advisory"))
    BY <2>1, <2>5, SpentBefore
  <2> HIDE DEF need
  <2> QED BY <2>1, <2>4, <2>5, <2>6, ReadSound, StatementShape DEF Shape
<1> QED BY <1>1, <1>3, <1>4, <1>5

-----------------------------------------------------------------------------
(* The invariant.                                                          *)

\* The service starts with no transaction under way.
LEMMA InitInv == Init => IInv
<1> SUFFICES ASSUME Init PROVE IInv
  OBVIOUS
<1>1. /\ RowsTyped(db) /\ DOMAIN db = Row
      /\ held = {} /\ expired = {}
      /\ DOMAIN job = Slot /\ \A t \in Slot : job[t] = NoJob
      /\ job = [t \in Slot |-> NoJob]
      /\ DOMAIN own = Slot
      /\ \A t \in Slot : DOMAIN own[t] = Row /\ \A r \in Row : own[t][r] = Unwritten
  BY StartAssumption DEF Init, Clean, RowsTyped
<1>2. TypeOK
  BY <1>1, NoJobSound DEF TypeOK, WritesTyped, JobSound
<1>3. Flow
  BY <1>1, NoJobSound DEF Flow
<1>4. WritesLocked /\ LocksExclude
  BY <1>1 DEF WritesLocked, LocksExclude
<1>5. FreshIds
  BY <1>1 DEF FreshIds, Creates, Sends, NoJob
<1>6. CompanyWrites /\ InvitationWrites
  BY <1>1, RowTypes DEF CompanyWrites, InvitationWrites
<1>7. AcceptanceSpends
  BY <1>1 DEF AcceptanceSpends, NoJob
<1> QED BY <1>2, <1>3, <1>4, <1>5, <1>6, <1>7 DEF IInv

\* Every statement of every use case is a sound statement, a rollback or the
\* commit.
LEMMA TxStepShape ==
    ASSUME IInv, NEW t \in Slot, TxStep(t)
    PROVE  Shape(t)
<1>1. CASE \/ SnapshotOwners(t) \/ LockOwners(t) \/ SetRole(t) \/ Promote(t)
           \/ Demote(t) \/ DeleteMembership(t) \/ CountOwners(t)
  BY <1>1, OwnerStatements
<1>2. CASE \/ ReassignLastUsedCompany(t) \/ CountOrphan(t) \/ DeleteUser(t)
  BY <1>2, LeavingStatements
<1>3. CASE \/ CheckBlocking(t) \/ Recheck(t) \/ RevokePendingInvitations(t)
           \/ RemoveMemberships(t) \/ SoftDeleteCompany(t)
           \/ FindCompany(t) \/ UpdateCompany(t)
  BY <1>3, CompanyStatements
<1>4. CASE \/ LockMembershipChanges(t) \/ CountActive(t) \/ InsertCompany(t)
           \/ InsertMembership(t) \/ SetCurrent(t) \/ LockMembershipForShare(t)
  BY <1>4, JoiningStatements
<1>5. CASE \/ InsertInvitation(t) \/ MarkInvitationAccepted(t)
           \/ MarkInvitationRevoked(t) \/ VerifyInviter(t)
  BY <1>5, InvitationStatements
<1>6. CASE Commit(t)
  BY <1>6 DEF Shape
<1> QED BY <1>1, <1>2, <1>3, <1>4, <1>5, <1>6 DEF TxStep

\* A step is a guard, a statement, a rollback, a commit, or comes from outside.
LEMMA StepKinds ==
    ASSUME IInv, Next
    PROVE  \/ \E t \in Slot : \E j : Grant(t, j) /\ GrantSound(j)
           \/ \E t \in Slot : Shape(t)
           \/ (\E u \in User : SignUp(u)) \/ (\E i \in Invitation : Expire(i))
<1>1. ASSUME NEW t \in Slot, Guard(t)
      PROVE  \E j : Grant(t, j) /\ GrantSound(j)
  BY <1>1, GuardSound
<1>2. ASSUME NEW t \in Slot, TxStep(t) \/ DbFailure(t)
      PROVE  Shape(t)
  BY <1>2, TxStepShape DEF DbFailure, Shape
<1> QED BY <1>1, <1>2 DEF Next

\* IInv is inductive: every step of every request preserves it.
LEMMA StepInv == IInv /\ [Next]_vars => IInv'
<1> SUFFICES ASSUME IInv, [Next]_vars PROVE IInv'
  OBVIOUS
<1>1. CASE UNCHANGED vars
  <2>1. UNCHANGED <<db, own, held, job, expired>>
    BY <1>1 DEF vars
  <2>2. TypeOK'
    BY <2>1 DEF IInv, TypeOK, RowsTyped, WritesTyped
  <2>3. Flow' /\ WritesLocked' /\ LocksExclude'
    BY <2>1 DEF IInv, Flow, WritesLocked, LocksExclude
  <2>4. FreshIds' /\ CompanyWrites'
    BY <2>1 DEF IInv, FreshIds, CompanyWrites
  <2>5. InvitationWrites' /\ AcceptanceSpends'
    BY <2>1 DEF IInv, InvitationWrites, AcceptanceSpends, IsPending, IsRow
  <2> QED BY <2>2, <2>3, <2>4, <2>5 DEF IInv
<1>2. CASE Next
  <2>1. ASSUME NEW t \in Slot, NEW j, Grant(t, j), GrantSound(j)
        PROVE  IInv'
    BY <2>1, GrantPreserves
  <2>2. ASSUME NEW t \in Slot, Shape(t)
        PROVE  IInv'
    <3>1. CASE Commit(t)
      BY <3>1, CommitPreserves
    <3>2. CASE Rollback(t)
      BY <3>2, RollbackPreserves
    <3>3. ASSUME NEW need, NEW w, NEW j, Statement(t, need, w, j),
                 StatementSound(t, need, w, j)
          PROVE  IInv'
      BY <3>3, StatementPreserves
    <3> QED BY <2>2, <3>1, <3>2, <3>3 DEF Shape
  <2>3. CASE (\E u \in User : SignUp(u)) \/ (\E i \in Invitation : Expire(i))
    BY <2>3, OutsidePreserves
  <2> QED BY <1>2, <2>1, <2>2, <2>3, StepKinds
<1> QED BY <1>1, <1>2

\* The lock discipline of the whole service: at every moment each uncommitted
\* write of each use case is covered by a row lock that excludes every other
\* writer, company rows are rewritten only while ACTIVE and invitations spent
\* only while PENDING (db/repositories/, src/transaction.ts).
THEOREM LockDiscipline == Spec => []IInv
BY InitInv, StepInv, PTL DEF Spec

\* TypeOK holds in every reachable state, for any number of users, companies,
\* invitations and connections: the rows that the repositories write are of
\* their tables' types, the cascades of deleteUser and removeMemberships
\* included.
THEOREM TypeCorrect == Spec => []TypeOK
<1>1. IInv => TypeOK
  BY DEF IInv
<1> QED BY <1>1, LockDiscipline, PTL

-----------------------------------------------------------------------------
(* What the invariant gives.                                               *)

\* Rows other than users change only when a transaction commits.
LEMMA OnlyCommitsWrite ==
    ASSUME IInv, [Next]_vars, ~ \E t \in Slot : Commit(t)
    PROVE  \A r \in Row : r \notin User => db'[r] = db[r]
<1>1. CASE UNCHANGED vars
  BY <1>1 DEF vars
<1>2. CASE Next
  <2>1. ASSUME NEW t \in Slot, NEW j, Grant(t, j)
        PROVE  db' = db
    BY <2>1 DEF Grant
  <2>2. ASSUME NEW t \in Slot, Shape(t)
        PROVE  db' = db
    BY <2>2 DEF Shape, Statement, Execute, Rollback, Discard
  <2>3. ASSUME NEW u \in User, SignUp(u)
        PROVE  \A r \in Row : r \notin User => db'[r] = db[r]
    BY <2>3 DEF SignUp, IInv, TypeOK, RowsTyped
  <2>4. ASSUME NEW i \in Invitation, Expire(i)
        PROVE  db' = db
    BY <2>4 DEF Expire
  <2> QED BY <1>2, <2>1, <2>2, <2>3, <2>4, StepKinds
<1> QED BY <1>1, <1>2

\* Past its UPDATE, a change of a company's name has a version of its row among
\* its uncommitted writes.
Renames ==
    \A t \in Slot : job[t].op = "updateCompanyInfo" /\ job[t].pc = "commit" =>
        own[t][job[t].company] # Unwritten

\* No guard lets a request start at its commit.
LEMMA NoGuardCommits ==
    ASSUME IInv, NEW t \in Slot, Guard(t)
    PROVE  job'[t].pc # "commit"
<1>0. job \in [Slot -> Job]
  BY DEF IInv, TypeOK
<1>1. ASSUME NEW j, Grant(t, j), j.pc # "commit"
      PROVE  job'[t].pc # "commit"
  BY <1>0, <1>1 DEF Grant
<1>2. CASE RequireRoleChange(t) \/ RequireRemoval(t) \/ RequireTransferOwnership(t)
           \/ RequireCompanyDelete(t)
  BY <1>1, <1>2 DEF RequireRoleChange, RequireRemoval, RequireTransferOwnership,
     RequireCompanyDelete, NoJob
<1>3. CASE RequireCompanyUpdate(t) \/ RequireActorToCreate(t) \/ RequireActorToSwitch(t)
           \/ RequireActorToDelete(t)
  BY <1>1, <1>3 DEF RequireCompanyUpdate, RequireActorToCreate, RequireActorToSwitch,
     RequireActorToDelete, NoJob
<1>4. CASE RequireInvite(t) \/ RequireRevoke(t)
  BY <1>1, <1>4 DEF RequireInvite, RequireRevoke, NoJob
<1>5. CASE RequireInvitationAccept(t) \/ FindAbandonedSignup(t)
  BY <1>1, <1>5 DEF RequireInvitationAccept, FindAbandonedSignup, NoJob
<1> QED BY <1>2, <1>3, <1>4, <1>5 DEF Guard

\* updateCompanyInfo has three statements.
LEMMA UpdateStatements ==
    ASSUME IInv, NEW t \in Slot, TxStep(t), job[t].op = "updateCompanyInfo"
    PROVE  FindCompany(t) \/ UpdateCompany(t) \/ Commit(t)
<1>1. job[t].pc \in {"findCompany", "updateCompany", "commit"}
  BY JobFacts DEF JobSound, InFlow
<1> QED BY <1>1 DEF TxStep, At, SnapshotOwners, LockOwners, SetRole, Promote, Demote,
       DeleteMembership, CountOwners, ReassignLastUsedCompany, CountOrphan, DeleteUser,
       CheckBlocking, Recheck, RevokePendingInvitations, RemoveMemberships,
       SoftDeleteCompany, LockMembershipChanges, CountActive, InsertCompany,
       InsertMembership, SetCurrent, LockMembershipForShare, InsertInvitation,
       MarkInvitationAccepted, MarkInvitationRevoked, VerifyInviter

LEMMA RenamesKept == IInv /\ Renames /\ [Next]_vars => Renames'
<1> SUFFICES ASSUME IInv, Renames, [Next]_vars, NEW t \in Slot,
                    job'[t].op = "updateCompanyInfo", job'[t].pc = "commit"
             PROVE  own'[t][job'[t].company] # Unwritten
  BY DEF Renames
<1>0. job[t] \in Job /\ JobSound(job[t]) /\ WritesTyped(own[t]) /\ job \in [Slot -> Job]
      /\ DOMAIN own = Slot
  BY JobFacts DEF IInv, TypeOK
<1>1. CASE job'[t] = job[t] /\ own'[t] = own[t]
  BY <1>1 DEF Renames
<1>2. CASE TxStep(t) /\ job[t].op = "updateCompanyInfo"
  <2>1. CASE FindCompany(t)
    BY <1>0, <2>1 DEF FindCompany, Statement, Rollback, GoTo, NoJob, Job
  <2>2. CASE UpdateCompany(t)
    <3> DEFINE c == job[t].company
    <3>1. CASE Rollback(t)
      BY <1>0, <3>1 DEF Rollback, NoJob
    <3>2. CASE /\ View(t)[c] = "ACTIVE"
               /\ Statement(t, {<<c, "NO KEY UPDATE">>}, [own[t] EXCEPT ![c] = "ACTIVE"],
                            GoTo(t, "commit"))
      <4>1. c \in Company /\ c \in Row
        BY <1>0, <1>2, RowTypes DEF JobSound
      <4>2. job'[t].company = c /\ own'[t] = [own[t] EXCEPT ![c] = "ACTIVE"]
        BY <1>0, <3>2 DEF Statement, Execute, GoTo, Job
      <4>3. own'[t][c] = "ACTIVE"
        BY <1>0, <4>1, <4>2 DEF WritesTyped
      <4> QED BY <4>2, <4>3, MarkersDistinct
    <3> QED BY <2>2, <3>1, <3>2 DEF UpdateCompany, renames
  <2>3. CASE Commit(t)
    BY <1>0, <2>3 DEF Commit, NoJob
  <2> QED BY <1>2, <2>1, <2>2, <2>3, UpdateStatements
<1>3. ASSUME NEW s \in Slot, Shape(s)
      PROVE  \/ job'[t] = job[t] /\ own'[t] = own[t]
             \/ s = t /\ job[t].op = "updateCompanyInfo"
  <2>1. CASE Commit(s)
    BY <1>0, <2>1 DEF Commit, Publish, NoJob
  <2>2. CASE Rollback(s)
    BY <1>0, <2>2 DEF Rollback, Discard, NoJob
  <2>3. ASSUME NEW need, NEW w, NEW j, Statement(s, need, w, j),
               StatementSound(s, need, w, j)
        PROVE  \/ job'[t] = job[t] /\ own'[t] = own[t]
               \/ s = t /\ job[t].op = "updateCompanyInfo"
    BY <1>0, <2>3 DEF Statement, Execute, StatementSound, Continues
  <2> QED BY <1>3, <2>1, <2>2, <2>3 DEF Shape
<1>4. CASE UNCHANGED vars
  BY <1>1, <1>4 DEF vars
<1>5. ASSUME NEW s \in Slot, Guard(s)
      PROVE  job'[t] = job[t] /\ own'[t] = own[t]
  <2>1. PICK j : Grant(s, j)
    BY <1>5, GuardSound
  <2>2. s # t
    BY <1>5, NoGuardCommits
  <2> QED BY <1>0, <2>1, <2>2 DEF Grant
<1>6. ASSUME NEW s \in Slot, TxStep(s)
      PROVE  own'[t][job'[t].company] # Unwritten
  BY <1>1, <1>2, <1>3, <1>6, TxStepShape
<1>7. ASSUME NEW s \in Slot, DbFailure(s)
      PROVE  job'[t] = job[t] /\ own'[t] = own[t]
  BY <1>0, <1>7 DEF DbFailure, Rollback, Discard, NoJob
<1>8. CASE (\E u \in User : SignUp(u)) \/ (\E i \in Invitation : Expire(i))
  BY <1>1, <1>8 DEF SignUp, Expire
<1> QED BY <1>1, <1>4, <1>5, <1>6, <1>7, <1>8 DEF Next

\* No interleaving with deleteCompany lets updateCompanyInfo commit a change of a
\* company that is deleted: its UPDATE asks for an ACTIVE row (company.ts:54), and
\* from then on the row's lock keeps the deletion out.
THEOREM UpdatesInUse == Spec => []UpdatesCompanyInUse
<1>1. Init => Renames
  BY DEF Init, Renames, NoJob
<1>2. IInv /\ Renames => UpdatesCompanyInUse
  <2> SUFFICES ASSUME IInv, Renames, NEW t \in Slot,
                      job[t].op = "updateCompanyInfo", job[t].pc = "commit"
               PROVE  db[job[t].company] = "ACTIVE"
    BY DEF UpdatesCompanyInUse
  <2>1. job[t].company \in Company /\ ~Creates(job[t], job[t].company)
    BY JobFacts DEF JobSound, Creates
  <2>2. own[t][job[t].company] # Unwritten
    BY DEF Renames
  <2> QED BY <2>1, <2>2 DEF IInv, CompanyWrites
<1> QED BY <1>1, <1>2, RenamesKept, LockDiscipline, PTL DEF Spec

\* A request that ends and writes rows ends with its commit.
LEMMA WritesEndInCommit ==
    ASSUME IInv, [Next]_vars, NEW t \in Slot, Ends(t),
           NEW r \in Row, r \notin User, db'[r] # db[r]
    PROVE  Commit(t)
<1>1. PICK s \in Slot : Commit(s)
  BY OnlyCommitsWrite
<1>2. job'[t] = IF t = s THEN NoJob ELSE job[t]
  BY <1>1, CommitEffect
<1> QED BY <1>1, <1>2 DEF Ends

\* An invitation is spent once: no accept, revoke, company deletion or cascade
\* that overlaps another rewrites an invitation that is no longer PENDING
\* (markInvitationAccepted, markInvitationRevoked and revokePendingInvitations
\* name the status in their WHERE clause), and a membership gained by accepting
\* commits together with the ACCEPTED row (acceptInvitation's transaction).
THEOREM SpentOnce == Spec => InvitationSpentOnce
<1>1. ASSUME IInv, [Next]_vars, NEW i \in Invitation,
             IsRow(db, i), ~IsPending(db, i)
      PROVE  db'[i] \in {db[i], Gone}
  <2>0. i \in Row /\ i \notin User
    BY RowTypes, RowTables
  <2>1. CASE ~ \E t \in Slot : Commit(t)
    BY <1>1, <2>0, <2>1, OnlyCommitsWrite
  <2>2. ASSUME NEW t \in Slot, Commit(t)
        PROVE  db'[i] \in {db[i], Gone}
    <3>1. own[t][i] \in {Unwritten, Gone}
      BY <1>1 DEF IInv, InvitationWrites, IsRow
    <3> QED BY <1>1, <2>0, <2>2, <3>1, CommitEffect
  <2> QED BY <2>1, <2>2
<1>2. ASSUME IInv, [Next]_vars, NEW t \in Slot, Ends(t),
             job[t].op = "acceptInvitation",
             ~IsMember(db, job[t].user, job[t].company),
             IsMember(db', job[t].user, job[t].company)
      PROVE  /\ IsPending(db, job[t].invitation)
             /\ IsRow(db', job[t].invitation)
             /\ db'[job[t].invitation].status = "ACCEPTED"
  <2> DEFINE i == job[t].invitation
             m == <<job[t].user, job[t].company>>
  <2>1. /\ i \in Invitation /\ job[t].user \in User /\ job[t].company \in Company
    BY <1>2 DEF IInv, Flow, JobSound
  <2>2. i \in Row /\ m \in Row /\ m \notin User
    BY <2>1, RowTypes, RowTables DEF Membership
  <2>3. db'[m] # db[m]
    BY <1>2 DEF IsMember
  <2>4. Commit(t)
    BY <1>2, <2>2, <2>3, WritesEndInCommit
  <2>5. job[t].pc # "markAccepted"
    BY <2>4 DEF Commit, At
  <2>6. /\ own[t][i] \in InvitationRecord /\ own[t][i].status = "ACCEPTED"
        /\ IsPending(db, i)
    BY <1>2, <2>5 DEF IInv, AcceptanceSpends
  <2>7. own[t][i] \notin {Unwritten, None, Gone}
    BY <2>6, MarkersDistinct
  <2>8. db'[i] = own[t][i]
    BY <1>2, <2>2, <2>4, <2>7, CommitEffect
  <2> QED BY <2>6, <2>7, <2>8 DEF IsRow
<1> DEFINE Final == \A i \in Invitation : IsRow(db, i) /\ ~IsPending(db, i)
                       => db'[i] \in {db[i], Gone}
           Paid == \A t \in Slot :
                      /\ Ends(t)
                      /\ job[t].op = "acceptInvitation"
                      /\ ~IsMember(db, job[t].user, job[t].company)
                      /\ IsMember(db', job[t].user, job[t].company)
                      => /\ IsPending(db, job[t].invitation)
                         /\ IsRow(db', job[t].invitation)
                         /\ db'[job[t].invitation].status = "ACCEPTED"
<1>3. IInv /\ [Next]_vars => Final
  BY <1>1
<1>4. IInv /\ [Next]_vars => Paid
  BY <1>2
<1>5. IInv /\ [Next]_vars => [Final /\ Paid]_vars
  BY <1>3, <1>4
<1> QED BY <1>5, LockDiscipline, PTL DEF Spec, InvitationSpentOnce

=============================================================================
