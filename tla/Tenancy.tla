------------------------------ MODULE Tenancy -------------------------------
(***************************************************************************)
(* Users, companies, memberships and invitations, and every use case that  *)
(* changes them: src/membership/, src/invitation/, src/company/ and        *)
(* src/account/ over db/repositories/.                                     *)
(*                                                                         *)
(* A request runs in two parts.  Its guard (src/membership/guard/) reads   *)
(* the committed rows outside any transaction and hands a grant to the use *)
(* case; the use case then opens a transaction and issues its statements   *)
(* one by one.  Other requests run between any two of these, so a grant    *)
(* may be stale when it is used.  Here a request occupies a slot: a guard  *)
(* action puts the grant in job[t], and one action per SQL statement moves *)
(* job[t].pc on until the request commits or rolls back.                   *)
(*                                                                         *)
(* Left out: names, org codes, time stamps and the audit rows that each    *)
(* transaction appends (they are never read back by these use cases, and   *)
(* they commit or vanish with their transaction).                          *)
(***************************************************************************)
EXTENDS Policy, RowStore, FiniteSets

CONSTANTS
    User, Company, Invitation,  \* the ids that may ever be handed out
    None,                       \* the row does not exist (yet)
    Gone,                       \* the row was deleted; its id is never reused
    NoCompany,                  \* last_used_company_id IS NULL
    Ops,                        \* the requests that are served
    InitialDb                   \* the databases the service may start on

VARIABLES
    job,                        \* job[t]: the request that slot t serves
    expired                     \* the invitations whose expires_at is past

vars == <<db, own, held, job, expired>>

-----------------------------------------------------------------------------
(* Rows.  A row is named by its key: a membership by its unique            *)
(* (user_id, company_id), the others by their id.                          *)

Membership == User \X Company
Row == User \cup Company \cup Invitation \cup Membership

\* The value of a user row is its last_used_company_id.
UserValue == Company \cup {NoCompany, None, Gone}
MembershipValue == Role \cup {None}
CompanyValue == {"ACTIVE", "DELETED", None}
InvitationRecord ==
    [company : Company, email : User, role : Role, invitedBy : User,
     status : {"PENDING", "ACCEPTED", "REVOKED"}]
InvitationValue == InvitationRecord \cup {None, Gone}

ValueOf(r) == IF r \in User THEN UserValue
              ELSE IF r \in Company THEN CompanyValue
              ELSE IF r \in Invitation THEN InvitationValue
              ELSE MembershipValue

\* Every row has a value of its table's type.
RowsTyped(d) == DOMAIN d = Row /\ \A r \in Row : d[r] \in ValueOf(r)

\* The same for the uncommitted rows of a transaction.
WritesTyped(w) ==
    DOMAIN w = Row /\ \A r \in Row : w[r] \in ValueOf(r) \cup {Unwritten}

Op == {"createSignupCompany", "addCompany", "updateCompanyInfo",
       "deleteCompany", "changeRole", "removeMember", "transferOwnership",
       "switchCurrentCompany", "createInvitation", "revokeInvitation",
       "acceptInvitation", "deleteAccount", "sweep"}

Pc == {"idle", "snapshotOwners", "lockOwners", "setRole", "promote", "demote",
       "deleteMembership", "countOwners", "reassign", "orphan", "deleteUser",
       "recheck", "revokePending", "removeMemberships", "softDelete",
       "findCompany", "updateCompany", "advisory", "countActive", "insertCompany",
       "insertMembership", "setCurrent", "lockMembership", "markAccepted",
       "verifyInviter", "insertInvitation", "markRevoked", "blocking",
       "commit"}

\* A request.  actor and user are the users the statements name, role the
\* role they write; owners is the snapshot of a locking read that has not got
\* its locks yet; leavers are the users still to be checked for orphanhood.
Job == [op : Op \cup {"none"}, pc : Pc,
        actor : User \cup {None}, user : User \cup {None},
        company : Company \cup {NoCompany}, role : Role,
        invitation : Invitation \cup {None},
        owners : SUBSET Membership, leavers : SUBSET User]

NoJob == [op |-> "none", pc |-> "idle", actor |-> None, user |-> None,
          company |-> NoCompany, role |-> "MEMBER", invitation |-> None,
          owners |-> {}, leavers |-> {}]

ASSUME TablesDisjoint ==
    /\ User \cap Company = {} /\ User \cap Invitation = {}
    /\ Company \cap Invitation = {}
    /\ \A m \in Membership : m \notin User \cup Company \cup Invitation

ASSUME MarkersDistinct ==
    /\ \A x \in {None, Gone, NoCompany, Unwritten} :
          /\ x \notin User \cup Company \cup Invitation \cup Membership
          /\ x \notin Role \cup {"ACTIVE", "DELETED"} \cup InvitationRecord
    /\ None # Gone /\ None # NoCompany /\ Gone # NoCompany
    /\ Unwritten \notin {None, Gone, NoCompany}

-----------------------------------------------------------------------------
(* Reading a database d.                                                   *)

Live(d, u) == d[u] \notin {None, Gone}
IsMember(d, u, c) == d[<<u, c>>] # None
IsOwner(d, u, c) == d[<<u, c>>] = "OWNER"
IsRow(d, i) == d[i] \notin {None, Gone}
IsPending(d, i) == IsRow(d, i) /\ d[i].status = "PENDING"

\* countOwnerMemberships and the owner rows of lockOwnerMembershipsWhereCompany
ownerMembershipsOf(d, c) == {m \in Membership : m[2] = c /\ d[m] = "OWNER"}

\* findActiveMembershipsByUserId: joined to the companies that are ACTIVE.
activeCompaniesOf(d, u) == {c \in Company : IsMember(d, u, c) /\ d[c] = "ACTIVE"}

ASSUME StartAssumption == \A d \in InitialDb : RowsTyped(d)

\* The foreign keys of d hold, and every user's current company is one of his.
Consistent(d) ==
    /\ \A u \in User, c \in Company : IsMember(d, u, c) => Live(d, u) /\ d[c] # None
    /\ \A i \in Invitation : IsRow(d, i) => d[d[i].company] # None
    /\ \A u \in User : Live(d, u) =>
         IF d[u] = NoCompany THEN \A c \in Company : ~IsMember(d, u, c)
         ELSE IsMember(d, u, d[u])

\* The service starts on what its use cases left behind, if only an empty database.
ASSUME ConsistentStart == \A d \in InitialDb : Consistent(d)

Init ==
    /\ db \in InitialDb
    /\ own = [t \in Slot |-> Clean]
    /\ held = {}
    /\ job = [t \in Slot |-> NoJob]
    /\ expired = {}

-----------------------------------------------------------------------------
(* The shapes of a step of a request.                                      *)

At(t, pc) == job[t].pc = pc

\* The guard of request j passed: slot t serves it from statement j.pc on.
Grant(t, j) ==
    /\ job[t] = NoJob
    /\ j.op \in Ops
    /\ job' = [job EXCEPT ![t] = j]
    /\ UNCHANGED <<db, own, held, expired>>

\* The statement at hand takes locks need and leaves rows w and job j.
Statement(t, need, w, j) ==
    /\ Execute(t, need, w)
    /\ job' = [job EXCEPT ![t] = j]
    /\ UNCHANGED expired

\* A failure inside tx.run rolls the transaction back.
Rollback(t) ==
    /\ Discard(t)
    /\ job' = [job EXCEPT ![t] = NoJob]
    /\ UNCHANGED expired

GoTo(t, pc) == [job[t] EXCEPT !.pc = pc]

-----------------------------------------------------------------------------
(* Guards: reads outside the transaction.  requireActor needs a session    *)
(* whose user row exists; the two reads of a guard that looks at the actor *)
(* and at the target are one step here.                                    *)

requireMembershipOf(a, c, minRole) ==
    /\ Live(db, a)
    /\ IsMember(db, a, c)
    /\ isAtLeast(db[<<a, c>>], minRole)

\* changeRole returns at once when the target already has the role.
RequireRoleChange(t) == \E a, u \in User, c \in Company, r \in Role :
    /\ requireMembershipOf(a, c, "ADMIN")
    /\ IsMember(db, u, c)
    /\ canChangeRole(db[<<a, c>>], db[<<u, c>>], r)
    /\ db[<<u, c>>] # r
    /\ Grant(t, [NoJob EXCEPT !.op = "changeRole", !.pc = "snapshotOwners",
                              !.user = u, !.company = c, !.role = r])

RequireRemoval(t) == \E a, u \in User, c \in Company :
    /\ requireMembershipOf(a, c, "MEMBER")
    /\ canAttemptRemoval(db[<<a, c>>], a = u)
    /\ IsMember(db, u, c)
    /\ canRemoveTarget(db[<<a, c>>], a = u, db[<<u, c>>])
    /\ Grant(t, [NoJob EXCEPT !.op = "removeMember", !.pc = "snapshotOwners",
                              !.user = u, !.company = c])

RequireTransferOwnership(t) == \E a, u \in User, c \in Company :
    /\ a # u
    /\ requireMembershipOf(a, c, "OWNER")
    /\ IsMember(db, u, c)
    /\ ~IsOwner(db, u, c)
    /\ Grant(t, [NoJob EXCEPT !.op = "transferOwnership",
                              !.pc = "snapshotOwners", !.actor = a,
                              !.user = u, !.company = c])

RequireCompanyDelete(t) == \E a \in User, c \in Company :
    /\ requireMembershipOf(a, c, "OWNER")
    /\ Grant(t, [NoJob EXCEPT !.op = "deleteCompany", !.pc = "snapshotOwners",
                              !.actor = a, !.company = c])

RequireCompanyUpdate(t) == \E a \in User, c \in Company :
    /\ requireMembershipOf(a, c, "OWNER")
    /\ Grant(t, [NoJob EXCEPT !.op = "updateCompanyInfo",
                              !.pc = "findCompany", !.company = c])

\* ids.companyId() and ids.invitationId() hand out ids nobody has seen.
FreshCompany(c) == db[c] = None /\ \A s \in Slot : job[s].company # c
FreshInvitation(i) == db[i] = None /\ \A s \in Slot : job[s].invitation # i

RequireActorToCreate(t) == \E a \in User, c \in Company :
    /\ Live(db, a)
    /\ FreshCompany(c)
    /\ \/ Grant(t, [NoJob EXCEPT !.op = "createSignupCompany",
                                 !.pc = "advisory", !.user = a,
                                 !.company = c, !.role = "OWNER"])
       \/ Grant(t, [NoJob EXCEPT !.op = "addCompany", !.pc = "insertCompany",
                                 !.user = a, !.company = c, !.role = "OWNER"])

RequireActorToSwitch(t) == \E a \in User, c \in Company :
    /\ Live(db, a)
    /\ Grant(t, [NoJob EXCEPT !.op = "switchCurrentCompany",
                              !.pc = "lockMembership", !.user = a,
                              !.company = c])

RequireActorToDelete(t) == \E a \in User :
    /\ Live(db, a)
    /\ Grant(t, [NoJob EXCEPT !.op = "deleteAccount", !.pc = "snapshotOwners",
                              !.user = a])

\* createInvitation reuses an unexpired PENDING invitation of the same address
\* without a transaction; only the other case goes on.
RequireInvite(t) ==
    \E a, e \in User, c \in Company, r \in Role, i \in Invitation :
        /\ requireMembershipOf(a, c, "ADMIN")
        /\ canInviteRole(db[<<a, c>>], r)
        /\ ~ \E k \in Invitation \ expired :
               IsPending(db, k) /\ db[k].company = c /\ db[k].email = e
        /\ FreshInvitation(i)
        /\ Grant(t, [NoJob EXCEPT !.op = "createInvitation",
                                  !.pc = "insertInvitation", !.actor = a,
                                  !.user = e, !.company = c, !.role = r,
                                  !.invitation = i])

RequireRevoke(t) == \E a \in User, c \in Company, i \in Invitation :
    /\ requireMembershipOf(a, c, "ADMIN")
    /\ IsRow(db, i)
    /\ Grant(t, [NoJob EXCEPT !.op = "revokeInvitation", !.pc = "markRevoked",
                              !.company = c, !.invitation = i])

\* The grant carries a copy of the invitation: actor holds its inviter.  A
\* member of the company is answered "reused" and changes nothing.
RequireInvitationAccept(t) == \E a \in User, i \in Invitation :
    /\ Live(db, a)
    /\ IsRow(db, i)
    /\ db[i].email = a
    /\ ~IsMember(db, a, db[i].company)
    /\ IsPending(db, i) /\ i \notin expired
    /\ Grant(t, [NoJob EXCEPT !.op = "acceptInvitation", !.pc = "markAccepted",
                              !.actor = db[i].invitedBy, !.user = a,
                              !.company = db[i].company, !.role = db[i].role,
                              !.invitation = i])

\* findAbandonedSignupUserIds; any account may be older than the threshold.
FindAbandonedSignup(t) == \E u \in User :
    /\ Live(db, u)
    /\ activeCompaniesOf(db, u) = {}
    /\ Grant(t, [NoJob EXCEPT !.op = "sweep", !.pc = "orphan",
                              !.leavers = {u}])

-----------------------------------------------------------------------------
(* Locking the OWNER memberships (lockOwnerMembershipsWhereCompany).  The  *)
(* rows are chosen by the statement's snapshot; the locks come later.  A   *)
(* row deleted while the statement waits is dropped; one that is no longer *)
(* OWNER is dropped from the result but stays locked; an OWNER committed   *)
(* after the snapshot is not locked.                                       *)

\* The companies whose owners are locked: the request's, or for a withdrawal
\* all those of the user (lockOwnerMembershipsOfUserCompanies).
ownerLockScope(t) ==
    IF job[t].op = "deleteAccount"
    THEN {c \in Company : IsMember(View(t), job[t].user, c)}
    ELSE {job[t].company}

\* Mutant: the locking read is left out.
SnapshotOwners_NoLock(t) ==
    /\ At(t, "snapshotOwners")
    /\ Statement(t, {}, own[t], GoTo(t, "lockOwners"))

SnapshotOwners(t) ==
    /\ At(t, "snapshotOwners")
    /\ LET rows == UNION {ownerMembershipsOf(View(t), c) : c \in ownerLockScope(t)}
       IN  Statement(t, {}, own[t],
                     [job[t] EXCEPT !.pc = "lockOwners", !.owners = rows])

\* What each use case does once it has the owners.
afterOwnerLock(op) ==
    CASE op = "changeRole"        -> "setRole"
      [] op = "transferOwnership" -> "promote"
      [] op = "removeMember"      -> "deleteMembership"
      [] op = "deleteCompany"     -> "recheck"
      [] OTHER                    -> "advisory"

LockOwners(t) ==
    /\ At(t, "lockOwners")
    /\ LET rows == {m \in job[t].owners : View(t)[m] # None}
       IN  Statement(t, {<<m, "UPDATE">> : m \in rows}, own[t],
                     [job[t] EXCEPT !.pc = afterOwnerLock(job[t].op),
                                    !.owners = {}])

-----------------------------------------------------------------------------
(* keepingAnOwner: the writes, then the count.                             *)

\* updateMembershipRole(u, company, role); no row is NotFound.
updateMembershipRole(t, u, role, pc) ==
    LET m == <<u, job[t].company>>
    IN  \/ /\ View(t)[m] # None
           /\ Statement(t, {<<m, "NO KEY UPDATE">>},
                        [own[t] EXCEPT ![m] = role], GoTo(t, pc))
        \/ /\ View(t)[m] = None
           /\ Rollback(t)

SetRole(t) ==
    /\ At(t, "setRole")
    /\ updateMembershipRole(t, job[t].user, job[t].role, "countOwners")

Promote(t) ==
    /\ At(t, "promote")
    /\ updateMembershipRole(t, job[t].user, "OWNER", "demote")

Demote(t) ==
    /\ At(t, "demote")
    /\ updateMembershipRole(t, job[t].actor, "ADMIN", "countOwners")

DeleteMembership(t) ==
    /\ At(t, "deleteMembership")
    /\ LET m == <<job[t].user, job[t].company>>
       IN  \/ /\ View(t)[m] # None
              /\ Statement(t, {<<m, "UPDATE">>}, [own[t] EXCEPT ![m] = None],
                           GoTo(t, "countOwners"))
           \/ /\ View(t)[m] = None
              /\ Rollback(t)

\* No OWNER left in what the transaction sees: LastOwner.
CountOwners(t) ==
    /\ At(t, "countOwners")
    /\ \/ /\ ownerMembershipsOf(View(t), job[t].company) # {}
          /\ Statement(t, {}, own[t],
                IF job[t].op = "removeMember"
                THEN [job[t] EXCEPT !.pc = "reassign", !.leavers = {job[t].user}]
                ELSE GoTo(t, "commit"))
       \/ /\ ownerMembershipsOf(View(t), job[t].company) = {}
          /\ Rollback(t)

-----------------------------------------------------------------------------
(* Leaving: the current company and the account.                           *)

\* Where a request goes when no leaver is left to check.
afterOrphans(t) == IF job[t].op = "deleteCompany" THEN "softDelete" ELSE "commit"

\* Mutant: the current company is left as it was.
ReassignLastUsedCompany_Forgotten(t) ==
    /\ At(t, "reassign")
    /\ Statement(t, {}, own[t], GoTo(t, IF job[t].leavers = {} THEN afterOrphans(t)
                                        ELSE "orphan"))

\* reassignLastUsedCompanyAfterLeaving: lock the users who left and move the
\* ones whose current company is the one they left to a company they still
\* belong to.  The code takes the oldest; joined_at is not kept here, so any
\* of them may be taken.
ReassignLastUsedCompany(t) ==
    /\ At(t, "reassign")
    /\ LET d == View(t)
           present == {u \in job[t].leavers : Live(d, u)}
           moved == {u \in present : d[u] = job[t].company}
       IN  \E next \in [moved -> Company \cup {NoCompany}] :
             /\ \A u \in moved :
                  IF activeCompaniesOf(d, u) = {} THEN next[u] = NoCompany
                  ELSE next[u] \in activeCompaniesOf(d, u)
             /\ Statement(t, {<<u, "UPDATE">> : u \in present},
                          [r \in Row |-> IF r \in moved THEN next[r] ELSE own[t][r]],
                          GoTo(t, IF job[t].leavers = {} THEN afterOrphans(t)
                                  ELSE "orphan"))

withoutLeaver(t, u) ==
    LET rest == job[t].leavers \ {u}
    IN  [job[t] EXCEPT !.pc = IF rest = {} THEN afterOrphans(t) ELSE "orphan",
                       !.leavers = rest]

\* Mutant: the user is not locked before the count.
CountOrphan_NoLock(t) ==
    /\ At(t, "orphan")
    /\ \E u \in job[t].leavers :
         Statement(t, {}, own[t],
                   IF activeCompaniesOf(View(t), u) = {}
                   THEN [job[t] EXCEPT !.pc = "deleteUser", !.user = u]
                   ELSE withoutLeaver(t, u))

\* Mutant: every leaver is kept.
CountOrphan_AlwaysKept(t) ==
    /\ At(t, "orphan")
    /\ \E u \in job[t].leavers : Statement(t, {}, own[t], withoutLeaver(t, u))

\* deleteAccountIfOrphaned, first half: lock the user, then count the active
\* memberships; "kept" when there is one.
CountOrphan(t) ==
    /\ At(t, "orphan")
    /\ \E u \in job[t].leavers :
         Statement(t, IF Live(View(t), u) THEN {<<u, "UPDATE">>} ELSE {}, own[t],
                   IF activeCompaniesOf(View(t), u) = {}
                   THEN [job[t] EXCEPT !.pc = "deleteUser", !.user = u]
                   ELSE withoutLeaver(t, u))

\* Mutant: the cascade marks memberships deleted as if they were users.
DeleteUser_BadCascade(t) ==
    /\ At(t, "deleteUser")
    /\ LET u == job[t].user
       IN  Statement(t, {}, [r \in Row |-> IF r = u \/ r \in {u} \X Company
                                           THEN Gone ELSE own[t][r]],
                     GoTo(t, "commit"))

\* deleteUser with its ON DELETE CASCADE: memberships and the invitations the
\* user sent.  A user already gone is NotFound, which the orphan path turns
\* into "kept".
DeleteUser(t) ==
    /\ At(t, "deleteUser")
    /\ LET d == View(t)
           u == job[t].user
           cascade == {m \in Membership : m[1] = u /\ d[m] # None}
                      \cup {i \in Invitation : IsRow(d, i) /\ d[i].invitedBy = u}
           done == IF job[t].op = "deleteAccount" THEN GoTo(t, "commit")
                   ELSE withoutLeaver(t, u)
       IN  \/ /\ Live(d, u)
              /\ Statement(t, {<<r, "UPDATE">> : r \in {u} \cup cascade},
                    [r \in Row |-> IF r \in {u} \cup (cascade \cap Invitation)
                                   THEN Gone
                                   ELSE IF r \in cascade THEN None
                                   ELSE own[t][r]],
                    done)
           \/ /\ ~Live(d, u)
              /\ IF job[t].op = "deleteAccount" THEN Rollback(t)
                 ELSE Statement(t, {}, own[t], done)

-----------------------------------------------------------------------------
(* deleteAccountUnlessLastOwner and deleteCompany.                         *)

\* findCompaniesBlockingUserDeletion
companiesBlockingUserDeletion(d, u) ==
    {c \in activeCompaniesOf(d, u) : ownerMembershipsOf(d, c) = {<<u, c>>}}

CheckBlocking(t) ==
    /\ At(t, "blocking")
    /\ \/ /\ companiesBlockingUserDeletion(View(t), job[t].user) = {}
          /\ Statement(t, {}, own[t], GoTo(t, "deleteUser"))
       \/ /\ companiesBlockingUserDeletion(View(t), job[t].user) # {}
          /\ Rollback(t)

\* Under the owner locks: a company no longer ACTIVE is answered with nothing
\* done; an actor who is no longer OWNER is Forbidden.
Recheck(t) ==
    /\ At(t, "recheck")
    /\ LET d == View(t)
           c == job[t].company
           forbidden == d[c] = "ACTIVE" /\ ~IsOwner(d, job[t].actor, c)
       IN  \/ /\ d[c] = "ACTIVE" /\ IsOwner(d, job[t].actor, c)
              /\ Statement(t, {}, own[t], GoTo(t, "revokePending"))
           \/ /\ d[c] = "DELETED"
              /\ Statement(t, {}, own[t], GoTo(t, "commit"))
           \/ /\ d[c] = None \/ forbidden
              /\ Rollback(t)

\* Mutant: the pending invitations of the company stay pending.
RevokePendingInvitations_Forgotten(t) ==
    /\ At(t, "revokePending")
    /\ Statement(t, {}, own[t], GoTo(t, "removeMemberships"))

RevokePendingInvitations(t) ==
    /\ At(t, "revokePending")
    /\ LET d == View(t)
           pending == {i \in Invitation :
                          IsPending(d, i) /\ d[i].company = job[t].company}
       IN  Statement(t, {<<i, "NO KEY UPDATE">> : i \in pending},
                     [r \in Row |-> IF r \in pending
                                    THEN [d[r] EXCEPT !.status = "REVOKED"]
                                    ELSE own[t][r]],
                     GoTo(t, "removeMemberships"))

RemoveMemberships(t) ==
    /\ At(t, "removeMemberships")
    /\ LET rows == {m \in Membership : m[2] = job[t].company /\ View(t)[m] # None}
       IN  Statement(t, {<<m, "UPDATE">> : m \in rows},
                     [r \in Row |-> IF r \in rows THEN None ELSE own[t][r]],
                     [job[t] EXCEPT !.pc = "reassign",
                                    !.leavers = {m[1] : m \in rows}])

SoftDeleteCompany(t) ==
    /\ At(t, "softDelete")
    /\ LET c == job[t].company
           active == View(t)[c] = "ACTIVE"
       IN  Statement(t, IF active THEN {<<c, "NO KEY UPDATE">>} ELSE {},
                     IF active THEN [own[t] EXCEPT ![c] = "DELETED"] ELSE own[t],
                     GoTo(t, "commit"))

\* updateCompanyInfo first reads the company: NotFound unless it is ACTIVE.
FindCompany(t) ==
    /\ At(t, "findCompany")
    /\ \/ /\ View(t)[job[t].company] = "ACTIVE"
          /\ Statement(t, {}, own[t], GoTo(t, "updateCompany"))
       \/ /\ View(t)[job[t].company] # "ACTIVE"
          /\ Rollback(t)

\* The UPDATE writes a version of row c with another name and org code, which
\* are not kept here, and with the status the row has.
renames(t, c) == [own[t] EXCEPT ![c] = View(t)[c]]

\* Mutant: the UPDATE goes by the status that was read before.
UpdateCompany_AnyStatus(t) ==
    /\ At(t, "updateCompany")
    /\ LET c == job[t].company
       IN  Statement(t, {<<c, "NO KEY UPDATE">>}, renames(t, c), GoTo(t, "commit"))

\* The UPDATE asks for status ACTIVE again, of the row as it is once it is
\* locked.  No such row is NotFound.
UpdateCompany(t) ==
    /\ At(t, "updateCompany")
    /\ LET c == job[t].company
       IN  \/ /\ View(t)[c] = "ACTIVE"
              /\ Statement(t, {<<c, "NO KEY UPDATE">>}, renames(t, c),
                           GoTo(t, "commit"))
           \/ /\ View(t)[c] # "ACTIVE"
              /\ Rollback(t)

-----------------------------------------------------------------------------
(* Joining: createSignupCompany, addCompany and acceptInvitation share     *)
(* applyJoin.                                                              *)

\* Mutant: the advisory lock is not taken.
LockMembershipChanges_NoLock(t) ==
    /\ At(t, "advisory")
    /\ Statement(t, {}, own[t],
                 GoTo(t, CASE job[t].op = "createSignupCompany" -> "countActive"
                           [] job[t].op = "deleteAccount"       -> "blocking"
                           [] OTHER                             -> "insertMembership"))

\* lockMembershipChangesOfUser
LockMembershipChanges(t) ==
    /\ At(t, "advisory")
    /\ Statement(t, {<<job[t].user, "ADVISORY">>}, own[t],
                 GoTo(t, CASE job[t].op = "createSignupCompany" -> "countActive"
                           [] job[t].op = "deleteAccount"       -> "blocking"
                           [] OTHER                             -> "insertMembership"))

\* createSignupCompany is for accounts that belong nowhere: AlreadyExists.
CountActive(t) ==
    /\ At(t, "countActive")
    /\ \/ /\ activeCompaniesOf(View(t), job[t].user) = {}
          /\ Statement(t, {}, own[t], GoTo(t, "insertCompany"))
       \/ /\ activeCompaniesOf(View(t), job[t].user) # {}
          /\ Rollback(t)

InsertCompany(t) ==
    /\ At(t, "insertCompany")
    /\ Statement(t, {<<job[t].company, "UPDATE">>},
                 [own[t] EXCEPT ![job[t].company] = "ACTIVE"],
                 GoTo(t, IF job[t].op = "addCompany" THEN "advisory"
                         ELSE "insertMembership"))

\* The unique index waits for whoever is writing the same (user, company) and
\* the two foreign keys take KEY SHARE on the rows they name.  A duplicate or
\* a user that is gone is a DbError.
InsertMembership(t) ==
    /\ At(t, "insertMembership")
    /\ LET u == job[t].user
           c == job[t].company
           m == <<u, c>>
           need == {<<m, "UPDATE">>, <<u, "KEY SHARE">>, <<c, "KEY SHARE">>}
           ok == View(t)[m] = None /\ Live(View(t), u)
       IN  \/ /\ ok
              /\ Statement(t, need, [own[t] EXCEPT ![m] = job[t].role],
                           GoTo(t, "setCurrent"))
           \/ /\ AllFree(t, need) /\ ~ok
              /\ Rollback(t)

\* updateUserLastUsedCompany, on a join and, once lockCurrentCompanyOf has
\* shown that the company differs, on a switch.
SetCurrent(t) ==
    /\ At(t, "setCurrent")
    /\ LET u == job[t].user
           c == job[t].company
           changes == Live(View(t), u) /\ View(t)[u] # c
       IN  Statement(t, {<<u, "NO KEY UPDATE">>}
                        \cup IF changes THEN {<<c, "KEY SHARE">>} ELSE {},
                     IF changes THEN [own[t] EXCEPT ![u] = c] ELSE own[t],
                     GoTo(t, "commit"))

\* Mutant: the membership is read, not locked.
LockMembershipForShare_NoLock(t) ==
    /\ At(t, "lockMembership")
    /\ \/ /\ View(t)[<<job[t].user, job[t].company>>] # None
          /\ Statement(t, {}, own[t], GoTo(t, "setCurrent"))
       \/ /\ View(t)[<<job[t].user, job[t].company>>] = None
          /\ Rollback(t)

\* switchCurrentCompany holds the membership FOR SHARE: Forbidden without it.
LockMembershipForShare(t) ==
    /\ At(t, "lockMembership")
    /\ LET m == <<job[t].user, job[t].company>>
       IN  \/ /\ View(t)[m] # None
              /\ Statement(t, {<<m, "SHARE">>}, own[t], GoTo(t, "setCurrent"))
           \/ /\ View(t)[m] = None
              /\ Rollback(t)

-----------------------------------------------------------------------------
(* Invitations.                                                            *)

InsertInvitation(t) ==
    /\ At(t, "insertInvitation")
    /\ LET j == job[t]
           need == {<<j.invitation, "UPDATE">>, <<j.actor, "KEY SHARE">>,
                    <<j.company, "KEY SHARE">>}
           row == [company |-> j.company, email |-> j.user, role |-> j.role,
                   invitedBy |-> j.actor, status |-> "PENDING"]
       IN  \/ /\ Live(View(t), j.actor)
              /\ Statement(t, need, [own[t] EXCEPT ![j.invitation] = row],
                           GoTo(t, "commit"))
           \/ /\ AllFree(t, need) /\ ~Live(View(t), j.actor)
              /\ Rollback(t)

\* The single statement that spends a PENDING invitation: it writes status
\* and moves on, or finds no such row and fails.
spendPending(t, matches, status, pc) ==
    LET i == job[t].invitation
        d == View(t)
    IN  \/ /\ matches
           /\ Statement(t, {<<i, "NO KEY UPDATE">>},
                        [own[t] EXCEPT ![i] = [d[i] EXCEPT !.status = status]],
                        GoTo(t, pc))
        \/ /\ ~matches
           /\ Rollback(t)

\* Mutant: the update does not ask for status PENDING.
MarkInvitationAccepted_AnyStatus(t) ==
    /\ At(t, "markAccepted")
    /\ spendPending(t, IsRow(View(t), job[t].invitation), "ACCEPTED",
                    IF job[t].role = "OWNER" THEN "verifyInviter" ELSE "advisory")

\* No row: DoubleAccept.  Only an OWNER invitation is re-verified.
MarkInvitationAccepted(t) ==
    /\ At(t, "markAccepted")
    /\ spendPending(t, IsPending(View(t), job[t].invitation), "ACCEPTED",
                    IF job[t].role = "OWNER" THEN "verifyInviter" ELSE "advisory")

\* No row: NotFoundOrNotPending.
MarkInvitationRevoked(t) ==
    /\ At(t, "markRevoked")
    /\ spendPending(t, /\ IsPending(View(t), job[t].invitation)
                       /\ View(t)[job[t].invitation].company = job[t].company,
                    "REVOKED", "commit")

\* Mutant: the inviter's membership is read, not locked.
VerifyInviter_NoLock(t) ==
    /\ At(t, "verifyInviter")
    /\ \/ /\ View(t)[<<job[t].actor, job[t].company>>] = "OWNER"
          /\ Statement(t, {}, own[t], GoTo(t, "advisory"))
       \/ /\ View(t)[<<job[t].actor, job[t].company>>] # "OWNER"
          /\ Rollback(t)

\* verifyInviter on the inviter's membership, locked FOR SHARE: an inviter who
\* is missing or demoted is InviterNotOwner.
VerifyInviter(t) ==
    /\ At(t, "verifyInviter")
    /\ LET m == <<job[t].actor, job[t].company>>
       IN  \/ /\ View(t)[m] = "OWNER"
              /\ Statement(t, {<<m, "SHARE">>}, own[t], GoTo(t, "advisory"))
           \/ /\ View(t)[m] # "OWNER"
              /\ View(t)[m] # None => Free(t, m, "SHARE")
              /\ Rollback(t)

-----------------------------------------------------------------------------
(* The end of a transaction, and the world outside.                        *)

Commit(t) ==
    /\ At(t, "commit")
    /\ Publish(t)
    /\ job' = [job EXCEPT ![t] = NoJob]
    /\ UNCHANGED expired

\* A lost connection, a time-out or being chosen as the victim of a deadlock.
DbFailure(t) == job[t] # NoJob /\ Rollback(t)

\* Outside this code: better-auth inserts a user on the first sign-in.
SignUp(u) ==
    /\ db[u] = None
    /\ db' = [db EXCEPT ![u] = NoCompany]
    /\ UNCHANGED <<own, held, job, expired>>

\* expires_at passes.
Expire(i) ==
    /\ IsPending(db, i) /\ i \notin expired
    /\ expired' = expired \cup {i}
    /\ UNCHANGED <<db, own, held, job>>

Guard(t) ==
    \/ RequireRoleChange(t) \/ RequireRemoval(t) \/ RequireTransferOwnership(t)
    \/ RequireCompanyDelete(t) \/ RequireCompanyUpdate(t)
    \/ RequireActorToCreate(t) \/ RequireActorToSwitch(t)
    \/ RequireActorToDelete(t) \/ RequireInvite(t) \/ RequireRevoke(t)
    \/ RequireInvitationAccept(t) \/ FindAbandonedSignup(t)

TxStep(t) ==
    \/ SnapshotOwners(t) \/ LockOwners(t) \/ SetRole(t) \/ Promote(t)
    \/ Demote(t) \/ DeleteMembership(t) \/ CountOwners(t)
    \/ ReassignLastUsedCompany(t) \/ CountOrphan(t) \/ DeleteUser(t)
    \/ CheckBlocking(t) \/ Recheck(t) \/ RevokePendingInvitations(t)
    \/ RemoveMemberships(t) \/ SoftDeleteCompany(t)
    \/ FindCompany(t) \/ UpdateCompany(t) \/ LockMembershipChanges(t)
    \/ CountActive(t) \/ InsertCompany(t) \/ InsertMembership(t)
    \/ SetCurrent(t) \/ LockMembershipForShare(t) \/ InsertInvitation(t)
    \/ MarkInvitationAccepted(t) \/ MarkInvitationRevoked(t)
    \/ VerifyInviter(t) \/ Commit(t)

Next ==
    \/ \E t \in Slot : Guard(t) \/ TxStep(t) \/ DbFailure(t)
    \/ \E u \in User : SignUp(u)
    \/ \E i \in Invitation : Expire(i)

Spec == Init /\ [][Next]_vars

-----------------------------------------------------------------------------
(* Properties.                                                             *)

\* Every variable has its type; own and held speak of rows and slots only.
TypeOK ==
    /\ RowsTyped(db)
    /\ DOMAIN own = Slot /\ \A t \in Slot : WritesTyped(own[t])
    /\ held \subseteq Slot \X Row \X Mode
    /\ job \in [Slot -> Job]
    /\ expired \subseteq Invitation

\* A company in use always has an OWNER, whatever role changes, transfers,
\* removals and withdrawals run at the same time (keepingAnOwner,
\* findCompaniesBlockingUserDeletion).
OwnerKept ==
    \A c \in Company : db[c] = "ACTIVE" => ownerMembershipsOf(db, c) # {}

\* The current company of a user is one the user belongs to, and a user who
\* belongs somewhere has one: joins, switches, removals and company deletions
\* that overlap never leave last_used_company_id dangling or NULL.
CurrentCompanyTracksMembership ==
    \A u \in User : Live(db, u) =>
        IF db[u] = NoCompany THEN \A c \in Company : ~IsMember(db, u, c)
        ELSE IsMember(db, u, db[u])

\* A membership row exists only in a company that is in use: deleteCompany
\* leaves no ghost memberships behind.
NoGhostMembership ==
    \A u \in User, c \in Company : IsMember(db, u, c) => db[c] = "ACTIVE"

\* An account that belongs to an active company never becomes one that
\* belongs to none: losing the last membership deletes it in the same commit
\* (deleteAccountIfOrphaned, also when two removals overlap).
NeverOrphaned ==
    [][\A u \in User : Live(db, u) /\ activeCompaniesOf(db, u) # {}
          => activeCompaniesOf(db', u) # {} \/ db'[u] = Gone]_vars

\* A removal, a company deletion or the sweep deletes an account only if the
\* account belongs to no active company other than the one being left: a
\* membership gained while the request ran saves the account.
OnlyOrphansDeleted ==
    [][\A u \in User : Live(db, u) /\ db'[u] = Gone =>
          \E t \in Slot :
             /\ own[t][u] = Gone
             /\ \/ job[t].op = "deleteAccount"
                \/ activeCompaniesOf(db, u) \subseteq {job[t].company}]_vars

\* The step ends request t.
Ends(t) == job[t] # NoJob /\ job'[t] = NoJob

\* Somebody becomes OWNER by accepting an invitation only while the inviter
\* is OWNER: a demotion or removal that committed first wins.
OwnerInvitationBacked ==
    [][\A t \in Slot :
          /\ Ends(t)
          /\ job[t].op = "acceptInvitation" /\ job[t].role = "OWNER"
          /\ ~IsMember(db, job[t].user, job[t].company)
          /\ IsMember(db', job[t].user, job[t].company)
          => IsOwner(db, job[t].actor, job[t].company)]_vars

\* An invitation is spent once: ACCEPTED and REVOKED are final, and whoever
\* joins by an invitation is the one whose commit spends it.
InvitationSpentOnce ==
    [][/\ \A i \in Invitation : IsRow(db, i) /\ ~IsPending(db, i)
            => db'[i] \in {db[i], Gone}
       /\ \A t \in Slot :
            /\ Ends(t)
            /\ job[t].op = "acceptInvitation"
            /\ ~IsMember(db, job[t].user, job[t].company)
            /\ IsMember(db', job[t].user, job[t].company)
            => /\ IsPending(db, job[t].invitation)
               /\ IsRow(db', job[t].invitation)
               /\ db'[job[t].invitation].status = "ACCEPTED"]_vars

\* createSignupCompany gives a company only to an account that has none, also
\* when the same user signs up twice or accepts an invitation meanwhile.
SignupCompanyIsFirst ==
    [][\A t \in Slot :
          /\ job[t].op = "createSignupCompany"
          /\ db[job[t].company] = None /\ db'[job[t].company] = "ACTIVE"
          => activeCompaniesOf(db, job[t].user) = {}]_vars

\* What updateCompanyInfo is about to commit, and to enter in the audit log, is
\* a change of a company in use: a deletion that committed after it read the
\* company ends it, and one that comes later waits for it.
UpdatesCompanyInUse ==
    \A t \in Slot :
        job[t].op = "updateCompanyInfo" /\ job[t].pc = "commit"
        => db[job[t].company] = "ACTIVE"

=============================================================================
