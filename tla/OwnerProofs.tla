---------------------------- MODULE OwnerProofs ----------------------------
(***************************************************************************)
(* Theorems about Tenancy on companies: a deleted one keeps no members, and *)
(* one in use keeps an owner.                                              *)
(*                                                                         *)
(* Writes, Follows and Results say what each statement writes, where its   *)
(* request goes on and what it has found; every step of a request is such  *)
(* a statement, a rollback or a commit (TxStepEffect, Steps).  Two         *)
(* invariants strengthen BelongInv.  GhostInv: memberships and pending     *)
(* invitations are of companies in use, and a deletion under way has spent *)
(* the invitations before it removes the members.  TenureInv: a request    *)
(* has locked every owner that is committed, or the only other one on the  *)
(* company has, and what it has counted stays.                             *)
(***************************************************************************)
EXTENDS MembershipProofs

\* A request that is served.
Served(t) == job[t].op = "none" \/ job[t].op \in Ops

-----------------------------------------------------------------------------
(* Companies in use.                                                       *)

\* Memberships and pending invitations are of companies in use.
Closed(d) ==
    /\ \A u \in User, c \in Company : d[<<u, c>>] # None => d[c] = "ACTIVE"
    /\ \A i \in Invitation : IsPending(d, i) => d[d[i].company] = "ACTIVE"

\* No invitations are created where companies are deleted, and the service
\* starts on closed databases.
Settled ==
    /\ "createInvitation" \notin Ops \/ "deleteCompany" \notin Ops
    /\ \A d \in InitialDb : Closed(d)

\* Whoever writes an invitation spends or creates it.
Spends(t) ==
    \A i \in Invitation :
        /\ own[t][i] # None
        /\ own[t][i] \in InvitationRecord =>
            \/ /\ IsRow(db, i)
               /\ own[t][i].company = db[i].company /\ own[t][i].role = db[i].role
               /\ own[t][i].status # "PENDING"
            \/ /\ job[t].op = "createInvitation" /\ db[i] = None
               /\ own[t][i].company = job[t].company

\* The invitation that is being accepted is one to the company of the request.
Accepts(t) ==
    job[t].op = "acceptInvitation" =>
        /\ db[job[t].invitation] # None
        /\ IsRow(db, job[t].invitation) => db[job[t].invitation].company = job[t].company

\* Invitations are created to companies in use.
Invites(t) == job[t].op = "createInvitation" => db[job[t].company] = "ACTIVE"

\* t has found the company in use and goes on to delete it.
Deletes(t) == job[t].pc = "commit" => own[t][job[t].company] = "DELETED"

\* A deletion has first spent the invitations to the company, then removed its
\* members, and nobody gets in again.
Closing(t) ==
    /\ job[t].op = "deleteCompany" =>
         /\ db[job[t].company] # None
         /\ job[t].pc \notin {"snapshotOwners", "lockOwners", "recheck", "revokePending"}
            /\ Deletes(t) =>
              /\ \A i \in Invitation : ~ (/\ Alive(Seen(t, i)) /\ Seen(t, i).status = "PENDING"
                                          /\ Seen(t, i).company = job[t].company)
              /\ job[t].pc # "removeMemberships" =>
                   \A u \in User : Seen(t, <<u, job[t].company>>) = None
    /\ \A c \in Company : own[t][c] = "DELETED" => job[t].op = "deleteCompany" /\ job[t].pc = "commit"

GhostSound(t) == Served(t) /\ Spends(t) /\ Accepts(t) /\ Invites(t) /\ Closing(t)

GhostInv == BelongInv /\ Closed(db) /\ \A t \in Slot : GhostSound(t)

-----------------------------------------------------------------------------
(* Owners.                                                                 *)

\* Every company in use has an OWNER.
Owned(d) == \A c \in Company : d[c] = "ACTIVE" => \E u \in User : d[<<u, c>>] = "OWNER"

\* Nobody becomes OWNER of a company that is there.
Steady ==
    /\ "changeRole" \notin Ops /\ "transferOwnership" \notin Ops
    /\ "createInvitation" \notin Ops
    /\ \A d \in InitialDb, i \in Invitation : IsRow(d, i) => d[i].role # "OWNER"

\* At most two requests at a time, and nobody withdraws.
Paired ==
    /\ "deleteAccount" \notin Ops
    /\ \A r, s, t \in Slot : r = s \/ s = t \/ r = t

\* The requests of keepingAnOwner.
Keepers == {"changeRole", "transferOwnership", "removeMember"}

Chosen(t) == job[t].op \in Keepers /\ job[t].pc # "snapshotOwners"

\* The owner lock of t is, or will be, on all owners of c that are committed.
Complete(t, c) ==
    \A u \in User : db[<<u, c>>] = "OWNER" =>
        IF job[t].pc = "lockOwners" THEN <<u, c>> \in job[t].owners
        ELSE Has(t, <<u, c>>, "UPDATE")

Counted == {"reassign", "orphan", "deleteUser", "commit"}

\* The owner that t has counted is there.
Keeps(t) ==
    job[t].op \in Keepers /\ job[t].pc \in Counted /\ db[job[t].company] = "ACTIVE" =>
        \E u \in User : Seen(t, <<u, job[t].company>>) = "OWNER"

\* Who writes which memberships.
Parties(t) ==
    /\ job[t].op = "transferOwnership" => job[t].actor # job[t].user
    /\ job[t].op \in {"sweep", "deleteAccount"} => job[t].company = NoCompany
    /\ job[t].op \in Keepers \cup {"deleteCompany"} => db[job[t].company] # None
    /\ job[t].op = "removeMember" =>
         /\ job[t].leavers \subseteq {job[t].user}
         /\ job[t].pc \notin {"snapshotOwners", "lockOwners", "deleteMembership"} =>
              own[t][<<job[t].user, job[t].company>>] = None
    /\ job[t].op = "deleteCompany" /\ job[t].pc = "commit" => Seen(t, job[t].company) # "ACTIVE"
    /\ job[t].op \in {"createSignupCompany", "addCompany"} =>
         /\ job[t].role = "OWNER"
         /\ job[t].pc \in {"setCurrent", "commit"} =>
              own[t][<<job[t].user, job[t].company>>] = "OWNER"

RoleWrites(t) ==
    \A u \in User, c \in Company :
        /\ own[t][<<u, c>>] \in Role =>
             /\ c = job[t].company
             /\ \/ job[t].op \in {"changeRole", "transferOwnership"} /\ db[<<u, c>>] # None
                \/ /\ job[t].op \in JoinOps /\ db[<<u, c>>] = None
                   /\ own[t][<<u, c>>] = job[t].role
        /\ own[t][<<u, c>>] = None =>
             /\ job[t].op \in {"removeMember", "deleteCompany", "deleteAccount", "sweep"}
             /\ job[t].op = "deleteAccount" => u = job[t].user

\* A withdrawal: the companies the user owns have another owner who stays.
Withdraws(t) ==
    job[t].op = "deleteAccount" =>
        /\ job[t].pc \in {"blocking", "deleteUser", "commit"} => Has(t, job[t].user, "ADVISORY")
        /\ job[t].pc \in {"lockOwners", "advisory", "blocking"} =>
             \A c \in Company : db[<<job[t].user, c>>] = "OWNER" =>
                 \/ Complete(t, c)
                 \/ \A u \in User : db[<<u, c>>] = "OWNER" => u = job[t].user
        /\ job[t].pc \in {"deleteUser", "commit"} =>
             \A c \in Company : db[<<job[t].user, c>>] = "OWNER" /\ db[c] = "ACTIVE" =>
                 \E u \in User : /\ u # job[t].user /\ db[<<u, c>>] = "OWNER"
                                 /\ Has(t, <<u, c>>, "UPDATE")

\* Without promotions ...
NoPromotion(t) ==
    /\ job[t].op = "acceptInvitation" => job[t].role # "OWNER"
    /\ \A i \in Invitation : own[t][i] \in InvitationRecord => own[t][i].role # "OWNER"

SteadySound ==
    /\ \A i \in Invitation : IsRow(db, i) => db[i].role # "OWNER"
    /\ \A t \in Slot : NoPromotion(t) /\ (Chosen(t) => Complete(t, job[t].company))

PairSound ==
    \A s, t \in Slot :
        s # t /\ Chosen(s) /\ Chosen(t) /\ job[s].company = job[t].company =>
            Complete(s, job[t].company) \/ Complete(t, job[t].company)

TenureSound(t) == Served(t) /\ Parties(t) /\ RoleWrites(t) /\ Keeps(t) /\ Withdraws(t)

TenureInv ==
    /\ BelongInv /\ Owned(db)
    /\ \A t \in Slot : TenureSound(t)
    /\ PairSound
    /\ Steady => SteadySound

-----------------------------------------------------------------------------
(* What a statement does.                                                  *)

\* The value v that t writes into the membership of u in c.
Rewrites(t, u, c, v) ==
    \/ /\ u = job[t].user /\ c = job[t].company /\ Seen(t, <<u, c>>) # None
       /\ \/ job[t].pc = "setRole" /\ v = job[t].role
          \/ job[t].pc = "promote" /\ v = "OWNER"
          \/ job[t].pc = "deleteMembership" /\ v = None
    \/ /\ u = job[t].actor /\ c = job[t].company /\ Seen(t, <<u, c>>) # None
       /\ job[t].pc = "demote" /\ v = "ADMIN"
    \/ /\ u = job[t].user /\ c = job[t].company /\ Seen(t, <<u, c>>) = None
       /\ job[t].pc = "insertMembership" /\ v = job[t].role
    \/ c = job[t].company /\ job[t].pc = "removeMemberships" /\ v = None
    \/ u = job[t].user /\ job[t].pc = "deleteUser" /\ v = None

\* The companies, invitations and memberships that t writes.
Writes(t, w) ==
    /\ \A c \in Company :
         \/ w[c] = own[t][c]
         \/ w[c] = "ACTIVE" /\ job[t].pc \in {"updateCompany", "insertCompany"}
         \/ w[c] = "DELETED" /\ job[t].pc = "softDelete" /\ c = job[t].company
    /\ \A i \in Invitation :
         \/ w[i] \in {own[t][i], Gone}
         \/ /\ job[t].pc = "insertInvitation" /\ i = job[t].invitation
            /\ w[i] \in InvitationRecord /\ w[i].company = job[t].company
         \/ /\ job[t].pc \in {"revokePending", "markAccepted", "markRevoked"}
            /\ Seen(t, i) \in InvitationRecord
            /\ \E s \in {"ACCEPTED", "REVOKED"} : w[i] = [Seen(t, i) EXCEPT !.status = s]
    /\ \A u \in User, c \in Company :
         w[<<u, c>>] # own[t][<<u, c>>] => Rewrites(t, u, c, w[<<u, c>>])

\* Where t goes on.
Follows(t, j) ==
    /\ job[t].pc # "commit"
    /\ j.op = job[t].op /\ j.actor = job[t].actor /\ j.company = job[t].company
    /\ j.role = job[t].role /\ j.invitation = job[t].invitation
    /\ j.user = job[t].user \/ (job[t].pc = "orphan" /\ j.user \in job[t].leavers)
    /\ \/ j.leavers \subseteq job[t].leavers
       \/ job[t].pc = "countOwners" /\ j.leavers = {job[t].user}
       \/ job[t].pc = "removeMemberships"
    /\ job[t].pc = "snapshotOwners" => j.pc = "lockOwners"
    /\ job[t].pc = "lockOwners" => j.pc = afterOwnerLock(job[t].op)
    /\ job[t].pc \in {"setRole", "demote", "deleteMembership"} => j.pc = "countOwners"
    /\ job[t].pc = "promote" => j.pc = "demote"
    /\ job[t].pc = "countOwners" => j.pc \in {"reassign", "commit"}
    /\ job[t].pc \in {"reassign", "orphan", "deleteUser"} =>
         \/ j.pc \in {"orphan", "deleteUser"}
         \/ j.pc = afterOrphans(t) /\ j.op # "deleteAccount"
         \/ j.pc = "commit" /\ j.op = "deleteAccount"
    /\ job[t].pc = "revokePending" => j.pc = "removeMemberships"
    /\ job[t].pc = "removeMemberships" => j.pc = "reassign"
    /\ job[t].pc \in {"softDelete", "setCurrent"} => j.pc = "commit"
    /\ job[t].pc = "recheck" => j.pc \in {"revokePending", "commit"}
    /\ job[t].pc = "insertMembership" => j.pc = "setCurrent"
    /\ job[t].pc = "blocking" => j.pc = "deleteUser"
    /\ job[t].pc = "advisory" => j.pc \in {"countActive", "blocking", "insertMembership"}
    /\ job[t].pc = "lockMembership" => j.op = "switchCurrentCompany"
    /\ job[t].pc = "findCompany" => j.pc = "updateCompany"
    /\ job[t].pc \in {"updateCompany", "insertInvitation", "markRevoked"} => j.pc = "commit"
    /\ job[t].pc = "countActive" => j.pc = "insertCompany"
    /\ job[t].pc = "insertCompany" => j.pc \in {"advisory", "insertMembership"}
    /\ job[t].pc \in {"markAccepted", "verifyInviter"} => j.pc \in {"verifyInviter", "advisory"}

\* What t has found, locked or written.
Results(t, need, w, j) ==
    /\ job[t].pc = "snapshotOwners" =>
         \A u \in User, c \in Company :
            /\ IF job[t].op = "deleteAccount" THEN Seen(t, <<job[t].user, c>>) # None
               ELSE c = job[t].company
            /\ Seen(t, <<u, c>>) = "OWNER"
            => <<u, c>> \in j.owners
    /\ job[t].pc = "lockOwners" =>
         \A m \in job[t].owners : Seen(t, m) # None => <<m, "UPDATE">> \in need
    /\ job[t].pc = "advisory" => <<job[t].user, "ADVISORY">> \in need
    /\ job[t].pc = "deleteMembership" => w[<<job[t].user, job[t].company>>] = None
    /\ job[t].pc = "insertMembership" => w[<<job[t].user, job[t].company>>] = job[t].role
    /\ job[t].pc = "countOwners" => \E u \in User : Seen(t, <<u, job[t].company>>) = "OWNER"
    /\ job[t].pc = "blocking" =>
         \A c \in Company :
            Seen(t, <<job[t].user, c>>) = "OWNER" /\ Seen(t, c) = "ACTIVE" =>
                \E u \in User : u # job[t].user /\ Seen(t, <<u, c>>) = "OWNER"
    /\ job[t].pc = "recheck" /\ j.pc = "commit" => Seen(t, job[t].company) = "DELETED"
    /\ job[t].pc = "revokePending" =>
         \A i \in Invitation :
            /\ Alive(Seen(t, i)) /\ Seen(t, i).status = "PENDING"
            /\ Seen(t, i).company = job[t].company
            => Alive(w[i]) /\ w[i] # Unwritten /\ w[i].status = "REVOKED"
    /\ job[t].pc = "removeMemberships" =>
         \A u \in User : Seen(t, <<u, job[t].company>>) # None
                         => w[<<u, job[t].company>>] = None
    /\ job[t].pc = "softDelete" =>
         w[job[t].company] = IF Seen(t, job[t].company) = "ACTIVE" THEN "DELETED"
                             ELSE own[t][job[t].company]

Effect(t) ==
    \/ Commit(t)
    \/ Rollback(t)
    \/ \E need, w, j : /\ Statement(t, need, w, j) /\ Writes(t, w)
                       /\ Follows(t, j) /\ Results(t, need, w, j)

LEMMA EffectIs ==
    ASSUME NEW t, NEW need, NEW w, NEW j, Statement(t, need, w, j), Writes(t, w),
           Follows(t, j), Results(t, need, w, j)
    PROVE  Effect(t)
BY DEF Effect

\* What is known of a request before each of its statements.
LEMMA Asked ==
    ASSUME BelongInv, NEW t \in Slot
    PROVE  /\ job[t] \in Job /\ JobSound(job[t]) /\ WritesTyped(own[t])
           /\ Writes(t, own[t])
           /\ \A r \in Row : View(t)[r] = Seen(t, r)
           /\ \A pc : /\ GoTo(t, pc).pc = pc /\ SameRequest(t, GoTo(t, pc))
                      /\ GoTo(t, pc).invitation = job[t].invitation
<1>1. job[t] \in Job /\ JobSound(job[t]) /\ WritesTyped(own[t])
  BY JobFacts DEF BelongInv
<1>2. \A pc : /\ GoTo(t, pc).pc = pc /\ SameRequest(t, GoTo(t, pc))
              /\ GoTo(t, pc).invitation = job[t].invitation
  BY <1>1 DEF GoTo, SameRequest, Job
<1> QED BY <1>1, <1>2, ViewSeen DEF BelongInv, Writes

\* A statement that only reads.
LEMMA OwnerLockEffect ==
    ASSUME BelongInv, NEW t \in Slot, SnapshotOwners(t) \/ LockOwners(t)
    PROVE  Effect(t)
<1>0. /\ job[t] \in Job /\ JobSound(job[t]) /\ Writes(t, own[t])
      /\ \A r \in Row : View(t)[r] = Seen(t, r)
      /\ \A m \in Membership : m \in Row
      /\ \A u \in User, c \in Company : <<u, c>> \in Membership
  BY Asked, RowTypes DEF Membership
<1>1. CASE SnapshotOwners(t)
  <2> DEFINE rows == UNION {ownerMembershipsOf(View(t), c) : c \in ownerLockScope(t)}
             j == [job[t] EXCEPT !.pc = "lockOwners", !.owners = rows]
  <2>1. Statement(t, {}, own[t], j) /\ job[t].pc = "snapshotOwners"
    BY <1>1 DEF SnapshotOwners, At
  <2>2. ASSUME NEW u \in User, NEW c \in Company, Seen(t, <<u, c>>) = "OWNER",
               IF job[t].op = "deleteAccount" THEN Seen(t, <<job[t].user, c>>) # None
               ELSE c = job[t].company
        PROVE  <<u, c>> \in rows
    <3>1. c \in ownerLockScope(t)
      <4>1. job[t].op = "deleteAccount" => job[t].user \in User
        BY <1>0 DEF JobSound
      <4> QED BY <1>0, <2>2, <4>1 DEF ownerLockScope, IsMember
    <3>2. <<u, c>> \in ownerMembershipsOf(View(t), c)
      BY <1>0, <2>2 DEF ownerMembershipsOf
    <3> QED BY <3>1, <3>2
  <2> HIDE DEF rows
  <2>3. j.owners = rows /\ j.pc = "lockOwners" /\ SameRequest(t, j) /\ j.invitation = job[t].invitation
    BY <1>0 DEF SameRequest, Job
  <2>4. Follows(t, j)
    BY <2>1, <2>3 DEF Follows, SameRequest
  <2>5. Results(t, {}, own[t], j)
    BY <2>1, <2>2, <2>3 DEF Results
  <2> HIDE DEF j
  <2> QED BY <1>0, <2>1, <2>4, <2>5, EffectIs
<1>2. CASE LockOwners(t)
  <2> DEFINE rows == {m \in job[t].owners : View(t)[m] # None}
             need == {<<m, "UPDATE">> : m \in rows}
             j == [job[t] EXCEPT !.pc = afterOwnerLock(job[t].op), !.owners = {}]
  <2>1. Statement(t, need, own[t], j) /\ job[t].pc = "lockOwners"
    BY <1>2 DEF LockOwners, At
  <2>2. ASSUME NEW m \in job[t].owners, Seen(t, m) # None
        PROVE  <<m, "UPDATE">> \in need
    BY <1>0, <2>2 DEF Job
  <2>3. j.pc = afterOwnerLock(job[t].op) /\ SameRequest(t, j) /\ j.invitation = job[t].invitation
    BY <1>0 DEF SameRequest, Job
  <2> HIDE DEF j, need
  <2>4. Follows(t, j)
    BY <2>1, <2>3 DEF Follows, SameRequest
  <2>5. Results(t, need, own[t], j)
    BY <2>1, <2>2 DEF Results
  <2> QED BY <1>0, <2>1, <2>4, <2>5, EffectIs
<1> QED BY <1>1, <1>2

\* updateMembershipRole writes the one membership it names.
LEMMA RoleEffect ==
    ASSUME BelongInv, NEW t \in Slot, NEW u \in User, NEW role \in Role, NEW pc,
           job[t].company \in Company,
           updateMembershipRole(t, u, role, pc),
           Seen(t, <<u, job[t].company>>) # None => Rewrites(t, u, job[t].company, role),
           Follows(t, GoTo(t, pc)), job[t].pc \in {"setRole", "promote", "demote"}
    PROVE  Effect(t)
<1> DEFINE m == <<u, job[t].company>>
           w == [own[t] EXCEPT ![m] = role]
<1>0. /\ Writes(t, own[t]) /\ WritesTyped(own[t]) /\ m \in Row /\ m \in Membership
      /\ \A r \in Row : View(t)[r] = Seen(t, r)
  BY Asked, RowTypes DEF Membership
<1>1. \/ Statement(t, {<<m, "NO KEY UPDATE">>}, w, GoTo(t, pc)) /\ Seen(t, m) # None
      \/ Rollback(t)
  BY <1>0 DEF updateMembershipRole
<1>2. \A r \in Row : w[r] = IF r = m THEN role ELSE own[t][r]
  BY <1>0 DEF WritesTyped
<1>3. ASSUME Seen(t, m) # None PROVE Writes(t, w)
  <2>1. \A c \in Company : w[c] = own[t][c]
    BY <1>0, <1>2, RowTypes, RowTables
  <2>2. \A i \in Invitation : w[i] = own[t][i]
    BY <1>0, <1>2, RowTypes, RowTables
  <2>3. \A v \in User, c \in Company : w[<<v, c>>] # own[t][<<v, c>>] => Rewrites(t, v, c, w[<<v, c>>])
    <3> SUFFICES ASSUME NEW v \in User, NEW c \in Company, w[<<v, c>>] # own[t][<<v, c>>]
                 PROVE  Rewrites(t, v, c, w[<<v, c>>])
      OBVIOUS
    <3>1. <<v, c>> \in Row
      BY RowTypes DEF Membership
    <3>2. <<v, c>> = m /\ w[<<v, c>>] = role
      BY <1>2, <3>1
    <3>3. v = u /\ c = job[t].company
      BY <3>2
    <3> QED BY <1>3, <3>2, <3>3
  <2> QED BY <2>1, <2>2, <2>3 DEF Writes
<1>4. Results(t, {<<m, "NO KEY UPDATE">>}, w, GoTo(t, pc))
  BY DEF Results
<1> HIDE DEF w, m
<1> QED BY <1>1, <1>3, <1>4, EffectIs DEF Effect

LEMMA KeeperEffect ==
    ASSUME BelongInv, NEW t \in Slot,
           SetRole(t) \/ Promote(t) \/ Demote(t) \/ DeleteMembership(t) \/ CountOwners(t)
    PROVE  Effect(t)
<1>0. /\ job[t] \in Job /\ JobSound(job[t]) /\ Writes(t, own[t]) /\ WritesTyped(own[t])
      /\ \A r \in Row : View(t)[r] = Seen(t, r)
      /\ \A pc : /\ GoTo(t, pc).pc = pc /\ SameRequest(t, GoTo(t, pc))
                 /\ GoTo(t, pc).invitation = job[t].invitation
      /\ job[t].role \in Role /\ {"OWNER", "ADMIN"} \subseteq Role
  BY Asked DEF Job, Role
<1>1. CASE SetRole(t)
  <2>1. job[t].pc = "setRole" /\ updateMembershipRole(t, job[t].user, job[t].role, "countOwners")
    BY <1>1 DEF SetRole, At
  <2>2. job[t].user \in User /\ job[t].company \in Company
    BY <1>0, <2>1 DEF JobSound, InFlow
  <2>3. Follows(t, GoTo(t, "countOwners"))
    BY <1>0, <2>1 DEF Follows, SameRequest
  <2>4. Seen(t, <<job[t].user, job[t].company>>) # None
        => Rewrites(t, job[t].user, job[t].company, job[t].role)
    BY <2>1 DEF Rewrites
  <2> QED BY <1>0, <2>1, <2>2, <2>3, <2>4, RoleEffect
<1>2. CASE Promote(t)
  <2>1. job[t].pc = "promote" /\ updateMembershipRole(t, job[t].user, "OWNER", "demote")
    BY <1>2 DEF Promote, At
  <2>2. job[t].user \in User /\ job[t].company \in Company
    BY <1>0, <2>1 DEF JobSound, InFlow
  <2>3. Follows(t, GoTo(t, "demote"))
    BY <1>0, <2>1 DEF Follows, SameRequest
  <2>4. Seen(t, <<job[t].user, job[t].company>>) # None
        => Rewrites(t, job[t].user, job[t].company, "OWNER")
    BY <2>1 DEF Rewrites
  <2> QED BY <1>0, <2>1, <2>2, <2>3, <2>4, RoleEffect
<1>3. CASE Demote(t)
  <2>1. job[t].pc = "demote" /\ updateMembershipRole(t, job[t].actor, "ADMIN", "countOwners")
    BY <1>3 DEF Demote, At
  <2>2. job[t].actor \in User /\ job[t].company \in Company
    BY <1>0, <2>1 DEF JobSound, InFlow
  <2>3. Follows(t, GoTo(t, "countOwners"))
    BY <1>0, <2>1 DEF Follows, SameRequest
  <2>4. Seen(t, <<job[t].actor, job[t].company>>) # None
        => Rewrites(t, job[t].actor, job[t].company, "ADMIN")
    BY <2>1 DEF Rewrites
  <2> QED BY <1>0, <2>1, <2>2, <2>3, <2>4, RoleEffect
<1>4. CASE DeleteMembership(t)
  <2> DEFINE m == <<job[t].user, job[t].company>>
             w == [own[t] EXCEPT ![m] = None]
  <2>1. job[t].pc = "deleteMembership"
    BY <1>4 DEF DeleteMembership, At
  <2>2. job[t].user \in User /\ job[t].company \in Company
    BY <1>0, <2>1 DEF JobSound, InFlow
  <2>3. m \in Row /\ m \in Membership
    BY <2>2, RowTypes DEF Membership
  <2>4. \/ Statement(t, {<<m, "UPDATE">>}, w, GoTo(t, "countOwners")) /\ Seen(t, m) # None
        \/ Rollback(t)
    BY <1>0, <1>4, <2>3 DEF DeleteMembership
  <2>5. Follows(t, GoTo(t, "countOwners"))
    BY <1>0, <2>1 DEF Follows, SameRequest
  <2>6. \A r \in Row : w[r] = IF r = m THEN None ELSE own[t][r]
    BY <1>0, <2>3 DEF WritesTyped
  <2>7. ASSUME Seen(t, m) # None PROVE Writes(t, w)
    <3>1. /\ \A c \in Company : w[c] = own[t][c]
          /\ \A i \in Invitation : w[i] = own[t][i]
      BY <2>3, <2>6, RowTypes, RowTables
    <3>2. ASSUME NEW v \in User, NEW c \in Company, w[<<v, c>>] # own[t][<<v, c>>]
          PROVE  Rewrites(t, v, c, w[<<v, c>>])
      <4>1. <<v, c>> \in Row
        BY RowTypes DEF Membership
      <4>2. <<v, c>> = m /\ w[<<v, c>>] = None
        BY <2>6, <3>2, <4>1
      <4>3. v = job[t].user /\ c = job[t].company
        BY <4>2
      <4> QED BY <2>1, <2>7, <4>2, <4>3 DEF Rewrites
    <3> QED BY <3>1, <3>2 DEF Writes
  <2>8. Results(t, {<<m, "UPDATE">>}, w, GoTo(t, "countOwners"))
    BY <2>1, <2>3, <2>6 DEF Results
  <2> HIDE DEF w, m
  <2> QED BY <2>4, <2>5, <2>7, <2>8, EffectIs DEF Effect
<1>5. CASE CountOwners(t)
  <2> DEFINE j == IF job[t].op = "removeMember"
                  THEN [job[t] EXCEPT !.pc = "reassign", !.leavers = {job[t].user}]
                  ELSE GoTo(t, "commit")
  <2>1. /\ job[t].pc = "countOwners"
        /\ \/ /\ Statement(t, {}, own[t], j)
              /\ ownerMembershipsOf(View(t), job[t].company) # {}
           \/ Rollback(t)
    BY <1>5 DEF CountOwners, At
  <2>2. Follows(t, j)
    <3>1. CASE job[t].op = "removeMember"
      <4>1. j = [job[t] EXCEPT !.pc = "reassign", !.leavers = {job[t].user}]
        BY <3>1
      <4> HIDE DEF j
      <4>2. /\ SameRequest(t, [j EXCEPT !.leavers = job[t].leavers])
            /\ j.pc = "reassign" /\ j.leavers = {job[t].user} /\ j.invitation = job[t].invitation
            /\ j.op = job[t].op /\ j.actor = job[t].actor /\ j.company = job[t].company
            /\ j.role = job[t].role /\ j.user = job[t].user
        BY <1>0, <4>1 DEF SameRequest, Job
      <4> QED BY <2>1, <4>2 DEF Follows
    <3>2. CASE job[t].op # "removeMember"
      <4>1. j = GoTo(t, "commit")
        BY <3>2
      <4> HIDE DEF j
      <4> QED BY <1>0, <2>1, <4>1 DEF Follows, SameRequest
    <3> QED BY <3>1, <3>2
  <2>3. ASSUME ownerMembershipsOf(View(t), job[t].company) # {}
        PROVE  Results(t, {}, own[t], j)
    <3>1. PICK m \in Membership : m[2] = job[t].company /\ View(t)[m] = "OWNER"
      BY <2>3 DEF ownerMembershipsOf
    <3>2. PICK u \in User, c \in Company : m = <<u, c>>
      BY DEF Membership
    <3>3. Seen(t, <<u, job[t].company>>) = "OWNER"
      BY <1>0, <3>1, <3>2, RowTypes
    <3> QED BY <2>1, <3>3 DEF Results
  <2> HIDE DEF j
  <2> QED BY <1>0, <2>1, <2>2, <2>3, EffectIs DEF Effect
<1> QED BY <1>1, <1>2, <1>3, <1>4, <1>5

LEMMA LeaveEffect ==
    ASSUME BelongInv, NEW t \in Slot, ReassignLastUsedCompany(t) \/ CountOrphan(t)
    PROVE  Effect(t)
<1>0. /\ job[t] \in Job /\ JobSound(job[t]) /\ Writes(t, own[t])
      /\ \A pc : /\ GoTo(t, pc).pc = pc /\ SameRequest(t, GoTo(t, pc))
                 /\ GoTo(t, pc).invitation = job[t].invitation
  BY Asked
<1>1. CASE ReassignLastUsedCompany(t)
  <2> DEFINE moved == {u \in {x \in job[t].leavers : Live(View(t), x)} :
                          View(t)[u] = job[t].company}
             pc == IF job[t].leavers = {} THEN afterOrphans(t) ELSE "orphan"
  <2>1. job[t].pc = "reassign"
    BY <1>1 DEF ReassignLastUsedCompany, At
  <2>2. PICK need, next : Statement(t, need, [r \in Row |-> IF r \in moved THEN next[r] ELSE own[t][r]], GoTo(t, pc))
    BY <1>1 DEF ReassignLastUsedCompany
  <2> DEFINE w == [r \in Row |-> IF r \in moved THEN next[r] ELSE own[t][r]]
  <2>3. moved \subseteq User
    BY <1>0 DEF Job
  <2> HIDE DEF moved
  <2>4. \A r \in Row : r \notin User => w[r] = own[t][r]
    BY <2>3
  <2>5. /\ \A c \in Company : w[c] = own[t][c]
        /\ \A i \in Invitation : w[i] = own[t][i]
        /\ \A u \in User, c \in Company : w[<<u, c>>] = own[t][<<u, c>>]
    BY <2>4, RowTypes, RowTables DEF Membership
  <2>6. Writes(t, w)
    BY <2>5 DEF Writes
  <2>7. Follows(t, GoTo(t, pc))
    BY <1>0, <2>1 DEF Follows, SameRequest, JobSound, InFlow
  <2>8. Results(t, need, w, GoTo(t, pc))
    BY <2>1 DEF Results
  <2> HIDE DEF w, pc
  <2> QED BY <2>2, <2>6, <2>7, <2>8, EffectIs DEF w
<1>2. CASE CountOrphan(t)
  <2>1. job[t].pc = "orphan"
    BY <1>2 DEF CountOrphan, At
  <2>0. PICK u \in job[t].leavers : \E need :
           Statement(t, need, own[t],
                     IF activeCompaniesOf(View(t), u) = {}
                     THEN [job[t] EXCEPT !.pc = "deleteUser", !.user = u]
                     ELSE withoutLeaver(t, u))
    BY <1>2 DEF CountOrphan
  <2>2. PICK need :
           Statement(t, need, own[t],
                     IF activeCompaniesOf(View(t), u) = {}
                     THEN [job[t] EXCEPT !.pc = "deleteUser", !.user = u]
                     ELSE withoutLeaver(t, u))
    BY <2>0
  <2> DEFINE j == IF activeCompaniesOf(View(t), u) = {}
                  THEN [job[t] EXCEPT !.pc = "deleteUser", !.user = u]
                  ELSE withoutLeaver(t, u)
  <2>3. /\ j.op = job[t].op /\ j.actor = job[t].actor /\ j.company = job[t].company
        /\ j.role = job[t].role /\ j.invitation = job[t].invitation
        /\ j.user = job[t].user \/ j.user \in job[t].leavers
        /\ j.leavers \subseteq job[t].leavers
        /\ j.pc \in {"deleteUser", "orphan", afterOrphans(t)}
    <3>1. CASE activeCompaniesOf(View(t), u) = {}
      <4>1. j = [job[t] EXCEPT !.pc = "deleteUser", !.user = u]
        BY <3>1
      <4> HIDE DEF j
      <4> QED BY <1>0, <4>1 DEF Job
    <3>2. CASE activeCompaniesOf(View(t), u) # {}
      <4>1. j = [job[t] EXCEPT !.pc = IF job[t].leavers \ {u} = {} THEN afterOrphans(t) ELSE "orphan",
                               !.leavers = job[t].leavers \ {u}]
        BY <3>2 DEF withoutLeaver
      <4> HIDE DEF j
      <4> QED BY <1>0, <4>1 DEF Job
    <3> QED BY <3>1, <3>2
  <2> HIDE DEF j
  <2>4. Follows(t, j)
    BY <1>0, <2>1, <2>3 DEF Follows, JobSound, InFlow
  <2>5. Results(t, need, own[t], j)
    BY <2>1 DEF Results
  <2> QED BY <1>0, <2>2, <2>4, <2>5, EffectIs DEF j
<1> QED BY <1>1, <1>2

LEMMA DeleteUserEffect ==
    ASSUME BelongInv, NEW t \in Slot, DeleteUser(t)
    PROVE  Effect(t)
<1> DEFINE u == job[t].user
           cascade == {m \in Membership : m[1] = u /\ View(t)[m] # None}
                      \cup {i \in Invitation : IsRow(View(t), i) /\ View(t)[i].invitedBy = u}
           done == IF job[t].op = "deleteAccount" THEN GoTo(t, "commit") ELSE withoutLeaver(t, u)
           need == {<<r, "UPDATE">> : r \in {u} \cup cascade}
           w == [r \in Row |-> IF r \in {u} \cup (cascade \cap Invitation) THEN Gone
                               ELSE IF r \in cascade THEN None ELSE own[t][r]]
<1>0. /\ job[t] \in Job /\ JobSound(job[t]) /\ Writes(t, own[t]) /\ job[t].pc = "deleteUser"
      /\ \A pc : /\ GoTo(t, pc).pc = pc /\ SameRequest(t, GoTo(t, pc))
                 /\ GoTo(t, pc).invitation = job[t].invitation
  BY Asked DEF DeleteUser, At
<1>1. \/ Statement(t, need, w, done)
      \/ Rollback(t)
      \/ Statement(t, {}, own[t], done)
  BY DEF DeleteUser
<1>2. u \in User
  BY <1>0 DEF JobSound
<1>3. /\ done.op = job[t].op /\ done.actor = job[t].actor /\ done.company = job[t].company
      /\ done.role = job[t].role /\ done.invitation = job[t].invitation
      /\ done.user = job[t].user /\ done.leavers \subseteq job[t].leavers
      /\ IF job[t].op = "deleteAccount" THEN done.pc = "commit"
         ELSE done.pc \in {"orphan", afterOrphans(t)}
  <2>1. CASE job[t].op = "deleteAccount"
    BY <1>0, <2>1 DEF SameRequest
  <2>2. CASE job[t].op # "deleteAccount"
    <3>1. done = [job[t] EXCEPT !.pc = IF job[t].leavers \ {u} = {} THEN afterOrphans(t) ELSE "orphan",
                                !.leavers = job[t].leavers \ {u}]
      BY <2>2 DEF withoutLeaver
    <3> HIDE DEF done
    <3> QED BY <1>0, <2>2, <3>1 DEF Job
  <2> QED BY <2>1, <2>2
<1> HIDE DEF done
<1>4. Follows(t, done)
  BY <1>0, <1>3 DEF Follows
<1>5. \A n, x : Results(t, n, x, done)
  BY <1>0 DEF Results
<1>6. Writes(t, w)
  <2>1. \A c \in Company : w[c] = own[t][c]
    BY <1>2, RowTypes, RowTables
  <2>2. \A i \in Invitation : w[i] \in {own[t][i], Gone}
    BY <1>2, RowTypes, RowTables
  <2>3. ASSUME NEW v \in User, NEW c \in Company, w[<<v, c>>] # own[t][<<v, c>>]
        PROVE  Rewrites(t, v, c, w[<<v, c>>])
    <3>1. <<v, c>> \in Row /\ <<v, c>> \in Membership /\ <<v, c>> \notin Invitation /\ <<v, c>> # u
      BY <1>2, RowTypes, RowTables DEF Membership
    <3>2. <<v, c>> \in cascade /\ w[<<v, c>>] = None
      BY <2>3, <3>1
    <3>3. v = u
      BY <3>1, <3>2
    <3> QED BY <1>0, <3>2, <3>3 DEF Rewrites
  <2> QED BY <2>1, <2>2, <2>3 DEF Writes
<1> HIDE DEF w, need
<1> QED BY <1>0, <1>1, <1>4, <1>5, <1>6, EffectIs DEF Effect

LEMMA DeletionEffect ==
    ASSUME BelongInv, NEW t \in Slot,
           \/ CheckBlocking(t) \/ Recheck(t) \/ SoftDeleteCompany(t)
           \/ FindCompany(t) \/ UpdateCompany(t)
    PROVE  Effect(t)
<1>0. /\ job[t] \in Job /\ JobSound(job[t]) /\ Writes(t, own[t]) /\ WritesTyped(own[t])
      /\ \A r \in Row : View(t)[r] = Seen(t, r)
      /\ \A pc : /\ GoTo(t, pc).pc = pc /\ SameRequest(t, GoTo(t, pc))
                 /\ GoTo(t, pc).invitation = job[t].invitation
  BY Asked
<1>1. CASE CheckBlocking(t)
  <2>1. /\ job[t].pc = "blocking"
        /\ \/ /\ Statement(t, {}, own[t], GoTo(t, "deleteUser"))
              /\ companiesBlockingUserDeletion(View(t), job[t].user) = {}
           \/ Rollback(t)
    BY <1>1 DEF CheckBlocking, At
  <2>2. Follows(t, GoTo(t, "deleteUser"))
    BY <1>0, <2>1 DEF Follows, SameRequest
  <2>3. ASSUME companiesBlockingUserDeletion(View(t), job[t].user) = {}
        PROVE  Results(t, {}, own[t], GoTo(t, "deleteUser"))
    <3>1. ASSUME NEW c \in Company, Seen(t, <<job[t].user, c>>) = "OWNER", Seen(t, c) = "ACTIVE"
          PROVE  \E u \in User : u # job[t].user /\ Seen(t, <<u, c>>) = "OWNER"
      <4> DEFINE u0 == job[t].user
      <4>1. u0 \in User /\ <<u0, c>> \in Membership
        BY <1>0, <2>1 DEF JobSound, InFlow, Membership
      <4>2. View(t)[<<u0, c>>] = "OWNER" /\ View(t)[c] = "ACTIVE"
        BY <1>0, <3>1, <4>1, RowTypes
      <4>3. c \in activeCompaniesOf(View(t), u0)
        BY <4>2, MarkersDistinct DEF activeCompaniesOf, IsMember, Role
      <4>4. ownerMembershipsOf(View(t), c) # {<<u0, c>>}
        BY <2>3, <4>3 DEF companiesBlockingUserDeletion
      <4>5. <<u0, c>> \in ownerMembershipsOf(View(t), c)
        BY <4>1, <4>2 DEF ownerMembershipsOf
      <4>6. PICK m \in Membership : m[2] = c /\ View(t)[m] = "OWNER" /\ m # <<u0, c>>
        BY <4>4, <4>5 DEF ownerMembershipsOf
      <4>7. PICK u \in User, d \in Company : m = <<u, d>>
        BY DEF Membership
      <4>8. Seen(t, <<u, c>>) = "OWNER" /\ u # u0
        BY <1>0, <4>6, <4>7, RowTypes
      <4> QED BY <4>8
    <3> QED BY <2>1, <3>1 DEF Results
  <2> QED BY <1>0, <2>1, <2>2, <2>3, EffectIs DEF Effect
<1>2. CASE Recheck(t)
  <2>1. /\ job[t].pc = "recheck"
        /\ \/ Statement(t, {}, own[t], GoTo(t, "revokePending"))
           \/ Statement(t, {}, own[t], GoTo(t, "commit")) /\ View(t)[job[t].company] = "DELETED"
           \/ Rollback(t)
    BY <1>2 DEF Recheck, At
  <2>2. Follows(t, GoTo(t, "revokePending")) /\ Follows(t, GoTo(t, "commit"))
    BY <1>0, <2>1 DEF Follows, SameRequest
  <2>3. Results(t, {}, own[t], GoTo(t, "revokePending"))
    BY <1>0, <2>1 DEF Results
  <2>4. View(t)[job[t].company] = "DELETED" => Results(t, {}, own[t], GoTo(t, "commit"))
    <3>1. job[t].company \in Row
      BY <1>0, <2>1, RowTypes DEF JobSound, InFlow
    <3> QED BY <1>0, <2>1, <3>1 DEF Results
  <2> QED BY <1>0, <2>1, <2>2, <2>3, <2>4, EffectIs DEF Effect
<1>3. CASE SoftDeleteCompany(t)
  <2> DEFINE c == job[t].company
             need == IF View(t)[c] = "ACTIVE" THEN {<<c, "NO KEY UPDATE">>} ELSE {}
             w == IF View(t)[c] = "ACTIVE" THEN [own[t] EXCEPT ![c] = "DELETED"] ELSE own[t]
  <2>1. job[t].pc = "softDelete" /\ Statement(t, need, w, GoTo(t, "commit"))
    BY <1>3 DEF SoftDeleteCompany, At
  <2>2. c \in Company /\ c \in Row
    BY <1>0, <2>1, RowTypes DEF JobSound, InFlow
  <2>3. \A r \in Row : w[r] = IF r = c /\ Seen(t, c) = "ACTIVE" THEN "DELETED" ELSE own[t][r]
    BY <1>0, <2>2 DEF WritesTyped
  <2>4. Follows(t, GoTo(t, "commit"))
    BY <1>0, <2>1 DEF Follows, SameRequest
  <2>5. Results(t, need, w, GoTo(t, "commit"))
    BY <2>1, <2>2, <2>3 DEF Results
  <2>6. Writes(t, w)
    <3> HIDE DEF w
    <3>1. \A d \in Company : (w[d] = own[t][d]) \/ ((w[d] = "DELETED") /\ (d = c))
      BY <2>3, RowTypes
    <3>2. /\ \A i \in Invitation : w[i] = own[t][i]
          /\ \A u \in User, d \in Company : w[<<u, d>>] = own[t][<<u, d>>]
      BY <2>2, <2>3, RowTypes, RowTables DEF Membership
    <3> QED BY <2>1, <3>1, <3>2 DEF Writes
  <2> HIDE DEF w, need
  <2> QED BY <2>1, <2>4, <2>5, <2>6, EffectIs
<1>4. CASE UpdateCompany(t)
  <2> DEFINE c == job[t].company
             w == [own[t] EXCEPT ![c] = "ACTIVE"]
             need == {<<c, "NO KEY UPDATE">>}
  <2>1. /\ job[t].pc = "updateCompany"
        /\ Statement(t, need, w, GoTo(t, "commit")) \/ Rollback(t)
    BY <1>4 DEF UpdateCompany, renames, At
  <2>2. c \in Company /\ c \in Row
    BY <1>0, <2>1, RowTypes DEF JobSound, InFlow
  <2>3. \A r \in Row : w[r] = IF r = c THEN "ACTIVE" ELSE own[t][r]
    BY <1>0, <2>2 DEF WritesTyped
  <2>4. Follows(t, GoTo(t, "commit"))
    BY <1>0, <2>1 DEF Follows, SameRequest
  <2>5. Results(t, need, w, GoTo(t, "commit"))
    BY <2>1 DEF Results
  <2>6. Writes(t, w)
    <3>1. \A d \in Company : w[d] = own[t][d] \/ w[d] = "ACTIVE"
      BY <2>3, RowTypes
    <3>2. /\ \A i \in Invitation : w[i] = own[t][i]
          /\ \A u \in User, d \in Company : w[<<u, d>>] = own[t][<<u, d>>]
      BY <2>2, <2>3, RowTypes, RowTables DEF Membership
    <3> HIDE DEF w
    <3> QED BY <2>1, <3>1, <3>2 DEF Writes
  <2> HIDE DEF w, need
  <2> QED BY <2>1, <2>4, <2>5, <2>6, EffectIs DEF Effect
<1>5. CASE FindCompany(t)
  <2>1. /\ job[t].pc = "findCompany"
        /\ Statement(t, {}, own[t], GoTo(t, "updateCompany")) \/ Rollback(t)
    BY <1>5 DEF FindCompany, At
  <2>2. Follows(t, GoTo(t, "updateCompany"))
    BY <1>0, <2>1 DEF Follows, SameRequest
  <2>3. Results(t, {}, own[t], GoTo(t, "updateCompany"))
    BY <1>0, <2>1 DEF Results
  <2> QED BY <1>0, <2>1, <2>2, <2>3, EffectIs DEF Effect
<1> QED BY <1>1, <1>2, <1>3, <1>4, <1>5

LEMMA EmptyingEffect ==
    ASSUME BelongInv, NEW t \in Slot, RevokePendingInvitations(t) \/ RemoveMemberships(t)
    PROVE  Effect(t)
<1>0. /\ job[t] \in Job /\ JobSound(job[t]) /\ Writes(t, own[t])
      /\ \A r \in Row : View(t)[r] = Seen(t, r)
      /\ \A pc : /\ GoTo(t, pc).pc = pc /\ SameRequest(t, GoTo(t, pc))
                 /\ GoTo(t, pc).invitation = job[t].invitation
  BY Asked
<1>1. CASE RevokePendingInvitations(t)
  <2> DEFINE pending == {i \in Invitation : IsPending(View(t), i)
                                            /\ View(t)[i].company = job[t].company}
             need == {<<i, "NO KEY UPDATE">> : i \in pending}
             w == [r \in Row |-> IF r \in pending THEN [View(t)[r] EXCEPT !.status = "REVOKED"]
                                 ELSE own[t][r]]
             j == GoTo(t, "removeMemberships")
  <2>1. job[t].pc = "revokePending" /\ Statement(t, need, w, j)
    BY <1>1 DEF RevokePendingInvitations, At
  <2>2. \A i \in Invitation :
           /\ i \in pending => /\ Seen(t, i) \in InvitationRecord
                               /\ w[i] = [Seen(t, i) EXCEPT !.status = "REVOKED"]
           /\ i \notin pending => w[i] = own[t][i]
    <3> SUFFICES ASSUME NEW i \in Invitation
                 PROVE  /\ i \in pending => /\ Seen(t, i) \in InvitationRecord
                                            /\ w[i] = [Seen(t, i) EXCEPT !.status = "REVOKED"]
                        /\ i \notin pending => w[i] = own[t][i]
      OBVIOUS
    <3>1. i \in Row /\ View(t)[i] = Seen(t, i)
      BY <1>0, RowTypes
    <3>2. i \in pending => IsRow(View(t), i)
      BY DEF IsPending
    <3>3. IsRow(View(t), i) => View(t)[i] \in InvitationRecord
      BY InvitationSeen
    <3> QED BY <3>1, <3>2, <3>3
  <2>3. \A r \in Row : r \notin Invitation => w[r] = own[t][r]
    OBVIOUS
  <2>4. /\ \A c \in Company : w[c] = own[t][c]
        /\ \A u \in User, c \in Company : w[<<u, c>>] = own[t][<<u, c>>]
    BY <2>3, RowTypes, RowTables DEF Membership
  <2>5. Writes(t, w)
    BY <2>1, <2>2, <2>4 DEF Writes
  <2>6. Follows(t, j)
    BY <1>0, <2>1 DEF Follows, SameRequest
  <2>7. Results(t, need, w, j)
    <3> SUFFICES ASSUME NEW i \in Invitation, Alive(Seen(t, i)), Seen(t, i).status = "PENDING",
                        Seen(t, i).company = job[t].company
                 PROVE  Alive(w[i]) /\ w[i] # Unwritten /\ w[i].status = "REVOKED"
      BY <2>1 DEF Results
    <3>1. i \in pending
      BY <1>0, RowTypes DEF IsPending, IsRow, Alive
    <3>2. Seen(t, i) \in InvitationRecord /\ w[i] = [Seen(t, i) EXCEPT !.status = "REVOKED"]
      BY <2>2, <3>1
    <3> HIDE DEF w
    <3>3. w[i] \in InvitationRecord /\ w[i].status = "REVOKED"
      BY <3>2 DEF InvitationRecord
    <3> QED BY <3>3, MarkersDistinct DEF Alive
  <2> HIDE DEF w, need, j
  <2> QED BY <2>1, <2>5, <2>6, <2>7, EffectIs
<1>2. CASE RemoveMemberships(t)
  <2> DEFINE rows == {m \in Membership : m[2] = job[t].company /\ View(t)[m] # None}
             need == {<<m, "UPDATE">> : m \in rows}
             w == [r \in Row |-> IF r \in rows THEN None ELSE own[t][r]]
             j == [job[t] EXCEPT !.pc = "reassign", !.leavers = {m[1] : m \in rows}]
  <2>1. job[t].pc = "removeMemberships" /\ Statement(t, need, w, j)
    BY <1>2 DEF RemoveMemberships, At
  <2>2. \A r \in Row : r \notin Membership => w[r] = own[t][r]
    OBVIOUS
  <2>3. /\ \A c \in Company : w[c] = own[t][c]
        /\ \A i \in Invitation : w[i] = own[t][i]
    BY <2>2, RowTypes, RowTables
  <2>4. ASSUME NEW u \in User, NEW c \in Company, w[<<u, c>>] # own[t][<<u, c>>]
        PROVE  Rewrites(t, u, c, w[<<u, c>>])
    <3>1. <<u, c>> \in Row
      BY RowTypes DEF Membership
    <3>2. <<u, c>> \in rows /\ w[<<u, c>>] = None
      BY <2>4, <3>1
    <3>3. c = job[t].company
      BY <3>2
    <3> HIDE DEF w, rows
    <3> QED BY <2>1, <3>2, <3>3 DEF Rewrites
  <2>5. Writes(t, w)
    <3> HIDE DEF w
    <3> QED BY <2>3, <2>4 DEF Writes
  <2>6. Follows(t, j)
    <3>1. /\ j.op = job[t].op /\ j.actor = job[t].actor /\ j.company = job[t].company
          /\ j.role = job[t].role /\ j.invitation = job[t].invitation
          /\ j.user = job[t].user /\ j.pc = "reassign"
      BY <1>0 DEF Job
    <3> HIDE DEF j
    <3> QED BY <2>1, <3>1 DEF Follows
  <2>7. Results(t, need, w, j)
    <3>1. job[t].company \in Company
      BY <1>0, <2>1 DEF JobSound, InFlow
    <3>2. ASSUME NEW u \in User, Seen(t, <<u, job[t].company>>) # None
          PROVE  w[<<u, job[t].company>>] = None
      <4>1. <<u, job[t].company>> \in Membership /\ <<u, job[t].company>> \in Row
        BY <3>1, RowTypes DEF Membership
      <4> QED BY <1>0, <3>2, <4>1
    <3> HIDE DEF w, j, need
    <3> QED BY <2>1, <3>2 DEF Results
  <2> HIDE DEF w, need, j
  <2> QED BY <2>1, <2>5, <2>6, <2>7, EffectIs
<1> QED BY <1>1, <1>2

\* A statement that writes the row r only, in place of r's own value.
LEMMA OneWrite ==
    ASSUME BelongInv, NEW t \in Slot, NEW r \in Row, NEW v
    PROVE  /\ r \in Company /\ v = "ACTIVE" /\ job[t].pc \in {"updateCompany", "insertCompany"}
              => Writes(t, [own[t] EXCEPT ![r] = v])
           /\ r \in User => Writes(t, [own[t] EXCEPT ![r] = v])
           /\ (/\ r \in Invitation /\ job[t].pc = "insertInvitation" /\ r = job[t].invitation
               /\ v \in InvitationRecord /\ v.company = job[t].company)
              => Writes(t, [own[t] EXCEPT ![r] = v])
           /\ (/\ r \in Invitation /\ job[t].pc \in {"markAccepted", "markRevoked"}
               /\ Seen(t, r) \in InvitationRecord
               /\ \E s \in {"ACCEPTED", "REVOKED"} : v = [Seen(t, r) EXCEPT !.status = s])
              => Writes(t, [own[t] EXCEPT ![r] = v])
           /\ \A u \in User, c \in Company :
                r = <<u, c>> /\ Rewrites(t, u, c, v) => Writes(t, [own[t] EXCEPT ![r] = v])
<1> DEFINE w == [own[t] EXCEPT ![r] = v]
<1>1. \A x \in Row : w[x] = IF x = r THEN v ELSE own[t][x]
  BY Asked DEF WritesTyped
<1> HIDE DEF w
<1>2. /\ \A c \in Company : w[c] = IF c = r THEN v ELSE own[t][c]
      /\ \A i \in Invitation : w[i] = IF i = r THEN v ELSE own[t][i]
      /\ \A u \in User, c \in Company : w[<<u, c>>] = IF <<u, c>> = r THEN v ELSE own[t][<<u, c>>]
  BY <1>1, RowTypes DEF Membership
<1>3. CASE r \in Company
  <2>1. r \notin Invitation /\ \A u \in User, c \in Company : <<u, c>> # r
    BY <1>3, RowTables DEF Membership
  <2>2. v = "ACTIVE" /\ job[t].pc \in {"updateCompany", "insertCompany"} => Writes(t, w)
    BY <1>2, <2>1 DEF Writes
  <2> QED BY <1>3, <2>1, <2>2, RowTables DEF w
<1>4. CASE r \in User
  <2>1. r \notin Invitation /\ r \notin Company /\ \A u \in User, c \in Company : <<u, c>> # r
    BY <1>4, RowTables DEF Membership
  <2>2. Writes(t, w)
    BY <1>2, <2>1 DEF Writes
  <2> QED BY <1>4, <2>1, <2>2, RowTables DEF w
<1>5. CASE r \in Invitation
  <2>1. r \notin Company /\ r \notin User /\ \A u \in User, c \in Company : <<u, c>> # r
    BY <1>5, RowTables DEF Membership
  <2>2. ASSUME job[t].pc = "insertInvitation", r = job[t].invitation,
               v \in InvitationRecord, v.company = job[t].company
        PROVE  Writes(t, w)
    BY <1>2, <2>1, <2>2 DEF Writes
  <2>3. ASSUME job[t].pc \in {"markAccepted", "markRevoked"},
               Seen(t, r) \in InvitationRecord,
               NEW s \in {"ACCEPTED", "REVOKED"}, v = [Seen(t, r) EXCEPT !.status = s]
        PROVE  Writes(t, w)
    BY <1>2, <2>1, <2>3 DEF Writes
  <2> QED BY <1>5, <2>1, <2>2, <2>3 DEF w
<1>6. CASE r \in Membership
  <2>1. r \notin Company /\ r \notin User /\ r \notin Invitation
    BY <1>6, RowTables
  <2>2. ASSUME NEW u \in User, NEW c \in Company, r = <<u, c>>, Rewrites(t, u, c, v)
        PROVE  Writes(t, w)
    <3>1. \A x \in User, d \in Company : w[<<x, d>>] # own[t][<<x, d>>]
             => x = u /\ d = c /\ w[<<x, d>>] = v
      BY <1>2, <2>2
    <3>2. \A x \in User, d \in Company : w[<<x, d>>] # own[t][<<x, d>>]
             => Rewrites(t, x, d, w[<<x, d>>])
      BY <2>2, <3>1
    <3> QED BY <1>2, <2>1, <3>2 DEF Writes
  <2> QED BY <1>6, <2>1, <2>2 DEF w
<1> QED BY <1>3, <1>4, <1>5, <1>6 DEF Row

LEMMA JoiningEffect ==
    ASSUME BelongInv, NEW t \in Slot,
           \/ LockMembershipChanges(t) \/ CountActive(t) \/ LockMembershipForShare(t)
           \/ VerifyInviter(t)
    PROVE  Effect(t)
<1>0. /\ job[t] \in Job /\ JobSound(job[t]) /\ Writes(t, own[t])
      /\ \A pc : /\ GoTo(t, pc).pc = pc /\ SameRequest(t, GoTo(t, pc))
                 /\ GoTo(t, pc).invitation = job[t].invitation
  BY Asked
<1>1. CASE LockMembershipChanges(t)
  <2> DEFINE pc == CASE job[t].op = "createSignupCompany" -> "countActive"
                     [] job[t].op = "deleteAccount"       -> "blocking"
                     [] OTHER                             -> "insertMembership"
  <2>1. /\ job[t].pc = "advisory"
        /\ Statement(t, {<<job[t].user, "ADVISORY">>}, own[t], GoTo(t, pc))
    BY <1>1 DEF LockMembershipChanges, At
  <2>2. pc \in {"countActive", "blocking", "insertMembership"}
    OBVIOUS
  <2> HIDE DEF pc
  <2>3. Follows(t, GoTo(t, pc))
    BY <1>0, <2>1, <2>2 DEF Follows, SameRequest
  <2>4. Results(t, {<<job[t].user, "ADVISORY">>}, own[t], GoTo(t, pc))
    BY <2>1 DEF Results
  <2> QED BY <1>0, <2>1, <2>3, <2>4, EffectIs
<1>2. CASE CountActive(t)
  <2>1. /\ job[t].pc = "countActive"
        /\ Statement(t, {}, own[t], GoTo(t, "insertCompany")) \/ Rollback(t)
    BY <1>2 DEF CountActive, At
  <2>2. Follows(t, GoTo(t, "insertCompany"))
    BY <1>0, <2>1 DEF Follows, SameRequest
  <2>3. Results(t, {}, own[t], GoTo(t, "insertCompany"))
    BY <2>1 DEF Results
  <2> QED BY <1>0, <2>1, <2>2, <2>3, EffectIs DEF Effect
<1>3. CASE LockMembershipForShare(t)
  <2> DEFINE need == {<<<<job[t].user, job[t].company>>, "SHARE">>}
  <2>1. /\ job[t].pc = "lockMembership"
        /\ Statement(t, need, own[t], GoTo(t, "setCurrent")) \/ Rollback(t)
    BY <1>3 DEF LockMembershipForShare, At
  <2>2. Follows(t, GoTo(t, "setCurrent"))
    BY <1>0, <2>1 DEF Follows, SameRequest, JobSound, InFlow
  <2>3. Results(t, need, own[t], GoTo(t, "setCurrent"))
    BY <2>1 DEF Results
  <2> HIDE DEF need
  <2> QED BY <1>0, <2>1, <2>2, <2>3, EffectIs DEF Effect
<1>4. CASE VerifyInviter(t)
  <2> DEFINE need == {<<<<job[t].actor, job[t].company>>, "SHARE">>}
  <2>1. /\ job[t].pc = "verifyInviter"
        /\ Statement(t, need, own[t], GoTo(t, "advisory")) \/ Rollback(t)
    BY <1>4 DEF VerifyInviter, At
  <2>2. Follows(t, GoTo(t, "advisory"))
    BY <1>0, <2>1 DEF Follows, SameRequest
  <2>3. Results(t, need, own[t], GoTo(t, "advisory"))
    BY <2>1 DEF Results
  <2> HIDE DEF need
  <2> QED BY <1>0, <2>1, <2>2, <2>3, EffectIs DEF Effect
<1> QED BY <1>1, <1>2, <1>3, <1>4

LEMMA InsertEffect ==
    ASSUME BelongInv, NEW t \in Slot,
           InsertCompany(t) \/ InsertMembership(t) \/ SetCurrent(t)
    PROVE  Effect(t)
<1>0. /\ job[t] \in Job /\ JobSound(job[t]) /\ Writes(t, own[t]) /\ WritesTyped(own[t])
      /\ \A r \in Row : View(t)[r] = Seen(t, r)
      /\ \A pc : /\ GoTo(t, pc).pc = pc /\ SameRequest(t, GoTo(t, pc))
                 /\ GoTo(t, pc).invitation = job[t].invitation
  BY Asked
<1>1. CASE InsertCompany(t)
  <2> DEFINE pc == IF job[t].op = "addCompany" THEN "advisory" ELSE "insertMembership"
             need == {<<job[t].company, "UPDATE">>}
             w == [own[t] EXCEPT ![job[t].company] = "ACTIVE"]
  <2>1. job[t].pc = "insertCompany" /\ Statement(t, need, w, GoTo(t, pc))
    BY <1>1 DEF InsertCompany, At
  <2>2. job[t].company \in Company /\ job[t].company \in Row
    BY <1>0, <2>1, RowTypes DEF JobSound, InFlow
  <2>3. pc \in {"advisory", "insertMembership"}
    OBVIOUS
  <2> HIDE DEF pc
  <2>4. Follows(t, GoTo(t, pc))
    BY <1>0, <2>1, <2>3 DEF Follows, SameRequest
  <2>5. Results(t, need, w, GoTo(t, pc))
    BY <2>1 DEF Results
  <2>6. Writes(t, w)
    BY <2>1, <2>2, OneWrite
  <2> HIDE DEF w, need
  <2> QED BY <2>1, <2>4, <2>5, <2>6, EffectIs
<1>2. CASE InsertMembership(t)
  <2> DEFINE u == job[t].user
             c == job[t].company
             m == <<u, c>>
             need == {<<m, "UPDATE">>, <<u, "KEY SHARE">>, <<c, "KEY SHARE">>}
             w == [own[t] EXCEPT ![m] = job[t].role]
  <2>1. /\ job[t].pc = "insertMembership"
        /\ \/ Statement(t, need, w, GoTo(t, "setCurrent")) /\ View(t)[m] = None
           \/ Rollback(t)
    BY <1>2 DEF InsertMembership, At
  <2>2. u \in User /\ c \in Company /\ m \in Row
    BY <1>0, <2>1, RowTypes DEF JobSound, InFlow, Membership
  <2>3. Follows(t, GoTo(t, "setCurrent"))
    BY <1>0, <2>1 DEF Follows, SameRequest
  <2>4. w[m] = job[t].role
    BY <1>0, <2>2 DEF WritesTyped
  <2>5. Results(t, need, w, GoTo(t, "setCurrent"))
    <3> HIDE DEF w, need
    <3> QED BY <2>1, <2>4 DEF Results
  <2>6. ASSUME View(t)[m] = None PROVE Writes(t, w)
    <3>1. Rewrites(t, u, c, job[t].role)
      BY <1>0, <2>1, <2>2, <2>6 DEF Rewrites
    <3> DEFINE v == job[t].role
    <3> HIDE DEF v, u, c
    <3> QED BY <2>2, <3>1, OneWrite DEF v
  <2> HIDE DEF w, need
  <2> QED BY <2>1, <2>3, <2>5, <2>6, EffectIs DEF Effect
<1>3. CASE SetCurrent(t)
  <2> DEFINE u == job[t].user
             changes == Live(View(t), u) /\ View(t)[u] # job[t].company
             need == {<<u, "NO KEY UPDATE">>}
                     \cup IF changes THEN {<<job[t].company, "KEY SHARE">>} ELSE {}
             w == IF changes THEN [own[t] EXCEPT ![u] = job[t].company] ELSE own[t]
  <2>1. job[t].pc = "setCurrent" /\ Statement(t, need, w, GoTo(t, "commit"))
    BY <1>3 DEF SetCurrent, At
  <2>2. u \in User /\ u \in Row
    BY <1>0, <2>1, RowTypes DEF JobSound, InFlow
  <2>3. Follows(t, GoTo(t, "commit"))
    BY <1>0, <2>1 DEF Follows, SameRequest
  <2>4. Results(t, need, w, GoTo(t, "commit"))
    BY <2>1 DEF Results
  <2>5. Writes(t, w)
    BY <1>0, <2>2, OneWrite
  <2> HIDE DEF w, need
  <2> QED BY <2>1, <2>3, <2>4, <2>5, EffectIs
<1> QED BY <1>1, <1>2, <1>3

LEMMA InvitationEffect ==
    ASSUME BelongInv, NEW t \in Slot,
           InsertInvitation(t) \/ MarkInvitationAccepted(t) \/ MarkInvitationRevoked(t)
    PROVE  Effect(t)
<1> DEFINE i == job[t].invitation
<1>0. /\ job[t] \in Job /\ JobSound(job[t]) /\ Writes(t, own[t])
      /\ \A r \in Row : View(t)[r] = Seen(t, r)
      /\ \A pc : /\ GoTo(t, pc).pc = pc /\ SameRequest(t, GoTo(t, pc))
                 /\ GoTo(t, pc).invitation = job[t].invitation
  BY Asked
<1>1. CASE InsertInvitation(t)
  <2> DEFINE row == [company |-> job[t].company, email |-> job[t].user, role |-> job[t].role,
                     invitedBy |-> job[t].actor, status |-> "PENDING"]
             need == {<<i, "UPDATE">>, <<job[t].actor, "KEY SHARE">>,
                      <<job[t].company, "KEY SHARE">>}
             w == [own[t] EXCEPT ![i] = row]
  <2>1. /\ job[t].pc = "insertInvitation"
        /\ Statement(t, need, w, GoTo(t, "commit")) \/ Rollback(t)
    BY <1>1 DEF InsertInvitation, At
  <2>2. i \in Invitation /\ i \in Row
    BY <1>0, <2>1, RowTypes DEF JobSound, InFlow
  <2>3. Follows(t, GoTo(t, "commit"))
    BY <1>0, <2>1 DEF Follows, SameRequest
  <2>4. Results(t, need, w, GoTo(t, "commit"))
    <3> HIDE DEF w, need
    <3> QED BY <2>1 DEF Results
  <2>5. Writes(t, w)
    <3>1. job[t].user \in User /\ job[t].actor \in User /\ job[t].company \in Company
          /\ job[t].role \in Role
      BY <1>0, <2>1 DEF JobSound, InFlow, Job
    <3>2. row \in InvitationRecord /\ row.company = job[t].company
      BY <3>1 DEF InvitationRecord
    <3> HIDE DEF row
    <3> QED BY <2>1, <2>2, <3>2, OneWrite
  <2> HIDE DEF w, need
  <2> QED BY <2>1, <2>3, <2>4, <2>5, EffectIs DEF Effect
<1>2. ASSUME NEW matches, NEW s \in {"ACCEPTED", "REVOKED"}, NEW pc,
             spendPending(t, matches, s, pc), matches => IsPending(View(t), i),
             job[t].pc \in {"markAccepted", "markRevoked"}, i \in Invitation,
             Follows(t, GoTo(t, pc))
      PROVE  Effect(t)
  <2> DEFINE need == {<<i, "NO KEY UPDATE">>}
             w == [own[t] EXCEPT ![i] = [View(t)[i] EXCEPT !.status = s]]
  <2>1. (matches /\ Statement(t, need, w, GoTo(t, pc))) \/ Rollback(t)
    BY <1>2 DEF spendPending
  <2>2. Results(t, need, w, GoTo(t, pc))
    <3> HIDE DEF w, need
    <3> QED BY <1>2 DEF Results
  <2>3. ASSUME matches PROVE Writes(t, w)
    <3>1. IsRow(View(t), i)
      BY <1>2, <2>3 DEF IsPending
    <3>2. View(t)[i] \in InvitationRecord
      BY <1>2, <3>1, InvitationSeen
    <3>3. View(t)[i] = Seen(t, i) /\ i \in Row
      BY <1>0, <1>2, RowTypes
    <3> DEFINE v == [View(t)[i] EXCEPT !.status = s]
    <3>4. v = [Seen(t, i) EXCEPT !.status = s]
      BY <3>3
    <3> HIDE DEF v, i
    <3>5. Writes(t, [own[t] EXCEPT ![i] = v])
      BY <1>2, <3>2, <3>3, <3>4, OneWrite
    <3> QED BY <3>5 DEF v
  <2> HIDE DEF w, need
  <2> QED BY <1>2, <2>1, <2>2, <2>3, EffectIs DEF Effect
<1>3. CASE MarkInvitationAccepted(t)
  <2> DEFINE pc == IF job[t].role = "OWNER" THEN "verifyInviter" ELSE "advisory"
             matches == IsPending(View(t), i)
  <2>1. job[t].pc = "markAccepted" /\ spendPending(t, matches, "ACCEPTED", pc)
    BY <1>3 DEF MarkInvitationAccepted, At
  <2>2. i \in Invitation
    BY <1>0, <2>1 DEF JobSound, InFlow
  <2>3. Follows(t, GoTo(t, pc))
    BY <1>0, <2>1 DEF Follows, SameRequest
  <2>4. matches => IsPending(View(t), i)
    OBVIOUS
  <2> HIDE DEF pc, matches, i
  <2> QED BY <1>2, <2>1, <2>2, <2>3, <2>4
<1>4. CASE MarkInvitationRevoked(t)
  <2> DEFINE matches == /\ IsPending(View(t), i) /\ View(t)[i].company = job[t].company
  <2>1. job[t].pc = "markRevoked" /\ spendPending(t, matches, "REVOKED", "commit")
    BY <1>4 DEF MarkInvitationRevoked, At
  <2>2. i \in Invitation
    BY <1>0, <2>1 DEF JobSound, InFlow
  <2>3. Follows(t, GoTo(t, "commit"))
    BY <1>0, <2>1 DEF Follows, SameRequest
  <2>4. matches => IsPending(View(t), i)
    OBVIOUS
  <2> HIDE DEF matches, i
  <2> QED BY <1>2, <2>1, <2>2, <2>3, <2>4
<1> QED BY <1>1, <1>3, <1>4

\* Every statement of every use case writes, follows and finds what is said above.
LEMMA TxStepEffect ==
    ASSUME BelongInv, NEW t \in Slot, TxStep(t)
    PROVE  Effect(t)
<1>1. CASE Commit(t)
  BY <1>1 DEF Effect
<1>2. CASE SnapshotOwners(t) \/ LockOwners(t)
  BY <1>2, OwnerLockEffect
<1>3. CASE SetRole(t) \/ Promote(t) \/ Demote(t) \/ DeleteMembership(t) \/ CountOwners(t)
  BY <1>3, KeeperEffect
<1>4. CASE ReassignLastUsedCompany(t) \/ CountOrphan(t)
  BY <1>4, LeaveEffect
<1>5. CASE DeleteUser(t)
  BY <1>5, DeleteUserEffect
<1>6. CASE \/ CheckBlocking(t) \/ Recheck(t) \/ SoftDeleteCompany(t)
           \/ FindCompany(t) \/ UpdateCompany(t)
  BY <1>6, DeletionEffect
<1>7. CASE RevokePendingInvitations(t) \/ RemoveMemberships(t)
  BY <1>7, EmptyingEffect
<1>8. CASE \/ LockMembershipChanges(t) \/ CountActive(t) \/ LockMembershipForShare(t)
           \/ VerifyInviter(t)
  BY <1>8, JoiningEffect
<1>9. CASE InsertCompany(t) \/ InsertMembership(t) \/ SetCurrent(t)
  BY <1>9, InsertEffect
<1>10. CASE InsertInvitation(t) \/ MarkInvitationAccepted(t) \/ MarkInvitationRevoked(t)
  BY <1>10, InvitationEffect
<1> QED BY <1>1, <1>2, <1>3, <1>4, <1>5, <1>6, <1>7, <1>8, <1>9, <1>10 DEF TxStep

-----------------------------------------------------------------------------
(* Companies in use: who is a member, who is invited.                      *)

\* What a guard says of the request it grants.
Begins(j) ==
    /\ j.pc \in {"snapshotOwners", "findCompany", "advisory", "insertCompany",
                 "lockMembership", "insertInvitation", "markRevoked", "markAccepted", "orphan"}
    /\ j.op \in Keepers \cup {"deleteCompany", "deleteAccount"} => j.pc = "snapshotOwners"
    /\ j.op \in {"sweep", "deleteAccount"} => j.company = NoCompany
    /\ j.op \in Keepers \cup {"deleteCompany"} => db[j.company] # None
    /\ j.op = "removeMember" => j.leavers = {}
    /\ j.op = "transferOwnership" => j.actor # j.user
    /\ j.op \in {"createSignupCompany", "addCompany"} => j.role = "OWNER"
    /\ j.op = "createInvitation" =>
         \E u \in User, c \in Company : c = j.company /\ db[<<u, c>>] # None
    /\ j.op = "acceptInvitation" => /\ IsRow(db, j.invitation)
                                    /\ db[j.invitation].company = j.company
                                    /\ db[j.invitation].role = j.role

LEMMA GuardBegins ==
    ASSUME BelongInv, NEW t \in Slot, Guard(t)
    PROVE  \E j : Grant(t, j) /\ Begins(j)
<1>0. Consistent(db)
  BY DEF BelongInv
<1>1. CASE RequireRoleChange(t)
  <2>1. PICK a, u \in User, c \in Company, r \in Role :
           /\ IsMember(db, u, c)
           /\ Grant(t, [NoJob EXCEPT !.op = "changeRole", !.pc = "snapshotOwners",
                     !.user = u, !.company = c, !.role = r])
    BY <1>1 DEF RequireRoleChange
  <2>2. Begins([NoJob EXCEPT !.op = "changeRole", !.pc = "snapshotOwners",
                     !.user = u, !.company = c, !.role = r])
    BY <1>0, <2>1 DEF Begins, Keepers, NoJob, Consistent
  <2> QED BY <2>1, <2>2
<1>2. CASE RequireRemoval(t)
  <2>1. PICK a, u \in User, c \in Company :
           /\ IsMember(db, u, c)
           /\ Grant(t, [NoJob EXCEPT !.op = "removeMember", !.pc = "snapshotOwners",
                     !.user = u, !.company = c])
    BY <1>2 DEF RequireRemoval
  <2>2. Begins([NoJob EXCEPT !.op = "removeMember", !.pc = "snapshotOwners",
                     !.user = u, !.company = c])
    BY <1>0, <2>1 DEF Begins, Keepers, NoJob, Consistent
  <2> QED BY <2>1, <2>2
<1>3. CASE RequireTransferOwnership(t)
  <2>1. PICK a, u \in User, c \in Company :
           /\ a # u /\ IsMember(db, u, c)
           /\ Grant(t, [NoJob EXCEPT !.op = "transferOwnership", !.pc = "snapshotOwners",
                     !.actor = a, !.user = u, !.company = c])
    BY <1>3 DEF RequireTransferOwnership
  <2>2. Begins([NoJob EXCEPT !.op = "transferOwnership", !.pc = "snapshotOwners",
                     !.actor = a, !.user = u, !.company = c])
    BY <1>0, <2>1 DEF Begins, Keepers, NoJob, Consistent
  <2> QED BY <2>1, <2>2
<1>4. CASE RequireCompanyDelete(t)
  <2>1. PICK a \in User, c \in Company :
           /\ IsMember(db, a, c)
           /\ Grant(t, [NoJob EXCEPT !.op = "deleteCompany", !.pc = "snapshotOwners",
                     !.actor = a, !.company = c])
    BY <1>4 DEF RequireCompanyDelete, requireMembershipOf
  <2>2. Begins([NoJob EXCEPT !.op = "deleteCompany", !.pc = "snapshotOwners",
                     !.actor = a, !.company = c])
    BY <1>0, <2>1 DEF Begins, Keepers, NoJob, Consistent
  <2> QED BY <2>1, <2>2
<1>5. CASE RequireCompanyUpdate(t)
  <2>1. PICK a \in User, c \in Company :
           Grant(t, [NoJob EXCEPT !.op = "updateCompanyInfo", !.pc = "findCompany",
                     !.company = c])
    BY <1>5 DEF RequireCompanyUpdate
  <2>2. Begins([NoJob EXCEPT !.op = "updateCompanyInfo", !.pc = "findCompany",
                     !.company = c])
    BY DEF Begins, Keepers, NoJob
  <2> QED BY <2>1, <2>2
<1>6. CASE RequireActorToCreate(t)
  <2>1. PICK a \in User, c \in Company :
           \/ Grant(t, [NoJob EXCEPT !.op = "createSignupCompany", !.pc = "advisory", !.user = a,
                                     !.company = c, !.role = "OWNER"])
           \/ Grant(t, [NoJob EXCEPT !.op = "addCompany", !.pc = "insertCompany", !.user = a,
                                     !.company = c, !.role = "OWNER"])
    BY <1>6 DEF RequireActorToCreate
  <2>2. /\ Begins([NoJob EXCEPT !.op = "createSignupCompany", !.pc = "advisory", !.user = a,
                                !.company = c, !.role = "OWNER"])
        /\ Begins([NoJob EXCEPT !.op = "addCompany", !.pc = "insertCompany", !.user = a,
                                !.company = c, !.role = "OWNER"])
    BY DEF Begins, Keepers, NoJob
  <2> QED BY <2>1, <2>2
<1>7. CASE RequireActorToSwitch(t)
  <2>1. PICK a \in User, c \in Company :
           Grant(t, [NoJob EXCEPT !.op = "switchCurrentCompany", !.pc = "lockMembership",
                     !.user = a, !.company = c])
    BY <1>7 DEF RequireActorToSwitch
  <2>2. Begins([NoJob EXCEPT !.op = "switchCurrentCompany", !.pc = "lockMembership",
                     !.user = a, !.company = c])
    BY DEF Begins, Keepers, NoJob
  <2> QED BY <2>1, <2>2
<1>8. CASE RequireActorToDelete(t)
  <2>1. PICK a \in User :
           Grant(t, [NoJob EXCEPT !.op = "deleteAccount", !.pc = "snapshotOwners", !.user = a])
    BY <1>8 DEF RequireActorToDelete
  <2>2. Begins([NoJob EXCEPT !.op = "deleteAccount", !.pc = "snapshotOwners", !.user = a])
    BY DEF Begins, Keepers, NoJob
  <2> QED BY <2>1, <2>2
<1>9. CASE RequireInvite(t)
  <2>1. PICK a, e \in User, c \in Company, r \in Role, i \in Invitation :
           /\ IsMember(db, a, c)
           /\ Grant(t, [NoJob EXCEPT !.op = "createInvitation", !.pc = "insertInvitation",
                     !.actor = a, !.user = e, !.company = c, !.role = r, !.invitation = i])
    BY <1>9 DEF RequireInvite, requireMembershipOf
  <2>2. Begins([NoJob EXCEPT !.op = "createInvitation", !.pc = "insertInvitation",
                     !.actor = a, !.user = e, !.company = c, !.role = r, !.invitation = i])
    BY <2>1 DEF Begins, Keepers, NoJob, IsMember
  <2> QED BY <2>1, <2>2
<1>10. CASE RequireRevoke(t)
  <2>1. PICK a \in User, c \in Company, i \in Invitation :
           Grant(t, [NoJob EXCEPT !.op = "revokeInvitation", !.pc = "markRevoked",
                     !.company = c, !.invitation = i])
    BY <1>10 DEF RequireRevoke
  <2>2. Begins([NoJob EXCEPT !.op = "revokeInvitation", !.pc = "markRevoked",
                     !.company = c, !.invitation = i])
    BY DEF Begins, Keepers, NoJob
  <2> QED BY <2>1, <2>2
<1>11. CASE RequireInvitationAccept(t)
  <2>1. PICK a \in User, i \in Invitation :
           /\ IsRow(db, i)
           /\ Grant(t, [NoJob EXCEPT !.op = "acceptInvitation", !.pc = "markAccepted",
                     !.actor = db[i].invitedBy, !.user = a, !.company = db[i].company,
                     !.role = db[i].role, !.invitation = i])
    BY <1>11 DEF RequireInvitationAccept
  <2>2. Begins([NoJob EXCEPT !.op = "acceptInvitation", !.pc = "markAccepted",
                     !.actor = db[i].invitedBy, !.user = a, !.company = db[i].company,
                     !.role = db[i].role, !.invitation = i])
    BY <2>1 DEF Begins, Keepers, NoJob
  <2> QED BY <2>1, <2>2
<1>12. CASE FindAbandonedSignup(t)
  <2>1. PICK u \in User :
           Grant(t, [NoJob EXCEPT !.op = "sweep", !.pc = "orphan", !.leavers = {u}])
    BY <1>12 DEF FindAbandonedSignup
  <2>2. Begins([NoJob EXCEPT !.op = "sweep", !.pc = "orphan", !.leavers = {u}])
    BY DEF Begins, Keepers, NoJob
  <2> QED BY <2>1, <2>2
<1> QED BY <1>1, <1>2, <1>3, <1>4, <1>5, <1>6, <1>7, <1>8, <1>9, <1>10, <1>11, <1>12 DEF Guard

\* The ways the state changes: a grant, a statement, a rollback, a commit, or
\* from outside in rows of users only.
LEMMA Steps ==
    ASSUME BelongInv, [Next]_vars
    PROVE  \/ \E t \in Slot : \E j : Grant(t, j) /\ Begins(j)
           \/ \E t \in Slot : Rollback(t)
           \/ \E t \in Slot : Commit(t)
           \/ \E t \in Slot : \E need, w, j :
                Statement(t, need, w, j) /\ Writes(t, w) /\ Follows(t, j) /\ Results(t, need, w, j)
           \/ /\ \A r \in Row : r \notin User => db'[r] = db[r]
              /\ UNCHANGED <<own, held, job>>
<1>1. CASE UNCHANGED vars
  BY <1>1 DEF vars
<1>2. CASE Next
  <2>1. ASSUME NEW t \in Slot, Guard(t) PROVE \E j : Grant(t, j) /\ Begins(j)
    BY <2>1, GuardBegins
  <2>2. ASSUME NEW t \in Slot, TxStep(t)
        PROVE  \/ Commit(t) \/ Rollback(t)
               \/ \E need, w, j : /\ Statement(t, need, w, j) /\ Writes(t, w)
                                  /\ Follows(t, j) /\ Results(t, need, w, j)
    BY <2>2, TxStepEffect DEF Effect
  <2>3. ASSUME NEW t \in Slot, DbFailure(t) PROVE Rollback(t)
    BY <2>3 DEF DbFailure
  <2>4. ASSUME NEW u \in User, SignUp(u)
        PROVE  (\A r \in Row : r \notin User => db'[r] = db[r]) /\ UNCHANGED <<own, held, job>>
    BY <2>4 DEF SignUp, BelongInv, IInv, TypeOK, RowsTyped
  <2>5. ASSUME NEW i \in Invitation, Expire(i)
        PROVE  (\A r \in Row : r \notin User => db'[r] = db[r]) /\ UNCHANGED <<own, held, job>>
    BY <2>5 DEF Expire
  <2> QED BY <1>2, <2>1, <2>2, <2>3, <2>4, <2>5 DEF Next
<1> QED BY <1>1, <1>2

\* Nothing that GhostSound(s) speaks of has changed.
LEMMA GhostKept ==
    ASSUME NEW s \in Slot, GhostSound(s), JobSound(job[s]), own'[s] = own[s], job'[s] = job[s],
           \A r \in Row : r \notin User => db'[r] = db[r]
    PROVE  GhostSound(s)'
<1>1. /\ \A i \in Invitation : db'[i] = db[i] /\ Seen(s, i)' = Seen(s, i)
      /\ \A c \in Company : db'[c] = db[c]
      /\ \A u \in User, c \in Company : Seen(s, <<u, c>>)' = Seen(s, <<u, c>>)
  BY RowTypes, RowTables DEF Seen, Membership
<1>2. Served(s)' /\ Spends(s)'
  BY <1>1 DEF GhostSound, Served, Spends, IsRow
<1>3. /\ job[s].op \in {"deleteCompany", "createInvitation"} => job[s].company \in Company
      /\ job[s].op = "acceptInvitation" => job[s].invitation \in Invitation
  BY DEF JobSound
<1>4. Accepts(s)' /\ Invites(s)'
  BY <1>1, <1>3 DEF GhostSound, Accepts, Invites, IsRow
<1>5. Closing(s)'
  BY <1>1, <1>3 DEF GhostSound, Closing, Deletes
<1> QED BY <1>2, <1>4, <1>5 DEF GhostSound

\* A slot with no request and nothing written.
LEMMA GhostIdle ==
    ASSUME NEW t \in Slot, job'[t] = NoJob, \A r \in Row : own'[t][r] = Unwritten
    PROVE  GhostSound(t)'
<1>1. /\ \A i \in Invitation : own'[t][i] \notin InvitationRecord \cup {None}
      /\ \A c \in Company : own'[t][c] # "DELETED"
      /\ job'[t].op = "none"
  BY RowTypes, MarkersDistinct DEF NoJob
<1> QED BY <1>1 DEF GhostSound, Served, Spends, Accepts, Invites, Closing

\* A statement keeps GhostSound of its own transaction.
LEMMA GhostStatement ==
    ASSUME Settled, GhostInv, NEW t \in Slot, NEW need, NEW w, NEW j,
           Statement(t, need, w, j), Writes(t, w), Follows(t, j), Results(t, need, w, j)
    PROVE  GhostSound(t)'
<1>1. db' = db /\ own'[t] = w /\ job'[t] = j
  BY StatementEffect DEF GhostInv, BelongInv
<1>2. /\ JobSound(job[t]) /\ WritesTyped(own[t]) /\ GhostSound(t) /\ FreshIds
  BY Asked DEF GhostInv, BelongInv, IInv
<1>3. j.op = job[t].op /\ j.company = job[t].company /\ j.invitation = job[t].invitation
      /\ job[t].pc # "commit"
  BY DEF Follows
<1>4. Served(t)' /\ Accepts(t)' /\ Invites(t)'
  BY <1>1, <1>2, <1>3 DEF GhostSound, Served, Accepts, Invites, IsRow
<1>5. \A i \in Invitation :
         \/ w[i] \in {own[t][i], Gone}
         \/ /\ job[t].op = "createInvitation" /\ i = job[t].invitation
            /\ w[i] \in InvitationRecord /\ w[i].company = job[t].company
         \/ /\ job[t].op # "createInvitation" /\ Seen(t, i) \in InvitationRecord
            /\ \E s \in {"ACCEPTED", "REVOKED"} : w[i] = [Seen(t, i) EXCEPT !.status = s]
  BY <1>2 DEF Writes, JobSound, InFlow
<1>6. Spends(t)'
  <2> SUFFICES ASSUME NEW i \in Invitation
               PROVE  /\ w[i] # None
                      /\ w[i] \in InvitationRecord =>
                           \/ /\ IsRow(db, i) /\ w[i].company = db[i].company
                              /\ w[i].role = db[i].role /\ w[i].status # "PENDING"
                           \/ /\ job[t].op = "createInvitation" /\ db[i] = None
                              /\ w[i].company = job[t].company
    BY <1>1, <1>3 DEF Spends, IsRow
  <2>1. CASE w[i] = own[t][i]
    BY <1>2, <2>1 DEF GhostSound, Spends
  <2>2. CASE job[t].op # "createInvitation" /\ Seen(t, i) \in InvitationRecord
             /\ \E s \in {"ACCEPTED", "REVOKED"} : w[i] = [Seen(t, i) EXCEPT !.status = s]
    <3>1. /\ w[i].company = Seen(t, i).company /\ w[i].role = Seen(t, i).role
          /\ w[i].status \in {"ACCEPTED", "REVOKED"} /\ w[i] \in InvitationRecord
      BY <2>2 DEF InvitationRecord
    <3>2. IsRow(db, i) /\ Seen(t, i).company = db[i].company /\ Seen(t, i).role = db[i].role
      <4>1. CASE own[t][i] = Unwritten
        BY <2>2, <4>1, MarkersDistinct DEF Seen, IsRow
      <4>2. CASE own[t][i] # Unwritten
        BY <1>2, <2>2, <4>2 DEF Seen, GhostSound, Spends
      <4> QED BY <4>1, <4>2
    <3> QED BY <3>1, <3>2, MarkersDistinct
  <2>3. CASE job[t].op = "createInvitation" /\ i = job[t].invitation
             /\ w[i] \in InvitationRecord /\ w[i].company = job[t].company
    BY <1>2, <2>3, MarkersDistinct DEF FreshIds, Sends
  <2>4. CASE w[i] = Gone
    BY <2>4, MarkersDistinct
  <2> QED BY <1>5, <2>1, <2>2, <2>3, <2>4
<1>7. Closing(t)'
  <2>1. ASSUME NEW c \in Company, w[c] = "DELETED"
        PROVE  j.op = "deleteCompany" /\ j.pc = "commit"
    <3>1. w[c] # own[t][c]
      BY <1>2, <1>3, <2>1 DEF GhostSound, Closing
    <3>2. job[t].pc = "softDelete"
      BY <2>1, <3>1 DEF Writes
    <3> QED BY <1>2, <1>3, <3>2 DEF JobSound, InFlow, Follows
  <2>2. ASSUME job[t].op = "deleteCompany",
               j.pc \notin {"snapshotOwners", "lockOwners", "recheck", "revokePending"},
               j.pc = "commit" => w[job[t].company] = "DELETED"
        PROVE  /\ \A i \in Invitation : ~ (/\ Alive(Seen(t, i)') /\ Seen(t, i)'.status = "PENDING"
                                          /\ Seen(t, i)'.company = job[t].company)
               /\ j.pc # "removeMemberships" =>
                    \A u \in User : Seen(t, <<u, job[t].company>>)' = None
    <3>1. PICK c \in Company : c = job[t].company
      BY <1>2, <2>2 DEF JobSound
    <3>2. job[t].pc \in {"revokePending", "removeMemberships", "reassign", "orphan", "deleteUser",
                         "softDelete"}
      <4>1. job[t].pc # "recheck"
        <5> SUFFICES ASSUME job[t].pc = "recheck" PROVE FALSE
          OBVIOUS
        <5>1. j.pc = "commit"
          BY <2>2 DEF Follows
        <5>2. w[c] = "DELETED" /\ w[c] # own[t][c]
          BY <1>2, <1>3, <2>2, <3>1, <5>1 DEF GhostSound, Closing
        <5> QED BY <5>1, <5>2, <3>1 DEF Writes
      <4>2. afterOwnerLock("deleteCompany") = "recheck"
        BY DEF afterOwnerLock
      <4> QED BY <1>2, <1>3, <2>2, <4>1, <4>2 DEF JobSound, InFlow, Follows
    <3>3. /\ job[t].pc # "revokePending" =>
               \A i \in Invitation : ~ (/\ Alive(Seen(t, i)) /\ Seen(t, i).status = "PENDING"
                                        /\ Seen(t, i).company = c)
          /\ job[t].pc \notin {"revokePending", "removeMemberships"} =>
               \A u \in User : Seen(t, <<u, c>>) = None
      BY <1>2, <1>3, <2>2, <3>1, <3>2 DEF GhostSound, Closing, Deletes
    <3>4. ASSUME NEW i \in Invitation
          PROVE  ~ (/\ Alive(Seen(t, i)') /\ Seen(t, i)'.status = "PENDING"
                    /\ Seen(t, i)'.company = c)
      <4>1. Seen(t, i)' = IF w[i] = Unwritten THEN db[i] ELSE w[i]
        BY <1>1 DEF Seen
      <4>2. CASE w[i] = own[t][i]
        <5>1. Seen(t, i)' = Seen(t, i)
          BY <4>1, <4>2 DEF Seen
        <5>2. CASE job[t].pc = "revokePending"
          <6> SUFFICES ASSUME Alive(Seen(t, i)), Seen(t, i).status = "PENDING", Seen(t, i).company = c
                       PROVE  FALSE
            BY <5>1
          <6>1. w[i] # Unwritten /\ w[i].status = "REVOKED"
            BY <3>1, <5>2 DEF Results
          <6> QED BY <4>1, <5>1, <6>1
        <5> QED BY <3>3, <5>1, <5>2
      <4>3. CASE w[i] = Gone
        BY <4>1, <4>3, MarkersDistinct DEF Alive
      <4>4. CASE Seen(t, i) \in InvitationRecord
                 /\ \E s \in {"ACCEPTED", "REVOKED"} : w[i] = [Seen(t, i) EXCEPT !.status = s]
        <5>1. w[i] \in InvitationRecord /\ w[i].status \in {"ACCEPTED", "REVOKED"}
          BY <4>4 DEF InvitationRecord
        <5> QED BY <4>1, <5>1, MarkersDistinct
      <4> QED BY <1>5, <2>2, <4>2, <4>3, <4>4
    <3>5. ASSUME j.pc # "removeMemberships", NEW u \in User
          PROVE  Seen(t, <<u, c>>)' = None
      <4>1. Seen(t, <<u, c>>)' = IF w[<<u, c>>] = Unwritten THEN db[<<u, c>>] ELSE w[<<u, c>>]
        BY <1>1 DEF Seen
      <4>2. job[t].pc # "revokePending"
        BY <3>5 DEF Follows
      <4>3. w[<<u, c>>] # own[t][<<u, c>>] => w[<<u, c>>] = None
        BY <3>1, <3>2, <4>2 DEF Writes, Rewrites
      <4>4. Seen(t, <<u, c>>) # None => w[<<u, c>>] = None
        BY <3>1, <3>2, <3>3, <4>2 DEF Results
      <4> QED BY <4>1, <4>3, <4>4, MarkersDistinct DEF Seen
    <3> QED BY <1>1, <1>3, <3>1, <3>4, <3>5
  <2>3. job[t].op = "deleteCompany" => db[job[t].company] # None
    BY <1>2 DEF GhostSound, Closing
  <2> QED BY <1>1, <1>3, <2>1, <2>2, <2>3 DEF Closing, Deletes
<1> QED BY <1>4, <1>6, <1>7 DEF GhostSound

\* What a commit publishes of companies, invitations and memberships.
LEMMA Published ==
    ASSUME BelongInv, NEW t \in Slot, Commit(t)
    PROVE  /\ \A r \in Row : db'[r] = Seen(t, r)
           /\ \A c \in Company : own[t][c] \in {Unwritten, "ACTIVE", "DELETED"}
           /\ \A i \in Invitation : own[t][i] \in InvitationRecord \cup {Unwritten, None, Gone}
           /\ \A u \in User, c \in Company : own[t][<<u, c>>] \in Role \cup {Unwritten, None}
           /\ job[t].pc = "commit" /\ job'[t] = NoJob
           /\ \A r \in Row : own'[t][r] = Unwritten
<1>1. IInv /\ WritesTyped(own[t]) /\ Named(t)
  BY Asked DEF BelongInv, Pending
<1>2. /\ \A r \in Row : own[t][r] \in ValueOf(r) \cup {Unwritten}
      /\ \A c \in Company : own[t][c] # Unwritten => own[t][c] # None
  BY <1>1 DEF WritesTyped, Named
<1>3. \A c \in Company : own[t][c] \in {Unwritten, "ACTIVE", "DELETED"}
  BY <1>2, RowTypes DEF CompanyValue
<1>4. \A i \in Invitation : own[t][i] \in InvitationRecord \cup {Unwritten, None, Gone}
  BY <1>2, RowTypes DEF InvitationValue
<1>5. \A u \in User, c \in Company : own[t][<<u, c>>] \in Role \cup {Unwritten, None}
  BY <1>2, RowTypes DEF MembershipValue, Membership
<1>6. /\ \A r \in Row : db'[r] = Seen(t, r)
      /\ job'[t] = NoJob /\ \A r \in Row : own'[t][r] = Unwritten
  BY <1>1, CommitEffect DEF Seen
<1>7. job[t].pc = "commit"
  BY DEF Commit, At
<1> QED BY <1>3, <1>4, <1>5, <1>6, <1>7

\* Whoever t adds to a company joins it by its founding or by an invitation.
LEMMA JoinsBy ==
    ASSUME BelongInv, NEW t \in Slot, job[t].pc = "commit", NEW u \in User, NEW c \in Company,
           own[t][<<u, c>>] \in Role, db[<<u, c>>] = None
    PROVE  /\ job[t].user = u /\ job[t].company = c
           /\ \/ job[t].op \in {"createSignupCompany", "addCompany"} /\ own[t][c] = "ACTIVE" /\ db[c] = None
              \/ /\ job[t].op = "acceptInvitation" /\ job[t].invitation \in Invitation
                 /\ IsPending(db, job[t].invitation)
                 /\ own[t][job[t].invitation] \in InvitationRecord
<1>1. Joined(t) /\ Named(t) /\ FreshIds /\ AcceptanceSpends /\ JobSound(job[t])
  BY Asked DEF BelongInv, IInv, Pending
<1>2. job[t].op \in JoinOps /\ job[t].user = u /\ job[t].company = c
  BY <1>1 DEF Joined
<1>3. CASE job[t].op \in {"createSignupCompany", "addCompany"}
  BY <1>1, <1>2, <1>3 DEF Named, FreshIds, Creates
<1>4. CASE job[t].op = "acceptInvitation"
  BY <1>1, <1>2, <1>4 DEF AcceptanceSpends, JobSound
<1> QED BY <1>2, <1>3, <1>4 DEF JoinOps

\* What is committed is of companies in use.
LEMMA GhostClosed ==
    ASSUME GhostInv, NEW t \in Slot, Commit(t)
    PROVE  Closed(db')
<1>1. /\ BelongInv /\ Closed(db) /\ Spends(t) /\ Accepts(t) /\ Invites(t) /\ Closing(t)
      /\ Named(t)
  BY DEF GhostInv, GhostSound, BelongInv, Pending
<1>2. /\ \A r \in Row : db'[r] = Seen(t, r)
      /\ \A c \in Company : own[t][c] \in {Unwritten, "ACTIVE", "DELETED"}
      /\ \A i \in Invitation : own[t][i] \in InvitationRecord \cup {Unwritten, None, Gone}
      /\ \A u \in User, c \in Company : own[t][<<u, c>>] \in Role \cup {Unwritten, None}
      /\ job[t].pc = "commit"
  BY <1>1, Published
<1>3. ASSUME NEW c \in Company, own[t][c] = "DELETED"
      PROVE  /\ job[t].op = "deleteCompany"
             /\ \A u \in User : Seen(t, <<u, c>>) = None
             /\ \A i \in Invitation : ~ (/\ Alive(Seen(t, i)) /\ Seen(t, i).status = "PENDING"
                                         /\ Seen(t, i).company = c)
  <2>1. c = job[t].company /\ job[t].op = "deleteCompany"
    BY <1>1, <1>3, MarkersDistinct DEF Closing, Named
  <2> QED BY <1>1, <1>2, <1>3, <2>1 DEF Closing, Deletes
<1>4. ASSUME NEW u \in User, NEW c \in Company, db'[<<u, c>>] # None
      PROVE  db'[c] = "ACTIVE"
  <2>1. db'[<<u, c>>] = Seen(t, <<u, c>>) /\ db'[c] = Seen(t, c)
    BY <1>2, RowTypes DEF Membership
  <2>2. own[t][c] # "DELETED"
    BY <1>3, <1>4, <2>1
  <2>3. CASE db[<<u, c>>] # None
    BY <1>1, <1>2, <2>1, <2>2, <2>3 DEF Closed, Seen
  <2>4. CASE db[<<u, c>>] = None
    <3>1. own[t][<<u, c>>] \in Role
      BY <1>2, <1>4, <2>1, <2>4 DEF Seen
    <3>2. \/ own[t][c] = "ACTIVE"
          \/ /\ job[t].op = "acceptInvitation" /\ job[t].invitation \in Invitation
             /\ IsPending(db, job[t].invitation) /\ job[t].company = c
      BY <1>1, <1>2, <2>4, <3>1, JoinsBy
    <3>3. own[t][c] = "ACTIVE" \/ db[c] = "ACTIVE"
      BY <1>1, <3>2 DEF Closed, Accepts, IsPending
    <3> QED BY <1>2, <2>1, <2>2, <3>3, MarkersDistinct DEF Seen
  <2> QED BY <2>3, <2>4
<1>5. ASSUME NEW i \in Invitation, IsPending(db', i)
      PROVE  db'[db'[i].company] = "ACTIVE"
  <2>1. db'[i] = Seen(t, i) /\ Alive(Seen(t, i)) /\ Seen(t, i).status = "PENDING"
    BY <1>2, <1>5, RowTypes DEF IsPending, IsRow, Alive
  <2>2. CASE own[t][i] # Unwritten
    <3>1. Seen(t, i) \in InvitationRecord /\ Seen(t, i) = own[t][i]
      BY <1>2, <2>1, <2>2 DEF Seen, Alive
    <3>2. job[t].op = "createInvitation" /\ Seen(t, i).company = job[t].company
      BY <1>1, <2>1, <3>1 DEF Spends
    <3>3. PICK c \in Company : c = job[t].company
      BY <3>1, <3>2 DEF InvitationRecord
    <3>4. db[c] = "ACTIVE" /\ own[t][c] # "DELETED"
      BY <1>1, <1>3, <3>2, <3>3 DEF Invites
    <3>5. db'[c] = "ACTIVE"
      BY <1>2, <3>4, RowTypes DEF Seen
    <3> QED BY <2>1, <3>2, <3>3, <3>5
  <2>3. CASE own[t][i] = Unwritten
    <3>1. db'[i] = db[i] /\ IsPending(db, i)
      BY <2>1, <2>3 DEF Seen, IsPending, IsRow, Alive
    <3>2. PICK c \in Company : c = db[i].company
      <4>1. db[i] \in InvitationValue
        BY <1>1, RowTypes DEF BelongInv, IInv, TypeOK, RowsTyped
      <4> QED BY <3>1, <4>1 DEF InvitationValue, InvitationRecord, IsPending, IsRow
    <3>3. db[c] = "ACTIVE"
      BY <1>1, <3>1, <3>2 DEF Closed
    <3>4. own[t][c] # "DELETED"
      BY <1>3, <2>1, <3>1, <3>2
    <3>5. db'[c] = "ACTIVE"
      BY <1>2, <3>3, <3>4, RowTypes DEF Seen
    <3> QED BY <3>1, <3>2, <3>5
  <2> QED BY <2>2, <2>3
<1> QED BY <1>4, <1>5 DEF Closed

\* A commit lets nobody into a company that another transaction empties.
LEMMA GhostOthers ==
    ASSUME Settled, GhostInv, NEW t \in Slot, Commit(t), NEW s \in Slot, s # t
    PROVE  GhostSound(s)'
<1>1. /\ BelongInv /\ IInv /\ Closed(db) /\ GhostSound(t) /\ GhostSound(s)
      /\ Named(t) /\ JobSound(job[s])
  BY Asked DEF GhostInv, BelongInv, Pending
<1>2. /\ \A r \in Row : db'[r] = Seen(t, r)
      /\ \A i \in Invitation : own[t][i] \in InvitationRecord \cup {Unwritten, None, Gone}
      /\ \A u \in User, c \in Company : own[t][<<u, c>>] \in Role \cup {Unwritten, None}
      /\ job[t].pc = "commit"
  BY <1>1, Published
<1>3. /\ own'[s] = own[s] /\ job'[s] = job[s]
      /\ \A r \in Row : own[s][r] # Unwritten => db'[r] = db[r]
      /\ \A c \in Company : db[c] # None => db'[c] # None
  BY <1>1, CommitBounds, CommitForward
<1>4. \A i \in Invitation :
         /\ db[i] # None => db'[i] # None
         /\ IsRow(db', i) =>
              \/ db'[i] = db[i]
              \/ /\ IsRow(db, i) /\ db'[i].status # "PENDING"
                 /\ db'[i].company = db[i].company /\ db'[i].role = db[i].role
              \/ /\ db[i] = None /\ job[t].op = "createInvitation"
  <2> SUFFICES ASSUME NEW i \in Invitation
               PROVE  /\ db[i] # None => db'[i] # None
                      /\ IsRow(db', i) =>
                           \/ db'[i] = db[i]
                           \/ /\ IsRow(db, i) /\ db'[i].status # "PENDING"
                              /\ db'[i].company = db[i].company /\ db'[i].role = db[i].role
                           \/ /\ db[i] = None /\ job[t].op = "createInvitation"
    OBVIOUS
  <2>1. db'[i] = Seen(t, i)
    BY <1>2, RowTypes
  <2>2. CASE own[t][i] = Unwritten
    BY <2>1, <2>2 DEF Seen
  <2>3. CASE own[t][i] # Unwritten
    BY <1>1, <1>2, <2>1, <2>3 DEF Seen, IsRow, GhostSound, Spends
  <2> QED BY <2>2, <2>3
<1>5. Served(s)'
  BY <1>1, <1>3 DEF GhostSound, Served
<1>6. Spends(s)'
  <2> SUFFICES ASSUME NEW i \in Invitation
               PROVE  /\ own[s][i] # None
                      /\ own[s][i] \in InvitationRecord =>
                           \/ /\ IsRow(db', i) /\ own[s][i].company = db'[i].company
                              /\ own[s][i].role = db'[i].role /\ own[s][i].status # "PENDING"
                           \/ /\ job[s].op = "createInvitation" /\ db'[i] = None
                              /\ own[s][i].company = job[s].company
    BY <1>3 DEF Spends
  <2>1. own[s][i] \in InvitationRecord => db'[i] = db[i]
    BY <1>3, MarkersDistinct, RowTypes
  <2> QED BY <1>1, <2>1 DEF GhostSound, Spends, IsRow
<1>7. Accepts(s)'
  <2> SUFFICES ASSUME job[s].op = "acceptInvitation"
               PROVE  /\ db'[job[s].invitation] # None
                      /\ IsRow(db', job[s].invitation)
                         => db'[job[s].invitation].company = job[s].company
    BY <1>3 DEF Accepts
  <2>1. PICK i \in Invitation : i = job[s].invitation
    BY <1>1 DEF JobSound
  <2>2. db[i] # None
    BY <1>1, <2>1 DEF GhostSound, Accepts
  <2>3. IsRow(db', i) => IsRow(db, i) /\ db'[i].company = db[i].company
    BY <1>4, <2>2 DEF IsRow
  <2> QED BY <1>1, <1>4, <2>1, <2>2, <2>3 DEF GhostSound, Accepts
<1>9. Invites(s)'
  <2> SUFFICES ASSUME job[s].op = "createInvitation" PROVE db'[job[s].company] = "ACTIVE"
    BY <1>3 DEF Invites
  <2>1. PICK c \in Company : c = job[s].company
    BY <1>1 DEF JobSound
  <2>2. own[t][c] # "DELETED"
    BY <1>1 DEF GhostSound, Served, Closing, Settled
  <2>3. own[t][c] \in {Unwritten, "ACTIVE", "DELETED"} /\ db'[c] = Seen(t, c)
    BY <1>1, <2>1, Published, RowTypes
  <2>4. db[c] = "ACTIVE"
    BY <1>1, <2>1 DEF GhostSound, Invites
  <2> QED BY <2>1, <2>2, <2>3, <2>4 DEF Seen
<1>8. Closing(s)'
  <2>1. \A c \in Company : own'[s][c] = "DELETED" => job'[s].op = "deleteCompany" /\ job'[s].pc = "commit"
    BY <1>1, <1>3 DEF GhostSound, Closing
  <2>2. ASSUME job[s].op = "deleteCompany"
        PROVE  /\ db'[job[s].company] # None
               /\ job[s].pc \notin {"snapshotOwners", "lockOwners", "recheck", "revokePending"}
                  /\ (job[s].pc = "commit" => own[s][job[s].company] = "DELETED") =>
                   /\ \A i \in Invitation : ~ (/\ Alive(Seen(s, i)') /\ Seen(s, i)'.status = "PENDING"
                                               /\ Seen(s, i)'.company = job[s].company)
                   /\ job[s].pc # "removeMemberships" =>
                        \A u \in User : Seen(s, <<u, job[s].company>>)' = None
    <3>1. PICK c \in Company : c = job[s].company
      BY <1>1, <2>2 DEF JobSound
    <3>2. db[c] # None /\ db'[c] # None
      BY <1>1, <1>3, <2>2, <3>1 DEF GhostSound, Closing
    <3> SUFFICES ASSUME job[s].pc \notin {"snapshotOwners", "lockOwners", "recheck", "revokePending"},
                        job[s].pc = "commit" => own[s][c] = "DELETED"
                 PROVE  /\ \A i \in Invitation :
                             ~ (/\ Alive(Seen(s, i)') /\ Seen(s, i)'.status = "PENDING"
                                /\ Seen(s, i)'.company = c)
                        /\ job[s].pc # "removeMemberships" =>
                             \A u \in User : Seen(s, <<u, c>>)' = None
      BY <3>1, <3>2, <1>3
    <3>3. /\ \A i \in Invitation : ~ (/\ Alive(Seen(s, i)) /\ Seen(s, i).status = "PENDING"
                                      /\ Seen(s, i).company = c)
          /\ job[s].pc # "removeMemberships" => \A u \in User : Seen(s, <<u, c>>) = None
      BY <1>1, <2>2, <3>1 DEF GhostSound, Closing, Deletes
    <3>4. ASSUME NEW i \in Invitation, Alive(Seen(s, i)'), Seen(s, i)'.status = "PENDING",
                 Seen(s, i)'.company = c
          PROVE  FALSE
      <4>1. Seen(s, i)' = IF own[s][i] = Unwritten THEN db'[i] ELSE own[s][i]
        BY <1>3 DEF Seen
      <4>2. CASE own[s][i] # Unwritten
        <5>1. Seen(s, i)' = Seen(s, i)
          BY <4>1, <4>2 DEF Seen
        <5> QED BY <3>3, <3>4, <5>1
      <4>3. CASE own[s][i] = Unwritten
        <5>1. IsRow(db', i)
          BY <3>4, <4>1, <4>3 DEF Alive, IsRow
        <5>2. db'[i] = db[i]
          BY <1>1, <1>4, <2>2, <3>4, <4>1, <4>3, <5>1 DEF GhostSound, Served, Settled
        <5>3. Seen(s, i)' = Seen(s, i)
          BY <4>1, <4>3, <5>2 DEF Seen
        <5> QED BY <3>3, <3>4, <5>3
      <4> QED BY <4>2, <4>3
    <3>5. ASSUME job[s].pc # "removeMemberships", NEW u \in User, Seen(s, <<u, c>>)' # None
          PROVE  FALSE
      <4>1. Seen(s, <<u, c>>)' = IF own[s][<<u, c>>] = Unwritten THEN db'[<<u, c>>] ELSE own[s][<<u, c>>]
        BY <1>3 DEF Seen
      <4>2. Seen(s, <<u, c>>) = None
        BY <3>3, <3>5
      <4>3. own[s][<<u, c>>] = Unwritten /\ db[<<u, c>>] = None /\ db'[<<u, c>>] # None
        BY <3>5, <4>1, <4>2 DEF Seen
      <4>4. own[t][<<u, c>>] \in Role
        <5>1. db'[<<u, c>>] = Seen(t, <<u, c>>)
          BY <1>2, RowTypes DEF Membership
        <5> QED BY <1>2, <4>3, <5>1 DEF Seen
      <4>5. PICK i \in Invitation : /\ job[t].op = "acceptInvitation" /\ job[t].invitation = i
                                    /\ job[t].company = c
                                    /\ IsPending(db, i) /\ own[t][i] \in InvitationRecord
        BY <1>1, <1>2, <3>2, <4>3, <4>4, JoinsBy
      <4>6. db[i].company = c
        BY <1>1, <4>5 DEF GhostSound, Accepts, IsPending
      <4>7. own[s][i] # Unwritten
        BY <3>3, <4>5, <4>6 DEF Seen, IsPending, IsRow, Alive
      <4>8. own[t][i] # Unwritten /\ i \in Row
        BY <4>5, MarkersDistinct, RowTypes
      <4>9. PICK m, n \in Exclusive : <<s, i, m>> \in held /\ <<t, i, n>> \in held
        BY <1>1, <4>7, <4>8 DEF IInv, WritesLocked
      <4> QED BY <1>1, <4>8, <4>9 DEF IInv, LocksExclude
    <3> QED BY <3>4, <3>5
  <2> QED BY <1>3, <2>1, <2>2 DEF Closing, Deletes
<1> QED BY <1>5, <1>6, <1>7, <1>8, <1>9 DEF GhostSound

LEMMA GhostStep == Settled /\ GhostInv /\ [Next]_vars => GhostInv'
<1> SUFFICES ASSUME Settled, GhostInv, [Next]_vars PROVE GhostInv'
  OBVIOUS
<1>1. BelongInv /\ IInv /\ Closed(db) /\ \A s \in Slot : GhostSound(s) /\ JobSound(job[s])
  BY Asked DEF GhostInv, BelongInv
<1>2. BelongInv'
  BY <1>1, BelongStep
<1>3. ASSUME \A r \in Row : r \notin User => db'[r] = db[r]
      PROVE  Closed(db')
  <2>1. /\ \A c \in Company : db'[c] = db[c]
        /\ \A i \in Invitation : db'[i] = db[i]
        /\ \A u \in User, c \in Company : db'[<<u, c>>] = db[<<u, c>>]
    BY <1>3, RowTypes, RowTables DEF Membership
  <2>2. ASSUME NEW i \in Invitation, IsPending(db', i) PROVE db'[db'[i].company] = "ACTIVE"
    <3>1. IsPending(db, i)
      BY <2>1, <2>2 DEF IsPending, IsRow
    <3>2. db[i] \in InvitationValue
      BY <1>1, RowTypes DEF IInv, TypeOK, RowsTyped
    <3>3. db[i].company \in Company
      BY <3>1, <3>2 DEF InvitationValue, InvitationRecord, IsPending, IsRow
    <3> QED BY <1>1, <2>1, <3>1, <3>3 DEF Closed
  <2> QED BY <1>1, <2>1, <2>2 DEF Closed
<1>4. CASE \E t \in Slot : \E j : Grant(t, j) /\ Begins(j)
  <2>0. PICK t \in Slot : \E j : Grant(t, j) /\ Begins(j)
    BY <1>4
  <2>1. PICK j : Grant(t, j) /\ Begins(j)
    BY <2>0
  <2>2. /\ db' = db /\ own' = own /\ j.op \in Ops /\ job[t] = NoJob
        /\ job'[t] = j /\ \A s \in Slot : s # t => job'[s] = job[s]
    BY <1>1, <2>1 DEF Grant, IInv, TypeOK
  <2>3. \A s \in Slot : s # t => GhostSound(s)'
    BY <1>1, <2>2, GhostKept
  <2>4. GhostSound(t)'
    <3>1. Served(t)' /\ Spends(t)'
      BY <1>1, <2>2 DEF GhostSound, Served, Spends, NoJob
    <3>3. Accepts(t)'
      BY <2>1, <2>2 DEF Accepts, Begins, IsRow
    <3>4. Invites(t)'
      <4> SUFFICES ASSUME j.op = "createInvitation" PROVE db[j.company] = "ACTIVE"
        BY <2>2 DEF Invites
      <4>1. PICK u \in User, c \in Company : c = j.company /\ db[<<u, c>>] # None
        BY <2>1 DEF Begins
      <4> QED BY <1>1, <4>1 DEF Closed
    <3>2. Closing(t)'
      BY <1>1, <2>1, <2>2 DEF GhostSound, Closing, Deletes, Begins, NoJob
    <3> QED BY <3>1, <3>2, <3>3, <3>4 DEF GhostSound
  <2> QED BY <1>2, <1>3, <2>2, <2>3, <2>4 DEF GhostInv
<1>5. CASE \E t \in Slot : Rollback(t)
  <2>1. PICK t \in Slot : Rollback(t)
    BY <1>5
  <2>2. /\ db' = db /\ job'[t] = NoJob /\ \A r \in Row : own'[t][r] = Unwritten
        /\ \A s \in Slot : s # t => own'[s] = own[s] /\ job'[s] = job[s]
    BY <1>1, <2>1 DEF Rollback, Discard, Clean, IInv, TypeOK, RowsTyped
  <2>3. \A s \in Slot : GhostSound(s)'
    BY <1>1, <2>2, GhostKept, GhostIdle
  <2> QED BY <1>2, <1>3, <2>2, <2>3 DEF GhostInv
<1>6. CASE \E t \in Slot : Commit(t)
  <2>1. PICK t \in Slot : Commit(t)
    BY <1>6
  <2>2. GhostSound(t)'
    BY <1>1, <2>1, Published, GhostIdle
  <2> QED BY <1>2, <2>1, <2>2, GhostClosed, GhostOthers DEF GhostInv
<1>7. CASE \E t \in Slot : \E need, w, j :
             Statement(t, need, w, j) /\ Writes(t, w) /\ Follows(t, j) /\ Results(t, need, w, j)
  <2>1. PICK t \in Slot : \E need, w, j :
             Statement(t, need, w, j) /\ Writes(t, w) /\ Follows(t, j) /\ Results(t, need, w, j)
    BY <1>7
  <2>2. PICK need, w, j : Statement(t, need, w, j) /\ Writes(t, w) /\ Follows(t, j) /\ Results(t, need, w, j)
    BY <2>1
  <2>3. /\ db' = db /\ \A s \in Slot : s # t => own'[s] = own[s] /\ job'[s] = job[s]
    BY <1>1, <2>2, StatementEffect
  <2>4. \A s \in Slot : GhostSound(s)'
    BY <1>1, <2>2, <2>3, GhostKept, GhostStatement
  <2> QED BY <1>2, <1>3, <2>3, <2>4 DEF GhostInv
<1>8. CASE (\A r \in Row : r \notin User => db'[r] = db[r]) /\ UNCHANGED <<own, held, job>>
  BY <1>1, <1>2, <1>3, <1>8, GhostKept DEF GhostInv
<1> QED BY <1>1, <1>4, <1>5, <1>6, <1>7, <1>8, Steps

LEMMA GhostInit == Settled /\ Init => GhostInv
<1> SUFFICES ASSUME Settled, Init PROVE GhostInv
  OBVIOUS
<1>1. BelongInv /\ Closed(db)
  BY BelongInit DEF Settled, Init
<1>2. ASSUME NEW t \in Slot PROVE GhostSound(t)
  <2>1. job[t] = NoJob /\ \A r \in Row : own[t][r] = Unwritten
    BY <1>1 DEF Init, Clean, BelongInv, IInv, TypeOK, RowsTyped
  <2>2. /\ \A i \in Invitation : own[t][i] \notin InvitationRecord \cup {None}
        /\ \A c \in Company : own[t][c] # "DELETED"
        /\ job[t].op = "none"
    BY <2>1, RowTypes, MarkersDistinct DEF NoJob
  <2> QED BY <2>2 DEF GhostSound, Served, Spends, Accepts, Invites, Closing
<1> QED BY <1>1, <1>2 DEF GhostInv

\* Where no invitation is created while companies are deleted, a deleted company
\* has no members: deleteCompany first revokes the pending invitations, so an
\* acceptance either commits before its members are removed or finds its
\* invitation spent (deleteCompany, acceptInvitation).  An invitation created
\* between the two statements breaks this, see the run deletedCompany.
THEOREM NoGhosts ==
    ASSUME Settled
    PROVE  Spec => []NoGhostMembership
<1>1. Init => GhostInv
  BY GhostInit
<1>2. GhostInv /\ [Next]_vars => GhostInv'
  BY GhostStep
<1>3. GhostInv => NoGhostMembership
  BY DEF GhostInv, Closed, NoGhostMembership, IsMember
<1> QED BY <1>1, <1>2, <1>3, PTL DEF Spec

\* An account that belongs to a company in use belongs to one after the step,
\* or is deleted by it: its current company is among its companies, these are
\* in use, and who has none left is deleted before the commit.
LEMMA StrandsNobody ==
    ASSUME GhostInv, GhostInv', [Next]_vars, NEW u \in User, Live(db, u),
           activeCompaniesOf(db, u) # {}
    PROVE  activeCompaniesOf(db', u) # {} \/ db'[u] = Gone
<1>1. BelongInv /\ IInv /\ Consistent(db) /\ Consistent(db') /\ Closed(db')
  BY DEF GhostInv, BelongInv
<1>2. PICK c \in Company : db[<<u, c>>] # None /\ db[c] = "ACTIVE"
  BY DEF activeCompaniesOf, IsMember
<1>3. CASE ~ \E t \in Slot : Commit(t)
  <2>1. \A r \in Row : r \notin User => db'[r] = db[r]
    BY <1>1, <1>3, OnlyCommitsWrite
  <2>2. db'[<<u, c>>] = db[<<u, c>>] /\ db'[c] = db[c]
    BY <2>1, RowTypes, RowTables DEF Membership
  <2> QED BY <1>2, <2>2 DEF activeCompaniesOf, IsMember
<1>4. CASE \E t \in Slot : Commit(t)
  <2>1. PICK t \in Slot : Commit(t)
    BY <1>4
  <2>2. Homeless(t) /\ WritesTyped(own[t]) /\ job[t].pc = "commit"
    BY <1>1, <2>1, Asked, Published DEF BelongInv, Pending
  <2>3. db'[u] = Seen(t, u)
    BY <1>1, <2>1, Published, RowTypes
  <2>4. own[t][u] # NoCompany
    BY <2>2 DEF Homeless
  <2>5. db[u] # NoCompany
    BY <1>1, <1>2 DEF Consistent, IsMember
  <2>6. db'[u] # NoCompany
    BY <2>3, <2>4, <2>5 DEF Seen
  <2>7. db'[u] # None
    BY <1>1, <2>1, CommitForward DEF Live
  <2> SUFFICES ASSUME db'[u] # Gone PROVE activeCompaniesOf(db', u) # {}
    OBVIOUS
  <2>8. db'[u] \in Company
    <3>1. db'[u] \in UserValue
      BY <1>1, StepInv, RowTypes DEF IInv, TypeOK, RowsTyped
    <3> QED BY <2>6, <2>7, <3>1 DEF UserValue
  <2>9. PICK d \in Company : d = db'[u]
    BY <2>8
  <2>10. db'[<<u, d>>] # None
    BY <1>1, <2>6, <2>7, <2>9 DEF Consistent, IsMember, Live
  <2>11. db'[d] = "ACTIVE"
    BY <1>1, <2>10 DEF Closed
  <2> QED BY <2>10, <2>11 DEF activeCompaniesOf, IsMember
<1> QED BY <1>3, <1>4

\* Under the same condition nobody who belongs to an active company is left
\* behind with an account that belongs to none: removals, withdrawals and
\* company deletions that overlap either leave him one or delete the account in
\* the same commit (deleteAccountIfOrphaned).
THEOREM NobodyStranded ==
    ASSUME Settled
    PROVE  Spec => NeverOrphaned
<1> DEFINE Held == \A u \in User : Live(db, u) /\ activeCompaniesOf(db, u) # {}
                      => activeCompaniesOf(db', u) # {} \/ db'[u] = Gone
<1>1. Init => GhostInv
  BY GhostInit
<1>2. GhostInv /\ [Next]_vars => GhostInv'
  BY GhostStep
<1>3. GhostInv /\ [Next]_vars /\ GhostInv' => [Held]_vars
  BY StrandsNobody
<1> QED BY <1>1, <1>2, <1>3, PTL DEF Spec, NeverOrphaned

-----------------------------------------------------------------------------
(* Companies in use keep an owner: statements.                             *)

\* Nothing that TenureSound(s) speaks of has changed, except that s may have
\* got locks.
LEMMA TenureKept ==
    ASSUME NEW s \in Slot, JobSound(job[s]), own'[s] = own[s], job'[s] = job[s],
           \A r \in Row : r \notin User => db'[r] = db[r],
           \A r, m : Has(s, r, m) => Has(s, r, m)'
    PROVE  /\ TenureSound(s) => TenureSound(s)'
           /\ NoPromotion(s) => NoPromotion(s)'
           /\ \A c \in Company : Complete(s, c) => Complete(s, c)'
<1>1. /\ \A c \in Company : db'[c] = db[c] /\ Seen(s, c)' = Seen(s, c)
      /\ \A u \in User, c \in Company : /\ db'[<<u, c>>] = db[<<u, c>>]
                                        /\ Seen(s, <<u, c>>)' = Seen(s, <<u, c>>)
  BY RowTypes, RowTables DEF Seen, Membership
<1>2. ASSUME NEW c \in Company, Complete(s, c) PROVE Complete(s, c)'
  BY <1>1, <1>2 DEF Complete
<1>3. NoPromotion(s) => NoPromotion(s)'
  BY DEF NoPromotion
<1>4. ASSUME TenureSound(s) PROVE TenureSound(s)'
  <2>1. Served(s)' /\ RoleWrites(s)'
    BY <1>1, <1>4 DEF TenureSound, Served, RoleWrites
  <2>2. job[s].op \in Keepers \cup {"deleteCompany"} => job[s].company \in Company
    BY DEF JobSound, Keepers
  <2>3. Keeps(s)'
    BY <1>1, <1>4, <2>2 DEF TenureSound, Keeps
  <2>4. Parties(s)'
    BY <1>1, <1>4, <2>2 DEF TenureSound, Parties
  <2>5. Withdraws(s)'
    <3> SUFFICES ASSUME job[s].op = "deleteAccount" PROVE Withdraws(s)'
      BY DEF Withdraws
    <3>1. PICK v \in User : v = job[s].user
      BY DEF JobSound
    <3>2. job[s].pc \in {"blocking", "deleteUser", "commit"} => Has(s, job[s].user, "ADVISORY")'
      BY <1>4 DEF TenureSound, Withdraws
    <3>3. job[s].pc \in {"lockOwners", "advisory", "blocking"} =>
            \A c \in Company : db'[<<v, c>>] = "OWNER" =>
                \/ Complete(s, c)'
                \/ \A u \in User : db'[<<u, c>>] = "OWNER" => u = v
      BY <1>1, <1>2, <1>4, <3>1 DEF TenureSound, Withdraws
    <3>4. job[s].pc \in {"deleteUser", "commit"} =>
             \A c \in Company : db'[<<v, c>>] = "OWNER" /\ db'[c] = "ACTIVE" =>
                 \E u \in User : /\ u # v /\ db'[<<u, c>>] = "OWNER"
                                 /\ Has(s, <<u, c>>, "UPDATE")'
      BY <1>1, <1>4, <3>1 DEF TenureSound, Withdraws
    <3> QED BY <3>1, <3>2, <3>3, <3>4 DEF Withdraws
  <2> QED BY <2>1, <2>3, <2>4, <2>5 DEF TenureSound
<1> QED BY <1>2, <1>3, <1>4

\* A slot with no request and nothing written.
LEMMA TenureIdle ==
    ASSUME NEW t \in Slot, job'[t] = NoJob, \A r \in Row : own'[t][r] = Unwritten
    PROVE  TenureSound(t)' /\ NoPromotion(t)' /\ ~ Chosen(t)'
<1>1. /\ job'[t].op = "none"
      /\ \A i \in Invitation : own'[t][i] \notin InvitationRecord
      /\ \A u \in User, c \in Company : own'[t][<<u, c>>] \notin Role \cup {None}
  BY RowTypes, MarkersDistinct DEF NoJob, Membership
<1> QED BY <1>1 DEF TenureSound, Served, Parties, RoleWrites, Keeps, Withdraws, NoPromotion,
                    Chosen, Keepers, JoinOps

\* A locking read that has its snapshot, or its locks, keeps them.
LEMMA CompleteStatement ==
    ASSUME BelongInv, NEW t \in Slot, NEW need, NEW w, NEW j,
           Statement(t, need, w, j), Follows(t, j), Results(t, need, w, j),
           job[t].op \in Keepers \cup {"deleteAccount"}, NEW c \in Company,
           IF job[t].pc = "snapshotOwners"
           THEN IF job[t].op = "deleteAccount" THEN db[<<job[t].user, c>>] # None
                ELSE c = job[t].company
           ELSE Complete(t, c)
    PROVE  Complete(t, c)'
<1>1. /\ db' = db /\ job'[t] = j /\ \A r, m : Has(t, r, m) => Has(t, r, m)'
      /\ \A r, m : <<r, m>> \in need => Has(t, r, m)'
  BY StatementEffect DEF BelongInv
<1>2. JobSound(job[t]) /\ Untouched(t)
  BY Asked DEF BelongInv, Pending
<1>3. job[t].pc \in {"snapshotOwners", "lockOwners"} =>
         \A u \in User : Seen(t, <<u, c>>) = db[<<u, c>>]
  BY <1>2 DEF Untouched, MemberPhase, UserPhase, Seen, Membership
<1>4. CASE job[t].pc = "snapshotOwners"
  <2>1. j.pc = "lockOwners" /\ job[t].user \in User
    BY <1>2, <1>4 DEF Follows, JobSound, Keepers
  <2>2. \A u \in User : db[<<u, c>>] = "OWNER" => <<u, c>> \in j.owners
    BY <1>3, <1>4, <2>1 DEF Results, Keepers
  <2> QED BY <1>1, <2>1, <2>2 DEF Complete
<1>5. CASE job[t].pc = "lockOwners"
  <2>1. j.pc # "lockOwners"
    BY <1>5 DEF Follows, afterOwnerLock
  <2>2. ASSUME NEW u \in User, db[<<u, c>>] = "OWNER" PROVE Has(t, <<u, c>>, "UPDATE")'
    <3>1. <<u, c>> \in job[t].owners
      BY <1>5, <2>2 DEF Complete
    <3>2. Seen(t, <<u, c>>) # None
      BY <1>3, <1>5, <2>2, MarkersDistinct DEF Role
    <3> QED BY <1>1, <1>5, <3>1, <3>2 DEF Results
  <2> QED BY <1>1, <2>1, <2>2 DEF Complete
<1>6. CASE job[t].pc \notin {"snapshotOwners", "lockOwners"}
  <2>1. j.pc # "lockOwners"
    BY <1>1, <1>2, <1>6, Asked DEF Follows, JobSound, InFlow, Keepers, afterOrphans
  <2> QED BY <1>1, <1>6, <2>1 DEF Complete
<1> QED BY <1>4, <1>5, <1>6

\* A statement keeps the parties of its own transaction.
LEMMA PartiesStatement ==
    ASSUME BelongInv, NEW t \in Slot, TenureSound(t), NEW need, NEW w, NEW j,
           Statement(t, need, w, j), Writes(t, w), Follows(t, j), Results(t, need, w, j)
    PROVE  Parties(t)'
<1>1. db' = db /\ own'[t] = w /\ job'[t] = j
  BY StatementEffect DEF BelongInv
<1>2. JobSound(job[t]) /\ Parties(t)
  BY Asked DEF TenureSound
<1>3. j.op = job[t].op /\ j.actor = job[t].actor /\ j.company = job[t].company /\ j.role = job[t].role
  BY DEF Follows
<1>4. j.op = "transferOwnership" => j.actor # j.user
  BY <1>2, <1>3 DEF Follows, Parties, JobSound, InFlow
<1>5. j.op \in {"sweep", "deleteAccount"} => j.company = NoCompany
  BY <1>2, <1>3 DEF Parties
<1>6. j.op \in Keepers \cup {"deleteCompany"} => db[j.company] # None
  BY <1>2, <1>3 DEF Parties
<1>7. ASSUME j.op = "removeMember"
      PROVE  /\ j.leavers \subseteq {j.user}
             /\ j.pc \notin {"snapshotOwners", "lockOwners", "deleteMembership"} =>
                  w[<<j.user, j.company>>] = None
  <2>1. job[t].leavers \subseteq {job[t].user} /\ job[t].pc # "removeMemberships"
    BY <1>2, <1>3, <1>7 DEF Parties, JobSound, InFlow
  <2>2. j.user = job[t].user /\ j.leavers \subseteq {j.user}
    BY <2>1 DEF Follows
  <2>3. ASSUME j.pc \notin {"snapshotOwners", "lockOwners", "deleteMembership"}
        PROVE  w[<<j.user, j.company>>] = None
    <3>1. job[t].pc \in {"deleteMembership", "countOwners", "reassign", "orphan", "deleteUser"}
      BY <1>2, <1>3, <1>7, <2>3 DEF Follows, JobSound, InFlow, afterOwnerLock
    <3>2. CASE job[t].pc = "deleteMembership"
      BY <1>3, <2>2, <3>2 DEF Results
    <3>3. CASE job[t].pc \in {"countOwners", "reassign", "orphan", "deleteUser"}
      <4>1. own[t][<<job[t].user, job[t].company>>] = None
        BY <1>2, <1>3, <1>7, <3>3 DEF Parties
      <4>2. job[t].user \in User /\ job[t].company \in Company
        BY <1>2, <1>3, <1>7 DEF JobSound
      <4> QED BY <1>3, <2>2, <3>3, <4>1, <4>2 DEF Writes, Rewrites
    <3> QED BY <3>1, <3>2, <3>3
  <2> QED BY <2>2, <2>3
<1>8. ASSUME j.op = "deleteCompany", j.pc = "commit"
      PROVE  (IF w[j.company] = Unwritten THEN db[j.company] ELSE w[j.company]) # "ACTIVE"
  <2>1. PICK c \in Company : c = job[t].company
    BY <1>2, <1>3, <1>8 DEF JobSound
  <2>2. job[t].pc \in {"recheck", "softDelete"}
    BY <1>2, <1>3, <1>8 DEF Follows, JobSound, InFlow, afterOrphans, afterOwnerLock
  <2>3. CASE job[t].pc = "recheck"
    <3>1. Seen(t, c) = "DELETED" /\ w[c] = own[t][c]
      BY <1>8, <2>1, <2>3 DEF Results, Writes
    <3> QED BY <1>3, <2>1, <3>1 DEF Seen
  <2>4. CASE job[t].pc = "softDelete"
    <3>1. w[c] = IF Seen(t, c) = "ACTIVE" THEN "DELETED" ELSE own[t][c]
      BY <2>1, <2>4 DEF Results
    <3> QED BY <1>3, <2>1, <3>1, MarkersDistinct DEF Seen
  <2> QED BY <2>2, <2>3, <2>4
<1>9. ASSUME j.op \in {"createSignupCompany", "addCompany"}
      PROVE  /\ j.role = "OWNER"
             /\ j.pc \in {"setCurrent", "commit"} => w[<<j.user, j.company>>] = "OWNER"
  <2>1. job[t].role = "OWNER" /\ j.user = job[t].user /\ job[t].pc # "orphan"
    BY <1>2, <1>3, <1>9 DEF Parties, Follows, JobSound, InFlow
  <2>2. ASSUME j.pc \in {"setCurrent", "commit"} PROVE w[<<j.user, j.company>>] = "OWNER"
    <3>1. job[t].pc \in {"insertMembership", "setCurrent"}
      BY <1>2, <1>3, <1>9, <2>2 DEF Follows, JobSound, InFlow
    <3>2. CASE job[t].pc = "insertMembership"
      BY <1>3, <2>1, <3>2 DEF Results
    <3>3. CASE job[t].pc = "setCurrent"
      <4>1. own[t][<<job[t].user, job[t].company>>] = "OWNER"
        BY <1>2, <1>3, <1>9, <3>3 DEF Parties
      <4>2. job[t].user \in User /\ job[t].company \in Company
        BY <1>2, <1>3, <1>9 DEF JobSound
      <4> QED BY <1>3, <2>1, <3>3, <4>1, <4>2 DEF Writes, Rewrites
    <3> QED BY <3>1, <3>2, <3>3
  <2> QED BY <1>3, <2>1, <2>2
<1> QED BY <1>1, <1>4, <1>5, <1>6, <1>7, <1>8, <1>9 DEF Parties, Seen

\* A statement keeps to the memberships that its request may write.
LEMMA RoleWritesStatement ==
    ASSUME BelongInv, NEW t \in Slot, TenureSound(t), NEW need, NEW w, NEW j,
           Statement(t, need, w, j), Writes(t, w), Follows(t, j)
    PROVE  RoleWrites(t)'
<1>1. db' = db /\ own'[t] = w /\ job'[t] = j
  BY StatementEffect DEF BelongInv
<1>2. JobSound(job[t]) /\ RoleWrites(t)
  BY Asked DEF TenureSound
<1>3. /\ j.op = job[t].op /\ j.company = job[t].company /\ j.role = job[t].role
      /\ j.op = "deleteAccount" => j.user = job[t].user
  BY <1>2 DEF Follows, JobSound, InFlow
<1> SUFFICES ASSUME NEW u \in User, NEW c \in Company
             PROVE  /\ w[<<u, c>>] \in Role =>
                         /\ c = job[t].company
                         /\ \/ job[t].op \in {"changeRole", "transferOwnership"} /\ db[<<u, c>>] # None
                            \/ /\ job[t].op \in JoinOps /\ db[<<u, c>>] = None
                               /\ w[<<u, c>>] = job[t].role
                    /\ w[<<u, c>>] = None =>
                         /\ job[t].op \in {"removeMember", "deleteCompany", "deleteAccount", "sweep"}
                         /\ job[t].op = "deleteAccount" => u = job[t].user
  BY <1>1, <1>3 DEF RoleWrites
<1>4. CASE w[<<u, c>>] = own[t][<<u, c>>]
  BY <1>2, <1>4 DEF RoleWrites
<1>5. CASE w[<<u, c>>] # own[t][<<u, c>>]
  <2>1. Rewrites(t, u, c, w[<<u, c>>])
    BY <1>5 DEF Writes
  <2>2. CASE job[t].pc \in {"setRole", "promote", "demote"}
    <3>1. job[t].op \in {"changeRole", "transferOwnership"}
      BY <1>2, <2>2 DEF JobSound, InFlow
    <3>2. c = job[t].company /\ Seen(t, <<u, c>>) # None /\ w[<<u, c>>] # None
      BY <1>2, <2>1, <2>2, Asked, MarkersDistinct DEF Rewrites, Job, Role
    <3>3. db[<<u, c>>] # None
      <4>1. CASE own[t][<<u, c>>] = Unwritten
        BY <3>2, <4>1 DEF Seen
      <4>2. CASE own[t][<<u, c>>] # Unwritten
        <5>1. own[t][<<u, c>>] \in Role
          <6>1. <<u, c>> \in Membership /\ <<u, c>> \in Row /\ ValueOf(<<u, c>>) = MembershipValue
            BY RowTypes DEF Membership
          <6>2. own[t][<<u, c>>] \in MembershipValue
            BY <4>2, <6>1, Asked DEF WritesTyped
          <6> QED BY <3>2, <4>2, <6>2 DEF MembershipValue, Seen
        <5> QED BY <1>2, <3>1, <5>1 DEF RoleWrites, JoinOps
      <4> QED BY <4>1, <4>2
    <3> QED BY <3>1, <3>2, <3>3
  <2>3. CASE job[t].pc = "insertMembership"
    <3>1. job[t].op \in JoinOps
      BY <1>2, <2>3 DEF JobSound, InFlow, JoinOps
    <3>2. c = job[t].company /\ Seen(t, <<u, c>>) = None /\ w[<<u, c>>] = job[t].role
      BY <2>1, <2>3 DEF Rewrites
    <3>3. own[t][<<u, c>>] # None
      BY <1>2, <3>1 DEF RoleWrites, JoinOps
    <3>4. w[<<u, c>>] # None
      BY <3>2, Asked, MarkersDistinct DEF Job
    <3> QED BY <3>1, <3>2, <3>3, <3>4 DEF Seen
  <2>4. CASE job[t].pc \in {"deleteMembership", "removeMemberships", "deleteUser"}
    <3>1. w[<<u, c>>] = None /\ (job[t].pc = "deleteUser" => u = job[t].user)
      BY <2>1, <2>4 DEF Rewrites
    <3>2. job[t].op \in {"removeMember", "deleteCompany", "deleteAccount", "sweep"}
          /\ (job[t].op = "deleteAccount" => job[t].pc = "deleteUser")
      BY <1>2, <2>4 DEF JobSound, InFlow
    <3> QED BY <3>1, <3>2, MarkersDistinct DEF Role
  <2> QED BY <2>1, <2>2, <2>3, <2>4 DEF Rewrites
<1> QED BY <1>4, <1>5

\* Whoever has counted an owner still sees it, and it is not one he removes.
LEMMA KeepsStatement ==
    ASSUME BelongInv, NEW t \in Slot, TenureSound(t), NEW need, NEW w, NEW j,
           Statement(t, need, w, j), Writes(t, w), Follows(t, j), Results(t, need, w, j)
    PROVE  Keeps(t)'
<1>1. db' = db /\ own'[t] = w /\ job'[t] = j
  BY StatementEffect DEF BelongInv
<1>2. JobSound(job[t]) /\ Keeps(t) /\ Parties(t)
  BY Asked DEF TenureSound
<1>3. j.op = job[t].op /\ j.company = job[t].company
  BY DEF Follows
<1> SUFFICES ASSUME job[t].op \in Keepers, j.pc \in Counted, db[job[t].company] = "ACTIVE"
             PROVE  \E u \in User : Seen(t, <<u, job[t].company>>)' = "OWNER"
  BY <1>1, <1>3 DEF Keeps
<1>4. PICK c \in Company : c = job[t].company
  BY <1>2 DEF JobSound, Keepers
<1>5. job[t].pc \in {"countOwners", "reassign", "orphan", "deleteUser"}
  BY <1>2 DEF JobSound, InFlow, Follows, Keepers, Counted, afterOwnerLock
<1>6. PICK u \in User : Seen(t, <<u, c>>) = "OWNER"
  <2>1. CASE job[t].pc = "countOwners"
    BY <1>4, <2>1 DEF Results
  <2>2. CASE job[t].pc # "countOwners"
    BY <1>2, <1>4, <1>5, <2>2 DEF Keeps, Counted
  <2> QED BY <2>1, <2>2
<1>7. w[<<u, c>>] = own[t][<<u, c>>]
  <2> SUFFICES ASSUME job[t].pc = "deleteUser", u = job[t].user PROVE FALSE
    BY <1>5 DEF Writes, Rewrites
  <2>1. own[t][<<u, c>>] = None
    BY <1>2, <1>4 DEF Parties, JobSound, InFlow, Keepers
  <2> QED BY <1>6, <2>1, MarkersDistinct DEF Seen, Role
<1>8. Seen(t, <<u, c>>)' = "OWNER"
  BY <1>1, <1>6, <1>7 DEF Seen
<1> QED BY <1>1, <1>3, <1>4, <1>8

\* A withdrawal keeps the locks on the owners it relies on.
LEMMA WithdrawsStatement ==
    ASSUME BelongInv, BelongInv', NEW t \in Slot, TenureSound(t), NEW need, NEW w, NEW j,
           Statement(t, need, w, j), Writes(t, w), Follows(t, j), Results(t, need, w, j)
    PROVE  Withdraws(t)'
<1>1. /\ db' = db /\ own'[t] = w /\ job'[t] = j /\ \A r, m : Has(t, r, m) => Has(t, r, m)'
      /\ \A r, m : <<r, m>> \in need => Has(t, r, m)'
  BY StatementEffect DEF BelongInv
<1>2. /\ JobSound(job[t]) /\ Withdraws(t) /\ Parties(t) /\ Untouched(t) /\ Named(t)
      /\ Consistent(db) /\ WritesTyped(own[t])
  BY Asked DEF TenureSound, BelongInv, Pending
<1> SUFFICES ASSUME job[t].op = "deleteAccount" PROVE Withdraws(t)'
  BY <1>1 DEF Withdraws, Follows
<1>3. PICK v \in User : v = job[t].user
  BY <1>2 DEF JobSound
<1>4. /\ j.op = "deleteAccount" /\ j.user = v
      /\ job[t].pc \in {"snapshotOwners", "lockOwners", "advisory", "blocking", "deleteUser"}
      /\ job[t].pc = "snapshotOwners" => j.pc = "lockOwners"
      /\ job[t].pc = "lockOwners" => j.pc = "advisory"
      /\ job[t].pc = "advisory" => j.pc = "blocking"
      /\ job[t].pc = "blocking" => j.pc = "deleteUser"
      /\ job[t].pc = "deleteUser" => j.pc \in {"deleteUser", "commit"}
  <2>1. JobSound(j)
    BY <1>1 DEF BelongInv, IInv, Flow
  <2>2. /\ j.op = "deleteAccount" /\ job[t].pc # "commit"
        /\ j.pc \in {"snapshotOwners", "lockOwners", "advisory", "blocking", "deleteUser", "commit"}
        /\ job[t].pc \in {"snapshotOwners", "lockOwners", "advisory", "blocking", "deleteUser", "commit"}
    BY <1>2, <2>1 DEF Follows, JobSound, InFlow
  <2>3. afterOwnerLock(job[t].op) = "advisory"
    BY DEF afterOwnerLock
  <2>4. j.user = v
    BY <1>3, <2>2 DEF Follows
  <2> QED BY <2>2, <2>3, <2>4 DEF Follows
<1>5. j.pc \in {"blocking", "deleteUser", "commit"} => Has(t, v, "ADVISORY")'
  <2>1. CASE job[t].pc = "advisory"
    BY <1>1, <1>3, <2>1 DEF Results
  <2>2. CASE job[t].pc # "advisory"
    BY <1>1, <1>2, <1>3, <1>4, <2>2 DEF Withdraws
  <2> QED BY <2>1, <2>2
<1>6. ASSUME j.pc \in {"lockOwners", "advisory", "blocking"}, NEW c \in Company,
             db[<<v, c>>] = "OWNER"
      PROVE  \/ Complete(t, c)'
             \/ \A u \in User : db[<<u, c>>] = "OWNER" => u = v
  <2>1. CASE job[t].pc = "snapshotOwners"
    <3>1. db[<<job[t].user, c>>] # None
      BY <1>3, <1>6, MarkersDistinct DEF Role
    <3> QED BY <2>1, <3>1, CompleteStatement
  <2>2. CASE job[t].pc # "snapshotOwners"
    <3>1. \/ Complete(t, c)
          \/ \A u \in User : db[<<u, c>>] = "OWNER" => u = v
      BY <1>2, <1>3, <1>4, <1>6, <2>2 DEF Withdraws
    <3> QED BY <2>2, <3>1, CompleteStatement
  <2> QED BY <2>1, <2>2
<1>7. ASSUME j.pc \in {"deleteUser", "commit"}, NEW c \in Company,
             db[<<v, c>>] = "OWNER", db[c] = "ACTIVE"
      PROVE  \E u \in User : u # v /\ db[<<u, c>>] = "OWNER" /\ Has(t, <<u, c>>, "UPDATE")'
  <2>1. CASE job[t].pc = "deleteUser"
    BY <1>1, <1>2, <1>3, <1>7, <2>1 DEF Withdraws
  <2>2. CASE job[t].pc = "blocking"
    <3>1. \A u \in User : Seen(t, <<u, c>>) = db[<<u, c>>]
      BY <1>2, <2>2 DEF Untouched, MemberPhase, UserPhase, Seen, Membership
    <3>2. own[t][c] = Unwritten
      BY <1>2, MarkersDistinct DEF Named, Parties
    <3>3. Seen(t, c) = "ACTIVE"
      BY <1>7, <3>2 DEF Seen
    <3>4. PICK u \in User : u # v /\ db[<<u, c>>] = "OWNER"
      BY <1>3, <1>7, <2>2, <3>1, <3>3 DEF Results
    <3>5. Complete(t, c)
      BY <1>2, <1>3, <1>7, <2>2, <3>4 DEF Withdraws
    <3>6. Has(t, <<u, c>>, "UPDATE")
      BY <2>2, <3>4, <3>5 DEF Complete
    <3> QED BY <1>1, <3>4, <3>6
  <2> QED BY <1>4, <1>7, <2>1, <2>2
<1> QED BY <1>1, <1>4, <1>5, <1>6, <1>7 DEF Withdraws

\* After a statement of t.
LEMMA TenureStatement ==
    ASSUME TenureInv, BelongInv', NEW t \in Slot, NEW need, NEW w, NEW j,
           Statement(t, need, w, j), Writes(t, w), Follows(t, j), Results(t, need, w, j)
    PROVE  Owned(db)' /\ (\A s \in Slot : TenureSound(s)') /\ PairSound' /\ (Steady => SteadySound')
<1>1. /\ BelongInv /\ IInv /\ Owned(db) /\ PairSound
      /\ \A s \in Slot : TenureSound(s) /\ JobSound(job[s])
  BY Asked DEF TenureInv, BelongInv
<1>2. /\ db' = db /\ own'[t] = w /\ job'[t] = j
      /\ \A s \in Slot : s # t => own'[s] = own[s] /\ job'[s] = job[s]
      /\ \A s, r, m : Has(s, r, m) => Has(s, r, m)'
  BY <1>1, StatementEffect
<1>3. j.op = job[t].op /\ j.company = job[t].company /\ j.role = job[t].role
  BY DEF Follows
<1>4. \A s \in Slot : s # t => /\ TenureSound(s)' /\ (NoPromotion(s) => NoPromotion(s)')
                               /\ \A c \in Company : Complete(s, c) => Complete(s, c)'
  BY <1>1, <1>2, TenureKept
<1>5. TenureSound(t)'
  <2>1. Served(t)'
    BY <1>1, <1>2, <1>3 DEF TenureSound, Served
  <2> QED BY <1>1, <2>1, PartiesStatement, RoleWritesStatement, KeepsStatement,
             WithdrawsStatement DEF TenureSound
<1>6. \A s \in Slot : Chosen(s)' => job'[s].company \in Company /\ job'[s].company = job[s].company
  BY <1>1, <1>2, <1>3 DEF Chosen, Keepers, JobSound
<1>7. \A s \in Slot : Chosen(s)' =>
         \/ Chosen(s) /\ (Complete(s, job[s].company) => Complete(s, job[s].company)')
         \/ Complete(s, job[s].company)'
  <2> SUFFICES ASSUME NEW s \in Slot, Chosen(s)'
               PROVE  \/ Chosen(s) /\ (Complete(s, job[s].company) => Complete(s, job[s].company)')
                      \/ Complete(s, job[s].company)'
    OBVIOUS
  <2>1. PICK c \in Company : c = job[s].company /\ c = job'[s].company
    BY <1>6
  <2>2. CASE s # t
    <3>1. Chosen(s)
      BY <1>2, <2>2 DEF Chosen
    <3>2. Complete(s, c) => Complete(s, c)'
      BY <1>4, <2>2
    <3> QED BY <2>1, <3>1, <3>2
  <2>3. CASE s = t
    <3>1. job[t].op \in Keepers /\ job[t].op # "deleteAccount"
      BY <1>2, <1>3, <2>3 DEF Chosen, Keepers
    <3>2. CASE job[t].pc = "snapshotOwners"
      <4>1. Complete(t, c)'
        BY <1>1, <2>1, <2>3, <3>1, <3>2, CompleteStatement
      <4> QED BY <2>1, <2>3, <4>1
    <3>3. CASE job[t].pc # "snapshotOwners"
      <4>1. Chosen(t)
        BY <3>1, <3>3 DEF Chosen
      <4>2. Complete(t, c) => Complete(t, c)'
        BY <1>1, <3>1, <3>3, CompleteStatement
      <4> QED BY <2>1, <2>3, <4>1, <4>2
    <3> QED BY <3>2, <3>3
  <2> QED BY <2>2, <2>3
<1>8. PairSound'
  <2> SUFFICES ASSUME NEW r \in Slot, NEW s \in Slot, r # s, Chosen(r)', Chosen(s)',
                      job'[r].company = job'[s].company
               PROVE  Complete(r, job[s].company)' \/ Complete(s, job[s].company)'
    BY <1>6 DEF PairSound
  <2>1. job[r].company = job[s].company
    BY <1>6
  <2>2. CASE Chosen(r) /\ Chosen(s)
    <3>1. Complete(r, job[s].company) \/ Complete(s, job[s].company)
      BY <1>1, <2>1, <2>2 DEF PairSound
    <3> QED BY <1>7, <2>1, <3>1
  <2> QED BY <1>7, <2>1, <2>2
<1>9. ASSUME Steady PROVE SteadySound'
  <2>1. SteadySound
    BY <1>9 DEF TenureInv
  <2>2. NoPromotion(t)'
    <3> SUFFICES ASSUME NEW i \in Invitation, w[i] \in InvitationRecord PROVE w[i].role # "OWNER"
      BY <1>2, <1>3, <2>1 DEF NoPromotion, SteadySound
    <3>1. job[t].pc # "insertInvitation"
      BY <1>1, <1>9 DEF Steady, TenureSound, Served, JobSound, InFlow
    <3>2. CASE w[i] = own[t][i]
      BY <2>1, <3>2 DEF SteadySound, NoPromotion
    <3>3. CASE w[i] # own[t][i]
      <4>1. Seen(t, i) \in InvitationRecord /\ w[i].role = Seen(t, i).role
        <5>1. w[i] # Gone
          BY MarkersDistinct
        <5>2. PICK x \in {"ACCEPTED", "REVOKED"} : /\ w[i] = [Seen(t, i) EXCEPT !.status = x]
                                                   /\ Seen(t, i) \in InvitationRecord
          BY <3>1, <3>3, <5>1 DEF Writes
        <5> QED BY <5>2 DEF InvitationRecord
      <4>2. CASE own[t][i] = Unwritten
        <5>1. IsRow(db, i)
          BY <4>1, <4>2, MarkersDistinct DEF Seen, IsRow
        <5> QED BY <2>1, <4>1, <4>2, <5>1 DEF Seen, SteadySound
      <4>3. CASE own[t][i] # Unwritten
        BY <2>1, <4>1, <4>3 DEF Seen, SteadySound, NoPromotion
      <4> QED BY <4>2, <4>3
    <3> QED BY <3>2, <3>3
  <2>3. \A s \in Slot : NoPromotion(s)'
    BY <1>4, <2>1, <2>2 DEF SteadySound
  <2>4. ASSUME NEW s \in Slot, Chosen(s)' PROVE Complete(s, job[s].company)'
    BY <1>7, <2>1, <2>4 DEF SteadySound
  <2>5. \A i \in Invitation : IsRow(db', i) => db'[i].role # "OWNER"
    BY <1>2, <2>1 DEF SteadySound, IsRow
  <2> QED BY <2>3, <2>4, <2>5 DEF SteadySound, IsRow
<1> QED BY <1>1, <1>2, <1>4, <1>5, <1>8, <1>9 DEF Owned

-----------------------------------------------------------------------------
(* Companies in use keep an owner: commits.                                *)

\* Who writes the membership of somebody who belongs to a company that stays
\* in use: a request that keeps an owner there, or a withdrawal.
LEMMA MembersWritten ==
    ASSUME BelongInv, NEW t \in Slot, TenureSound(t), Commit(t), NEW u \in User, NEW c \in Company,
           db[<<u, c>>] # None, own[t][<<u, c>>] # Unwritten, db'[c] = "ACTIVE"
    PROVE  /\ db[c] = "ACTIVE"
           /\ \/ job[t].op \in Keepers /\ job[t].company = c
              \/ job[t].op = "deleteAccount" /\ u = job[t].user /\ own[t][<<u, c>>] = None
<1>1. /\ RoleWrites(t) /\ Parties(t) /\ Left(t) /\ Deleted(t) /\ Consistent(db)
  BY DEF TenureSound, BelongInv, Pending
<1>2. job[t].pc = "commit" /\ db'[c] = Seen(t, c) /\ own[t][<<u, c>>] \in Role \cup {None}
  BY Published, RowTypes
<1>3. db[c] = "ACTIVE"
  BY <1>1, CommitForward DEF Consistent, IsMember
<1>4. CASE own[t][<<u, c>>] \in Role
  BY <1>1, <1>3, <1>4 DEF RoleWrites, Keepers, JoinOps
<1>5. CASE own[t][<<u, c>>] = None /\ job[t].op = "deleteAccount"
  BY <1>1, <1>3, <1>5 DEF RoleWrites
<1>6. CASE own[t][<<u, c>>] = None /\ job[t].op # "deleteAccount"
  <2>1. job[t].op \in {"removeMember", "deleteCompany", "sweep"}
    BY <1>1, <1>6 DEF RoleWrites
  <2>2. c = job[t].company
    BY <1>1, <1>3, <1>6 DEF Left, Deleted
  <2>3. job[t].op # "sweep"
    BY <1>1, <2>2, MarkersDistinct DEF Parties
  <2>4. job[t].op # "deleteCompany"
    BY <1>1, <1>2, <2>2 DEF Parties
  <2> QED BY <1>3, <2>1, <2>2, <2>3, <2>4 DEF Keepers
<1> QED BY <1>2, <1>4, <1>5, <1>6

\* What t commits leaves every company in use with an owner.
LEMMA OwnedCommit ==
    ASSUME BelongInv, Owned(db), NEW t \in Slot, TenureSound(t), Commit(t)
    PROVE  Owned(db')
<1>1. /\ RoleWrites(t) /\ Parties(t) /\ Keeps(t) /\ Withdraws(t) /\ CompanyWrites
      /\ JobSound(job[t])
  BY Asked DEF TenureSound, BelongInv, IInv
<1>2. /\ job[t].pc = "commit" /\ \A r \in Row : db'[r] = Seen(t, r)
      /\ \A u \in User, c \in Company : own[t][<<u, c>>] \in Role \cup {Unwritten, None}
  BY Published
<1> SUFFICES ASSUME NEW c \in Company, db'[c] = "ACTIVE"
             PROVE  \E u \in User : db'[<<u, c>>] = "OWNER"
  BY DEF Owned
<1>3. \A u \in User : db'[<<u, c>>] = Seen(t, <<u, c>>)
  BY <1>2, RowTypes DEF Membership
<1>4. CASE db[c] # "ACTIVE"
  <2>1. db[c] = None
    BY <1>4, CommitForward
  <2>2. own[t][c] # Unwritten
    BY <1>2, <2>1, MarkersDistinct, RowTypes DEF Seen
  <2>3. job[t].op \in {"createSignupCompany", "addCompany"} /\ job[t].company = c
    BY <1>1, <1>4, <2>2 DEF CompanyWrites, Creates
  <2>4. own[t][<<job[t].user, c>>] = "OWNER" /\ job[t].user \in User
    BY <1>1, <1>2, <2>3 DEF Parties, JobSound
  <2> QED BY <1>3, <2>4, MarkersDistinct DEF Seen, Role
<1>5. CASE db[c] = "ACTIVE"
  <2>1. PICK v \in User : db[<<v, c>>] = "OWNER"
    BY <1>5 DEF Owned
  <2>2. CASE own[t][<<v, c>>] = Unwritten
    BY <1>3, <2>1, <2>2 DEF Seen
  <2>3. CASE own[t][<<v, c>>] # Unwritten
    <3>0. db[<<v, c>>] # None
      BY <2>1, MarkersDistinct DEF Role
    <3>1. \/ job[t].op \in Keepers /\ job[t].company = c
          \/ job[t].op = "deleteAccount" /\ v = job[t].user
      BY <2>3, <3>0, MembersWritten
    <3>2. CASE job[t].op \in Keepers /\ job[t].company = c
      <4>1. \E u \in User : Seen(t, <<u, c>>) = "OWNER"
        BY <1>1, <1>2, <1>5, <3>2 DEF Keeps, Counted
      <4> QED BY <1>3, <4>1
    <3>3. CASE job[t].op = "deleteAccount" /\ v = job[t].user
      <4>1. PICK u \in User : u # job[t].user /\ db[<<u, c>>] = "OWNER"
        BY <1>1, <1>2, <1>5, <2>1, <3>3 DEF Withdraws
      <4>2. own[t][<<u, c>>] = Unwritten
        BY <1>1, <1>2, <3>3, <4>1 DEF RoleWrites, JoinOps
      <4> QED BY <1>3, <4>1, <4>2 DEF Seen
    <3> QED BY <3>1, <3>2, <3>3
  <2> QED BY <2>2, <2>3
<1> QED BY <1>4, <1>5

\* Where nobody is promoted, only a company that is being founded gets an owner.
LEMMA NoNewOwner ==
    ASSUME BelongInv, Steady, SteadySound, NEW t \in Slot, TenureSound(t), Commit(t),
           NEW u \in User, NEW c \in Company, db'[<<u, c>>] = "OWNER", db[<<u, c>>] # "OWNER"
    PROVE  /\ db[c] = None /\ job[t].op \in {"createSignupCompany", "addCompany"}
           /\ u = job[t].user /\ Has(t, u, "ADVISORY")
<1>1. /\ RoleWrites(t) /\ Served(t) /\ NoPromotion(t) /\ Alone(t)
  BY DEF TenureSound, SteadySound, BelongInv, Pending
<1>2. job[t].pc = "commit" /\ own[t][<<u, c>>] = "OWNER"
  <2>1. db'[<<u, c>>] = Seen(t, <<u, c>>)
    BY Published, RowTypes DEF Membership
  <2> QED BY <2>1, Published DEF Seen
<1>3. "OWNER" \in Role
  BY DEF Role
<1>4. job[t].op \in JoinOps /\ db[<<u, c>>] = None /\ job[t].role = "OWNER"
  BY <1>1, <1>2, <1>3 DEF RoleWrites, Served, Steady
<1>5. job[t].op # "acceptInvitation"
  BY <1>1, <1>4 DEF NoPromotion
<1>6. /\ job[t].user = u /\ db[c] = None
      /\ job[t].op \in {"createSignupCompany", "addCompany"}
  BY <1>2, <1>3, <1>4, <1>5, JoinsBy
<1>7. Has(t, u, "ADVISORY")
  BY <1>1, <1>2, <1>4, <1>6 DEF Alone
<1> QED BY <1>6, <1>7

\* A request that has counted an owner still sees one after the commit of
\* another: one of the two had locked all of them.
LEMMA KeepsCommit ==
    ASSUME TenureInv, Steady \/ Paired, NEW t \in Slot, Commit(t), NEW s \in Slot, s # t
    PROVE  Keeps(s)'
<1>1. /\ BelongInv /\ IInv /\ PairSound /\ TenureSound(s) /\ TenureSound(t) /\ JobSound(job[s])
      /\ Steady => SteadySound
  BY Asked DEF TenureInv, BelongInv
<1>2. /\ own'[s] = own[s] /\ job'[s] = job[s]
      /\ \A r \in Row : own[s][r] # Unwritten => db'[r] = db[r]
      /\ \A r \in Row : Has(s, r, "UPDATE") => db'[r] = db[r]
      /\ \A c \in Company : db[c] # None /\ db'[c] = "ACTIVE" => db[c] = "ACTIVE"
  BY <1>1, CommitBounds, CommitForward
<1> SUFFICES ASSUME job[s].op \in Keepers, job[s].pc \in Counted, db'[job[s].company] = "ACTIVE"
             PROVE  \E u \in User : Seen(s, <<u, job[s].company>>)' = "OWNER"
  BY <1>2 DEF Keeps
<1>3. PICK c \in Company : c = job[s].company /\ c = job'[s].company
  BY <1>1, <1>2 DEF JobSound, Keepers
<1>4. db[c] = "ACTIVE" /\ Chosen(s) /\ job[s].pc # "lockOwners"
  BY <1>1, <1>2, <1>3 DEF TenureSound, Parties, Chosen, Counted
<1>5. PICK u \in User : Seen(s, <<u, c>>) = "OWNER"
  BY <1>1, <1>3, <1>4 DEF TenureSound, Keeps
<1>6. \A x \in User : /\ Seen(s, <<x, c>>)' = IF own[s][<<x, c>>] = Unwritten THEN db'[<<x, c>>]
                                              ELSE own[s][<<x, c>>]
                      /\ <<x, c>> \in Row /\ <<x, c>> \in Membership
  BY <1>2, RowTypes DEF Seen, Membership
<1>7. CASE own[s][<<u, c>>] # Unwritten \/ db'[<<u, c>>] = db[<<u, c>>]
  <2>1. Seen(s, <<u, c>>)' = "OWNER"
    BY <1>5, <1>6, <1>7 DEF Seen
  <2> QED BY <1>3, <2>1
<1>8. CASE own[s][<<u, c>>] = Unwritten /\ db'[<<u, c>>] # db[<<u, c>>]
  <2>1. db[<<u, c>>] = "OWNER" /\ ~ Has(s, <<u, c>>, "UPDATE")
    BY <1>2, <1>5, <1>6, <1>8 DEF Seen
  <2>2. ~ Complete(s, c)
    BY <1>4, <2>1 DEF Complete
  <2>3. own[t][<<u, c>>] # Unwritten /\ db[<<u, c>>] # None
    <3>1. db'[<<u, c>>] = Seen(t, <<u, c>>)
      BY <1>1, <1>6, Published
    <3> QED BY <1>8, <2>1, <3>1, MarkersDistinct DEF Seen, Role
  <2>4. db'[c] = "ACTIVE"
    BY <1>3
  <2>5. job[t].op \in Keepers /\ job[t].company = c
    <3>1. CASE Paired
      BY <1>1, <2>3, <2>4, <3>1, MembersWritten DEF TenureSound, Served, Paired
    <3>2. CASE Steady
      BY <1>1, <1>3, <1>4, <2>2, <3>2 DEF SteadySound
    <3> QED BY <3>1, <3>2
  <2>6. job[t].pc = "commit"
    BY DEF Commit, At
  <2>7. Complete(t, c)
    BY <1>1, <1>3, <1>4, <2>2, <2>5, <2>6 DEF PairSound, Chosen
  <2>8. PICK x \in User : Seen(t, <<x, c>>) = "OWNER"
    BY <1>1, <1>4, <2>5, <2>6 DEF TenureSound, Keeps, Counted
  <2>9. \E m \in Exclusive : Has(t, <<x, c>>, m)
    <3>1. CASE own[t][<<x, c>>] = Unwritten
      BY <2>6, <2>7, <2>8, <3>1 DEF Seen, Complete, Exclusive
    <3>2. CASE own[t][<<x, c>>] # Unwritten
      BY <1>1, <1>6, <3>2 DEF IInv, WritesLocked, Has
    <3> QED BY <3>1, <3>2
  <2>10. own[s][<<x, c>>] = Unwritten
    <3> SUFFICES ASSUME own[s][<<x, c>>] # Unwritten PROVE FALSE
      OBVIOUS
    <3>1. PICK m \in Exclusive : <<t, <<x, c>>, m>> \in held
      BY <2>9 DEF Has
    <3>2. PICK n \in Exclusive : <<s, <<x, c>>, n>> \in held
      BY <1>1, <1>6 DEF IInv, WritesLocked
    <3> QED BY <1>1, <1>6, <3>1, <3>2 DEF IInv, LocksExclude
  <2>11. db'[<<x, c>>] = "OWNER"
    BY <1>1, <1>6, <2>8, Published
  <2>12. Seen(s, <<x, c>>)' = "OWNER"
    BY <1>6, <2>10, <2>11
  <2> QED BY <1>3, <2>12
<1> QED BY <1>7, <1>8

\* A withdrawal still leaves an owner behind after the commit of another:
\* nobody founds a company for the user meanwhile, and the owner it counts on
\* is locked.
LEMMA WithdrawsCommit ==
    ASSUME TenureInv, Steady \/ Paired, NEW t \in Slot, Commit(t), NEW s \in Slot, s # t
    PROVE  Withdraws(s)'
<1>1. /\ BelongInv /\ IInv /\ Compatible /\ Consistent(db) /\ TenureSound(s) /\ TenureSound(t)
      /\ JobSound(job[s]) /\ (Steady => SteadySound)
  BY Asked DEF TenureInv, BelongInv
<1>2. /\ own'[s] = own[s] /\ job'[s] = job[s]
      /\ \A r, m : Has(s, r, m) => Has(s, r, m)'
      /\ \A r \in Row : Has(s, r, "UPDATE") => db'[r] = db[r]
      /\ \A c \in Company : db[c] # None /\ db'[c] = "ACTIVE" => db[c] = "ACTIVE"
  BY <1>1, CommitBounds, CommitForward
<1> SUFFICES ASSUME job[s].op = "deleteAccount" PROVE Withdraws(s)'
  BY <1>2 DEF Withdraws
<1>3. Steady /\ SteadySound /\ Withdraws(s)
  BY <1>1 DEF TenureSound, Served, Paired
<1>4. PICK v \in User : v = job[s].user /\ v = job'[s].user
  BY <1>1, <1>2 DEF JobSound
<1>5. \A u \in User, c \in Company :
         /\ db[<<u, c>>] = "OWNER" => db[c] # None
         /\ db'[<<u, c>>] = "OWNER" /\ db[<<u, c>>] # "OWNER" =>
              db[c] = None /\ u = job[t].user /\ Has(t, u, "ADVISORY")
  BY <1>1, <1>3, NoNewOwner, MarkersDistinct DEF Consistent, IsMember, Role
<1>6. job[s].pc \in {"blocking", "deleteUser", "commit"} => Has(s, v, "ADVISORY")'
  BY <1>2, <1>3, <1>4 DEF Withdraws
<1>7. ASSUME job[s].pc \in {"lockOwners", "advisory", "blocking"},
             NEW c \in Company, db'[<<v, c>>] = "OWNER"
      PROVE  \/ Complete(s, c)'
             \/ \A u \in User : db'[<<u, c>>] = "OWNER" => u = v
  <2>1. CASE db[<<v, c>>] # "OWNER"
    <3>1. db[c] = None /\ v = job[t].user
      BY <1>5, <1>7, <2>1
    <3> QED BY <1>5, <3>1
  <2>2. CASE db[<<v, c>>] = "OWNER"
    <3>1. \A u \in User : db'[<<u, c>>] = "OWNER" => db[<<u, c>>] = "OWNER"
      BY <1>5, <2>2
    <3>2. \/ Complete(s, c)
          \/ \A u \in User : db[<<u, c>>] = "OWNER" => u = v
      BY <1>3, <1>4, <1>7, <2>2 DEF Withdraws
    <3>3. Complete(s, c) => Complete(s, c)'
      BY <1>2, <3>1 DEF Complete
    <3> QED BY <3>1, <3>2, <3>3
  <2> QED BY <2>1, <2>2
<1>8. ASSUME job[s].pc \in {"deleteUser", "commit"},
             NEW c \in Company, db'[<<v, c>>] = "OWNER", db'[c] = "ACTIVE"
      PROVE  \E u \in User : /\ u # v /\ db'[<<u, c>>] = "OWNER"
                             /\ Has(s, <<u, c>>, "UPDATE")'
  <2>1. CASE db[<<v, c>>] # "OWNER"
    <3>1. Has(t, v, "ADVISORY") /\ Has(s, v, "ADVISORY")
      BY <1>3, <1>4, <1>5, <1>8, <2>1 DEF Withdraws
    <3>2. "ADVISORY" \in ConflictsWith("ADVISORY") /\ "ADVISORY" \in Mode /\ v \in Row
      BY RowTypes DEF ConflictsWith, Mode
    <3> QED BY <1>1, <3>1, <3>2 DEF Compatible
  <2>2. CASE db[<<v, c>>] = "OWNER"
    <3>1. db[c] = "ACTIVE"
      BY <1>2, <1>5, <1>8, <2>2
    <3>2. PICK u \in User : u # v /\ db[<<u, c>>] = "OWNER" /\ Has(s, <<u, c>>, "UPDATE")
      BY <1>3, <1>4, <1>8, <2>2, <3>1 DEF Withdraws
    <3>3. db'[<<u, c>>] = db[<<u, c>>]
      BY <1>2, <3>2, RowTypes DEF Membership
    <3> QED BY <1>2, <3>2, <3>3
  <2> QED BY <2>1, <2>2
<1> QED BY <1>2, <1>4, <1>6, <1>7, <1>8 DEF Withdraws

\* After a commit of t.
LEMMA TenureCommit ==
    ASSUME TenureInv, Steady \/ Paired, NEW t \in Slot, Commit(t)
    PROVE  Owned(db') /\ (\A s \in Slot : TenureSound(s)') /\ PairSound' /\ (Steady => SteadySound')
<1>1. /\ BelongInv /\ Owned(db) /\ (Steady => SteadySound)
      /\ \A s \in Slot : TenureSound(s) /\ JobSound(job[s])
  BY Asked DEF TenureInv, BelongInv
<1>2. \A s \in Slot : s # t =>
         /\ own'[s] = own[s] /\ job'[s] = job[s]
         /\ \A r, m : Has(s, r, m) => Has(s, r, m)'
         /\ \A r \in Row : own[s][r] # Unwritten => db'[r] = db[r]
  BY <1>1, CommitBounds
<1>3. /\ \A c \in Company : db[c] # None => db'[c] # None
      /\ \A c \in Company : db[c] # None /\ db'[c] = "ACTIVE" => db[c] = "ACTIVE"
  BY <1>1, CommitForward
<1>4. TenureSound(t)' /\ NoPromotion(t)' /\ ~ Chosen(t)'
  BY <1>1, Published, TenureIdle
<1>5. ASSUME NEW s \in Slot, s # t PROVE TenureSound(s)'
  <2>1. Served(s)' /\ Keeps(s)' /\ Withdraws(s)'
    BY <1>1, <1>2, <1>5, KeepsCommit, WithdrawsCommit DEF TenureSound, Served
  <2>2. RoleWrites(s)'
    <3>1. job'[s] = job[s] /\ own'[s] = own[s] /\ RoleWrites(s)
      BY <1>1, <1>2, <1>5 DEF TenureSound
    <3>2. \A u \in User, c \in Company :
             own[s][<<u, c>>] \in Role => db'[<<u, c>>] = db[<<u, c>>]
      BY <1>2, <1>5, MarkersDistinct, RowTypes DEF Membership
    <3> QED BY <3>1, <3>2 DEF RoleWrites
  <2>3. Parties(s)'
    <3>1. job'[s] = job[s] /\ own'[s] = own[s] /\ Parties(s)
      BY <1>1, <1>2, <1>5 DEF TenureSound
    <3>2. job[s].op \in Keepers \cup {"deleteCompany"} => db'[job[s].company] # None
      <4>1. job[s].op \in Keepers \cup {"deleteCompany"} =>
              job[s].company \in Company /\ db[job[s].company] # None
        BY <1>1, <3>1 DEF Parties, JobSound, Keepers
      <4> QED BY <1>3, <4>1
    <3>3. ASSUME job[s].op = "deleteCompany", job[s].pc = "commit"
          PROVE  (IF own[s][job[s].company] = Unwritten THEN db'[job[s].company]
                  ELSE own[s][job[s].company]) # "ACTIVE"
      <4>1. PICK c \in Company : c = job[s].company
        BY <1>1, <3>3 DEF JobSound
      <4>2. db[c] # None /\ Seen(s, c) # "ACTIVE"
        BY <3>1, <3>3, <4>1 DEF Parties
      <4> QED BY <1>3, <4>1, <4>2 DEF Seen
    <3> QED BY <3>1, <3>2, <3>3 DEF Parties, Seen
  <2> QED BY <2>1, <2>2, <2>3 DEF TenureSound
<1>6. ASSUME Steady PROVE SteadySound'
  <2>1. SteadySound
    BY <1>1, <1>6
  <2>2. \A s \in Slot : NoPromotion(s)'
    BY <1>2, <1>4, <2>1 DEF SteadySound, NoPromotion
  <2>3. ASSUME NEW i \in Invitation, IsRow(db', i) PROVE db'[i].role # "OWNER"
    <3>1. db'[i] = Seen(t, i) /\ own[t][i] \in InvitationRecord \cup {Unwritten, None, Gone}
      BY <1>1, Published, RowTypes
    <3>2. CASE own[t][i] = Unwritten
      BY <2>1, <2>3, <3>1, <3>2 DEF Seen, SteadySound, IsRow
    <3>3. CASE own[t][i] # Unwritten
      BY <2>1, <2>3, <3>1, <3>3 DEF Seen, SteadySound, NoPromotion, IsRow
    <3> QED BY <3>2, <3>3
  <2>4. ASSUME NEW s \in Slot, Chosen(s)' PROVE Complete(s, job[s].company)'
    <3>1. s # t /\ job'[s] = job[s]
      BY <1>2, <1>4, <2>4
    <3>2. Chosen(s) /\ Parties(s)
      BY <1>1, <2>4, <3>1 DEF Chosen, TenureSound
    <3>3. PICK c \in Company : c = job[s].company /\ c = job'[s].company
      BY <1>1, <3>1, <3>2 DEF Chosen, Keepers, JobSound
    <3>4. db[c] # None /\ Complete(s, c)
      BY <2>1, <3>2, <3>3 DEF Parties, Chosen, SteadySound
    <3>5. \A u \in User : db'[<<u, c>>] = "OWNER" => db[<<u, c>>] = "OWNER"
      BY <1>1, <1>6, <2>1, <3>4, NoNewOwner
    <3>6. Complete(s, c)'
      BY <1>2, <3>1, <3>4, <3>5 DEF Complete
    <3> QED BY <3>3, <3>6
  <2> QED BY <2>2, <2>3, <2>4 DEF SteadySound, IsRow
<1>7. PairSound'
  <2> SUFFICES ASSUME NEW r \in Slot, NEW s \in Slot, r # s, Chosen(r)', Chosen(s)',
                      job'[r].company = job'[s].company
               PROVE  Complete(r, job[s].company)' \/ Complete(s, job[s].company)'
    BY DEF PairSound
  <2>1. r # t /\ s # t
    BY <1>4
  <2>2. Steady
    BY <2>1 DEF Paired
  <2>3. SteadySound'
    BY <1>6, <2>2
  <2> QED BY <2>3 DEF SteadySound
<1>8. Owned(db')
  BY <1>1, OwnedCommit
<1> QED BY <1>4, <1>5, <1>6, <1>7, <1>8

-----------------------------------------------------------------------------
(* Companies in use keep an owner: every step.                             *)

\* Where only rows of users change, and only the request of t, with nothing
\* chosen yet, the invariant stays with what it says of t.
LEMMA TenureElsewhere ==
    ASSUME TenureInv, NEW t \in Slot, \A r \in Row : r \notin User => db'[r] = db[r],
           \A s \in Slot : s # t =>
                /\ own'[s] = own[s] /\ job'[s] = job[s]
                /\ \A r, m : Has(s, r, m) => Has(s, r, m)',
           TenureSound(t)', ~ Chosen(t)', Steady => NoPromotion(t)'
    PROVE  Owned(db') /\ (\A s \in Slot : TenureSound(s)') /\ PairSound' /\ (Steady => SteadySound')
<1>1. /\ BelongInv /\ Owned(db) /\ PairSound /\ (Steady => SteadySound)
      /\ \A s \in Slot : TenureSound(s) /\ JobSound(job[s])
  BY Asked DEF TenureInv, BelongInv
<1>2. /\ \A c \in Company : db'[c] = db[c]
      /\ \A i \in Invitation : db'[i] = db[i]
      /\ \A u \in User, c \in Company : db'[<<u, c>>] = db[<<u, c>>]
  BY RowTypes, RowTables DEF Membership
<1>3. \A s \in Slot : s # t => /\ TenureSound(s)' /\ (NoPromotion(s) => NoPromotion(s)')
                               /\ \A c \in Company : Complete(s, c) => Complete(s, c)'
  BY <1>1, TenureKept
<1>4. \A s \in Slot : Chosen(s)' =>
         s # t /\ Chosen(s) /\ job'[s].company = job[s].company /\ job[s].company \in Company
  BY <1>1 DEF Chosen, Keepers, JobSound
<1>5. PairSound'
  <2> SUFFICES ASSUME NEW r \in Slot, NEW s \in Slot, r # s, Chosen(r)', Chosen(s)',
                      job'[r].company = job'[s].company
               PROVE  Complete(r, job[s].company)' \/ Complete(s, job[s].company)'
    BY <1>4 DEF PairSound
  <2>1. PICK c \in Company : c = job[s].company /\ c = job'[s].company
    BY <1>4
  <2>2. Complete(r, c) \/ Complete(s, c)
    BY <1>1, <1>4, <2>1 DEF PairSound
  <2>3. Complete(r, c)' \/ Complete(s, c)'
    BY <1>3, <1>4, <2>2
  <2> QED BY <2>1, <2>3
<1>6. ASSUME Steady PROVE SteadySound'
  <2>1. \A s \in Slot : NoPromotion(s)'
    BY <1>1, <1>3, <1>6 DEF SteadySound
  <2>2. ASSUME NEW s \in Slot, Chosen(s)' PROVE Complete(s, job[s].company)'
    <3>1. PICK c \in Company : c = job[s].company /\ c = job'[s].company
      BY <1>4, <2>2
    <3>2. Complete(s, c)'
      BY <1>1, <1>3, <1>4, <1>6, <2>2, <3>1 DEF SteadySound
    <3> QED BY <3>1, <3>2
  <2> QED BY <1>1, <1>2, <1>6, <2>1, <2>2 DEF SteadySound, IsRow
<1>7. Owned(db')
  BY <1>1, <1>2 DEF Owned
<1> QED BY <1>3, <1>5, <1>6, <1>7

\* A request that is granted has chosen nobody, and written nothing.
LEMMA TenureGrant ==
    ASSUME TenureInv, BelongInv', NEW t \in Slot, NEW j, Grant(t, j), Begins(j)
    PROVE  Owned(db') /\ (\A s \in Slot : TenureSound(s)') /\ PairSound' /\ (Steady => SteadySound')
<1>1. BelongInv /\ TenureSound(t) /\ (Steady => SteadySound) /\ IInv
  BY DEF TenureInv, BelongInv
<1>2. /\ db' = db /\ own' = own /\ held' = held /\ j.op \in Ops /\ job[t] = NoJob
      /\ job'[t] = j /\ \A s \in Slot : s # t => job'[s] = job[s]
  BY <1>1 DEF Grant, IInv, TypeOK
<1>3. JobSound(j)
  BY <1>2 DEF BelongInv, IInv, Flow
<1>4. \A u \in User, c \in Company : own[t][<<u, c>>] \notin Role \cup {None}
  <2>1. job[t].op = "none" /\ RoleWrites(t)
    BY <1>1, <1>2 DEF NoJob, TenureSound
  <2> QED BY <2>1 DEF RoleWrites, JoinOps
<1>5. Served(t)' /\ RoleWrites(t)'
  BY <1>2, <1>4 DEF Served, RoleWrites
<1>6. Parties(t)'
  BY <1>2 DEF Begins, Parties, Keepers
<1>7. Keeps(t)' /\ Withdraws(t)' /\ ~ Chosen(t)'
  BY <1>2 DEF Begins, Keeps, Withdraws, Chosen, Keepers, Counted
<1>8. ASSUME Steady PROVE NoPromotion(t)'
  <2>1. SteadySound
    BY <1>1, <1>8
  <2>2. j.op = "acceptInvitation" => j.role # "OWNER"
    BY <1>3, <2>1 DEF Begins, SteadySound, JobSound
  <2> QED BY <1>2, <2>1, <2>2 DEF SteadySound, NoPromotion
<1>9. TenureSound(t)'
  BY <1>5, <1>6, <1>7 DEF TenureSound
<1> QED BY <1>2, <1>7, <1>8, <1>9, TenureElsewhere DEF Has

LEMMA TenureStep == (Steady \/ Paired) /\ TenureInv /\ [Next]_vars => TenureInv'
<1> SUFFICES ASSUME Steady \/ Paired, TenureInv, [Next]_vars PROVE TenureInv'
  OBVIOUS
<1> DEFINE Kept == Owned(db') /\ (\A s \in Slot : TenureSound(s)') /\ PairSound' /\ (Steady => SteadySound')
<1>1. /\ BelongInv /\ IInv /\ PairSound /\ (Steady => SteadySound)
      /\ \A s \in Slot : TenureSound(s) /\ JobSound(job[s])
  BY Asked DEF TenureInv, BelongInv
<1>2. BelongInv'
  BY <1>1, BelongStep
<1> SUFFICES Kept
  BY <1>2 DEF TenureInv, Owned
<1>3. CASE \E t \in Slot : \E j : Grant(t, j) /\ Begins(j)
  <2>1. PICK t \in Slot : \E j : Grant(t, j) /\ Begins(j)
    BY <1>3
  <2>2. PICK j : Grant(t, j) /\ Begins(j)
    BY <2>1
  <2> QED BY <1>2, <2>2, TenureGrant
<1>4. CASE \E t \in Slot : Rollback(t)
  <2>1. PICK t \in Slot : Rollback(t)
    BY <1>4
  <2>2. /\ db' = db /\ job'[t] = NoJob /\ \A r \in Row : own'[t][r] = Unwritten
        /\ \A s \in Slot : s # t => own'[s] = own[s] /\ job'[s] = job[s]
        /\ held' = held \ LocksOf(t)
    BY <1>1, <2>1 DEF Rollback, Discard, Clean, IInv, TypeOK, RowsTyped
  <2>3. \A s \in Slot : s # t => \A r, m : Has(s, r, m) => Has(s, r, m)'
    BY <2>2 DEF Has, LocksOf
  <2>4. TenureSound(t)' /\ NoPromotion(t)' /\ ~ Chosen(t)'
    BY <2>2, TenureIdle
  <2> QED BY <2>2, <2>3, <2>4, TenureElsewhere
<1>5. CASE \E t \in Slot : Commit(t)
  BY <1>5, TenureCommit
<1>6. CASE \E t \in Slot : \E need, w, j :
             Statement(t, need, w, j) /\ Writes(t, w) /\ Follows(t, j) /\ Results(t, need, w, j)
  <2>1. PICK t \in Slot : \E need, w, j :
             Statement(t, need, w, j) /\ Writes(t, w) /\ Follows(t, j) /\ Results(t, need, w, j)
    BY <1>6
  <2>2. PICK need, w, j : Statement(t, need, w, j) /\ Writes(t, w) /\ Follows(t, j) /\ Results(t, need, w, j)
    BY <2>1
  <2>3. Owned(db)' /\ (\A s \in Slot : TenureSound(s)') /\ PairSound' /\ (Steady => SteadySound')
    BY <1>2, <2>2, TenureStatement
  <2> QED BY <2>3 DEF Owned
<1>7. CASE (\A r \in Row : r \notin User => db'[r] = db[r]) /\ UNCHANGED <<own, held, job>>
  <2>1. /\ \A c \in Company : db'[c] = db[c]
        /\ \A i \in Invitation : db'[i] = db[i]
        /\ \A u \in User, c \in Company : db'[<<u, c>>] = db[<<u, c>>]
    BY <1>7, RowTypes, RowTables DEF Membership
  <2>2. \A s \in Slot : /\ TenureSound(s)' /\ (NoPromotion(s) => NoPromotion(s)')
                        /\ \A c \in Company : Complete(s, c) => Complete(s, c)'
    BY <1>1, <1>7, TenureKept DEF Has
  <2>3. \A s \in Slot : (Chosen(s)' <=> Chosen(s)) /\ (Chosen(s) => job[s].company \in Company)
    BY <1>1, <1>7 DEF Chosen, Keepers, JobSound
  <2>4. PairSound'
    BY <1>1, <1>7, <2>2, <2>3 DEF PairSound
  <2>5. Steady => SteadySound'
    BY <1>1, <1>7, <2>1, <2>2, <2>3 DEF SteadySound, IsRow
  <2>6. Owned(db')
    BY <2>1 DEF TenureInv, Owned
  <2> QED BY <1>1, <2>1, <2>2, <2>4, <2>5, <2>6
<1> QED BY <1>1, <1>3, <1>4, <1>5, <1>6, <1>7, Steps

LEMMA TenureInit == (\A d \in InitialDb : Owned(d)) /\ Init => TenureInv
<1> SUFFICES ASSUME \A d \in InitialDb : Owned(d), Init PROVE TenureInv
  OBVIOUS
<1>1. BelongInv /\ Owned(db) /\ db \in InitialDb
  BY BelongInit DEF Init
<1>2. ASSUME NEW t \in Slot PROVE TenureSound(t) /\ NoPromotion(t) /\ ~ Chosen(t)
  <2>1. job[t] = NoJob /\ \A r \in Row : own[t][r] = Unwritten
    BY <1>1 DEF Init, Clean, BelongInv, IInv, TypeOK, RowsTyped
  <2>2. /\ job[t].op = "none"
        /\ \A i \in Invitation : own[t][i] \notin InvitationRecord
        /\ \A u \in User, c \in Company : own[t][<<u, c>>] \notin Role \cup {None}
    BY <2>1, RowTypes, MarkersDistinct DEF NoJob, Membership
  <2> QED BY <2>2 DEF TenureSound, Served, Parties, RoleWrites, Keeps, Withdraws, NoPromotion,
                      Chosen, Keepers, JoinOps
<1>3. PairSound /\ (Steady => SteadySound)
  BY <1>1, <1>2 DEF PairSound, SteadySound, Steady
<1> QED BY <1>1, <1>2, <1>3 DEF TenureInv

\* Where nobody is promoted to OWNER of a company that is there, or where at
\* most two requests overlap and none is a withdrawal, a company in use keeps an
\* owner.  A request that takes one away locks the owners it has found and then
\* counts (keepingAnOwner): of two such requests on a company at least one holds
\* every owner, so what the other counts cannot be taken away.  A withdrawal
\* locks the other owners of what the user owns, and his advisory lock keeps him
\* from founding a company meanwhile.  Both conditions are sharp: a promotion
\* next to a withdrawal (run withdrawal) and three overlapping changes of roles
\* (run roleChanges) leave a company without an owner.
THEOREM OwnersKept ==
    ASSUME Steady \/ Paired, \A d \in InitialDb : Owned(d)
    PROVE  Spec => []OwnerKept
<1>1. Init => TenureInv
  BY TenureInit
<1>2. TenureInv /\ [Next]_vars => TenureInv'
  BY TenureStep
<1>3. TenureInv => OwnerKept
  BY DEF TenureInv, Owned, OwnerKept, ownerMembershipsOf, Membership
<1> QED BY <1>1, <1>2, <1>3, PTL DEF Spec

=============================================================================
