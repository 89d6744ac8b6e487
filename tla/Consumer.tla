------------------------------ MODULE Consumer ------------------------------
(***************************************************************************)
(* A consumer application that asks who its visitor is: the guard of the   *)
(* SDK (packages/auth-client/src/guard.ts), the RPC programs that answer   *)
(* it (src/rpc/auth-handler.ts) and the session check under them, while    *)
(* the visitor's account, memberships and current company change.          *)
(*                                                                         *)
(* An RPC reads the session store, then the user row, then the             *)
(* memberships, without a transaction.  The use cases that change these    *)
(* are the ones of Tenancy; here each is the one step of its commit, and   *)
(* keeps the current company among the memberships.                        *)
(***************************************************************************)
EXTENDS Naturals

CONSTANTS
    Company,
    None,           \* no company, no role, no session
    Gone,           \* the current company of a deleted account
    Unversioned,    \* the revision of a session stored before there were any
    MaxChanges      \* bound: commits made elsewhere

Role == {"OWNER", "MEMBER"}

ASSUME MarkersAssumption ==
    /\ None \notin Company /\ Gone \notin Company /\ None # Gone
    /\ None \notin Role /\ None \notin Nat
    /\ Unversioned \notin Nat /\ Unversioned # None

VARIABLES
    current,        \* last_used_company_id of the user row
    role,           \* role[c]: the user's membership of c
    revision,       \* of the user row
    session,        \* the revision stored with the session, if there is one
    hook,           \* the sessions of a deleted account are still to be removed
    changes,
    req             \* what the guard has got so far, for the request under way

accounts == <<current, role, revision, session, hook, changes>>

NoAnswer == [ok |-> FALSE, company |-> None, role |-> None]

NoRequest == [pc |-> "idle", rpc |-> "none", revision |-> 0, company |-> None,
              session |-> NoAnswer, members |-> NoAnswer, reason |-> "none",
              held |-> {}, barred |-> FALSE]

Joined == {c \in Company : role[c] # None}

ConsumerInit ==
    /\ role \in [Company -> Role \cup {None}]
    /\ current \in IF Joined = {} THEN {None} ELSE Joined
    /\ revision = 1 /\ session \in {None, 1, Unversioned} /\ hook = FALSE
    /\ changes = 0
    /\ req = NoRequest

-----------------------------------------------------------------------------
(* The account changes.                                                    *)

\* What the user holds: each membership with its role, and the current company.
Holdings == {<<c, role[c]>> : c \in Joined} \cup {<<current, "current">>}

\* The request under way records what became true while it ran.
Observe == req' = IF req.pc \in {"idle", "done"} THEN req
                  ELSE [req EXCEPT !.held = @ \cup Holdings']

\* The current company after c was left, but not all of them.
Reassigned(c) == IF current = c THEN Joined \ {c} ELSE {current}

SwitchCompany(c) ==
    /\ role[c] # None /\ current # c /\ current' = c
    /\ UNCHANGED <<role, revision, session, hook>>

Join(c, r) ==
    /\ current # Gone /\ role[c] = None
    /\ role' = [role EXCEPT ![c] = r] /\ current' = c
    /\ UNCHANGED <<revision, session, hook>>

ChangeRole(c) ==
    /\ role[c] # None
    /\ \E r \in Role \ {role[c]} : role' = [role EXCEPT ![c] = r]
    /\ UNCHANGED <<current, revision, session, hook>>

\* deleteAccount commits; its hook is to delete the sessions afterwards.
DeleteAccount ==
    /\ current # Gone
    /\ current' = Gone /\ role' = [c \in Company |-> None] /\ hook' = TRUE
    /\ UNCHANGED <<revision, session>>

\* Who leaves the last company leaves with the account.
Leave(c) ==
    /\ role[c] # None
    /\ IF Joined = {c} THEN DeleteAccount
       ELSE /\ role' = [role EXCEPT ![c] = None] /\ current' \in Reassigned(c)
            /\ UNCHANGED <<revision, session, hook>>

\* The trigger raises the row's revision when a commit changes the name, the
\* address, the image or the password, none of which is kept here; sessions that
\* carry the revision from before are refused from then on.
RaiseRevision ==
    /\ current # Gone /\ revision' = revision + 1
    /\ UNCHANGED <<current, role, session, hook>>

\* The session is revoked from another device.
RevokeSession ==
    /\ session # None /\ session' = None
    /\ UNCHANGED <<current, role, revision, hook>>

\* A commit made by another request, of this user or of others.
AccountChange ==
    /\ changes < MaxChanges /\ changes' = changes + 1
    /\ \/ \E c \in Company : \/ SwitchCompany(c) \/ ChangeRole(c) \/ Leave(c)
                             \/ \E r \in Role : Join(c, r)
       \/ DeleteAccount \/ RaiseRevision \/ RevokeSession
    /\ Observe

\* The hook after the commit removes the sessions; it is lost when the process
\* stops first, and its failure is only reported.
DeleteSessionsOf ==
    /\ hook /\ hook' = FALSE
    /\ session' \in {session, None}
    /\ UNCHANGED <<current, role, revision, changes, req>>

-----------------------------------------------------------------------------
(* The guard and the RPCs.                                                 *)

\* A session that carries another revision than the row.  One from before there
\* were revisions carries none and is never outdated.
Outdated(carried) == carried \notin {None, Unversioned} /\ carried # revision

\* loadSession: one call for both questions, getSession, or against a server
\* that does not know it verifySession and then listCurrentCompanyMembers.
LoadSession ==
    /\ req.pc = "idle"
    /\ \E rpc \in {"getSession", "verifySession"} :
         req' = [NoRequest EXCEPT !.pc = "session", !.rpc = rpc, !.held = Holdings,
                   !.barred = current = Gone \/ Outdated(session)]
    /\ UNCHANGED accounts

\* The failure of a call answers both questions, except that a session that was
\* verified stays so when only the list fails.
Fail(reason) ==
    req' = [req EXCEPT !.pc = "done", !.members = NoAnswer, !.reason = reason,
              !.session = IF req.rpc = "list" THEN @ ELSE NoAnswer]

\* checkSession, first half: the session store.
GetSession ==
    /\ req.pc = "session"
    /\ IF session = None THEN Fail("SESSION_NOT_FOUND")
       ELSE req' = [req EXCEPT !.revision = session, !.pc = "user"]
    /\ UNCHANGED accounts

\* Mutant: the session is believed without its user row.
FindUserById_Trusting ==
    /\ req.pc = "user"
    /\ req' = [req EXCEPT !.company = IF current = Gone THEN None ELSE current,
                          !.pc = "memberships"]
    /\ UNCHANGED accounts

\* checkSession, second half: the user row, and its revision.
FindUserById ==
    /\ req.pc = "user"
    /\ IF current = Gone THEN Fail("USER_DELETED")
       ELSE IF Outdated(req.revision) THEN req' = [req EXCEPT !.pc = "signOut"]
       ELSE req' = [req EXCEPT !.company = current, !.pc = "memberships"]
    /\ UNCHANGED accounts

\* An outdated session is signed out and refused; the store may fail, which is
\* only reported.
SignOutOutdated(done) ==
    /\ req.pc = "signOut"
    /\ Fail("REVISION_OUTDATED")
    /\ session' = IF done THEN None ELSE session
    /\ UNCHANGED <<current, role, revision, hook, changes>>

\* The role in the company that the row named.
RoleRead == IF req.company = None THEN None ELSE role[req.company]

Verified == [ok |-> TRUE, company |-> req.company, role |-> RoleRead]

\* The list of members, which shows the company only if the caller is on it.
List == [ok |-> TRUE, role |-> RoleRead,
         company |-> IF RoleRead = None THEN None ELSE req.company]

\* Mutant: the role is that of the company which is current by now.
AnswerGetSession_CurrentRole ==
    /\ req.pc = "memberships" /\ req.rpc = "getSession"
    /\ req' = [req EXCEPT !.pc = "done", !.members = List,
                 !.session = [Verified EXCEPT !.role = IF current \in Company
                                                       THEN role[current] ELSE None]]
    /\ UNCHANGED accounts

AnswerGetSession ==
    /\ req.pc = "memberships" /\ req.rpc = "getSession"
    /\ req' = [req EXCEPT !.pc = "done", !.session = Verified, !.members = List]
    /\ UNCHANGED accounts

AnswerVerifySession ==
    /\ req.pc = "memberships" /\ req.rpc = "verifySession"
    /\ req' = [req EXCEPT !.pc = "session", !.rpc = "list", !.session = Verified]
    /\ UNCHANGED accounts

\* Mutant: the two answers are put together whatever company they are about.
AnswerListMembers_Unmatched ==
    /\ req.pc = "memberships" /\ req.rpc = "list"
    /\ req' = [req EXCEPT !.pc = "done", !.members = List]
    /\ UNCHANGED accounts

\* The list is of use only if it is about the company of the verified session.
AnswerListMembers ==
    /\ req.pc = "memberships" /\ req.rpc = "list"
    /\ req' = [req EXCEPT !.pc = "done",
                 !.members = IF List.company = req.session.company THEN List ELSE NoAnswer]
    /\ UNCHANGED accounts

\* The service key is refused, the call fails or its answer is lost.
CallFails ==
    /\ req.pc \in {"session", "user", "memberships"}
    /\ Fail("UNSPECIFIED")
    /\ UNCHANGED accounts

Rpc ==
    \/ GetSession \/ FindUserById \/ SignOutOutdated(TRUE) \/ SignOutOutdated(FALSE)
    \/ AnswerGetSession \/ AnswerVerifySession \/ AnswerListMembers \/ CallFails

-----------------------------------------------------------------------------
\* The two answers a page puts together are about one company: members come with
\* the company of the session, and without a company there is no role.  The
\* current company may change between the two calls of an older server.
SameCompany ==
    req.pc = "done" /\ req.members.ok
    => /\ req.session.ok
       /\ req.members.company \in {None, req.session.company}
       /\ req.members.company = None => req.session.role = None

\* No right is invented: a role that the guard reports was held in the reported
\* company at some moment of the request, and the company was current.
AnswersHeld ==
    req.pc = "done" /\ req.session.ok
    => /\ <<req.session.company, "current">> \in req.held
       /\ req.session.role # None => <<req.session.company, req.session.role>> \in req.held

\* A request that begins after the account was deleted, or with a session that
\* carries a revision from before the row's was raised, is refused, even when the
\* session has survived in the store because the hook after the commit was lost.
\* A session that carries no revision is barred by the deletion only.
BarredStayOut == req.pc = "done" /\ req.barred => ~req.session.ok

=============================================================================
