----------------------------- MODULE EntryProofs ----------------------------
(***************************************************************************)
(* Theorems about Consumer and Entry, for any number of companies, commits *)
(* from elsewhere and nested return addresses.                             *)
(*                                                                         *)
(* The guard's request reads the session, the user row and the memberships *)
(* in different states.  What is carried from one read to the next is that *)
(* the request has seen everything that was true while it ran (Witnessed), *)
(* and that whoever was barred when it began is barred when his row is     *)
(* read (StillBarred).  The visitor's destination is carried by the return *)
(* addresses in the URL (Bound).                                           *)
(***************************************************************************)
EXTENDS Entry, SequenceTheorems, TLAPS

CompanyOrNone == Company \cup {None}

Answer == [ok : BOOLEAN, company : CompanyOrNone, role : Role \cup {None}]

Request ==
    [pc : {"idle", "session", "user", "signOut", "memberships", "done"},
     rpc : {"none", "getSession", "verifySession", "list"},
     revision : Nat \cup {Unversioned}, company : CompanyOrNone, session : Answer, members : Answer,
     reason : {"none", "SESSION_NOT_FOUND", "USER_DELETED", "REVISION_OUTDATED",
               "UNSPECIFIED"},
     held : SUBSET ((CompanyOrNone \cup {Gone}) \X (Role \cup {"current"})),
     barred : BOOLEAN]

AccountTyped ==
    /\ role \in [Company -> Role \cup {None}]
    /\ current \in CompanyOrNone \cup {Gone}
    /\ revision \in Nat
    /\ session \in Nat \cup {None, Unversioned}
    /\ hook \in BOOLEAN
    /\ changes \in Nat

\* A deleted account has no memberships.
GoneHoldsNothing == current = Gone => Joined = {}

\* A session is never newer than the user row.
SessionNotAhead == session \in Nat => session <= revision

\* The guard is asked by the consumer's page only.
AskedFromApp == page # "app" => req.pc = "idle"

UnderWay == req.pc \notin {"idle", "done"}

\* The request under way has seen what the user holds now.
Witnessed == UnderWay => Holdings \subseteq req.held

\* What an answer says was held while the request ran.
Backed(a) ==
    a.ok => /\ <<a.company, "current">> \in req.held
            /\ a.role # None => a.company \in Company /\ <<a.company, a.role>> \in req.held

\* The row that was read was the user's, and its company current.
CompanySeen == req.pc = "memberships" => <<req.company, "current">> \in req.held

\* Between the two calls to an older server the session is verified.
VerifiedBefore == UnderWay /\ req.rpc = "list" => req.session.ok

\* Before an answer to a first call there is none.
UnansweredBefore == UnderWay /\ req.rpc # "list" => ~req.session.ok

\* A revision that is carried, and older than the row's.
Older(carried) == carried \in Nat /\ carried < revision

\* A request that began barred is barred at each of its reads.
StillBarred ==
    UnderWay /\ req.barred =>
        /\ current = Gone \/ session = None \/ Older(session)
        /\ req.pc = "user" => current = Gone \/ Older(req.revision)
        /\ req.pc # "memberships"
        /\ ~req.session.ok

\* The inductive invariant of the guard.
GuardInv ==
    /\ AccountTyped /\ req \in Request
    /\ GoneHoldsNothing /\ SessionNotAhead /\ AskedFromApp
    /\ Witnessed /\ Backed(req.session) /\ CompanySeen
    /\ VerifiedBefore /\ UnansweredBefore /\ StillBarred
    /\ SameCompany /\ BarredStayOut

-----------------------------------------------------------------------------
\* Where a visitor may be who is on his way to the application.
OnTheWay == {"app", "appShown", "appError", "entry", "signIn", "companySignup",
             "companyForm", "mfa", "mfaExpired", "error"}

\* The stops that go on to the page their URL returns to.
Returning == {"entry", "signIn", "companySignup", "companyForm", "mfa"}

\* The pages that a URL may return to.
Place == {"app", "companySignup", "account", "accept"}

\* The return addresses end at the application, over nothing but the company form.
LeadsToApp(b) ==
    /\ b # <<>> /\ b[Len(b)] = "app"
    /\ \A i \in 1 .. Len(b) : i # Len(b) => b[i] = "companySignup"

\* The inductive invariant of the redirects.
Bound ==
    /\ back \in Seq(Place)
    /\ goal \in {"app", "account"}
    /\ goal = "app" /\ address # "refused" => page \in OnTheWay /\ (page \in Returning => LeadsToApp(back))

-----------------------------------------------------------------------------
(* The guard.                                                              *)

\* What the rest of the program keeps to in the account.
AccountInv == AccountTyped /\ GoneHoldsNothing /\ SessionNotAhead

\* Nothing is said of a slot without a request.
LEMMA NoRequestTyped == NoRequest \in Request /\ ~NoRequest.session.ok
<1>1. NoAnswer \in Answer /\ ~NoAnswer.ok
  BY DEF NoAnswer, Answer, CompanyOrNone
<1>2. {} \in SUBSET ((CompanyOrNone \cup {Gone}) \X (Role \cup {"current"}))
  OBVIOUS
<1> QED BY <1>1, <1>2 DEF NoRequest, Request, CompanyOrNone

\* A step while nothing is asked may change the account as it likes.
LEMMA WhileIdle ==
    ASSUME GuardInv, req.pc = "idle", req' = req, AccountInv'
    PROVE  GuardInv'
BY DEF GuardInv, AccountInv, AskedFromApp, UnderWay, Witnessed, Backed, CompanySeen,
   VerifiedBefore, UnansweredBefore, StillBarred, SameCompany, BarredStayOut

\* The commits made elsewhere keep the account well formed, never bring a
\* deleted one back, and never renew a session.
LEMMA AccountChanges ==
    ASSUME AccountInv, AccountChange
    PROVE  /\ AccountInv'
           /\ current = Gone => current' = Gone
           /\ revision <= revision'
           /\ session' = session \/ session' = None
<1> USE MarkersAssumption DEF AccountInv, AccountTyped, GoneHoldsNothing,
        SessionNotAhead, Joined, CompanyOrNone
<1>0. changes' \in Nat
  BY DEF AccountChange
<1>1. ASSUME NEW c \in Company, SwitchCompany(c)
      PROVE  /\ AccountInv' /\ (current = Gone => current' = Gone)
             /\ revision <= revision' /\ session' = session
  BY <1>0, <1>1 DEF SwitchCompany
<1>2. ASSUME NEW c \in Company, ChangeRole(c)
      PROVE  /\ AccountInv' /\ (current = Gone => current' = Gone)
             /\ revision <= revision' /\ session' = session
  BY <1>0, <1>2 DEF ChangeRole
<1>3. ASSUME DeleteAccount
      PROVE  /\ AccountInv' /\ (current = Gone => current' = Gone)
             /\ revision <= revision' /\ session' = session
  BY <1>0, <1>3 DEF DeleteAccount
<1>4. ASSUME NEW c \in Company, Leave(c)
      PROVE  /\ AccountInv' /\ (current = Gone => current' = Gone)
             /\ revision <= revision' /\ session' = session
  BY <1>0, <1>3, <1>4 DEF Leave, Reassigned
<1>5. ASSUME NEW c \in Company, NEW r \in Role, Join(c, r)
      PROVE  /\ AccountInv' /\ (current = Gone => current' = Gone)
             /\ revision <= revision' /\ session' = session
  BY <1>0, <1>5 DEF Join
<1>6. ASSUME RaiseRevision
      PROVE  /\ AccountInv' /\ (current = Gone => current' = Gone)
             /\ revision <= revision' /\ session' = session
  BY <1>0, <1>6 DEF RaiseRevision
<1>7. ASSUME RevokeSession
      PROVE  /\ AccountInv' /\ (current = Gone => current' = Gone)
             /\ revision <= revision' /\ session' = None
  BY <1>0, <1>7 DEF RevokeSession
<1> QED BY <1>1, <1>2, <1>3, <1>4, <1>5, <1>6, <1>7 DEF AccountChange

\* What the user holds is a set of pairs of the recorded kind.
LEMMA HoldingsTyped ==
    ASSUME AccountTyped
    PROVE  Holdings \in SUBSET ((CompanyOrNone \cup {Gone}) \X (Role \cup {"current"}))
BY DEF AccountTyped, Holdings, Joined, CompanyOrNone

\* A commit made elsewhere is noted by the request under way.
LEMMA AccountChangePreserves ==
    ASSUME GuardInv, AccountChange, UNCHANGED browser
    PROVE  GuardInv'
<1>1. /\ AccountInv'
      /\ current = Gone => current' = Gone
      /\ revision <= revision'
      /\ session' = session \/ session' = None
  BY AccountChanges DEF GuardInv, AccountInv
<1>2. page' = page
  BY DEF browser
<1>3. req' = IF UnderWay THEN [req EXCEPT !.held = @ \cup Holdings'] ELSE req
  BY DEF AccountChange, Observe, UnderWay
<1>4. CASE ~UnderWay
  BY <1>1, <1>2, <1>3, <1>4 DEF GuardInv, AccountInv, AskedFromApp, UnderWay,
     Witnessed, Backed, CompanySeen, VerifiedBefore, UnansweredBefore, StillBarred,
     SameCompany, BarredStayOut
<1>5. CASE UnderWay
  <2>1. Holdings' \in SUBSET ((CompanyOrNone \cup {Gone}) \X (Role \cup {"current"}))
    <3> AccountTyped'
      BY <1>1 DEF AccountInv
    <3> QED BY DEF AccountTyped, Holdings, Joined, CompanyOrNone
  <2> DEFINE H == Holdings'
  <2>2. /\ req \in Request
        /\ req' = [req EXCEPT !.held = req.held \cup H]
    BY <1>3, <1>5 DEF GuardInv
  <2>3. H \in SUBSET ((CompanyOrNone \cup {Gone}) \X (Role \cup {"current"}))
    BY <2>1
  <2>4. Witnessed'
    <3>1. req'.held = req.held \cup H
      BY <2>2 DEF Request
    <3> QED BY <3>1 DEF Witnessed
  <2> HIDE DEF H
  <2>5. /\ req' \in Request
        /\ req.held \subseteq req'.held
        /\ req'.pc = req.pc /\ req'.rpc = req.rpc /\ req'.revision = req.revision
        /\ req'.company = req.company /\ req'.session = req.session
        /\ req'.members = req.members /\ req'.barred = req.barred
    BY <2>2, <2>3 DEF Request
  <2>6. Backed(req.session)' /\ CompanySeen'
    BY <2>5 DEF GuardInv, Backed, CompanySeen
  <2>7. VerifiedBefore' /\ UnansweredBefore' /\ SameCompany' /\ BarredStayOut'
    BY <2>5 DEF GuardInv, VerifiedBefore, UnansweredBefore, SameCompany, BarredStayOut,
       UnderWay
  <2>8. StillBarred'
    <3> USE DEF GuardInv, AccountInv, AccountTyped, Request
    <3> SUFFICES ASSUME UnderWay', req'.barred
                 PROVE  /\ current' = Gone \/ session' = None \/ Older(session)'
                        /\ req'.pc = "user" => current' = Gone \/ Older(req.revision)'
                        /\ req'.pc # "memberships" /\ ~req'.session.ok
      BY DEF StillBarred
    <3>1. /\ current = Gone \/ session = None \/ Older(session)
          /\ req.pc = "user" => current = Gone \/ Older(req.revision)
          /\ req.pc # "memberships" /\ ~req.session.ok
      BY <1>5, <2>5 DEF StillBarred
    <3> QED BY <1>1, <2>5, <3>1 DEF Older
  <2>9. AskedFromApp'
    BY <1>2, <1>5, <2>5 DEF GuardInv, AskedFromApp, UnderWay
  <2> QED BY <1>1, <2>4, <2>5, <2>6, <2>7, <2>8, <2>9 DEF GuardInv, AccountInv
<1> QED BY <1>4, <1>5

\* The hook after a deletion, and the sign-out of an outdated session, only take
\* sessions away.
LEMMA DeleteSessionsPreserves ==
    ASSUME GuardInv, DeleteSessionsOf, UNCHANGED browser
    PROVE  GuardInv'
<1>1. /\ session' = session \/ session' = None
      /\ UNCHANGED <<current, role, revision, changes, req, page>>
      /\ hook' \in BOOLEAN
  BY DEF DeleteSessionsOf, browser
<1>2. AccountInv'
  BY <1>1, MarkersAssumption DEF GuardInv, AccountInv, AccountTyped, GoneHoldsNothing,
     SessionNotAhead, Joined
<1>3. StillBarred'
  BY <1>1 DEF GuardInv, StillBarred, UnderWay, Older
<1>4. Witnessed'
  BY <1>1 DEF GuardInv, Witnessed, UnderWay, Holdings, Joined
<1> QED
  BY <1>1, <1>2, <1>3, <1>4 DEF GuardInv, AccountInv, AskedFromApp, Backed, UnderWay,
     CompanySeen, VerifiedBefore, UnansweredBefore, SameCompany, BarredStayOut

\* A request begins with what the user holds and notes whether he is barred.
LEMMA AskGuardPreserves ==
    ASSUME GuardInv, AskGuard
    PROVE  GuardInv'
<1>1. PICK rpc \in {"getSession", "verifySession"} :
         req' = [NoRequest EXCEPT !.pc = "session", !.rpc = rpc, !.held = Holdings,
                   !.barred = current = Gone \/ Outdated(session)]
  BY DEF AskGuard, LoadSession
<1>2. UNCHANGED <<current, role, revision, session, hook, changes, page>> /\ page = "app"
  BY DEF AskGuard, LoadSession, accounts, browser
<1>3. Holdings \in SUBSET ((CompanyOrNone \cup {Gone}) \X (Role \cup {"current"}))
  BY HoldingsTyped DEF GuardInv
<1> DEFINE b == current = Gone \/ Outdated(session)
           H == Holdings
<1>4. /\ req' \in Request
      /\ req'.pc = "session" /\ req'.rpc = rpc /\ req'.held = H /\ req'.barred = b
      /\ ~req'.session.ok
  <2>1. b \in BOOLEAN /\ H \in SUBSET ((CompanyOrNone \cup {Gone}) \X (Role \cup {"current"}))
    BY <1>3
  <2>2. req' = [NoRequest EXCEPT !.pc = "session", !.rpc = rpc, !.held = H, !.barred = b]
    BY <1>1
  <2> HIDE DEF b, H
  <2> QED BY <2>1, <2>2, NoRequestTyped DEF Request
<1>5. AccountInv' /\ Holdings' = H
  BY <1>2 DEF GuardInv, AccountInv, AccountTyped, GoneHoldsNothing, SessionNotAhead,
     Joined, Holdings
<1>6. StillBarred'
  <2> SUFFICES ASSUME req'.barred
               PROVE  /\ current = Gone \/ Older(session)
                      /\ req'.pc = "session" /\ ~req'.session.ok
    BY <1>2, <1>4 DEF StillBarred, Older
  <2>1. session \notin {None, Unversioned} =>
            session \in Nat /\ revision \in Nat /\ session <= revision
    BY DEF GuardInv, AccountTyped, SessionNotAhead
  <2>2. current = Gone \/ Outdated(session)
    BY <1>4, Zenon
  <2> QED BY <1>4, <2>1, <2>2 DEF Outdated, Older
<1> HIDE DEF b, H
<1> QED
  BY <1>2, <1>4, <1>5, <1>6 DEF GuardInv, AccountInv, AskedFromApp, Witnessed, Backed, UnderWay,
     CompanySeen, VerifiedBefore, UnansweredBefore, SameCompany, BarredStayOut

\* The consumer uses the answer and forgets the request.
LEMMA UseAnswerPreserves ==
    ASSUME GuardInv, UseAnswer
    PROVE  GuardInv'
<1>1. req' = NoRequest /\ UNCHANGED <<current, role, revision, session, hook, changes>>
  BY DEF UseAnswer, accounts
<1>2. AccountInv'
  BY <1>1 DEF GuardInv, AccountInv, AccountTyped, GoneHoldsNothing, SessionNotAhead, Joined
<1>3. req'.pc = "idle"
  BY <1>1 DEF NoRequest
<1> QED
  BY <1>1, <1>2, <1>3, NoRequestTyped DEF GuardInv, AccountInv, AskedFromApp, Witnessed,
     Backed, UnderWay, CompanySeen, VerifiedBefore, UnansweredBefore, StillBarred,
     SameCompany, BarredStayOut

-----------------------------------------------------------------------------
(* The reads of a request.                                                 *)

\* A read of the guard leaves the account and the page alone, except that an
\* outdated session may be signed out, and what has been seen stays seen.
LEMMA Reads ==
    ASSUME GuardInv, GuardStep
    PROVE  /\ AccountInv' /\ Holdings' = Holdings
           /\ UNCHANGED <<current, revision, page>>
           /\ session' = session \/ session' = None
           /\ UnderWay /\ page = "app"
<1>1. UNCHANGED <<current, role, revision, hook, changes, page>>
  BY DEF GuardStep, Rpc, GetSession, FindUserById, SignOutOutdated, AnswerGetSession,
     AnswerVerifySession, AnswerListMembers, CallFails, accounts, browser
<1>2. session' = session \/ session' = None
  BY DEF GuardStep, Rpc, GetSession, FindUserById, SignOutOutdated, AnswerGetSession,
     AnswerVerifySession, AnswerListMembers, CallFails, accounts, browser
<1>3. UnderWay
  BY DEF GuardStep, Rpc, GetSession, FindUserById, SignOutOutdated, AnswerGetSession,
     AnswerVerifySession, AnswerListMembers, CallFails, UnderWay
<1> QED
  BY <1>1, <1>2, <1>3, MarkersAssumption DEF GuardInv, AccountInv, AccountTyped,
     GoneHoldsNothing, SessionNotAhead, Joined, Holdings, AskedFromApp, UnderWay

\* A request that fails answers neither question, but for the session that was
\* verified by the call before.
LEMMA FailPreserves ==
    ASSUME GuardInv, GuardStep,
           NEW reason \in {"SESSION_NOT_FOUND", "USER_DELETED", "REVISION_OUTDATED",
                           "UNSPECIFIED"},
           Fail(reason)
    PROVE  GuardInv'
<1>1. /\ AccountInv' /\ page' = page /\ page = "app" /\ UnderWay
  BY Reads
<1>2. /\ req' \in Request
      /\ req'.pc = "done" /\ ~req'.members.ok /\ req'.held = req.held
      /\ req'.barred = req.barred
      /\ req'.session = IF req.rpc = "list" THEN req.session ELSE NoAnswer
  <2>1. NoAnswer \in Answer /\ ~NoAnswer.ok
    BY DEF NoAnswer, Answer, CompanyOrNone
  <2>2. req \in Request
    BY DEF GuardInv
  <2> QED BY <2>1, <2>2 DEF Fail, Request
<1>3. Backed(req.session)'
  BY <1>2 DEF GuardInv, Backed, NoAnswer
<1>4. BarredStayOut'
  BY <1>1, <1>2 DEF GuardInv, StillBarred, BarredStayOut, NoAnswer
<1> QED
  BY <1>1, <1>2, <1>3, <1>4 DEF GuardInv, AccountInv, AskedFromApp, Witnessed, UnderWay,
     CompanySeen, VerifiedBefore, UnansweredBefore, StillBarred, SameCompany

LEMMA GetSessionPreserves ==
    ASSUME GuardInv, GuardStep, GetSession
    PROVE  GuardInv'
<1>1. CASE session = None
  BY <1>1, FailPreserves DEF GetSession
<1>2. CASE session # None
  <2>1. /\ AccountInv' /\ Holdings' = Holdings /\ UNCHANGED <<current, revision, page>>
        /\ session' = session \/ session' = None
        /\ UnderWay /\ page = "app"
    BY Reads
  <2>2. /\ req' \in Request
        /\ req' = [req EXCEPT !.revision = session, !.pc = "user"]
        /\ req'.pc = "user" /\ req'.revision = session
    <3>1. req \in Request /\ session \in Nat \cup {Unversioned}
      BY <1>2 DEF GuardInv, AccountTyped
    <3>2. req' = [req EXCEPT !.revision = session, !.pc = "user"]
      BY <1>2 DEF GetSession
    <3> QED BY <3>1, <3>2 DEF Request
  <2>3. /\ req'.held = req.held /\ req'.session = req.session /\ req'.rpc = req.rpc
        /\ req'.members = req.members /\ req'.barred = req.barred
    BY <2>2 DEF GuardInv, Request
  <2>4. StillBarred'
    BY <1>2, <2>1, <2>2, <2>3 DEF GuardInv, StillBarred, UnderWay, Older
  <2> QED
    BY <2>1, <2>2, <2>3, <2>4 DEF GuardInv, AccountInv, AskedFromApp, Witnessed, Backed,
       UnderWay, CompanySeen, VerifiedBefore, UnansweredBefore, SameCompany, BarredStayOut
<1> QED BY <1>1, <1>2

\* The row decides: a deleted or outdated user gets no further.
LEMMA FindUserByIdPreserves ==
    ASSUME GuardInv, GuardStep, FindUserById
    PROVE  GuardInv'
<1>0. /\ AccountInv' /\ Holdings' = Holdings /\ UNCHANGED <<current, revision, page>>
      /\ session' = session \/ session' = None
      /\ UnderWay /\ page = "app" /\ req.pc = "user" /\ req \in Request
  BY Reads DEF FindUserById, GuardInv
<1>1. CASE current = Gone
  BY <1>1, FailPreserves DEF FindUserById
<1>2. CASE current # Gone /\ Outdated(req.revision)
  <2>1. /\ req' \in Request /\ req'.pc = "signOut" /\ req'.held = req.held
        /\ req'.session = req.session /\ req'.rpc = req.rpc
        /\ req'.members = req.members /\ req'.barred = req.barred
    BY <1>0, <1>2 DEF FindUserById, Request
  <2>2. StillBarred'
    BY <1>0, <2>1 DEF GuardInv, StillBarred, UnderWay, Older
  <2> QED
    BY <1>0, <2>1, <2>2 DEF GuardInv, AccountInv, AskedFromApp, Witnessed, Backed,
       UnderWay, CompanySeen, VerifiedBefore, UnansweredBefore, SameCompany, BarredStayOut
<1>3. CASE current # Gone /\ ~Outdated(req.revision)
  <2>1. /\ req' \in Request /\ req'.pc = "memberships" /\ req'.held = req.held
        /\ req'.session = req.session /\ req'.rpc = req.rpc
        /\ req'.members = req.members /\ req'.barred = req.barred
        /\ req'.company = current
    <3>1. current \in CompanyOrNone
      BY <1>3 DEF GuardInv, AccountTyped
    <3>2. req' = [req EXCEPT !.company = current, !.pc = "memberships"]
      BY <1>3 DEF FindUserById
    <3> QED BY <1>0, <3>1, <3>2 DEF Request
  <2>2. StillBarred'
    <3>1. ~req.barred
      BY <1>0, <1>3, MarkersAssumption DEF GuardInv, StillBarred, AccountTyped, Request,
         Outdated, Older
    <3> QED BY <2>1, <3>1 DEF StillBarred
  <2>3. CompanySeen'
    <3>1. <<current, "current">> \in Holdings
      BY DEF Holdings
    <3> QED BY <1>0, <2>1, <3>1 DEF GuardInv, Witnessed, CompanySeen
  <2> QED
    BY <1>0, <2>1, <2>2, <2>3 DEF GuardInv, AccountInv, AskedFromApp, Witnessed, Backed,
       UnderWay, VerifiedBefore, UnansweredBefore, SameCompany, BarredStayOut
<1> QED BY <1>1, <1>2, <1>3

\* What is read of the memberships is one of the user's holdings.
LEMMA RoleReadBacked ==
    ASSUME GuardInv, req.pc = "memberships"
    PROVE  /\ Verified \in Answer /\ List \in Answer /\ Verified.ok /\ List.ok
           /\ Verified.company = req.company /\ Verified.role = RoleRead
           /\ List.company = IF RoleRead = None THEN None ELSE req.company
           /\ req.company = None => RoleRead = None
           /\ <<req.company, "current">> \in req.held
           /\ RoleRead # None => /\ req.company \in Company
                                 /\ <<req.company, RoleRead>> \in req.held
<1>1. req.company \in CompanyOrNone /\ req \in Request
  BY DEF GuardInv, Request
<1>2. RoleRead \in Role \cup {None} /\ (req.company = None => RoleRead = None)
  BY <1>1 DEF RoleRead, GuardInv, AccountTyped, CompanyOrNone
<1>3. /\ Verified \in Answer /\ List \in Answer /\ Verified.ok /\ List.ok
      /\ Verified.company = req.company /\ Verified.role = RoleRead
      /\ List.company = IF RoleRead = None THEN None ELSE req.company
  BY <1>1, <1>2 DEF Verified, List, Answer, CompanyOrNone
<1>4. ASSUME RoleRead # None
      PROVE  req.company \in Company /\ <<req.company, RoleRead>> \in req.held
  <2>1. req.company \in Company /\ RoleRead = role[req.company]
    BY <1>1, <1>4 DEF RoleRead, CompanyOrNone
  <2>2. <<req.company, role[req.company]>> \in Holdings
    BY <1>4, <2>1 DEF Holdings, Joined
  <2> QED BY <2>1, <2>2 DEF GuardInv, Witnessed, UnderWay
<1>5. <<req.company, "current">> \in req.held
  BY DEF GuardInv, CompanySeen
<1> QED BY <1>2, <1>3, <1>4, <1>5

LEMMA AnswerGetSessionPreserves ==
    ASSUME GuardInv, GuardStep, AnswerGetSession
    PROVE  GuardInv'
<1>0. /\ AccountInv' /\ Holdings' = Holdings /\ UNCHANGED <<current, revision, page>>
      /\ session' = session \/ session' = None
      /\ UnderWay /\ page = "app" /\ req.pc = "memberships" /\ req \in Request
  BY Reads DEF AnswerGetSession, GuardInv
<1>1. /\ req' \in Request /\ req'.pc = "done" /\ req'.held = req.held
      /\ req'.session = Verified /\ req'.members = List /\ req'.barred = req.barred
  BY <1>0, RoleReadBacked DEF AnswerGetSession, Request
<1>2. Backed(req.session)'
  BY <1>0, <1>1, RoleReadBacked DEF Backed
<1>3. SameCompany'
  BY <1>0, <1>1, RoleReadBacked, MarkersAssumption DEF SameCompany
<1>4. BarredStayOut'
  BY <1>0, <1>1 DEF GuardInv, StillBarred, BarredStayOut
<1> QED
  BY <1>0, <1>1, <1>2, <1>3, <1>4 DEF GuardInv, AccountInv, AskedFromApp, Witnessed,
     UnderWay, CompanySeen, VerifiedBefore, UnansweredBefore, StillBarred

\* Against an older server the session is kept for the second call.
LEMMA AnswerVerifySessionPreserves ==
    ASSUME GuardInv, GuardStep, AnswerVerifySession
    PROVE  GuardInv'
<1>0. /\ AccountInv' /\ Holdings' = Holdings /\ UNCHANGED <<current, revision, page>>
      /\ session' = session \/ session' = None
      /\ UnderWay /\ page = "app" /\ req.pc = "memberships" /\ req \in Request
  BY Reads DEF AnswerVerifySession, GuardInv
<1>1. /\ req' \in Request /\ req'.pc = "session" /\ req'.held = req.held
      /\ req'.session = Verified /\ req'.rpc = "list" /\ req'.barred = req.barred
  BY <1>0, RoleReadBacked DEF AnswerVerifySession, Request
<1>2. Backed(req.session)'
  BY <1>0, <1>1, RoleReadBacked DEF Backed
<1>3. StillBarred'
  BY <1>0, <1>1 DEF GuardInv, StillBarred, UnderWay
<1>4. VerifiedBefore' /\ UnansweredBefore'
  BY <1>0, <1>1, RoleReadBacked DEF VerifiedBefore, UnansweredBefore
<1> QED
  BY <1>0, <1>1, <1>2, <1>3, <1>4 DEF GuardInv, AccountInv, AskedFromApp, Witnessed,
     UnderWay, CompanySeen, SameCompany, BarredStayOut

\* The list counts only if it is about the company of the verified session.
LEMMA AnswerListMembersPreserves ==
    ASSUME GuardInv, GuardStep, AnswerListMembers
    PROVE  GuardInv'
<1>0. /\ AccountInv' /\ Holdings' = Holdings /\ UNCHANGED <<current, revision, page>>
      /\ session' = session \/ session' = None
      /\ UnderWay /\ page = "app" /\ req.pc = "memberships" /\ req.rpc = "list"
      /\ req \in Request
  BY Reads DEF AnswerListMembers, GuardInv
<1>1. NoAnswer \in Answer /\ ~NoAnswer.ok
  BY DEF NoAnswer, Answer, CompanyOrNone
<1>2. /\ req' \in Request /\ req'.pc = "done" /\ req'.held = req.held
      /\ req'.session = req.session /\ req'.barred = req.barred
      /\ req'.members = IF List.company = req.session.company THEN List ELSE NoAnswer
  BY <1>0, <1>1, RoleReadBacked DEF AnswerListMembers, Request
<1>3. Backed(req.session)'
  BY <1>2 DEF GuardInv, Backed
<1>4. SameCompany'
  <2>1. req.session.ok /\ Backed(req.session)
    BY <1>0 DEF GuardInv, VerifiedBefore
  <2>2. req.session.company = None => req.session.role = None
    BY <2>1, MarkersAssumption DEF Backed
  <2> QED BY <1>1, <1>2, <2>1, <2>2 DEF SameCompany
<1>5. BarredStayOut'
  BY <1>0, <1>2 DEF GuardInv, StillBarred, BarredStayOut
<1> QED
  BY <1>0, <1>2, <1>3, <1>4, <1>5 DEF GuardInv, AccountInv, AskedFromApp, Witnessed,
     UnderWay, CompanySeen, VerifiedBefore, UnansweredBefore, StillBarred

LEMMA GuardStepPreserves ==
    ASSUME GuardInv, GuardStep
    PROVE  GuardInv'
<1>1. CASE GetSession
  BY <1>1, GetSessionPreserves
<1>2. CASE FindUserById
  BY <1>2, FindUserByIdPreserves
<1>3. CASE SignOutOutdated(TRUE) \/ SignOutOutdated(FALSE)
  BY <1>3, FailPreserves DEF SignOutOutdated
<1>4. CASE AnswerGetSession
  BY <1>4, AnswerGetSessionPreserves
<1>5. CASE AnswerVerifySession
  BY <1>5, AnswerVerifySessionPreserves
<1>6. CASE AnswerListMembers
  BY <1>6, AnswerListMembersPreserves
<1>7. CASE CallFails
  BY <1>7, FailPreserves DEF CallFails
<1> QED BY <1>1, <1>2, <1>3, <1>4, <1>5, <1>6, <1>7 DEF GuardStep, Rpc

-----------------------------------------------------------------------------
(* The steps of the browser and the visitor, none of which the guard sees. *)

\* A redirect or a visit that leaves the account alone.
Redirect ==
    \/ NoToken \/ LoginShortcut \/ AuthEntryRedirect \/ InvitedEntryRedirect
    \/ AuthEntryUnavailable \/ CompanySignupEntry \/ CompanySignupUnknown
    \/ AccountEntry \/ AccountUnknown \/ Visit \/ VisitInvalid \/ ChallengeExpires
    \/ CompanyFormUnauthorized

\* A form that changes the account.
Submission ==
    AcceptInvitation \/ SignIn \/ CompleteChallenge \/ CreateCompany \/ SignOut
    \/ DeleteOwnAccount

LEMMA RedirectPreserves ==
    ASSUME GuardInv, Redirect
    PROVE  GuardInv'
<1>1. req.pc = "idle"
  BY DEF Redirect, NoToken, LoginShortcut, AuthEntryRedirect, InvitedEntryRedirect,
     AuthEntryUnavailable, CompanySignupEntry, CompanySignupUnknown, AccountEntry,
     AccountUnknown, Visit, VisitInvalid, ChallengeExpires, CompanyFormUnauthorized,
     Pages, GuardInv, AskedFromApp
<1>2. UNCHANGED <<accounts, req>>
  BY DEF Redirect, NoToken, LoginShortcut, AuthEntryRedirect, InvitedEntryRedirect,
     AuthEntryUnavailable, CompanySignupEntry, CompanySignupUnknown, AccountEntry,
     AccountUnknown, Visit, VisitInvalid, ChallengeExpires, CompanyFormUnauthorized,
     Elsewhere
<1>3. AccountInv'
  BY <1>2 DEF accounts, GuardInv, AccountInv, AccountTyped, GoneHoldsNothing,
     SessionNotAhead, Joined
<1> QED BY <1>1, <1>2, <1>3, WhileIdle

\* Joining a company, as the forms do.
LEMMA JoinKeeps ==
    ASSUME AccountInv, NEW c \in Company, NEW r \in Role, Join(c, r), UNCHANGED changes
    PROVE  AccountInv'
BY MarkersAssumption DEF Join, AccountInv, AccountTyped, GoneHoldsNothing, SessionNotAhead,
   Joined, CompanyOrNone

LEMMA IssueKeeps ==
    ASSUME AccountInv, Issue
    PROVE  AccountInv'
BY MarkersAssumption DEF Issue, AccountInv, AccountTyped, GoneHoldsNothing, SessionNotAhead,
   Joined, CompanyOrNone

LEMMA SubmissionPreserves ==
    ASSUME GuardInv, Submission
    PROVE  GuardInv'
<1>0. AccountInv
  BY DEF GuardInv, AccountInv
<1>1. req.pc = "idle" /\ req' = req
  BY DEF Submission, AcceptInvitation, SignIn, CompleteChallenge, CreateCompany, SignOut,
     DeleteOwnAccount, GuardInv, AskedFromApp
<1>2. UNCHANGED accounts => AccountInv'
  BY <1>0 DEF accounts, AccountInv, AccountTyped, GoneHoldsNothing, SessionNotAhead, Joined
<1>3. ASSUME AcceptInvitation PROVE AccountInv'
  BY <1>0, <1>2, <1>3, JoinKeeps DEF AcceptInvitation, Role
<1>4. ASSUME SignIn \/ CompleteChallenge PROVE AccountInv'
  BY <1>0, <1>2, <1>4, IssueKeeps DEF SignIn, CompleteChallenge
<1>5. ASSUME CreateCompany PROVE AccountInv'
  BY <1>0, <1>2, <1>5, JoinKeeps DEF CreateCompany, Role
<1>6. ASSUME SignOut PROVE AccountInv'
  BY <1>0, <1>6, MarkersAssumption DEF SignOut, AccountInv, AccountTyped, GoneHoldsNothing,
     SessionNotAhead, Joined
<1>7. ASSUME DeleteOwnAccount PROVE AccountInv'
  BY <1>0, <1>7, MarkersAssumption DEF DeleteOwnAccount, AccountInv, AccountTyped,
     GoneHoldsNothing, SessionNotAhead, Joined
<1>8. AccountInv'
  BY <1>3, <1>4, <1>5, <1>6, <1>7 DEF Submission
<1> QED BY <1>1, <1>8, WhileIdle

\* The kinds of steps there are.
LEMMA Kinds ==
    Next <=> \/ AccountChange /\ UNCHANGED browser
             \/ DeleteSessionsOf /\ UNCHANGED browser
             \/ AskGuard \/ GuardStep \/ UseAnswer \/ Redirect \/ Submission
BY DEF Next, Redirect, Submission

LEMMA GuardInitially == Init => GuardInv
<1> SUFFICES ASSUME Init PROVE GuardInv
  OBVIOUS
<1>1. AccountInv
  <2>1. role \in [Company -> Role \cup {None}] /\ Joined \subseteq Company
    BY DEF Init, ConsumerInit, Joined
  <2>2. current \in CompanyOrNone /\ current # Gone
    BY <2>1, MarkersAssumption DEF Init, ConsumerInit, CompanyOrNone
  <2>3. /\ revision = 1 /\ session \in {None, 1, Unversioned} /\ hook = FALSE /\ changes = 0
    BY DEF Init, ConsumerInit
  <2>4. SessionNotAhead
    BY <2>3, MarkersAssumption DEF SessionNotAhead
  <2>5. session \in Nat \cup {None, Unversioned}
    BY <2>3
  <2> QED
    BY <2>1, <2>2, <2>3, <2>4, <2>5 DEF AccountInv, AccountTyped, GoneHoldsNothing
<1>2. req = NoRequest /\ req.pc = "idle"
  BY DEF Init, ConsumerInit, NoRequest
<1> QED
  BY <1>1, <1>2, NoRequestTyped DEF GuardInv, AccountInv, AskedFromApp, Witnessed, UnderWay,
     Backed, CompanySeen, VerifiedBefore, UnansweredBefore, StillBarred, SameCompany,
     BarredStayOut

\* The reads of a request stay consistent, whatever commits between them.
THEOREM GuardConsistent == Spec => []GuardInv
<1>1. Init => GuardInv
  BY GuardInitially
<1>2. GuardInv /\ [Next]_vars => GuardInv'
  <2> SUFFICES ASSUME GuardInv, [Next]_vars PROVE GuardInv'
    OBVIOUS
  <2>1. CASE Next
    BY <2>1, Kinds, AccountChangePreserves, DeleteSessionsPreserves, AskGuardPreserves,
       GuardStepPreserves, UseAnswerPreserves, RedirectPreserves, SubmissionPreserves
  <2>2. CASE UNCHANGED vars
    BY <2>2 DEF vars, accounts, browser, GuardInv, AccountTyped, GoneHoldsNothing,
       SessionNotAhead, Joined, AskedFromApp, Witnessed, UnderWay, Holdings, Backed,
       CompanySeen, VerifiedBefore, UnansweredBefore, StillBarred, Older, SameCompany,
       BarredStayOut
  <2> QED BY <2>1, <2>2
<1> QED BY <1>1, <1>2, PTL DEF Spec

\* The two answers a page puts together are about one company (loadSession of
\* the SDK), also against a server that answers them in two calls.
THEOREM AnswersAgree == Spec => []SameCompany
<1>1. GuardInv => SameCompany
  BY DEF GuardInv
<1> QED BY <1>1, GuardConsistent, PTL

\* No right is invented: what the guard reports was held while it asked.
THEOREM NoRightInvented == Spec => []AnswersHeld
<1>1. GuardInv => AnswersHeld
  BY DEF GuardInv, Backed, AnswersHeld
<1> QED BY <1>1, GuardConsistent, PTL

\* A deleted account, or a session that carries an older revision than the row, is
\* refused although the session may have survived in the store (verifySessionUser).
\* A session that carries no revision is refused after the deletion only.
THEOREM BarredRefused == Spec => []BarredStayOut
<1>1. GuardInv => BarredStayOut
  BY DEF GuardInv
<1> QED BY <1>1, GuardConsistent, PTL
-----------------------------------------------------------------------------
(* The visitor's destination.                                              *)

\* Following a return address stays on the way.
LEMMA TailLeads ==
    ASSUME NEW b \in Seq(Place), LeadsToApp(b)
    PROVE  /\ Tail(b) \in Seq(Place)
           /\ \/ Head(b) = "app"
              \/ Head(b) = "companySignup" /\ LeadsToApp(Tail(b))
<1>1. /\ Tail(b) \in Seq(Place) /\ Len(Tail(b)) = Len(b) - 1 /\ Len(b) \in Nat \ {0}
      /\ \A i \in 1 .. Len(Tail(b)) : Tail(b)[i] = b[i + 1]
  BY HeadTailProperties, EmptySeq DEF LeadsToApp
<1>2. Head(b) = b[1]
  OBVIOUS
<1>3. CASE Len(b) = 1
  BY <1>1, <1>2, <1>3 DEF LeadsToApp
<1>4. CASE Len(b) # 1
  <2>0. Len(b) \in Nat /\ Len(b) > 1
    BY <1>1, <1>4
  <2>1. Head(b) = "companySignup" /\ Tail(b) # <<>>
    <3>1. 1 \in 1 .. Len(b) /\ 1 # Len(b) /\ Len(Tail(b)) # 0
      BY <1>1, <2>0
    <3> QED BY <1>2, <3>1, EmptySeq DEF LeadsToApp
  <2>2. Len(Tail(b)) \in 1 .. Len(Tail(b)) /\ Len(Tail(b)) + 1 = Len(b)
    BY <1>1, <2>0
  <2>3. Tail(b)[Len(Tail(b))] = "app"
    BY <1>1, <2>2 DEF LeadsToApp
  <2>4. ASSUME NEW i \in 1 .. Len(Tail(b)), i # Len(Tail(b))
        PROVE  Tail(b)[i] = "companySignup"
    <3>1. Len(Tail(b)) \in Nat
      BY <1>1
    <3>2. i + 1 \in 1 .. Len(Tail(b)) + 1 /\ i + 1 # Len(Tail(b)) + 1
      BY <2>4, <3>1
    <3> QED BY <1>1, <2>2, <3>2 DEF LeadsToApp
  <2> QED BY <1>1, <2>1, <2>3, <2>4 DEF LeadsToApp
<1> QED BY <1>3, <1>4

\* A page put in front of the return addresses.
LEMMA PushTyped ==
    ASSUME NEW b \in Seq(Place), NEW p \in Place
    PROVE  /\ <<p>> \in Seq(Place) /\ <<p>> \o b \in Seq(Place)
           /\ Len(<<p>> \o b) = 1 + Len(b)
           /\ \A i \in 1 .. 1 + Len(b) :
                 (<<p>> \o b)[i] = IF i <= 1 THEN p ELSE b[i - 1]
<1>1. <<p>> \in Seq(Place) /\ Len(<<p>>) = 1 /\ <<p>>[1] = p
  OBVIOUS
<1>2. \A i \in 1 .. 1 + Len(b) : i <= 1 => i = 1
  OBVIOUS
<1> QED BY <1>1, <1>2, ConcatProperties

\* So does signing in from the company form, to come back to it.
LEMMA DetourLeads ==
    ASSUME NEW b \in Seq(Place), LeadsToApp(b)
    PROVE  LeadsToApp(<<"companySignup">> \o b)
<1> DEFINE c == <<"companySignup">> \o b
<1>1. /\ Len(c) = 1 + Len(b) /\ Len(b) \in Nat \ {0} /\ c \in Seq(Place)
      /\ \A i \in 1 .. 1 + Len(b) : c[i] = IF i <= 1 THEN "companySignup" ELSE b[i - 1]
  <2>1. "companySignup" \in Place
    BY DEF Place
  <2> QED BY <2>1, PushTyped, EmptySeq DEF LeadsToApp
<1> HIDE DEF c
<1>2. c # <<>> /\ c[Len(c)] = "app"
  BY <1>1 DEF LeadsToApp
<1>3. ASSUME NEW i \in 1 .. Len(c), i # Len(c)
      PROVE  c[i] = "companySignup"
  <2>1. CASE i = 1
    BY <1>1, <2>1
  <2>2. CASE i # 1
    <3>1. i - 1 \in 1 .. Len(b) /\ i - 1 # Len(b) /\ ~(i <= 1)
      BY <1>1, <1>3, <2>2
    <3> QED BY <1>1, <3>1 DEF LeadsToApp
  <2> QED BY <2>1, <2>2
<1>4. LeadsToApp(c)
  BY <1>2, <1>3 DEF LeadsToApp
<1> QED BY <1>4 DEF c

\* A step that keeps a destination of the application: it stands still, starts
\* over at the application, follows the return address, hands it on, or makes the
\* detour of the company form.
LEMMA WaysOn ==
    ASSUME Bound, Next, goal' = "app", address' # "refused"
    PROVE  \/ UNCHANGED <<page, back, goal, address>>
           \/ page' \in OnTheWay \ Returning /\ back' = <<>>
           \/ page' \in Returning /\ back' = <<"app">>
           \/ /\ goal = "app" /\ address # "refused" /\ page \in Returning
              /\ \/ Return
                 \/ page' \in Returning /\ back' = back
                 \/ page' = "entry" /\ back' = <<"companySignup">> \o back
<1> USE DEF Go, OnTheWay, Returning
<1>1. CASE Redirect
  BY <1>1 DEF Bound, Redirect, NoToken, LoginShortcut, AuthEntryRedirect,
     InvitedEntryRedirect, AuthEntryUnavailable, CompanySignupEntry, CompanySignupUnknown,
     AccountEntry, AccountUnknown, Visit, VisitInvalid, ChallengeExpires,
     CompanyFormUnauthorized, SignInFirst, Pages
<1>2. CASE Submission
  BY <1>2 DEF Bound, Submission, AcceptInvitation, SignIn, CompleteChallenge, CreateCompany,
     SignOut, DeleteOwnAccount
<1>3. CASE UseAnswer
  BY <1>3 DEF UseAnswer
<1>4. CASE UNCHANGED browser
  BY <1>4 DEF browser
<1> QED BY <1>1, <1>2, <1>3, <1>4, Kinds DEF AskGuard, GuardStep

\* The addresses stay sequences of pages, and the destination one of the two.
LEMMA AddressTyped ==
    ASSUME Bound, Next
    PROVE  back' \in Seq(Place) /\ goal' \in {"app", "account"}
<1> DEFINE Pushed == {<<"app">>, <<"account">>, <<"accept">>}
<1>1. back \in Seq(Place) /\ goal \in {"app", "account"}
  BY DEF Bound
<1>2. \/ back' = <<>> \/ back' = back \/ Return \/ back' \in Pushed
      \/ \E p \in {"companySignup", "account", "accept"} : back' = <<p>> \o back
  <2> USE DEF Go
  <2>1. CASE Redirect
    BY <2>1 DEF Redirect, NoToken, LoginShortcut, AuthEntryRedirect,
       InvitedEntryRedirect, AuthEntryUnavailable, CompanySignupEntry, CompanySignupUnknown,
       AccountEntry, AccountUnknown, Visit, VisitInvalid, ChallengeExpires, SignInFirst,
       CompanyFormUnauthorized
  <2>2. CASE Submission
    BY <2>2 DEF Submission, AcceptInvitation, SignIn, CompleteChallenge,
       CreateCompany, SignOut, DeleteOwnAccount, SignInFirst
  <2>3. CASE UseAnswer
    BY <2>3 DEF UseAnswer
  <2>4. CASE UNCHANGED browser
    BY <2>4 DEF browser
  <2> QED BY <2>1, <2>2, <2>3, <2>4, Kinds DEF AskGuard, GuardStep
<1>3. goal' \in {"app", "account"}
  <2>1. CASE Redirect
    BY <1>1, <2>1 DEF Redirect, NoToken, LoginShortcut, AuthEntryRedirect,
       InvitedEntryRedirect, AuthEntryUnavailable, CompanySignupEntry, CompanySignupUnknown,
       AccountEntry, AccountUnknown, Visit, VisitInvalid, ChallengeExpires,
       CompanyFormUnauthorized
  <2>2. CASE Submission
    BY <1>1, <2>2 DEF Submission, AcceptInvitation, SignIn, CompleteChallenge,
       CreateCompany, SignOut, DeleteOwnAccount
  <2>3. CASE UseAnswer
    BY <1>1, <2>3 DEF UseAnswer
  <2>4. CASE UNCHANGED browser
    BY <1>1, <2>4 DEF browser
  <2> QED BY <2>1, <2>2, <2>3, <2>4, Kinds DEF AskGuard, GuardStep
<1>4. CASE Return
  <2>1. CASE back = <<>>
    BY <1>3, <1>4, <2>1, EmptySeq DEF Return, Go
  <2>2. CASE back # <<>>
    BY <1>1, <1>3, <1>4, <2>2, HeadTailProperties DEF Return, Go
  <2> QED BY <2>1, <2>2
<1>5. Pushed \subseteq Seq(Place)
  <2>1. {"app", "account", "accept"} \subseteq Place
    BY DEF Place
  <2> QED BY <1>1, <2>1, PushTyped
<1>6. \A p \in {"companySignup", "account", "accept"} : <<p>> \o back \in Seq(Place)
  <2>1. {"companySignup", "account", "accept"} \subseteq Place
    BY DEF Place
  <2> QED BY <1>1, <2>1, PushTyped
<1> HIDE DEF Pushed
<1> QED BY <1>1, <1>2, <1>3, <1>4, <1>5, <1>6, EmptySeq

\* A visitor on his way to the application is at one of its stops, and the URL
\* there leads to it.
THEOREM WayKept == Spec => []Bound
<1>1. Init => Bound
  BY EmptySeq DEF Init, Bound, OnTheWay, Returning
<1>2. Bound /\ [Next]_vars => Bound'
  <2> SUFFICES ASSUME Bound, [Next]_vars PROVE Bound'
    OBVIOUS
  <2>1. CASE UNCHANGED vars
    BY <2>1 DEF vars, browser, Bound
  <2>2. CASE Next
    <3>1. back' \in Seq(Place) /\ goal' \in {"app", "account"}
      BY <2>2, AddressTyped
    <3>2. ASSUME goal' = "app", address' # "refused"
          PROVE  page' \in OnTheWay /\ (page' \in Returning => LeadsToApp(back'))
      <4>1. CASE UNCHANGED <<page, back, goal, address>>
        BY <3>2, <4>1 DEF Bound
      <4>2. CASE page' \in OnTheWay \ Returning /\ back' = <<>>
        BY <4>2
      <4>3. CASE page' \in Returning /\ back' = <<"app">>
        BY <4>3 DEF LeadsToApp, Returning, OnTheWay
      <4>4. CASE goal = "app" /\ address # "refused" /\ page \in Returning /\ Return
        <5>1. back \in Seq(Place) /\ LeadsToApp(back)
          BY <4>4 DEF Bound
        <5>2. page' = Head(back) /\ back' = Tail(back)
          BY <4>4, <5>1 DEF Return, Go, LeadsToApp
        <5> QED BY <5>1, <5>2, TailLeads DEF OnTheWay, Returning
      <4>5. CASE /\ goal = "app" /\ address # "refused" /\ page \in Returning
                 /\ page' \in Returning /\ back' = back
        BY <4>5 DEF Bound, OnTheWay, Returning
      <4>6. CASE /\ goal = "app" /\ address # "refused" /\ page \in Returning
                 /\ page' = "entry" /\ back' = <<"companySignup">> \o back
        BY <4>6, DetourLeads DEF Bound, OnTheWay
      <4> QED BY <2>2, <3>2, <4>1, <4>2, <4>3, <4>4, <4>5, <4>6, WaysOn
    <3> QED BY <3>1, <3>2 DEF Bound
  <2> QED BY <2>1, <2>2
<1> QED BY <1>1, <1>2, PTL DEF Spec

\* The redirects of the worker, the loaders of the SPA and the forms do not drop a
\* visitor at his account who was going to the application, however often his
\* session or his company is taken from him on the way; only the challenge of the
\* second factor does, when it refuses the application's address.
THEOREM GoalNeverDropped == Spec => []GoalKept
<1>1. Bound => GoalKept
  BY DEF Bound, GoalKept, OnTheWay
<1> QED BY <1>1, WayKept, PTL

=============================================================================
