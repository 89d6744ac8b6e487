-------------------------------- MODULE Entry -------------------------------
(***************************************************************************)
(* The way of one visitor between a consumer application and the pages of  *)
(* this service: the redirects of the worker (src/handlers), the routes of *)
(* the SPA (web/src/app/router.tsx) and the forms the visitor fills in.    *)
(*                                                                         *)
(* Each stop decides from the session and the memberships as they are when *)
(* it is reached, and the next stop decides anew.  A URL carries the page  *)
(* to return to, which may itself carry one: back is the sequence of them. *)
(* How a consumer acts on the guard's answer is external (the comments of  *)
(* packages/auth-client/src/types.ts say what it should do).               *)
(***************************************************************************)
EXTENDS Consumer, Sequences

CONSTANTS
    MaxBack         \* bound: nested return addresses

VARIABLES
    page,           \* where the browser is
    back,           \* the pages its URL returns to, the nearest first
    goal,           \* where the visitor is going
    address,        \* whether the challenge accepts that page's address
    cookie,         \* the browser holds a session cookie
    invitation      \* the state of the invitation he has received

browser == <<page, back, goal, address, cookie, invitation>>
vars == <<accounts, req, browser>>

\* Stops that go on by themselves, and pages that wait for the visitor.
Stops == {"app", "root", "entry", "invited", "companySignup", "account", "accept"}
Pages == {"appShown", "appError", "signIn", "companyForm", "accountShown",
          "acceptFailed", "mfa", "mfaExpired", "error"}

Init ==
    /\ ConsumerInit
    /\ page = "appShown" /\ back = <<>> /\ goal = "app"
    /\ address \in {"accepted", "unaccepted"}
    /\ cookie = (session # None)
    /\ invitation \in {"PENDING", "NONE"}

-----------------------------------------------------------------------------
\* Go to p, whose URL returns to b.
Go(p, b) == page' = p /\ back' = b

\* Go to the page that the URL returns to, /account if it names none.
Return == IF back = <<>> THEN Go("account", <<>>) ELSE Go(Head(back), Tail(back))

\* Leave for the sign-in page, to come back to this one.
SignInFirst == Len(back) < MaxBack /\ Go("entry", <<page>> \o back)

Elsewhere == UNCHANGED <<accounts, req>>

\* checkSession, and the session alone as the SPA's client reads it.
Active == cookie /\ session # None /\ current # Gone
HasSession == cookie /\ session # None

-----------------------------------------------------------------------------
(* The consumer.                                                           *)

AskGuard == page = "app" /\ cookie /\ LoadSession /\ UNCHANGED browser

\* Without a cookie the guard asks nobody.
NoToken ==
    /\ page = "app" /\ ~cookie /\ req.pc = "idle"
    /\ Go("entry", <<"app">>)
    /\ UNCHANGED <<accounts, req, goal, address, cookie, invitation>>

GuardStep == Rpc /\ UNCHANGED browser

\* The consumer shows its page, asks for a company, has the visitor sign in, or
\* reports that it could not find out.
UseAnswer ==
    /\ page = "app" /\ req.pc = "done"
    /\ IF req.session.ok
       THEN IF req.session.company = None THEN Go("companySignup", <<"app">>)
            ELSE Go("appShown", <<>>)
       ELSE IF req.reason = "UNSPECIFIED" THEN Go("appError", <<>>)
            ELSE Go("entry", <<"app">>)
    /\ req' = NoRequest
    /\ UNCHANGED <<accounts, goal, address, cookie, invitation>>

-----------------------------------------------------------------------------
(* The worker's redirects.                                                 *)

\* "/" and "/login": to the account, or to sign in for it; a failing check
\* counts as no session.
LoginShortcut ==
    /\ page = "root"
    /\ \/ Active /\ Go("account", <<>>)
       \/ Go("entry", <<"account">>)
    /\ Elsewhere /\ UNCHANGED <<goal, address, cookie, invitation>>

\* Mutant: any session cookie is taken for a session.
AuthEntryRedirect_CookieOnly ==
    /\ page = "entry"
    /\ IF ~cookie THEN Go("signIn", back) ELSE Return
    /\ Elsewhere /\ UNCHANGED <<goal, address, cookie, invitation>>

\* Mutant: the page to return to is not handed on to the company form.
AuthEntryRedirect_Forgetful ==
    /\ page = "entry"
    /\ IF ~Active THEN Go("signIn", back)
       ELSE IF Joined = {} THEN Go("companySignup", <<"account">>)
       ELSE Return
    /\ Elsewhere /\ UNCHANGED <<goal, address, cookie, invitation>>

\* "/auth/" and "/auth/signup": a visitor with a session is sent on, past the
\* company form if he has a company; everyone else gets the sign-in page, also
\* when the check fails.
AuthEntryRedirect ==
    /\ page = "entry"
    /\ IF ~Active THEN Go("signIn", back)
       ELSE IF Joined = {} THEN Go("companySignup", back)
       ELSE Return
    /\ Elsewhere /\ UNCHANGED <<goal, address, cookie, invitation>>

\* The same address with an invitation: on to its acceptance, after signing in.
InvitedEntryRedirect ==
    /\ page = "invited"
    /\ IF Active THEN Go("accept", <<>>) ELSE Go("signIn", <<"accept">>)
    /\ Elsewhere /\ UNCHANGED <<goal, address, cookie, invitation>>

AuthEntryUnavailable ==
    /\ page \in {"entry", "invited"} /\ cookie
    /\ Go("signIn", IF page = "entry" THEN back ELSE <<"accept">>)
    /\ Elsewhere /\ UNCHANGED <<goal, address, cookie, invitation>>

-----------------------------------------------------------------------------
(* The routes of the SPA.                                                  *)

\* The company form, unless there is no session or already a company.  The API
\* refuses the session of a deleted account, which leaves for the sign-in page.
CompanySignupEntry ==
    /\ page = "companySignup"
    /\ IF ~Active THEN SignInFirst
       ELSE IF Joined = {} THEN Go("companyForm", back)
       ELSE Return
    /\ Elsewhere /\ UNCHANGED <<goal, address, cookie, invitation>>

\* A reading that fails shows the form.
CompanySignupUnknown ==
    /\ page = "companySignup"
    /\ Go("companyForm", back)
    /\ Elsewhere /\ UNCHANGED <<goal, address, cookie, invitation>>

AccountEntry ==
    /\ page = "account"
    /\ IF ~Active THEN SignInFirst
       ELSE IF Joined = {} THEN Go("companySignup", <<"account">>)
       ELSE Go("accountShown", <<>>)
    /\ Elsewhere /\ UNCHANGED <<goal, address, cookie, invitation>>

\* A state that cannot be read shows the account.
AccountUnknown ==
    /\ page = "account" /\ HasSession
    /\ Go("accountShown", <<>>)
    /\ Elsewhere /\ UNCHANGED <<goal, address, cookie, invitation>>

\* The loader of the invitation accepts it.  A refusal, or an answer that is
\* lost, shows the failure.
AcceptInvitation ==
    /\ page = "accept"
    /\ \/ ~Active /\ SignInFirst /\ UNCHANGED <<accounts, invitation>>
       \/ /\ Active /\ invitation = "PENDING"
          /\ \E c \in Company : Join(c, "MEMBER")
          /\ invitation' = "ACCEPTED" /\ UNCHANGED changes
          /\ Return \/ Go("acceptFailed", <<>>)
       \/ HasSession /\ Go("acceptFailed", <<>>) /\ UNCHANGED <<accounts, invitation>>
    /\ UNCHANGED <<req, goal, address, cookie>>

-----------------------------------------------------------------------------
(* The visitor.                                                            *)

\* The links that an invitation gives him.
Invited == IF invitation = "NONE" THEN {} ELSE {"invited", "accept"}

\* He opens a page, on purpose.
Visit ==
    /\ page \in Pages
    /\ \E p \in {"app", "root", "account"} \cup Invited :
         /\ Go(p, <<>>)
         /\ goal' = IF p = "app" THEN "app" ELSE "account"
         /\ address' \in IF p = "app" THEN {"accepted", "unaccepted"} ELSE {"accepted"}
    /\ Elsewhere /\ UNCHANGED <<cookie, invitation>>

\* A link to the sign-in page whose parameters are not accepted.
VisitInvalid ==
    /\ page \in {"signIn", "appShown"}
    /\ Go("error", <<>>)
    /\ Elsewhere /\ UNCHANGED <<goal, address, cookie, invitation>>

\* A session is issued; a deleted account's address makes a new account.
Issue ==
    /\ session' = revision /\ cookie' = TRUE
    /\ current' = IF current = Gone THEN None ELSE current
    /\ UNCHANGED <<role, revision, hook, changes>>

\* The magic link or GitHub brings him to the page his URL returns to, or to the
\* challenge of the second factor.
SignIn ==
    /\ page = "signIn" /\ ~hook
    /\ \/ Issue /\ Return
       \/ /\ current # Gone /\ Go("mfa", back) /\ cookie' = FALSE
          /\ UNCHANGED accounts
    /\ UNCHANGED <<req, goal, address, invitation>>

\* The challenge is passed: back to where he was going, or to /account when that
\* address is not accepted.  The challenge takes addresses of trusted origins
\* without a fragment, the sign-in page any of an allowed host; the pages of this
\* service are accepted whatever they return to.
CompleteChallenge ==
    /\ page = "mfa" /\ current # Gone
    /\ Issue
    /\ IF back # <<>> /\ Head(back) = "app" /\ address # "accepted"
       THEN Go("account", <<>>) /\ address' = "refused"
       ELSE Return /\ UNCHANGED address
    /\ UNCHANGED <<req, goal, invitation>>

ChallengeExpires ==
    /\ page = "mfa" /\ Go("mfaExpired", <<>>)
    /\ Elsewhere /\ UNCHANGED <<goal, address, cookie, invitation>>

\* The company form: created, or found to exist already, he goes on; a failure
\* leaves him there.
CreateCompany ==
    /\ page = "companyForm" /\ Active
    /\ \/ Joined = {} /\ (\E c \in Company : Join(c, "OWNER")) /\ UNCHANGED changes
       \/ Joined # {} /\ UNCHANGED accounts
    /\ Return
    /\ UNCHANGED <<req, goal, address, cookie, invitation>>

\* The API refuses his session.
CompanyFormUnauthorized ==
    /\ page = "companyForm" /\ ~Active
    /\ Len(back) < MaxBack /\ Go("entry", <<"companySignup">> \o back)
    /\ Elsewhere /\ UNCHANGED <<goal, address, cookie, invitation>>

\* He signs out, from the company form to the sign-in page and from the account
\* to "/", unless the store fails.
SignOut ==
    /\ page \in {"companyForm", "accountShown"}
    /\ session' = None /\ cookie' = FALSE
    /\ IF page = "companyForm" THEN Go("signIn", <<"account">>) ELSE Go("root", <<>>)
    /\ goal' = "account"
    /\ UNCHANGED <<current, role, revision, hook, changes, req, address, invitation>>

\* He deletes his account; the sign-out that follows may fail, and the page he is
\* sent to is the one that does not look at the session.
DeleteOwnAccount ==
    /\ page = "accountShown" /\ Active
    /\ current' = Gone /\ role' = [c \in Company |-> None] /\ hook' = TRUE
    /\ \/ session' = None /\ cookie' = FALSE
       \/ UNCHANGED <<session, cookie>>
    /\ Go("signIn", <<"account">>)
    /\ UNCHANGED <<revision, changes, req, goal, address, invitation>>

-----------------------------------------------------------------------------
Next ==
    \/ AccountChange /\ UNCHANGED browser
    \/ DeleteSessionsOf /\ UNCHANGED browser
    \/ AskGuard \/ NoToken \/ GuardStep \/ UseAnswer
    \/ LoginShortcut \/ AuthEntryRedirect \/ InvitedEntryRedirect \/ AuthEntryUnavailable
    \/ CompanySignupEntry \/ CompanySignupUnknown \/ AccountEntry \/ AccountUnknown
    \/ AcceptInvitation
    \/ Visit \/ VisitInvalid \/ SignIn \/ CompleteChallenge \/ ChallengeExpires
    \/ CreateCompany \/ CompanyFormUnauthorized \/ SignOut \/ DeleteOwnAccount

\* A browser follows its redirects and an RPC ends (it has a timeout); a store
\* that is asked again and again to delete a session does so in the end.  The
\* visitor may do nothing.
Fairness ==
    /\ WF_vars(AskGuard \/ NoToken \/ GuardStep \/ UseAnswer)
    /\ WF_vars(LoginShortcut \/ AuthEntryRedirect \/ InvitedEntryRedirect
               \/ CompanySignupEntry \/ AccountEntry \/ AcceptInvitation)
    /\ SF_vars(SignOutOutdated(TRUE) /\ UNCHANGED browser)

Spec == Init /\ [][Next]_vars /\ Fairness

-----------------------------------------------------------------------------
\* The redirects end: wherever the visitor is sent, he comes to a page that
\* waits for him.  The session he shows may be gone, outdated or that of a
\* deleted account, his company may be taken from him on the way.
Arrives == (page \in Stops) ~> (page \in Pages)

\* A visitor on his way to the application is not dropped at his account, over
\* sign-in, second factor and company form, unless the challenge of his second
\* factor has refused the application's address.
GoalKept == page = "accountShown" /\ goal = "app" => address = "refused"

=============================================================================
