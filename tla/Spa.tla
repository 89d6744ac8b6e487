--------------------------------- MODULE Spa --------------------------------
(***************************************************************************)
(* The single-page application in one browser tab: the account pages, the  *)
(* dialogs of the second factor, the sign-in and challenge pages, and the  *)
(* server they talk to reduced to what their responses depend on.          *)
(***************************************************************************)
EXTENDS SpaCalls

CONSTANTS
    Errands         \* what a user may have come to do: sets of controls, each with how
                    \* often other tabs of his act meanwhile, at most (bound)

ASSUME ErrandsAssumption == \A e \in Errands : e.controls \subseteq Form

VARIABLES
    errand,         \* what is done in this behaviour
    page,           \* the route on screen
    soleOwner,      \* soleOwnerCompanyId of the Companies page
    challenge,      \* phase of the challenge flow
    dlg,            \* the enrol dialog
    notice,         \* the last notice, "done", "stale" or "failed"
    account,        \* server: does the account exist?
    current,        \* server: the current company
    mfa,            \* server: enrolment pending and active (0: none), the last one
                    \* minted, and the ones this tab activated
    others          \* what other tabs did

uiVars == <<errand, page, soleOwner, challenge, dlg>>
worldVars == <<account, current, mfa, others>>
spaVars == <<callVars, dataVars, busy, left, uiVars, notice, worldVars>>

ClosedDialog == [open |-> FALSE, step |-> "starting", enrollment |-> 0, resumable |-> 0]

companyState == <<"companyState", NoCompany>>
mfaStatus == <<"mfaStatus", NoCompany>>

ValueOf(q) ==
    CASE q = companyState -> current
      [] q = mfaStatus -> mfa.active # 0
      [] OTHER -> NoCompany

\* The pages the errand leads to.
Pages == {control[f].page : f \in errand.controls} \ {"layout"}

SpaInit ==
    /\ jobs = [s \in Slot |-> Free]
    /\ atom = [a \in Atom |-> 0]
    /\ calls = 0 /\ others = 0
    /\ errand \in Errands
    /\ page \in Pages
    /\ soleOwner = NoCompany
    /\ challenge \in IF page = "challenge" THEN {"ready", "expired"} ELSE {"ready"}
    /\ dlg = ClosedDialog
    /\ notice = "none"
    /\ account = TRUE
    /\ current = CHOOSE c \in Company : TRUE
    /\ mfa \in {[pending |-> 0, active |-> e, minted |-> 1, ours |-> {}] :
                   e \in IF "security" \in Pages THEN 0..1 ELSE {0}}
    /\ server = [q \in Query |-> 0]
    /\ reply = [q \in Query |-> [phase |-> "idle"]]
    /\ shown = [q \in Query |-> [version |-> 0, value |-> ValueOf(q), failed |-> FALSE]]
    /\ busy = {}
    /\ left = "no"

\* A click is a task of its own, after the continuations that are ready.  A document
\* that is being replaced takes clicks until the new one is there.
Clickable == Quiet

shownCompany == shown[companyState].value

-----------------------------------------------------------------------------
(***************************************************************************)
(* Clicks.                                                                 *)
(***************************************************************************)
\* Mutant: the controls that switch look at their own component only.
switchPending_Local == FALSE

switchPending == IsWaiting("switchCompany")

\* What each control's disabled attribute and its handler's early return ask for,
\* beside the component not being busy.
MayClick(f, c) ==
    CASE f \in {"handleSwitch", "onSwitcherChange"} -> c # shownCompany /\ ~switchPending
      [] f = "handleLeave" -> soleOwner # c
      [] f = "handleTransfer" -> soleOwner = c
      [] f = "handleSave" -> c = shownCompany /\ "confirmDelete" \notin busy
      [] f = "handleDelete" -> c = shownCompany /\ "settingsForm" \notin busy
      [] f = "submitVerification" -> c = shownCompany /\ challenge = "ready"
      [] f \in {"enrollMfa", "activateMfa", "disableMfa", "handleOpenChange"} -> FALSE
      [] OTHER -> c = shownCompany

\* The switcher in the layout has no state of its own.
Marked(f) ==
    IF f = "onSwitcherChange" THEN busy ELSE busy \cup {control[f].cell}

OnScreen == {f \in errand.controls : OnPage(f, page)}

Click(s, f, c) ==
    /\ Clickable /\ control[f].cell \notin busy /\ MayClick(f, c)
    /\ Call(s, f, control[f].atom, c, 0)
    /\ busy' = Marked(f)
    /\ challenge' = IF f = "submitVerification" THEN "verifying" ELSE challenge
    /\ soleOwner' = IF f = "handleLeave" THEN NoCompany ELSE soleOwner
    /\ UNCHANGED <<errand, dataVars, left, page, dlg, notice, worldVars>>

\* Another route: the old page's components are gone.
Navigate(to) ==
    /\ Clickable /\ page \in AccountPage /\ to # page
    /\ page' = to
    /\ Unmount(jobs, CellsOf(page))
    /\ soleOwner' = NoCompany
    /\ dlg' = ClosedDialog
    /\ UNCHANGED <<errand, atom, calls, dataVars, left, challenge, notice, worldVars>>

\* TransferOwnershipModal closes whether or not a transfer is under way.
CloseTransfer ==
    /\ Clickable /\ page = "companies" /\ "picker" \in busy
    /\ Unmount(jobs, {"picker"})
    /\ UNCHANGED <<atom, calls, dataVars, left, uiVars, notice, worldVars>>

-----------------------------------------------------------------------------
(***************************************************************************)
(* The dialogs of the second factor.  MfaSettingsItem renders the one that *)
(* fits the status on screen.                                              *)
(***************************************************************************)
EnrollRendered == Clickable /\ page = "security" /\ ~shown[mfaStatus].value
EntryIdle == "enrollEntry" \notin busy

\* handleOpenChange(true)
OpenEnroll(s) ==
    /\ EnrollRendered /\ ~dlg.open /\ EntryIdle
    /\ IF dlg.resumable # 0
       THEN /\ dlg' = [dlg EXCEPT !.open = TRUE, !.step = "scan", !.enrollment = dlg.resumable]
            /\ UNCHANGED <<callVars, busy>>
       ELSE /\ dlg' = [dlg EXCEPT !.open = TRUE, !.step = "starting", !.enrollment = 0]
            /\ Call(s, "enrollMfa", "enroll", shownCompany, 0)
            /\ busy' = busy \cup {"enrollStart"}
    /\ UNCHANGED <<errand, dataVars, left, page, soleOwner, challenge, notice, worldVars>>

\* handleOpenChange(false): not while an answer is due.
CloseEnroll ==
    /\ EnrollRendered /\ dlg.open /\ dlg.step \notin {"starting", "recoveryCodes"} /\ EntryIdle
    /\ dlg' = [dlg EXCEPT !.open = FALSE]
    /\ UNCHANGED <<errand, callVars, dataVars, busy, left, page, soleOwner, challenge, notice, worldVars>>

\* handleOpenChange(false) from the recovery codes: the status is fetched again, and
\* a notice says whether it arrived.
PutCodesAway(s) ==
    /\ EnrollRendered /\ dlg.open /\ dlg.step = "recoveryCodes" /\ EntryIdle
    /\ dlg' = [dlg EXCEPT !.open = FALSE]
    /\ RefreshAndWait(s, "handleOpenChange", shownCompany)
    /\ UNCHANGED <<errand, atom, calls, server, shown, busy, left, page, soleOwner, challenge,
                   notice, worldVars>>

\* "Next" and "Back".
TurnStep ==
    /\ EnrollRendered /\ dlg.open /\ EntryIdle
    /\ \/ dlg.step = "scan" /\ dlg' = [dlg EXCEPT !.step = "verify"]
       \/ dlg.step = "verify" /\ dlg' = [dlg EXCEPT !.step = "scan"]
    /\ UNCHANGED <<errand, callVars, dataVars, busy, left, page, soleOwner, challenge, notice, worldVars>>

SubmitCode(s) ==
    /\ EnrollRendered /\ dlg.open /\ dlg.step = "verify" /\ EntryIdle
    /\ Call(s, "activateMfa", "activate", shownCompany, dlg.enrollment)
    /\ busy' = busy \cup {"enrollEntry"}
    /\ UNCHANGED <<dataVars, left, uiVars, notice, worldVars>>

SubmitDisable(s) ==
    /\ Clickable /\ page = "security" /\ shown[mfaStatus].value /\ "disableEntry" \notin busy
    /\ Call(s, "disableMfa", "disable", shownCompany, 0)
    /\ busy' = busy \cup {"disableEntry"}
    /\ UNCHANGED <<dataVars, left, uiVars, notice, worldVars>>

-----------------------------------------------------------------------------
(***************************************************************************)
(* The server.                                                             *)
(***************************************************************************)
Affects(f) ==
    CASE f = "handleRemove" -> {"members"}
      [] f = "activateMfa" -> {"mfaStatus"}
      [] OTHER -> control[f].keys

\* Pages of signed-out users call routes that ask for no session.
NeedsAccount(f) == f \notin {"handleMagicLink", "handleGitHub", "submitVerification"}

\* account_deleted of the response: the account is the caller's own, except
\* where another member is removed.
Deletions(f) ==
    CASE f \in {"handleLeave", "handleDelete", "handleRemove"} -> BOOLEAN
      [] f = "deleteAccount" -> {TRUE}
      [] OTHER -> {FALSE}

CurrentAfter(f, c) ==
    CASE f \in {"handleSwitch", "onSwitcherChange"} -> {c}
      [] f = "handleAdd" -> Company
      [] f \in {"handleLeave", "handleDelete"} -> IF c = current THEN Company \ {c} ELSE {current}
      [] OTHER -> {current}

EnrollmentAccepted(f, enrollment) ==
    CASE f = "enrollMfa" -> mfa.active = 0
      [] f = "activateMfa" -> mfa.active = 0 /\ mfa.pending = enrollment
      [] f = "disableMfa" -> mfa.active # 0
      [] OTHER -> TRUE

MfaAfter(f) ==
    CASE f = "enrollMfa" -> [mfa EXCEPT !.pending = mfa.minted + 1, !.minted = @ + 1]
      [] f = "activateMfa" -> [mfa EXCEPT !.active = mfa.pending, !.pending = 0,
                                          !.ours = @ \cup {mfa.pending}]
      [] f = "disableMfa" -> [mfa EXCEPT !.active = 0]
      [] OTHER -> mfa

Perform(s) ==
    LET f == jobs[s].form
        c == jobs[s].co
    IN  /\ jobs[s].request = "flying"
        /\ NeedsAccount(f) => account
        /\ EnrollmentAccepted(f, jobs[s].arg)
        /\ Changes({QueryOf(n, c) : n \in Affects(f)})
        /\ \E d \in Deletions(f) :
             /\ Performed(s, QueryOf(control[f].awaits, c), d,
                          IF f = "enrollMfa" THEN mfa.minted + 1 ELSE jobs[s].arg)
             /\ account' = (account /\ (~d \/ f = "handleRemove"))
        /\ current' \in CurrentAfter(f, c)
        /\ mfa' = MfaAfter(f)
        /\ UNCHANGED <<atom, calls, reply, shown, busy, left, uiVars, notice, others>>

\* What the route may answer instead, as far as the handlers tell it apart.
Refusals(f, enrollment) ==
    IF NeedsAccount(f) /\ ~account
    THEN {"unauthorized"}
    ELSE {"refused"} \cup
         CASE f = "handleLeave" -> {"lastOwner"}
           [] f = "submitVerification" -> {"challengeExpired"}
           [] f = "activateMfa" /\ mfa.active = 0 /\ mfa.pending # enrollment -> {"enrollmentChanged"}
           [] OTHER -> {}

Refuse(s) ==
    /\ jobs[s].request = "flying"
    /\ \E why \in Refusals(jobs[s].form, jobs[s].arg) : Refused(s, why)
    /\ UNCHANGED <<atom, calls, dataVars, busy, left, uiVars, notice, worldVars>>

\* The user, in another tab: what this tab can notice of it.
OtherTab ==
    /\ others < errand.others /\ account
    /\ others' = others + 1
    /\ \/ /\ "security" \in Pages
          /\ \/ mfa.active = 0 /\ mfa' = MfaAfter("enrollMfa") /\ UNCHANGED server
             \/ mfa.active # 0 /\ mfa' = MfaAfter("disableMfa") /\ Changes({mfaStatus})
             \/ /\ mfa.pending # 0 /\ Changes({mfaStatus})
                /\ mfa' = [mfa EXCEPT !.active = mfa.pending, !.pending = 0]
          /\ UNCHANGED <<account, current>>
       \/ current' \in Company \ {current} /\ Changes({companyState}) /\ UNCHANGED <<account, mfa>>
       \/ account' = FALSE /\ UNCHANGED <<current, mfa, server>>
    /\ UNCHANGED <<callVars, reply, shown, busy, left, uiVars, notice>>

-----------------------------------------------------------------------------
(***************************************************************************)
(* Responses.                                                              *)
(***************************************************************************)
\* The exit of the call: what the server said, or a network error, after which
\* the request may have been carried out or may yet be.
Exits(s) ==
    {"error"} \cup (CASE jobs[s].request = "performed" -> {"success"}
                      [] jobs[s].request = "flying" -> {}
                      [] OTHER -> {jobs[s].request})

\* transformResponse sends an Unauthorized answer of the SPA API to sign-in.
Answer(s) ==
    LET f == jobs[s].form
    IN  /\ Quiet /\ RunsNow(s)
        /\ \E exit \in Exits(s) :
             /\ Resolve(s, exit)
             /\ IF exit = "success"
                THEN Invalidate({QueryOf(n, jobs[s].co) : n \in control[f].keys})
                ELSE UNCHANGED reply
             /\ IF exit = "unauthorized" /\ control[f].atom # "none"
                THEN leaveSpaTo("signIn")
                ELSE UNCHANGED left
        /\ UNCHANGED <<calls, server, shown, busy, uiVars, notice, worldVars>>

\* A list arrives; MemberList and CompanySettingsForm are keyed by the current
\* company, the second factor's dialogs by its status.
Replaced(q) ==
    IF shown'[q].value = shown[q].value THEN {}
    ELSE CASE q = companyState -> {"memberList", "settingsForm", "confirmDelete"}
           [] q = mfaStatus -> {"enrollStart", "enrollEntry", "disableEntry"}
           [] OTHER -> {}

ListRead(q) ==
    /\ account
    /\ Read(q, ValueOf(q))
    /\ UNCHANGED <<callVars, server, shown, busy, left, uiVars, notice, worldVars>>

ListArrives(q) ==
    /\ Quiet
    /\ Arrive(q)
    /\ Unmount(jobs, Replaced(q))
    /\ dlg' = IF "enrollEntry" \in Replaced(q) THEN ClosedDialog ELSE dlg
    /\ UNCHANGED <<errand, atom, calls, server, left, page, soleOwner, challenge, notice, worldVars>>

ListFails(q) ==
    /\ Quiet
    /\ FetchFails(q)
    /\ IF account THEN UNCHANGED left ELSE leaveSpaTo("signIn")
    /\ UNCHANGED <<callVars, server, busy, uiVars, notice, worldVars>>

-----------------------------------------------------------------------------
(***************************************************************************)
(* Continuations of the handlers, by what they do with the exit.           *)
(***************************************************************************)
Resolved(s) == jobs[s].stage = "resolved"
Succeeded(s) == Resolved(s) /\ jobs[s].exit = "success"
Failed(s) == Resolved(s) /\ jobs[s].exit # "success"
FormIn(s, forms) == jobs[s].form \in forms

\* account_deleted: the document is left for sign-in.  handleLeave keeps its
\* component busy meanwhile, the confirmation dialog closes.
LeaveDeleted(s) ==
    /\ Succeeded(s) /\ FormIn(s, {"handleLeave", "handleDelete"}) /\ jobs[s].deleted
    /\ leaveSpaTo("accountDeleted")
    /\ IF FormIn(s, {"handleLeave"})
       THEN Done(s) /\ UNCHANGED busy
       ELSE Finish(s)
    /\ UNCHANGED <<atom, calls, dataVars, uiVars, notice, worldVars>>

\* A finished transfer closes its dialog and clears soleOwnerCompanyId: of the page
\* it was made on, which may be gone when its picker is.
TransferPageThere(s) ==
    CASE ~FormIn(s, {"handleTransfer"}) -> {FALSE}
      [] jobs[s].attached -> {TRUE}
      [] OTHER -> BOOLEAN

\* notifyAfterRefresh.  A deleted company's page is left for the list.
StartRefresh(s) ==
    /\ Succeeded(s) /\ control[jobs[s].form].awaits # "none"
    /\ FormIn(s, {"handleLeave", "handleDelete"}) => ~jobs[s].deleted
    /\ \E there \in TransferPageThere(s) :
         /\ Unmount([jobs EXCEPT ![s].stage = "refreshing"],
                    IF FormIn(s, {"handleDelete"}) THEN CellsOf(page) \ CellsOf("companies")
                    ELSE IF there THEN {"picker"}
                    ELSE {})
         /\ soleOwner' = IF there THEN NoCompany ELSE soleOwner
    /\ page' = IF FormIn(s, {"handleDelete"}) THEN "companies" ELSE page
    /\ dlg' = IF page' # page THEN ClosedDialog ELSE dlg
    /\ UNCHANGED <<errand, atom, calls, dataVars, left, challenge, notice, worldVars>>

\* notifyAfterRefresh, once the query has settled: the success notice, or one
\* that says the change was made and the page should be reloaded.
EndRefresh(s) ==
    /\ Refreshed(s)
    /\ notice' = IF shown[AwaitedQuery(s)].failed THEN "stale" ELSE "done"
    /\ Finish(s)
    /\ UNCHANGED <<atom, calls, dataVars, left, uiVars, worldVars>>

\* DangerZone signs out after the deletion, whatever comes of it, and leaves.
DeletionConfirmed(s) ==
    /\ Succeeded(s) /\ FormIn(s, {"deleteAccount"})
    /\ jobs' = [jobs EXCEPT ![s].stage = "signingOut"]
    /\ UNCHANGED <<atom, calls, dataVars, busy, left, uiVars, notice, worldVars>>

DeletionSignedOut(s) ==
    /\ Quiet /\ jobs[s].stage = "signingOut"
    /\ leaveSpaTo("accountDeleted")
    /\ Finish(s)
    /\ UNCHANGED <<atom, calls, dataVars, uiVars, notice, worldVars>>

\* signOutAndRedirect stays busy until the document is gone.
LeaveSignedOut(s) ==
    /\ Succeeded(s) /\ FormIn(s, {"signOutAndRedirect"})
    /\ leaveSpaTo("home")
    /\ Done(s)
    /\ UNCHANGED <<atom, calls, dataVars, busy, uiVars, notice, worldVars>>

\* handleGitHub too; better-auth's client sends the document to the provider by
\* itself, whatever leaveSpaTo was asked.
LeaveForProvider(s) ==
    /\ Succeeded(s) /\ FormIn(s, {"handleGitHub"})
    /\ left' = "provider"
    /\ Done(s)
    /\ UNCHANGED <<atom, calls, dataVars, busy, uiVars, notice, worldVars>>

\* Profile, avatar and magic link: a message, and the form is free again.
EndSaved(s) ==
    /\ Succeeded(s) /\ FormIn(s, {"saveProfile", "uploadAvatar", "handleMagicLink"})
    /\ notice' = "done"
    /\ Finish(s)
    /\ UNCHANGED <<atom, calls, dataVars, left, uiVars, worldVars>>

\* reduceMfaChallengeFlow on verification_resolved
reduceMfaChallengeFlow(exit) ==
    CASE exit = "success" -> "redirecting"
      [] exit = "challengeExpired" -> "expired"
      [] OTHER -> "ready"

EndVerification(s) ==
    /\ Resolved(s) /\ FormIn(s, {"submitVerification"})
    /\ challenge' = reduceMfaChallengeFlow(jobs[s].exit)
    /\ IF challenge' = "redirecting" THEN leaveSpaTo("redirectUrl") ELSE UNCHANGED left
    /\ Finish(s)
    /\ UNCHANGED <<errand, atom, calls, dataVars, page, soleOwner, dlg, notice, worldVars>>

\* The enrol dialog's state after an answer; a dialog that is gone keeps none.
\* Mutant: an enrolment that is already active counts as activated.
EnrollAnswered_Lenient(s) ==
    CASE jobs[s].form = "enrollMfa" /\ jobs[s].exit = "success" ->
           [dlg EXCEPT !.step = "scan", !.enrollment = jobs[s].arg, !.resumable = jobs[s].arg]
      [] jobs[s].form = "enrollMfa" /\ jobs[s].exit # "success" -> [dlg EXCEPT !.step = "failed"]
      [] jobs[s].form = "activateMfa" /\ jobs[s].exit \in {"success", "refused"} ->
           [dlg EXCEPT !.step = "recoveryCodes", !.enrollment = jobs[s].arg, !.resumable = 0]
      [] jobs[s].form = "activateMfa" /\ jobs[s].exit = "enrollmentChanged" ->
           [dlg EXCEPT !.resumable = 0]
      [] OTHER -> dlg

EnrollAnswered(s) ==
    CASE jobs[s].form = "enrollMfa" /\ jobs[s].exit = "success" ->
           [dlg EXCEPT !.step = "scan", !.enrollment = jobs[s].arg, !.resumable = jobs[s].arg]
      [] jobs[s].form = "enrollMfa" /\ jobs[s].exit # "success" -> [dlg EXCEPT !.step = "failed"]
      [] jobs[s].form = "activateMfa" /\ jobs[s].exit = "success" ->
           [dlg EXCEPT !.step = "recoveryCodes", !.enrollment = jobs[s].arg, !.resumable = 0]
      [] jobs[s].form = "activateMfa" /\ jobs[s].exit = "enrollmentChanged" ->
           [dlg EXCEPT !.resumable = 0]
      [] OTHER -> dlg

EndEnroll(s) ==
    /\ Resolved(s) /\ FormIn(s, {"enrollMfa", "activateMfa"})
    /\ dlg' = IF jobs[s].attached THEN EnrollAnswered(s) ELSE dlg
    /\ Finish(s)
    /\ UNCHANGED <<errand, atom, calls, dataVars, left, page, soleOwner, challenge, notice, worldVars>>

\* A failure is shown by the control's own means; LastOwner offers the transfer.
EndFailed(s) ==
    /\ Failed(s) /\ ~FormIn(s, {"submitVerification", "enrollMfa", "activateMfa"})
    /\ IF FormIn(s, {"handleLeave"}) /\ jobs[s].exit = "lastOwner"
       THEN soleOwner' = (IF jobs[s].attached THEN jobs[s].co ELSE soleOwner) /\ UNCHANGED notice
       ELSE notice' = "failed" /\ UNCHANGED soleOwner
    /\ \/ Finish(s)
       \* A rejected promise: the sign-in page's handlers have no catch.
       \/ /\ FormIn(s, {"handleMagicLink", "handleGitHub"}) /\ jobs[s].exit = "error"
          /\ Done(s) /\ UNCHANGED busy
    /\ UNCHANGED <<errand, atom, calls, dataVars, left, page, challenge, dlg, worldVars>>

-----------------------------------------------------------------------------
Continue(s) ==
    \/ LeaveDeleted(s) \/ StartRefresh(s) \/ EndRefresh(s) \/ DeletionConfirmed(s)
    \/ DeletionSignedOut(s) \/ LeaveSignedOut(s) \/ LeaveForProvider(s) \/ EndSaved(s)
    \/ EndVerification(s) \/ EndEnroll(s) \/ EndFailed(s)

\* The browser and the handlers, without the user and without the server.
BrowserStep ==
    \/ \E s \in Slot : Answer(s) \/ Continue(s)
    \/ \E q \in Query : ListRead(q) \/ ListArrives(q) \/ ListFails(q)

SpaNext ==
    \/ \E to \in Pages : Navigate(to)
    \/ CloseTransfer \/ CloseEnroll \/ TurnStep \/ OtherTab
    \/ \E s \in Slot :
         \/ \E f \in OnScreen, c \in Company : Click(s, f, c)
         \/ OpenEnroll(s) \/ PutCodesAway(s) \/ SubmitCode(s) \/ SubmitDisable(s)
         \/ Perform(s) \/ Refuse(s)
    \/ BrowserStep

\* Promise continuations run, and every fetch of the browser ends with a
\* response or an error.  Nobody has to click.
SpaSpec == SpaInit /\ [][SpaNext]_spaVars /\ WF_spaVars(BrowserStep)

-----------------------------------------------------------------------------
\* Switching the company is never interrupted by switching it elsewhere: both
\* places that switch go by the pending state of the atom they share.
SwitchUninterrupted ==
    \A s \in Slot :
        jobs[s].form \in {"handleSwitch", "onSwitcherChange"} => ~jobs[s].interrupted

\* A success notice means the list on screen has the change: notifyAfterRefresh
\* waits for the fetch the mutation caused, or the handler asked for, not for an
\* older one.  A call that
\* was interrupted is not answered for itself and is left out.
NoticeMatchesScreen ==
    [][\A s \in Slot :
          (/\ jobs[s].stage = "refreshing" /\ jobs'[s].stage = "idle"
           /\ notice' = "done" /\ ~jobs[s].interrupted)
          => shown'[AwaitedQuery(s)].version >= jobs[s].version]_spaVars

\* Recovery codes are shown only for the enrolment this tab's activation made
\* active, whatever other tabs enrolled or activated meanwhile.
CodesAreActive ==
    dlg.open /\ dlg.step = "recoveryCodes" => dlg.enrollment \in mfa.ours

\* Nothing is under way that may bring another status of the second factor.
StatusSettled ==
    /\ reply[mfaStatus].phase = "idle"
    /\ \A s \in Slot : ~(jobs[s].form = "disableMfa" /\ jobs[s].stage = "mutating")

\* Activation does not take its own recovery codes away: with the status settled
\* an open enrolment dialog stays open through the activation and on, and codes on
\* screen stay, until the user closes the dialog or leaves the page.
CodesStayOnScreen ==
    [][dlg.open /\ StatusSettled
       => \/ /\ dlg'.open /\ StatusSettled'
             /\ dlg.step = "recoveryCodes" => dlg'.step = "recoveryCodes"
          \/ page' # page
          \/ CloseEnroll
          \/ \E s \in Slot : PutCodesAway(s)]_spaVars

\* Every control of the account and challenge pages that was made busy is
\* released, or the document is left: once the user stops clicking nothing stays
\* busy.  The sign-in pages are left out, their handlers do not catch a rejected
\* promise.
ControlsReleased == <>[](busy \subseteq {"signPage"} \/ left # "no")
=============================================================================
