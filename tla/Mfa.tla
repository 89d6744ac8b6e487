-------------------------------- MODULE Mfa ---------------------------------
(***************************************************************************)
(* The second factor of one user: enrolment, activation, removal, the      *)
(* operator's rescue, and the login challenge with its attempt budget      *)
(* (src/mfa/, src/auth-plugins/mfa-challenge.ts, src/attempt-budget.ts,    *)
(* db/repositories/mfa-totp.ts).  Every row and key that these use cases   *)
(* touch belongs to the user or to one of the user's challenges, so one    *)
(* user is the whole component.                                            *)
(*                                                                         *)
(* A request occupies a slot; one action per SQL statement, call of the    *)
(* TTL store or call of better-auth moves job[t].pc on.  Time runs in TOTP *)
(* time steps of 30 seconds.  A code is what it proves: the enrolment it   *)
(* was made for and the time step, or the number of the recovery code.     *)
(*                                                                         *)
(* Left out: encryption, mails, audit rows, redirects, and the per-IP and  *)
(* per-session budgets in front of the routes, which fail open.            *)
(***************************************************************************)
EXTENDS RowStore, TtlStore, FiniteSets

CONSTANTS
    Totp,               \* the user's row of mfa_totp
    Enrollment, Challenge, Session,  \* random ids: each is handed out once
    CodeNo,             \* the numbers of the recovery codes of an enrolment
    MaxNow,             \* bound of the clock
    MaxCount,           \* bound of a counter when another attempt arrives
    LoginAttempts,      \* maxAttempts of mfaLoginChallenge
    LoginWindow,        \* its windowSeconds, also the TTL of a challenge
    DisableAttempts,    \* maxAttempts of mfaDisablePerUser
    DisableWindow,      \* its windowSeconds
    ChallengeEnabled,   \* isMfaChallengeEnabled: FALSE is the kill switch
    Tried,              \* the codes that clients submit
    None,               \* no row, no id
    Ops,                \* the requests that are served
    InitiallyEnabled    \* whether the user has the second factor at the start

VARIABLES
    job,        \* job[t]: the request that slot t serves
    live,       \* the sessions in the TTL store
    delivered,  \* the sessions whose cookie reached the client
    used,       \* the ids handed out so far
    origin,     \* history: what a session was issued for
    activator,  \* history: the session that activated the second factor
    spent,      \* history: the uses of codes, pairs <<code, purpose>>
    tries,      \* history: the codes compared for each challenge
    shown       \* history: the enrolments shown to the client

sessions == <<live, delivered, origin, activator>>
history == <<spent, tries, shown>>
vars == <<db, own, held, store, now, job, used, sessions, history>>

-----------------------------------------------------------------------------
(* Rows and keys.                                                          *)

RecoveryCode == Enrollment \X CodeNo
Row == {Totp} \cup RecoveryCode
CodesOf(e) == {e} \X CodeNo

Step == 0 .. MaxNow + 1
TotpRow == [enrollmentId : Enrollment, verified : BOOLEAN,
            lastUsedTimestep : Step]
CodeValue == {"unused", "used", None}

\* A submitted code: <<"totp", enrolment, time step>> or
\* <<"recovery_code", enrolment, number>>.
Code == ({"totp"} \X Enrollment \X Step)
        \cup ({"recovery_code"} \X Enrollment \X CodeNo)

challengeKey(c) == <<"mfa:login-challenge", c>>
attemptsKey(c) == <<"mfa:login-challenge-attempts", c>>
disableAttemptsKey == <<"mfa:disable-attempts", None>>
MfaKey == {challengeKey(c) : c \in Challenge}
          \cup {attemptsKey(c) : c \in Challenge} \cup {disableAttemptsKey}

Op == {"enroll", "activate", "disable", "forceDisable", "signIn", "verify"}
Pc == {"idle", "insertEnrollment", "insertCodes", "findWinner", "listCodes",
       "revoke", "activate", "spend", "match", "consumeChallenge",
       "consumeCode", "resetBudget", "deleteTotp", "deleteCodes", "commit",
       "readVerification", "openChallenge", "deleteSession", "issueSession",
       "expire"}

\* A request: session is the actor's, or the one a sign-in has created; left
\* is attemptsLeft of the budget it has spent from.
Job == [op : Op \cup {"none"}, pc : Pc, session : Session \cup {None},
        enrollment : Enrollment \cup {None}, code : Code \cup {None},
        challenge : Challenge \cup {None}, left : Nat]

NoJob == [op |-> "none", pc |-> "idle", session |-> None,
          enrollment |-> None, code |-> None, challenge |-> None, left |-> 0]

ASSUME BudgetsPositive ==
    /\ LoginAttempts \in Nat \ {0} /\ LoginWindow \in Nat \ {0}
    /\ DisableAttempts \in Nat \ {0} /\ DisableWindow \in Nat \ {0}
    /\ MaxNow \in Nat \ {0} /\ MaxCount \in Nat

ASSUME InputsTyped ==
    /\ Tried \subseteq Code /\ Key = MfaKey
    /\ ChallengeEnabled \in BOOLEAN /\ InitiallyEnabled \in BOOLEAN

\* Markers are no ids and no rows, and no id is the name of a request.
ASSUME MarkersApart ==
    /\ None \notin Enrollment \cup Challenge \cup Session \cup Code \cup TotpRow
    /\ None \notin {"unused", "used"}
    /\ Unwritten \notin TotpRow \cup CodeValue /\ Totp \notin RecoveryCode
    /\ (Op \cup {"primary"}) \cap Challenge = {}
    /\ NoValue \in Nat

isMfaEnabled(row) == row # None /\ row.verified

\* The user starts with one session, without the second factor or with an
\* enrolment that this session has activated at time step 0.
Init ==
    /\ \E e \in Enrollment, s \in Session :
          /\ db = [r \in Row |->
                     IF ~InitiallyEnabled THEN None
                     ELSE IF r = Totp
                     THEN [enrollmentId |-> e, verified |-> TRUE,
                           lastUsedTimestep |-> 0]
                     ELSE IF r \in CodesOf(e) THEN "unused" ELSE None]
          /\ live = {s} /\ delivered = {s}
          /\ used = {s} \cup IF InitiallyEnabled THEN {e} ELSE {}
          /\ origin = [x \in Session |-> IF x = s THEN "primary" ELSE None]
          /\ activator = IF InitiallyEnabled THEN s ELSE None
    /\ own = [t \in Slot |-> Clean]
    /\ held = {}
    /\ store = [k \in Key |-> NoEntry]
    /\ now = 1
    /\ job = [t \in Slot |-> NoJob]
    /\ spent = {} /\ tries = [c \in Challenge |-> 0] /\ shown = {}

-----------------------------------------------------------------------------
(* The shapes of a step.                                                   *)

At(t, pc) == job[t].pc = pc
GoTo(t, pc) == [job[t] EXCEPT !.pc = pc]
Fresh(x) == x \notin used

\* Slot t goes on with job j.
Continue(t, j) == job' = [job EXCEPT ![t] = j]

\* The request is answered; a transaction it has open rolls back.
End(t) == Discard(t) /\ Continue(t, NoJob)

\* A request arrives.
Begin(t, j) ==
    /\ job[t] = NoJob
    /\ j.op \in Ops
    /\ Continue(t, j)
    /\ UNCHANGED <<db, own, held, store, now, used, sessions, history>>

\* The client whose cookie is session s.
Actor(s) == s \in live /\ s \in delivered

\* A single statement outside a transaction: it waits for the row's lock and
\* commits at once.
Autocommit(t, r, value) ==
    /\ Free(t, r, "NO KEY UPDATE")
    /\ db' = [db EXCEPT ![r] = value]
    /\ UNCHANGED <<own, held>>

-----------------------------------------------------------------------------
(* enroll.                                                                 *)

\* No row: a new enrolment.  A pending one is shown again; an active one is
\* AlreadyEnabled.
Enroll(t) == \E s \in Session :
    /\ Actor(s)
    /\ \/ /\ db[Totp] = None
          /\ \E e \in Enrollment :
               /\ Fresh(e)
               /\ job[t] = NoJob /\ "enroll" \in Ops
               /\ Continue(t, [NoJob EXCEPT !.op = "enroll",
                                            !.pc = "insertEnrollment",
                                            !.enrollment = e])
               /\ used' = used \cup {e}
               /\ UNCHANGED <<db, own, held, store, now, sessions, history>>
       \/ /\ db[Totp] # None /\ ~isMfaEnabled(db[Totp])
          /\ Begin(t, [NoJob EXCEPT !.op = "enroll", !.pc = "listCodes",
                                    !.enrollment = db[Totp].enrollmentId])

\* INSERT ... ON CONFLICT DO NOTHING waits for whoever inserts or deletes the
\* row and then tells whether it was the one to insert it.
InsertMfaTotpEnrollment(t) ==
    /\ At(t, "insertEnrollment")
    /\ LET row == [enrollmentId |-> job[t].enrollment, verified |-> FALSE,
                   lastUsedTimestep |-> 0]
       IN  \/ /\ db[Totp] = None
              /\ Execute(t, {<<Totp, "UPDATE">>}, [own[t] EXCEPT ![Totp] = row])
              /\ Continue(t, GoTo(t, "insertCodes"))
           \/ /\ db[Totp] # None
              /\ Execute(t, {}, own[t])
              /\ Free(t, Totp, "UPDATE")
              /\ Continue(t, GoTo(t, "findWinner"))
    /\ UNCHANGED <<store, now, used, sessions, history>>

InsertRecoveryCodes(t) ==
    /\ At(t, "insertCodes")
    /\ LET codes == CodesOf(job[t].enrollment)
       IN  Execute(t, {<<r, "UPDATE">> : r \in codes},
                   [r \in Row |-> IF r \in codes THEN "unused" ELSE own[t][r]])
    /\ Continue(t, GoTo(t, "commit"))
    /\ UNCHANGED <<store, now, used, sessions, history>>

\* Mutant: the loser answers with the enrolment it made up itself.
FindWinner_OwnContent(t) ==
    /\ At(t, "findWinner")
    /\ shown' = shown \cup {[id |-> IF db[Totp] = None THEN job[t].enrollment
                                    ELSE db[Totp].enrollmentId,
                             codes |-> CodesOf(job[t].enrollment)]}
    /\ End(t)
    /\ UNCHANGED <<store, now, used, sessions, spent, tries>>

\* The loser of two enrolments reads the winner's row: gone again is
\* ChallengeExpired, active is AlreadyEnabled.
FindWinner(t) ==
    /\ At(t, "findWinner")
    /\ \/ /\ db[Totp] # None /\ ~isMfaEnabled(db[Totp])
          /\ Continue(t, [job[t] EXCEPT !.pc = "listCodes",
                                        !.enrollment = db[Totp].enrollmentId])
          /\ UNCHANGED <<db, own, held>>
       \/ /\ db[Totp] = None \/ isMfaEnabled(db[Totp])
          /\ End(t)
    /\ UNCHANGED <<store, now, used, sessions, history>>

\* replayPendingEnrollment: the codes are read after the row.
ListUnusedRecoveryCodes(t) ==
    /\ At(t, "listCodes")
    /\ shown' = shown \cup {[id |-> job[t].enrollment,
                             codes |-> {r \in RecoveryCode : db[r] = "unused"}]}
    /\ End(t)
    /\ UNCHANGED <<store, now, used, sessions, spent, tries>>

\* The transactions of enroll and deleteEnrollment end; the winner of an
\* enrolment answers with what it has inserted.
Commit(t) ==
    /\ At(t, "commit")
    /\ Publish(t)
    /\ Continue(t, NoJob)
    /\ shown' = IF job[t].op = "enroll"
                THEN shown \cup {[id |-> job[t].enrollment,
                                  codes |-> CodesOf(job[t].enrollment)]}
                ELSE shown
    /\ UNCHANGED <<store, now, used, sessions, spent, tries>>

-----------------------------------------------------------------------------
(* Codes.                                                                  *)

\* matchTotpCode accepts the step before and the step after the clock's;
\* a recovery code is one of the unused ones.
Matches(code) ==
    IF code[1] = "totp"
    THEN /\ code[2] = db[Totp].enrollmentId
         /\ code[3] >= 1 /\ code[3] + 1 >= now /\ code[3] <= now + 1
    ELSE db[<<code[2], code[3]>>] = "unused"

\* consumeTotpTimestep and consumeRecoveryCode: would the statement find its
\* row?  The first one asks for the user's row, not for the enrolment.
Consumable(code) ==
    IF code[1] = "totp"
    THEN isMfaEnabled(db[Totp]) /\ db[Totp].lastUsedTimestep < code[3]
    ELSE db[<<code[2], code[3]>>] = "unused"

\* What a code is spent on.
Purpose(t) == IF job[t].op = "verify" THEN job[t].challenge ELSE job[t].op

afterConsume(t) == IF job[t].op = "verify" THEN "issueSession" ELSE "resetBudget"

\* Mutant: a time step that was used already may be used again.
ConsumeMatchedCode_NotMonotonic(t) ==
    /\ At(t, "consumeCode")
    /\ LET code == job[t].code
       IN  IF code[1] = "totp" /\ isMfaEnabled(db[Totp])
           THEN /\ Autocommit(t, Totp, [db[Totp] EXCEPT !.lastUsedTimestep = code[3]])
                /\ spent' = spent \cup {<<code, Purpose(t)>>}
                /\ Continue(t, GoTo(t, afterConsume(t)))
           ELSE End(t) /\ UNCHANGED spent
    /\ UNCHANGED <<store, now, used, sessions, tries, shown>>

\* No row: InvalidCode.
ConsumeMatchedCode(t) ==
    /\ At(t, "consumeCode")
    /\ LET code == job[t].code
           row == IF code[1] = "totp" THEN Totp ELSE <<code[2], code[3]>>
           value == IF code[1] = "totp"
                    THEN [db[Totp] EXCEPT !.lastUsedTimestep = code[3]]
                    ELSE "used"
       IN  \/ /\ Consumable(code)
              /\ Autocommit(t, row, value)
              /\ spent' = spent \cup {<<code, Purpose(t)>>}
              /\ Continue(t, GoTo(t, afterConsume(t)))
           \/ /\ ~Consumable(code)
              /\ End(t)
              /\ UNCHANGED spent
    /\ UNCHANGED <<store, now, used, sessions, tries, shown>>

-----------------------------------------------------------------------------
(* Attempt budgets.  Both are fail-closed: a window that cannot be counted *)
(* is Locked, whether or not the increment took effect.                    *)

budgetOf(t) ==
    IF job[t].op = "verify"
    THEN [key |-> attemptsKey(job[t].challenge), window |-> LoginWindow,
          maxAttempts |-> LoginAttempts]
    ELSE [key |-> disableAttemptsKey, window |-> DisableWindow,
          maxAttempts |-> DisableAttempts]

\* Mutant: an uncountable window lets the attempt pass.
SpendAttempt_FailOpen(t) ==
    /\ At(t, "spend")
    /\ LET b == budgetOf(t)
           count == NextCount(b.key)
       IN  \/ /\ count <= b.maxAttempts
              /\ IncrementWindow(b.key, b.window)
              /\ Continue(t, [job[t] EXCEPT !.pc = "match",
                                            !.left = b.maxAttempts - count])
           \/ /\ Continue(t, [job[t] EXCEPT !.pc = "match", !.left = 1])
              /\ UNCHANGED store
    /\ UNCHANGED <<db, own, held, now, used, sessions, history>>

\* Mutant: the attempts left are computed without looking at the maximum.
SpendAttempt_NoMaximum(t) ==
    /\ At(t, "spend")
    /\ LET b == budgetOf(t)
       IN  /\ IncrementWindow(b.key, b.window)
           /\ Continue(t, [job[t] EXCEPT !.pc = "match",
                                         !.left = b.maxAttempts - NextCount(b.key)])
    /\ UNCHANGED <<db, own, held, now, used, sessions, history>>

\* Past the maximum a disable is Locked and a challenge expires.
SpendAttempt(t) ==
    /\ At(t, "spend")
    /\ LET b == budgetOf(t)
           count == NextCount(b.key)
       IN  \/ /\ count <= b.maxAttempts
              /\ IncrementWindow(b.key, b.window)
              /\ Continue(t, [job[t] EXCEPT !.pc = "match",
                                            !.left = b.maxAttempts - count])
              /\ UNCHANGED <<db, own, held>>
           \/ /\ count > b.maxAttempts /\ job[t].op = "verify"
              /\ IncrementWindow(b.key, b.window)
              /\ Continue(t, GoTo(t, "expire"))
              /\ UNCHANGED <<db, own, held>>
           \/ /\ count > b.maxAttempts /\ job[t].op = "disable"
              /\ IncrementWindow(b.key, b.window)
              /\ End(t)
           \/ /\ Fails(IncrementWindow(b.key, b.window))
              /\ End(t)
    /\ UNCHANGED <<now, used, sessions, history>>

\* matchOwnedCode.  A wrong code ends the request; the last wrong code of a
\* challenge ends the challenge too.
MatchOwnedCode(t) ==
    /\ At(t, "match")
    /\ LET enabled == isMfaEnabled(db[Totp])
           right == enabled /\ Matches(job[t].code)
           last == job[t].op = "verify" /\ enabled /\ job[t].left = 0
       IN  \/ /\ right
              /\ Continue(t, GoTo(t, IF job[t].op = "verify"
                                     THEN "consumeChallenge" ELSE "revoke"))
              /\ UNCHANGED <<db, own, held>>
           \/ /\ ~right /\ last
              /\ Continue(t, GoTo(t, "expire"))
              /\ UNCHANGED <<db, own, held>>
           \/ /\ ~right /\ ~last
              /\ End(t)
    /\ tries' = IF job[t].op = "verify"
                THEN [tries EXCEPT ![job[t].challenge] = @ + 1] ELSE tries
    /\ UNCHANGED <<store, now, used, sessions, spent, shown>>

-----------------------------------------------------------------------------
(* activate, disable and forceDisableMfa.                                  *)

\* The row is read, the enrolment compared and the code matched; any mismatch
\* is an answer without effect.
Activate(t) == \E s \in Session, code \in Tried :
    /\ Actor(s)
    /\ db[Totp] # None /\ ~isMfaEnabled(db[Totp])
    /\ code[1] = "totp" /\ Matches(code)
    /\ Begin(t, [NoJob EXCEPT !.op = "activate", !.pc = "revoke", !.session = s,
                              !.enrollment = code[2], !.code = code])

\* A user without the second factor is NotEnabled and spends nothing.
Disable(t) == \E s \in Session, code \in Tried :
    /\ Actor(s)
    /\ isMfaEnabled(db[Totp])
    /\ store[disableAttemptsKey].value < MaxCount
    /\ Begin(t, [NoJob EXCEPT !.op = "disable", !.pc = "spend", !.session = s,
                              !.code = code])

\* The operator's rescue deletes the enrolment whatever its state.
ForceDisable(t) ==
    Begin(t, [NoJob EXCEPT !.op = "forceDisable", !.pc = "deleteTotp"])

\* revokeOtherSessionsOrUnauthorized: Unauthorized if the actor's own session
\* is gone.
RevokeOtherSessions(t) ==
    /\ At(t, "revoke")
    /\ \/ /\ job[t].session \in live
          /\ live' = {job[t].session}
          /\ Continue(t, GoTo(t, IF job[t].op = "activate" THEN "activate"
                                 ELSE "consumeCode"))
          /\ UNCHANGED <<db, own, held>>
       \/ /\ job[t].session \notin live
          /\ End(t)
          /\ UNCHANGED live
    /\ UNCHANGED <<store, now, used, delivered, origin, activator, history>>

\* One UPDATE compares the enrolment, activates it and uses up the time step.
\* No row: AlreadyEnabled.
ActivateMfaTotp(t) ==
    /\ At(t, "activate")
    /\ LET pending == /\ db[Totp] # None /\ ~isMfaEnabled(db[Totp])
                      /\ db[Totp].enrollmentId = job[t].enrollment
       IN  \/ /\ pending
              /\ Autocommit(t, Totp, [db[Totp] EXCEPT
                                        !.verified = TRUE,
                                        !.lastUsedTimestep = job[t].code[3]])
              /\ Continue(t, NoJob)
              /\ activator' = job[t].session
              /\ spent' = spent \cup {<<job[t].code, "activate">>}
           \/ /\ ~pending
              /\ End(t)
              /\ UNCHANGED <<activator, spent>>
    /\ UNCHANGED <<store, now, used, live, delivered, origin, tries, shown>>

\* A failed reset is reported and ignored.
ResetDisableAttempts(t) ==
    /\ At(t, "resetBudget")
    /\ Fails(Delete(disableAttemptsKey))
    /\ Continue(t, GoTo(t, "deleteTotp"))
    /\ UNCHANGED <<db, own, held, now, used, sessions, history>>

\* deleteEnrollment, first statement; no row is no lock.
DeleteMfaTotp(t) ==
    /\ At(t, "deleteTotp")
    /\ \/ /\ db[Totp] # None
          /\ Execute(t, {<<Totp, "UPDATE">>}, [own[t] EXCEPT ![Totp] = None])
       \/ /\ db[Totp] = None
          /\ Execute(t, {}, own[t])
    /\ Continue(t, GoTo(t, "deleteCodes"))
    /\ UNCHANGED <<store, now, used, sessions, history>>

\* deleteEnrollment, second statement: the codes that are committed by now.
DeleteRecoveryCodesByUserId(t) ==
    /\ At(t, "deleteCodes")
    /\ LET codes == {r \in RecoveryCode : db[r] # None}
       IN  Execute(t, {<<r, "UPDATE">> : r \in codes},
                   [r \in Row |-> IF r \in codes THEN None ELSE own[t][r]])
    /\ Continue(t, GoTo(t, "commit"))
    /\ UNCHANGED <<store, now, used, sessions, history>>

-----------------------------------------------------------------------------
(* Signing in: enforceChallenge, after better-auth has made the session.   *)

PrimaryAuth(t) == \E s \in Session :
    /\ Fresh(s)
    /\ job[t] = NoJob /\ "signIn" \in Ops
    /\ Continue(t, [NoJob EXCEPT !.op = "signIn", !.pc = "readVerification",
                                 !.session = s])
    /\ live' = live \cup {s}
    /\ used' = used \cup {s}
    /\ origin' = [origin EXCEPT ![s] = "primary"]
    /\ UNCHANGED <<db, own, held, store, now, delivered, activator, history>>

\* Mutant: when the row cannot be read the sign-in passes.
MfaChallengeRequired_FailOpen(t) ==
    /\ At(t, "readVerification")
    /\ delivered' = delivered \cup {job[t].session}
    /\ End(t)
    /\ UNCHANGED <<store, now, used, live, origin, activator, history>>

\* Pass hands the session's cookie out.  A read that fails counts as required.
MfaChallengeRequired(t) ==
    /\ At(t, "readVerification")
    /\ \/ /\ ~ChallengeEnabled \/ ~isMfaEnabled(db[Totp])
          /\ delivered' = delivered \cup {job[t].session}
          /\ End(t)
       \/ /\ ChallengeEnabled
          /\ Continue(t, GoTo(t, "openChallenge"))
          /\ UNCHANGED <<db, own, held, delivered>>
    /\ UNCHANGED <<store, now, used, live, origin, activator, history>>

\* A challenge that cannot be stored is a sign-in without a cookie.
OpenLoginChallenge(t) ==
    /\ At(t, "openChallenge")
    /\ \/ \E c \in Challenge :
            /\ Fresh(c)
            /\ Set(challengeKey(c), 1, LoginWindow)
            /\ used' = used \cup {c}
            /\ Continue(t, [job[t] EXCEPT !.pc = "deleteSession",
                                          !.challenge = c])
       \/ /\ Continue(t, GoTo(t, "deleteSession"))
          /\ UNCHANGED <<store, used>>
    /\ UNCHANGED <<db, own, held, now, sessions, history>>

\* A session that cannot be deleted stays, but its cookie is withheld.
DeleteSession(t) ==
    /\ At(t, "deleteSession")
    /\ live' \in {live, live \ {job[t].session}}
    /\ End(t)
    /\ UNCHANGED <<store, now, used, delivered, origin, activator, history>>

-----------------------------------------------------------------------------
(* completeLoginChallenge.                                                 *)

\* peekLoginChallenge: the signed cookie names an open challenge.
Verify(t) == \E c \in Challenge, code \in Tried :
    /\ LiveEntry(challengeKey(c))
    /\ \A s \in Slot : job[s].op = "signIn" => job[s].challenge # c
    /\ store[attemptsKey(c)].value < MaxCount
    /\ Begin(t, [NoJob EXCEPT !.op = "verify", !.pc = "spend", !.code = code,
                              !.challenge = c])

\* Mutant: the challenge is read, not taken.
ConsumeLoginChallenge_Get(t) ==
    /\ At(t, "consumeChallenge")
    /\ LiveEntry(challengeKey(job[t].challenge))
    /\ Continue(t, GoTo(t, "consumeCode"))
    /\ UNCHANGED <<db, own, held, store, now, used, sessions, history>>

\* getAndDelete: an expired or taken challenge is ChallengeExpired.
ConsumeLoginChallenge(t) ==
    /\ At(t, "consumeChallenge")
    /\ LET k == challengeKey(job[t].challenge)
       IN  \/ /\ LiveEntry(k)
              /\ Delete(k)
              /\ Continue(t, GoTo(t, "consumeCode"))
              /\ UNCHANGED <<db, own, held>>
           \/ /\ ~LiveEntry(k)
              /\ End(t)
              /\ UNCHANGED store
           \/ /\ Fails(Delete(k))
              /\ End(t)
    /\ UNCHANGED <<now, used, sessions, history>>

IssueSession(t) ==
    /\ At(t, "issueSession")
    /\ \E s \in Session :
         /\ Fresh(s)
         /\ live' = live \cup {s}
         /\ delivered' = delivered \cup {s}
         /\ used' = used \cup {s}
         /\ origin' = [origin EXCEPT ![s] = job[t].challenge]
    /\ End(t)
    /\ UNCHANGED <<store, now, activator, history>>

\* A challenge that cannot be deleted stays until its time is over.
ExpireLoginChallenge(t) ==
    /\ At(t, "expire")
    /\ Fails(Delete(challengeKey(job[t].challenge)))
    /\ End(t)
    /\ UNCHANGED <<now, used, sessions, history>>

-----------------------------------------------------------------------------
(* The rest of the world.                                                  *)

\* A failing database, store or better-auth call, or the end of the process.
Abort(t) ==
    /\ job[t] # NoJob
    /\ End(t)
    /\ UNCHANGED <<store, now, used, sessions, history>>

Tick ==
    /\ now < MaxNow
    /\ now' = now + 1
    /\ UNCHANGED <<db, own, held, store, job, used, sessions, history>>

Arrive(t) ==
    \/ Enroll(t) \/ Activate(t) \/ Disable(t) \/ ForceDisable(t)
    \/ PrimaryAuth(t) \/ Verify(t)

Proceed(t) ==
    \/ InsertMfaTotpEnrollment(t) \/ InsertRecoveryCodes(t) \/ FindWinner(t)
    \/ ListUnusedRecoveryCodes(t) \/ Commit(t) \/ ConsumeMatchedCode(t)
    \/ SpendAttempt(t) \/ MatchOwnedCode(t) \/ RevokeOtherSessions(t)
    \/ ActivateMfaTotp(t) \/ ResetDisableAttempts(t) \/ DeleteMfaTotp(t)
    \/ DeleteRecoveryCodesByUserId(t) \/ MfaChallengeRequired(t)
    \/ OpenLoginChallenge(t) \/ DeleteSession(t) \/ ConsumeLoginChallenge(t)
    \/ IssueSession(t) \/ ExpireLoginChallenge(t)

Next ==
    \/ \E t \in Slot : Arrive(t) \/ Proceed(t) \/ Abort(t)
    \/ Tick

Spec == Init /\ [][Next]_vars

-----------------------------------------------------------------------------
(* Properties.                                                             *)

\* Every variable has its type; the histories speak of codes and ids that
\* were handed out.
MfaTypeOK ==
    /\ DOMAIN db = Row
    /\ db[Totp] \in TotpRow \cup {None}
    /\ \A r \in RecoveryCode : db[r] \in CodeValue
    /\ held \subseteq Slot \X Row \X Mode
    /\ DOMAIN store = Key
    /\ \A k \in Key : store[k] \in [value : Nat, expiresAt : Nat]
    /\ now \in 1 .. MaxNow
    /\ job \in [Slot -> Job]
    /\ live \subseteq used \cap Session /\ delivered \subseteq used \cap Session
    /\ \A p \in spent : p[1] \in Code
    /\ tries \in [Challenge -> Nat]
    /\ \A e \in shown : e.id \in used /\ e.codes \subseteq RecoveryCode

\* The step accepts the code of request t.
Spends(t) == \/ /\ At(t, "consumeCode")
                /\ job'[t].pc \in {"issueSession", "resetBudget"}
             \/ At(t, "activate") /\ db'[Totp] # db[Totp]

\* A code is accepted once: neither two requests that matched the same code
\* at the same time nor a later one can spend it again (consumeTotpTimestep,
\* consumeRecoveryCode, activateMfaTotp).
CodeSpentOnce ==
    [][\A t \in Slot : Spends(t) => \A p \in spent : p[1] # job[t].code]_vars

\* A challenge is passed once: it costs one code and issues one session.  Of
\* two submissions to it, only the one that took the challenge spends its code
\* (consumeLoginChallenge comes before consumeMatchedCode).
ChallengePassedOnce ==
    /\ \A p, q \in spent : p[2] \in Challenge /\ p[2] = q[2] => p = q
    /\ \A s, r \in Session :
          origin[s] \in Challenge /\ origin[s] = origin[r] => s = r

\* While a challenge can still be passed, no more codes than the budget allows
\* have been compared for it, whatever overlaps, fails or expires
\* (spendLoginChallengeAttempt).
BudgetKept ==
    \A c \in Challenge :
        LiveEntry(challengeKey(c)) => tries[c] <= LoginAttempts

\* While the second factor is active, every session a client holds has passed
\* a challenge or is the one that activated it.
SecondFactorStands ==
    ChallengeEnabled /\ isMfaEnabled(db[Totp]) =>
        \A s \in live \cap delivered : origin[s] \in Challenge \/ s = activator

\* As long as an enrolment is pending, the recovery codes shown with it are
\* the ones stored: whoever activates it holds codes that work (enroll,
\* replayPendingEnrollment, deleteEnrollment).
ShownCodesWork ==
    db[Totp] # None /\ ~isMfaEnabled(db[Totp]) =>
        \A e \in shown : e.id = db[Totp].enrollmentId =>
            e.codes = {r \in RecoveryCode : db[r] = "unused"}

=============================================================================
