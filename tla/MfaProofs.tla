----------------------------- MODULE MfaProofs ------------------------------
(***************************************************************************)
(* Theorems about Mfa, for any number of enrolments, challenges, sessions  *)
(* and requests, any budget and any windows.                               *)
(***************************************************************************)
EXTENDS Mfa, Integers, FiniteSetTheorems, TLAPS

-----------------------------------------------------------------------------
(* The inductive invariant.                                                *)

\* What row r may hold; an enrolment in the database was handed out.
RowValue(r) ==
    IF r = Totp
    THEN [enrollmentId : Enrollment \cap used, verified : BOOLEAN,
          lastUsedTimestep : Step] \cup {None}
    ELSE CodeValue

RowsTyped ==
    /\ DOMAIN db = Row /\ \A r \in Row : db[r] \in RowValue(r)
    /\ DOMAIN own = Slot
    /\ \A t \in Slot :
         /\ DOMAIN own[t] = Row
         /\ \A r \in Row : own[t][r] \in RowValue(r) \cup {Unwritten}
    /\ held \subseteq Slot \X Row \X Mode

\* Nothing is stored for a challenge that was not opened.
StoreTyped ==
    /\ DOMAIN store = Key
    /\ \A k \in Key : store[k] \in [value : Nat, expiresAt : Nat]
    /\ now \in 1 .. MaxNow
    /\ \A c \in Challenge \ used : /\ store[challengeKey(c)].expiresAt = 0
                                   /\ store[attemptsKey(c)].expiresAt = 0

\* Which requests get to a step.
OpsAt(pc) ==
    CASE pc = "idle" -> {"none"}
      [] pc \in {"insertEnrollment", "insertCodes", "findWinner", "listCodes"} -> {"enroll"}
      [] pc = "revoke" -> {"activate", "disable"}
      [] pc = "activate" -> {"activate"}
      [] pc \in {"spend", "match", "consumeCode"} -> {"verify", "disable"}
      [] pc \in {"consumeChallenge", "issueSession", "expire"} -> {"verify"}
      [] pc = "resetBudget" -> {"disable"}
      [] pc \in {"deleteTotp", "deleteCodes"} -> {"disable", "forceDisable"}
      [] pc = "commit" -> {"enroll", "disable", "forceDisable"}
      [] pc \in {"readVerification", "openChallenge", "deleteSession"} -> {"signIn"}

\* A request is at a step of its own, carries what its kind needs, and names
\* only ids that were handed out.
Flow(j) ==
    /\ j.op \in OpsAt(j.pc)
    /\ j.op = "enroll" => j.enrollment \in Enrollment \cap used
    /\ j.op \in {"verify", "disable", "activate"} => j.code \in Code
    /\ j.op = "activate" => j.code[1] = "totp"
    /\ j.op = "verify" => j.challenge \in Challenge
    /\ j.op \in {"activate", "disable", "signIn"} => j.session \in Session
    /\ j.challenge \in used \cup {None}
    /\ j.session \in used \cup {None}

JobsTyped == job \in [Slot -> Job] /\ \A t \in Slot : Flow(job[t])

HistoryTyped ==
    /\ live \subseteq used \cap Session /\ delivered \subseteq used \cap Session
    /\ origin \in [Session -> Challenge \cup {"primary", None}]
    /\ activator \in Session \cup {None}
    /\ \A p \in spent : p[1] \in Code
    /\ tries \in [Challenge -> Nat]
    /\ \A e \in shown : e.id \in used /\ e.codes \subseteq RecoveryCode

Typed == RowsTyped /\ StoreTyped /\ JobsTyped /\ HistoryTyped

\* The attempts on a challenge that were counted and not compared yet.
Comparing(j, c) == j.op = "verify" /\ j.pc = "match" /\ j.challenge = c
Pending(c) == {t \in Slot : Comparing(job[t], c)}

Count(c) == IF LiveEntry(attemptsKey(c)) THEN store[attemptsKey(c)].value ELSE 0

\* A counted window outlasts the challenge.
WindowOutlasts(c) ==
    /\ store[challengeKey(c)].expiresAt <= now + LoginWindow
    /\ \/ store[attemptsKey(c)].expiresAt = 0
       \/ store[attemptsKey(c)].expiresAt >= store[challengeKey(c)].expiresAt
    /\ c \notin used => tries[c] = 0

\* While it can be passed, whoever compares a code for it was counted, and was
\* within the budget.
Counted(c) ==
    LiveEntry(challengeKey(c)) =>
        /\ IsFiniteSet(Pending(c))
        /\ tries[c] + Cardinality(Pending(c)) <= Count(c)
        /\ tries[c] + Cardinality(Pending(c)) <= LoginAttempts

Budget == \A c \in Challenge : WindowOutlasts(c) /\ Counted(c)

\* The request that took challenge c.
Taker(j, c) ==
    j.op = "verify" /\ j.challenge = c /\ j.pc \in {"consumeCode", "issueSession"}

Gone(c) == c \in used /\ store[challengeKey(c)].expiresAt = 0

\* A challenge is taken by one request, spends after that and issues after that.
Once ==
    \A c \in Challenge :
        /\ \A t \in Slot : Taker(job[t], c) =>
             /\ Gone(c)
             /\ \A u \in Slot : Taker(job[u], c) => u = t
             /\ \A s \in Session : origin[s] # c
             /\ job[t].pc = "consumeCode" => \A p \in spent : p[2] # c
        /\ \A p \in spent : p[2] = c => Gone(c)
        /\ \A s \in Session : origin[s] = c => Gone(c)

MfaInv == Typed /\ Budget /\ Once /\ ChallengePassedOnce

-----------------------------------------------------------------------------
(* Codes, keys and rows.                                                   *)

LEMMA CodeParts ==
    ASSUME NEW code \in Code
    PROVE  \/ code[1] = "totp" /\ code[2] \in Enrollment /\ code[3] \in Step
           \/ /\ code[1] = "recovery_code" /\ code[2] \in Enrollment /\ code[3] \in CodeNo
              /\ <<code[2], code[3]>> \in RecoveryCode
BY DEF Code, RecoveryCode

LEMMA KeysApart ==
    /\ disableAttemptsKey \in Key
    /\ \A c \in Challenge :
         /\ challengeKey(c) \in Key /\ attemptsKey(c) \in Key
         /\ challengeKey(c) # disableAttemptsKey /\ attemptsKey(c) # disableAttemptsKey
         /\ \A d \in Challenge :
              /\ challengeKey(c) # attemptsKey(d)
              /\ challengeKey(c) = challengeKey(d) => c = d
              /\ attemptsKey(c) = attemptsKey(d) => c = d
BY InputsTyped DEF MfaKey, challengeKey, attemptsKey, disableAttemptsKey

LEMMA RowsFrame ==
    ASSUME RowsTyped, used \subseteq used', UNCHANGED <<db, own, held>>
    PROVE  RowsTyped'
BY DEF RowsTyped, RowValue

LEMMA RowsEnd ==
    ASSUME RowsTyped, used \subseteq used', NEW t \in Slot, Discard(t)
    PROVE  RowsTyped'
BY DEF RowsTyped, RowValue, Discard, Clean, LocksOf

LEMMA RowsCommit ==
    ASSUME RowsTyped, used' = used, NEW t \in Slot, Publish(t)
    PROVE  RowsTyped'
BY DEF RowsTyped, RowValue, Publish, View, Clean, LocksOf

LEMMA RowsSet ==
    ASSUME RowsTyped, used' = used, NEW t \in Slot, NEW r \in Row, NEW v \in RowValue(r),
           Autocommit(t, r, v)
    PROVE  RowsTyped'
BY DEF RowsTyped, RowValue, Autocommit

LEMMA RowsWrite ==
    ASSUME RowsTyped, used' = used, NEW t \in Slot,
           NEW need, \A l \in need : \E r \in Row, m \in Mode : l = <<r, m>>,
           NEW w, Execute(t, need, w),
           DOMAIN w = Row, \A r \in Row : w[r] \in RowValue(r) \cup {Unwritten}
    PROVE  RowsTyped'
<1>1. held' \subseteq Slot \X Row \X Mode
  BY DEF RowsTyped, Execute
<1> QED BY <1>1 DEF RowsTyped, RowValue, Execute

-----------------------------------------------------------------------------
(* Requests.                                                               *)

\* A step of slot t leaves the other requests alone.
OneJob(t) == job' = [job EXCEPT ![t] = job'[t]]

LEMMA JobStep ==
    ASSUME JobsTyped, used \subseteq used', NEW t \in Slot, OneJob(t),
           job'[t] \in Job, Flow(job[t])'
    PROVE  JobsTyped'
<1>1. job' \in [Slot -> Job]
  BY DEF JobsTyped, OneJob
<1>2. ASSUME NEW u \in Slot
      PROVE  Flow(job[u])'
  <2>1. CASE u = t
    BY <2>1
  <2>2. CASE u # t
    <3>1. job'[u] = job[u] /\ Flow(job[u])
      BY <2>2 DEF JobsTyped, OneJob
    <3> QED BY <3>1 DEF Flow
  <2> QED BY <2>1, <2>2
<1> QED BY <1>1, <1>2 DEF JobsTyped

LEMMA NoJobFlows == NoJob \in Job /\ Flow(NoJob) /\ Flow(NoJob)'
BY DEF NoJob, Job, Flow, OpsAt, Pc

LEMMA Continued ==
    ASSUME JobsTyped, NEW t \in Slot, NEW j, Continue(t, j)
    PROVE  OneJob(t) /\ job'[t] = j
BY DEF JobsTyped, Continue, OneJob

LEMMA JobEnds ==
    ASSUME JobsTyped, used \subseteq used', NEW t \in Slot, Continue(t, NoJob)
    PROVE  JobsTyped' /\ OneJob(t) /\ job'[t] = NoJob
BY NoJobFlows, JobStep, Continued

-----------------------------------------------------------------------------
(* Types: requests that arrive.                                            *)

\* What most steps leave alone.
LEMMA StoreFrame ==
    ASSUME StoreTyped, used \subseteq used', UNCHANGED <<store, now>>
    PROVE  StoreTyped'
BY DEF StoreTyped

LEMMA HistoryFrame ==
    ASSUME HistoryTyped, used \subseteq used', UNCHANGED <<sessions, history>>
    PROVE  HistoryTyped'
BY DEF HistoryTyped, sessions, history

LEMMA BeginTyped ==
    ASSUME Typed, NEW t \in Slot, NEW j \in Job, Begin(t, j), Flow(j)
    PROVE  Typed' /\ OneJob(t) /\ job'[t] = j
<1>1. OneJob(t) /\ job'[t] = j /\ used' = used
  BY Continued DEF Begin, Typed
<1>2. Flow(job[t])'
  BY <1>1 DEF Flow
<1>3. JobsTyped'
  BY <1>1, <1>2, JobStep DEF Typed
<1> QED BY <1>1, <1>3, RowsFrame, StoreFrame, HistoryFrame DEF Begin, Typed

LEMMA EnrollTyped ==
    ASSUME Typed, NEW t \in Slot, Enroll(t)
    PROVE  Typed' /\ OneJob(t) /\ job'[t].op = "enroll" /\ job'[t].pc \in {"insertEnrollment", "listCodes"}
<1>1. ASSUME NEW e \in Enrollment, used' = used \cup {e},
             UNCHANGED <<db, own, held, store, now, sessions, history>>,
             Continue(t, [NoJob EXCEPT !.op = "enroll", !.pc = "insertEnrollment",
                                       !.enrollment = e])
      PROVE  Typed' /\ OneJob(t) /\ job'[t].op = "enroll" /\ job'[t].pc \in {"insertEnrollment", "listCodes"}
  <2> DEFINE j == [NoJob EXCEPT !.op = "enroll", !.pc = "insertEnrollment", !.enrollment = e]
  <2>1. OneJob(t) /\ job'[t] = j
    BY <1>1, Continued DEF Typed
  <2>2. j \in Job /\ Flow(j)' /\ j.op = "enroll" /\ j.pc = "insertEnrollment"
    BY <1>1 DEF NoJob, Job, Flow, OpsAt, Pc, Op
  <2>3. JobsTyped'
    BY <1>1, <2>1, <2>2, JobStep DEF Typed, Flow
  <2> QED BY <1>1, <2>1, <2>2, <2>3, RowsFrame, StoreFrame, HistoryFrame DEF Typed
<1>2. ASSUME NEW e \in Enrollment \cap used,
             Begin(t, [NoJob EXCEPT !.op = "enroll", !.pc = "listCodes", !.enrollment = e])
      PROVE  Typed' /\ OneJob(t) /\ job'[t].op = "enroll" /\ job'[t].pc \in {"insertEnrollment", "listCodes"}
  <2> DEFINE j == [NoJob EXCEPT !.op = "enroll", !.pc = "listCodes", !.enrollment = e]
  <2>1. j \in Job /\ Flow(j) /\ j.op = "enroll" /\ j.pc = "listCodes"
    BY <1>2 DEF NoJob, Job, Flow, OpsAt, Pc, Op
  <2> QED BY <1>2, <2>1, BeginTyped
<1>3. db[Totp] # None => db[Totp].enrollmentId \in Enrollment \cap used
  BY DEF Typed, RowsTyped, RowValue, Row
<1> QED BY <1>1, <1>2, <1>3 DEF Enroll

LEMMA ArrivalTyped ==
    ASSUME Typed, NEW t \in Slot,
           Activate(t) \/ Disable(t) \/ ForceDisable(t) \/ Verify(t)
    PROVE  /\ Typed' /\ OneJob(t)
           /\ job'[t].pc \in {"revoke", "spend", "deleteTotp"}
           /\ UNCHANGED <<db, own, held, store, now, used, sessions, history>>
<1> DEFINE Result == /\ Typed' /\ OneJob(t)
                     /\ job'[t].pc \in {"revoke", "spend", "deleteTotp"}
                     /\ UNCHANGED <<db, own, held, store, now, used, sessions, history>>
<1>1. ASSUME NEW j \in Job, Flow(j), j.pc \in {"revoke", "spend", "deleteTotp"}, Begin(t, j)
      PROVE  Result
  BY <1>1, BeginTyped DEF Begin
<1>2. CASE Activate(t)
  <2>1. PICK s \in Session, code \in Tried :
            /\ Actor(s) /\ code[1] = "totp" /\ db[Totp] # None
            /\ code[2] = db[Totp].enrollmentId
            /\ Begin(t, [NoJob EXCEPT !.op = "activate", !.pc = "revoke", !.session = s,
                                      !.enrollment = code[2], !.code = code])
    BY <1>2 DEF Activate, Matches
  <2> DEFINE j == [NoJob EXCEPT !.op = "activate", !.pc = "revoke", !.session = s,
                                !.enrollment = code[2], !.code = code]
  <2>2. code \in Code /\ s \in used /\ code[2] \in Enrollment
    BY <2>1, InputsTyped, CodeParts DEF Actor, Typed, HistoryTyped
  <2>3. j \in Job /\ Flow(j) /\ j.pc = "revoke"
    BY <2>1, <2>2 DEF NoJob, Job, Flow, OpsAt, Pc, Op
  <2> QED BY <1>1, <2>1, <2>3
<1>3. CASE Disable(t)
  <2>1. PICK s \in Session, code \in Tried :
            /\ Actor(s)
            /\ Begin(t, [NoJob EXCEPT !.op = "disable", !.pc = "spend", !.session = s,
                                      !.code = code])
    BY <1>3 DEF Disable
  <2> DEFINE j == [NoJob EXCEPT !.op = "disable", !.pc = "spend", !.session = s,
                                !.code = code]
  <2>2. code \in Code /\ s \in used
    BY <2>1, InputsTyped DEF Actor, Typed, HistoryTyped
  <2>3. j \in Job /\ Flow(j) /\ j.pc = "spend"
    BY <2>1, <2>2 DEF NoJob, Job, Flow, OpsAt, Pc, Op
  <2> QED BY <1>1, <2>1, <2>3
<1>4. CASE ForceDisable(t)
  <2> DEFINE j == [NoJob EXCEPT !.op = "forceDisable", !.pc = "deleteTotp"]
  <2>1. j \in Job /\ Flow(j) /\ j.pc = "deleteTotp"
    BY DEF NoJob, Job, Flow, OpsAt, Pc, Op
  <2> QED BY <1>1, <1>4, <2>1 DEF ForceDisable
<1>5. CASE Verify(t)
  <2>1. PICK c \in Challenge, code \in Tried :
            /\ LiveEntry(challengeKey(c))
            /\ Begin(t, [NoJob EXCEPT !.op = "verify", !.pc = "spend", !.code = code,
                                      !.challenge = c])
    BY <1>5 DEF Verify
  <2> DEFINE j == [NoJob EXCEPT !.op = "verify", !.pc = "spend", !.code = code,
                                !.challenge = c]
  <2>2. code \in Code /\ c \in used
    BY <2>1, InputsTyped DEF Typed, StoreTyped, LiveEntry
  <2>3. j \in Job /\ Flow(j) /\ j.pc = "spend"
    BY <2>1, <2>2 DEF NoJob, Job, Flow, OpsAt, Pc, Op
  <2> QED BY <1>1, <2>1, <2>3
<1> QED BY <1>2, <1>3, <1>4, <1>5

LEMMA PrimaryAuthTyped ==
    ASSUME Typed, NEW t \in Slot, PrimaryAuth(t)
    PROVE  Typed' /\ OneJob(t) /\ job'[t].op = "signIn"
<1>1. PICK s \in Session :
          /\ Continue(t, [NoJob EXCEPT !.op = "signIn", !.pc = "readVerification",
                                       !.session = s])
          /\ live' = live \cup {s} /\ used' = used \cup {s}
          /\ origin' = [origin EXCEPT ![s] = "primary"]
          /\ UNCHANGED <<db, own, held, store, now, delivered, activator, history>>
  BY DEF PrimaryAuth
<1> DEFINE j == [NoJob EXCEPT !.op = "signIn", !.pc = "readVerification", !.session = s]
<1>2. OneJob(t) /\ job'[t] = j
  BY <1>1, Continued DEF Typed
<1>3. j \in Job /\ Flow(j)' /\ j.op = "signIn"
  BY <1>1 DEF NoJob, Job, Flow, OpsAt, Pc, Op
<1>4. JobsTyped'
  BY <1>1, <1>2, <1>3, JobStep DEF Typed, Flow
<1>5. HistoryTyped'
  BY <1>1 DEF Typed, HistoryTyped, history
<1> QED BY <1>1, <1>2, <1>3, <1>4, <1>5, RowsFrame, StoreFrame DEF Typed

-----------------------------------------------------------------------------
(* Types: requests that go on.                                             *)

\* A request goes on to another of its steps.
LEMMA GoToTyped ==
    ASSUME JobsTyped, used \subseteq used', NEW t \in Slot, NEW p \in Pc,
           job[t].op \in OpsAt(p), Continue(t, GoTo(t, p))
    PROVE  /\ JobsTyped' /\ OneJob(t) /\ job'[t].pc = p
           /\ job'[t].op = job[t].op /\ job'[t].challenge = job[t].challenge
           /\ job'[t].code = job[t].code
<1>1. /\ job' = [job EXCEPT ![t] = [job[t] EXCEPT !.pc = p]]
      /\ job[t] \in Job /\ Flow(job[t])
  BY DEF JobsTyped, Continue, GoTo
<1>2. OneJob(t) /\ job'[t] = [job[t] EXCEPT !.pc = p]
  BY <1>1 DEF JobsTyped, OneJob
<1>3. job'[t] \in Job
  BY <1>1, <1>2 DEF Job
<1>4. Flow(job[t])'
  BY <1>1, <1>2 DEF Flow, Job
<1> QED BY <1>1, <1>2, <1>3, <1>4, JobStep DEF Job

LEMMA EndTyped ==
    ASSUME RowsTyped, JobsTyped, used \subseteq used', NEW t \in Slot, End(t)
    PROVE  /\ RowsTyped' /\ JobsTyped' /\ OneJob(t) /\ job'[t] = NoJob
           /\ job'[t].pc = "idle" /\ job'[t].op = "none"
BY RowsEnd, JobEnds DEF End, NoJob

\* Which kinds of request are at a step.
LEMMA OpAt ==
    ASSUME JobsTyped, NEW t \in Slot
    PROVE  /\ job[t] \in Job
           /\ At(t, "insertEnrollment") => job[t].op = "enroll"
           /\ At(t, "insertCodes") => job[t].op = "enroll"
           /\ At(t, "findWinner") => job[t].op = "enroll"
           /\ At(t, "listCodes") => job[t].op = "enroll"
           /\ At(t, "revoke") => job[t].op \in {"activate", "disable"}
           /\ At(t, "activate") => job[t].op = "activate"
           /\ At(t, "spend") => job[t].op \in {"verify", "disable"}
           /\ At(t, "match") => job[t].op \in {"verify", "disable"}
           /\ At(t, "consumeCode") => job[t].op \in {"verify", "disable"}
           /\ At(t, "consumeChallenge") => job[t].op = "verify"
           /\ At(t, "issueSession") => job[t].op = "verify"
           /\ At(t, "expire") => job[t].op = "verify"
           /\ At(t, "resetBudget") => job[t].op = "disable"
           /\ At(t, "deleteTotp") => job[t].op \in {"disable", "forceDisable"}
           /\ At(t, "deleteCodes") => job[t].op \in {"disable", "forceDisable"}
           /\ At(t, "commit") => job[t].op \in {"enroll", "disable", "forceDisable"}
           /\ At(t, "readVerification") => job[t].op = "signIn"
           /\ At(t, "openChallenge") => job[t].op = "signIn"
           /\ At(t, "deleteSession") => job[t].op = "signIn"
           /\ job[t].op = "enroll" => job[t].enrollment \in Enrollment \cap used
           /\ job[t].op \in {"verify", "disable", "activate"} => job[t].code \in Code
           /\ job[t].op = "activate" => job[t].code[1] = "totp"
           /\ job[t].op = "verify" => job[t].challenge \in Challenge \cap used
           /\ job[t].op \in {"activate", "disable", "signIn"} => job[t].session \in Session \cap used
<1>1. job[t] \in Job /\ Flow(job[t])
  BY DEF JobsTyped
<1>2. job[t].op \in OpsAt(job[t].pc)
  BY <1>1 DEF Flow
<1>3. job[t].op = "verify" => job[t].challenge \in Challenge \cap used
  BY <1>1, MarkersApart DEF Flow
<1>4. job[t].op \in {"activate", "disable", "signIn"} => job[t].session \in Session \cap used
  BY <1>1, MarkersApart DEF Flow
<1> QED BY <1>1, <1>2, <1>3, <1>4 DEF Flow, OpsAt, At

\* The steps that touch neither challenges nor budgets.
Aside(t) ==
    \/ InsertMfaTotpEnrollment(t) \/ InsertRecoveryCodes(t) \/ FindWinner(t)
    \/ ListUnusedRecoveryCodes(t) \/ Commit(t) \/ DeleteMfaTotp(t)
    \/ DeleteRecoveryCodesByUserId(t)

LEMMA AsideTyped ==
    ASSUME Typed, NEW t \in Slot, Aside(t)
    PROVE  /\ Typed' /\ OneJob(t)
           /\ job'[t].pc \in {"insertCodes", "findWinner", "listCodes", "commit",
                              "deleteCodes", "idle"}
           /\ UNCHANGED <<store, now, used, sessions, spent, tries>>
<1> DEFINE Pcs == {"insertCodes", "findWinner", "listCodes", "commit", "deleteCodes", "idle"}
           Kept == UNCHANGED <<store, now, used, sessions, spent, tries>>
<1>0. RowsTyped /\ JobsTyped /\ HistoryTyped /\ StoreTyped
  BY DEF Typed
<1>a. ASSUME Kept, shown' = shown, RowsTyped', JobsTyped'
      PROVE  Typed'
  BY <1>a, <1>0, StoreFrame, HistoryFrame DEF Typed, history
<1>b. Pcs \subseteq Pc
  BY DEF Pc
<1>1. CASE InsertMfaTotpEnrollment(t)
  <2>0. job[t].op = "enroll" /\ job[t].enrollment \in Enrollment \cap used
    BY <1>1, <1>0, OpAt DEF InsertMfaTotpEnrollment
  <2>1. Kept /\ shown' = shown
    BY <1>1 DEF InsertMfaTotpEnrollment, history
  <2> DEFINE row == [enrollmentId |-> job[t].enrollment, verified |-> FALSE,
                     lastUsedTimestep |-> 0]
  <2>2. ASSUME Execute(t, {<<Totp, "UPDATE">>}, [own[t] EXCEPT ![Totp] = row])
        PROVE  RowsTyped'
    <3>1. row \in RowValue(Totp)
      BY <2>0, BudgetsPositive DEF RowValue, Step
    <3> HIDE DEF row
    <3>2. PICK w : w = [own[t] EXCEPT ![Totp] = row]
      OBVIOUS
    <3>3. DOMAIN w = Row /\ \A r \in Row : w[r] \in RowValue(r) \cup {Unwritten}
      BY <3>1, <3>2, <1>0 DEF RowsTyped, Row
    <3>4. \A l \in {<<Totp, "UPDATE">>} : \E r \in Row, m \in Mode : l = <<r, m>>
      BY DEF Row, Mode, RowLock
    <3>5. Execute(t, {<<Totp, "UPDATE">>}, w)
      BY <2>2, <3>2
    <3> QED BY <3>3, <3>4, <3>5, <2>1, <1>0, RowsWrite
  <2>3. ASSUME Execute(t, {}, own[t])
        PROVE  RowsTyped'
    BY <2>3, <2>1, <1>0 DEF Execute, RowsTyped, RowValue
  <2>4. \/ Continue(t, GoTo(t, "insertCodes")) /\ RowsTyped'
        \/ Continue(t, GoTo(t, "findWinner")) /\ RowsTyped'
    BY <1>1, <2>2, <2>3 DEF InsertMfaTotpEnrollment
  <2>5. JobsTyped' /\ OneJob(t) /\ job'[t].pc \in Pcs
    BY <2>0, <2>1, <2>4, <1>0, <1>b, GoToTyped DEF OpsAt
  <2> QED BY <1>a, <2>1, <2>4, <2>5
<1>2. CASE InsertRecoveryCodes(t)
  <2>0. job[t].op = "enroll" /\ job[t].enrollment \in Enrollment
    BY <1>2, <1>0, OpAt DEF InsertRecoveryCodes
  <2>1. Kept /\ shown' = shown /\ Continue(t, GoTo(t, "commit"))
    BY <1>2 DEF InsertRecoveryCodes, history
  <2>2. PICK codes : codes = CodesOf(job[t].enrollment)
    OBVIOUS
  <2>3. PICK w : w = [r \in Row |-> IF r \in codes THEN "unused" ELSE own[t][r]]
    OBVIOUS
  <2>4. codes \subseteq RecoveryCode
    BY <2>0, <2>2 DEF CodesOf, RecoveryCode
  <2>5. PICK need : need = {<<r, "UPDATE">> : r \in codes}
    OBVIOUS
  <2>6. \A l \in need : \E r \in Row, m \in Mode : l = <<r, m>>
    BY <2>4, <2>5 DEF Row, Mode, RowLock
  <2>7. Execute(t, need, w)
    BY <1>2, <2>2, <2>3, <2>5 DEF InsertRecoveryCodes
  <2>8. DOMAIN w = Row /\ \A r \in Row : w[r] \in RowValue(r) \cup {Unwritten}
    BY <2>3, <2>4, <1>0, MarkersApart DEF RowsTyped, Row, RowValue, CodeValue
  <2>9. RowsTyped'
    BY <2>1, <2>6, <2>7, <2>8, <1>0, RowsWrite
  <2>10. JobsTyped' /\ OneJob(t) /\ job'[t].pc \in Pcs
    BY <2>0, <2>1, <1>0, <1>b, GoToTyped DEF OpsAt
  <2> QED BY <1>a, <2>1, <2>9, <2>10
<1>3. CASE FindWinner(t)
  <2>0. job[t].op = "enroll" /\ job[t] \in Job
    BY <1>3, <1>0, OpAt DEF FindWinner
  <2>1. Kept /\ shown' = shown
    BY <1>3 DEF FindWinner, history
  <2>2. CASE End(t)
    BY <2>1, <2>2, <1>a, <1>0, EndTyped
  <2>3. CASE /\ db[Totp] # None /\ UNCHANGED <<db, own, held>>
             /\ Continue(t, [job[t] EXCEPT !.pc = "listCodes",
                                           !.enrollment = db[Totp].enrollmentId])
    <3>1. PICK e : e = db[Totp].enrollmentId
      OBVIOUS
    <3>2. e \in Enrollment \cap used
      BY <2>3, <3>1, <1>0 DEF RowsTyped, RowValue, Row
    <3>3. OneJob(t) /\ job'[t] = [job[t] EXCEPT !.pc = "listCodes", !.enrollment = e]
      BY <2>3, <3>1, <1>0 DEF JobsTyped, Continue, OneJob
    <3>4. Flow(job[t])
      BY <1>0 DEF JobsTyped
    <3>5. job'[t] \in Job /\ job'[t].pc = "listCodes"
      BY <2>0, <3>2, <3>3 DEF Job, Pc
    <3>6. Flow(job[t])'
      BY <2>0, <2>1, <3>2, <3>3, <3>4 DEF Flow, Job, OpsAt
    <3>7. JobsTyped'
      BY <1>0, <2>1, <3>3, <3>5, <3>6, JobStep
    <3> QED BY <2>1, <2>3, <3>3, <3>5, <3>7, <1>a, <1>0, RowsFrame
  <2> QED BY <1>3, <2>2, <2>3 DEF FindWinner
<1>4. CASE ListUnusedRecoveryCodes(t)
  <2>0. job[t].enrollment \in used
    BY <1>4, <1>0, OpAt DEF ListUnusedRecoveryCodes
  <2>1. Kept /\ End(t)
    BY <1>4 DEF ListUnusedRecoveryCodes
  <2>2. RowsTyped' /\ JobsTyped' /\ OneJob(t) /\ job'[t].pc = "idle"
    BY <2>1, <1>0, EndTyped
  <2>3. HistoryTyped'
    BY <1>4, <2>0, <1>0 DEF ListUnusedRecoveryCodes, HistoryTyped, sessions
  <2>4. StoreTyped'
    BY <1>0, <2>1, StoreFrame
  <2> QED BY <2>1, <2>2, <2>3, <2>4 DEF Typed
<1>5. CASE Commit(t)
  <2>0. job[t].op = "enroll" => job[t].enrollment \in Enrollment \cap used
    BY <1>5, <1>0, OpAt DEF Commit
  <2>1. Kept /\ Publish(t) /\ Continue(t, NoJob)
    BY <1>5 DEF Commit
  <2>2. RowsTyped' /\ JobsTyped' /\ OneJob(t) /\ job'[t].pc = "idle"
    BY <2>1, <1>0, RowsCommit, JobEnds DEF NoJob
  <2>3. HistoryTyped'
    BY <1>5, <2>0, <1>0 DEF Commit, HistoryTyped, sessions, CodesOf, RecoveryCode
  <2>4. StoreTyped'
    BY <1>0, <2>1, StoreFrame
  <2> QED BY <2>1, <2>2, <2>3, <2>4 DEF Typed
<1>6. CASE DeleteMfaTotp(t)
  <2>0. job[t].op \in {"disable", "forceDisable"}
    BY <1>6, <1>0, OpAt DEF DeleteMfaTotp
  <2>1. Kept /\ shown' = shown /\ Continue(t, GoTo(t, "deleteCodes"))
    BY <1>6 DEF DeleteMfaTotp, history
  <2>2. ASSUME Execute(t, {<<Totp, "UPDATE">>}, [own[t] EXCEPT ![Totp] = None])
        PROVE  RowsTyped'
    <3>2. PICK w : w = [own[t] EXCEPT ![Totp] = None]
      OBVIOUS
    <3>3. DOMAIN w = Row /\ \A r \in Row : w[r] \in RowValue(r) \cup {Unwritten}
      BY <3>2, <1>0 DEF RowsTyped, Row, RowValue
    <3>4. \A l \in {<<Totp, "UPDATE">>} : \E r \in Row, m \in Mode : l = <<r, m>>
      BY DEF Row, Mode, RowLock
    <3>5. Execute(t, {<<Totp, "UPDATE">>}, w)
      BY <2>2, <3>2
    <3> QED BY <3>3, <3>4, <3>5, <2>1, <1>0, RowsWrite
  <2>3. ASSUME Execute(t, {}, own[t])
        PROVE  RowsTyped'
    BY <2>3, <2>1, <1>0 DEF Execute, RowsTyped, RowValue
  <2>4. RowsTyped'
    BY <1>6, <2>2, <2>3 DEF DeleteMfaTotp
  <2>5. JobsTyped' /\ OneJob(t) /\ job'[t].pc \in Pcs
    BY <2>0, <2>1, <1>0, <1>b, GoToTyped DEF OpsAt
  <2> QED BY <1>a, <2>1, <2>4, <2>5
<1>7. CASE DeleteRecoveryCodesByUserId(t)
  <2>0. job[t].op \in {"disable", "forceDisable"}
    BY <1>7, <1>0, OpAt DEF DeleteRecoveryCodesByUserId
  <2>1. Kept /\ shown' = shown /\ Continue(t, GoTo(t, "commit"))
    BY <1>7 DEF DeleteRecoveryCodesByUserId, history
  <2>2. PICK codes : codes = {r \in RecoveryCode : db[r] # None}
    OBVIOUS
  <2>3. PICK w : w = [r \in Row |-> IF r \in codes THEN None ELSE own[t][r]]
    OBVIOUS
  <2>5. PICK need : need = {<<r, "UPDATE">> : r \in codes}
    OBVIOUS
  <2>6. \A l \in need : \E r \in Row, m \in Mode : l = <<r, m>>
    BY <2>2, <2>5 DEF Row, Mode, RowLock
  <2>7. Execute(t, need, w)
    BY <1>7, <2>2, <2>3, <2>5 DEF DeleteRecoveryCodesByUserId
  <2>8. DOMAIN w = Row /\ \A r \in Row : w[r] \in RowValue(r) \cup {Unwritten}
    BY <2>2, <2>3, <1>0, MarkersApart DEF RowsTyped, Row, RowValue, CodeValue
  <2>9. RowsTyped'
    BY <2>1, <2>6, <2>7, <2>8, <1>0, RowsWrite
  <2>10. JobsTyped' /\ OneJob(t) /\ job'[t].pc \in Pcs
    BY <2>0, <2>1, <1>0, <1>b, GoToTyped DEF OpsAt
  <2> QED BY <1>a, <2>1, <2>9, <2>10
<1> QED BY <1>1, <1>2, <1>3, <1>4, <1>5, <1>6, <1>7 DEF Aside

LEMMA StoreSet ==
    ASSUME StoreTyped, used \subseteq used', now' = now,
           NEW k \in Key, NEW v \in Nat, NEW ttl \in Nat, Set(k, v, ttl),
           \A c \in Challenge \ used' : k # challengeKey(c) /\ k # attemptsKey(c)
    PROVE  StoreTyped'
BY KeysApart DEF StoreTyped, Set

LEMMA StoreDelete ==
    ASSUME StoreTyped, used \subseteq used', now' = now, NEW k \in Key, Fails(Delete(k))
    PROVE  StoreTyped'
BY KeysApart, MarkersApart DEF StoreTyped, Delete, Fails, NoEntry

LEMMA CountTyped ==
    ASSUME StoreTyped, NEW k \in Key
    PROVE  NextCount(k) \in Nat /\ NextCount(k) >= 1
BY DEF StoreTyped, NextCount

LEMMA ConsumeMatchedCodeTyped ==
    ASSUME Typed, NEW t \in Slot, ConsumeMatchedCode(t)
    PROVE  /\ Typed' /\ OneJob(t) /\ UNCHANGED <<store, now, used, sessions, tries, shown>>
           /\ \/ job'[t].pc = "idle" /\ spent' = spent
              \/ /\ spent' = spent \cup {<<job[t].code, Purpose(t)>>}
                 /\ job'[t].op = job[t].op /\ job'[t].challenge = job[t].challenge
                 /\ job'[t].code = job[t].code
                 /\ job'[t].pc \in {"issueSession", "resetBudget"}
                 /\ Consumable(job[t].code)
<1>0. RowsTyped /\ JobsTyped /\ HistoryTyped /\ StoreTyped
  BY DEF Typed
<1>1. /\ UNCHANGED <<store, now, used, sessions, tries, shown>>
      /\ job[t].op \in {"verify", "disable"} /\ job[t].code \in Code
  BY <1>0, OpAt DEF ConsumeMatchedCode
<1>2. StoreTyped'
  BY <1>0, <1>1, StoreFrame
<1>3. CASE End(t) /\ spent' = spent
  <2>1. HistoryTyped'
    BY <1>0, <1>1, <1>3, HistoryFrame DEF history
  <2> QED BY <1>0, <1>1, <1>2, <1>3, <2>1, EndTyped DEF Typed
<1>4. ASSUME Consumable(job[t].code), ~(End(t) /\ spent' = spent)
      PROVE  /\ Typed' /\ OneJob(t)
             /\ spent' = spent \cup {<<job[t].code, Purpose(t)>>}
             /\ job'[t].op = job[t].op /\ job'[t].challenge = job[t].challenge
             /\ job'[t].code = job[t].code
             /\ job'[t].pc \in {"issueSession", "resetBudget"}
  <2>1. PICK code : code = job[t].code
    OBVIOUS
  <2>2. PICK row : row = IF code[1] = "totp" THEN Totp ELSE <<code[2], code[3]>>
    OBVIOUS
  <2>3. PICK value : value = IF code[1] = "totp"
                             THEN [db[Totp] EXCEPT !.lastUsedTimestep = code[3]]
                             ELSE "used"
    OBVIOUS
  <2>4. /\ Autocommit(t, row, value) /\ Continue(t, GoTo(t, afterConsume(t)))
        /\ spent' = spent \cup {<<job[t].code, Purpose(t)>>}
    BY <1>4, <2>1, <2>2, <2>3 DEF ConsumeMatchedCode
  <2>5. row \in Row /\ value \in RowValue(row)
    <3>1. CASE code[1] = "totp"
      <4>1. db[Totp] \in RowValue(Totp) /\ db[Totp] # None /\ code[3] \in Step
        BY <1>0, <1>1, <1>4, <2>1, <3>1, CodeParts DEF Consumable, isMfaEnabled, RowsTyped, Row
      <4> QED BY <2>2, <2>3, <3>1, <4>1 DEF RowValue, Row
    <3>2. CASE code[1] # "totp"
      <4>1. <<code[2], code[3]>> \in RecoveryCode
        BY <1>1, <2>1, <3>2, CodeParts
      <4> QED BY <2>2, <2>3, <3>2, <4>1, MarkersApart DEF RowValue, Row, CodeValue
    <3> QED BY <3>1, <3>2
  <2>6. RowsTyped'
    BY <1>0, <1>1, <2>4, <2>5, RowsSet
  <2>7. /\ JobsTyped' /\ OneJob(t) /\ job'[t].op = job[t].op
        /\ job'[t].challenge = job[t].challenge /\ job'[t].code = job[t].code
        /\ job'[t].pc \in {"issueSession", "resetBudget"}
    <3>1. CASE job[t].op = "verify"
      <4>1. Continue(t, GoTo(t, "issueSession"))
        BY <2>4, <3>1 DEF afterConsume
      <4> QED BY <1>0, <1>1, <3>1, <4>1, GoToTyped DEF OpsAt, Pc
    <3>2. CASE job[t].op = "disable"
      <4>1. Continue(t, GoTo(t, "resetBudget"))
        BY <2>4, <3>2 DEF afterConsume
      <4> QED BY <1>0, <1>1, <3>2, <4>1, GoToTyped DEF OpsAt, Pc
    <3> QED BY <3>1, <3>2, <1>1
  <2>8. HistoryTyped'
    BY <1>0, <1>1, <2>4 DEF HistoryTyped, sessions
  <2> QED BY <1>2, <2>4, <2>6, <2>7, <2>8 DEF Typed
<1>5. Consumable(job[t].code) \/ (End(t) /\ spent' = spent)
  BY DEF ConsumeMatchedCode
<1>6. End(t) => job'[t].pc = "idle"
  BY <1>0, <1>1, EndTyped
<1> QED BY <1>1, <1>3, <1>4, <1>5, <1>6

LEMMA SpendAttemptTyped ==
    ASSUME Typed, NEW t \in Slot, SpendAttempt(t)
    PROVE  /\ Typed' /\ OneJob(t) /\ UNCHANGED <<now, used, sessions, history>>
           /\ job[t].op \in {"verify", "disable"}
           /\ \/ /\ IncrementWindow(budgetOf(t).key, budgetOf(t).window)
                 /\ NextCount(budgetOf(t).key) <= budgetOf(t).maxAttempts
                 /\ job'[t].pc = "match" /\ job'[t].op = job[t].op
                 /\ job'[t].challenge = job[t].challenge
              \/ /\ Fails(IncrementWindow(budgetOf(t).key, budgetOf(t).window))
                 /\ job'[t].pc \in {"idle", "expire"}
<1>0. RowsTyped /\ JobsTyped /\ HistoryTyped /\ StoreTyped
  BY DEF Typed
<1>1. /\ UNCHANGED <<now, used, sessions, history>>
      /\ job[t].op \in {"verify", "disable"} /\ job[t] \in Job
      /\ job[t].op = "verify" => job[t].challenge \in Challenge \cap used
  BY <1>0, OpAt DEF SpendAttempt
<1>2. PICK k, window, max : k = budgetOf(t).key /\ window = budgetOf(t).window
                            /\ max = budgetOf(t).maxAttempts
  OBVIOUS
<1>3. /\ k \in Key /\ window \in Nat /\ max \in Nat
      /\ \A c \in Challenge \ used' : k # challengeKey(c) /\ k # attemptsKey(c)
  BY <1>1, <1>2, KeysApart, BudgetsPositive DEF budgetOf
<1>4. NextCount(k) \in Nat
  BY <1>0, <1>3, CountTyped
<1>5. Fails(IncrementWindow(k, window)) => StoreTyped'
  <2>1. PICK v : v = NextCount(k)
    OBVIOUS
  <2>2. CASE Set(k, v, window)
    BY <2>2, <2>1, <1>0, <1>1, <1>3, <1>4, StoreSet
  <2>3. CASE UNCHANGED store
    BY <2>3, <1>0, <1>1, StoreFrame
  <2> QED BY <2>1, <2>2, <2>3 DEF Fails, IncrementWindow
<1>6. HistoryTyped'
  BY <1>0, <1>1, HistoryFrame
<1>7. CASE /\ NextCount(k) <= max /\ IncrementWindow(k, window)
           /\ Continue(t, [job[t] EXCEPT !.pc = "match", !.left = max - NextCount(k)])
           /\ UNCHANGED <<db, own, held>>
  <2>1. PICK n : n = max - NextCount(k)
    OBVIOUS
  <2>2. n \in Nat
    BY <1>3, <1>4, <1>7, <2>1
  <2>3. OneJob(t) /\ job'[t] = [job[t] EXCEPT !.pc = "match", !.left = n]
    BY <1>7, <2>1, <1>0 DEF JobsTyped, Continue, OneJob
  <2>4. job'[t] \in Job
    BY <1>1, <2>2, <2>3 DEF Job, Pc
  <2>5. Flow(job[t])
    BY <1>0 DEF JobsTyped
  <2>6. Flow(job[t])'
    BY <1>1, <2>3, <2>5 DEF Flow, Job, OpsAt
  <2>7. JobsTyped' /\ RowsTyped'
    BY <1>0, <1>1, <1>7, <2>3, <2>4, <2>6, JobStep, RowsFrame
  <2>8. job'[t].pc = "match" /\ job'[t].op = job[t].op /\ job'[t].challenge = job[t].challenge
    BY <1>1, <2>3 DEF Job
  <2> QED BY <1>1, <1>2, <1>5, <1>6, <1>7, <2>3, <2>7, <2>8 DEF Typed, Fails
<1>8. CASE /\ job[t].op = "verify" /\ IncrementWindow(k, window)
           /\ Continue(t, GoTo(t, "expire")) /\ UNCHANGED <<db, own, held>>
  <2>1. JobsTyped' /\ OneJob(t) /\ job'[t].pc = "expire"
    BY <1>0, <1>1, <1>8, GoToTyped DEF OpsAt, Pc
  <2>2. RowsTyped'
    BY <1>0, <1>1, <1>8, RowsFrame
  <2> QED BY <1>1, <1>2, <1>5, <1>6, <1>8, <2>1, <2>2 DEF Typed, Fails
<1>9. CASE Fails(IncrementWindow(k, window)) /\ End(t)
  <2>1. RowsTyped' /\ JobsTyped' /\ OneJob(t) /\ job'[t].pc = "idle"
    BY <1>0, <1>1, <1>9, EndTyped
  <2> QED BY <1>1, <1>2, <1>5, <1>6, <1>9, <2>1 DEF Typed
<1> QED BY <1>2, <1>7, <1>8, <1>9 DEF SpendAttempt, Fails

LEMMA MatchOwnedCodeTyped ==
    ASSUME Typed, NEW t \in Slot, MatchOwnedCode(t)
    PROVE  /\ Typed' /\ OneJob(t) /\ UNCHANGED <<store, now, used, sessions, spent, shown>>
           /\ job[t].op \in {"verify", "disable"} /\ job[t].pc = "match"
           /\ job'[t].pc \in {"consumeChallenge", "revoke", "expire", "idle"}
           /\ tries' = IF job[t].op = "verify"
                       THEN [tries EXCEPT ![job[t].challenge] = @ + 1] ELSE tries
<1>0. RowsTyped /\ JobsTyped /\ HistoryTyped /\ StoreTyped
  BY DEF Typed
<1>1. /\ UNCHANGED <<store, now, used, sessions, spent, shown>>
      /\ job[t].op \in {"verify", "disable"} /\ job[t].pc = "match"
      /\ tries' = IF job[t].op = "verify"
                  THEN [tries EXCEPT ![job[t].challenge] = @ + 1] ELSE tries
      /\ job[t].op = "verify" => job[t].challenge \in Challenge
  BY <1>0, OpAt DEF MatchOwnedCode, At
<1>2. StoreTyped' /\ HistoryTyped'
  BY <1>0, <1>1, StoreFrame DEF HistoryTyped, sessions
<1>3. \/ Continue(t, GoTo(t, "consumeChallenge")) /\ job[t].op = "verify" /\ UNCHANGED <<db, own, held>>
      \/ Continue(t, GoTo(t, "revoke")) /\ job[t].op = "disable" /\ UNCHANGED <<db, own, held>>
      \/ Continue(t, GoTo(t, "expire")) /\ job[t].op = "verify" /\ UNCHANGED <<db, own, held>>
      \/ End(t)
  BY <1>1 DEF MatchOwnedCode
<1>4. /\ JobsTyped' /\ OneJob(t) /\ RowsTyped'
      /\ job'[t].pc \in {"consumeChallenge", "revoke", "expire", "idle"}
  BY <1>0, <1>1, <1>3, GoToTyped, EndTyped, RowsFrame DEF OpsAt, Pc
<1> QED BY <1>1, <1>2, <1>4 DEF Typed

LEMMA RevokeTyped ==
    ASSUME Typed, NEW t \in Slot, RevokeOtherSessions(t)
    PROVE  /\ Typed' /\ OneJob(t) /\ live' \subseteq live
           /\ UNCHANGED <<store, now, used, delivered, origin, activator, history>>
           /\ job[t].op # "verify"
           /\ \/ job'[t].pc = "idle"
              \/ /\ job'[t].op = job[t].op /\ job'[t].pc \in {"activate", "consumeCode"}
                 /\ job'[t].code = job[t].code
<1>0. RowsTyped /\ JobsTyped /\ HistoryTyped /\ StoreTyped
  BY DEF Typed
<1>1. /\ UNCHANGED <<store, now, used, delivered, origin, activator, history>>
      /\ job[t].op \in {"activate", "disable"} /\ live' \subseteq live
  BY <1>0, OpAt DEF RevokeOtherSessions
<1>2. StoreTyped' /\ HistoryTyped'
  BY <1>0, <1>1, StoreFrame DEF HistoryTyped, history
<1>3. \/ Continue(t, GoTo(t, "activate")) /\ job[t].op = "activate" /\ UNCHANGED <<db, own, held>>
      \/ Continue(t, GoTo(t, "consumeCode")) /\ job[t].op = "disable" /\ UNCHANGED <<db, own, held>>
      \/ End(t)
  BY <1>1 DEF RevokeOtherSessions
<1>4. /\ JobsTyped' /\ OneJob(t) /\ RowsTyped'
      /\ \/ job'[t].pc = "idle"
         \/ /\ job'[t].op = job[t].op /\ job'[t].pc \in {"activate", "consumeCode"}
            /\ job'[t].code = job[t].code
  BY <1>0, <1>1, <1>3, GoToTyped, EndTyped, RowsFrame DEF OpsAt, Pc
<1> QED BY <1>1, <1>2, <1>4 DEF Typed

LEMMA ActivateMfaTotpTyped ==
    ASSUME Typed, NEW t \in Slot, ActivateMfaTotp(t)
    PROVE  /\ Typed' /\ OneJob(t) /\ job'[t] = NoJob
           /\ UNCHANGED <<store, now, used, live, delivered, origin, tries, shown>>
           /\ spent' \subseteq spent \cup {<<job[t].code, "activate">>}
           /\ spent \subseteq spent'
<1>0. RowsTyped /\ JobsTyped /\ HistoryTyped /\ StoreTyped
  BY DEF Typed
<1>1. /\ UNCHANGED <<store, now, used, live, delivered, origin, tries, shown>>
      /\ job[t].op = "activate" /\ job[t].code \in Code /\ job[t].code[1] = "totp"
      /\ job[t].session \in Session
      /\ spent' \subseteq spent \cup {<<job[t].code, "activate">>} /\ spent \subseteq spent'
      /\ activator' \in {activator, job[t].session}
  BY <1>0, OpAt DEF ActivateMfaTotp
<1>2. StoreTyped' /\ HistoryTyped'
  BY <1>0, <1>1, StoreFrame DEF HistoryTyped
<1>3. CASE End(t)
  BY <1>0, <1>1, <1>2, <1>3, EndTyped DEF Typed
<1>4. CASE /\ db[Totp] # None /\ Continue(t, NoJob)
           /\ Autocommit(t, Totp, [db[Totp] EXCEPT !.verified = TRUE,
                                                   !.lastUsedTimestep = job[t].code[3]])
  <2>1. job[t].code[3] \in Step /\ Totp \in Row
    BY <1>1, CodeParts DEF Row
  <2>2. db[Totp] \in RowValue(Totp)
    BY <1>0, <2>1 DEF RowsTyped
  <2>3. PICK v : v = [db[Totp] EXCEPT !.verified = TRUE, !.lastUsedTimestep = job[t].code[3]]
    OBVIOUS
  <2>4. v \in RowValue(Totp)
    BY <1>4, <2>1, <2>2, <2>3 DEF RowValue
  <2>5. RowsTyped'
    BY <1>0, <1>1, <1>4, <2>1, <2>3, <2>4, RowsSet
  <2> QED BY <1>0, <1>1, <1>2, <1>4, <2>5, JobEnds DEF Typed
<1> QED BY <1>3, <1>4 DEF ActivateMfaTotp

LEMMA ResetTyped ==
    ASSUME Typed, NEW t \in Slot, ResetDisableAttempts(t)
    PROVE  /\ Typed' /\ OneJob(t) /\ job'[t].pc = "deleteTotp"
           /\ UNCHANGED <<db, own, held, now, used, sessions, history>>
           /\ Fails(Delete(disableAttemptsKey))
<1>0. RowsTyped /\ JobsTyped /\ HistoryTyped /\ StoreTyped
  BY DEF Typed
<1>1. /\ UNCHANGED <<db, own, held, now, used, sessions, history>>
      /\ job[t].op = "disable" /\ Fails(Delete(disableAttemptsKey))
      /\ Continue(t, GoTo(t, "deleteTotp"))
  BY <1>0, OpAt DEF ResetDisableAttempts
<1>2. StoreTyped' /\ HistoryTyped' /\ RowsTyped'
  BY <1>0, <1>1, StoreDelete, HistoryFrame, RowsFrame, KeysApart
<1>3. JobsTyped' /\ OneJob(t) /\ job'[t].pc = "deleteTotp"
  BY <1>0, <1>1, GoToTyped DEF OpsAt, Pc
<1> QED BY <1>1, <1>2, <1>3 DEF Typed

LEMMA SignInTyped ==
    ASSUME Typed, NEW t \in Slot, MfaChallengeRequired(t) \/ DeleteSession(t) \/ Abort(t)
    PROVE  /\ Typed' /\ OneJob(t) /\ job'[t].pc \in {"openChallenge", "idle"}
           /\ UNCHANGED <<store, now, used, origin, activator, history>>
           /\ live' \subseteq live
           /\ delivered' # delivered => ~ChallengeEnabled \/ ~isMfaEnabled(db[Totp])
           /\ delivered' \in {delivered, delivered \cup {job[t].session}}
<1>0. RowsTyped /\ JobsTyped /\ HistoryTyped /\ StoreTyped
  BY DEF Typed
<1>1. /\ UNCHANGED <<store, now, used, origin, activator, history>>
      /\ live' \subseteq live
      /\ delivered' # delivered => ~ChallengeEnabled \/ ~isMfaEnabled(db[Totp])
      /\ delivered' \in {delivered, delivered \cup {job[t].session}}
      /\ delivered' # delivered => job[t].session \in Session \cap used
  BY <1>0, OpAt DEF MfaChallengeRequired, DeleteSession, Abort, sessions
<1>2. StoreTyped' /\ HistoryTyped'
  BY <1>0, <1>1, StoreFrame DEF HistoryTyped, history
<1>3. \/ Continue(t, GoTo(t, "openChallenge")) /\ job[t].op = "signIn" /\ UNCHANGED <<db, own, held>>
      \/ End(t)
  BY <1>0, OpAt DEF MfaChallengeRequired, DeleteSession, Abort
<1>4. /\ JobsTyped' /\ OneJob(t) /\ RowsTyped' /\ job'[t].pc \in {"openChallenge", "idle"}
  BY <1>0, <1>1, <1>3, GoToTyped, EndTyped, RowsFrame DEF OpsAt, Pc
<1> QED BY <1>1, <1>2, <1>4 DEF Typed

LEMMA OpenTyped ==
    ASSUME Typed, NEW t \in Slot, OpenLoginChallenge(t)
    PROVE  /\ Typed' /\ OneJob(t) /\ job'[t].pc = "deleteSession"
           /\ UNCHANGED <<db, own, held, now, sessions, history>>
           /\ \/ UNCHANGED <<store, used>>
              \/ \E c \in Challenge :
                    /\ c \notin used /\ Set(challengeKey(c), 1, LoginWindow)
                    /\ used' = used \cup {c}
<1>0. RowsTyped /\ JobsTyped /\ HistoryTyped /\ StoreTyped
  BY DEF Typed
<1>1. UNCHANGED <<db, own, held, now, sessions, history>> /\ job[t].op = "signIn" /\ job[t] \in Job
  BY <1>0, OpAt DEF OpenLoginChallenge
<1>2. ASSUME NEW c \in Challenge, Fresh(c), Set(challengeKey(c), 1, LoginWindow),
             used' = used \cup {c},
             Continue(t, [job[t] EXCEPT !.pc = "deleteSession", !.challenge = c])
      PROVE  Typed' /\ OneJob(t) /\ job'[t].pc = "deleteSession"
  <2>1. OneJob(t) /\ job'[t] = [job[t] EXCEPT !.pc = "deleteSession", !.challenge = c]
    BY <1>2, <1>0 DEF JobsTyped, Continue, OneJob
  <2>2. job'[t] \in Job /\ job'[t].pc = "deleteSession"
    BY <1>1, <2>1 DEF Job, Pc
  <2>3. Flow(job[t])
    BY <1>0 DEF JobsTyped
  <2>4. Flow(job[t])'
    BY <1>1, <1>2, <2>1, <2>3 DEF Flow, Job, OpsAt
  <2>5. JobsTyped' /\ RowsTyped' /\ HistoryTyped'
    BY <1>0, <1>1, <1>2, <2>1, <2>2, <2>4, JobStep, RowsFrame, HistoryFrame
  <2>6. StoreTyped'
    BY <1>0, <1>1, <1>2, StoreSet, KeysApart, BudgetsPositive
  <2> QED BY <2>1, <2>2, <2>5, <2>6 DEF Typed
<1>3. CASE Continue(t, GoTo(t, "deleteSession")) /\ UNCHANGED <<store, used>>
  <2>1. JobsTyped' /\ OneJob(t) /\ job'[t].pc = "deleteSession"
    BY <1>0, <1>1, <1>3, GoToTyped DEF OpsAt, Pc
  <2> QED BY <1>0, <1>1, <1>3, <2>1, RowsFrame, StoreFrame, HistoryFrame DEF Typed
<1> QED BY <1>1, <1>2, <1>3 DEF OpenLoginChallenge, Fresh

\* consumeLoginChallenge and expireLoginChallenge.
LEMMA TakeTyped ==
    ASSUME Typed, NEW t \in Slot, ConsumeLoginChallenge(t) \/ ExpireLoginChallenge(t)
    PROVE  /\ Typed' /\ OneJob(t) /\ UNCHANGED <<now, used, sessions, history>>
           /\ job[t].op = "verify" /\ job[t].challenge \in Challenge \cap used
           /\ Fails(Delete(challengeKey(job[t].challenge)))
           /\ \/ job'[t].pc = "idle"
              \/ /\ job'[t].pc = "consumeCode" /\ job'[t].op = "verify"
                 /\ job'[t].challenge = job[t].challenge /\ job'[t].code = job[t].code
                 /\ LiveEntry(challengeKey(job[t].challenge))
                 /\ Delete(challengeKey(job[t].challenge))
<1>0. RowsTyped /\ JobsTyped /\ HistoryTyped /\ StoreTyped
  BY DEF Typed
<1>1. /\ UNCHANGED <<now, used, sessions, history>>
      /\ job[t].op = "verify" /\ job[t].challenge \in Challenge \cap used
      /\ Fails(Delete(challengeKey(job[t].challenge)))
  BY <1>0, OpAt DEF ConsumeLoginChallenge, ExpireLoginChallenge, Fails
<1>2. PICK k : k = challengeKey(job[t].challenge)
  OBVIOUS
<1>3. k \in Key /\ Fails(Delete(k))
  BY <1>1, <1>2, KeysApart
<1>4. StoreTyped' /\ HistoryTyped'
  BY <1>0, <1>1, <1>3, StoreDelete, HistoryFrame
<1>5. \/ /\ Continue(t, GoTo(t, "consumeCode")) /\ UNCHANGED <<db, own, held>>
         /\ LiveEntry(challengeKey(job[t].challenge)) /\ Delete(challengeKey(job[t].challenge))
      \/ End(t)
  BY DEF ConsumeLoginChallenge, ExpireLoginChallenge
<1>6. CASE End(t)
  BY <1>0, <1>1, <1>4, <1>6, EndTyped DEF Typed
<1>7. CASE /\ Continue(t, GoTo(t, "consumeCode")) /\ UNCHANGED <<db, own, held>>
           /\ LiveEntry(challengeKey(job[t].challenge)) /\ Delete(challengeKey(job[t].challenge))
  <2>1. /\ JobsTyped' /\ OneJob(t) /\ job'[t].pc = "consumeCode" /\ job'[t].op = "verify"
        /\ job'[t].challenge = job[t].challenge /\ job'[t].code = job[t].code
    BY <1>0, <1>1, <1>7, GoToTyped DEF OpsAt, Pc
  <2> QED BY <1>0, <1>1, <1>4, <1>7, <2>1, RowsFrame DEF Typed
<1> QED BY <1>5, <1>6, <1>7

LEMMA IssueTyped ==
    ASSUME Typed, NEW t \in Slot, IssueSession(t)
    PROVE  /\ Typed' /\ OneJob(t) /\ job'[t].pc = "idle" /\ Discard(t)
           /\ UNCHANGED <<store, now, activator, history>>
           /\ job[t].op = "verify" /\ job[t].challenge \in Challenge \cap used
           /\ job[t].pc = "issueSession" /\ used \subseteq used'
           /\ \E s \in Session :
                /\ Fresh(s) /\ live' = live \cup {s} /\ delivered' = delivered \cup {s}
                /\ origin' = [origin EXCEPT ![s] = job[t].challenge]
<1>0. RowsTyped /\ JobsTyped /\ HistoryTyped /\ StoreTyped
  BY DEF Typed
<1>1. /\ UNCHANGED <<store, now, activator, history>> /\ End(t) /\ Discard(t)
      /\ job[t].op = "verify" /\ job[t].challenge \in Challenge \cap used
      /\ job[t].pc = "issueSession"
  BY <1>0, OpAt DEF IssueSession, At, End
<1>2. PICK s \in Session :
         /\ Fresh(s) /\ live' = live \cup {s} /\ delivered' = delivered \cup {s}
         /\ used' = used \cup {s}
         /\ origin' = [origin EXCEPT ![s] = job[t].challenge]
  BY DEF IssueSession
<1>3. HistoryTyped'
  BY <1>0, <1>1, <1>2 DEF HistoryTyped, history
<1>4. StoreTyped' /\ RowsTyped' /\ JobsTyped' /\ OneJob(t) /\ job'[t].pc = "idle"
  BY <1>0, <1>1, <1>2, StoreFrame, EndTyped
<1> QED BY <1>1, <1>2, <1>3, <1>4 DEF Typed

LEMMA TickTyped ==
    ASSUME Typed, Tick
    PROVE  Typed'
<1>1. StoreTyped'
  BY BudgetsPositive DEF Typed, StoreTyped, Tick
<1>2. JobsTyped'
  BY DEF Typed, JobsTyped, Flow, Tick
<1> QED BY <1>1, <1>2, RowsFrame, HistoryFrame DEF Tick, Typed

-----------------------------------------------------------------------------
(* The budget.                                                             *)

LEMMA NobodyJoins ==
    ASSUME JobsTyped, NEW t \in Slot, OneJob(t), job'[t].pc # "match", NEW c
    PROVE  Pending(c)' \subseteq Pending(c)
BY DEF JobsTyped, OneJob, Pending, Comparing

LEMMA FewerPending ==
    ASSUME NEW c, Pending(c)' \subseteq Pending(c), IsFiniteSet(Pending(c))
    PROVE  /\ IsFiniteSet(Pending(c)')
           /\ Cardinality(Pending(c)) \in Nat /\ Cardinality(Pending(c)') \in Nat
           /\ Cardinality(Pending(c)') <= Cardinality(Pending(c))
<1>1. PICK P, Q : P = Pending(c) /\ Q = Pending(c)'
  OBVIOUS
<1>2. IsFiniteSet(P) /\ Q \in SUBSET P
  BY <1>1
<1>3. IsFiniteSet(Q) /\ Cardinality(Q) <= Cardinality(P)
  BY <1>2, FS_Subset
<1>4. Cardinality(P) \in Nat /\ Cardinality(Q) \in Nat
  BY <1>2, <1>3, FS_CardinalityType
<1> QED BY <1>1, <1>3, <1>4

\* Nobody starts to compare a code, and at most challenges disappear.
LEMMA BudgetFrame ==
    ASSUME Typed, Budget, used \subseteq used', tries' = tries, now' = now,
           \A c \in Challenge : Pending(c)' \subseteq Pending(c),
           \A c \in Challenge :
               /\ store'[challengeKey(c)] \in {store[challengeKey(c)], NoEntry}
               /\ store'[attemptsKey(c)] = store[attemptsKey(c)]
    PROVE  Budget'
<1> SUFFICES ASSUME NEW c \in Challenge
             PROVE  WindowOutlasts(c)' /\ Counted(c)'
  BY DEF Budget
<1>0. /\ WindowOutlasts(c) /\ Counted(c) /\ tries[c] \in Nat
      /\ store[challengeKey(c)] \in [value : Nat, expiresAt : Nat]
      /\ store[attemptsKey(c)] \in [value : Nat, expiresAt : Nat]
      /\ now \in Nat
  BY KeysApart DEF Budget, Typed, HistoryTyped, StoreTyped
<1>1. WindowOutlasts(c)'
  BY <1>0, BudgetsPositive DEF WindowOutlasts, NoEntry
<1>2. ASSUME LiveEntry(challengeKey(c))'
      PROVE  LiveEntry(challengeKey(c)) /\ Count(c)' = Count(c)
  BY <1>0, <1>2 DEF LiveEntry, NoEntry, Count
<1>3. ASSUME LiveEntry(challengeKey(c)), IsFiniteSet(Pending(c))
      PROVE  /\ IsFiniteSet(Pending(c)')
             /\ Cardinality(Pending(c)) \in Nat /\ Cardinality(Pending(c)') \in Nat
             /\ Cardinality(Pending(c)') <= Cardinality(Pending(c))
  BY <1>3, FewerPending
<1>4. Count(c) \in Nat
  BY <1>0 DEF Count
<1>5. Counted(c)'
  BY <1>0, <1>2, <1>3, <1>4, BudgetsPositive DEF Counted
<1> QED BY <1>1, <1>5

LEMMA SpendBudget ==
    ASSUME Typed, Budget, NEW t \in Slot, SpendAttempt(t)
    PROVE  Budget'
<1>0. /\ Typed' /\ OneJob(t) /\ UNCHANGED <<now, used, tries>> /\ job[t].pc = "spend"
      /\ JobsTyped
      /\ job[t].op = "verify" => job[t].challenge \in Challenge
      /\ job[t].op \in {"verify", "disable"}
  BY SpendAttemptTyped, OpAt DEF Typed, history, SpendAttempt, At
<1>1. \/ /\ IncrementWindow(budgetOf(t).key, budgetOf(t).window)
         /\ NextCount(budgetOf(t).key) <= budgetOf(t).maxAttempts
         /\ job'[t].pc = "match" /\ job'[t].op = job[t].op
         /\ job'[t].challenge = job[t].challenge
      \/ /\ Fails(IncrementWindow(budgetOf(t).key, budgetOf(t).window))
         /\ job'[t].pc \in {"idle", "expire"}
  BY SpendAttemptTyped
<1>2. CASE job[t].op = "disable"
  <2>1. \A c \in Challenge : Pending(c)' \subseteq Pending(c)
    BY <1>0, <1>1, <1>2 DEF JobsTyped, OneJob, Pending, Comparing
  <2>2. \A c \in Challenge :
               /\ store'[challengeKey(c)] \in {store[challengeKey(c)], NoEntry}
               /\ store'[attemptsKey(c)] = store[attemptsKey(c)]
    BY <1>1, <1>2, KeysApart DEF Typed, StoreTyped, budgetOf, Fails, IncrementWindow, Set
  <2> QED BY <1>0, <2>1, <2>2, BudgetFrame
<1>3. CASE job[t].op = "verify"
  <2>1. PICK d \in Challenge : d = job[t].challenge
    BY <1>0, <1>3
  <2>2. /\ budgetOf(t).key = attemptsKey(d) /\ budgetOf(t).window = LoginWindow
        /\ budgetOf(t).maxAttempts = LoginAttempts
    BY <1>3, <2>1 DEF budgetOf
  <2> SUFFICES ASSUME NEW c \in Challenge
               PROVE  WindowOutlasts(c)' /\ Counted(c)'
    BY DEF Budget
  <2>3. /\ WindowOutlasts(c) /\ Counted(c) /\ tries[c] \in Nat
        /\ store[challengeKey(c)] \in [value : Nat, expiresAt : Nat]
        /\ store[attemptsKey(c)] \in [value : Nat, expiresAt : Nat]
        /\ now \in Nat \ {0} /\ DOMAIN store = Key
    BY KeysApart DEF Budget, Typed, HistoryTyped, StoreTyped
  <2>4. /\ store'[challengeKey(c)] = store[challengeKey(c)]
        /\ c # d => store'[attemptsKey(c)] = store[attemptsKey(c)]
        /\ store'[attemptsKey(d)] \in
             {store[attemptsKey(d)], [value |-> NextCount(attemptsKey(d)), expiresAt |-> now + LoginWindow]}
        /\ job'[t].pc = "match" =>
             store'[attemptsKey(d)] = [value |-> NextCount(attemptsKey(d)), expiresAt |-> now + LoginWindow]
    BY <1>1, <2>2, <2>3, KeysApart DEF Fails, IncrementWindow, Set
  <2>5. WindowOutlasts(c)'
    BY <1>0, <2>3, <2>4, BudgetsPositive DEF WindowOutlasts
  <2>6. /\ Count(c) \in Nat /\ Count(c)' \in Nat /\ Count(c)' >= Count(c)
        /\ NextCount(attemptsKey(c)) = Count(c) + 1
        /\ c = d /\ job'[t].pc = "match" => Count(c)' = Count(c) + 1
    BY <1>0, <2>3, <2>4, BudgetsPositive DEF Count, NextCount, LiveEntry
  <2>7. LiveEntry(challengeKey(c))' <=> LiveEntry(challengeKey(c))
    BY <1>0, <2>4 DEF LiveEntry
  <2>8. CASE job'[t].pc = "match" /\ c = d
    <3>1. t \notin Pending(c) /\ Pending(c)' = Pending(c) \cup {t}
      BY <1>0, <1>1, <1>3, <2>1, <2>8 DEF JobsTyped, OneJob, Pending, Comparing
    <3>2. PICK P : P = Pending(c)
      OBVIOUS
    <3>3. ASSUME IsFiniteSet(P)
          PROVE  /\ IsFiniteSet(P \cup {t}) /\ Cardinality(P) \in Nat
                 /\ Cardinality(P \cup {t}) = Cardinality(P) + 1
      BY <3>1, <3>2, <3>3, FS_AddElement, FS_CardinalityType
    <3>4. NextCount(attemptsKey(c)) <= LoginAttempts
      BY <1>1, <2>2, <2>8
    <3>5. Pending(c)' = P \cup {t} /\ tries'[c] = tries[c]
      BY <1>0, <3>1, <3>2
    <3>6. ASSUME LiveEntry(challengeKey(c))
          PROVE  /\ IsFiniteSet(Pending(c)')
                 /\ tries'[c] + Cardinality(Pending(c)') <= Count(c)'
                 /\ tries'[c] + Cardinality(Pending(c)') <= LoginAttempts
      BY <2>3, <2>6, <2>8, <3>2, <3>3, <3>4, <3>5, <3>6, BudgetsPositive DEF Counted
    <3> QED BY <2>5, <2>7, <3>6 DEF Counted
  <2>9. CASE ~(job'[t].pc = "match" /\ c = d)
    <3>1. Pending(c)' \subseteq Pending(c)
      BY <1>0, <1>1, <1>3, <2>1, <2>9 DEF JobsTyped, OneJob, Pending, Comparing
    <3>2. ASSUME LiveEntry(challengeKey(c))
          PROVE  /\ IsFiniteSet(Pending(c)')
                 /\ tries'[c] + Cardinality(Pending(c)') <= Count(c)'
                 /\ tries'[c] + Cardinality(Pending(c)') <= LoginAttempts
      BY <1>0, <2>3, <2>6, <3>1, <3>2, FewerPending, BudgetsPositive DEF Counted
    <3> QED BY <2>5, <2>7, <3>2 DEF Counted
  <2> QED BY <2>8, <2>9
<1> QED BY <1>0, <1>2, <1>3

LEMMA MatchBudget ==
    ASSUME Typed, Budget, NEW t \in Slot, MatchOwnedCode(t)
    PROVE  Budget'
<1>0. /\ OneJob(t) /\ UNCHANGED <<store, now, used>> /\ job[t].pc = "match" /\ JobsTyped
      /\ job'[t].pc # "match" /\ job[t].op \in {"verify", "disable"}
      /\ tries' = IF job[t].op = "verify"
                  THEN [tries EXCEPT ![job[t].challenge] = @ + 1] ELSE tries
  BY MatchOwnedCodeTyped DEF Typed
<1>1. \A c \in Challenge : Pending(c)' \subseteq Pending(c)
  BY <1>0, NobodyJoins
<1>2. CASE job[t].op = "disable"
  BY <1>0, <1>1, <1>2, BudgetFrame
<1>3. CASE job[t].op = "verify"
  <2>1. PICK d \in Challenge : d = job[t].challenge /\ d \in used
    BY <1>0, <1>3, OpAt
  <2> SUFFICES ASSUME NEW c \in Challenge
               PROVE  WindowOutlasts(c)' /\ Counted(c)'
    BY DEF Budget
  <2>3. WindowOutlasts(c) /\ Counted(c) /\ tries[c] \in Nat /\ tries \in [Challenge -> Nat]
    BY DEF Budget, Typed, HistoryTyped
  <2>4. WindowOutlasts(c)'
    BY <1>0, <1>3, <2>1, <2>3 DEF WindowOutlasts
  <2>5. LiveEntry(challengeKey(c))' = LiveEntry(challengeKey(c)) /\ Count(c)' = Count(c)
    BY <1>0 DEF LiveEntry, Count
  <2>6. Count(c) \in Nat
    BY KeysApart DEF Count, Typed, StoreTyped
  <2>7. CASE c # d
    <3>1. tries'[c] = tries[c]
      BY <1>0, <1>3, <2>1, <2>3, <2>7
    <3>2. ASSUME LiveEntry(challengeKey(c))
          PROVE  /\ IsFiniteSet(Pending(c)')
                 /\ tries'[c] + Cardinality(Pending(c)') <= Count(c)'
                 /\ tries'[c] + Cardinality(Pending(c)') <= LoginAttempts
      BY <1>1, <2>3, <2>5, <2>6, <3>1, <3>2, FewerPending, BudgetsPositive DEF Counted
    <3> QED BY <2>4, <2>5, <3>2 DEF Counted
  <2>8. CASE c = d
    <3>1. tries'[c] = tries[c] + 1
      BY <1>0, <1>3, <2>1, <2>3, <2>8
    <3>2. PICK P : P = Pending(c)
      OBVIOUS
    <3>3. t \in P /\ Pending(c)' = P \ {t}
      BY <1>0, <1>3, <2>1, <2>8, <3>2 DEF JobsTyped, OneJob, Pending, Comparing
    <3>4. ASSUME IsFiniteSet(P)
          PROVE  /\ IsFiniteSet(P \ {t}) /\ Cardinality(P) \in Nat
                 /\ Cardinality(P \ {t}) = Cardinality(P) - 1
      BY <3>3, <3>4, FS_RemoveElement, FS_CardinalityType
    <3>5. ASSUME LiveEntry(challengeKey(c))
          PROVE  /\ IsFiniteSet(Pending(c)')
                 /\ tries'[c] + Cardinality(Pending(c)') <= Count(c)'
                 /\ tries'[c] + Cardinality(Pending(c)') <= LoginAttempts
      BY <2>3, <2>5, <2>6, <3>1, <3>2, <3>3, <3>4, <3>5, BudgetsPositive DEF Counted
    <3> QED BY <2>4, <2>5, <3>5 DEF Counted
  <2> QED BY <2>7, <2>8
<1> QED BY <1>0, <1>2, <1>3

LEMMA OpenBudget ==
    ASSUME Typed, Budget, NEW t \in Slot, OpenLoginChallenge(t)
    PROVE  Budget'
<1>0. /\ OneJob(t) /\ UNCHANGED <<now, tries>> /\ job'[t].pc # "match" /\ JobsTyped
      /\ StoreTyped /\ HistoryTyped
  BY OpenTyped DEF Typed, history
<1>1. \A c \in Challenge : Pending(c)' \subseteq Pending(c)
  BY <1>0, NobodyJoins
<1>2. CASE UNCHANGED <<store, used>>
  BY <1>0, <1>1, <1>2, BudgetFrame
<1>3. ASSUME NEW d \in Challenge, d \notin used, used' = used \cup {d},
             Set(challengeKey(d), 1, LoginWindow)
      PROVE  Budget'
  <2> SUFFICES ASSUME NEW c \in Challenge
               PROVE  WindowOutlasts(c)' /\ Counted(c)'
    BY DEF Budget
  <2>1. /\ WindowOutlasts(c) /\ Counted(c) /\ tries[c] \in Nat /\ now \in Nat
        /\ tries'[c] = tries[c]
        /\ store[attemptsKey(c)] \in [value : Nat, expiresAt : Nat]
    BY <1>0, KeysApart DEF Budget, HistoryTyped, StoreTyped
  <2>2. /\ store'[attemptsKey(c)] = store[attemptsKey(c)]
        /\ c # d => store'[challengeKey(c)] = store[challengeKey(c)]
        /\ c = d => /\ store'[challengeKey(c)] = [value |-> 1, expiresAt |-> now + LoginWindow]
                    /\ store[attemptsKey(c)].expiresAt = 0 /\ tries[c] = 0
    BY <1>0, <1>3, <2>1, KeysApart DEF Set, StoreTyped, WindowOutlasts
  <2>3. WindowOutlasts(c)'
    BY <1>0, <1>3, <2>1, <2>2, BudgetsPositive DEF WindowOutlasts
  <2>4. Count(c)' = Count(c) /\ Count(c) \in Nat
    BY <1>0, <2>1, <2>2 DEF Count, LiveEntry
  <2>5. CASE c = d
    <3>1. Pending(c) = {}
      BY <1>0, <1>3, <2>5, MarkersApart, OpAt DEF Pending, Comparing
    <3>2. Pending(c)' = {}
      BY <1>1, <3>1
    <3> QED BY <2>1, <2>2, <2>3, <2>4, <2>5, <3>2, FS_EmptySet, BudgetsPositive DEF Counted
  <2>6. CASE c # d
    <3>1. LiveEntry(challengeKey(c))' <=> LiveEntry(challengeKey(c))
      BY <1>0, <2>2, <2>6 DEF LiveEntry
    <3>2. ASSUME LiveEntry(challengeKey(c))
          PROVE  /\ IsFiniteSet(Pending(c)')
                 /\ tries'[c] + Cardinality(Pending(c)') <= Count(c)'
                 /\ tries'[c] + Cardinality(Pending(c)') <= LoginAttempts
      BY <1>1, <2>1, <2>4, <3>2, FewerPending, BudgetsPositive DEF Counted
    <3> QED BY <2>3, <3>1, <3>2 DEF Counted
  <2> QED BY <2>5, <2>6
<1> QED BY <1>2, <1>3, OpenTyped

\* As time passes the window of a live challenge goes on.
LEMMA TickBudget ==
    ASSUME Typed, Budget, Tick
    PROVE  Budget'
<1>0. /\ now' = now + 1 /\ UNCHANGED <<store, job, used, tries>>
      /\ StoreTyped /\ HistoryTyped
  BY DEF Tick, Typed, history
<1> SUFFICES ASSUME NEW c \in Challenge
             PROVE  WindowOutlasts(c)' /\ Counted(c)'
  BY DEF Budget
<1>1. /\ WindowOutlasts(c) /\ Counted(c) /\ now \in Nat
      /\ store[challengeKey(c)] \in [value : Nat, expiresAt : Nat]
      /\ store[attemptsKey(c)] \in [value : Nat, expiresAt : Nat]
  BY <1>0, KeysApart DEF Budget, StoreTyped
<1>2. WindowOutlasts(c)'
  BY <1>0, <1>1, BudgetsPositive DEF WindowOutlasts
<1>3. ASSUME LiveEntry(challengeKey(c))'
      PROVE  LiveEntry(challengeKey(c)) /\ Count(c)' = Count(c)
  BY <1>0, <1>1, <1>3 DEF LiveEntry, Count, WindowOutlasts
<1>4. Pending(c)' = Pending(c)
  BY <1>0 DEF Pending, Comparing
<1>5. Counted(c)'
  BY <1>0, <1>1, <1>3, <1>4 DEF Counted
<1> QED BY <1>2, <1>5

-----------------------------------------------------------------------------
(* A challenge is passed once.                                             *)

\* Nothing is spent or issued on a challenge, nobody takes one, and at most
\* challenges disappear.
LEMMA OnceFrame ==
    ASSUME JobsTyped, Once, ChallengePassedOnce, used \subseteq used',
           NEW t \in Slot, OneJob(t), \A c \in Challenge : ~Taker(job'[t], c),
           \A p \in spent' : p \in spent \/ p[2] \notin Challenge,
           \A s \in Session : origin'[s] = origin[s] \/ origin'[s] \notin Challenge,
           \A c \in Challenge :
               store'[challengeKey(c)] \in {store[challengeKey(c)], NoEntry}
    PROVE  Once' /\ ChallengePassedOnce'
<1>1. \A c \in Challenge : Gone(c) => Gone(c)'
  BY DEF Gone, NoEntry
<1>2. \A u \in Slot, c \in Challenge :
        Taker(job'[u], c) => u # t /\ job'[u] = job[u] /\ Taker(job[u], c)
  BY DEF JobsTyped, OneJob
<1>3. ChallengePassedOnce'
  BY DEF ChallengePassedOnce
<1>4. Once'
  BY <1>1, <1>2 DEF Once
<1> QED BY <1>3, <1>4

LEMMA NoTaker ==
    ASSUME NEW j, j.pc \notin {"consumeCode", "issueSession"} \/ j.op # "verify"
    PROVE  \A c \in Challenge : ~Taker(j, c)
BY DEF Taker

LEMMA TakeOnce ==
    ASSUME Typed, Once, ChallengePassedOnce, NEW t \in Slot,
           ConsumeLoginChallenge(t) \/ ExpireLoginChallenge(t)
    PROVE  Once' /\ ChallengePassedOnce'
<1>0. /\ OneJob(t) /\ UNCHANGED <<now, used, origin, spent>> /\ JobsTyped /\ StoreTyped
      /\ job[t].challenge \in Challenge \cap used
      /\ Fails(Delete(challengeKey(job[t].challenge)))
  BY TakeTyped DEF Typed, sessions, history
<1>1. PICK d \in Challenge : d = job[t].challenge /\ d \in used
  BY <1>0
<1>2. \A c \in Challenge : /\ store'[challengeKey(c)] \in {store[challengeKey(c)], NoEntry}
                           /\ c # d => store'[challengeKey(c)] = store[challengeKey(c)]
  BY <1>0, <1>1, KeysApart DEF Fails, Delete, StoreTyped
<1>3. CASE job'[t].pc = "idle"
  BY <1>0, <1>2, <1>3, NoTaker, OnceFrame
<1>4. CASE /\ job'[t].pc = "consumeCode" /\ job'[t].op = "verify" /\ job'[t].challenge = d
           /\ LiveEntry(challengeKey(d)) /\ Delete(challengeKey(d))
  <2>1. Gone(d)' /\ ~Gone(d)
    BY <1>0, <1>1, <1>4, KeysApart DEF Gone, Delete, NoEntry, StoreTyped, LiveEntry
  <2>2. /\ \A u \in Slot : ~Taker(job[u], d)
        /\ \A p \in spent : p[2] # d
        /\ \A s \in Session : origin[s] # d
    BY <2>1 DEF Once
  <2>3. \A c \in Challenge : Gone(c) => Gone(c)'
    BY <1>0, <1>2 DEF Gone, NoEntry
  <2>4. \A u \in Slot, c \in Challenge :
          Taker(job'[u], c) => \/ u = t /\ c = d
                               \/ u # t /\ c # d /\ job'[u] = job[u] /\ Taker(job[u], c)
    BY <1>0, <1>4, <2>2 DEF JobsTyped, OneJob, Taker
  <2>5. ChallengePassedOnce'
    BY <1>0 DEF ChallengePassedOnce
  <2>6. Once'
    BY <1>0, <2>1, <2>2, <2>3, <2>4 DEF Once
  <2> QED BY <2>5, <2>6
<1> QED BY <1>1, <1>3, <1>4, TakeTyped

LEMMA ConsumeOnce ==
    ASSUME Typed, Once, ChallengePassedOnce, NEW t \in Slot, ConsumeMatchedCode(t)
    PROVE  Once' /\ ChallengePassedOnce'
<1>0. /\ OneJob(t) /\ UNCHANGED <<store, used, origin>> /\ JobsTyped
      /\ job[t].op \in {"verify", "disable"} /\ job[t].pc = "consumeCode"
      /\ job[t].op = "verify" => job[t].challenge \in Challenge
  BY ConsumeMatchedCodeTyped, OpAt DEF Typed, sessions, ConsumeMatchedCode, At
<1>1. CASE job'[t].pc = "idle" /\ spent' = spent
  BY <1>0, <1>1, NoTaker, OnceFrame
<1>2. CASE /\ spent' = spent \cup {<<job[t].code, Purpose(t)>>}
           /\ job'[t].op = job[t].op /\ job'[t].challenge = job[t].challenge
           /\ job'[t].pc \in {"issueSession", "resetBudget"}
  <2>1. CASE job[t].op = "disable"
    <3>1. \A p \in spent' : p \in spent \/ p[2] \notin Challenge
      BY <1>2, <2>1, MarkersApart DEF Purpose, Op
    <3> QED BY <1>0, <1>2, <2>1, <3>1, NoTaker, OnceFrame
  <2>2. CASE job[t].op = "verify"
    <3>1. PICK d, code : d \in Challenge /\ d = job[t].challenge /\ code = job[t].code
      BY <1>0, <2>2
    <3>2. spent' = spent \cup {<<code, d>>} /\ Taker(job[t], d)
      BY <1>0, <1>2, <2>2, <3>1 DEF Purpose, Taker
    <3>3. /\ Gone(d) /\ \A u \in Slot : Taker(job[u], d) => u = t
          /\ \A s \in Session : origin[s] # d
          /\ \A p \in spent : p[2] # d
      BY <1>0, <3>1, <3>2 DEF Once
    <3>4. \A c \in Challenge : Gone(c) <=> Gone(c)'
      BY <1>0 DEF Gone
    <3>5. \A u \in Slot, c \in Challenge :
            Taker(job'[u], c) => /\ Taker(job[u], c)
                                 /\ u # t => job'[u] = job[u]
                                 /\ u = t => c = d /\ job'[u].pc # "consumeCode"
                                 /\ u # t => c # d
      BY <1>0, <1>2, <2>2, <3>1, <3>3 DEF JobsTyped, OneJob, Taker
    <3>6. ChallengePassedOnce'
      BY <1>0, <3>2, <3>3 DEF ChallengePassedOnce
    <3>7. Once'
      BY <1>0, <3>2, <3>3, <3>4, <3>5 DEF Once
    <3> QED BY <3>6, <3>7
  <2> QED BY <1>0, <2>1, <2>2
<1> QED BY <1>1, <1>2, ConsumeMatchedCodeTyped

LEMMA IssueOnce ==
    ASSUME Typed, Once, ChallengePassedOnce, NEW t \in Slot, IssueSession(t)
    PROVE  Once' /\ ChallengePassedOnce'
<1>0. /\ OneJob(t) /\ UNCHANGED <<store, spent>> /\ used \subseteq used' /\ JobsTyped
      /\ job[t].op = "verify" /\ job[t].challenge \in Challenge
      /\ job[t].pc = "issueSession" /\ job'[t].pc = "idle"
      /\ origin \in [Session -> Challenge \cup {"primary", None}]
  BY IssueTyped DEF Typed, history, HistoryTyped
<1>1. PICK d \in Challenge, s \in Session :
         d = job[t].challenge /\ origin' = [origin EXCEPT ![s] = d]
  BY <1>0, IssueTyped
<1>2. /\ Gone(d) /\ \A u \in Slot : Taker(job[u], d) => u = t
      /\ \A r \in Session : origin[r] # d
  BY <1>0, <1>1 DEF Once, Taker
<1>3. \A c \in Challenge : Gone(c) => Gone(c)'
  BY <1>0 DEF Gone
<1>4. \A u \in Slot, c \in Challenge :
        Taker(job'[u], c) => u # t /\ c # d /\ job'[u] = job[u] /\ Taker(job[u], c)
  BY <1>0, <1>1, <1>2 DEF JobsTyped, OneJob, Taker
<1>5. \A r \in Session : origin'[r] = IF r = s THEN d ELSE origin[r]
  BY <1>0, <1>1
<1>6. ChallengePassedOnce'
  BY <1>0, <1>2, <1>5 DEF ChallengePassedOnce
<1>7. Once'
  BY <1>0, <1>2, <1>3, <1>4, <1>5 DEF Once
<1> QED BY <1>6, <1>7

LEMMA OpenOnce ==
    ASSUME Typed, Once, ChallengePassedOnce, NEW t \in Slot, OpenLoginChallenge(t)
    PROVE  Once' /\ ChallengePassedOnce'
<1>0. /\ OneJob(t) /\ UNCHANGED <<now, spent, origin>> /\ JobsTyped /\ StoreTyped
      /\ job'[t].pc = "deleteSession"
  BY OpenTyped DEF Typed, history, sessions
<1>1. CASE UNCHANGED <<store, used>>
  BY <1>0, <1>1, NoTaker, OnceFrame
<1>2. ASSUME NEW d \in Challenge, d \notin used, used' = used \cup {d},
             Set(challengeKey(d), 1, LoginWindow)
      PROVE  Once' /\ ChallengePassedOnce'
  <2>1. \A c \in Challenge : Gone(c) => Gone(c)' /\ c # d
    BY <1>0, <1>2, KeysApart DEF Gone, Set, StoreTyped
  <2>2. \A u \in Slot, c \in Challenge :
          Taker(job'[u], c) => u # t /\ job'[u] = job[u] /\ Taker(job[u], c)
    BY <1>0 DEF JobsTyped, OneJob, Taker
  <2>3. ChallengePassedOnce'
    BY <1>0 DEF ChallengePassedOnce
  <2>4. Once'
    BY <1>0, <2>1, <2>2 DEF Once
  <2> QED BY <2>3, <2>4
<1> QED BY <1>1, <1>2, OpenTyped

-----------------------------------------------------------------------------
(* The induction.                                                          *)

LEMMA InitInv == Init => MfaInv
<1> SUFFICES ASSUME Init PROVE MfaInv
  OBVIOUS
<1>1. PICK e \in Enrollment, s \in Session :
          /\ db = [r \in Row |->
                     IF ~InitiallyEnabled THEN None
                     ELSE IF r = Totp
                     THEN [enrollmentId |-> e, verified |-> TRUE, lastUsedTimestep |-> 0]
                     ELSE IF r \in CodesOf(e) THEN "unused" ELSE None]
          /\ live = {s} /\ delivered = {s}
          /\ used = {s} \cup IF InitiallyEnabled THEN {e} ELSE {}
          /\ origin = [x \in Session |-> IF x = s THEN "primary" ELSE None]
          /\ activator = IF InitiallyEnabled THEN s ELSE None
  BY DEF Init
<1>2. /\ own = [t \in Slot |-> Clean] /\ held = {} /\ store = [k \in Key |-> NoEntry] /\ now = 1
      /\ job = [t \in Slot |-> NoJob]
      /\ spent = {} /\ tries = [c \in Challenge |-> 0] /\ shown = {}
  BY DEF Init
<1>3. RowsTyped
  <2>1. CASE ~InitiallyEnabled
    BY <1>1, <1>2, <2>1 DEF RowsTyped, RowValue, CodeValue, Clean
  <2>2. CASE InitiallyEnabled
    <3> DEFINE row == [enrollmentId |-> e, verified |-> TRUE, lastUsedTimestep |-> 0]
    <3>1. row \in RowValue(Totp)
      BY <1>1, <2>2, BudgetsPositive DEF RowValue, Step
    <3>2. \A r \in Row : db[r] = IF r = Totp THEN row
                               ELSE IF r \in CodesOf(e) THEN "unused" ELSE None
      BY <1>1, <2>2
    <3> HIDE DEF row
    <3>3. \A r \in Row : db[r] \in RowValue(r)
      BY <3>1, <3>2 DEF RowValue, CodeValue
    <3> QED BY <1>1, <1>2, <3>3 DEF RowsTyped, Clean
  <2> QED BY <2>1, <2>2
<1>4. StoreTyped
  BY <1>2, KeysApart, BudgetsPositive, MarkersApart DEF StoreTyped, NoEntry
<1>5. JobsTyped
  BY <1>2, NoJobFlows DEF JobsTyped
<1>6. HistoryTyped
  BY <1>1, <1>2 DEF HistoryTyped
<1>7. Budget
  <2> SUFFICES ASSUME NEW c \in Challenge PROVE WindowOutlasts(c) /\ Counted(c)
    BY DEF Budget
  <2>1. store[challengeKey(c)].expiresAt = 0 /\ store[attemptsKey(c)].expiresAt = 0
    BY <1>2, KeysApart DEF NoEntry
  <2> QED BY <1>2, <2>1, BudgetsPositive DEF WindowOutlasts, Counted, LiveEntry
<1>8. \A t \in Slot, c \in Challenge : ~Taker(job[t], c)
  BY <1>2 DEF Taker, NoJob
<1>9. \A x \in Session : origin[x] \notin Challenge
  BY <1>1, MarkersApart
<1> QED BY <1>2, <1>3, <1>4, <1>5, <1>6, <1>7, <1>8, <1>9
        DEF MfaInv, Typed, Once, ChallengePassedOnce

\* A step of a request.
LEMMA SlotInv ==
    ASSUME MfaInv, NEW t \in Slot, Arrive(t) \/ Proceed(t) \/ Abort(t)
    PROVE  MfaInv'
<1>0. Typed /\ Budget /\ Once /\ ChallengePassedOnce /\ JobsTyped /\ StoreTyped
  BY DEF MfaInv, Typed
\* Most steps leave the keys of challenges, what was spent and compared alone.
<1>a. ASSUME OneJob(t), used \subseteq used', UNCHANGED <<now, tries>>,
             job'[t].pc \notin {"match", "consumeCode", "issueSession"} \/ job'[t].op # "verify",
             \A p \in spent' : p \in spent \/ p[2] \notin Challenge,
             \A s \in Session : origin'[s] = origin[s] \/ origin'[s] \notin Challenge,
             \A c \in Challenge :
               /\ store'[challengeKey(c)] \in {store[challengeKey(c)], NoEntry}
               /\ store'[attemptsKey(c)] = store[attemptsKey(c)]
      PROVE  Budget' /\ Once' /\ ChallengePassedOnce'
  <2>1. \A c \in Challenge : Pending(c)' \subseteq Pending(c)
    BY <1>a, <1>0 DEF JobsTyped, OneJob, Pending, Comparing
  <2>2. \A c \in Challenge : ~Taker(job'[t], c)
    BY <1>a, NoTaker
  <2> QED BY <1>a, <1>0, <2>1, <2>2, BudgetFrame, OnceFrame
<1>b. "primary" \notin Challenge /\ "activate" \notin Challenge
  BY MarkersApart DEF Op
<1>1. CASE Enroll(t)
  <2>1. UNCHANGED <<store, now, spent, tries, origin>> /\ used \subseteq used'
    BY <1>1 DEF Enroll, Begin, sessions, history
  <2> QED BY <1>1, <1>0, <1>a, <2>1, EnrollTyped DEF MfaInv
<1>2. CASE Activate(t) \/ Disable(t) \/ ForceDisable(t) \/ Verify(t)
  BY <1>2, <1>0, <1>a, ArrivalTyped DEF MfaInv, sessions, history
<1>3. CASE PrimaryAuth(t)
  <2>1. /\ UNCHANGED <<store, now, spent, tries>> /\ used \subseteq used'
        /\ \A s \in Session : origin'[s] = origin[s] \/ origin'[s] \notin Challenge
    BY <1>3, <1>0, <1>b DEF PrimaryAuth, history, Typed, HistoryTyped
  <2> QED BY <1>3, <1>0, <1>a, <2>1, PrimaryAuthTyped DEF MfaInv
<1>4. CASE Aside(t)
  BY <1>4, <1>0, <1>a, AsideTyped DEF MfaInv, sessions
<1>5. CASE ConsumeMatchedCode(t)
  <2>1. /\ Typed' /\ OneJob(t) /\ used' = used /\ UNCHANGED <<store, now, tries>>
        /\ job'[t].pc # "match"
    BY <1>5, <1>0, ConsumeMatchedCodeTyped
  <2>2. \A c \in Challenge : Pending(c)' \subseteq Pending(c)
    BY <2>1, <1>0, NobodyJoins
  <2>3. Budget'
    BY <2>1, <2>2, <1>0, BudgetFrame
  <2> QED BY <1>5, <1>0, <2>1, <2>3, ConsumeOnce DEF MfaInv
<1>6. CASE SpendAttempt(t)
  <2>1. /\ Typed' /\ OneJob(t) /\ UNCHANGED <<used, spent, origin>> /\ Budget'
        /\ job'[t].pc \in {"match", "idle", "expire"}
    BY <1>6, <1>0, SpendAttemptTyped, SpendBudget DEF sessions, history
  <2>2. \A c \in Challenge : store'[challengeKey(c)] = store[challengeKey(c)]
    <3>1. PICK k, window : k = budgetOf(t).key /\ window = budgetOf(t).window
      OBVIOUS
    <3>2. \A c \in Challenge : challengeKey(c) # k
      BY <1>6, <1>0, <3>1, KeysApart, OpAt DEF budgetOf, SpendAttempt
    <3>3. Fails(IncrementWindow(k, window))
      BY <1>6, <1>0, <3>1, SpendAttemptTyped DEF Fails
    <3> QED BY <1>0, <3>2, <3>3, KeysApart DEF Fails, IncrementWindow, Set, StoreTyped
  <2>3. Once' /\ ChallengePassedOnce'
    BY <1>0, <2>1, <2>2, NoTaker, OnceFrame
  <2> QED BY <2>1, <2>3 DEF MfaInv
<1>7. CASE MatchOwnedCode(t)
  <2>1. /\ Typed' /\ OneJob(t) /\ UNCHANGED <<store, used, spent, origin>> /\ Budget'
        /\ job'[t].pc \in {"consumeChallenge", "revoke", "expire", "idle"}
    BY <1>7, <1>0, MatchOwnedCodeTyped, MatchBudget DEF sessions
  <2>2. Once' /\ ChallengePassedOnce'
    BY <1>0, <2>1, NoTaker, OnceFrame
  <2> QED BY <2>1, <2>2 DEF MfaInv
<1>8. CASE RevokeOtherSessions(t)
  BY <1>8, <1>0, <1>a, RevokeTyped DEF MfaInv, history
<1>9. CASE ActivateMfaTotp(t)
  <2>1. \A p \in spent' : p \in spent \/ p[2] \notin Challenge
    BY <1>9, <1>0, <1>b, ActivateMfaTotpTyped
  <2> QED BY <1>9, <1>0, <1>a, <2>1, ActivateMfaTotpTyped DEF MfaInv, NoJob
<1>10. CASE ResetDisableAttempts(t)
  <2>1. \A c \in Challenge : /\ store'[challengeKey(c)] = store[challengeKey(c)]
                             /\ store'[attemptsKey(c)] = store[attemptsKey(c)]
    BY <1>10, <1>0, KeysApart, ResetTyped DEF Fails, Delete, StoreTyped
  <2> QED BY <1>10, <1>0, <1>a, <2>1, ResetTyped DEF MfaInv, sessions, history
<1>11. CASE MfaChallengeRequired(t) \/ DeleteSession(t) \/ Abort(t)
  BY <1>11, <1>0, <1>a, SignInTyped DEF MfaInv, history
<1>12. CASE OpenLoginChallenge(t)
  BY <1>12, <1>0, OpenTyped, OpenBudget, OpenOnce DEF MfaInv
<1>13. CASE ConsumeLoginChallenge(t) \/ ExpireLoginChallenge(t)
  <2>1. /\ Typed' /\ OneJob(t) /\ UNCHANGED <<now, used, tries>> /\ job'[t].pc # "match"
        /\ job[t].challenge \in Challenge
        /\ Fails(Delete(challengeKey(job[t].challenge)))
    BY <1>13, <1>0, TakeTyped DEF history
  <2>2. \A c \in Challenge : Pending(c)' \subseteq Pending(c)
    BY <2>1, <1>0, NobodyJoins
  <2>3. \A c \in Challenge :
               /\ store'[challengeKey(c)] \in {store[challengeKey(c)], NoEntry}
               /\ store'[attemptsKey(c)] = store[attemptsKey(c)]
    BY <2>1, <1>0, KeysApart DEF Fails, Delete, StoreTyped
  <2>4. Budget'
    BY <2>1, <2>2, <2>3, <1>0, BudgetFrame
  <2> QED BY <1>13, <1>0, <2>1, <2>4, TakeOnce DEF MfaInv
<1>14. CASE IssueSession(t)
  <2>1. /\ Typed' /\ OneJob(t) /\ UNCHANGED <<store, now, tries>> /\ job'[t].pc # "match"
        /\ used \subseteq used'
    BY <1>14, <1>0, IssueTyped DEF history
  <2>2. \A c \in Challenge : Pending(c)' \subseteq Pending(c)
    BY <2>1, <1>0, NobodyJoins
  <2>3. Budget'
    BY <2>1, <2>2, <1>0, BudgetFrame
  <2> QED BY <1>14, <1>0, <2>1, <2>3, IssueOnce DEF MfaInv
<1> QED BY <1>1, <1>2, <1>3, <1>4, <1>5, <1>6, <1>7, <1>8, <1>9, <1>10, <1>11, <1>12, <1>13, <1>14
        DEF Arrive, Proceed, Aside

LEMMA StepInv == MfaInv /\ [Next]_vars => MfaInv'
<1> SUFFICES ASSUME MfaInv, [Next]_vars PROVE MfaInv'
  OBVIOUS
<1>1. CASE Tick
  <2>1. UNCHANGED <<store, job, used, spent, origin>>
    BY <1>1 DEF Tick, sessions, history
  <2>2. Once' /\ ChallengePassedOnce'
    BY <2>1 DEF MfaInv, Once, ChallengePassedOnce, Taker, Gone
  <2> QED BY <1>1, <2>2, TickTyped, TickBudget DEF MfaInv
<1>2. CASE UNCHANGED vars
  <2>1. UNCHANGED <<db, own, held, store, now, job, used, live, delivered, origin, activator,
                    spent, tries, shown>>
    BY <1>2 DEF vars, sessions, history
  <2>2. RowsTyped' /\ StoreTyped' /\ HistoryTyped' /\ JobsTyped'
    BY <2>1, RowsFrame, StoreFrame, HistoryFrame
       DEF MfaInv, Typed, sessions, history, JobsTyped, Flow
  <2>3. \A c \in Challenge : Pending(c)' = Pending(c) /\ Count(c)' = Count(c)
    BY <2>1 DEF Pending, Comparing, Count, LiveEntry
  <2>4. Budget'
    BY <2>1, <2>3 DEF MfaInv, Budget, WindowOutlasts, Counted, LiveEntry
  <2>5. Once' /\ ChallengePassedOnce'
    BY <2>1 DEF MfaInv, Once, ChallengePassedOnce, Taker, Gone
  <2> QED BY <2>2, <2>4, <2>5 DEF MfaInv, Typed
<1> QED BY <1>1, <1>2, SlotInv DEF Next

-----------------------------------------------------------------------------
(* The theorems.                                                           *)

\* The invariant: whatever overlaps, fails or expires, every comparison of a
\* code for an open challenge was counted in a window that outlasts it
\* (spendLoginChallengeAttempt), and a challenge has one taker
\* (consumeLoginChallenge).
THEOREM MfaConsistent == Spec => []MfaInv
BY InitInv, StepInv, PTL DEF Spec

\* Rows, uncommitted writes, keys, requests and histories keep their types.
THEOREM MfaTypeCorrect == Spec => []MfaTypeOK
<1>1. MfaInv => MfaTypeOK
  <2> SUFFICES ASSUME MfaInv PROVE MfaTypeOK
    OBVIOUS
  <2>1. RowsTyped /\ StoreTyped /\ JobsTyped /\ HistoryTyped
    BY DEF MfaInv, Typed
  <2>2. db[Totp] \in TotpRow \cup {None}
    BY <2>1 DEF RowsTyped, RowValue, Row, TotpRow
  <2>3. \A r \in RecoveryCode : db[r] \in CodeValue
    BY <2>1, MarkersApart DEF RowsTyped, RowValue, Row
  <2> QED BY <2>1, <2>2, <2>3 DEF RowsTyped, StoreTyped, JobsTyped, HistoryTyped, MfaTypeOK
<1> QED BY <1>1, MfaConsistent, PTL

\* A challenge costs one code and issues one session, however many submissions
\* to it overlap (completeLoginChallenge).
THEOREM PassedOnce == Spec => []ChallengePassedOnce
<1>1. MfaInv => ChallengePassedOnce
  BY DEF MfaInv
<1> QED BY <1>1, MfaConsistent, PTL

\* No more codes than the budget allows are compared for a challenge that can
\* still be passed, for any budget, window and number of requests at a time
\* (spendLoginChallengeAttempt).
THEOREM BudgetNeverExceeded == Spec => []BudgetKept
<1>1. MfaInv => BudgetKept
  <2> SUFFICES ASSUME MfaInv, NEW c \in Challenge, LiveEntry(challengeKey(c))
               PROVE  tries[c] <= LoginAttempts
    BY DEF BudgetKept
  <2>1. /\ IsFiniteSet(Pending(c)) /\ tries[c] + Cardinality(Pending(c)) <= LoginAttempts
        /\ tries[c] \in Nat
    BY DEF MfaInv, Budget, Counted, Typed, HistoryTyped
  <2>2. Cardinality(Pending(c)) \in Nat
    BY <2>1, FS_CardinalityType
  <2> QED BY <2>1, <2>2, BudgetsPositive
<1> QED BY <1>1, MfaConsistent, PTL

-----------------------------------------------------------------------------
(* What a step does to requests and rows.                                  *)

LEMMA OneJobStep ==
    ASSUME Typed, NEW t \in Slot, Arrive(t) \/ Proceed(t) \/ Abort(t)
    PROVE  OneJob(t)
BY EnrollTyped, ArrivalTyped, PrimaryAuthTyped, AsideTyped, ConsumeMatchedCodeTyped,
   SpendAttemptTyped, MatchOwnedCodeTyped, RevokeTyped, ActivateMfaTotpTyped, ResetTyped,
   SignInTyped, OpenTyped, TakeTyped, IssueTyped DEF Arrive, Proceed, Aside

\* A request remains of its kind until it ends.
LEMMA OpKept ==
    ASSUME Typed, NEW t \in Slot, Proceed(t) \/ Abort(t)
    PROVE  job'[t].op \in {job[t].op, "none"}
<1>0. JobsTyped /\ job[t] \in Job
  BY DEF Typed, JobsTyped
<1>1. ASSUME NEW j, Continue(t, j), j.op \in {job[t].op, "none"}
      PROVE  job'[t].op \in {job[t].op, "none"}
  BY <1>0, <1>1, Continued
<1>2. ASSUME NEW p, Continue(t, GoTo(t, p))
      PROVE  job'[t].op \in {job[t].op, "none"}
  <2>1. PICK j : j = GoTo(t, p)
    OBVIOUS
  <2>2. j.op = job[t].op
    BY <1>0, <2>1 DEF Job, GoTo
  <2> QED BY <1>1, <1>2, <2>1, <2>2
<1>3. CASE End(t) \/ Continue(t, NoJob)
  BY <1>1, <1>3 DEF End, NoJob
<1>4. CASE FindWinner(t)
  <2>1. PICK j : j = [job[t] EXCEPT !.pc = "listCodes", !.enrollment = db[Totp].enrollmentId]
    OBVIOUS
  <2>2. j.op = job[t].op
    BY <1>0, <2>1 DEF Job
  <2> QED BY <1>1, <1>3, <1>4, <2>1, <2>2 DEF FindWinner
<1>5. CASE SpendAttempt(t)
  <2>1. PICK j : j = [job[t] EXCEPT !.pc = "match",
                        !.left = budgetOf(t).maxAttempts - NextCount(budgetOf(t).key)]
    OBVIOUS
  <2>2. j.op = job[t].op
    BY <1>0, <2>1 DEF Job
  <2> QED BY <1>1, <1>2, <1>3, <1>5, <2>1, <2>2 DEF SpendAttempt
<1>6. CASE OpenLoginChallenge(t)
  <2>1. ASSUME NEW c, Continue(t, [job[t] EXCEPT !.pc = "deleteSession", !.challenge = c])
        PROVE  job'[t].op \in {job[t].op, "none"}
    <3>1. PICK j : j = [job[t] EXCEPT !.pc = "deleteSession", !.challenge = c]
      OBVIOUS
    <3>2. j.op = job[t].op
      BY <1>0, <3>1 DEF Job
    <3> QED BY <1>1, <2>1, <3>1, <3>2
  <2> QED BY <1>2, <1>6, <2>1 DEF OpenLoginChallenge
<1>7. CASE ConsumeMatchedCode(t)
  <2>1. PICK p : p = afterConsume(t)
    OBVIOUS
  <2> QED BY <1>2, <1>3, <1>7, <2>1 DEF ConsumeMatchedCode
<1>8. CASE MatchOwnedCode(t)
  <2>1. PICK p : p = IF job[t].op = "verify" THEN "consumeChallenge" ELSE "revoke"
    OBVIOUS
  <2> QED BY <1>2, <1>3, <1>8, <2>1 DEF MatchOwnedCode
<1>9. CASE RevokeOtherSessions(t)
  <2>1. PICK p : p = IF job[t].op = "activate" THEN "activate" ELSE "consumeCode"
    OBVIOUS
  <2> QED BY <1>2, <1>3, <1>9, <2>1 DEF RevokeOtherSessions
<1> QED BY <1>2, <1>3, <1>4, <1>5, <1>6, <1>7, <1>8, <1>9
    DEF Proceed, Abort, InsertMfaTotpEnrollment, InsertRecoveryCodes, ListUnusedRecoveryCodes,
        Commit, ActivateMfaTotp, ResetDisableAttempts, DeleteMfaTotp,
        DeleteRecoveryCodesByUserId, MfaChallengeRequired, DeleteSession,
        ConsumeLoginChallenge, IssueSession, ExpireLoginChallenge

\* A request arrives as one of the kinds that are served.
LEMMA OpServed ==
    ASSUME Typed, NEW t \in Slot, Arrive(t)
    PROVE  /\ job'[t].op \in Ops
           /\ job'[t].op = "activate" => db[Totp] # None /\ ~isMfaEnabled(db[Totp])
<1>0. JobsTyped
  BY DEF Typed
<1>1. ASSUME NEW j, Begin(t, j)
      PROVE  job'[t].op \in Ops /\ job'[t] = j
  BY <1>0, <1>1, Continued DEF Begin
<1>2. \A s, code, c :
        /\ [NoJob EXCEPT !.op = "disable", !.pc = "spend", !.session = s, !.code = code].op # "activate"
        /\ [NoJob EXCEPT !.op = "verify", !.pc = "spend", !.code = code, !.challenge = c].op # "activate"
        /\ [NoJob EXCEPT !.op = "forceDisable", !.pc = "deleteTotp"].op # "activate"
  BY DEF NoJob
<1>3. CASE Enroll(t) \/ PrimaryAuth(t)
  <2>1. job'[t].op \in {"enroll", "signIn"}
    BY <1>3, EnrollTyped, PrimaryAuthTyped
  <2>2. job'[t].op = "enroll" => Enroll(t)
    BY <1>3, PrimaryAuthTyped
  <2>3. job'[t].op = "signIn" => PrimaryAuth(t)
    BY <1>3, EnrollTyped
  <2>4. ASSUME Enroll(t) PROVE "enroll" \in Ops
    <3>1. CASE "enroll" \in Ops
      BY <3>1
    <3>2. ASSUME NEW j, Begin(t, j), j.op = "enroll"
          PROVE  "enroll" \in Ops
      BY <3>2 DEF Begin
    <3>3. \A e : [NoJob EXCEPT !.op = "enroll", !.pc = "listCodes", !.enrollment = e].op = "enroll"
      BY DEF NoJob
    <3>4. PICK e : e = db[Totp].enrollmentId
      OBVIOUS
    <3> QED BY <2>4, <3>1, <3>2, <3>3, <3>4 DEF Enroll
  <2> QED BY <2>1, <2>2, <2>3, <2>4 DEF PrimaryAuth
<1>4. CASE Activate(t)
  BY <1>1, <1>4 DEF Activate
<1>5. CASE Disable(t) \/ ForceDisable(t) \/ Verify(t)
  BY <1>1, <1>2, <1>5 DEF Disable, ForceDisable, Verify
<1> QED BY <1>3, <1>4, <1>5 DEF Arrive

Served == \A t \in Slot : job[t].op \in Ops \cup {"none"}

LEMMA ServedStep == MfaInv /\ Served /\ [Next]_vars => Served'
<1> SUFFICES ASSUME MfaInv, Served, [Next]_vars PROVE Served'
  OBVIOUS
<1>0. Typed /\ JobsTyped
  BY DEF MfaInv, Typed
<1>1. CASE UNCHANGED job
  BY <1>1 DEF Served
<1>2. ASSUME NEW t \in Slot, Arrive(t) \/ Proceed(t) \/ Abort(t)
      PROVE  Served'
  <2>1. OneJob(t) /\ job'[t].op \in Ops \cup {"none", job[t].op}
    BY <1>0, <1>2, OneJobStep, OpKept, OpServed
  <2> QED BY <1>0, <2>1 DEF JobsTyped, OneJob, Served
<1> QED BY <1>1, <1>2 DEF Next, Tick, vars

\* Most steps write no rows.
LEMMA RowsAtRest ==
    ASSUME NEW t \in Slot, Arrive(t) \/ Proceed(t) \/ Abort(t),
           ~Aside(t), ~ConsumeMatchedCode(t), ~ActivateMfaTotp(t)
    PROVE  UNCHANGED <<db, own, held>> \/ Discard(t)
BY DEF Arrive, Proceed, Abort, Aside, Enroll, Activate, Disable, ForceDisable, PrimaryAuth,
       Verify, Begin, SpendAttempt, MatchOwnedCode, RevokeOtherSessions, ResetDisableAttempts,
       MfaChallengeRequired, OpenLoginChallenge, DeleteSession, ConsumeLoginChallenge,
       IssueSession, ExpireLoginChallenge, End

-----------------------------------------------------------------------------
(* The second factor while nobody activates it.                            *)

\* No transaction is about to turn the second factor on.
NoneActivating ==
    \A t \in Slot : own[t][Totp] # Unwritten => ~isMfaEnabled(own[t][Totp])

StandInv == MfaInv /\ Served /\ NoneActivating /\ SecondFactorStands

LEMMA StaysOff ==
    ASSUME "activate" \notin Ops, MfaInv, Served, NoneActivating, Next
    PROVE  NoneActivating' /\ (isMfaEnabled(db'[Totp]) => isMfaEnabled(db[Totp]))
<1>0. /\ RowsTyped /\ JobsTyped /\ Totp \in Row
      /\ \A r \in RecoveryCode : r \in Row /\ r # Totp
  BY MarkersApart DEF MfaInv, Typed, Row
<1>1. CASE Tick
  BY <1>1 DEF Tick, NoneActivating
<1>2. ASSUME NEW t \in Slot, Arrive(t) \/ Proceed(t) \/ Abort(t)
      PROVE  NoneActivating' /\ (isMfaEnabled(db'[Totp]) => isMfaEnabled(db[Totp]))
  <2>1. ASSUME UNCHANGED <<db, own, held>> \/ Discard(t)
        PROVE  NoneActivating' /\ (isMfaEnabled(db'[Totp]) => isMfaEnabled(db[Totp]))
    BY <2>1, <1>0 DEF Discard, Clean, NoneActivating, RowsTyped
  <2>a. ASSUME NEW w, w[Totp] = own[t][Totp] \/ ~isMfaEnabled(w[Totp]),
               own' = [own EXCEPT ![t] = w], db' = db
        PROVE  NoneActivating' /\ (isMfaEnabled(db'[Totp]) => isMfaEnabled(db[Totp]))
    BY <2>a, <1>0 DEF NoneActivating, RowsTyped
  <2>2. CASE InsertMfaTotpEnrollment(t)
    <3> DEFINE row == [enrollmentId |-> job[t].enrollment, verified |-> FALSE,
                       lastUsedTimestep |-> 0]
    <3>1. ~isMfaEnabled(row)
      BY DEF isMfaEnabled
    <3> HIDE DEF row
    <3>2. PICK v : v = row
      OBVIOUS
    <3>3. PICK w, x : w = [own[t] EXCEPT ![Totp] = v] /\ x = own[t]
      OBVIOUS
    <3>4. w[Totp] = v
      BY <3>3, <1>0 DEF RowsTyped
    <3>5. \/ own' = [own EXCEPT ![t] = w] /\ db' = db
          \/ own' = [own EXCEPT ![t] = x] /\ db' = db
      BY <2>2, <3>2, <3>3 DEF InsertMfaTotpEnrollment, Execute, row
    <3> QED BY <2>a, <3>1, <3>2, <3>3, <3>4, <3>5
  <2>3. CASE InsertRecoveryCodes(t)
    <3>1. PICK codes : codes = CodesOf(job[t].enrollment)
      OBVIOUS
    <3>2. PICK w : w = [r \in Row |-> IF r \in codes THEN "unused" ELSE own[t][r]]
      OBVIOUS
    <3>3. job[t].enrollment \in Enrollment
      BY <1>0, <2>3, OpAt DEF InsertRecoveryCodes
    <3>4. Totp \notin codes
      BY <3>1, <3>3, MarkersApart DEF CodesOf, RecoveryCode
    <3>5. own' = [own EXCEPT ![t] = w] /\ db' = db
      BY <2>3, <3>1, <3>2 DEF InsertRecoveryCodes, Execute
    <3> QED BY <1>0, <2>a, <3>2, <3>4, <3>5
  <2>4. CASE FindWinner(t) \/ ListUnusedRecoveryCodes(t)
    BY <2>1, <2>4 DEF FindWinner, ListUnusedRecoveryCodes, End
  <2>5. CASE Commit(t)
    <3>1. db'[Totp] = IF own[t][Totp] = Unwritten THEN db[Totp] ELSE own[t][Totp]
      BY <2>5, <1>0 DEF Commit, Publish, View, RowsTyped
    <3>2. own' = [own EXCEPT ![t] = Clean]
      BY <2>5 DEF Commit, Publish
    <3>3. NoneActivating'
      BY <3>2, <1>0 DEF Clean, NoneActivating, RowsTyped
    <3> QED BY <3>1, <3>3 DEF NoneActivating
  <2>6. CASE DeleteMfaTotp(t)
    <3>1. PICK w, x : w = [own[t] EXCEPT ![Totp] = None] /\ x = own[t]
      OBVIOUS
    <3>2. w[Totp] = None /\ ~isMfaEnabled(None)
      BY <3>1, <1>0 DEF RowsTyped, isMfaEnabled
    <3>3. \/ own' = [own EXCEPT ![t] = w] /\ db' = db
          \/ own' = [own EXCEPT ![t] = x] /\ db' = db
      BY <2>6, <3>1 DEF DeleteMfaTotp, Execute
    <3> QED BY <2>a, <3>1, <3>2, <3>3
  <2>7. CASE DeleteRecoveryCodesByUserId(t)
    <3>1. PICK codes : codes = {r \in RecoveryCode : db[r] # None}
      OBVIOUS
    <3>2. PICK w : w = [r \in Row |-> IF r \in codes THEN None ELSE own[t][r]]
      OBVIOUS
    <3>3. w[Totp] = own[t][Totp]
      BY <1>0, <3>1, <3>2
    <3>4. own' = [own EXCEPT ![t] = w] /\ db' = db
      BY <2>7, <3>1, <3>2 DEF DeleteRecoveryCodesByUserId, Execute
    <3> QED BY <2>a, <3>3, <3>4
  <2>8. CASE ConsumeMatchedCode(t)
    <3>1. PICK code : code = job[t].code
      OBVIOUS
    <3>2. CASE End(t)
      BY <2>1, <3>2 DEF End
    <3>3. ASSUME Consumable(code), ~End(t)
          PROVE  own' = own /\ (isMfaEnabled(db'[Totp]) => isMfaEnabled(db[Totp]))
      <4>1. CASE code[1] = "totp"
        BY <3>1, <3>3, <4>1, <2>8 DEF ConsumeMatchedCode, Autocommit, Consumable
      <4>2. CASE code[1] # "totp"
        <5>1. code \in Code
          BY <1>0, <2>8, <3>1, OpAt DEF ConsumeMatchedCode
        <5>2. <<code[2], code[3]>> \in RecoveryCode
          BY <4>2, <5>1, CodeParts
        <5>3. PICK r : r = <<code[2], code[3]>>
          OBVIOUS
        <5>4. Autocommit(t, r, "used")
          BY <3>1, <3>3, <4>2, <5>3, <2>8 DEF ConsumeMatchedCode
        <5>5. own' = own /\ db' = [db EXCEPT ![r] = "used"]
          BY <5>4 DEF Autocommit
        <5>6. db'[Totp] = db[Totp]
          BY <1>0, <5>2, <5>3, <5>5 DEF RowsTyped
        <5> QED BY <5>5, <5>6
      <4> QED BY <4>1, <4>2
    <3>4. Consumable(code) \/ End(t)
      BY <2>8, <3>1 DEF ConsumeMatchedCode
    <3> QED BY <3>2, <3>3, <3>4 DEF NoneActivating
  <2>9. CASE ActivateMfaTotp(t)
    <3>1. job[t].op = "activate"
      BY <1>0, <2>9, OpAt DEF ActivateMfaTotp
    <3> QED BY <3>1 DEF Served
  <2> QED BY <1>2, <2>1, <2>2, <2>3, <2>4, <2>5, <2>6, <2>7, <2>8, <2>9, RowsAtRest DEF Aside
<1> QED BY <1>1, <1>2 DEF Next

\* A step that hands a cookie out does so for a challenge, or without the
\* second factor.
LEMMA StandStep ==
    ASSUME "activate" \notin Ops, StandInv, Next
    PROVE  SecondFactorStands'
<1>0. /\ Typed /\ JobsTyped /\ HistoryTyped /\ Served
      /\ isMfaEnabled(db'[Totp]) => isMfaEnabled(db[Totp])
  BY StaysOff DEF StandInv, MfaInv, Typed
<1>1. ASSUME live' \subseteq live, delivered' = delivered, origin' = origin, activator' = activator
      PROVE  SecondFactorStands'
  BY <1>1, <1>0 DEF StandInv, SecondFactorStands
<1>2. CASE Tick
  BY <1>1, <1>2 DEF Tick, sessions
<1>3. ASSUME NEW t \in Slot, Arrive(t) \/ Proceed(t) \/ Abort(t)
      PROVE  SecondFactorStands'
  <2>1. CASE Enroll(t)
    BY <1>1, <2>1 DEF Enroll, Begin, sessions
  <2>2. CASE Activate(t) \/ Disable(t) \/ ForceDisable(t) \/ Verify(t)
    BY <1>0, <1>1, <2>2, ArrivalTyped DEF sessions
  <2>3. CASE PrimaryAuth(t)
    <3>1. PICK s \in Session :
             /\ Fresh(s) /\ live' = live \cup {s} /\ delivered' = delivered
             /\ origin' = [origin EXCEPT ![s] = "primary"] /\ activator' = activator
      BY <2>3 DEF PrimaryAuth
    <3>2. s \notin delivered
      BY <1>0, <3>1 DEF HistoryTyped, Fresh
    <3>3. \A r \in Session : r # s => origin'[r] = origin[r]
      BY <1>0, <3>1 DEF HistoryTyped
    <3> QED BY <1>0, <3>1, <3>2, <3>3 DEF StandInv, SecondFactorStands, HistoryTyped
  <2>4. CASE Aside(t)
    BY <1>0, <1>1, <2>4, AsideTyped DEF sessions
  <2>5. CASE ConsumeMatchedCode(t) \/ SpendAttempt(t) \/ MatchOwnedCode(t) \/ ResetDisableAttempts(t)
             \/ OpenLoginChallenge(t) \/ ConsumeLoginChallenge(t) \/ ExpireLoginChallenge(t)
    BY <1>1, <2>5 DEF ConsumeMatchedCode, SpendAttempt, MatchOwnedCode, ResetDisableAttempts,
                      OpenLoginChallenge, ConsumeLoginChallenge, ExpireLoginChallenge, sessions
  <2>6. CASE RevokeOtherSessions(t)
    BY <1>0, <1>1, <2>6, RevokeTyped
  <2>7. CASE ActivateMfaTotp(t)
    <3>1. job[t].op = "activate"
      BY <1>0, <2>7, OpAt DEF ActivateMfaTotp
    <3> QED BY <1>0, <3>1 DEF Served
  <2>8. CASE MfaChallengeRequired(t) \/ DeleteSession(t) \/ Abort(t)
    <3>1. /\ UNCHANGED <<origin, activator>> /\ live' \subseteq live
          /\ delivered' # delivered => ~ChallengeEnabled \/ ~isMfaEnabled(db[Totp])
      BY <1>0, <2>8, SignInTyped
    <3>2. CASE delivered' = delivered
      BY <1>1, <3>1, <3>2
    <3>3. CASE delivered' # delivered
      BY <1>0, <3>1, <3>3 DEF SecondFactorStands
    <3> QED BY <3>2, <3>3
  <2>9. CASE IssueSession(t)
    <3>1. PICK s \in Session, c \in Challenge :
             /\ live' = live \cup {s} /\ delivered' = delivered \cup {s}
             /\ origin' = [origin EXCEPT ![s] = c]
      BY <1>0, <2>9, IssueTyped
    <3>2. activator' = activator
      BY <1>0, <2>9, IssueTyped
    <3>3. \A r \in Session : origin'[r] = IF r = s THEN c ELSE origin[r]
      BY <1>0, <3>1 DEF HistoryTyped
    <3> QED BY <1>0, <3>1, <3>2, <3>3 DEF StandInv, SecondFactorStands, HistoryTyped
  <2> QED BY <1>3, <2>1, <2>2, <2>3, <2>4, <2>5, <2>6, <2>7, <2>8, <2>9 DEF Arrive, Proceed, Aside
<1> QED BY <1>2, <1>3 DEF Next

\* As long as no activation is served, nobody holds a session on the primary
\* factor alone while the second factor is active: sign-ins, challenges,
\* removals and new enrolments may overlap in any way and fail at any point
\* (enforceChallenge, completeLoginChallenge, disableMfa).
THEOREM SecondFactorHolds ==
    ASSUME "activate" \notin Ops
    PROVE  Spec => []SecondFactorStands
<1>1. Init => StandInv
  <2> SUFFICES ASSUME Init PROVE StandInv
    OBVIOUS
  <2>1. /\ own = [t \in Slot |-> Clean] /\ job = [t \in Slot |-> NoJob]
        /\ DOMAIN db = Row
    BY DEF Init
  <2>2. Served /\ NoneActivating
    BY <2>1 DEF Served, NoJob, NoneActivating, Clean, Row
  <2>3. SecondFactorStands
    BY DEF Init, SecondFactorStands, isMfaEnabled, Row
  <2> QED BY <2>2, <2>3, InitInv DEF StandInv
<1>2. StandInv /\ [Next]_vars => StandInv'
  <2> SUFFICES ASSUME StandInv, [Next]_vars PROVE StandInv'
    OBVIOUS
  <2>1. MfaInv' /\ Served'
    BY StepInv, ServedStep DEF StandInv
  <2>2. CASE Next
    BY <2>1, <2>2, StaysOff, StandStep DEF StandInv
  <2>3. CASE UNCHANGED vars
    <3>1. UNCHANGED <<db, own, live, delivered, origin, activator>>
      BY <2>3 DEF vars, sessions
    <3>2. NoneActivating' /\ SecondFactorStands'
      BY <3>1 DEF StandInv, NoneActivating, SecondFactorStands
    <3> QED BY <2>1, <3>2 DEF StandInv
  <2> QED BY <2>2, <2>3
<1>3. StandInv => SecondFactorStands
  BY DEF StandInv
<1> QED BY <1>1, <1>2, <1>3, PTL DEF Spec

-----------------------------------------------------------------------------
(* Codes while nobody sets the second factor up again.                     *)

\* Transactions only delete, and an enrolment that is there is active.
OnlyRemovals ==
    /\ db[Totp] = None \/ isMfaEnabled(db[Totp])
    /\ \A t \in Slot : job[t].op # "activate"
    /\ \A t \in Slot : \A r \in Row : own[t][r] \in {Unwritten, None}

\* A code that was spent cannot be consumed.
Used(code) ==
    IF code[1] = "totp"
    THEN db[Totp] = None \/ code[3] <= db[Totp].lastUsedTimestep
    ELSE db[<<code[2], code[3]>>] # "unused"

SpentInv == MfaInv /\ Served /\ OnlyRemovals /\ \A p \in spent : Used(p[1])

\* Requests that are not served are not there.
LEMMA NotServed ==
    ASSUME Served, JobsTyped, NEW t \in Slot, NEW o \in Op, o \notin Ops
    PROVE  job[t].op # o
BY DEF Served, Op

LEMMA NoActivation ==
    ASSUME SpentInv, NEW t \in Slot, Arrive(t) \/ Proceed(t) \/ Abort(t)
    PROVE  \A u \in Slot : job'[u].op # "activate"
<1>0. Typed /\ JobsTyped /\ OnlyRemovals
  BY DEF SpentInv, MfaInv, Typed
<1>1. OneJob(t) /\ job'[t].op # "activate"
  BY <1>0, OneJobStep, OpKept, OpServed DEF OnlyRemovals
<1> QED BY <1>0, <1>1 DEF OnlyRemovals, OneJob, JobsTyped

\* Consuming a code uses it up, and no other step gives one back.
LEMMA CodesStayUsed ==
    ASSUME "enroll" \notin Ops, SpentInv, NEW t \in Slot, Arrive(t) \/ Proceed(t) \/ Abort(t)
    PROVE  /\ db'[Totp] = None \/ isMfaEnabled(db'[Totp])
           /\ \A u \in Slot : \A r \in Row : own'[u][r] \in {Unwritten, None}
           /\ \A p \in spent' : Used(p[1])'
<1> DEFINE Rows == /\ db'[Totp] = None \/ isMfaEnabled(db'[Totp])
                   /\ \A u \in Slot : \A r \in Row : own'[u][r] \in {Unwritten, None}
           Goal == Rows /\ \A p \in spent' : Used(p[1])'
<1>0. /\ Typed /\ RowsTyped /\ JobsTyped /\ HistoryTyped /\ OnlyRemovals /\ Served
      /\ Totp \in Row /\ \A r \in RecoveryCode : r \in Row /\ r # Totp
      /\ None # Unwritten /\ None # "unused"
      /\ \A p \in spent : Used(p[1]) /\ p[1] \in Code
  BY MarkersApart DEF SpentInv, MfaInv, Typed, Row, CodeValue, HistoryTyped
<1>1. job[t].op \notin {"enroll", "activate"}
  BY <1>0, NotServed DEF OnlyRemovals, Op
<1>2. ASSUME db' = db, spent' = spent,
             \A u \in Slot : \A r \in Row : own'[u][r] \in {Unwritten, None}
      PROVE  Goal
  BY <1>0, <1>2 DEF OnlyRemovals, Used
<1>3. ASSUME UNCHANGED <<db, own, held>> \/ Discard(t), spent' = spent
      PROVE  Goal
  BY <1>0, <1>2, <1>3 DEF Discard, Clean, OnlyRemovals, RowsTyped
<1>a. ASSUME NEW w, \A r \in Row : w[r] \in {Unwritten, None},
             own' = [own EXCEPT ![t] = w], db' = db, spent' = spent
      PROVE  Goal
  BY <1>0, <1>2, <1>a DEF OnlyRemovals, RowsTyped
<1>4. CASE Commit(t)
  <2>1. /\ \A r \in Row : db'[r] = IF own[t][r] = Unwritten THEN db[r] ELSE own[t][r]
        /\ own' = [own EXCEPT ![t] = Clean] /\ spent' = spent
    BY <1>4, <1>0 DEF Commit, Publish, View, RowsTyped
  <2>2. \A r \in Row : db'[r] \in {db[r], None}
    BY <2>1, <1>0 DEF OnlyRemovals
  <2>3. \A u \in Slot : \A r \in Row : own'[u][r] \in {Unwritten, None}
    BY <2>1, <1>0 DEF Clean, OnlyRemovals, RowsTyped
  <2>4. ASSUME NEW p \in spent PROVE Used(p[1])'
    <3>1. CASE p[1][1] = "totp"
      BY <1>0, <2>2, <3>1 DEF Used
    <3>2. CASE p[1][1] # "totp"
      <4>1. <<p[1][2], p[1][3]>> \in Row
        BY <1>0, <3>2, CodeParts
      <4> QED BY <1>0, <2>2, <3>2, <4>1 DEF Used
    <3> QED BY <3>1, <3>2
  <2> QED BY <1>0, <2>1, <2>2, <2>3, <2>4 DEF OnlyRemovals
<1>5. CASE DeleteMfaTotp(t)
  <2>1. PICK w, x : w = [own[t] EXCEPT ![Totp] = None] /\ x = own[t]
    OBVIOUS
  <2>2. /\ \A r \in Row : w[r] \in {Unwritten, None} /\ x[r] \in {Unwritten, None}
        /\ spent' = spent
    BY <1>0, <1>5, <2>1 DEF RowsTyped, OnlyRemovals, DeleteMfaTotp, history
  <2>3. \/ own' = [own EXCEPT ![t] = w] /\ db' = db
        \/ own' = [own EXCEPT ![t] = x] /\ db' = db
    BY <1>5, <2>1 DEF DeleteMfaTotp, Execute
  <2> QED BY <1>a, <2>2, <2>3
<1>6. CASE DeleteRecoveryCodesByUserId(t)
  <2>1. PICK codes : codes = {r \in RecoveryCode : db[r] # None}
    OBVIOUS
  <2>2. PICK w : w = [r \in Row |-> IF r \in codes THEN None ELSE own[t][r]]
    OBVIOUS
  <2>3. (\A r \in Row : w[r] \in {Unwritten, None}) /\ spent' = spent
    BY <1>0, <1>6, <2>2 DEF OnlyRemovals, DeleteRecoveryCodesByUserId, history
  <2>4. own' = [own EXCEPT ![t] = w] /\ db' = db
    BY <1>6, <2>1, <2>2 DEF DeleteRecoveryCodesByUserId, Execute
  <2> QED BY <1>a, <2>3, <2>4
<1>7. CASE ConsumeMatchedCode(t)
  <2>1. CASE End(t) /\ spent' = spent
    BY <1>3, <2>1 DEF End
  <2>2. CASE ~(End(t) /\ spent' = spent)
    <3>1. PICK code, purpose : code = job[t].code /\ purpose = Purpose(t)
      OBVIOUS
    <3>2. code \in Code /\ Consumable(code) /\ spent' = spent \cup {<<code, purpose>>}
      BY <1>0, <1>7, <2>2, <3>1, OpAt DEF ConsumeMatchedCode
    <3>3. CASE code[1] = "totp"
      <4>1. PICK row : row = [db[Totp] EXCEPT !.lastUsedTimestep = code[3]]
        OBVIOUS
      <4>2. /\ db[Totp] \in RowValue(Totp) /\ isMfaEnabled(db[Totp])
            /\ db[Totp].lastUsedTimestep < code[3] /\ code[3] \in Step
        BY <1>0, <3>2, <3>3, CodeParts DEF RowsTyped, Consumable
      <4>3. /\ isMfaEnabled(row) /\ row # None
            /\ row.lastUsedTimestep = code[3] /\ db[Totp].lastUsedTimestep \in Step
        BY <4>1, <4>2, MarkersApart DEF RowValue, isMfaEnabled, TotpRow
      <4>4. Autocommit(t, Totp, row)
        BY <1>7, <2>2, <3>1, <3>3, <4>1 DEF ConsumeMatchedCode
      <4>5. own' = own /\ db'[Totp] = row /\ \A r \in RecoveryCode : db'[r] = db[r]
        BY <1>0, <4>4 DEF Autocommit, RowsTyped
      <4>6. ASSUME NEW p \in spent PROVE Used(p[1])'
        <5>1. CASE p[1][1] = "totp"
          <6>1. p[1][3] \in Step /\ p[1][3] <= db[Totp].lastUsedTimestep
            BY <1>0, <4>2, <5>1, CodeParts DEF Used, isMfaEnabled
          <6>2. p[1][3] <= row.lastUsedTimestep
            BY <6>1, <4>2, <4>3, BudgetsPositive DEF Step
          <6> QED BY <5>1, <4>5, <6>2 DEF Used
        <5>2. CASE p[1][1] # "totp"
          <6>1. <<p[1][2], p[1][3]>> \in RecoveryCode
            BY <1>0, <5>2, CodeParts
          <6> QED BY <1>0, <5>2, <6>1, <4>5 DEF Used
        <5> QED BY <5>1, <5>2
      <4>7. Used(code)'
        BY <3>3, <4>2, <4>3, <4>5, BudgetsPositive DEF Used, Step
      <4> QED BY <1>0, <3>2, <4>3, <4>5, <4>6, <4>7 DEF OnlyRemovals
    <3>4. CASE code[1] # "totp"
      <4>1. PICK row : row = <<code[2], code[3]>>
        OBVIOUS
      <4>2. row \in RecoveryCode
        BY <3>2, <3>4, <4>1, CodeParts
      <4>3. Autocommit(t, row, "used")
        BY <1>7, <2>2, <3>1, <3>4, <4>1 DEF ConsumeMatchedCode
      <4>4. /\ own' = own /\ db'[Totp] = db[Totp] /\ db'[row] = "used"
            /\ \A r \in RecoveryCode : r # row => db'[r] = db[r]
        BY <1>0, <4>2, <4>3 DEF Autocommit, RowsTyped
      <4>5. ASSUME NEW p \in spent PROVE Used(p[1])'
        <5>1. CASE p[1][1] = "totp"
          BY <1>0, <5>1, <4>4 DEF Used
        <5>2. CASE p[1][1] # "totp"
          <6>1. <<p[1][2], p[1][3]>> \in RecoveryCode
            BY <1>0, <5>2, CodeParts
          <6> QED BY <1>0, <5>2, <6>1, <4>4 DEF Used
        <5> QED BY <5>1, <5>2
      <4>6. Used(code)'
        BY <3>4, <4>1, <4>4 DEF Used
      <4> QED BY <1>0, <3>2, <4>4, <4>5, <4>6 DEF OnlyRemovals
    <3> QED BY <3>3, <3>4
  <2> QED BY <2>1, <2>2
<1>8. CASE InsertMfaTotpEnrollment(t) \/ InsertRecoveryCodes(t) \/ FindWinner(t)
           \/ ListUnusedRecoveryCodes(t) \/ ActivateMfaTotp(t)
  BY <1>0, <1>1, <1>8, OpAt DEF InsertMfaTotpEnrollment, InsertRecoveryCodes, FindWinner,
                               ListUnusedRecoveryCodes, ActivateMfaTotp
<1>9. ASSUME ~Aside(t), ~ConsumeMatchedCode(t), ~ActivateMfaTotp(t)
      PROVE  Goal
  <2>1. spent' = spent
    BY <1>9 DEF Arrive, Proceed, Abort, Aside, Enroll, Activate, Disable, ForceDisable, PrimaryAuth,
         Verify, Begin, SpendAttempt, MatchOwnedCode, RevokeOtherSessions, ResetDisableAttempts,
         MfaChallengeRequired, OpenLoginChallenge, DeleteSession, ConsumeLoginChallenge,
         IssueSession, ExpireLoginChallenge, history
  <2> QED BY <1>3, <1>9, <2>1, RowsAtRest
<1> QED BY <1>4, <1>5, <1>6, <1>7, <1>8, <1>9 DEF Aside

LEMMA SpentStep ==
    ASSUME "enroll" \notin Ops
    PROVE  SpentInv /\ [Next]_vars => SpentInv'
<1> SUFFICES ASSUME SpentInv, [Next]_vars PROVE SpentInv'
  OBVIOUS
<1>1. MfaInv' /\ Served'
  BY StepInv, ServedStep DEF SpentInv
<1>2. ASSUME NEW t \in Slot, Arrive(t) \/ Proceed(t) \/ Abort(t)
      PROVE  SpentInv'
  BY <1>1, <1>2, CodesStayUsed, NoActivation DEF SpentInv, OnlyRemovals
<1>3. CASE UNCHANGED <<db, own, job, spent>>
  BY <1>1, <1>3 DEF SpentInv, OnlyRemovals, Used
<1> QED BY <1>2, <1>3 DEF Next, Tick, vars, sessions, history

\* A request spends its code in no step but its own.
LEMMA SpendingStep ==
    ASSUME MfaInv, [Next]_vars, NEW t \in Slot, At(t, "consumeCode"),
           job'[t].pc \in {"issueSession", "resetBudget"}
    PROVE  ConsumeMatchedCode(t)
<1>0. Typed /\ JobsTyped
  BY DEF MfaInv, Typed
<1>1. job'[t] # job[t]
  BY DEF At
<1>2. PICK u \in Slot : Arrive(u) \/ Proceed(u) \/ Abort(u)
  BY <1>1 DEF Next, Tick, vars
<1>3. u = t
  BY <1>0, <1>1, <1>2, OneJobStep DEF OneJob, JobsTyped
<1>4. CASE Arrive(t)
  <2>1. job[t] = NoJob
    BY <1>4 DEF Arrive, Enroll, Activate, Disable, ForceDisable, PrimaryAuth, Verify, Begin
  <2> QED BY <2>1 DEF NoJob, At
<1>5. CASE Abort(t)
  BY <1>0, <1>5, SignInTyped
<1> QED BY <1>2, <1>3, <1>4, <1>5
    DEF Proceed, At, InsertMfaTotpEnrollment, InsertRecoveryCodes, FindWinner,
        ListUnusedRecoveryCodes, Commit, SpendAttempt, MatchOwnedCode, RevokeOtherSessions,
        ActivateMfaTotp, ResetDisableAttempts, DeleteMfaTotp, DeleteRecoveryCodesByUserId,
        MfaChallengeRequired, OpenLoginChallenge, DeleteSession, ConsumeLoginChallenge,
        IssueSession, ExpireLoginChallenge

\* As long as the second factor is not set up again, no code is accepted twice,
\* whether it is submitted to challenges or to the removal, at once or later
\* (consumeTotpTimestep, consumeRecoveryCode).
THEOREM SpentCodesRefused ==
    ASSUME "enroll" \notin Ops
    PROVE  Spec => CodeSpentOnce
<1>1. Init => SpentInv
  <2> SUFFICES ASSUME Init PROVE SpentInv
    OBVIOUS
  <2>1. /\ own = [t \in Slot |-> Clean] /\ job = [t \in Slot |-> NoJob]
        /\ DOMAIN db = Row /\ spent = {} /\ Totp \in Row
    BY DEF Init, Row
  <2>2. db[Totp] = None \/ isMfaEnabled(db[Totp])
    BY <2>1, MarkersApart DEF Init, isMfaEnabled
  <2>3. Served /\ OnlyRemovals
    BY <2>1, <2>2 DEF Served, NoJob, OnlyRemovals, Clean
  <2> QED BY <2>1, <2>3, InitInv DEF SpentInv
<1>2. ASSUME SpentInv, [Next]_vars, NEW t \in Slot, Spends(t), NEW p \in spent
      PROVE  p[1] # job[t].code
  <2>1. At(t, "consumeCode") /\ job'[t].pc \in {"issueSession", "resetBudget"}
    BY <1>2, OpAt DEF Spends, SpentInv, MfaInv, Typed, OnlyRemovals
  <2>2. ConsumeMatchedCode(t)
    BY <1>2, <2>1, SpendingStep DEF SpentInv
  <2>3. Consumable(job[t].code)
    BY <1>2, <2>1, <2>2, ConsumeMatchedCodeTyped DEF SpentInv, MfaInv
  <2>4. Used(p[1]) /\ p[1] \in Code
    BY <1>2 DEF SpentInv, MfaInv, Typed, HistoryTyped
  <2>5. PICK code : code = p[1]
    OBVIOUS
  <2>6. ~(Used(code) /\ Consumable(code))
    <3>1. CASE code[1] = "totp"
      <4>1. db[Totp] \in RowValue(Totp) /\ code[3] \in Step
        BY <1>2, <2>4, <2>5, <3>1, CodeParts DEF SpentInv, MfaInv, Typed, RowsTyped, Row
      <4>2. db[Totp] # None => db[Totp].lastUsedTimestep \in Step
        BY <4>1 DEF RowValue
      <4> QED BY <3>1, <4>1, <4>2, BudgetsPositive DEF Used, Consumable, isMfaEnabled, Step
    <3>2. CASE code[1] # "totp"
      BY <3>2 DEF Used, Consumable
    <3> QED BY <3>1, <3>2
  <2> QED BY <2>3, <2>4, <2>5, <2>6
<1>3. SpentInv /\ [Next]_vars =>
        [\A t \in Slot : Spends(t) => \A p \in spent : p[1] # job[t].code]_vars
  BY <1>2
<1> QED BY <1>1, <1>3, SpentStep, PTL DEF Spec, CodeSpentOnce

-----------------------------------------------------------------------------
(* Recovery codes while nothing is deleted.                                *)

\* The request that has inserted its enrolment and not committed it yet.
Inserting(j) == j.op = "enroll" /\ j.pc \in {"insertCodes", "commit"}

IsPending(row) == row # None /\ ~isMfaEnabled(row)

\* It is the only writer: it holds the lock of the row that nobody has yet.
OneInserts ==
    \A t \in Slot :
        /\ ~Inserting(job[t]) => \A r \in Row : own[t][r] = Unwritten
        /\ Inserting(job[t]) =>
             /\ db[Totp] = None /\ <<t, Totp, "UPDATE">> \in held
             /\ \A u \in Slot : Inserting(job[u]) => u = t
             /\ own[t][Totp] # Unwritten /\ IsPending(own[t][Totp])
             /\ own[t][Totp].enrollmentId = job[t].enrollment
             /\ \A r \in RecoveryCode :
                  own[t][r] = IF job[t].pc = "commit" /\ r \in CodesOf(job[t].enrollment)
                              THEN "unused" ELSE Unwritten

\* The stored codes are those of the enrolment, unused while it is pending, and
\* whoever is about to read or to consume some was right about the enrolment.
OneEnrolment ==
    /\ db[Totp] = None => shown = {} /\ \A r \in RecoveryCode : db[r] = None
    /\ IsPending(db[Totp]) =>
         \A r \in RecoveryCode :
            db[r] = IF r \in CodesOf(db[Totp].enrollmentId) THEN "unused" ELSE None
    /\ \A t \in Slot :
         /\ job[t].pc = "listCodes" =>
              db[Totp] # None /\ job[t].enrollment = db[Totp].enrollmentId
         /\ job[t].pc \in {"consumeChallenge", "consumeCode"} => isMfaEnabled(db[Totp])

ShownInv == MfaInv /\ Served /\ OneInserts /\ OneEnrolment /\ ShownCodesWork

\* A step that changes no row and after which slot t has nothing uncommitted.
LEMMA ShownFrame ==
    ASSUME Typed, OneInserts, OneEnrolment, NEW t \in Slot, OneJob(t), ~Inserting(job'[t]),
           \A r \in Row : db'[r] = db[r] /\ own'[t][r] = Unwritten,
           \A u \in Slot \ {t} : /\ \A r \in Row : own'[u][r] = own[u][r]
                                 /\ <<u, Totp, "UPDATE">> \in held => <<u, Totp, "UPDATE">> \in held',
           job'[t].pc = "listCodes" =>
               db[Totp] # None /\ job'[t].enrollment = db[Totp].enrollmentId,
           job'[t].pc \in {"consumeChallenge", "consumeCode"} => isMfaEnabled(db[Totp]),
           db[Totp] = None => shown' = shown
    PROVE  OneInserts' /\ OneEnrolment'
<1>0. /\ \A u \in Slot : u # t => job'[u] = job[u]
      /\ Totp \in Row /\ \A r \in RecoveryCode : r \in Row
      /\ db'[Totp] = db[Totp]
  BY DEF Typed, JobsTyped, OneJob, Row
<1>1. OneInserts'
  BY <1>0 DEF OneInserts
<1>2. OneEnrolment'
  BY <1>0 DEF OneEnrolment
<1> QED BY <1>1, <1>2

LEMMA ShownKept ==
    ASSUME ShownCodesWork, shown' = shown, \A r \in Row : db'[r] = db[r]
    PROVE  ShownCodesWork'
<1>1. db'[Totp] = db[Totp] /\ \A r \in RecoveryCode : db'[r] = db[r]
  BY DEF Row
<1> QED BY <1>1 DEF ShownCodesWork

\* Nothing uncommitted is left by a step that writes no rows.
LEMMA RestFrame ==
    ASSUME Typed, OneInserts, NEW t \in Slot,
           (UNCHANGED <<db, own, held>> /\ ~Inserting(job[t])) \/ Discard(t)
    PROVE  /\ \A r \in Row : db'[r] = db[r] /\ own'[t][r] = Unwritten
           /\ \A u \in Slot \ {t} :
                /\ \A r \in Row : own'[u][r] = own[u][r]
                /\ <<u, Totp, "UPDATE">> \in held => <<u, Totp, "UPDATE">> \in held'
<1>1. CASE UNCHANGED <<db, own, held>> /\ ~Inserting(job[t])
  BY <1>1 DEF OneInserts
<1>2. CASE Discard(t)
  <2>1. /\ own' = [own EXCEPT ![t] = [r \in Row |-> Unwritten]] /\ db' = db
        /\ held' = {h \in held : h[1] # t} /\ DOMAIN own = Slot
    BY <1>2 DEF Discard, Clean, LocksOf, Typed, RowsTyped
  <2>2. \A u \in Slot \ {t} : <<u, Totp, "UPDATE">> \in held => <<u, Totp, "UPDATE">> \in held'
    BY <2>1
  <2>3. \A r \in Row : own'[t][r] = Unwritten
    BY <2>1
  <2>4. \A u \in Slot \ {t} : own'[u] = own[u]
    BY <2>1
  <2> QED BY <2>1, <2>2, <2>3, <2>4
<1> QED BY <1>1, <1>2

\* A step that leaves the second factor active, with the enrolment it had.
LEMMA ShownActive ==
    ASSUME Typed, OneInserts, OneEnrolment, NEW t \in Slot, OneJob(t),
           job'[t].pc \in {"idle", "issueSession", "resetBudget"},
           UNCHANGED <<own, held, shown>>, db[Totp] # None, isMfaEnabled(db'[Totp]),
           db'[Totp].enrollmentId = db[Totp].enrollmentId
    PROVE  OneInserts' /\ OneEnrolment' /\ ShownCodesWork'
<1>0. \A u \in Slot : /\ u # t => job'[u] = job[u]
                      /\ ~Inserting(job[u]) /\ ~Inserting(job'[u])
  BY DEF Typed, JobsTyped, OneJob, OneInserts, Inserting
<1>1. db'[Totp] # None /\ ~IsPending(db'[Totp])
  BY DEF isMfaEnabled, IsPending
<1>2. OneInserts'
  BY <1>0 DEF OneInserts
<1>3. OneEnrolment'
  BY <1>0, <1>1 DEF OneEnrolment
<1>4. ShownCodesWork'
  BY <1>1 DEF ShownCodesWork
<1> QED BY <1>2, <1>3, <1>4

LEMMA InsertShown ==
    ASSUME ShownInv, NEW t \in Slot, InsertMfaTotpEnrollment(t)
    PROVE  OneInserts' /\ OneEnrolment' /\ ShownCodesWork'
<1>0. /\ Typed /\ RowsTyped /\ JobsTyped /\ OneInserts /\ OneEnrolment /\ ShownCodesWork
      /\ OneJob(t) /\ shown' = shown /\ job[t].op = "enroll" /\ job[t].pc = "insertEnrollment"
      /\ job[t] \in Job /\ Totp \in Row /\ \A r \in RecoveryCode : r \in Row /\ r # Totp
  BY OneJobStep, OpAt, MarkersApart
     DEF ShownInv, MfaInv, Typed, InsertMfaTotpEnrollment, Proceed, history, At, Row
<1>1. ~Inserting(job[t])
  BY <1>0 DEF Inserting
<1>2. CASE db[Totp] # None
  <2>1. db' = db /\ own' = [own EXCEPT ![t] = own[t]] /\ held' = held /\ Continue(t, GoTo(t, "findWinner"))
    BY <1>2 DEF InsertMfaTotpEnrollment, Execute
  <2>2. job'[t].pc = "findWinner"
    BY <1>0, <2>1 DEF JobsTyped, Continue, GoTo, Job
  <2>3. /\ \A r \in Row : db'[r] = db[r] /\ own'[t][r] = Unwritten
        /\ \A u \in Slot \ {t} :
                /\ \A r \in Row : own'[u][r] = own[u][r]
                /\ <<u, Totp, "UPDATE">> \in held => <<u, Totp, "UPDATE">> \in held'
    BY <1>0, <1>1, <2>1 DEF RowsTyped, OneInserts
  <2>4. ~Inserting(job'[t])
    BY <2>2 DEF Inserting
  <2> QED BY <1>0, <2>2, <2>3, <2>4, ShownFrame, ShownKept
<1>3. CASE db[Totp] = None
  <2> DEFINE row == [enrollmentId |-> job[t].enrollment, verified |-> FALSE,
                     lastUsedTimestep |-> 0]
  <2>1. IsPending(row) /\ row.enrollmentId = job[t].enrollment /\ row # Unwritten
    <3>1. row \in TotpRow
      BY <1>0, OpAt, BudgetsPositive DEF TotpRow, Step
    <3>2. row # None /\ row # Unwritten
      BY <3>1, MarkersApart
    <3> QED BY <3>2 DEF IsPending, isMfaEnabled
  <2> HIDE DEF row
  <2>2. /\ db' = db /\ own' = [own EXCEPT ![t] = [own[t] EXCEPT ![Totp] = row]]
        /\ held' = held \cup {<<t, l[1], l[2]>> : l \in {<<Totp, "UPDATE">>}}
        /\ AllFree(t, {<<Totp, "UPDATE">>}) /\ Continue(t, GoTo(t, "insertCodes"))
    BY <1>3 DEF InsertMfaTotpEnrollment, Execute, row
  <2>3. /\ job'[t].pc = "insertCodes" /\ job'[t].op = "enroll"
        /\ job'[t].enrollment = job[t].enrollment
    BY <1>0, <2>2 DEF JobsTyped, Continue, GoTo, Job
  <2>4. /\ own'[t][Totp] = row /\ \A r \in RecoveryCode : own'[t][r] = Unwritten
        /\ \A u \in Slot : u # t => own'[u] = own[u] /\ job'[u] = job[u]
    BY <1>0, <1>1, <2>2 DEF RowsTyped, OneInserts, OneJob, JobsTyped
  <2>5. held \subseteq held' /\ <<t, Totp, "UPDATE">> \in held'
    BY <2>2
  <2>6. \A u \in Slot : Inserting(job[u]) => FALSE
    <3> SUFFICES ASSUME NEW u \in Slot, Inserting(job[u]) PROVE FALSE
      OBVIOUS
    <3>1. u # t /\ <<u, Totp, "UPDATE">> \in held
      BY <1>0, <1>1 DEF OneInserts
    <3>2. Free(t, Totp, "UPDATE")
      BY <2>2 DEF AllFree
    <3>3. "UPDATE" \in ConflictsWith("UPDATE")
      BY DEF ConflictsWith, RowLock
    <3> QED BY <3>1, <3>2, <3>3 DEF Free
  <2>7. Inserting(job'[t])
    BY <2>3 DEF Inserting
  <2>8. OneInserts'
    BY <1>0, <1>3, <2>1, <2>2, <2>3, <2>4, <2>5, <2>6, <2>7 DEF OneInserts
  <2>9. OneEnrolment'
    BY <1>0, <2>2, <2>3, <2>4 DEF OneEnrolment
  <2> QED BY <1>0, <2>2, <2>8, <2>9, ShownKept
<1> QED BY <1>2, <1>3

LEMMA CodesShown ==
    ASSUME ShownInv, NEW t \in Slot, InsertRecoveryCodes(t)
    PROVE  OneInserts' /\ OneEnrolment' /\ ShownCodesWork'
<1>0. /\ Typed /\ RowsTyped /\ JobsTyped /\ OneInserts /\ OneEnrolment /\ ShownCodesWork
      /\ OneJob(t) /\ shown' = shown /\ job[t].op = "enroll" /\ job[t].pc = "insertCodes"
      /\ job[t] \in Job /\ Totp \in Row /\ \A r \in RecoveryCode : r \in Row /\ r # Totp
      /\ job[t].enrollment \in Enrollment
  BY OneJobStep, OpAt, MarkersApart
     DEF ShownInv, MfaInv, Typed, InsertRecoveryCodes, Proceed, history, At, Row
<1>1. PICK codes : codes = CodesOf(job[t].enrollment)
  OBVIOUS
<1>2. PICK w : w = [r \in Row |-> IF r \in codes THEN "unused" ELSE own[t][r]]
  OBVIOUS
<1>3. codes \subseteq RecoveryCode
  BY <1>0, <1>1 DEF CodesOf, RecoveryCode
<1>4. db' = db /\ own' = [own EXCEPT ![t] = w] /\ held \subseteq held' /\ Continue(t, GoTo(t, "commit"))
  BY <1>1, <1>2 DEF InsertRecoveryCodes, Execute
<1>5. /\ job'[t].pc = "commit" /\ job'[t].op = "enroll"
      /\ job'[t].enrollment = job[t].enrollment
  BY <1>0, <1>4 DEF JobsTyped, Continue, GoTo, Job
<1>6. Inserting(job[t]) /\ Inserting(job'[t])
  BY <1>0, <1>5 DEF Inserting
<1>7. /\ own'[t][Totp] = own[t][Totp]
      /\ \A r \in RecoveryCode : own'[t][r] = IF r \in codes THEN "unused" ELSE Unwritten
      /\ \A u \in Slot : u # t => own'[u] = own[u] /\ job'[u] = job[u]
  BY <1>0, <1>2, <1>3, <1>4, <1>6 DEF RowsTyped, OneInserts, OneJob, JobsTyped
<1>8. OneInserts'
  BY <1>0, <1>1, <1>4, <1>5, <1>6, <1>7 DEF OneInserts
<1>9. OneEnrolment'
  BY <1>0, <1>4, <1>5, <1>7 DEF OneEnrolment
<1> QED BY <1>0, <1>4, <1>8, <1>9, ShownKept

LEMMA CommitShown ==
    ASSUME ShownInv, NEW t \in Slot, Commit(t), job[t].op = "enroll"
    PROVE  OneInserts' /\ OneEnrolment' /\ ShownCodesWork'
<1>0. /\ Typed /\ RowsTyped /\ JobsTyped /\ OneInserts /\ OneEnrolment /\ ShownCodesWork
      /\ OneJob(t) /\ job[t].pc = "commit" /\ None # "unused" /\ "unused" # Unwritten
      /\ Totp \in Row /\ \A r \in RecoveryCode : r \in Row /\ r # Totp
      /\ job[t].enrollment \in Enrollment
  BY OneJobStep, OpAt, MarkersApart
     DEF ShownInv, MfaInv, Typed, Commit, Proceed, At, Row, CodeValue
<1>1. PICK e, codes : e = job[t].enrollment /\ codes = CodesOf(e)
  OBVIOUS
<1>2. Inserting(job[t]) /\ codes \subseteq RecoveryCode
  BY <1>0, <1>1 DEF Inserting, CodesOf, RecoveryCode
<1>3. /\ db[Totp] = None /\ shown = {} /\ IsPending(own[t][Totp])
      /\ own[t][Totp].enrollmentId = e
      /\ \A r \in RecoveryCode : /\ own[t][r] = IF r \in codes THEN "unused" ELSE Unwritten
                                 /\ db[r] = None
  BY <1>0, <1>1, <1>2 DEF OneInserts, OneEnrolment
<1>4. /\ \A r \in Row : db'[r] = IF own[t][r] = Unwritten THEN db[r] ELSE own[t][r]
      /\ own' = [own EXCEPT ![t] = Clean] /\ held' = held \ LocksOf(t)
      /\ shown' = {[id |-> e, codes |-> codes]} /\ Continue(t, NoJob)
  BY <1>0, <1>1, <1>3 DEF Commit, Publish, View, RowsTyped
<1>5. /\ IsPending(db'[Totp]) /\ db'[Totp] # None /\ db'[Totp].enrollmentId = e
      /\ \A r \in RecoveryCode : db'[r] = IF r \in codes THEN "unused" ELSE None
  <2>1. db'[Totp] = own[t][Totp]
    BY <1>0, <1>2, <1>4 DEF OneInserts
  <2>2. \A r \in RecoveryCode : db'[r] = IF r \in codes THEN "unused" ELSE None
    BY <1>0, <1>3, <1>4
  <2> QED BY <1>3, <2>1, <2>2 DEF IsPending
<1>6. job'[t] = NoJob /\ \A u \in Slot : u # t => job'[u] = job[u]
  BY <1>0, <1>4, Continued DEF JobsTyped, OneJob
<1>7. \A u \in Slot : ~Inserting(job'[u]) /\ \A r \in Row : own'[u][r] = Unwritten
  <2>1. \A u \in Slot : u # t => ~Inserting(job[u])
    BY <1>0, <1>2 DEF OneInserts
  <2>2. ~Inserting(NoJob)
    BY DEF Inserting, NoJob
  <2> QED BY <1>0, <1>4, <1>6, <2>1, <2>2 DEF OneInserts, RowsTyped, Clean
<1>8. OneInserts'
  BY <1>7 DEF OneInserts
<1>9. OneEnrolment'
  <2>1. \A u \in Slot : job'[u].pc \notin {"listCodes", "consumeChallenge", "consumeCode"}
    BY <1>0, <1>3, <1>6 DEF OneEnrolment, NoJob, isMfaEnabled
  <2> QED BY <1>1, <1>5, <2>1 DEF OneEnrolment
<1>10. ShownCodesWork'
  <2>1. codes = {r \in RecoveryCode : db'[r] = "unused"}
    BY <1>0, <1>2, <1>5
  <2> QED BY <1>4, <1>5, <2>1 DEF ShownCodesWork
<1> QED BY <1>8, <1>9, <1>10

LEMMA ConsumeShown ==
    ASSUME ShownInv, NEW t \in Slot, ConsumeMatchedCode(t)
    PROVE  OneInserts' /\ OneEnrolment' /\ ShownCodesWork'
<1>0. /\ Typed /\ RowsTyped /\ JobsTyped /\ OneInserts /\ OneEnrolment /\ ShownCodesWork
      /\ OneJob(t) /\ shown' = shown /\ job[t].pc = "consumeCode" /\ job[t].op \in {"verify", "disable"}
      /\ job[t].code \in Code
      /\ Totp \in Row /\ \A r \in RecoveryCode : r \in Row /\ r # Totp
  BY OneJobStep, OpAt, MarkersApart
     DEF ShownInv, MfaInv, Typed, ConsumeMatchedCode, Proceed, At, Row
<1>1. isMfaEnabled(db[Totp]) /\ db[Totp] # None /\ db[Totp] \in RowValue(Totp)
  BY <1>0 DEF OneEnrolment, isMfaEnabled, RowsTyped
<1>2. CASE End(t)
  <2>1. Discard(t) /\ job'[t] = NoJob
    BY <1>0, <1>2, Continued DEF End
  <2>2. ~Inserting(job'[t]) /\ job'[t].pc = "idle"
    BY <2>1 DEF Inserting, NoJob
  <2>3. /\ \A r \in Row : db'[r] = db[r] /\ own'[t][r] = Unwritten
        /\ \A u \in Slot \ {t} :
                /\ \A r \in Row : own'[u][r] = own[u][r]
                /\ <<u, Totp, "UPDATE">> \in held => <<u, Totp, "UPDATE">> \in held'
    BY <1>0, <2>1, RestFrame
  <2> QED BY <1>0, <2>2, <2>3, ShownFrame, ShownKept
<1>3. CASE ~End(t)
  <2>1. PICK code : code = job[t].code
    OBVIOUS
  <2>2. UNCHANGED <<own, held>> /\ job'[t].pc \in {"idle", "issueSession", "resetBudget"}
    BY <1>0, <1>3, ConsumeMatchedCodeTyped DEF ConsumeMatchedCode, Autocommit
  <2>3. isMfaEnabled(db'[Totp]) /\ db'[Totp].enrollmentId = db[Totp].enrollmentId
    <3>1. CASE code[1] = "totp"
      <4>1. PICK row : row = [db[Totp] EXCEPT !.lastUsedTimestep = code[3]]
        OBVIOUS
      <4>2. code[3] \in Step
        BY <1>0, <2>1, <3>1, CodeParts
      <4>3. isMfaEnabled(row) /\ row.enrollmentId = db[Totp].enrollmentId
        BY <1>1, <4>1, <4>2, MarkersApart DEF RowValue, isMfaEnabled, TotpRow
      <4>4. Autocommit(t, Totp, row)
        BY <1>3, <2>1, <3>1, <4>1 DEF ConsumeMatchedCode
      <4> QED BY <1>0, <4>3, <4>4 DEF Autocommit, RowsTyped
    <3>2. CASE code[1] # "totp"
      <4>1. PICK row : row = <<code[2], code[3]>>
        OBVIOUS
      <4>2. row \in RecoveryCode
        BY <1>0, <2>1, <3>2, <4>1, CodeParts
      <4>3. Autocommit(t, row, "used")
        BY <1>3, <2>1, <3>2, <4>1 DEF ConsumeMatchedCode
      <4>4. db'[Totp] = db[Totp]
        BY <1>0, <4>2, <4>3 DEF Autocommit, RowsTyped
      <4> QED BY <1>1, <4>4
    <3> QED BY <3>1, <3>2
  <2> QED BY <1>0, <1>1, <2>2, <2>3, ShownActive
<1> QED BY <1>2, <1>3

LEMMA ActivateShown ==
    ASSUME ShownInv, NEW t \in Slot, ActivateMfaTotp(t)
    PROVE  OneInserts' /\ OneEnrolment' /\ ShownCodesWork'
<1>0. /\ Typed /\ RowsTyped /\ JobsTyped /\ OneInserts /\ OneEnrolment /\ ShownCodesWork
      /\ OneJob(t) /\ shown' = shown /\ job'[t] = NoJob /\ Totp \in Row
      /\ job[t].code \in Code /\ job[t].code[1] = "totp"
  BY OneJobStep, OpAt, ActivateMfaTotpTyped
     DEF ShownInv, MfaInv, Typed, ActivateMfaTotp, Proceed, Row
<1>1. ~Inserting(job'[t]) /\ job'[t].pc = "idle"
  BY <1>0 DEF Inserting, NoJob
<1>2. CASE End(t)
  <2>1. /\ \A r \in Row : db'[r] = db[r] /\ own'[t][r] = Unwritten
        /\ \A u \in Slot \ {t} :
                /\ \A r \in Row : own'[u][r] = own[u][r]
                /\ <<u, Totp, "UPDATE">> \in held => <<u, Totp, "UPDATE">> \in held'
    BY <1>0, <1>2, RestFrame DEF End
  <2> QED BY <1>0, <1>1, <2>1, ShownFrame, ShownKept
<1>3. CASE ~End(t)
  <2>1. PICK row : row = [db[Totp] EXCEPT !.verified = TRUE, !.lastUsedTimestep = job[t].code[3]]
    OBVIOUS
  <2>2. db[Totp] # None /\ Autocommit(t, Totp, row)
    BY <1>3, <2>1 DEF ActivateMfaTotp
  <2>3. job[t].code[3] \in Step /\ db[Totp] \in RowValue(Totp)
    BY <1>0, CodeParts DEF RowsTyped
  <2>4. row \in TotpRow /\ row.verified /\ row.enrollmentId = db[Totp].enrollmentId
    BY <2>1, <2>2, <2>3 DEF RowValue, TotpRow
  <2>5. isMfaEnabled(row)
    BY <2>4, MarkersApart DEF isMfaEnabled
  <2>6. db'[Totp] = row /\ UNCHANGED <<own, held>>
    BY <1>0, <2>2 DEF Autocommit, RowsTyped
  <2> QED BY <1>0, <1>1, <2>2, <2>4, <2>5, <2>6, ShownActive
<1> QED BY <1>2, <1>3

\* The steps that write no rows.
LEMMA RestShown ==
    ASSUME "disable" \notin Ops, ShownInv, NEW t \in Slot, Arrive(t) \/ Proceed(t) \/ Abort(t),
           ~InsertMfaTotpEnrollment(t), ~InsertRecoveryCodes(t), ~Commit(t), ~DeleteMfaTotp(t),
           ~DeleteRecoveryCodesByUserId(t), ~ConsumeMatchedCode(t), ~ActivateMfaTotp(t)
    PROVE  OneInserts' /\ OneEnrolment' /\ ShownCodesWork'
<1>0. /\ Typed /\ RowsTyped /\ JobsTyped /\ OneInserts /\ OneEnrolment /\ ShownCodesWork /\ Served
      /\ OneJob(t) /\ Totp \in Row /\ job[t] \in Job /\ job[t].op # "disable"
      /\ \A r \in RecoveryCode : r \in Row
  BY OneJobStep, NotServed DEF ShownInv, MfaInv, Typed, JobsTyped, Row, Op
<1>1. (UNCHANGED <<db, own, held>> /\ ~Inserting(job[t])) \/ Discard(t)
  <2>1. CASE Abort(t) \/ FindWinner(t) \/ ListUnusedRecoveryCodes(t)
    BY <2>1 DEF Abort, FindWinner, ListUnusedRecoveryCodes, End, Inserting, At
  <2>2. CASE Arrive(t)
    <3>1. job[t] = NoJob
      BY <2>2 DEF Arrive, Enroll, Activate, Disable, ForceDisable, PrimaryAuth, Verify, Begin
    <3>2. ~Inserting(job[t])
      BY <3>1 DEF Inserting, NoJob
    <3>3. UNCHANGED <<db, own, held>>
      BY <2>2 DEF Arrive, Enroll, Activate, Disable, ForceDisable, PrimaryAuth, Verify, Begin
    <3> QED BY <3>2, <3>3
  <2>3. CASE Proceed(t) /\ ~FindWinner(t) /\ ~ListUnusedRecoveryCodes(t)
    <3>1. ~Inserting(job[t])
      BY <2>3 DEF Proceed, Inserting, At, SpendAttempt, MatchOwnedCode, RevokeOtherSessions,
         ResetDisableAttempts, MfaChallengeRequired, OpenLoginChallenge, DeleteSession,
         ConsumeLoginChallenge, IssueSession, ExpireLoginChallenge
    <3>2. UNCHANGED <<db, own, held>> \/ Discard(t)
      BY <2>3, RowsAtRest DEF Aside
    <3> QED BY <3>1, <3>2
  <2> QED BY <2>1, <2>2, <2>3
<1>2. /\ \A r \in Row : db'[r] = db[r] /\ own'[t][r] = Unwritten
      /\ \A u \in Slot \ {t} :
                /\ \A r \in Row : own'[u][r] = own[u][r]
                /\ <<u, Totp, "UPDATE">> \in held => <<u, Totp, "UPDATE">> \in held'
  BY <1>0, <1>1, RestFrame
<1>3. ASSUME ~Inserting(job'[t]), shown' = shown,
             job'[t].pc = "listCodes" =>
               db[Totp] # None /\ job'[t].enrollment = db[Totp].enrollmentId,
             job'[t].pc \in {"consumeChallenge", "consumeCode"} => isMfaEnabled(db[Totp])
      PROVE  OneInserts' /\ OneEnrolment' /\ ShownCodesWork'
  BY <1>0, <1>2, <1>3, ShownFrame, ShownKept
<1>4. ASSUME shown' = shown,
             job'[t].pc \notin {"insertCodes", "commit", "listCodes", "consumeChallenge", "consumeCode"}
      PROVE  OneInserts' /\ OneEnrolment' /\ ShownCodesWork'
  BY <1>3, <1>4 DEF Inserting
<1>5. CASE Enroll(t)
  <2>1. shown' = shown /\ job'[t].pc \in {"insertEnrollment", "listCodes"}
    BY <1>0, <1>5, EnrollTyped DEF Enroll, Begin, history
  <2>2. CASE job'[t].pc = "insertEnrollment"
    BY <1>4, <2>1, <2>2
  <2>3. CASE job'[t].pc = "listCodes"
    <3>1. ASSUME NEW e, Continue(t, [NoJob EXCEPT !.op = "enroll", !.pc = "insertEnrollment",
                                                  !.enrollment = e])
          PROVE  FALSE
      <4>1. [NoJob EXCEPT !.op = "enroll", !.pc = "insertEnrollment", !.enrollment = e].pc
              = "insertEnrollment"
        BY DEF NoJob
      <4> QED BY <1>0, <2>3, <3>1, <4>1, Continued
    <3>2. PICK e : e = db[Totp].enrollmentId
      OBVIOUS
    <3>3. /\ db[Totp] # None
          /\ Continue(t, [NoJob EXCEPT !.op = "enroll", !.pc = "listCodes", !.enrollment = e])
      BY <1>5, <3>1, <3>2 DEF Enroll, Begin
    <3>4. job'[t] = [NoJob EXCEPT !.op = "enroll", !.pc = "listCodes", !.enrollment = e]
      BY <1>0, <3>3, Continued
    <3>5. job'[t].enrollment = e /\ ~Inserting(job'[t])
      BY <2>3, <3>4 DEF NoJob, Inserting
    <3> QED BY <1>3, <2>1, <2>3, <3>2, <3>3, <3>5
  <2> QED BY <2>1, <2>2, <2>3
<1>6. CASE Activate(t) \/ Disable(t) \/ ForceDisable(t) \/ Verify(t)
  BY <1>0, <1>4, <1>6, ArrivalTyped DEF history
<1>7. CASE PrimaryAuth(t)
  <2>1. Typed' /\ job'[t].op = "signIn" /\ shown' = shown
    BY <1>0, <1>7, PrimaryAuthTyped DEF PrimaryAuth, history
  <2>2. Flow(job[t])'
    BY <2>1 DEF Typed, JobsTyped
  <2> QED BY <1>4, <2>1, <2>2 DEF Flow, OpsAt
<1>8. CASE FindWinner(t)
  <2>1. shown' = shown /\ job[t].op = "enroll"
    BY <1>0, <1>8, OpAt DEF FindWinner, history
  <2>2. CASE End(t)
    BY <1>0, <1>4, <2>1, <2>2, Continued DEF End, NoJob
  <2>3. CASE ~End(t)
    <3>1. PICK e : e = db[Totp].enrollmentId
      OBVIOUS
    <3>2. /\ db[Totp] # None
          /\ job' = [job EXCEPT ![t] = [job[t] EXCEPT !.pc = "listCodes", !.enrollment = e]]
      BY <1>8, <2>3, <3>1 DEF FindWinner, Continue
    <3>3. job'[t].pc = "listCodes" /\ job'[t].enrollment = e
      BY <1>0, <3>2 DEF JobsTyped, Job
    <3>4. ~Inserting(job'[t])
      BY <3>3 DEF Inserting
    <3> QED BY <1>3, <2>1, <3>1, <3>2, <3>3, <3>4
  <2> QED BY <2>2, <2>3
<1>9. CASE ListUnusedRecoveryCodes(t)
  <2>1. /\ db[Totp] # None /\ job[t].pc = "listCodes" /\ job'[t] = NoJob
        /\ shown' = shown \cup {[id |-> job[t].enrollment,
                                 codes |-> {r \in RecoveryCode : db[r] = "unused"}]}
    BY <1>0, <1>9, Continued DEF ListUnusedRecoveryCodes, At, End, OneEnrolment
  <2>2. ~Inserting(job'[t]) /\ job'[t].pc = "idle"
    BY <2>1 DEF Inserting, NoJob
  <2>3. OneInserts' /\ OneEnrolment'
    BY <1>0, <1>2, <2>1, <2>2, ShownFrame
  <2>4. /\ db'[Totp] = db[Totp]
        /\ {r \in RecoveryCode : db'[r] = "unused"} = {r \in RecoveryCode : db[r] = "unused"}
    BY <1>0, <1>2
  <2>5. ShownCodesWork'
    BY <1>0, <2>1, <2>4 DEF ShownCodesWork
  <2> QED BY <2>3, <2>5
<1>10. CASE SpendAttempt(t)
  BY <1>0, <1>4, <1>10, SpendAttemptTyped DEF history
<1>11. CASE MatchOwnedCode(t)
  <2>1. shown' = shown /\ job'[t].pc \in {"consumeChallenge", "revoke", "expire", "idle"}
    BY <1>0, <1>11, MatchOwnedCodeTyped
  <2>2. job'[t].pc = "consumeChallenge" => isMfaEnabled(db[Totp])
    <3>1. ASSUME NEW p, Continue(t, GoTo(t, p)), p # "consumeChallenge"
          PROVE  job'[t].pc # "consumeChallenge"
      BY <1>0, <3>1 DEF JobsTyped, Continue, GoTo, Job
    <3>2. End(t) => job'[t].pc # "consumeChallenge"
      BY <1>0, Continued DEF End, NoJob
    <3> QED BY <1>11, <3>1, <3>2 DEF MatchOwnedCode
  <2> QED BY <1>3, <2>1, <2>2 DEF Inserting
<1>12. CASE RevokeOtherSessions(t)
  <2>1. Typed' /\ shown' = shown /\ job'[t].pc \in {"idle", "activate", "consumeCode"}
    BY <1>0, <1>12, RevokeTyped DEF history
  <2>2. job'[t].pc = "consumeCode" => FALSE
    <3>1. job[t].op = "activate"
      BY <1>0, <1>12, OpAt DEF RevokeOtherSessions
    <3>2. job'[t].pc = "consumeCode" => job'[t].op = "activate"
      BY <1>0, <1>12, <3>1, RevokeTyped
    <3>3. Flow(job[t])'
      BY <2>1 DEF Typed, JobsTyped
    <3> QED BY <3>2, <3>3 DEF Flow, OpsAt
  <2> QED BY <1>4, <2>1, <2>2
<1>13. CASE ResetDisableAttempts(t)
  BY <1>0, <1>4, <1>13, ResetTyped DEF history
<1>14. CASE MfaChallengeRequired(t) \/ DeleteSession(t) \/ Abort(t)
  BY <1>0, <1>4, <1>14, SignInTyped DEF history
<1>15. CASE OpenLoginChallenge(t)
  BY <1>0, <1>4, <1>15, OpenTyped DEF history
<1>16. CASE ConsumeLoginChallenge(t) \/ ExpireLoginChallenge(t)
  <2>1. shown' = shown /\ job'[t].pc \in {"idle", "consumeCode"}
    BY <1>0, <1>16, TakeTyped DEF history
  <2>2. job'[t].pc = "consumeCode" => isMfaEnabled(db[Totp])
    <3>1. ExpireLoginChallenge(t) => job'[t].pc # "consumeCode"
      BY <1>0, Continued DEF ExpireLoginChallenge, End, NoJob
    <3> QED BY <1>0, <1>16, <3>1 DEF ConsumeLoginChallenge, At, OneEnrolment
  <2> QED BY <1>3, <2>1, <2>2 DEF Inserting
<1>17. CASE IssueSession(t)
  BY <1>0, <1>4, <1>17, IssueTyped DEF history
<1> QED BY <1>5, <1>6, <1>7, <1>8, <1>9, <1>10, <1>11, <1>12, <1>13, <1>14, <1>15, <1>16, <1>17
        DEF Arrive, Proceed

\* As long as nothing is deleted, the recovery codes shown with a pending
\* enrolment are the ones stored, whichever of several enrolments overlapping
\* each other and the activation came first (enroll, replayPendingEnrollment).
THEOREM ShownCodesStored ==
    ASSUME "disable" \notin Ops, "forceDisable" \notin Ops
    PROVE  Spec => []ShownCodesWork
<1>1. Init => ShownInv
  <2> SUFFICES ASSUME Init PROVE ShownInv
    OBVIOUS
  <2>1. /\ own = [t \in Slot |-> Clean] /\ job = [t \in Slot |-> NoJob]
        /\ DOMAIN db = Row /\ shown = {} /\ Totp \in Row /\ \A r \in RecoveryCode : r \in Row /\ r # Totp
    BY MarkersApart DEF Init, Row
  <2>2. Served /\ OneInserts
    BY <2>1 DEF Served, NoJob, OneInserts, Inserting, Clean
  <2>3. CASE InitiallyEnabled
    <3>1. db[Totp].verified /\ db[Totp] \in TotpRow
      BY <2>1, <2>3, BudgetsPositive DEF Init, TotpRow, Step
    <3>2. isMfaEnabled(db[Totp]) /\ db[Totp] # None
      BY <3>1, MarkersApart DEF isMfaEnabled
    <3> QED BY <2>1, <2>2, <3>2, InitInv DEF ShownInv, OneEnrolment, ShownCodesWork, IsPending, NoJob
  <2>4. CASE ~InitiallyEnabled
    <3>1. \A r \in Row : db[r] = None
      BY <2>4 DEF Init
    <3> QED BY <2>1, <2>2, <3>1, InitInv DEF ShownInv, OneEnrolment, ShownCodesWork, IsPending, NoJob
  <2> QED BY <2>3, <2>4
<1>2. ShownInv /\ [Next]_vars => ShownInv'
  <2> SUFFICES ASSUME ShownInv, [Next]_vars PROVE ShownInv'
    OBVIOUS
  <2>1. MfaInv' /\ Served' /\ Served /\ JobsTyped
    BY StepInv, ServedStep DEF ShownInv, MfaInv, Typed
  <2>2. ASSUME NEW t \in Slot, Arrive(t) \/ Proceed(t) \/ Abort(t)
        PROVE  ShownInv'
    <3>1. job[t].op # "disable" /\ job[t].op # "forceDisable"
      BY <2>1, NotServed DEF Op
    <3>2. ~DeleteMfaTotp(t) /\ ~DeleteRecoveryCodesByUserId(t) /\ (Commit(t) => job[t].op = "enroll")
      BY <2>1, <3>1, OpAt DEF DeleteMfaTotp, DeleteRecoveryCodesByUserId, Commit
    <3> QED BY <2>1, <2>2, <3>2, InsertShown, CodesShown, CommitShown, ConsumeShown, ActivateShown,
               RestShown DEF ShownInv
  <2>3. CASE UNCHANGED <<db, own, held, job, shown>>
    BY <2>1, <2>3 DEF ShownInv, OneInserts, OneEnrolment, ShownCodesWork
  <2> QED BY <2>2, <2>3 DEF Next, Tick, vars, history
<1>3. ShownInv => ShownCodesWork
  BY DEF ShownInv
<1> QED BY <1>1, <1>2, <1>3, PTL DEF Spec

=============================================================================
