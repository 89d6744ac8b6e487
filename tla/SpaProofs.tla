----------------------------- MODULE SpaProofs -----------------------------
(***************************************************************************)
(* Theorems about Spa, for any number of calls under way, any number of    *)
(* clicks, any companies and any errand.                                   *)
(*                                                                         *)
(* An atom runs one call; a call of it that waits and is not the one run   *)
(* was interrupted (JobSound).  What an attached handler of the enrolment  *)
(* dialog does agrees with the step the dialog is in (Dialog).  A handler  *)
(* that waits for a list waits for a fetch that will see its change, or    *)
(* one that saw it, unless the fetch failed (Due).                         *)
(***************************************************************************)
EXTENDS Spa, TLAPS

SwitchForms == {"handleSwitch", "onSwitcherChange"}

Why == {"unauthorized", "refused", "lastOwner", "challengeExpired", "enrollmentChanged"}

Stage == {"idle", "mutating", "resolved", "refreshing", "signingOut"}

Job ==
    [form : Form \cup {"none"}, co : Company \cup {NoCompany}, arg : Nat, stage : Stage,
     request : {"none", "flying", "performed"} \cup Why, version : Nat,
     exit : {"none", "success", "error"} \cup Why, deleted : BOOLEAN, attached : BOOLEAN,
     interrupted : BOOLEAN]

Value == Company \cup {NoCompany} \cup BOOLEAN

Fetch ==
    [phase : {"idle", "asked"}] \cup [phase : {"read"}, version : Nat, value : Value]

Dialogue ==
    [open : BOOLEAN, step : {"starting", "scan", "verify", "failed", "recoveryCodes"},
     enrollment : Nat, resumable : Nat]

Enrolment == [pending : Nat, active : Nat, minted : Nat, ours : SUBSET Nat]

SpaTyped ==
    /\ jobs \in [Slot -> Job]
    /\ atom \in [Atom -> Slot \cup {0}]
    /\ errand \in Errands
    /\ server \in [Query -> Nat]
    /\ reply \in [Query -> Fetch]
    /\ shown \in [Query -> [version : Nat, value : Value, failed : BOOLEAN]]
    /\ dlg \in Dialogue
    /\ mfa \in Enrolment
    /\ current \in Company
    /\ shown[companyState].value \in Company
    /\ reply[companyState].phase = "read" => reply[companyState].value \in Company

AtomOf(job) == control[job.form].atom
AwaitsOf(job) == control[job.form].awaits

\* The call an atom runs waits for its answer.
AtomSound(a) ==
    atom[a] # 0 => /\ jobs[atom[a]].stage = "mutating"
                   /\ jobs[atom[a]].form \in Form
                   /\ AtomOf(jobs[atom[a]]) = a

JobSound(s) ==
    /\ jobs[s].form # "none" => jobs[s].co \in Company
    /\ jobs[s].stage # "idle" => jobs[s].form \in Form
    /\ jobs[s].attached => jobs[s].stage # "idle"
    /\ (/\ jobs[s].stage = "mutating" /\ AtomOf(jobs[s]) # "none"
        /\ atom[AtomOf(jobs[s])] # s) => jobs[s].interrupted
    /\ jobs[s].exit = "success" /\ ~jobs[s].interrupted => jobs[s].request = "performed"
    /\ jobs[s].form \in SwitchForms => ~jobs[s].interrupted
    /\ jobs[s].form = "handleOpenChange" => jobs[s].stage # "mutating"

Jobs ==
    /\ \A a \in Atom : AtomSound(a)
    /\ \A s \in Slot : JobSound(s)

\* The enrolment dialog and the handlers that still belong to it.
Enrolling(s) == jobs[s].attached /\ jobs[s].form = "enrollMfa"

EnrollSound(s) ==
    Enrolling(s) => /\ dlg.open /\ dlg.step = "starting"
                    /\ \A t \in Slot : Enrolling(t) => t = s

Activating(s) == jobs[s].attached /\ jobs[s].form = "activateMfa"

ActivateSound(s) ==
    /\ Activating(s) =>
         /\ dlg.open /\ dlg.step = "verify" /\ "enrollEntry" \in busy
         /\ jobs[s].stage = "mutating" => atom["activate"] = s
         /\ jobs[s].stage # "mutating" /\ jobs[s].exit = "success" => jobs[s].arg \in mfa.ours
         /\ \A t \in Slot : Activating(t) => t = s
    /\ jobs[s].form = "activateMfa" /\ jobs[s].request = "performed" => jobs[s].arg \in mfa.ours

Dialog ==
    /\ dlg.open => page = "security" /\ ~shown[mfaStatus].value
    /\ \A s \in Slot : EnrollSound(s)
    /\ \A s \in Slot : ActivateSound(s)
    /\ CodesAreActive

\* A fetch of q that is under way and was read, or the last one that ended well,
\* saw version v.
Seen(q, v) ==
    /\ reply[q].phase = "read" => reply[q].version >= v
    /\ reply[q].phase = "idle" => shown[q].failed \/ shown[q].version >= v

\* What is known of the query a handler waits for, once its own call succeeded.
Due(s) ==
    /\ jobs[s].stage = "refreshing" => AwaitsOf(jobs[s]) # "none" /\ jobs[s].exit = "success"
    /\ jobs[s].stage # "idle" /\ AwaitsOf(jobs[s]) # "none" =>
         /\ AwaitedQuery(s) \in Query
         /\ jobs[s].version <= server[AwaitedQuery(s)]
         /\ (/\ jobs[s].stage # "mutating"
             /\ jobs[s].exit = "success" /\ ~jobs[s].interrupted)
               => Seen(AwaitedQuery(s), jobs[s].version)

Notices == \A s \in Slot : Due(s)

SpaInv == SpaTyped /\ Jobs /\ Dialog /\ Notices

-----------------------------------------------------------------------------
(***************************************************************************)
(* The table of controls.                                                  *)
(***************************************************************************)
QueryName == {"companyState", "mfaStatus", "members", "invitations"}

\* The rows of control, with the facts about them that the proofs use.
LEMMA ControlRows ==
    ASSUME NEW f \in Form
    PROVE  /\ control[f].atom \in Atom \cup {"none"}
           /\ control[f].atom = "switchCompany" => f \in SwitchForms
           /\ f \in SwitchForms => control[f].atom = "switchCompany"
           /\ control[f].atom = "activate" <=> f = "activateMfa"
           /\ control[f].cell = "enrollEntry" <=> f = "activateMfa"
           /\ control[f].cell = "enrollStart" <=> f = "enrollMfa"
           /\ "mfaStatus" \in control[f].keys <=> f \in {"disableMfa", "handleOpenChange"}
           /\ control[f].awaits # "none" =>
                control[f].awaits \in control[f].keys \cap QueryName
<1>1. f \in {"handleRoleChange", "handleRemove", "handleLeave", "handleSwitch",
               "onSwitcherChange", "handleTransfer", "handleAdd", "handleSave",
               "handleDelete", "handleInvite", "handleRevoke", "deleteAccount",
               "saveProfile", "uploadAvatar", "enrollMfa", "activateMfa", "disableMfa",
               "handleOpenChange", "signOutAndRedirect", "handleMagicLink", "handleGitHub",
               "submitVerification"}
  BY DEF Form, control
<1>2. control[f].atom \in Atom \cup {"none"}
  BY DEF Atom
<1> QED
  BY <1>1, <1>2
  DEF control, SwitchForms, QueryName, Control, handleRoleChange, handleRemove, handleLeave,
      handleSwitch, onSwitcherChange, handleTransfer, handleAdd, handleSave, handleDelete,
      handleInvite, handleRevoke, deleteAccount, saveProfile, uploadAvatar, enrollMfa,
      activateMfa, disableMfa, handleOpenChange, signOutAndRedirect, handleMagicLink, handleGitHub,
      submitVerification

\* The two cells of the enrolment dialog are on the security page only.
LEMMA EnrolCells ==
    ASSUME NEW p
    PROVE  /\ "enrollEntry" \in CellsOf(p) <=> p = "security"
           /\ "enrollStart" \in CellsOf(p) <=> p = "security"
<1>1. /\ "enrollMfa" \in Form /\ "activateMfa" \in Form
      /\ control["enrollMfa"].page = "security" /\ control["activateMfa"].page = "security"
  BY DEF Form, control, enrollMfa, activateMfa, Control
<1>2. \A f \in Form : control[f].cell = "enrollEntry" <=> f = "activateMfa"
  BY ControlRows
<1>3. \A f \in Form : control[f].cell = "enrollStart" <=> f = "enrollMfa"
  BY ControlRows
<1> QED
  BY <1>1, <1>2, <1>3 DEF CellsOf

\* The forms of the dialogs of the second factor and the atoms they call.
LEMMA DialogForms ==
    /\ "enrollMfa" \in Form /\ "activateMfa" \in Form /\ "disableMfa" \in Form
    /\ "handleOpenChange" \in Form /\ control["handleOpenChange"].awaits = "mfaStatus"
    /\ control["enrollMfa"].atom = "enroll" /\ control["enrollMfa"].cell = "enrollStart"
    /\ control["activateMfa"].atom = "activate" /\ control["activateMfa"].cell = "enrollEntry"
    /\ control["disableMfa"].atom = "disable" /\ control["disableMfa"].cell = "disableEntry"
    /\ control["enrollMfa"].awaits = "none" /\ control["activateMfa"].awaits = "none"
    /\ {"enroll", "activate", "disable", "switchCompany"} \subseteq Atom
    /\ "none" \notin Form
<1>1. /\ "enrollMfa" \in Form /\ "activateMfa" \in Form /\ "disableMfa" \in Form
      /\ "handleSwitch" \in Form /\ "handleOpenChange" \in Form /\ "none" \notin Form
  BY DEF Form, control
<1>2. /\ control["enrollMfa"] = enrollMfa /\ control["activateMfa"] = activateMfa
      /\ control["disableMfa"] = disableMfa /\ control["handleSwitch"] = handleSwitch
      /\ control["handleOpenChange"] = handleOpenChange
  BY DEF control
<1> QED
  BY <1>1, <1>2
  DEF enrollMfa, activateMfa, disableMfa, handleSwitch, handleOpenChange, Control, Atom

-----------------------------------------------------------------------------
(***************************************************************************)
(* The calls: one lemma per way jobs and atom change.                      *)
(***************************************************************************)
JobsTyped == jobs \in [Slot -> Job] /\ atom \in [Atom -> Slot \cup {0}]

JobsInv == JobsTyped /\ Jobs

LEMMA FreeJob == Free \in Job
BY DEF Free, Job, Stage

LEMMA SettledJob ==
    ASSUME NEW job \in Job
    PROVE  /\ Settled(job) \in Job
           /\ Settled(job) # job => Settled(job) = Free /\ job.stage = "idle"
BY FreeJob DEF Settled

\* A call takes a free slot, and interrupts the one its atom runs.
LEMMA CallJobs ==
    ASSUME JobsInv, NEW s \in Slot, NEW f \in Form, NEW c \in Company, NEW arg \in Nat,
           f \in SwitchForms => ~switchPending, f # "handleOpenChange",
           Call(s, f, control[f].atom, c, arg)
    PROVE  JobsInv'
<1> DEFINE a == control[f].atom
<1> USE DEF JobsInv, JobsTyped
<1>1. a \in Atom \cup {"none"}
  BY ControlRows
<1>2. PICK new \in Job :
        /\ new = [Free EXCEPT !.form = f, !.co = c, !.arg = arg, !.stage = "mutating",
                              !.request = "flying", !.attached = TRUE]
        /\ new.form = f /\ new.co = c /\ new.stage = "mutating" /\ new.exit = "none"
        /\ ~new.interrupted
  <2> DEFINE job == [Free EXCEPT !.form = f, !.co = c, !.arg = arg, !.stage = "mutating",
                                 !.request = "flying", !.attached = TRUE]
  <2>1. Free \in Job /\ Free.exit = "none" /\ ~Free.interrupted
    BY FreeJob DEF Free
  <2>2. job \in Job
    BY <2>1 DEF Job, Stage
  <2>3. /\ job.form = f /\ job.co = c /\ job.stage = "mutating" /\ job.exit = Free.exit
        /\ job.interrupted = Free.interrupted
    BY <2>1 DEF Job
  <2> QED
    BY <2>1, <2>2, <2>3
<1>3. /\ jobs' = [t \in Slot |-> IF t = s THEN new
                                 ELSE IF a # "none" /\ atom[a] = t
                                 THEN [jobs[t] EXCEPT !.interrupted = TRUE]
                                 ELSE jobs[t]]
      /\ atom' = IF a = "none" THEN atom ELSE [atom EXCEPT ![a] = s]
      /\ jobs[s] = Free
  BY <1>2 DEF Call, NextSlot
<1>4. JobsTyped'
  <2>1. \A t \in Slot : [jobs[t] EXCEPT !.interrupted = TRUE] \in Job
    BY DEF Job
  <2> QED
    BY <1>1, <1>2, <1>3, <2>1
<1>5. \A t \in Slot : t # s => /\ jobs'[t].form = jobs[t].form /\ jobs'[t].co = jobs[t].co
                               /\ jobs'[t].stage = jobs[t].stage
                               /\ jobs'[t].exit = jobs[t].exit
                               /\ jobs'[t].request = jobs[t].request
                               /\ jobs'[t].attached = jobs[t].attached
  BY <1>3 DEF Job
<1>6. \A t \in Slot : t # s => jobs'[t].interrupted = (jobs[t].interrupted \/ (a # "none" /\ atom[a] = t))
  BY <1>3 DEF Job
<1>7. jobs'[s] = new
  BY <1>3
<1>8. \A b \in Atom : atom[b] # s
  BY <1>3, SlotAssumption DEF Jobs, AtomSound, Free
<1>9. ASSUME NEW b \in Atom PROVE AtomSound(b)'
  <2>1. CASE b = a
    <3>1. a # "none"
      BY <2>1 DEF Atom
    <3>2. atom'[b] = s
      BY <1>3, <2>1, <3>1
    <3>3. new.form \in Form /\ AtomOf(new) = a
      BY <1>2 DEF AtomOf
    <3> QED
      BY <1>2, <1>7, <2>1, <3>2, <3>3 DEF AtomSound, AtomOf
  <2>2. CASE b # a
    <3>1. atom'[b] = atom[b] /\ atom[b] # s
      BY <1>1, <1>3, <1>8, <2>2
    <3>2. AtomSound(b)
      BY DEF Jobs
    <3> QED
      BY <3>1, <3>2, <1>5, SlotAssumption DEF AtomSound, AtomOf
  <2> QED
    BY <2>1, <2>2
<1>10. ASSUME NEW t \in Slot PROVE JobSound(t)'
  <2>1. CASE t = s
    BY <1>1, <1>2, <1>3, <1>7, <2>1 DEF JobSound, AtomOf
  <2>2. CASE t # s
    <3>1. JobSound(t)
      BY DEF Jobs
    <3>2. /\ jobs'[t].form # "none" => jobs'[t].co \in Company
          /\ jobs'[t].stage # "idle" => jobs'[t].form \in Form
          /\ jobs'[t].form = "handleOpenChange" => jobs'[t].stage # "mutating"
      BY <3>1, <1>5, <2>2 DEF JobSound
    <3>3. jobs'[t].attached => jobs'[t].stage # "idle"
      BY <3>1, <1>5, <2>2 DEF JobSound
    <3>4. (/\ jobs'[t].stage = "mutating" /\ AtomOf(jobs'[t]) # "none"
           /\ atom'[AtomOf(jobs'[t])] # t) => jobs'[t].interrupted
      <4>1. HAVE /\ jobs'[t].stage = "mutating" /\ AtomOf(jobs'[t]) # "none"
                 /\ atom'[AtomOf(jobs'[t])] # t
      <4>2. /\ jobs[t].stage = "mutating" /\ AtomOf(jobs'[t]) = AtomOf(jobs[t])
            /\ jobs[t].form \in Form
        BY <4>1, <3>1, <1>5, <2>2 DEF JobSound, AtomOf
      <4>3. AtomOf(jobs[t]) \in Atom
        BY <4>1, <4>2, ControlRows DEF AtomOf
      <4>4. CASE AtomOf(jobs[t]) = a
        BY <4>1, <4>2, <4>3, <4>4, <3>1, <1>6, <2>2 DEF JobSound
      <4>5. CASE AtomOf(jobs[t]) # a
        BY <4>1, <4>2, <4>3, <4>5, <3>1, <1>3, <1>6, <2>2 DEF JobSound
      <4> QED
        BY <4>4, <4>5
    <3>5. jobs'[t].exit = "success" /\ ~jobs'[t].interrupted => jobs'[t].request = "performed"
      BY <3>1, <1>5, <1>6, <2>2 DEF JobSound
    <3>6. jobs'[t].form \in SwitchForms => ~jobs'[t].interrupted
      <4>1. SUFFICES ASSUME jobs[t].form \in SwitchForms, a # "none", atom[a] = t PROVE FALSE
        BY <3>1, <1>5, <1>6, <2>2 DEF JobSound
      <4>2. jobs[t].form \in Form /\ AtomOf(jobs[t]) = a
        BY <4>1, <1>1, SlotAssumption DEF Jobs, AtomSound
      <4>3. a = "switchCompany" /\ f \in SwitchForms
        BY <4>1, <4>2, ControlRows DEF AtomOf
      <4> QED
        BY <4>1, <4>3, SlotAssumption DEF switchPending, IsWaiting
    <3> QED
      BY <3>2, <3>3, <3>4, <3>5, <3>6 DEF JobSound
  <2> QED
    BY <2>1, <2>2
<1> QED
  BY <1>4, <1>9, <1>10 DEF Jobs

\* What the other steps do to a job: nothing starts or stops waiting for an answer.
Shifted(j, k) ==
    /\ "mutating" \in {j.stage, k.stage} => k.stage = j.stage /\ k.form = j.form
    /\ k.stage # "idle" => j.stage # "idle" /\ k.form = j.form
    /\ k.attached => k.stage # "idle"
    /\ k = Free \/ (k.form = j.form /\ k.co = j.co /\ k.interrupted = j.interrupted)
    /\ k.exit = "success" /\ ~k.interrupted => k.request = "performed"

LEMMA ShiftedJobs ==
    ASSUME JobsInv, jobs' \in [Slot -> Job], atom' = atom,
           \A t \in Slot : Shifted(jobs[t], jobs'[t])
    PROVE  JobsInv'
<1> USE DEF JobsInv, JobsTyped
<1>1. ASSUME NEW b \in Atom PROVE AtomSound(b)'
  <2>1. AtomSound(b) /\ atom'[b] = atom[b] /\ atom[b] \in Slot \cup {0}
    BY DEF Jobs
  <2>2. CASE atom[b] = 0
    BY <2>1, <2>2 DEF AtomSound
  <2>3. CASE atom[b] \in Slot
    <3>1. Shifted(jobs[atom[b]], jobs'[atom[b]])
      BY <2>3
    <3>2. jobs'[atom[b]].stage = jobs[atom[b]].stage /\ jobs'[atom[b]].form = jobs[atom[b]].form
      BY <2>1, <2>3, <3>1, SlotAssumption DEF Shifted, AtomSound
    <3> QED
      BY <2>1, <2>3, <3>2, SlotAssumption DEF AtomSound, AtomOf
  <2> QED
    BY <2>1, <2>2, <2>3
<1>2. ASSUME NEW t \in Slot PROVE JobSound(t)'
  <2>1. JobSound(t) /\ Shifted(jobs[t], jobs'[t])
    BY DEF Jobs
  <2>2. (/\ jobs'[t].stage = "mutating" /\ AtomOf(jobs'[t]) # "none"
         /\ atom'[AtomOf(jobs'[t])] # t) => jobs'[t].interrupted
    <3>1. ASSUME jobs'[t].stage = "mutating"
          PROVE  /\ jobs[t].stage = "mutating" /\ AtomOf(jobs'[t]) = AtomOf(jobs[t])
                 /\ jobs'[t].interrupted = jobs[t].interrupted
      BY <2>1, <3>1 DEF Shifted, AtomOf, Free
    <3> QED
      BY <2>1, <3>1 DEF JobSound
  <2>3. jobs'[t].form \in SwitchForms => ~jobs'[t].interrupted
    BY <2>1 DEF JobSound, Shifted, Free
  <2>4. /\ jobs'[t].form # "none" => jobs'[t].co \in Company
        /\ jobs'[t].stage # "idle" => jobs'[t].form \in Form
    BY <2>1 DEF JobSound, Shifted, Free
  <2> QED
    BY <2>1, <2>2, <2>3, <2>4 DEF JobSound, Shifted
<1> QED
  BY <1>1, <1>2 DEF Jobs

LEMMA SameJob ==
    ASSUME JobsInv, NEW t \in Slot
    PROVE  Shifted(jobs[t], jobs[t])
BY DEF JobsInv, Jobs, JobSound, Shifted

LEMMA OneShifted ==
    ASSUME JobsInv, NEW s \in Slot, NEW k \in Job, jobs' = [jobs EXCEPT ![s] = k], atom' = atom,
           Shifted(jobs[s], k)
    PROVE  JobsInv'
<1>1. /\ jobs' \in [Slot -> Job]
      /\ jobs'[s] = k /\ \A t \in Slot : t # s => jobs'[t] = jobs[t]
  BY DEF JobsInv, JobsTyped
<1> QED
  BY <1>1, SameJob, ShiftedJobs

\* The handler is done.
LEMMA DoneJobs ==
    ASSUME JobsInv, NEW s \in Slot, jobs[s].stage \notin {"idle", "mutating"}, Done(s), atom' = atom
    PROVE  JobsInv'
<1> DEFINE k == [jobs[s] EXCEPT !.stage = "idle", !.attached = FALSE]
<1>1. /\ k \in Job /\ k.form = jobs[s].form /\ k.co = jobs[s].co /\ k.interrupted = jobs[s].interrupted
      /\ k.stage = "idle" /\ ~k.attached /\ k.exit = jobs[s].exit /\ k.request = jobs[s].request
  BY DEF JobsInv, JobsTyped, Job, Stage
<1>2. Settled(k) \in Job /\ Shifted(jobs[s], Settled(k))
  <2>1. JobSound(s)
    BY DEF JobsInv, Jobs
  <2> HIDE DEF k
  <2>2. Settled(k) = Free \/ Settled(k) = k
    BY DEF Settled
  <2>3. Settled(k) = k => Shifted(jobs[s], Settled(k))
    BY <1>1, <2>1 DEF Shifted, JobSound
  <2>4. Settled(k) = Free => Shifted(jobs[s], Settled(k))
    BY DEF Shifted, Free
  <2> QED
    BY <1>1, <2>2, <2>3, <2>4, FreeJob
<1>3. jobs' = [jobs EXCEPT ![s] = Settled(k)]
  BY DEF Done
<1> HIDE DEF k
<1> QED
  BY <1>2, <1>3, OneShifted

\* The server carried the request out, or refused it.
LEMMA PerformedJobs ==
    ASSUME JobsInv, NEW s \in Slot, NEW q, NEW d \in BOOLEAN, NEW arg \in Nat,
           jobs[s].request = "flying", atom' = atom,
           q \in Query => server'[q] \in Nat,
           Performed(s, q, d, arg)
    PROVE  JobsInv'
<1> DEFINE k == [jobs[s] EXCEPT !.request = "performed",
                                !.version = IF q \in Query THEN server'[q] ELSE 0,
                                !.deleted = d, !.arg = arg]
<1>1. /\ k \in Job /\ k.form = jobs[s].form /\ k.co = jobs[s].co /\ k.interrupted = jobs[s].interrupted
      /\ k.stage = jobs[s].stage /\ k.attached = jobs[s].attached /\ k.request = "performed"
  BY DEF JobsInv, JobsTyped, Job
<1>2. jobs' = [jobs EXCEPT ![s] = Settled(k)]
  BY DEF Performed
<1> HIDE DEF k
<1>3. JobSound(s)
  BY DEF JobsInv, Jobs
<1>4. Settled(k) = Free \/ Settled(k) = k
  BY DEF Settled
<1>5. Settled(k) = k => Shifted(jobs[s], Settled(k))
  BY <1>1, <1>3 DEF Shifted, JobSound
<1>6. Settled(k) = Free => Settled(k) = k \/ jobs[s].stage = "idle"
  BY <1>1 DEF Settled
<1>7. Settled(k) = Free /\ jobs[s].stage = "idle" => Shifted(jobs[s], Settled(k))
  BY DEF Shifted, Free
<1>8. Settled(k) \in Job
  BY <1>1, <1>4, FreeJob
<1> QED
  BY <1>2, <1>4, <1>5, <1>6, <1>7, <1>8, OneShifted

LEMMA RefusedJobs ==
    ASSUME JobsInv, NEW s \in Slot, NEW why \in Why, jobs[s].request = "flying", atom' = atom,
           Refused(s, why)
    PROVE  JobsInv'
<1> DEFINE k == [jobs[s] EXCEPT !.request = why]
<1>1. /\ k \in Job /\ k.form = jobs[s].form /\ k.co = jobs[s].co /\ k.interrupted = jobs[s].interrupted
      /\ k.stage = jobs[s].stage /\ k.attached = jobs[s].attached /\ k.exit = jobs[s].exit
  BY DEF JobsInv, JobsTyped, Job
<1>2. jobs' = [jobs EXCEPT ![s] = Settled(k)]
  BY DEF Refused
<1> HIDE DEF k
<1>3. JobSound(s)
  BY DEF JobsInv, Jobs
<1>4. Settled(k) = Free \/ Settled(k) = k
  BY DEF Settled
<1>5. Settled(k) = k => Shifted(jobs[s], Settled(k))
  BY <1>1, <1>3 DEF Shifted, JobSound
<1>6. Settled(k) = Free => Settled(k) = k \/ jobs[s].stage = "idle"
  BY <1>1 DEF Settled
<1>7. Settled(k) = Free /\ jobs[s].stage = "idle" => Shifted(jobs[s], Settled(k))
  BY DEF Shifted, Free
<1>8. Settled(k) \in Job
  BY <1>1, <1>4, FreeJob
<1> QED
  BY <1>2, <1>4, <1>5, <1>6, <1>7, <1>8, OneShifted

\* The next part of a handler is entered.
LEMMA StagedJob ==
    ASSUME JobsInv, NEW s \in Slot, NEW next \in {"refreshing", "signingOut"},
           jobs[s].stage = "resolved"
    PROVE  LET k == [jobs[s] EXCEPT !.stage = next]
           IN  k \in Job /\ k.form = jobs[s].form /\ k.attached = jobs[s].attached
               /\ Shifted(jobs[s], k)
<1> DEFINE k == [jobs[s] EXCEPT !.stage = next]
<1>1. /\ k \in Job /\ k.form = jobs[s].form /\ k.co = jobs[s].co /\ k.interrupted = jobs[s].interrupted
      /\ k.stage = next /\ k.attached = jobs[s].attached /\ k.exit = jobs[s].exit
      /\ k.request = jobs[s].request
  BY DEF JobsInv, JobsTyped, Job, Stage
<1>2. JobSound(s)
  BY DEF JobsInv, Jobs
<1> HIDE DEF k
<1>3. Shifted(jobs[s], k)
  BY <1>1, <1>2 DEF Shifted, JobSound
<1> QED
  BY <1>1, <1>3 DEF k

\* Components unmount.
LEMMA DetachedJob ==
    ASSUME NEW j \in Job, NEW k \in Job, Shifted(j, k)
    PROVE  LET d == [k EXCEPT !.attached = FALSE] IN d \in Job /\ Shifted(j, d)
<1> DEFINE d == [k EXCEPT !.attached = FALSE]
<1>1. /\ d \in Job /\ d.form = k.form /\ d.co = k.co /\ d.interrupted = k.interrupted /\ d.stage = k.stage
      /\ ~d.attached /\ d.exit = k.exit /\ d.request = k.request
  BY DEF Job
<1>2. CASE k = Free
  BY <1>1, <1>2 DEF Shifted, Free, Job
<1>3. CASE k # Free
  BY <1>1, <1>3 DEF Shifted
<1> QED
  BY <1>1, <1>2, <1>3

LEMMA UnmountJobs ==
    ASSUME JobsInv, NEW js \in [Slot -> Job], NEW cells, Unmount(js, cells), atom' = atom,
           \A t \in Slot : Shifted(jobs[t], js[t])
    PROVE  JobsInv'
<1>1. ASSUME NEW t \in Slot PROVE jobs'[t] \in Job /\ Shifted(jobs[t], jobs'[t])
  <2>1. jobs'[t] = js[t] \/ jobs'[t] = [js[t] EXCEPT !.attached = FALSE]
    BY DEF Unmount, Detached
  <2> QED
    BY <2>1, DetachedJob DEF JobsInv, JobsTyped
<1>2. jobs' \in [Slot -> Job]
  BY <1>1 DEF Unmount, Detached
<1> QED
  BY <1>1, <1>2, ShiftedJobs

\* The answer reaches every call of the atom that waits; a success is the
\* server's only for the call that was run.
LEMMA WaitersOf ==
    ASSUME JobsInv, NEW s \in Slot, RunsNow(s)
    PROVE  /\ s \in Waiters(s) /\ Waiters(s) \subseteq Slot
           /\ \A t \in Waiters(s) : /\ jobs[t].stage = "mutating" /\ jobs[t].form \in Form
                                    /\ t # s => /\ jobs[t].interrupted
                                                /\ AtomOf(jobs[t]) = AtomOf(jobs[s])
           /\ \A t \in Slot \ Waiters(s) :
                jobs[t].stage = "mutating" => \/ AtomOf(jobs[t]) = "none"
                                              \/ AtomOf(jobs[t]) # AtomOf(jobs[s])
           /\ AtomOf(jobs[s]) \in Atom \cup {"none"}
           /\ \A a \in Atom : atom[a] = s <=> a = AtomOf(jobs[s])
<1> USE DEF JobsInv, JobsTyped
<1>1. JobSound(s) /\ jobs[s].stage = "mutating" /\ jobs[s].form \in Form
  BY DEF Jobs, JobSound, RunsNow
<1>2. AtomOf(jobs[s]) \in Atom \cup {"none"}
  BY <1>1, ControlRows DEF AtomOf
<1>3. "none" \notin Atom
  BY DEF Atom
<1>4. \A a \in Atom : atom[a] = s <=> a = AtomOf(jobs[s])
  BY <1>1, <1>2, <1>3, SlotAssumption DEF RunsNow, Jobs, AtomSound, AtomOf
<1>5. s \in Waiters(s) /\ Waiters(s) \subseteq Slot
  BY <1>1 DEF Waiters
<1>6. ASSUME NEW t \in Waiters(s), t # s
      PROVE  /\ jobs[t].stage = "mutating" /\ jobs[t].form \in Form
             /\ jobs[t].interrupted /\ AtomOf(jobs[t]) = AtomOf(jobs[s])
  <2>1. /\ t \in Slot /\ jobs[t].stage = "mutating" /\ AtomOf(jobs[t]) = AtomOf(jobs[s])
        /\ AtomOf(jobs[s]) # "none"
    BY <1>6 DEF Waiters, AtomOf
  <2>2. atom[AtomOf(jobs[s])] = s
    BY <1>2, <1>4, <2>1
  <2>3. JobSound(t)
    BY <2>1 DEF Jobs
  <2> QED
    BY <1>6, <2>1, <2>2, <2>3 DEF JobSound
<1>7. ASSUME NEW t \in Slot \ Waiters(s), jobs[t].stage = "mutating"
      PROVE  AtomOf(jobs[t]) = "none" \/ AtomOf(jobs[t]) # AtomOf(jobs[s])
  BY <1>7 DEF Waiters, AtomOf
<1> QED
  BY <1>1, <1>2, <1>4, <1>5, <1>6, <1>7

LEMMA ResolvedJob ==
    ASSUME JobsInv, NEW s \in Slot, NEW t \in Slot, RunsNow(s), NEW exit \in Exits(s),
           Resolve(s, exit), t \in Waiters(s)
    PROVE  /\ jobs'[t] \in Job
           /\ jobs'[t].stage = "resolved" /\ jobs'[t].exit = exit
           /\ jobs'[t].form = jobs[t].form /\ jobs'[t].request = jobs[t].request
           /\ jobs'[t].attached = jobs[t].attached /\ jobs'[t].version = jobs[t].version
           /\ jobs'[t].interrupted = jobs[t].interrupted /\ jobs'[t].co = jobs[t].co
           /\ jobs[t].form # "enrollMfa" => jobs'[t].arg = jobs[t].arg
<1>1. exit \in {"none", "success", "error"} \cup Why
  <2>1. jobs[s].request \in {"none", "flying", "performed"} \cup Why
    BY DEF JobsInv, JobsTyped, Job
  <2> QED
    BY <2>1 DEF Exits
<1>2. jobs'[t] = [jobs[t] EXCEPT !.stage = "resolved", !.exit = exit, !.deleted = jobs[s].deleted,
                                 !.arg = IF jobs[t].form = "enrollMfa" THEN jobs[s].arg ELSE @]
  BY DEF Resolve
<1>3. jobs[t] \in Job /\ jobs[s].deleted \in BOOLEAN /\ jobs[s].arg \in Nat
  BY DEF JobsInv, JobsTyped, Job
<1> QED
  BY <1>1, <1>2, <1>3 DEF Job, Stage

LEMMA SuccessPerformed ==
    ASSUME JobsInv, NEW s \in Slot, "success" \in Exits(s)
    PROVE  jobs[s].request = "performed"
<1>1. jobs[s].request \in {"none", "flying", "performed"} \cup Why
  BY DEF JobsInv, JobsTyped, Job
<1> QED
  BY <1>1 DEF Exits, Why

LEMMA ResolveJobs ==
    ASSUME JobsInv, NEW s \in Slot, RunsNow(s), NEW exit \in Exits(s), Resolve(s, exit)
    PROVE  JobsInv'
<1> USE DEF JobsInv, JobsTyped
<1>1. \A t \in Slot : t \notin Waiters(s) => jobs'[t] = jobs[t]
  BY DEF Resolve
<1>2. jobs' \in [Slot -> Job]
  BY <1>1, ResolvedJob DEF Resolve
<1>3. /\ atom' = [a \in Atom |-> IF atom[a] = s THEN 0 ELSE atom[a]]
      /\ atom' \in [Atom -> Slot \cup {0}]
  BY DEF Resolve
<1>4. ASSUME NEW b \in Atom PROVE AtomSound(b)'
  <2>1. CASE atom[b] = s
    BY <1>3, <2>1 DEF AtomSound
  <2>2. CASE atom[b] # s /\ atom[b] # 0
    <3>1. AtomSound(b) /\ atom[b] \in Slot
      BY <2>2 DEF Jobs
    <3>2. atom[b] \notin Waiters(s)
      <4>1. SUFFICES ASSUME atom[b] \in Waiters(s) PROVE FALSE
        OBVIOUS
      <4>2. AtomOf(jobs[atom[b]]) = AtomOf(jobs[s]) /\ AtomOf(jobs[atom[b]]) = b
        BY <2>2, <3>1, <4>1, WaitersOf DEF AtomSound
      <4>3. \A a \in Atom : atom[a] = s <=> a = AtomOf(jobs[s])
        BY WaitersOf
      <4> QED
        BY <2>2, <4>2, <4>3
    <3>3. jobs'[atom[b]] = jobs[atom[b]] /\ atom'[b] = atom[b]
      BY <1>1, <1>3, <2>2, <3>1, <3>2
    <3> QED
      BY <3>1, <3>3 DEF AtomSound, AtomOf
  <2>3. CASE atom[b] = 0
    BY <1>3, <2>3 DEF AtomSound
  <2> QED
    BY <2>1, <2>2, <2>3
<1>5. ASSUME NEW t \in Slot PROVE JobSound(t)'
  <2>1. JobSound(t)
    BY DEF Jobs
  <2>2. CASE t \in Waiters(s)
    <3>1. jobs[t].form \in Form /\ (t # s => jobs[t].interrupted)
      BY <2>2, WaitersOf
    <3>2. exit = "success" /\ ~jobs[t].interrupted => jobs[t].request = "performed"
      BY <3>1, SuccessPerformed
    <3> QED
      BY <2>1, <2>2, <3>1, <3>2, ResolvedJob DEF JobSound
  <2>3. CASE t \notin Waiters(s)
    <3>1. jobs'[t] = jobs[t]
      BY <1>1, <2>3
    <3>2. (/\ jobs[t].stage = "mutating" /\ AtomOf(jobs[t]) # "none"
           /\ atom'[AtomOf(jobs[t])] # t) => jobs[t].interrupted
      <4>1. HAVE /\ jobs[t].stage = "mutating" /\ AtomOf(jobs[t]) # "none"
                 /\ atom'[AtomOf(jobs[t])] # t
      <4>2. AtomOf(jobs[t]) # AtomOf(jobs[s]) /\ jobs[t].form \in Form
        BY <2>1, <2>3, <4>1, WaitersOf DEF JobSound
      <4>3. AtomOf(jobs[t]) \in Atom
        BY <4>1, <4>2, ControlRows DEF AtomOf
      <4>4. atom'[AtomOf(jobs[t])] = atom[AtomOf(jobs[t])]
        BY <1>3, <4>2, <4>3, WaitersOf
      <4> QED
        BY <2>1, <4>1, <4>4 DEF JobSound
    <3> QED
      BY <2>1, <3>1, <3>2 DEF JobSound, AtomOf
  <2> QED
    BY <2>2, <2>3
<1> QED
  BY <1>2, <1>3, <1>4, <1>5 DEF Jobs

LEMMA SameJobs ==
    ASSUME JobsInv, UNCHANGED <<jobs, atom>>
    PROVE  JobsInv'
BY SameJob, ShiftedJobs DEF JobsInv, JobsTyped

LEMMA ContinueJobs ==
    ASSUME JobsInv, NEW s \in Slot, Continue(s)
    PROVE  JobsInv'
<1>1. CASE LeaveDeleted(s)
  BY <1>1, DoneJobs DEF LeaveDeleted, Succeeded, Resolved, Finish
<1>2. CASE StartRefresh(s)
  <2> DEFINE k == [jobs[s] EXCEPT !.stage = "refreshing"]
             js == [jobs EXCEPT ![s].stage = "refreshing"]
  <2>1. k \in Job /\ Shifted(jobs[s], k)
    BY <1>2, StagedJob DEF StartRefresh, Succeeded, Resolved
  <2>2. js = [jobs EXCEPT ![s] = k]
    OBVIOUS
  <2>3. PICK cells : Unmount(js, cells)
    BY <1>2 DEF StartRefresh
  <2> HIDE DEF k
  <2>4. js \in [Slot -> Job] /\ \A t \in Slot : Shifted(jobs[t], js[t])
    BY <2>1, <2>2, SameJob DEF JobsInv, JobsTyped
  <2>5. atom' = atom
    BY <1>2 DEF StartRefresh
  <2> HIDE DEF js
  <2> QED
    BY <2>3, <2>4, <2>5, UnmountJobs
<1>3. CASE EndRefresh(s)
  BY <1>3, DoneJobs DEF EndRefresh, Refreshed, Finish
<1>4. CASE DeletionConfirmed(s)
  <2> DEFINE k == [jobs[s] EXCEPT !.stage = "signingOut"]
  <2>1. k \in Job /\ Shifted(jobs[s], k)
    BY <1>4, StagedJob DEF DeletionConfirmed, Succeeded, Resolved
  <2>2. jobs' = [jobs EXCEPT ![s] = k] /\ atom' = atom
    BY <1>4 DEF DeletionConfirmed
  <2> HIDE DEF k
  <2> QED
    BY <2>1, <2>2, OneShifted
<1>5. CASE DeletionSignedOut(s)
  BY <1>5, DoneJobs DEF DeletionSignedOut, Finish
<1>6. CASE LeaveSignedOut(s)
  BY <1>6, DoneJobs DEF LeaveSignedOut, Succeeded, Resolved
<1>11. CASE LeaveForProvider(s)
  BY <1>11, DoneJobs DEF LeaveForProvider, Succeeded, Resolved
<1>7. CASE EndSaved(s)
  BY <1>7, DoneJobs DEF EndSaved, Succeeded, Resolved, Finish
<1>8. CASE EndVerification(s)
  BY <1>8, DoneJobs DEF EndVerification, Resolved, Finish
<1>9. CASE EndEnroll(s)
  BY <1>9, DoneJobs DEF EndEnroll, Resolved, Finish
<1>10. CASE EndFailed(s)
  BY <1>10, DoneJobs DEF EndFailed, Failed, Resolved, Finish
<1> QED
  BY <1>1, <1>2, <1>3, <1>4, <1>5, <1>6, <1>7, <1>8, <1>9, <1>10, <1>11 DEF Continue

LEMMA QueryKinds ==
    /\ companyState \in Query /\ mfaStatus \in Query /\ companyState # mfaStatus
BY DEF companyState, mfaStatus, Query

\* What a call of a dialog or of a control is made with.
LEMMA CallArguments ==
    ASSUME SpaTyped
    PROVE  /\ shownCompany \in Company /\ dlg.enrollment \in Nat
           /\ OnScreen \subseteq Form
BY ErrandsAssumption DEF SpaTyped, shownCompany, Dialogue, OnScreen

\* A handler that takes a free slot to wait for its query.
LEMMA RefreshAndWaitJob ==
    ASSUME SpaTyped, NEW s \in Slot, PutCodesAway(s)
    PROVE  /\ shownCompany \in Company /\ server[mfaStatus] \in Nat
           /\ jobs[s] = Free /\ jobs'[s] \in Job
           /\ jobs'[s].form = "handleOpenChange" /\ jobs'[s].co = shownCompany
           /\ jobs'[s].stage = "refreshing" /\ jobs'[s].request = "performed"
           /\ jobs'[s].exit = "success" /\ jobs'[s].version = server[mfaStatus]
           /\ ~jobs'[s].attached /\ ~jobs'[s].interrupted
           /\ jobs' \in [Slot -> Job] /\ \A t \in Slot : t # s => jobs'[t] = jobs[t]
           /\ AwaitedQuery(s)' = mfaStatus /\ Invalidate({mfaStatus})
<1> DEFINE v == server[mfaStatus]
           c == shownCompany
           k == [Free EXCEPT !.form = "handleOpenChange", !.co = c, !.stage = "refreshing",
                             !.request = "performed", !.exit = "success", !.version = v]
<1>1. v \in Nat /\ c \in Company
  BY QueryKinds, CallArguments DEF SpaTyped
<1>2. QueryOf(control["handleOpenChange"].awaits, c) = mfaStatus
  BY DialogForms DEF QueryOf, mfaStatus
<1>3. jobs' = [jobs EXCEPT ![s] = k] /\ Invalidate({mfaStatus}) /\ jobs[s] = Free
  BY <1>2 DEF PutCodesAway, RefreshAndWait, NextSlot
<1> HIDE DEF v, c
<1>4. /\ k \in Job /\ k.form = "handleOpenChange" /\ k.co = c /\ k.stage = "refreshing"
      /\ k.request = "performed" /\ k.exit = "success" /\ k.version = v
      /\ k.attached = Free.attached /\ k.interrupted = Free.interrupted
  BY <1>1, FreeJob, DialogForms DEF Job, Stage
<1>5. ~Free.attached /\ ~Free.interrupted
  BY DEF Free
<1> HIDE DEF k
<1>6. /\ jobs'[s] = k /\ jobs' \in [Slot -> Job]
      /\ \A t \in Slot : t # s => jobs'[t] = jobs[t]
  BY <1>3, <1>4 DEF SpaTyped
<1>7. AwaitedQuery(s)' = mfaStatus
  BY <1>2, <1>4, <1>6 DEF AwaitedQuery, c
<1> QED
  BY <1>1, <1>3, <1>4, <1>5, <1>6, <1>7 DEF v, c

LEMMA PutCodesAwayJobs ==
    ASSUME SpaTyped, JobsInv, NEW s \in Slot, PutCodesAway(s)
    PROVE  JobsInv'
<1>1. atom' = atom /\ "handleOpenChange" \in Form /\ "handleOpenChange" \notin SwitchForms
  BY DialogForms DEF PutCodesAway, SwitchForms
<1>2. ASSUME NEW b \in Atom PROVE AtomSound(b)'
  <2>1. AtomSound(b) /\ atom[b] # s
    BY RefreshAndWaitJob, SlotAssumption DEF JobsInv, Jobs, AtomSound, Free
  <2>2. atom[b] # 0 => jobs'[atom[b]] = jobs[atom[b]]
    BY <2>1, RefreshAndWaitJob DEF JobsInv, JobsTyped
  <2> QED
    BY <1>1, <2>1, <2>2 DEF AtomSound, AtomOf
<1>3. ASSUME NEW t \in Slot PROVE JobSound(t)'
  <2>1. CASE t = s
    BY <1>1, <2>1, RefreshAndWaitJob DEF JobSound
  <2>2. CASE t # s
    <3>1. jobs'[t] = jobs[t] /\ JobSound(t)
      BY <2>2, RefreshAndWaitJob DEF JobsInv, Jobs
    <3> QED
      BY <1>1, <3>1 DEF JobSound, AtomOf
  <2> QED
    BY <2>1, <2>2
<1> QED
  BY <1>1, <1>2, <1>3, RefreshAndWaitJob DEF JobsInv, JobsTyped, Jobs

\* What the server does with a request.
LEMMA PerformFacts ==
    ASSUME SpaTyped, NEW s \in Slot, Perform(s)
    PROVE  /\ \E d \in BOOLEAN : \E arg \in Nat :
                /\ Performed(s, QueryOf(control[jobs[s].form].awaits, jobs[s].co), d, arg)
                /\ jobs[s].form # "enrollMfa" => arg = jobs[s].arg
           /\ server' \in [Query -> Nat]
           /\ \A q \in Query : server[q] <= server'[q]
<1>1. Deletions(jobs[s].form) \subseteq BOOLEAN
  BY DEF Deletions
<1>2. mfa.minted + 1 \in Nat /\ jobs[s].arg \in Nat
  BY DEF SpaTyped, Enrolment, Job
<1>3. PICK d \in Deletions(jobs[s].form) :
        Performed(s, QueryOf(control[jobs[s].form].awaits, jobs[s].co), d,
                  IF jobs[s].form = "enrollMfa" THEN mfa.minted + 1 ELSE jobs[s].arg)
  BY DEF Perform
<1>4. PICK queries : Changes(queries)
  BY DEF Perform
<1>5. server' \in [Query -> Nat] /\ \A q \in Query : server[q] <= server'[q]
  BY <1>4 DEF Changes, SpaTyped
<1>6. CASE jobs[s].form = "enrollMfa"
  BY <1>1, <1>2, <1>3, <1>5, <1>6
<1>7. CASE jobs[s].form # "enrollMfa"
  BY <1>1, <1>2, <1>3, <1>5, <1>7
<1> QED
  BY <1>6, <1>7

LEMMA JobsStep ==
    ASSUME SpaTyped, Jobs, [SpaNext]_spaVars
    PROVE  JobsInv'
<1>0. JobsInv
  BY DEF JobsInv, JobsTyped, SpaTyped
<1>1. ASSUME NEW to \in Pages, Navigate(to) PROVE JobsInv'
  BY <1>0, <1>1, UnmountJobs, SameJob DEF Navigate, JobsInv, JobsTyped
<1>2. CASE CloseTransfer
  BY <1>0, <1>2, UnmountJobs, SameJob DEF CloseTransfer, JobsInv, JobsTyped
<1>3. CASE CloseEnroll \/ TurnStep \/ OtherTab
  BY <1>0, <1>3, SameJobs DEF CloseEnroll, TurnStep, OtherTab, callVars
<1>4. ASSUME NEW s \in Slot, NEW f \in OnScreen, NEW c \in Company, Click(s, f, c) PROVE JobsInv'
  <2>1. f \in Form /\ (f \in SwitchForms => ~switchPending) /\ f # "handleOpenChange"
    BY <1>4, CallArguments DEF Click, MayClick, SwitchForms
  <2> QED
    BY <1>0, <1>4, <2>1, CallJobs DEF Click
<1>5. ASSUME NEW s \in Slot, OpenEnroll(s) PROVE JobsInv'
  <2>1. CASE UNCHANGED callVars
    BY <1>0, <2>1, SameJobs DEF callVars
  <2>2. CASE Call(s, "enrollMfa", "enroll", shownCompany, 0)
    <3>1. /\ "enrollMfa" \in Form /\ control["enrollMfa"].atom = "enroll"
          /\ "enrollMfa" \notin SwitchForms
      BY DialogForms DEF SwitchForms
    <3> QED
      BY <1>0, <2>2, <3>1, CallArguments, CallJobs
  <2> QED
    BY <1>5, <2>1, <2>2 DEF OpenEnroll
<1>6. ASSUME NEW s \in Slot, SubmitCode(s) PROVE JobsInv'
  <2>1. /\ "activateMfa" \in Form /\ control["activateMfa"].atom = "activate"
        /\ "activateMfa" \notin SwitchForms
    BY DialogForms DEF SwitchForms
  <2> QED
    BY <1>0, <1>6, <2>1, CallArguments, CallJobs DEF SubmitCode
<1>7. ASSUME NEW s \in Slot, SubmitDisable(s) PROVE JobsInv'
  <2>1. /\ "disableMfa" \in Form /\ control["disableMfa"].atom = "disable"
        /\ "disableMfa" \notin SwitchForms
    BY DialogForms DEF SwitchForms
  <2> QED
    BY <1>0, <1>7, <2>1, CallArguments, CallJobs DEF SubmitDisable
<1>8. ASSUME NEW s \in Slot, Perform(s) PROVE JobsInv'
  <2> DEFINE q == QueryOf(control[jobs[s].form].awaits, jobs[s].co)
  <2>1. PICK d \in BOOLEAN, arg \in Nat : Performed(s, q, d, arg)
    BY <1>8, PerformFacts
  <2>2. \A p \in Query : server'[p] \in Nat
    BY <1>8, PerformFacts
  <2>3. jobs[s].request = "flying" /\ atom' = atom
    BY <1>8 DEF Perform
  <2> HIDE DEF q
  <2> QED
    BY <1>0, <2>1, <2>2, <2>3, PerformedJobs
<1>9. ASSUME NEW s \in Slot, Refuse(s) PROVE JobsInv'
  <2>1. PICK why \in Refusals(jobs[s].form, jobs[s].arg) : Refused(s, why)
    BY <1>9 DEF Refuse
  <2>2. why \in Why
    BY <2>1 DEF Refusals, Why
  <2> QED
    BY <1>0, <1>9, <2>1, <2>2, RefusedJobs DEF Refuse
<1>10. ASSUME NEW s \in Slot, Answer(s) PROVE JobsInv'
  BY <1>0, <1>10, ResolveJobs DEF Answer
<1>11. ASSUME NEW s \in Slot, Continue(s) PROVE JobsInv'
  BY <1>0, <1>11, ContinueJobs
<1>12. ASSUME NEW q \in Query, ListArrives(q) PROVE JobsInv'
  BY <1>0, <1>12, UnmountJobs, SameJob DEF ListArrives, JobsInv, JobsTyped
<1>13. ASSUME NEW q \in Query, ListRead(q) \/ ListFails(q) PROVE JobsInv'
  BY <1>0, <1>13, SameJobs DEF ListRead, ListFails, callVars
<1>14. CASE UNCHANGED spaVars
  BY <1>0, <1>14, SameJobs DEF spaVars, callVars
<1>15. ASSUME NEW s \in Slot, PutCodesAway(s) PROVE JobsInv'
  BY <1>0, <1>15, PutCodesAwayJobs
<1> QED
  BY <1>1, <1>2, <1>3, <1>4, <1>5, <1>6, <1>7, <1>8, <1>9, <1>10, <1>11, <1>12, <1>13, <1>14, <1>15
  DEF SpaNext, BrowserStep

-----------------------------------------------------------------------------
(***************************************************************************)
(* Types of what is on screen, under way, and at the server.               *)
(***************************************************************************)
QueriesTyped ==
    /\ reply \in [Query -> Fetch]
    /\ shown \in [Query -> [version : Nat, value : Value, failed : BOOLEAN]]
    /\ shown[companyState].value \in Company
    /\ reply[companyState].phase = "read" => reply[companyState].value \in Company

LEMMA ValueTyped ==
    ASSUME SpaTyped, NEW q \in Query
    PROVE  ValueOf(q) \in Value /\ ValueOf(companyState) \in Company
<1>1. (mfa.active # 0) \in BOOLEAN /\ current \in Company
  BY DEF SpaTyped
<1> QED
  BY <1>1, QueryKinds DEF ValueOf, Value

LEMMA FetchKinds ==
    ASSUME NEW fetch \in Fetch
    PROVE  /\ fetch.phase \in {"idle", "asked", "read"}
           /\ fetch.phase = "read" => fetch.version \in Nat /\ fetch.value \in Value
           /\ [phase |-> "idle"] \in Fetch /\ [phase |-> "asked"] \in Fetch
BY DEF Fetch

LEMMA InvalidateTyped ==
    ASSUME SpaTyped, NEW queries, Invalidate(queries), shown' = shown
    PROVE  QueriesTyped'
<1>1. ASSUME NEW q \in Query
      PROVE  /\ reply'[q] = [phase |-> "asked"] \/ reply'[q] = reply[q]
             /\ reply'[q] \in Fetch
  BY FetchKinds DEF Invalidate, SpaTyped
<1>2. reply' \in [Query -> Fetch]
  BY <1>1 DEF Invalidate
<1>3. reply'[companyState].phase = "read" => reply'[companyState].value \in Company
  BY <1>1, QueryKinds DEF SpaTyped
<1> QED
  BY <1>2, <1>3 DEF QueriesTyped, SpaTyped

LEMMA ReadTyped ==
    ASSUME SpaTyped, NEW q \in Query, ListRead(q)
    PROVE  QueriesTyped'
<1> DEFINE new == [phase |-> "read", version |-> server[q], value |-> ValueOf(q)]
<1>1. new \in Fetch /\ new.value = ValueOf(q)
  BY ValueTyped DEF Fetch, SpaTyped
<1>2. reply' = [reply EXCEPT ![q] = new] /\ shown' = shown
  BY DEF ListRead, Read
<1> HIDE DEF new
<1>3. reply' \in [Query -> Fetch]
  BY <1>1, <1>2 DEF SpaTyped
<1>4. reply'[companyState].phase = "read" => reply'[companyState].value \in Company
  <2>1. CASE q = companyState
    BY <1>1, <1>2, <2>1, ValueTyped DEF SpaTyped
  <2>2. CASE q # companyState
    BY <1>2, <2>2, QueryKinds DEF SpaTyped
  <2> QED
    BY <2>1, <2>2
<1> QED
  BY <1>2, <1>3, <1>4 DEF QueriesTyped, SpaTyped

\* What an arrival or a failed fetch does to the two functions.
LEMMA ArriveEffect ==
    ASSUME SpaTyped, NEW q \in Query, ListArrives(q)
    PROVE  /\ reply[q].phase = "read"
           /\ reply' \in [Query -> Fetch]
           /\ shown' \in [Query -> [version : Nat, value : Value, failed : BOOLEAN]]
           /\ reply'[q].phase = "idle"
           /\ shown'[q].version = reply[q].version /\ shown'[q].value = reply[q].value
           /\ \A p \in Query : p # q => reply'[p] = reply[p] /\ shown'[p] = shown[p]
<1> DEFINE new == [version |-> reply[q].version, value |-> reply[q].value, failed |-> FALSE]
           none == [phase |-> "idle"]
<1>1. /\ reply[q].phase = "read" /\ reply' = [reply EXCEPT ![q] = none]
      /\ shown' = [shown EXCEPT ![q] = new]
  BY DEF ListArrives, Arrive
<1>2. reply[q] \in Fetch
  BY DEF SpaTyped
<1>3. /\ none \in Fetch /\ none.phase = "idle"
      /\ new \in [version : Nat, value : Value, failed : BOOLEAN]
      /\ new.version = reply[q].version /\ new.value = reply[q].value
  BY <1>1, <1>2, FetchKinds
<1> HIDE DEF new, none
<1> QED
  BY <1>1, <1>3 DEF SpaTyped

LEMMA FailEffect ==
    ASSUME SpaTyped, NEW q \in Query, ListFails(q)
    PROVE  /\ reply[q].phase # "idle"
           /\ reply' \in [Query -> Fetch]
           /\ shown' \in [Query -> [version : Nat, value : Value, failed : BOOLEAN]]
           /\ reply'[q].phase = "idle"
           /\ shown'[q].version = shown[q].version /\ shown'[q].value = shown[q].value
           /\ shown'[q].failed
           /\ \A p \in Query : p # q => reply'[p] = reply[p] /\ shown'[p] = shown[p]
<1> DEFINE new == [shown[q] EXCEPT !.failed = TRUE]
           none == [phase |-> "idle"]
<1>1. /\ reply[q].phase # "idle" /\ reply' = [reply EXCEPT ![q] = none]
      /\ shown' = [shown EXCEPT ![q] = new]
  BY DEF ListFails, FetchFails
<1>2. reply[q] \in Fetch /\ shown[q] \in [version : Nat, value : Value, failed : BOOLEAN]
  BY DEF SpaTyped
<1>3. /\ none \in Fetch /\ none.phase = "idle"
      /\ new \in [version : Nat, value : Value, failed : BOOLEAN]
      /\ new.version = shown[q].version /\ new.value = shown[q].value /\ new.failed
  BY <1>1, <1>2, FetchKinds
<1> HIDE DEF new, none
<1> QED
  BY <1>1, <1>3 DEF SpaTyped

LEMMA QueriesStep ==
    ASSUME SpaTyped, [SpaNext]_spaVars
    PROVE  QueriesTyped'
<1>0. UNCHANGED <<reply, shown>> => QueriesTyped'
  BY DEF SpaTyped, QueriesTyped
<1>1. ASSUME NEW to \in Pages, Navigate(to) PROVE QueriesTyped'
  BY <1>0, <1>1 DEF Navigate, dataVars
<1>2. CASE CloseEnroll
  BY <1>0, <1>2 DEF CloseEnroll, dataVars
<1>3. CASE CloseTransfer \/ TurnStep \/ OtherTab
  BY <1>0, <1>3 DEF CloseTransfer, TurnStep, OtherTab, dataVars
<1>4. ASSUME NEW s \in Slot, NEW f \in OnScreen, NEW c \in Company, Click(s, f, c)
      PROVE QueriesTyped'
  BY <1>0, <1>4 DEF Click, dataVars
<1>5. ASSUME NEW s \in Slot, OpenEnroll(s) \/ SubmitCode(s) \/ SubmitDisable(s) PROVE QueriesTyped'
  BY <1>0, <1>5 DEF OpenEnroll, SubmitCode, SubmitDisable, dataVars
<1>6. ASSUME NEW s \in Slot, Perform(s) \/ Refuse(s) PROVE QueriesTyped'
  BY <1>0, <1>6 DEF Perform, Refuse, dataVars
<1>7. ASSUME NEW s \in Slot, Answer(s) PROVE QueriesTyped'
  BY <1>0, <1>7, InvalidateTyped DEF Answer
<1>8. ASSUME NEW s \in Slot, Continue(s) PROVE QueriesTyped'
  BY <1>0, <1>8 DEF Continue, LeaveDeleted, StartRefresh, EndRefresh, DeletionConfirmed,
     DeletionSignedOut, LeaveSignedOut, LeaveForProvider, EndSaved, EndVerification, EndEnroll, EndFailed, dataVars
<1>9. ASSUME NEW q \in Query, ListRead(q) PROVE QueriesTyped'
  BY <1>9, ReadTyped
<1>10. ASSUME NEW q \in Query, ListArrives(q) PROVE QueriesTyped'
  <2>1. q = companyState => reply[q].value \in Company
    BY <1>10, ArriveEffect DEF SpaTyped
  <2>2. shown'[companyState].value \in Company
    BY <1>10, <2>1, ArriveEffect, QueryKinds DEF SpaTyped
  <2>3. reply'[companyState].phase = "read" => reply'[companyState].value \in Company
    BY <1>10, ArriveEffect, QueryKinds DEF SpaTyped
  <2> QED
    BY <1>10, <2>2, <2>3, ArriveEffect DEF QueriesTyped
<1>11. ASSUME NEW q \in Query, ListFails(q) PROVE QueriesTyped'
  <2>1. shown'[companyState].value \in Company
    BY <1>11, FailEffect, QueryKinds DEF SpaTyped
  <2>2. reply'[companyState].phase = "read" => reply'[companyState].value \in Company
    BY <1>11, FailEffect, QueryKinds DEF SpaTyped
  <2> QED
    BY <1>11, <2>1, <2>2, FailEffect DEF QueriesTyped
<1>12. CASE UNCHANGED spaVars
  BY <1>0, <1>12 DEF spaVars, dataVars
<1>13. ASSUME NEW s \in Slot, PutCodesAway(s) PROVE QueriesTyped'
  BY <1>13, RefreshAndWaitJob, InvalidateTyped DEF PutCodesAway
<1> QED
  BY <1>1, <1>2, <1>3, <1>4, <1>5, <1>6, <1>7, <1>8, <1>9, <1>10, <1>11, <1>12, <1>13
  DEF SpaNext, BrowserStep

\* The parts of SpaTyped that are neither calls nor queries.
WorldTyped ==
    /\ errand \in Errands
    /\ server \in [Query -> Nat]
    /\ dlg \in Dialogue
    /\ mfa \in Enrolment
    /\ current \in Company

LEMMA MfaTyped ==
    ASSUME mfa \in Enrolment, NEW f
    PROVE  MfaAfter(f) \in Enrolment /\ mfa.ours \subseteq MfaAfter(f).ours
<1>1. /\ [mfa EXCEPT !.pending = mfa.minted + 1, !.minted = @ + 1] \in Enrolment
      /\ [mfa EXCEPT !.pending = mfa.minted + 1, !.minted = @ + 1].ours = mfa.ours
  <2> DEFINE n == mfa.minted + 1
  <2>1. n \in Nat
    BY DEF Enrolment
  <2> HIDE DEF n
  <2>2. /\ [mfa EXCEPT !.pending = n, !.minted = n] \in Enrolment
        /\ [mfa EXCEPT !.pending = n, !.minted = n].ours = mfa.ours
    BY <2>1 DEF Enrolment
  <2> QED
    BY <2>2 DEF n
<1>2. /\ [mfa EXCEPT !.active = mfa.pending, !.pending = 0, !.ours = @ \cup {mfa.pending}]
            \in Enrolment
      /\ [mfa EXCEPT !.active = mfa.pending, !.pending = 0, !.ours = @ \cup {mfa.pending}].ours
            = mfa.ours \cup {mfa.pending}
  BY DEF Enrolment
<1>3. [mfa EXCEPT !.active = 0] \in Enrolment /\ [mfa EXCEPT !.active = 0].ours = mfa.ours
  BY DEF Enrolment
<1> QED
  BY <1>1, <1>2, <1>3 DEF MfaAfter

LEMMA DialogueTyped ==
    ASSUME SpaTyped, NEW s \in Slot
    PROVE  EnrollAnswered(s) \in Dialogue /\ ClosedDialog \in Dialogue
<1>1. dlg \in Dialogue /\ jobs[s].arg \in Nat
  BY DEF SpaTyped, Job
<1>2. /\ [dlg EXCEPT !.step = "scan", !.enrollment = jobs[s].arg, !.resumable = jobs[s].arg]
            \in Dialogue
      /\ [dlg EXCEPT !.step = "failed"] \in Dialogue
      /\ [dlg EXCEPT !.resumable = 0] \in Dialogue
  BY <1>1 DEF Dialogue
<1>3. [dlg EXCEPT !.step = "recoveryCodes", !.enrollment = jobs[s].arg, !.resumable = 0]
            \in Dialogue
  BY <1>1 DEF Dialogue
<1>4. ClosedDialog \in Dialogue
  BY DEF ClosedDialog, Dialogue
<1> QED
  BY <1>1, <1>2, <1>3, <1>4 DEF EnrollAnswered

LEMMA CurrentTyped ==
    ASSUME current \in Company, NEW f, NEW c, f # "none" => c \in Company
    PROVE  CurrentAfter(f, c) \subseteq Company
BY DEF CurrentAfter

LEMMA OtherTabServer ==
    ASSUME SpaTyped, OtherTab
    PROVE  server' \in [Query -> Nat] /\ \A q \in Query : server[q] <= server'[q]
<1>1. UNCHANGED server \/ Changes({mfaStatus}) \/ Changes({companyState})
  BY DEF OtherTab
<1>2. ASSUME NEW queries, Changes(queries)
      PROVE  server' \in [Query -> Nat] /\ \A q \in Query : server[q] <= server'[q]
  BY <1>2 DEF Changes, SpaTyped
<1>3. CASE UNCHANGED server
  BY <1>3 DEF SpaTyped
<1> QED
  BY <1>1, <1>2, <1>3

LEMMA WorldStep ==
    ASSUME SpaTyped, Jobs, [SpaNext]_spaVars
    PROVE  WorldTyped'
<1>0. UNCHANGED <<errand, server, dlg, mfa, current>> => WorldTyped'
  BY DEF SpaTyped, WorldTyped
<1>1. dlg \in Dialogue /\ ClosedDialog \in Dialogue /\ mfa \in Enrolment /\ current \in Company
  BY DEF SpaTyped, ClosedDialog, Dialogue
<1>2. UNCHANGED <<errand, server, mfa, current>> /\ dlg' \in Dialogue => WorldTyped'
  BY DEF SpaTyped, WorldTyped
<1>3. ASSUME NEW to \in Pages, Navigate(to) PROVE WorldTyped'
  BY <1>1, <1>2, <1>3 DEF Navigate, dataVars, worldVars
<1>4. CASE CloseTransfer
  BY <1>0, <1>4 DEF CloseTransfer, dataVars, uiVars, worldVars
<1>5. CASE CloseEnroll
  <2>1. [dlg EXCEPT !.open = FALSE] \in Dialogue
    BY <1>1 DEF Dialogue
  <2> QED
    BY <1>2, <1>5, <2>1 DEF CloseEnroll, dataVars, worldVars
<1>18. ASSUME NEW s \in Slot, PutCodesAway(s) PROVE WorldTyped'
  <2>1. [dlg EXCEPT !.open = FALSE] \in Dialogue
    BY <1>1 DEF Dialogue
  <2> QED
    BY <1>2, <1>18, <2>1 DEF PutCodesAway, worldVars
<1>6. CASE TurnStep
  <2>1. [dlg EXCEPT !.step = "verify"] \in Dialogue /\ [dlg EXCEPT !.step = "scan"] \in Dialogue
    BY <1>1 DEF Dialogue
  <2> QED
    BY <1>2, <1>6, <2>1 DEF TurnStep, dataVars, worldVars
<1>7. CASE OtherTab
  <2>1. [mfa EXCEPT !.active = mfa.pending, !.pending = 0] \in Enrolment
    BY <1>1 DEF Enrolment
  <2>2. mfa' \in Enrolment /\ current' \in Company
    BY <1>1, <1>7, <2>1, MfaTyped DEF OtherTab
  <2>3. server' \in [Query -> Nat]
    BY <1>7, OtherTabServer
  <2>4. errand' = errand /\ dlg' = dlg
    BY <1>7 DEF OtherTab, uiVars
  <2> QED
    BY <1>1, <2>2, <2>3, <2>4 DEF WorldTyped, SpaTyped
<1>8. ASSUME NEW s \in Slot, NEW f \in OnScreen, NEW c \in Company, Click(s, f, c) PROVE WorldTyped'
  BY <1>0, <1>8 DEF Click, dataVars, worldVars
<1>9. ASSUME NEW s \in Slot, OpenEnroll(s) PROVE WorldTyped'
  <2>1. /\ [dlg EXCEPT !.open = TRUE, !.step = "scan", !.enrollment = dlg.resumable] \in Dialogue
        /\ [dlg EXCEPT !.open = TRUE, !.step = "starting", !.enrollment = 0] \in Dialogue
    BY <1>1 DEF Dialogue
  <2> QED
    BY <1>2, <1>9, <2>1 DEF OpenEnroll, dataVars, worldVars
<1>10. ASSUME NEW s \in Slot, SubmitCode(s) \/ SubmitDisable(s) PROVE WorldTyped'
  BY <1>0, <1>10 DEF SubmitCode, SubmitDisable, dataVars, uiVars, worldVars
<1>11. ASSUME NEW s \in Slot, Perform(s) PROVE WorldTyped'
  <2>1. jobs[s].form # "none" => jobs[s].co \in Company
    BY DEF Jobs, JobSound
  <2>2. current' \in Company
    BY <1>1, <1>11, <2>1, CurrentTyped DEF Perform
  <2>3. mfa' \in Enrolment
    BY <1>1, <1>11, MfaTyped DEF Perform
  <2>4. server' \in [Query -> Nat]
    BY <1>11, PerformFacts
  <2>5. errand' = errand /\ dlg' = dlg
    BY <1>11 DEF Perform, uiVars
  <2> QED
    BY <1>1, <2>2, <2>3, <2>4, <2>5 DEF WorldTyped, SpaTyped
<1>12. ASSUME NEW s \in Slot, Refuse(s) \/ Answer(s) PROVE WorldTyped'
  BY <1>0, <1>12 DEF Refuse, Answer, dataVars, uiVars, worldVars
<1>13. ASSUME NEW s \in Slot, StartRefresh(s) \/ EndEnroll(s) PROVE WorldTyped'
  <2>1. dlg' \in Dialogue
    BY <1>1, <1>13, DialogueTyped DEF StartRefresh, EndEnroll
  <2> QED
    BY <1>2, <1>13, <2>1 DEF StartRefresh, EndEnroll, dataVars, worldVars
<1>14. ASSUME NEW s \in Slot, Continue(s), ~(StartRefresh(s) \/ EndEnroll(s)) PROVE WorldTyped'
  BY <1>0, <1>14 DEF Continue, LeaveDeleted, EndRefresh, DeletionConfirmed, DeletionSignedOut,
     LeaveSignedOut, LeaveForProvider, EndSaved, EndVerification, EndFailed, dataVars, uiVars, worldVars
<1>15. ASSUME NEW q \in Query, ListRead(q) \/ ListFails(q) PROVE WorldTyped'
  BY <1>0, <1>15 DEF ListRead, ListFails, uiVars, worldVars
<1>16. ASSUME NEW q \in Query, ListArrives(q) PROVE WorldTyped'
  BY <1>1, <1>2, <1>16 DEF ListArrives, worldVars
<1>17. CASE UNCHANGED spaVars
  BY <1>0, <1>17 DEF spaVars, dataVars, uiVars, worldVars
<1> QED
  BY <1>3, <1>4, <1>5, <1>6, <1>7, <1>8, <1>9, <1>10, <1>11, <1>12, <1>13, <1>14, <1>15, <1>16, <1>17,
     <1>18
  DEF SpaNext, BrowserStep

LEMMA TypedStep ==
    ASSUME SpaTyped, Jobs, [SpaNext]_spaVars
    PROVE  SpaTyped' /\ Jobs'
BY JobsStep, QueriesStep, WorldStep DEF JobsInv, JobsTyped, QueriesTyped, WorldTyped, SpaTyped

-----------------------------------------------------------------------------
(***************************************************************************)
(* The enrolment dialog.                                                   *)
(***************************************************************************)
\* A job that the dialog does not notice.
QuietJob(t) ==
    /\ Enrolling(t)' => Enrolling(t)
    /\ Activating(t)' => /\ Activating(t) /\ "enrollEntry" \in busy'
                         /\ jobs'[t].stage = "mutating" =>
                              jobs[t].stage = "mutating" /\ atom'["activate"] = atom["activate"]
                         /\ jobs'[t].stage # "mutating" /\ jobs'[t].exit = "success" =>
                              \/ jobs[t].stage # "mutating" /\ jobs[t].exit = "success"
                              \/ jobs[t].arg \in mfa'.ours
    /\ jobs'[t].form = "activateMfa" =>
         /\ jobs[t].form = "activateMfa" /\ jobs'[t].arg = jobs[t].arg
         /\ jobs'[t].request = "performed" => \/ jobs[t].request = "performed"
                                              \/ jobs[t].arg \in mfa'.ours

SameDialog ==
    /\ dlg' = dlg /\ page' = page /\ shown'[mfaStatus].value = shown[mfaStatus].value
    /\ mfa.ours \subseteq mfa'.ours

LEMMA QuietDialog ==
    ASSUME Dialog, SameDialog, \A t \in Slot : QuietJob(t)
    PROVE  Dialog'
<1>1. ASSUME NEW t \in Slot PROVE EnrollSound(t)'
  <2>1. \A u \in Slot : Enrolling(u)' => Enrolling(u)
    BY DEF QuietJob
  <2>2. EnrollSound(t) /\ dlg' = dlg
    BY DEF Dialog, SameDialog
  <2> QED
    BY <2>1, <2>2 DEF EnrollSound
<1>2. ASSUME NEW t \in Slot PROVE ActivateSound(t)'
  <2>1. \A u \in Slot : Activating(u)' => Activating(u)
    BY DEF QuietJob
  <2>2. /\ ActivateSound(t) /\ QuietJob(t) /\ dlg' = dlg /\ mfa.ours \subseteq mfa'.ours
    BY DEF Dialog, SameDialog
  <2>3. jobs'[t].form = "activateMfa" /\ jobs'[t].request = "performed" => jobs'[t].arg \in mfa'.ours
    BY <2>2 DEF ActivateSound, QuietJob
  <2>4. ASSUME Activating(t)'
        PROVE  /\ dlg'.open /\ dlg'.step = "verify" /\ "enrollEntry" \in busy'
               /\ jobs'[t].stage = "mutating" => atom'["activate"] = t
               /\ jobs'[t].stage # "mutating" /\ jobs'[t].exit = "success" => jobs'[t].arg \in mfa'.ours
               /\ \A u \in Slot : Activating(u)' => u = t
    <3>1. Activating(t) /\ jobs'[t].form = "activateMfa"
      BY <2>1, <2>4 DEF Activating
    <3> QED
      BY <2>1, <2>2, <2>4, <3>1 DEF ActivateSound, QuietJob
  <2> QED
    BY <2>3, <2>4 DEF ActivateSound
<1>3. CodesAreActive' /\ (dlg'.open => page' = "security" /\ ~shown'[mfaStatus].value)
  BY DEF Dialog, SameDialog, CodesAreActive
<1> QED
  BY <1>1, <1>2, <1>3 DEF Dialog

\* No handler of the dialog is left, whatever it shows.
LEMMA FreshDialog ==
    ASSUME \A t \in Slot : ~Enrolling(t)' /\ ~Activating(t)',
           \A t \in Slot : jobs'[t].form = "activateMfa" /\ jobs'[t].request = "performed"
                             => jobs'[t].arg \in mfa'.ours,
           dlg'.open => page' = "security" /\ ~shown'[mfaStatus].value,
           CodesAreActive'
    PROVE  Dialog'
BY DEF Dialog, EnrollSound, ActivateSound

\* Done and Finish, field by field.
LEMMA DoneEffect ==
    ASSUME JobsInv, NEW s \in Slot, Done(s)
    PROVE  /\ ~jobs'[s].attached
           /\ \A t \in Slot : t # s => jobs'[t] = jobs[t]
           /\ jobs'[s] = Free \/ (/\ jobs'[s].form = jobs[s].form /\ jobs'[s].arg = jobs[s].arg
                                  /\ jobs'[s].request = jobs[s].request /\ jobs'[s].stage = "idle")
<1> DEFINE k == [jobs[s] EXCEPT !.stage = "idle", !.attached = FALSE]
<1>1. /\ ~k.attached /\ k.form = jobs[s].form /\ k.arg = jobs[s].arg
      /\ k.request = jobs[s].request /\ k.stage = "idle"
  BY DEF JobsInv, JobsTyped, Job
<1>2. jobs' = [jobs EXCEPT ![s] = Settled(k)]
  BY DEF Done
<1> HIDE DEF k
<1>3. Settled(k) = Free \/ Settled(k) = k
  BY DEF Settled
<1>4. jobs'[s] = Settled(k) /\ \A t \in Slot : t # s => jobs'[t] = jobs[t]
  BY <1>2 DEF JobsInv, JobsTyped
<1>5. ~Free.attached
  BY DEF Free
<1> QED
  BY <1>1, <1>3, <1>4, <1>5

LEMMA DoneDialog ==
    ASSUME JobsInv, Dialog, SameDialog, NEW s \in Slot, Done(s), atom' = atom,
           busy' = busy \/ busy' = Released(s)
    PROVE  Dialog'
<1>1. ASSUME NEW t \in Slot PROVE QuietJob(t)
  <2>1. CASE t = s
    BY <2>1, DoneEffect DEF QuietJob, Enrolling, Activating, Free
  <2>2. CASE t # s
    <3>1. jobs'[t] = jobs[t]
      BY <2>2, DoneEffect
    <3>2. Activating(t) => "enrollEntry" \in busy'
      <4>1. SUFFICES ASSUME Activating(t) PROVE "enrollEntry" \in busy'
        OBVIOUS
      <4>2. "enrollEntry" \in busy /\ ~Activating(s)
        BY <2>2, <4>1 DEF Dialog, ActivateSound
      <4>3. jobs[s].attached => control[jobs[s].form].cell # "enrollEntry"
        <5>1. jobs[s].attached => jobs[s].form \in Form
          BY DEF JobsInv, Jobs, JobSound
        <5> QED
          BY <4>2, <5>1, ControlRows DEF Activating
      <4> QED
        BY <4>2, <4>3 DEF Released
    <3> QED
      BY <3>1, <3>2 DEF QuietJob, Enrolling, Activating
  <2> QED
    BY <2>1, <2>2
<1> QED
  BY <1>1, QuietDialog

LEMMA EndEnrollDialog ==
    ASSUME SpaTyped, JobsInv, Dialog, NEW s \in Slot, EndEnroll(s)
    PROVE  Dialog'
<1>1. /\ Done(s) /\ busy' = Released(s) /\ atom' = atom /\ mfa' = mfa /\ page' = page
      /\ shown' = shown /\ jobs[s].stage = "resolved" /\ jobs[s].form \in {"enrollMfa", "activateMfa"}
      /\ dlg' = IF jobs[s].attached THEN EnrollAnswered(s) ELSE dlg
  BY DEF EndEnroll, Finish, Resolved, FormIn, worldVars, dataVars
<1>2. CASE ~jobs[s].attached
  BY <1>1, <1>2, DoneDialog DEF SameDialog
<1>3. CASE jobs[s].attached
  <2>1. /\ EnrollSound(s) /\ ActivateSound(s) /\ (Enrolling(s) \/ Activating(s))
        /\ \A t \in Slot : EnrollSound(t) /\ ActivateSound(t)
    BY <1>1, <1>3 DEF Dialog, Enrolling, Activating
  <2>2. ASSUME NEW t \in Slot PROVE ~Enrolling(t)' /\ ~Activating(t)'
    <3>1. t # s => jobs'[t] = jobs[t] /\ ~(Enrolling(t) \/ Activating(t))
      BY <1>1, <2>1, DoneEffect DEF EnrollSound, ActivateSound
    <3> QED
      BY <1>1, <3>1, DoneEffect DEF Enrolling, Activating
  <2>3. ASSUME NEW t \in Slot, jobs'[t].form = "activateMfa", jobs'[t].request = "performed"
        PROVE jobs'[t].arg \in mfa'.ours
    <3>1. /\ jobs[t].form = "activateMfa" /\ jobs[t].request = "performed"
          /\ jobs'[t].arg = jobs[t].arg
      BY <1>1, <2>3, DoneEffect DEF Free
    <3> QED
      BY <1>1, <3>1 DEF Dialog, ActivateSound
  <2>4. dlg.open /\ page = "security" /\ ~shown[mfaStatus].value /\ dlg.step # "recoveryCodes"
    BY <2>1 DEF EnrollSound, ActivateSound, Dialog
  <2>5. Activating(s) /\ jobs[s].exit = "success" => jobs[s].arg \in mfa.ours
    BY <1>1, <2>1 DEF ActivateSound
  <2>6. /\ dlg'.step = "recoveryCodes" => Activating(s) /\ jobs[s].exit = "success"
                                          /\ dlg'.enrollment = jobs[s].arg
    <3>1. dlg' = EnrollAnswered(s) /\ dlg \in Dialogue
      BY <1>1, <1>3 DEF SpaTyped
    <3>2. CASE jobs[s].form = "enrollMfa"
      <4>1. \/ dlg' = [dlg EXCEPT !.step = "scan", !.enrollment = jobs[s].arg, !.resumable = jobs[s].arg]
            \/ dlg' = [dlg EXCEPT !.step = "failed"]
        BY <3>1, <3>2 DEF EnrollAnswered
      <4>2. dlg'.step \in {"scan", "failed"}
        BY <3>1, <4>1 DEF Dialogue
      <4> QED
        BY <4>2
    <3>3. CASE jobs[s].form = "activateMfa" /\ jobs[s].exit = "success"
      BY <1>3, <3>1, <3>3 DEF EnrollAnswered, Dialogue, Activating
    <3>4. CASE jobs[s].form = "activateMfa" /\ jobs[s].exit # "success"
      BY <2>4, <3>1, <3>4 DEF EnrollAnswered, Dialogue
    <3> QED
      BY <1>1, <3>2, <3>3, <3>4
  <2>7. CodesAreActive'
    BY <1>1, <2>5, <2>6 DEF CodesAreActive
  <2> QED
    BY <1>1, <2>2, <2>3, <2>4, <2>7, FreshDialog
<1> QED
  BY <1>2, <1>3

\* Unmounting, seen by one job.
LEMMA DetachedEffect ==
    ASSUME NEW js \in [Slot -> Job], NEW cells, Unmount(js, cells), NEW t \in Slot
    PROVE  /\ jobs'[t].form = js[t].form /\ jobs'[t].arg = js[t].arg /\ jobs'[t].stage = js[t].stage
           /\ jobs'[t].exit = js[t].exit /\ jobs'[t].request = js[t].request
           /\ jobs'[t].version = js[t].version /\ jobs'[t].co = js[t].co
           /\ jobs'[t].interrupted = js[t].interrupted
           /\ jobs'[t].attached => /\ js[t].attached
                                   /\ js[t].form # "none" => control[js[t].form].cell \notin cells
           /\ busy' = busy \ cells
<1>1. /\ jobs'[t] = IF js[t].form # "none" /\ control[js[t].form].cell \in cells
                    THEN [js[t] EXCEPT !.attached = FALSE] ELSE js[t]
      /\ busy' = busy \ cells
  BY DEF Unmount, Detached
<1>2. js[t] \in Job
  OBVIOUS
<1>3. CASE js[t].form # "none" /\ control[js[t].form].cell \in cells
  BY <1>1, <1>2, <1>3 DEF Job
<1>4. CASE ~(js[t].form # "none" /\ control[js[t].form].cell \in cells)
  BY <1>1, <1>4
<1> QED
  BY <1>3, <1>4

\* js is jobs, but for handlers that go from their answer to the next part.
OnlyStaged(js) ==
    \A t \in Slot :
        /\ js[t].form = jobs[t].form /\ js[t].arg = jobs[t].arg /\ js[t].exit = jobs[t].exit
        /\ js[t].request = jobs[t].request /\ js[t].attached = jobs[t].attached
        /\ "mutating" \in {js[t].stage, jobs[t].stage} => js[t].stage = jobs[t].stage

LEMMA UnmountDialog ==
    ASSUME Dialog, NEW js \in [Slot -> Job], NEW cells, OnlyStaged(js), Unmount(js, cells),
           atom' = atom, SameDialog
    PROVE  Dialog'
<1>1. ASSUME NEW t \in Slot PROVE QuietJob(t)
  <2>1. Activating(t)' => Activating(t) /\ "enrollEntry" \in busy'
    <3>1. SUFFICES ASSUME Activating(t)' PROVE Activating(t) /\ "enrollEntry" \in busy'
      OBVIOUS
    <3>2. Activating(t) /\ "enrollEntry" \notin cells
      BY <3>1, DetachedEffect, DialogForms DEF OnlyStaged, Activating
    <3>3. "enrollEntry" \in busy
      BY <3>2 DEF Dialog, ActivateSound
    <3> QED
      BY <3>2, <3>3, DetachedEffect
  <2> QED
    BY <2>1, DetachedEffect DEF QuietJob, Enrolling, Activating, OnlyStaged
<1> QED
  BY <1>1, QuietDialog

LEMMA UnmountClosed ==
    ASSUME Dialog, NEW js \in [Slot -> Job], NEW cells, OnlyStaged(js), Unmount(js, cells),
           mfa' = mfa, dlg' = ClosedDialog,
           dlg.open => {"enrollStart", "enrollEntry"} \subseteq cells
    PROVE  Dialog'
<1>1. ASSUME NEW t \in Slot PROVE ~Enrolling(t)' /\ ~Activating(t)'
  <2>1. EnrollSound(t) /\ ActivateSound(t)
    BY DEF Dialog
  <2> QED
    BY <2>1, DetachedEffect, DialogForms DEF Enrolling, Activating, EnrollSound, ActivateSound,
       OnlyStaged
<1>2. ASSUME NEW t \in Slot, jobs'[t].form = "activateMfa", jobs'[t].request = "performed"
      PROVE jobs'[t].arg \in mfa'.ours
  <2>1. /\ jobs[t].form = "activateMfa" /\ jobs[t].request = "performed"
        /\ jobs'[t].arg = jobs[t].arg
    BY <1>2, DetachedEffect DEF OnlyStaged
  <2> QED
    BY <2>1 DEF Dialog, ActivateSound
<1>3. ~dlg'.open
  BY DEF ClosedDialog
<1> QED
  BY <1>1, <1>2, <1>3, FreshDialog DEF CodesAreActive

\* A call, seen by one job.
LEMMA CallEffect ==
    ASSUME SpaTyped, NEW s \in Slot, NEW f \in Form, NEW a, NEW c \in Company, NEW arg \in Nat,
           Call(s, f, a, c, arg), NEW t \in Slot
    PROVE  /\ t = s => /\ jobs[t] = Free
                       /\ jobs'[t].form = f /\ jobs'[t].co = c /\ jobs'[t].arg = arg
                       /\ jobs'[t].stage = "mutating" /\ jobs'[t].request = "flying"
                       /\ jobs'[t].exit = "none" /\ jobs'[t].version = 0
           /\ t # s => /\ jobs'[t].form = jobs[t].form /\ jobs'[t].co = jobs[t].co
                       /\ jobs'[t].arg = jobs[t].arg /\ jobs'[t].stage = jobs[t].stage
                       /\ jobs'[t].exit = jobs[t].exit /\ jobs'[t].request = jobs[t].request
                       /\ jobs'[t].attached = jobs[t].attached
                       /\ jobs'[t].version = jobs[t].version
                       /\ ~jobs'[t].interrupted => ~jobs[t].interrupted
           /\ \A b \in Atom : atom'[b] = IF b = a /\ a # "none" THEN s ELSE atom[b]
<1>1. CASE t = s
  <2>1. jobs'[t] = [Free EXCEPT !.form = f, !.co = c, !.arg = arg, !.stage = "mutating",
                                !.request = "flying", !.attached = TRUE]
        /\ jobs[t] = Free
    BY <1>1 DEF Call, NextSlot
  <2>2. Free \in Job /\ Free.exit = "none" /\ Free.version = 0
    BY FreeJob DEF Free
  <2> QED
    BY <1>1, <2>1, <2>2 DEF Job, Call, SpaTyped
<1>2. CASE t # s
  <2>1. jobs'[t] = jobs[t] \/ jobs'[t] = [jobs[t] EXCEPT !.interrupted = TRUE]
    BY <1>2 DEF Call
  <2>2. jobs[t] \in Job
    BY DEF SpaTyped
  <2> QED
    BY <1>2, <2>1, <2>2 DEF Job, Call, SpaTyped
<1> QED
  BY <1>1, <1>2

\* Calls of the controls that are not the dialog's.
LEMMA CallDialog ==
    ASSUME SpaTyped, Dialog, SameDialog, NEW s \in Slot,
           NEW f \in Form \ {"enrollMfa", "activateMfa"}, NEW c \in Company, NEW arg \in Nat,
           Call(s, f, control[f].atom, c, arg), busy \subseteq busy'
    PROVE  Dialog'
<1>1. control[f].atom # "activate" /\ "activate" \in Atom
  BY ControlRows, DialogForms
<1>2. atom'["activate"] = atom["activate"]
  BY <1>1, CallEffect
<1>3. ASSUME NEW t \in Slot PROVE QuietJob(t)
  <2>1. CASE t = s
    BY <2>1, CallEffect DEF QuietJob, Enrolling, Activating
  <2>2. CASE t # s
    <3>1. Activating(t) => "enrollEntry" \in busy'
      BY DEF Dialog, ActivateSound
    <3> QED
      BY <1>2, <2>2, <3>1, CallEffect DEF QuietJob, Enrolling, Activating
  <2> QED
    BY <2>1, <2>2
<1> QED
  BY <1>3, QuietDialog

\* handleOpenChange(true): nothing of an earlier opening is attached any more.
LEMMA OpenEnrollDialog ==
    ASSUME SpaTyped, Dialog, NEW s \in Slot, OpenEnroll(s)
    PROVE  Dialog'
<1>1. /\ page = "security" /\ ~shown[mfaStatus].value /\ ~dlg.open /\ dlg \in Dialogue
      /\ page' = page /\ shown' = shown /\ mfa' = mfa
  BY DEF OpenEnroll, EnrollRendered, worldVars, dataVars, SpaTyped
<1>2. \A t \in Slot : ~Enrolling(t) /\ ~Activating(t)
  BY <1>1 DEF Dialog, EnrollSound, ActivateSound
<1>3. CASE UNCHANGED <<jobs, atom>> /\ dlg' = [dlg EXCEPT !.open = TRUE, !.step = "scan",
                                                          !.enrollment = dlg.resumable]
  <2>1. dlg'.step = "scan"
    BY <1>1, <1>3 DEF Dialogue
  <2>2. \A t \in Slot : ActivateSound(t)
    BY DEF Dialog
  <2> QED
    BY <1>1, <1>2, <1>3, <2>1, <2>2, FreshDialog
    DEF Enrolling, Activating, ActivateSound, CodesAreActive
<1>4. CASE /\ Call(s, "enrollMfa", "enroll", shownCompany, 0)
           /\ dlg' = [dlg EXCEPT !.open = TRUE, !.step = "starting", !.enrollment = 0]
  <2>1. dlg'.open /\ dlg'.step = "starting"
    BY <1>1, <1>4 DEF Dialogue
  <2>2. /\ jobs'[s].form = "enrollMfa"
        /\ \A t \in Slot \ {s} : /\ jobs'[t].form = jobs[t].form /\ jobs'[t].arg = jobs[t].arg
                                 /\ jobs'[t].request = jobs[t].request
                                 /\ jobs'[t].attached = jobs[t].attached
    BY <1>4, CallEffect, CallArguments, DialogForms
  <2>3. \A t \in Slot : (Enrolling(t)' => t = s) /\ ~Activating(t)'
    BY <1>2, <2>2 DEF Enrolling, Activating
  <2>4. \A t \in Slot : EnrollSound(t)'
    BY <2>1, <2>3 DEF EnrollSound
  <2>5. \A t \in Slot : ActivateSound(t)'
    <3>1. \A t \in Slot : ActivateSound(t)
      BY DEF Dialog
    <3> QED
      BY <1>1, <2>2, <2>3, <3>1 DEF ActivateSound
  <2> QED
    BY <1>1, <2>1, <2>4, <2>5 DEF Dialog, CodesAreActive
<1> QED
  BY <1>3, <1>4 DEF OpenEnroll, callVars

LEMMA SubmitCodeDialog ==
    ASSUME SpaTyped, Dialog, NEW s \in Slot, SubmitCode(s)
    PROVE  Dialog'
<1>1. /\ dlg.open /\ dlg.step = "verify" /\ "enrollEntry" \notin busy
      /\ dlg' = dlg /\ page' = page /\ shown' = shown /\ mfa' = mfa
      /\ "enrollEntry" \in busy'
      /\ Call(s, "activateMfa", "activate", shownCompany, dlg.enrollment)
  BY DEF SubmitCode, EntryIdle, uiVars, worldVars, dataVars
<1>2. \A t \in Slot : ~Enrolling(t) /\ ~Activating(t)
  BY <1>1 DEF Dialog, EnrollSound, ActivateSound
<1>3. /\ jobs'[s].form = "activateMfa" /\ jobs'[s].stage = "mutating"
      /\ jobs'[s].request = "flying" /\ atom'["activate"] = s
      /\ \A t \in Slot \ {s} : /\ jobs'[t].form = jobs[t].form /\ jobs'[t].arg = jobs[t].arg
                               /\ jobs'[t].request = jobs[t].request
                               /\ jobs'[t].attached = jobs[t].attached
  BY <1>1, CallEffect, CallArguments, DialogForms
<1>4. \A t \in Slot : ~Enrolling(t)' /\ (Activating(t)' => t = s)
  BY <1>2, <1>3 DEF Enrolling, Activating
<1>5. \A t \in Slot : EnrollSound(t)'
  BY <1>4 DEF EnrollSound
<1>6. \A t \in Slot : ActivateSound(t)'
  <2>1. \A t \in Slot : ActivateSound(t)
    BY DEF Dialog
  <2> QED
    BY <1>1, <1>3, <1>4, <2>1 DEF ActivateSound
<1> QED
  BY <1>1, <1>5, <1>6 DEF Dialog, CodesAreActive

\* With no handler attached and the jobs as they are, the dialog may change its step.
LEMMA TurnedDialog ==
    ASSUME Dialog, UNCHANGED <<jobs, mfa, page, shown>>,
           \A t \in Slot : ~Enrolling(t) /\ ~Activating(t),
           dlg'.open => dlg.open /\ dlg'.step # "recoveryCodes"
    PROVE  Dialog'
<1>1. \A t \in Slot : ActivateSound(t)
  BY DEF Dialog
<1> QED
  BY <1>1, FreshDialog DEF Dialog, Enrolling, Activating, ActivateSound, CodesAreActive

LEMMA AnswerDialog ==
    ASSUME SpaTyped, JobsInv, Dialog, NEW s \in Slot, Answer(s)
    PROVE  Dialog'
<1>1. PICK exit \in Exits(s) : Resolve(s, exit)
  BY DEF Answer
<1>2. RunsNow(s) /\ dlg' = dlg /\ page' = page /\ shown' = shown /\ mfa' = mfa /\ busy' = busy
  BY DEF Answer, uiVars, worldVars
<1>3. ASSUME NEW t \in Slot PROVE QuietJob(t)
  <2>1. ActivateSound(t)
    BY DEF Dialog
  <2>2. CASE t \in Waiters(s)
    <3>1. /\ jobs'[t].stage = "resolved" /\ jobs'[t].exit = exit
          /\ jobs'[t].form = jobs[t].form /\ jobs'[t].request = jobs[t].request
          /\ jobs'[t].attached = jobs[t].attached
          /\ jobs[t].form # "enrollMfa" => jobs'[t].arg = jobs[t].arg
      BY <1>1, <1>2, <2>2, ResolvedJob
    <3>2. ASSUME Activating(t), exit = "success" PROVE jobs[t].arg \in mfa'.ours
      <4>1. jobs[t].stage = "mutating" /\ (t # s => AtomOf(jobs[t]) = AtomOf(jobs[s]))
        BY <1>2, <2>2, WaitersOf
      <4>2. atom["activate"] = t /\ AtomOf(jobs[t]) = "activate" /\ "activate" \in Atom
        BY <2>1, <3>2, <4>1, DialogForms DEF ActivateSound, Activating, AtomOf
      <4>3. \A a \in Atom : atom[a] = s <=> a = AtomOf(jobs[s])
        BY <1>2, WaitersOf
      <4>4. t = s
        BY <4>1, <4>2, <4>3
      <4>5. jobs[t].request = "performed"
        BY <1>1, <3>2, <4>4, SuccessPerformed
      <4> QED
        BY <1>2, <2>1, <3>2, <4>5 DEF ActivateSound, Activating
    <3> QED
      BY <1>2, <2>1, <3>1, <3>2 DEF QuietJob, Enrolling, Activating, ActivateSound
  <2>3. CASE t \notin Waiters(s)
    <3>1. jobs'[t] = jobs[t]
      BY <1>1, <2>3 DEF Resolve
    <3>2. ASSUME jobs[t].stage = "mutating", Activating(t)
          PROVE  atom'["activate"] = atom["activate"]
      <4>1. AtomOf(jobs[t]) = "activate" /\ "activate" \in Atom
        BY <3>2, DialogForms DEF Activating, AtomOf
      <4>2. AtomOf(jobs[s]) # "activate"
        BY <1>2, <2>3, <3>2, <4>1, WaitersOf DEF Atom
      <4>3. \A a \in Atom : atom[a] = s <=> a = AtomOf(jobs[s])
        BY <1>2, WaitersOf
      <4> QED
        BY <1>1, <4>1, <4>2, <4>3 DEF Resolve, SpaTyped
    <3> QED
      BY <1>2, <2>1, <3>1, <3>2 DEF QuietJob, Enrolling, Activating, ActivateSound
  <2> QED
    BY <2>2, <2>3
<1> QED
  BY <1>2, <1>3, QuietDialog DEF SameDialog

\* A request carried out or refused, seen by its job.
LEMMA PerformedEffect ==
    ASSUME JobsInv, NEW s \in Slot, NEW q, NEW d \in BOOLEAN, NEW arg \in Nat,
           q \in Query => server'[q] \in Nat,
           Performed(s, q, d, arg)
    PROVE  /\ \A t \in Slot : t # s => jobs'[t] = jobs[t]
           /\ \/ jobs'[s] = Free
              \/ /\ jobs'[s].form = jobs[s].form /\ jobs'[s].co = jobs[s].co
                 /\ jobs'[s].arg = arg /\ jobs'[s].stage = jobs[s].stage
                 /\ jobs'[s].exit = jobs[s].exit /\ jobs'[s].request = "performed"
                 /\ jobs'[s].attached = jobs[s].attached
                 /\ jobs'[s].interrupted = jobs[s].interrupted
                 /\ jobs'[s].version = IF q \in Query THEN server'[q] ELSE 0
<1> DEFINE v == IF q \in Query THEN server'[q] ELSE 0
           k == [jobs[s] EXCEPT !.request = "performed", !.version = v, !.deleted = d, !.arg = arg]
<1>1. v \in Nat
  OBVIOUS
<1>2. jobs' = [jobs EXCEPT ![s] = Settled(k)]
  BY DEF Performed
<1> HIDE DEF v
<1>3. /\ k.form = jobs[s].form /\ k.co = jobs[s].co /\ k.arg = arg /\ k.stage = jobs[s].stage
      /\ k.exit = jobs[s].exit /\ k.request = "performed" /\ k.attached = jobs[s].attached
      /\ k.interrupted = jobs[s].interrupted /\ k.version = v
  BY <1>1 DEF JobsInv, JobsTyped, Job
<1> HIDE DEF k
<1>4. Settled(k) = Free \/ Settled(k) = k
  BY DEF Settled
<1>5. jobs'[s] = Settled(k) /\ \A t \in Slot : t # s => jobs'[t] = jobs[t]
  BY <1>2 DEF JobsInv, JobsTyped
<1> QED
  BY <1>3, <1>4, <1>5 DEF v

LEMMA RefusedEffect ==
    ASSUME JobsInv, NEW s \in Slot, NEW why \in Why, Refused(s, why)
    PROVE  /\ \A t \in Slot : t # s => jobs'[t] = jobs[t]
           /\ \/ jobs'[s] = Free
              \/ /\ jobs'[s].form = jobs[s].form /\ jobs'[s].co = jobs[s].co
                 /\ jobs'[s].arg = jobs[s].arg /\ jobs'[s].stage = jobs[s].stage
                 /\ jobs'[s].exit = jobs[s].exit /\ jobs'[s].request = why
                 /\ jobs'[s].attached = jobs[s].attached
                 /\ jobs'[s].interrupted = jobs[s].interrupted
                 /\ jobs'[s].version = jobs[s].version
<1> DEFINE k == [jobs[s] EXCEPT !.request = why]
<1>1. jobs' = [jobs EXCEPT ![s] = Settled(k)]
  BY DEF Refused
<1>2. /\ k.form = jobs[s].form /\ k.co = jobs[s].co /\ k.arg = jobs[s].arg
      /\ k.stage = jobs[s].stage /\ k.exit = jobs[s].exit /\ k.request = why
      /\ k.attached = jobs[s].attached /\ k.interrupted = jobs[s].interrupted
      /\ k.version = jobs[s].version
  BY DEF JobsInv, JobsTyped, Job
<1> HIDE DEF k
<1>3. Settled(k) = Free \/ Settled(k) = k
  BY DEF Settled
<1>4. jobs'[s] = Settled(k) /\ \A t \in Slot : t # s => jobs'[t] = jobs[t]
  BY <1>1 DEF JobsInv, JobsTyped
<1> QED
  BY <1>2, <1>3, <1>4

LEMMA SettledDialog ==
    ASSUME SpaTyped, JobsInv, Dialog, NEW s \in Slot, Perform(s) \/ Refuse(s)
    PROVE  Dialog'
<1>1. /\ dlg' = dlg /\ page' = page /\ shown' = shown /\ busy' = busy /\ atom' = atom
      /\ mfa' = IF Refuse(s) THEN mfa' ELSE MfaAfter(jobs[s].form)
      /\ Refuse(s) => mfa' = mfa
  BY DEF Perform, Refuse, uiVars, worldVars, dataVars
<1>2. mfa.ours \subseteq mfa'.ours
  BY <1>1, MfaTyped DEF SpaTyped
<1>3. /\ \A t \in Slot : t # s => jobs'[t] = jobs[t]
      /\ \/ jobs'[s] = Free
         \/ /\ jobs'[s].form = jobs[s].form /\ jobs'[s].stage = jobs[s].stage
            /\ jobs'[s].exit = jobs[s].exit /\ jobs'[s].attached = jobs[s].attached
            /\ jobs[s].form # "enrollMfa" => jobs'[s].arg = jobs[s].arg
            /\ Refuse(s) => jobs'[s].request # "performed"
  <2>1. CASE Perform(s)
    <3> DEFINE q == QueryOf(control[jobs[s].form].awaits, jobs[s].co)
    <3>1. PICK d \in BOOLEAN, arg \in Nat :
            Performed(s, q, d, arg) /\ (jobs[s].form # "enrollMfa" => arg = jobs[s].arg)
      BY <2>1, PerformFacts
    <3>2. \A p \in Query : server'[p] \in Nat
      BY <2>1, PerformFacts
    <3>3. ~Refuse(s) \/ jobs'[s].request # "performed"
      <4>1. SUFFICES ASSUME Refuse(s) PROVE jobs'[s].request # "performed"
        OBVIOUS
      <4>2. PICK why \in Refusals(jobs[s].form, jobs[s].arg) : Refused(s, why)
        BY <4>1 DEF Refuse
      <4>3. why \in Why
        BY <4>2 DEF Refusals, Why
      <4> QED
        BY <4>2, <4>3, RefusedEffect DEF Free, Why
    <3> HIDE DEF q
    <3> QED
      BY <3>1, <3>2, <3>3, PerformedEffect
  <2>2. CASE Refuse(s)
    <3>1. PICK why \in Refusals(jobs[s].form, jobs[s].arg) : Refused(s, why)
      BY <2>2 DEF Refuse
    <3>2. why \in Why /\ why # "performed"
      BY <3>1 DEF Refusals, Why
    <3> QED
      BY <3>1, <3>2, RefusedEffect
  <2> QED
    BY <2>1, <2>2
<1>4. jobs[s].form = "activateMfa" /\ ~Refuse(s) => jobs[s].arg \in mfa'.ours
  <2>1. SUFFICES ASSUME jobs[s].form = "activateMfa", Perform(s), ~Refuse(s)
                 PROVE  jobs[s].arg \in mfa'.ours
    OBVIOUS
  <2>2. mfa.pending = jobs[s].arg
    BY <2>1 DEF Perform, EnrollmentAccepted
  <2>3. mfa' = [mfa EXCEPT !.active = mfa.pending, !.pending = 0, !.ours = @ \cup {mfa.pending}]
    BY <1>1, <2>1 DEF MfaAfter
  <2> QED
    BY <2>2, <2>3 DEF SpaTyped, Enrolment
<1>5. ASSUME NEW t \in Slot PROVE QuietJob(t)
  <2>1. ActivateSound(t)
    BY DEF Dialog
  <2>2. CASE t # s
    BY <1>1, <1>3, <2>1, <2>2 DEF QuietJob, Enrolling, Activating, ActivateSound
  <2>3. CASE t = s
    <3>1. CASE jobs'[s] = Free
      BY <2>3, <3>1 DEF QuietJob, Enrolling, Activating, Free
    <3>2. CASE jobs'[s] # Free
      BY <1>1, <1>3, <1>4, <2>1, <2>3, <3>2 DEF QuietJob, Enrolling, Activating, ActivateSound
    <3> QED
      BY <3>1, <3>2
  <2> QED
    BY <2>2, <2>3
<1> QED
  BY <1>1, <1>2, <1>5, QuietDialog DEF SameDialog

LEMMA StartRefreshDialog ==
    ASSUME SpaTyped, JobsInv, Dialog, NEW s \in Slot, StartRefresh(s)
    PROVE  Dialog'
<1>0. PICK there \in TransferPageThere(s) :
        Unmount([jobs EXCEPT ![s].stage = "refreshing"],
                IF FormIn(s, {"handleDelete"}) THEN CellsOf(page) \ CellsOf("companies")
                ELSE IF there THEN {"picker"} ELSE {})
  BY DEF StartRefresh
<1> DEFINE js == [jobs EXCEPT ![s].stage = "refreshing"]
           cells == IF FormIn(s, {"handleDelete"}) THEN CellsOf(page) \ CellsOf("companies")
                    ELSE IF there THEN {"picker"} ELSE {}
<1>1. js \in [Slot -> Job] /\ OnlyStaged(js)
  <2>1. /\ js = [jobs EXCEPT ![s] = [jobs[s] EXCEPT !.stage = "refreshing"]]
        /\ jobs[s].stage = "resolved"
    BY DEF StartRefresh, Succeeded, Resolved
  <2> QED
    BY <2>1 DEF SpaTyped, OnlyStaged, Job, Stage
<1>2. Unmount(js, cells)
  BY <1>0
<1>3. /\ atom' = atom /\ mfa' = mfa /\ shown' = shown
      /\ page' # page => dlg' = ClosedDialog
      /\ page' = page => dlg' = dlg
      /\ page' # page => cells = CellsOf(page) \ CellsOf("companies") /\ page # "companies"
  BY DEF StartRefresh, worldVars, dataVars
<1> HIDE DEF js, cells
<1>4. CASE page' = page
  BY <1>1, <1>2, <1>3, <1>4, UnmountDialog DEF SameDialog
<1>5. CASE page' # page
  <2>1. dlg.open => {"enrollStart", "enrollEntry"} \subseteq cells
    BY <1>3, <1>5, EnrolCells DEF Dialog
  <2> QED
    BY <1>1, <1>2, <1>3, <1>5, <2>1, UnmountClosed
<1> QED
  BY <1>4, <1>5

LEMMA SameStaged == OnlyStaged(jobs)
BY DEF OnlyStaged

\* What the arrival of a list does to the enrolment dialog.
LEMMA ArriveReplaced ==
    ASSUME SpaTyped, NEW q \in Query, ListArrives(q)
    PROVE  \/ /\ "enrollEntry" \in Replaced(q) /\ "enrollStart" \in Replaced(q)
              /\ dlg' = ClosedDialog
              /\ q = mfaStatus /\ shown'[mfaStatus].value # shown[mfaStatus].value
           \/ /\ "enrollEntry" \notin Replaced(q)
              /\ dlg' = dlg /\ shown'[mfaStatus].value = shown[mfaStatus].value
<1>1. CASE q = mfaStatus /\ shown'[q].value # shown[q].value
  BY <1>1, QueryKinds DEF ListArrives, Replaced
<1>2. CASE q = mfaStatus /\ shown'[q].value = shown[q].value
  BY <1>2 DEF ListArrives, Replaced
<1>3. CASE q # mfaStatus
  BY <1>3, ArriveEffect, QueryKinds DEF ListArrives, Replaced
<1> QED
  BY <1>1, <1>2, <1>3

LEMMA ArriveDialog ==
    ASSUME SpaTyped, Dialog, NEW q \in Query, ListArrives(q)
    PROVE  Dialog'
<1>1. /\ Unmount(jobs, Replaced(q)) /\ jobs \in [Slot -> Job] /\ atom' = atom /\ mfa' = mfa
      /\ page' = page
  BY DEF ListArrives, SpaTyped, worldVars
<1>2. CASE {"enrollEntry", "enrollStart"} \subseteq Replaced(q) /\ dlg' = ClosedDialog
  BY <1>1, <1>2, SameStaged, UnmountClosed
<1>3. CASE dlg' = dlg /\ shown'[mfaStatus].value = shown[mfaStatus].value
  BY <1>1, <1>3, SameStaged, UnmountDialog DEF SameDialog
<1> QED
  BY <1>2, <1>3, ArriveReplaced

LEMMA DialogStep ==
    ASSUME SpaTyped, Jobs, Dialog, [SpaNext]_spaVars
    PROVE  Dialog'
<1>0. JobsInv /\ \A t \in Slot : EnrollSound(t) /\ ActivateSound(t)
  BY DEF JobsInv, JobsTyped, SpaTyped, Dialog
<1>1. ASSUME UNCHANGED <<jobs, atom, busy>>, SameDialog PROVE Dialog'
  <2>1. ASSUME NEW t \in Slot PROVE QuietJob(t)
    BY <1>0, <1>1 DEF QuietJob, Enrolling, Activating, ActivateSound
  <2> QED
    BY <1>1, <2>1, QuietDialog
<1>2. ASSUME NEW to \in Pages, Navigate(to) PROVE Dialog'
  <2>1. dlg.open => {"enrollStart", "enrollEntry"} \subseteq CellsOf(page)
    BY EnrolCells DEF Dialog
  <2> QED
    BY <1>2, <2>1, SameStaged, UnmountClosed DEF Navigate, worldVars, SpaTyped
<1>3. CASE CloseTransfer
  BY <1>3, SameStaged, UnmountDialog DEF CloseTransfer, SpaTyped, worldVars, uiVars, dataVars,
     SameDialog
<1>4. CASE CloseEnroll \/ TurnStep
  <2>1. \A t \in Slot : ~Enrolling(t) /\ ~Activating(t)
    BY <1>0, <1>4 DEF CloseEnroll, TurnStep, EntryIdle, EnrollSound, ActivateSound
  <2>2. dlg'.open => dlg.open /\ dlg'.step # "recoveryCodes"
    <3>1. dlg \in Dialogue
      BY DEF SpaTyped
    <3>2. CASE CloseEnroll
      BY <3>1, <3>2 DEF CloseEnroll, Dialogue
    <3>3. CASE TurnStep
      <4>1. dlg.open /\ (dlg' = [dlg EXCEPT !.step = "verify"] \/ dlg' = [dlg EXCEPT !.step = "scan"])
        BY <3>3 DEF TurnStep
      <4> QED
        BY <3>1, <4>1 DEF Dialogue
    <3> QED
      BY <1>4, <3>2, <3>3
  <2> QED
    BY <1>4, <2>1, <2>2, TurnedDialog DEF CloseEnroll, TurnStep, callVars, worldVars, dataVars
<1>20. ASSUME NEW s \in Slot, PutCodesAway(s) PROVE Dialog'
  <2>1. \A t \in Slot : ~Enrolling(t) /\ ~Activating(t)
    BY <1>0, <1>20 DEF PutCodesAway, EntryIdle, EnrollSound, ActivateSound
  <2>2. ~dlg'.open
    BY <1>20 DEF PutCodesAway, SpaTyped, Dialogue
  <2>3. mfa' = mfa
    BY <1>20 DEF PutCodesAway, worldVars
  <2>4. \A t \in Slot : ~Enrolling(t)' /\ ~Activating(t)'
    BY <1>20, <2>1, RefreshAndWaitJob DEF Enrolling, Activating
  <2>5. ASSUME NEW t \in Slot, jobs'[t].form = "activateMfa", jobs'[t].request = "performed"
        PROVE  jobs'[t].arg \in mfa'.ours
    BY <1>0, <1>20, <2>3, <2>5, RefreshAndWaitJob DEF ActivateSound
  <2> QED
    BY <2>2, <2>4, <2>5, FreshDialog DEF CodesAreActive
<1>5. CASE OtherTab
  <2>1. mfa.ours \subseteq mfa'.ours
    <3>1. \/ mfa' = mfa \/ mfa' = MfaAfter("enrollMfa") \/ mfa' = MfaAfter("disableMfa")
          \/ mfa' = [mfa EXCEPT !.active = mfa.pending, !.pending = 0]
      BY <1>5 DEF OtherTab
    <3>2. mfa \in Enrolment
      BY DEF SpaTyped
    <3>3. [mfa EXCEPT !.active = mfa.pending, !.pending = 0].ours = mfa.ours
      BY <3>2 DEF Enrolment
    <3> QED
      BY <3>1, <3>2, <3>3, MfaTyped
  <2> QED
    BY <1>1, <1>5, <2>1 DEF OtherTab, callVars, uiVars, SameDialog
<1>6. ASSUME NEW s \in Slot, NEW f \in OnScreen, NEW c \in Company, Click(s, f, c) PROVE Dialog'
  <2>1. f \in Form \ {"enrollMfa", "activateMfa"}
    BY <1>6, CallArguments DEF Click, MayClick
  <2>2. busy \subseteq busy'
    BY <1>6 DEF Click, Marked
  <2> QED
    BY <1>6, <2>1, <2>2, CallDialog DEF Click, worldVars, dataVars, SameDialog
<1>7. ASSUME NEW s \in Slot, OpenEnroll(s) PROVE Dialog'
  BY <1>7, OpenEnrollDialog
<1>8. ASSUME NEW s \in Slot, SubmitCode(s) PROVE Dialog'
  BY <1>8, SubmitCodeDialog
<1>9. ASSUME NEW s \in Slot, SubmitDisable(s) PROVE Dialog'
  <2>1. /\ Call(s, "disableMfa", control["disableMfa"].atom, shownCompany, 0)
        /\ "disableMfa" \in Form \ {"enrollMfa", "activateMfa"} /\ busy \subseteq busy'
    BY <1>9, DialogForms DEF SubmitDisable
  <2> QED
    BY <1>9, <2>1, CallArguments, CallDialog DEF SubmitDisable, worldVars, uiVars, dataVars, SameDialog
<1>10. ASSUME NEW s \in Slot, Perform(s) \/ Refuse(s) PROVE Dialog'
  BY <1>0, <1>10, SettledDialog
<1>11. ASSUME NEW s \in Slot, Answer(s) PROVE Dialog'
  BY <1>0, <1>11, AnswerDialog
<1>12. ASSUME NEW s \in Slot, StartRefresh(s) PROVE Dialog'
  BY <1>0, <1>12, StartRefreshDialog
<1>13. ASSUME NEW s \in Slot, EndEnroll(s) PROVE Dialog'
  BY <1>0, <1>13, EndEnrollDialog
<1>14. ASSUME NEW s \in Slot, DeletionConfirmed(s) PROVE Dialog'
  <2>1. /\ jobs' = [jobs EXCEPT ![s] = [jobs[s] EXCEPT !.stage = "signingOut"]]
        /\ jobs[s].stage = "resolved" /\ jobs[s].form = "deleteAccount"
    BY <1>14 DEF DeletionConfirmed, Succeeded, Resolved, FormIn
  <2>2. \A t \in Slot : jobs'[t] = jobs[t] \/ (t = s /\ jobs'[t].form = "deleteAccount")
    BY <2>1 DEF SpaTyped, Job
  <2>3. ASSUME NEW t \in Slot PROVE QuietJob(t)
    BY <1>0, <1>14, <2>2 DEF DeletionConfirmed, QuietJob, Enrolling, Activating, ActivateSound
  <2> QED
    BY <1>14, <2>3, QuietDialog DEF DeletionConfirmed, worldVars, uiVars, dataVars, SameDialog
<1>15. ASSUME NEW s \in Slot, Continue(s),
              ~(StartRefresh(s) \/ EndEnroll(s) \/ DeletionConfirmed(s))
       PROVE Dialog'
  <2>1. /\ Done(s) /\ busy' \in {busy, Released(s)}
        /\ UNCHANGED <<atom, dlg, page, shown, mfa>>
    BY <1>15 DEF Continue, LeaveDeleted, EndRefresh, DeletionSignedOut, LeaveSignedOut, LeaveForProvider, EndSaved,
       EndVerification, EndFailed, Finish, dataVars, uiVars, worldVars
  <2> QED
    BY <1>0, <2>1, DoneDialog DEF SameDialog
<1>16. ASSUME NEW q \in Query, ListRead(q) PROVE Dialog'
  BY <1>1, <1>16 DEF ListRead, callVars, uiVars, worldVars, SameDialog
<1>17. ASSUME NEW q \in Query, ListFails(q) PROVE Dialog'
  <2>1. shown'[mfaStatus].value = shown[mfaStatus].value
    BY <1>17, FailEffect, QueryKinds
  <2> QED
    BY <1>1, <1>17, <2>1 DEF ListFails, callVars, uiVars, worldVars, SameDialog
<1>18. ASSUME NEW q \in Query, ListArrives(q) PROVE Dialog'
  BY <1>18, ArriveDialog
<1>19. CASE UNCHANGED spaVars
  BY <1>1, <1>19 DEF spaVars, callVars, dataVars, uiVars, worldVars, SameDialog
<1> QED
  BY <1>2, <1>3, <1>4, <1>5, <1>6, <1>7, <1>8, <1>9, <1>10, <1>11, <1>12, <1>13, <1>14, <1>15,
     <1>16, <1>17, <1>18, <1>19, <1>20
  DEF SpaNext, BrowserStep

-----------------------------------------------------------------------------
(***************************************************************************)
(* The notices.                                                            *)
(***************************************************************************)
LEMMA ServerGrows ==
    ASSUME SpaTyped, [SpaNext]_spaVars, NEW q \in Query
    PROVE  server'[q] \in Nat /\ server[q] <= server'[q]
<1>0. server[q] \in Nat /\ server[q] <= server[q]
  BY DEF SpaTyped
<1>1. CASE server' = server
  BY <1>0, <1>1
<1>2. CASE OtherTab
  BY <1>2, OtherTabServer
<1>3. ASSUME NEW s \in Slot, Perform(s) PROVE server'[q] \in Nat /\ server[q] <= server'[q]
  BY <1>3, PerformFacts
<1>4. \/ server' = server \/ OtherTab \/ \E s \in Slot : Perform(s)
  <2>1. ASSUME NEW s \in Slot, Continue(s) PROVE server' = server
    BY <2>1 DEF Continue, LeaveDeleted, StartRefresh, EndRefresh, DeletionConfirmed,
       DeletionSignedOut, LeaveSignedOut, LeaveForProvider, EndSaved, EndVerification, EndEnroll, EndFailed, dataVars
  <2> QED
    BY <2>1 DEF SpaNext, BrowserStep, Navigate, CloseTransfer, CloseEnroll, TurnStep, Click,
       OpenEnroll, PutCodesAway, SubmitCode, SubmitDisable, Refuse, Answer, ListRead, ListArrives, ListFails,
       dataVars, spaVars
<1> QED
  BY <1>1, <1>2, <1>3, <1>4

\* How the queries change.
LEMMA QueryStep ==
    ASSUME SpaTyped, [SpaNext]_spaVars
    PROVE  \/ UNCHANGED <<reply, shown>>
           \/ shown' = shown /\ \E queries : Invalidate(queries)
           \/ \E q \in Query : ListRead(q) \/ ListArrives(q) \/ ListFails(q)
<1>1. ASSUME NEW s \in Slot, Continue(s) PROVE UNCHANGED <<reply, shown>>
  BY <1>1 DEF Continue, LeaveDeleted, StartRefresh, EndRefresh, DeletionConfirmed,
     DeletionSignedOut, LeaveSignedOut, LeaveForProvider, EndSaved, EndVerification, EndEnroll, EndFailed, dataVars
<1>2. ASSUME NEW s \in Slot, Answer(s)
      PROVE  shown' = shown /\ (reply' = reply \/ \E queries : Invalidate(queries))
  BY <1>2 DEF Answer
<1>3. ASSUME NEW s \in Slot, PutCodesAway(s)
      PROVE  shown' = shown /\ \E queries : Invalidate(queries)
  BY <1>3, RefreshAndWaitJob DEF PutCodesAway
<1>4. CASE \/ \E to \in Pages : Navigate(to)
           \/ CloseTransfer \/ CloseEnroll \/ TurnStep \/ OtherTab \/ UNCHANGED spaVars
  BY <1>4 DEF Navigate, CloseTransfer, CloseEnroll, TurnStep, OtherTab, dataVars, spaVars
<1>5. ASSUME NEW s \in Slot,
             \/ \E f \in OnScreen, c \in Company : Click(s, f, c)
             \/ OpenEnroll(s) \/ SubmitCode(s) \/ SubmitDisable(s) \/ Perform(s) \/ Refuse(s)
      PROVE  UNCHANGED <<reply, shown>>
  BY <1>5 DEF Click, OpenEnroll, SubmitCode, SubmitDisable, Perform, Refuse, dataVars
<1> QED
  BY <1>1, <1>2, <1>3, <1>4, <1>5 DEF SpaNext, BrowserStep

\* What was seen stays seen: a query is asked anew, read at the server's version,
\* or what was read arrives.
LEMMA SeenStep ==
    ASSUME SpaTyped, [SpaNext]_spaVars, NEW q \in Query, NEW v \in Nat, v <= server[q], Seen(q, v)
    PROVE  Seen(q, v)'
<1>0. /\ server[q] \in Nat /\ shown[q].version \in Nat /\ reply[q] \in Fetch
  BY DEF SpaTyped
<1>1. CASE UNCHANGED <<reply, shown>>
  BY <1>1 DEF Seen
<1>2. CASE shown' = shown /\ \E queries : Invalidate(queries)
  <2>1. reply'[q] = reply[q] \/ reply'[q] = [phase |-> "asked"]
    BY <1>2 DEF Invalidate
  <2> QED
    BY <1>2, <2>1 DEF Seen
<1>3. ASSUME NEW p \in Query, ListRead(p) PROVE Seen(q, v)'
  <2>1. shown' = shown
    BY <1>3 DEF ListRead
  <2>2. reply'[q] = reply[q] \/ (reply'[q].phase = "read" /\ reply'[q].version = server[q])
    BY <1>3 DEF ListRead, Read, SpaTyped
  <2> QED
    BY <1>0, <2>1, <2>2 DEF Seen
<1>4. ASSUME NEW p \in Query, ListArrives(p) PROVE Seen(q, v)'
  <2>1. CASE p = q
    BY <1>4, <2>1, ArriveEffect DEF Seen
  <2>2. CASE p # q
    BY <1>4, <2>2, ArriveEffect DEF Seen
  <2> QED
    BY <2>1, <2>2
<1>5. ASSUME NEW p \in Query, ListFails(p) PROVE Seen(q, v)'
  <2>1. CASE p = q
    BY <1>5, <2>1, FailEffect DEF Seen
  <2>2. CASE p # q
    BY <1>5, <2>2, FailEffect DEF Seen
  <2> QED
    BY <2>1, <2>2
<1> QED
  BY <1>1, <1>2, <1>3, <1>4, <1>5, QueryStep

\* A job that goes on waiting for the query it waited for.
DueKept(t) ==
    \/ jobs'[t].stage = "idle"
    \/ /\ jobs[t].stage # "idle"
       /\ jobs'[t].form = jobs[t].form /\ jobs'[t].co = jobs[t].co
       /\ jobs'[t].version = jobs[t].version
       /\ jobs'[t].stage = "refreshing" =>
            \/ jobs[t].stage = "refreshing" /\ jobs'[t].exit = jobs[t].exit
            \/ AwaitsOf(jobs[t]) # "none" /\ jobs'[t].exit = "success"
       /\ (/\ jobs'[t].stage # "mutating" /\ jobs'[t].exit = "success" /\ ~jobs'[t].interrupted
           /\ AwaitsOf(jobs[t]) # "none")
            => \/ /\ jobs[t].stage # "mutating" /\ jobs[t].exit = "success"
                  /\ ~jobs[t].interrupted
               \/ reply'[AwaitedQuery(t)].phase = "asked"

LEMMA DueStep ==
    ASSUME SpaTyped, [SpaNext]_spaVars, NEW t \in Slot, Due(t), DueKept(t)
    PROVE  Due(t)'
<1>1. CASE jobs'[t].stage = "idle"
  BY <1>1 DEF Due
<1>2. CASE jobs'[t].stage # "idle"
  <2>1. /\ jobs'[t].form = jobs[t].form /\ jobs'[t].co = jobs[t].co
        /\ jobs'[t].version = jobs[t].version /\ jobs[t].stage # "idle"
    BY <1>2 DEF DueKept
  <2>2. AwaitsOf(jobs[t])' = AwaitsOf(jobs[t]) /\ AwaitedQuery(t)' = AwaitedQuery(t)
    BY <2>1 DEF AwaitsOf, AwaitedQuery
  <2>3. jobs'[t].stage = "refreshing" => AwaitsOf(jobs[t]) # "none" /\ jobs'[t].exit = "success"
    BY <1>2 DEF DueKept, Due
  <2>4. ASSUME AwaitsOf(jobs[t]) # "none"
        PROVE  /\ AwaitedQuery(t) \in Query
               /\ jobs'[t].version <= server'[AwaitedQuery(t)]
               /\ (/\ jobs'[t].stage # "mutating"
                   /\ jobs'[t].exit = "success" /\ ~jobs'[t].interrupted)
                     => Seen(AwaitedQuery(t), jobs[t].version)'
    <3>1. PICK q \in Query : q = AwaitedQuery(t)
      BY <2>1, <2>4 DEF Due
    <3>2. PICK v \in Nat : v = jobs[t].version
      BY DEF SpaTyped, Job
    <3>3. v <= server[q] /\ server[q] \in Nat /\ server'[q] \in Nat /\ server[q] <= server'[q]
      BY <2>1, <2>4, <3>1, <3>2, ServerGrows DEF Due, SpaTyped
    <3>4. ASSUME jobs'[t].stage # "mutating", jobs'[t].exit = "success", ~jobs'[t].interrupted
          PROVE  Seen(q, v)'
      <4>1. CASE jobs[t].stage # "mutating" /\ jobs[t].exit = "success" /\ ~jobs[t].interrupted
        BY <2>1, <2>4, <3>1, <3>2, <3>3, <4>1, SeenStep DEF Due
      <4>2. CASE reply'[q].phase = "asked"
        BY <4>2 DEF Seen
      <4> QED
        BY <1>2, <2>4, <3>1, <3>4, <4>1, <4>2 DEF DueKept
    <3> QED
      BY <2>1, <2>2, <3>1, <3>2, <3>3, <3>4 DEF Seen
  <2> QED
    BY <2>1, <2>2, <2>3, <2>4 DEF Due, Seen
<1> QED
  BY <1>1, <1>2

LEMMA SameDue ==
    ASSUME NEW t \in Slot, Due(t), jobs'[t] = jobs[t]
    PROVE  DueKept(t)
BY DEF DueKept, Due

\* The queries the table names.
LEMMA AwaitedQueries ==
    ASSUME NEW f \in Form, NEW c \in Company, control[f].awaits # "none"
    PROVE  /\ QueryOf(control[f].awaits, c) \in Query
           /\ QueryOf(control[f].awaits, c) \in {QueryOf(n, c) : n \in control[f].keys}
<1>1. control[f].awaits \in control[f].keys /\ control[f].awaits \in QueryName
  BY ControlRows
<1> QED
  BY <1>1 DEF QueryOf, Query, QueryName

LEMMA CallDue ==
    ASSUME SpaTyped, [SpaNext]_spaVars, Notices, NEW s \in Slot, NEW f \in Form, NEW a,
           NEW c \in Company, NEW arg \in Nat, Call(s, f, a, c, arg)
    PROVE  Notices'
<1>1. ASSUME NEW t \in Slot PROVE Due(t)'
  <2>1. CASE t # s
    <3>1. Due(t)
      BY DEF Notices
    <3>2. DueKept(t)
      BY <2>1, <3>1, CallEffect DEF DueKept, Due
    <3> QED
      BY <3>1, <3>2, DueStep
  <2>2. CASE t = s
    <3>1. /\ jobs'[t].form = f /\ jobs'[t].co = c /\ jobs'[t].stage = "mutating"
          /\ jobs'[t].version = 0
      BY <2>2, CallEffect
    <3>2. ASSUME control[f].awaits # "none"
          PROVE  /\ AwaitedQuery(t)' \in Query
                 /\ jobs'[t].version <= server'[AwaitedQuery(t)']
      <4>1. PICK q \in Query : q = QueryOf(control[f].awaits, c)
        BY <3>2, AwaitedQueries
      <4>2. server'[q] \in Nat
        BY ServerGrows
      <4> QED
        BY <3>1, <4>1, <4>2 DEF AwaitedQuery
    <3> QED
      BY <3>1, <3>2 DEF Due, AwaitsOf
  <2> QED
    BY <2>1, <2>2
<1> QED
  BY <1>1 DEF Notices

LEMMA AnswerDue ==
    ASSUME SpaTyped, JobsInv, [SpaNext]_spaVars, Notices, NEW s \in Slot, Answer(s)
    PROVE  Notices'
<1>1. PICK exit \in Exits(s) :
        /\ Resolve(s, exit)
        /\ exit = "success" => Invalidate({QueryOf(n, jobs[s].co) : n \in control[jobs[s].form].keys})
  BY DEF Answer
<1>2. RunsNow(s)
  BY DEF Answer
<1>3. ASSUME NEW t \in Slot PROVE DueKept(t)
  <2>1. Due(t)
    BY DEF Notices
  <2>2. CASE t \notin Waiters(s)
    <3>1. jobs'[t] = jobs[t]
      BY <1>1, <2>2 DEF Resolve
    <3> QED
      BY <2>1, <3>1, SameDue
  <2>3. CASE t \in Waiters(s)
    <3>1. /\ jobs'[t].stage = "resolved" /\ jobs'[t].exit = exit
          /\ jobs'[t].form = jobs[t].form /\ jobs'[t].co = jobs[t].co
          /\ jobs'[t].version = jobs[t].version /\ jobs'[t].interrupted = jobs[t].interrupted
      BY <1>1, <1>2, <2>3, ResolvedJob
    <3>2. jobs[t].stage = "mutating" /\ (t # s => jobs[t].interrupted) /\ jobs[t].form \in Form
      BY <1>2, <2>3, WaitersOf
    <3>3. ASSUME exit = "success", ~jobs[t].interrupted, AwaitsOf(jobs[t]) # "none"
          PROVE  reply'[AwaitedQuery(t)].phase = "asked"
      <4>1. t = s
        BY <3>2, <3>3
      <4>2. jobs[s].co \in Company
        BY <3>2, <4>1, DialogForms DEF JobsInv, Jobs, JobSound
      <4>3. /\ AwaitedQuery(t) \in Query
            /\ AwaitedQuery(t) \in {QueryOf(n, jobs[s].co) : n \in control[jobs[s].form].keys}
        BY <3>2, <3>3, <4>1, <4>2, AwaitedQueries DEF AwaitedQuery, AwaitsOf
      <4> QED
        BY <1>1, <3>3, <4>3 DEF Invalidate
    <3> QED
      BY <3>1, <3>2, <3>3 DEF DueKept
  <2> QED
    BY <2>2, <2>3
<1> QED
  BY <1>3, DueStep DEF Notices

LEMMA PerformDue ==
    ASSUME SpaTyped, JobsInv, [SpaNext]_spaVars, Notices, NEW s \in Slot, Perform(s)
    PROVE  Notices'
<1> DEFINE q == QueryOf(control[jobs[s].form].awaits, jobs[s].co)
<1>1. PICK d \in BOOLEAN, arg \in Nat : Performed(s, q, d, arg)
  BY PerformFacts
<1>2. \A p \in Query : server'[p] \in Nat
  BY PerformFacts
<1>3. jobs[s].request = "flying" /\ JobSound(s)
  BY DEF Perform, JobsInv, Jobs
<1>4. q = AwaitedQuery(s)
  BY DEF AwaitedQuery
<1> HIDE DEF q
<1>5. ASSUME NEW t \in Slot PROVE Due(t)'
  <2>1. Due(t)
    BY DEF Notices
  <2>2. CASE t # s
    <3>1. jobs'[t] = jobs[t]
      BY <1>1, <1>2, <2>2, PerformedEffect
    <3> QED
      BY <2>1, <3>1, SameDue, DueStep
  <2>3. CASE t = s /\ jobs'[s] = Free
    BY <2>3 DEF Due, Free
  <2>4. CASE t = s /\ jobs'[s] # Free
    <3>1. /\ jobs'[s].form = jobs[s].form /\ jobs'[s].co = jobs[s].co
          /\ jobs'[s].stage = jobs[s].stage /\ jobs'[s].exit = jobs[s].exit
          /\ jobs'[s].interrupted = jobs[s].interrupted
          /\ jobs'[s].version = IF q \in Query THEN server'[q] ELSE 0
      BY <1>1, <1>2, <2>4, PerformedEffect
    <3>2. ~(jobs[s].exit = "success" /\ ~jobs[s].interrupted)
      BY <1>3 DEF JobSound
    <3>3. AwaitsOf(jobs[s])' = AwaitsOf(jobs[s]) /\ AwaitedQuery(s)' = q
      BY <1>4, <3>1 DEF AwaitsOf, AwaitedQuery
    <3>4. ASSUME jobs[s].stage # "idle", AwaitsOf(jobs[s]) # "none"
          PROVE  q \in Query /\ jobs'[s].version <= server'[q]
      BY <1>2, <1>4, <2>1, <2>4, <3>1, <3>4 DEF Due
    <3> QED
      BY <2>1, <2>4, <3>1, <3>2, <3>3, <3>4 DEF Due
  <2> QED
    BY <2>2, <2>3, <2>4
<1> QED
  BY <1>5 DEF Notices

LEMMA UnmountDue ==
    ASSUME SpaTyped, Notices, NEW js \in [Slot -> Job], NEW cells, Unmount(js, cells), NEW t \in Slot,
           \/ js[t] = jobs[t]
           \/ /\ jobs[t].stage = "resolved" /\ jobs[t].exit = "success"
              /\ AwaitsOf(jobs[t]) # "none"
              /\ js[t] = [jobs[t] EXCEPT !.stage = "refreshing"]
    PROVE  DueKept(t)
<1>1. jobs[t] \in Job /\ Due(t)
  BY DEF SpaTyped, Notices
<1>2. /\ js[t].form = jobs[t].form /\ js[t].co = jobs[t].co /\ js[t].version = jobs[t].version
      /\ js[t].exit = jobs[t].exit /\ js[t].interrupted = jobs[t].interrupted
      /\ \/ js[t].stage = jobs[t].stage
         \/ /\ jobs[t].stage = "resolved" /\ jobs[t].exit = "success"
            /\ AwaitsOf(jobs[t]) # "none" /\ js[t].stage = "refreshing"
  BY <1>1 DEF Job
<1>3. /\ jobs'[t].form = js[t].form /\ jobs'[t].stage = js[t].stage
      /\ jobs'[t].exit = js[t].exit /\ jobs'[t].version = js[t].version
      /\ jobs'[t].co = js[t].co /\ jobs'[t].interrupted = js[t].interrupted
  BY DetachedEffect
<1> QED
  BY <1>1, <1>2, <1>3 DEF DueKept, Due

LEMMA DoneDue ==
    ASSUME JobsInv, Notices, NEW s \in Slot, Done(s), NEW t \in Slot
    PROVE  DueKept(t)
<1>1. CASE t = s
  BY <1>1, DoneEffect DEF DueKept, Free
<1>2. CASE t # s
  BY <1>2, DoneEffect, SameDue DEF Notices
<1> QED
  BY <1>1, <1>2

LEMMA RefuseDue ==
    ASSUME JobsInv, Notices, NEW s \in Slot, Refuse(s), NEW t \in Slot
    PROVE  DueKept(t)
<1>1. PICK why \in Refusals(jobs[s].form, jobs[s].arg) : Refused(s, why)
  BY DEF Refuse
<1>2. why \in Why
  BY <1>1 DEF Refusals, Why
<1>3. CASE t # s
  BY <1>1, <1>2, <1>3, RefusedEffect, SameDue DEF Notices
<1>4. CASE t = s /\ jobs'[s] = Free
  BY <1>4 DEF DueKept, Free
<1>5. CASE t = s /\ jobs'[s] # Free
  <2>1. Due(t)
    BY DEF Notices
  <2> QED
    BY <1>1, <1>2, <1>5, <2>1, RefusedEffect DEF DueKept, Due
<1> QED
  BY <1>3, <1>4, <1>5

LEMMA ContinueDue ==
    ASSUME SpaTyped, JobsInv, Notices, NEW s \in Slot, Continue(s), NEW t \in Slot
    PROVE  DueKept(t)
<1>1. CASE StartRefresh(s)
  <2> DEFINE js == [jobs EXCEPT ![s].stage = "refreshing"]
  <2>1. PICK cells : Unmount(js, cells)
    BY <1>1 DEF StartRefresh
  <2>2. js = [jobs EXCEPT ![s] = [jobs[s] EXCEPT !.stage = "refreshing"]]
    OBVIOUS
  <2>3. /\ jobs[s].stage = "resolved" /\ jobs[s].exit = "success" /\ AwaitsOf(jobs[s]) # "none"
    BY <1>1 DEF StartRefresh, Succeeded, Resolved, AwaitsOf
  <2>4. [jobs[s] EXCEPT !.stage = "refreshing"] \in Job
    BY DEF SpaTyped, Job, Stage
  <2>5. js \in [Slot -> Job]
    BY <2>2, <2>4 DEF SpaTyped
  <2>6. js[t] = jobs[t] \/ (t = s /\ js[t] = [jobs[t] EXCEPT !.stage = "refreshing"])
    BY <2>2 DEF SpaTyped
  <2> HIDE DEF js
  <2> QED
    BY <2>1, <2>3, <2>5, <2>6, UnmountDue
<1>2. CASE DeletionConfirmed(s)
  <2>1. /\ jobs' = [jobs EXCEPT ![s] = [jobs[s] EXCEPT !.stage = "signingOut"]]
        /\ jobs[s].stage = "resolved"
    BY <1>2 DEF DeletionConfirmed, Succeeded, Resolved
  <2>2. Due(t) /\ jobs[t] \in Job
    BY DEF Notices, SpaTyped
  <2>3. CASE t = s
    <3>1. jobs'[t] = [jobs[t] EXCEPT !.stage = "signingOut"]
      BY <2>1, <2>3 DEF SpaTyped
    <3>2. /\ jobs'[t].form = jobs[t].form /\ jobs'[t].co = jobs[t].co
          /\ jobs'[t].version = jobs[t].version /\ jobs'[t].exit = jobs[t].exit
          /\ jobs'[t].interrupted = jobs[t].interrupted /\ jobs'[t].stage = "signingOut"
      BY <2>2, <3>1 DEF Job
    <3> QED
      BY <2>1, <2>3, <3>2 DEF DueKept
  <2>4. CASE t # s
    <3>1. jobs'[t] = jobs[t]
      BY <2>1, <2>4 DEF SpaTyped
    <3> QED
      BY <2>2, <3>1, SameDue
  <2> QED
    BY <2>3, <2>4
<1>3. CASE ~StartRefresh(s) /\ ~DeletionConfirmed(s)
  <2>1. Done(s)
    BY <1>3 DEF Continue, LeaveDeleted, EndRefresh, DeletionSignedOut, LeaveSignedOut, LeaveForProvider, EndSaved,
       EndVerification, EndEnroll, EndFailed, Finish
  <2> QED
    BY <2>1, DoneDue
<1> QED
  BY <1>1, <1>2, <1>3

\* Putting the codes away asks for the status anew.
LEMMA PutCodesAwayDue ==
    ASSUME SpaTyped, Notices, [SpaNext]_spaVars, NEW s \in Slot, PutCodesAway(s)
    PROVE  Notices'
<1>1. ASSUME NEW t \in Slot PROVE Due(t)'
  <2>1. CASE t = s
    <3>1. /\ AwaitsOf(jobs[s])' = "mfaStatus" /\ AwaitedQuery(s)' = mfaStatus
          /\ mfaStatus \in Query
      BY RefreshAndWaitJob, DialogForms, QueryKinds DEF AwaitsOf
    <3>2. server' = server /\ server[mfaStatus] \in Nat
      BY <3>1 DEF PutCodesAway, SpaTyped
    <3>3. reply'[mfaStatus].phase = "asked"
      BY <3>1, RefreshAndWaitJob DEF Invalidate
    <3>4. /\ jobs'[s].stage = "refreshing" /\ jobs'[s].exit = "success"
          /\ jobs'[s].version = server[mfaStatus]
      BY RefreshAndWaitJob
    <3>5. Seen(AwaitedQuery(s), jobs[s].version)'
      BY <3>1, <3>3 DEF Seen
    <3> QED
      BY <2>1, <3>1, <3>2, <3>4, <3>5 DEF Due
  <2>2. CASE t # s
    <3>1. Due(t) /\ jobs'[t] = jobs[t]
      BY <2>2, RefreshAndWaitJob DEF Notices
    <3> QED
      BY <3>1, SameDue, DueStep
  <2> QED
    BY <2>1, <2>2
<1> QED
  BY <1>1 DEF Notices

LEMMA NoticesStep ==
    ASSUME SpaTyped, JobsInv, Notices, [SpaNext]_spaVars
    PROVE  Notices'
<1>0. (\A t \in Slot : DueKept(t)) => Notices'
  BY DueStep DEF Notices
<1>1. UNCHANGED jobs => Notices'
  <2>1. UNCHANGED jobs => \A t \in Slot : DueKept(t)
    BY SameDue DEF Notices
  <2> QED
    BY <1>0, <2>1
<1>2. ASSUME NEW cells, Unmount(jobs, cells) PROVE Notices'
  <2>1. \A t \in Slot : DueKept(t)
    BY <1>2, UnmountDue DEF SpaTyped
  <2> QED
    BY <1>0, <2>1
<1>3. ASSUME NEW to \in Pages, Navigate(to) PROVE Notices'
  BY <1>2, <1>3 DEF Navigate
<1>4. CASE CloseTransfer
  BY <1>2, <1>4 DEF CloseTransfer
<1>5. CASE CloseEnroll \/ TurnStep \/ OtherTab \/ UNCHANGED spaVars
  BY <1>1, <1>5 DEF CloseEnroll, TurnStep, OtherTab, callVars, spaVars
<1>6. ASSUME NEW s \in Slot, NEW f \in OnScreen, NEW c \in Company, Click(s, f, c) PROVE Notices'
  BY <1>6, CallArguments, CallDue DEF Click
<1>7. ASSUME NEW s \in Slot, OpenEnroll(s) PROVE Notices'
  <2>1. \/ UNCHANGED jobs
        \/ Call(s, "enrollMfa", "enroll", shownCompany, 0)
    BY <1>7 DEF OpenEnroll, callVars
  <2> QED
    BY <1>1, <2>1, CallArguments, CallDue, DialogForms
<1>8. ASSUME NEW s \in Slot, SubmitCode(s) PROVE Notices'
  BY <1>8, CallArguments, CallDue, DialogForms DEF SubmitCode
<1>9. ASSUME NEW s \in Slot, SubmitDisable(s) PROVE Notices'
  BY <1>9, CallArguments, CallDue, DialogForms DEF SubmitDisable
<1>10. ASSUME NEW s \in Slot, Perform(s) PROVE Notices'
  BY <1>10, PerformDue
<1>11. ASSUME NEW s \in Slot, Refuse(s) PROVE Notices'
  BY <1>0, <1>11, RefuseDue
<1>12. ASSUME NEW s \in Slot, Answer(s) PROVE Notices'
  BY <1>12, AnswerDue
<1>13. ASSUME NEW s \in Slot, Continue(s) PROVE Notices'
  BY <1>0, <1>13, ContinueDue
<1>14. ASSUME NEW q \in Query, ListRead(q) \/ ListFails(q) PROVE Notices'
  BY <1>1, <1>14 DEF ListRead, ListFails, callVars
<1>15. ASSUME NEW q \in Query, ListArrives(q) PROVE Notices'
  BY <1>2, <1>15 DEF ListArrives
<1>16. ASSUME NEW s \in Slot, PutCodesAway(s) PROVE Notices'
  BY <1>16, PutCodesAwayDue
<1> QED
  BY <1>3, <1>4, <1>5, <1>6, <1>7, <1>8, <1>9, <1>10, <1>11, <1>12, <1>13, <1>14, <1>15, <1>16
  DEF SpaNext, BrowserStep

-----------------------------------------------------------------------------
(***************************************************************************)
(* The invariant.                                                          *)
(***************************************************************************)
LEMMA SpaInvInit == SpaInit => SpaInv
<1> SUFFICES ASSUME SpaInit PROVE SpaInv
  OBVIOUS
<1>1. /\ \A s \in Slot : jobs[s] = Free
      /\ jobs \in [Slot -> Job] /\ atom \in [Atom -> Slot \cup {0}]
  BY FreeJob DEF SpaInit
<1>2. errand \in Errands /\ current \in Company
  BY CompanyAssumption DEF SpaInit
<1>3. mfa \in Enrolment
  <2>1. PICK e \in 0..1 : mfa = [pending |-> 0, active |-> e, minted |-> 1, ours |-> {}]
    BY DEF SpaInit
  <2>2. e \in Nat
    OBVIOUS
  <2> QED
    BY <2>1, <2>2 DEF Enrolment
<1>4. dlg \in Dialogue /\ ~dlg.open
  BY DEF SpaInit, Dialogue, ClosedDialog
<1>5. server \in [Query -> Nat] /\ reply \in [Query -> Fetch]
      /\ \A q \in Query : reply[q].phase = "idle"
  BY DEF SpaInit, Fetch
<1>6. /\ \A q \in Query : ValueOf(q) \in Value
      /\ ValueOf(companyState) \in Company
      /\ companyState \in Query
  BY <1>2, QueryKinds DEF ValueOf, Value
<1>7. shown \in [Query -> [version : Nat, value : Value, failed : BOOLEAN]]
      /\ \A q \in Query : shown[q].value = ValueOf(q)
  BY <1>6 DEF SpaInit
<1>8. SpaTyped
  BY <1>1, <1>2, <1>3, <1>4, <1>5, <1>6, <1>7 DEF SpaTyped
<1>9. Jobs
  BY <1>1 DEF SpaInit, Jobs, AtomSound, JobSound, Free, SwitchForms
<1>10. Dialog
  BY <1>1, <1>4 DEF Dialog, EnrollSound, ActivateSound, Enrolling, Activating, CodesAreActive, Free
<1>11. Notices
  BY <1>1 DEF Notices, Due, Free
<1> QED
  BY <1>8, <1>9, <1>10, <1>11 DEF SpaInv

LEMMA SpaInvStep == SpaInv /\ [SpaNext]_spaVars => SpaInv'
<1> SUFFICES ASSUME SpaInv, [SpaNext]_spaVars PROVE SpaInv'
  OBVIOUS
<1>1. SpaTyped /\ Jobs /\ Dialog /\ Notices /\ JobsInv
  BY DEF SpaInv, JobsInv, JobsTyped, SpaTyped
<1>2. SpaTyped' /\ Jobs'
  BY <1>1, TypedStep
<1>3. Dialog'
  BY <1>1, DialogStep
<1>4. Notices'
  BY <1>1, NoticesStep
<1> QED
  BY <1>2, <1>3, <1>4 DEF SpaInv

\* The invariant of the account pages: which call an atom runs, what the handlers
\* of the enrolment dialog may still do to it, and what a handler that waits for a
\* list knows of the fetch it waits for.
THEOREM SpaInvariant == SpaSpec => []SpaInv
<1> QED
  BY SpaInvInit, SpaInvStep, PTL DEF SpaSpec

\* useSwitchCompany: no call of switchCompany is ever interrupted by another, since
\* both places that switch go by the pending state of the atom they share.
THEOREM SwitchesRunThrough == SpaSpec => []SwitchUninterrupted
<1>1. SpaInv => SwitchUninterrupted
  BY DEF SpaInv, Jobs, JobSound, SwitchForms, SwitchUninterrupted
<1> QED
  BY <1>1, SpaInvariant, PTL

\* useEnrollMfa: the recovery codes on screen are those of an enrolment this tab's
\* activation made active.
THEOREM CodesBelongToTheTab == SpaSpec => []CodesAreActive
<1>1. SpaInv => CodesAreActive
  BY DEF SpaInv, Dialog
<1> QED
  BY <1>1, SpaInvariant, PTL

-----------------------------------------------------------------------------
(***************************************************************************)
(* The properties of steps.                                                *)
(***************************************************************************)
\* A job that a step does not take on: what it is doing in the next state it was
\* doing before, unless its handler went on from there.
StageKept(t) ==
    /\ jobs[t].stage = "refreshing" /\ jobs'[t].stage = "idle" => EndRefresh(t)
    /\ jobs'[t].stage = "mutating" =>
         \/ jobs[t].stage = "mutating" /\ jobs'[t].form = jobs[t].form
         \/ jobs'[t].form # "disableMfa" \/ SubmitDisable(t)

LEMMA SettledStage ==
    ASSUME SpaTyped, NEW s \in Slot, Perform(s) \/ Refuse(s), NEW t \in Slot
    PROVE  StageKept(t)
<1>0. JobsTyped
  BY DEF SpaTyped, JobsTyped
<1>1. PICK k \in Job : /\ jobs' = [jobs EXCEPT ![s] = Settled(k)]
                       /\ k.stage = jobs[s].stage /\ k.form = jobs[s].form
  <2>1. CASE Perform(s)
    <3> DEFINE q == QueryOf(control[jobs[s].form].awaits, jobs[s].co)
               v == IF q \in Query THEN server'[q] ELSE 0
    <3>1. PICK d \in BOOLEAN, arg \in Nat : Performed(s, q, d, arg)
      BY <2>1, PerformFacts
    <3>2. v \in Nat
      BY <2>1, PerformFacts
    <3>3. jobs' = [jobs EXCEPT ![s] = Settled([jobs[s] EXCEPT !.request = "performed", !.version = v,
                                                              !.deleted = d, !.arg = arg])]
      BY <3>1 DEF Performed
    <3> HIDE DEF v
    <3> DEFINE k == [jobs[s] EXCEPT !.request = "performed", !.version = v, !.deleted = d, !.arg = arg]
    <3>4. k \in Job /\ k.stage = jobs[s].stage /\ k.form = jobs[s].form
      BY <3>2, <1>0 DEF JobsTyped, Job
    <3> QED
      BY <3>3, <3>4
  <2>2. CASE Refuse(s)
    <3>1. PICK why \in Refusals(jobs[s].form, jobs[s].arg) : Refused(s, why)
      BY <2>2 DEF Refuse
    <3>2. why \in Why
      BY <3>1 DEF Refusals, Why
    <3> DEFINE k == [jobs[s] EXCEPT !.request = why]
    <3>3. k \in Job /\ k.stage = jobs[s].stage /\ k.form = jobs[s].form
      BY <3>2, <1>0 DEF JobsTyped, Job
    <3>4. jobs' = [jobs EXCEPT ![s] = Settled(k)]
      BY <3>1 DEF Refused
    <3> QED
      BY <3>3, <3>4
  <2> QED
    BY <2>1, <2>2
<1>2. Settled(k) = k \/ (Settled(k) = Free /\ k.stage = "idle")
  BY DEF Settled
<1>3. jobs'[t] = IF t = s THEN Settled(k) ELSE jobs[t]
  BY <1>0, <1>1 DEF JobsTyped
<1>4. Free.stage = "idle"
  BY DEF Free
<1> QED
  BY <1>1, <1>2, <1>3, <1>4 DEF StageKept

LEMMA CallStage ==
    ASSUME SpaTyped, NEW s \in Slot, NEW f \in Form, NEW a \in Atom \cup {"none"}, NEW c \in Company,
           NEW arg \in Nat, Call(s, f, a, c, arg), f = "disableMfa" => SubmitDisable(s), NEW t \in Slot
    PROVE  StageKept(t)
<1>1. CASE t = s
  <2>1. jobs[t].stage = "idle" /\ jobs'[t].form = f
    BY <1>1, CallEffect DEF Free
  <2> QED
    BY <1>1, <2>1 DEF StageKept
<1>2. CASE t # s
  BY <1>2, CallEffect DEF StageKept
<1> QED
  BY <1>1, <1>2

LEMMA ContinueStage ==
    ASSUME SpaTyped, NEW s \in Slot, Continue(s), NEW t \in Slot
    PROVE  StageKept(t)
<1>0. JobsTyped /\ jobs[t] \in Job
  BY DEF SpaTyped, JobsTyped
<1>1. CASE StartRefresh(s)
  <2> DEFINE js == [jobs EXCEPT ![s].stage = "refreshing"]
  <2>1. PICK cells : Unmount(js, cells)
    BY <1>1 DEF StartRefresh
  <2>2. js = [jobs EXCEPT ![s] = [jobs[s] EXCEPT !.stage = "refreshing"]]
    OBVIOUS
  <2>3. [jobs[s] EXCEPT !.stage = "refreshing"] \in Job
    BY DEF SpaTyped, Job, Stage
  <2>4. js \in [Slot -> Job]
    BY <2>2, <2>3 DEF SpaTyped
  <2>5. js[t] = IF t = s THEN [jobs[t] EXCEPT !.stage = "refreshing"] ELSE jobs[t]
    BY <2>2 DEF SpaTyped
  <2>6. /\ js[t].form = jobs[t].form
        /\ js[t].stage = IF t = s THEN "refreshing" ELSE jobs[t].stage
    BY <1>0, <2>5 DEF Job
  <2> HIDE DEF js
  <2>7. jobs'[t].form = js[t].form /\ jobs'[t].stage = js[t].stage
    BY <2>1, <2>4, DetachedEffect
  <2> QED
    BY <2>6, <2>7 DEF StageKept
<1>2. CASE DeletionConfirmed(s)
  <2>1. jobs' = [jobs EXCEPT ![s] = [jobs[s] EXCEPT !.stage = "signingOut"]]
    BY <1>2 DEF DeletionConfirmed
  <2>2. jobs'[t] = IF t = s THEN [jobs[t] EXCEPT !.stage = "signingOut"] ELSE jobs[t]
    BY <2>1 DEF SpaTyped
  <2>3. [jobs[t] EXCEPT !.stage = "signingOut"].stage = "signingOut"
    BY <1>0 DEF Job
  <2> QED
    BY <2>2, <2>3 DEF StageKept
<1>3. CASE ~StartRefresh(s) /\ ~DeletionConfirmed(s)
  <2>1. Done(s)
    BY <1>3 DEF Continue, LeaveDeleted, EndRefresh, DeletionSignedOut, LeaveSignedOut, LeaveForProvider, EndSaved,
       EndVerification, EndEnroll, EndFailed, Finish
  <2>2. jobs[s].stage = "refreshing" => EndRefresh(s)
    BY <1>3 DEF Continue, LeaveDeleted, DeletionSignedOut, LeaveSignedOut, LeaveForProvider, EndSaved,
       EndVerification, EndEnroll, EndFailed, Succeeded, Failed, Resolved
  <2>3. Free.stage = "idle"
    BY DEF Free
  <2>4. /\ t # s => jobs'[t] = jobs[t]
        /\ t = s => jobs'[t].stage = "idle"
    <3>1. [jobs[s] EXCEPT !.stage = "idle", !.attached = FALSE].stage = "idle"
      BY DEF SpaTyped, Job
    <3>2. /\ t # s => jobs'[t] = jobs[t]
          /\ jobs'[s] = Settled([jobs[s] EXCEPT !.stage = "idle", !.attached = FALSE])
      BY <2>1 DEF Done, SpaTyped
    <3> QED
      BY <2>3, <3>1, <3>2 DEF Settled
  <2> QED
    BY <2>2, <2>4 DEF StageKept
<1> QED
  BY <1>1, <1>2, <1>3

LEMMA StageStep ==
    ASSUME SpaTyped, JobsInv, [SpaNext]_spaVars, NEW t \in Slot
    PROVE  StageKept(t)
<1>1. UNCHANGED jobs => StageKept(t)
  BY DEF StageKept
<1>2. ASSUME NEW cells, Unmount(jobs, cells) PROVE StageKept(t)
  <2>1. jobs'[t].form = jobs[t].form /\ jobs'[t].stage = jobs[t].stage
    BY <1>2, DetachedEffect DEF SpaTyped
  <2> QED
    BY <2>1 DEF StageKept
<1>3. CASE \E to \in Pages : Navigate(to)
  BY <1>2, <1>3 DEF Navigate
<1>4. CASE CloseTransfer
  BY <1>2, <1>4 DEF CloseTransfer
<1>5. CASE CloseEnroll \/ TurnStep \/ OtherTab \/ UNCHANGED spaVars
  BY <1>1, <1>5 DEF CloseEnroll, TurnStep, OtherTab, callVars, spaVars
<1>6. ASSUME NEW s \in Slot, NEW f \in OnScreen, NEW c \in Company, Click(s, f, c)
      PROVE  StageKept(t)
  <2>1. f # "disableMfa"
    BY <1>6 DEF Click, MayClick
  <2> QED
    BY <1>6, <2>1, CallArguments, ControlRows, CallStage DEF Click
<1>7. ASSUME NEW s \in Slot, OpenEnroll(s) \/ SubmitCode(s) \/ SubmitDisable(s)
      PROVE  StageKept(t)
  <2>1. \/ UNCHANGED jobs
        \/ \E f \in Form, a \in Atom, arg \in Nat :
              Call(s, f, a, shownCompany, arg) /\ (f = "disableMfa" => SubmitDisable(s))
    BY <1>7, CallArguments, DialogForms DEF OpenEnroll, SubmitCode, SubmitDisable, callVars
  <2> QED
    BY <1>1, <2>1, CallArguments, CallStage
<1>8. ASSUME NEW s \in Slot, Perform(s) \/ Refuse(s) PROVE StageKept(t)
  BY <1>8, SettledStage
<1>9. ASSUME NEW s \in Slot, Answer(s) PROVE StageKept(t)
  <2>1. PICK exit \in Exits(s) : Resolve(s, exit)
    BY <1>9 DEF Answer
  <2>2. RunsNow(s)
    BY <1>9 DEF Answer
  <2>3. CASE t \in Waiters(s)
    BY <2>1, <2>2, <2>3, ResolvedJob, WaitersOf DEF StageKept
  <2>4. CASE t \notin Waiters(s)
    BY <2>1, <2>4 DEF Resolve, StageKept
  <2> QED
    BY <2>3, <2>4
<1>10. ASSUME NEW s \in Slot, Continue(s) PROVE StageKept(t)
  BY <1>10, ContinueStage
<1>11. ASSUME NEW q \in Query, ListRead(q) \/ ListFails(q) PROVE StageKept(t)
  BY <1>1, <1>11 DEF ListRead, ListFails, callVars
<1>12. ASSUME NEW q \in Query, ListArrives(q) PROVE StageKept(t)
  BY <1>2, <1>12 DEF ListArrives
<1>13. ASSUME NEW s \in Slot, PutCodesAway(s) PROVE StageKept(t)
  BY <1>13, RefreshAndWaitJob DEF StageKept
<1> QED
  BY <1>3, <1>4, <1>5, <1>6, <1>7, <1>8, <1>9, <1>10, <1>11, <1>12, <1>13 DEF SpaNext, BrowserStep

\* notifyAfterRefresh: when the success notice of a call that was not interrupted
\* appears, the list on screen was read after the call's change.
THEOREM NoticesMatch == SpaSpec => NoticeMatchesScreen
<1> DEFINE Held ==
             \A s \in Slot :
               (/\ jobs[s].stage = "refreshing" /\ jobs'[s].stage = "idle"
                /\ notice' = "done" /\ ~jobs[s].interrupted)
               => shown'[AwaitedQuery(s)].version >= jobs[s].version
<1>1. SpaInv /\ [SpaNext]_spaVars => Held
  <2> SUFFICES ASSUME SpaInv, [SpaNext]_spaVars, NEW s \in Slot,
                      jobs[s].stage = "refreshing", jobs'[s].stage = "idle",
                      notice' = "done", ~jobs[s].interrupted
               PROVE  shown'[AwaitedQuery(s)].version >= jobs[s].version
    OBVIOUS
  <2>1. SpaTyped /\ JobsInv /\ Due(s)
    BY DEF SpaInv, JobsInv, JobsTyped, SpaTyped, Notices
  <2>2. EndRefresh(s)
    BY <2>1, StageStep DEF StageKept
  <2>3. /\ reply[AwaitedQuery(s)].phase = "idle" /\ shown' = shown
        /\ ~shown[AwaitedQuery(s)].failed
    BY <2>2 DEF EndRefresh, Refreshed, dataVars
  <2>4. AwaitedQuery(s) \in Query /\ Seen(AwaitedQuery(s), jobs[s].version)
    BY <2>1 DEF Due
  <2>5. shown[AwaitedQuery(s)].version >= jobs[s].version
    BY <2>3, <2>4 DEF Seen
  <2> QED
    BY <2>3, <2>5
<1> QED
  BY <1>1, SpaInvariant, PTL DEF SpaSpec, NoticeMatchesScreen

\* The handlers that still belong to the enrolment dialog keep it open, and leave
\* the codes on screen alone.
LEMMA EndEnrollKeeps ==
    ASSUME SpaTyped, Dialog, dlg.open, NEW s \in Slot, EndEnroll(s)
    PROVE  dlg'.open /\ (dlg.step = "recoveryCodes" => dlg'.step = "recoveryCodes")
<1>1. dlg \in Dialogue /\ EnrollSound(s) /\ ActivateSound(s)
  BY DEF SpaTyped, Dialog
<1>2. CASE ~jobs[s].attached
  BY <1>2 DEF EndEnroll
<1>3. CASE jobs[s].attached
  <2>1. dlg.step # "recoveryCodes"
    BY <1>1, <1>3 DEF EndEnroll, FormIn, EnrollSound, ActivateSound, Enrolling, Activating
  <2>2. EnrollAnswered(s).open
    <3>1. PICK n : n = jobs[s].arg
      OBVIOUS
    <3>2. /\ [dlg EXCEPT !.step = "scan", !.enrollment = n, !.resumable = n].open
          /\ [dlg EXCEPT !.step = "failed"].open
          /\ [dlg EXCEPT !.step = "recoveryCodes", !.enrollment = n, !.resumable = 0].open
          /\ [dlg EXCEPT !.resumable = 0].open
      BY <1>1 DEF Dialogue
    <3> QED
      BY <3>1, <3>2 DEF EnrollAnswered
  <2> QED
    BY <1>3, <2>1, <2>2 DEF EndEnroll
<1> QED
  BY <1>2, <1>3

\* While the enrolment dialog is rendered nobody submits the removal, so the status
\* stays settled unless a fetch of it begins.
LEMMA StatusKept ==
    ASSUME SpaTyped, JobsInv, [SpaNext]_spaVars, StatusSettled, ~shown[mfaStatus].value,
           reply'[mfaStatus].phase = "idle"
    PROVE  StatusSettled'
<1>1. ASSUME NEW t \in Slot, jobs'[t].form = "disableMfa", jobs'[t].stage = "mutating" PROVE FALSE
  <2>1. StageKept(t) /\ ~SubmitDisable(t)
    BY StageStep DEF SubmitDisable
  <2> QED
    BY <1>1, <2>1 DEF StageKept, StatusSettled
<1> QED
  BY <1>1 DEF StatusSettled

\* useEnrollMfa and the empty key list of activateMfa: with the status settled, an
\* open enrolment dialog stays open and recovery codes on screen stay, until the
\* user closes the dialog or leaves the page.
THEOREM CodesStay == SpaSpec => CodesStayOnScreen
<1> DEFINE Held ==
             dlg.open /\ StatusSettled
               => \/ /\ dlg'.open /\ StatusSettled'
                     /\ dlg.step = "recoveryCodes" => dlg'.step = "recoveryCodes"
                  \/ page' # page
                  \/ CloseEnroll
                  \/ \E s \in Slot : PutCodesAway(s)
<1>1. SpaInv /\ [SpaNext]_spaVars => Held
  <2> DEFINE Kept ==
               dlg'.open /\ (dlg.step = "recoveryCodes" => dlg'.step = "recoveryCodes")
  <2> SUFFICES ASSUME SpaInv, [SpaNext]_spaVars, dlg.open, StatusSettled, page' = page,
                      ~CloseEnroll, \A s \in Slot : ~PutCodesAway(s)
               PROVE  Kept /\ StatusSettled'
    OBVIOUS
  <2>0. SpaTyped /\ JobsInv /\ Dialog
    BY DEF SpaInv, JobsInv, JobsTyped, SpaTyped
  <2>1. reply[mfaStatus].phase = "idle" /\ page = "security" /\ ~shown[mfaStatus].value
    BY <2>0 DEF StatusSettled, Dialog
  <2>2. ASSUME reply'[mfaStatus] = reply[mfaStatus], Kept PROVE Kept /\ StatusSettled'
    BY <2>0, <2>1, <2>2, StatusKept
  <2>3. dlg' = dlg => Kept
    OBVIOUS
  <2>4. CASE CloseTransfer \/ OtherTab \/ UNCHANGED spaVars
    BY <2>2, <2>3, <2>4 DEF CloseTransfer, OtherTab, uiVars, dataVars, spaVars
  <2>5. CASE TurnStep
    <3>1. Kept
      BY <2>0, <2>5 DEF TurnStep, SpaTyped, Dialogue
    <3> QED
      BY <2>2, <2>5, <3>1 DEF TurnStep, dataVars
  <2>6. ASSUME NEW s \in Slot,
               \/ \E f \in OnScreen, c \in Company : Click(s, f, c)
               \/ SubmitCode(s) \/ SubmitDisable(s) \/ Perform(s) \/ Refuse(s)
        PROVE  Kept /\ StatusSettled'
    BY <2>2, <2>3, <2>6 DEF Click, SubmitCode, SubmitDisable, Perform, Refuse, uiVars, dataVars
  <2>7. ASSUME NEW s \in Slot, Answer(s) PROVE Kept /\ StatusSettled'
    <3>1. /\ jobs[s].stage = "mutating" /\ jobs[s].form \in Form
          /\ jobs[s].form \notin {"disableMfa", "handleOpenChange"}
      BY <2>0, <2>7 DEF Answer, RunsNow, StatusSettled, JobsInv, Jobs, JobSound
    <3>2. "mfaStatus" \notin control[jobs[s].form].keys
      BY <3>1, ControlRows
    <3>3. mfaStatus \notin {QueryOf(n, jobs[s].co) : n \in control[jobs[s].form].keys}
      BY <3>2 DEF mfaStatus, QueryOf
    <3>4. reply'[mfaStatus] = reply[mfaStatus]
      BY <2>7, <3>3, QueryKinds DEF Answer, Invalidate
    <3> QED
      BY <2>2, <2>3, <2>7, <3>4 DEF Answer, uiVars
  <2>8. ASSUME NEW s \in Slot, Continue(s) PROVE Kept /\ StatusSettled'
    <3>1. CASE EndEnroll(s)
      BY <2>0, <2>2, <3>1, EndEnrollKeeps DEF EndEnroll, dataVars
    <3>2. CASE ~EndEnroll(s)
      <4>1. dlg' = dlg /\ reply' = reply
        BY <2>8, <3>2 DEF Continue, LeaveDeleted, StartRefresh, EndRefresh, DeletionConfirmed,
           DeletionSignedOut, LeaveSignedOut, LeaveForProvider, EndSaved, EndVerification, EndFailed, uiVars, dataVars
      <4> QED
        BY <2>2, <2>3, <4>1
    <3> QED
      BY <3>1, <3>2
  <2>9. ASSUME NEW q \in Query, ListRead(q) \/ ListArrives(q) \/ ListFails(q)
        PROVE  Kept /\ StatusSettled'
    <3>1. q # mfaStatus
      BY <2>0, <2>1, <2>9, ArriveEffect, FailEffect DEF ListRead, Read
    <3>2. reply'[mfaStatus] = reply[mfaStatus]
      BY <2>0, <2>9, <3>1, QueryKinds, ArriveEffect, FailEffect DEF ListRead, Read, SpaTyped
    <3>3. dlg' = dlg
      BY <2>0, <2>9, <3>1, ArriveReplaced DEF ListRead, ListFails, uiVars
    <3> QED
      BY <2>2, <2>3, <3>2, <3>3
  <2>10. \A to \in Pages : ~Navigate(to)
    BY DEF Navigate
  <2>11. \A s \in Slot : ~OpenEnroll(s)
    BY DEF OpenEnroll
  <2> QED
    BY <2>4, <2>5, <2>6, <2>7, <2>8, <2>9, <2>10, <2>11 DEF SpaNext, BrowserStep
<1> QED
  BY <1>1, SpaInvariant, PTL DEF SpaSpec, CodesStayOnScreen

=============================================================================
