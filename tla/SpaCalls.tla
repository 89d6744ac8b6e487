------------------------------ MODULE SpaCalls ------------------------------
(***************************************************************************)
(* How the account pages talk to the server: a control submits a mutation  *)
(* and waits for its exit, a successful mutation makes the queries it      *)
(* names fetch again, and the control is released once that fetch is over. *)
(*                                                                         *)
(* A mutation is an atom that all components share.  Calling it while it   *)
(* waits interrupts the call under way, and every caller is answered with  *)
(* the exit of the last one (atom-runtime.test.ts, "runMutation").  The    *)
(* interrupted request may have reached the server all the same.           *)
(***************************************************************************)
EXTENDS Naturals, FiniteSets, SpaControls

CONSTANTS
    Slot,           \* calls that can be under way at once (numbers above 0)
    MaxCalls,       \* calls in all (bound)
    Company,        \* companies of the signed-in user
    NoCompany       \* the key of a query that is not about one company

\* 0 stands for "no call"; a user of the account pages has a company.
ASSUME SlotAssumption == Slot \subseteq Nat \ {0}
ASSUME CompanyAssumption == Company # {}

VARIABLES
    jobs,           \* per slot: the handler's promise chain
    atom,           \* per mutation atom: the slot of the call it runs (0: idle)
    calls,          \* calls submitted so far
    server,         \* per query: how often what it reads was changed
    reply,          \* per query: the fetch under way, and what it read
    shown,          \* per query: the value on screen, and whether the last fetch failed
    busy,           \* components whose busy, submitting or pending state is set
    left            \* where the document is being replaced with ("no": it is not)

callVars == <<jobs, atom, calls>>
dataVars == <<server, reply, shown>>

Query == {<<"companyState", NoCompany>>, <<"mfaStatus", NoCompany>>}
             \cup ({"members", "invitations"} \X Company)

\* The atom of a query: lists are per company, the rest is not.
QueryOf(name, c) == IF name \in {"members", "invitations"} THEN <<name, c>> ELSE <<name, NoCompany>>

Free == [form |-> "none", co |-> NoCompany, arg |-> 0, stage |-> "idle", request |-> "none",
         version |-> 0, exit |-> "none", deleted |-> FALSE, attached |-> FALSE,
         interrupted |-> FALSE]

-----------------------------------------------------------------------------
(***************************************************************************)
(* leaveSpaTo: it replaces the document once, and knows nothing of those   *)
(* who leave without it.                                                   *)
(***************************************************************************)
leaveSpaTo(to) == left' = IF left \in {"no", "provider"} THEN to ELSE left

-----------------------------------------------------------------------------
(***************************************************************************)
(* Mutations.                                                              *)
(***************************************************************************)
\* A job of an atom that was called again waits for the new call's exit.
Waiters(s) ==
    IF control[jobs[s].form].atom = "none"
    THEN {s}
    ELSE {t \in Slot : /\ jobs[t].stage = "mutating"
                       /\ control[jobs[t].form].atom = control[jobs[s].form].atom}

\* The atom-wide pending flag (AsyncResult.isWaiting), which useSwitchCompany reads.
IsWaiting(a) == atom[a] # 0

\* The slot of the next job, the lowest that is free.
NextSlot(s) == jobs[s] = Free /\ \A t \in Slot : jobs[t] = Free => s <= t

\* registry.set on the atom, and the promise of its result.
Call(s, form, a, c, arg) ==
    /\ NextSlot(s) /\ calls < MaxCalls
    /\ calls' = calls + 1
    /\ atom' = IF a = "none" THEN atom ELSE [atom EXCEPT ![a] = s]
    /\ jobs' = [t \in Slot |->
                  IF t = s
                  THEN [Free EXCEPT !.form = form, !.co = c, !.arg = arg, !.stage = "mutating",
                                    !.request = "flying", !.attached = TRUE]
                  ELSE IF a # "none" /\ atom[a] = t
                  THEN [jobs[t] EXCEPT !.interrupted = TRUE]
                  ELSE jobs[t]]

\* The server carried the request out: the queries it changed have a new version.
Changes(queries) == server' = [q \in Query |-> IF q \in queries THEN server[q] + 1 ELSE server[q]]

\* A slot whose handler is done and whose request is settled is free again.
Settled(job) == IF job.stage = "idle" /\ job.request # "flying" THEN Free ELSE job

Performed(s, q, deleted, arg) ==
    jobs' = [jobs EXCEPT ![s] = Settled([@ EXCEPT !.request = "performed",
                                                  !.version = IF q \in Query THEN server'[q] ELSE 0,
                                                  !.deleted = deleted,
                                                  !.arg = arg])]

Refused(s, why) == jobs' = [jobs EXCEPT ![s] = Settled([@ EXCEPT !.request = why])]

\* Reactivity: an invalidated query drops the fetch it is in and fetches anew.
Invalidate(queries) ==
    reply' = [q \in Query |-> IF q \in queries THEN [phase |-> "asked"] ELSE reply[q]]

\* The exit of the run, with what the response carries (account_deleted, the new
\* enrolment), reaches every caller that waits for the atom.
Resolve(s, exit) ==
    /\ jobs' = [t \in Slot |->
                  IF t \in Waiters(s)
                  THEN [jobs[t] EXCEPT !.stage = "resolved", !.exit = exit,
                                       !.deleted = jobs[s].deleted,
                                       !.arg = IF jobs[t].form = "enrollMfa" THEN jobs[s].arg ELSE @]
                  ELSE jobs[t]]
    /\ atom' = [a \in DOMAIN atom |-> IF atom[a] = s THEN 0 ELSE atom[a]]

\* Is s the call its atom runs?  An interrupted one gets no answer of its own.
RunsNow(s) ==
    /\ jobs[s].stage = "mutating"
    /\ LET a == control[jobs[s].form].atom IN a # "none" => atom[a] = s

-----------------------------------------------------------------------------
(***************************************************************************)
(* Queries.                                                                *)
(***************************************************************************)
Read(q, value) ==
    /\ reply[q].phase = "asked"
    /\ reply' = [reply EXCEPT ![q] = [phase |-> "read", version |-> server[q], value |-> value]]

Arrive(q) ==
    /\ reply[q].phase = "read"
    /\ reply' = [reply EXCEPT ![q] = [phase |-> "idle"]]
    /\ shown' = [shown EXCEPT ![q] = [version |-> reply[q].version, value |-> reply[q].value,
                                      failed |-> FALSE]]

FetchFails(q) ==
    /\ reply[q].phase # "idle"
    /\ reply' = [reply EXCEPT ![q] = [phase |-> "idle"]]
    /\ shown' = [shown EXCEPT ![q].failed = TRUE]

-----------------------------------------------------------------------------
(***************************************************************************)
(* The handler's promise chain.                                            *)
(***************************************************************************)
AwaitedQuery(s) == QueryOf(control[jobs[s].form].awaits, jobs[s].co)

\* Mutant: the notice does not wait for the query.
Refreshed_AtOnce(s) == jobs[s].stage = "refreshing"

\* refreshAndWait by a handler that called no mutation: it goes on where the others
\* do once theirs has succeeded, and holds no component.
RefreshAndWait(s, form, c) ==
    LET q == QueryOf(control[form].awaits, c)
    IN  /\ NextSlot(s)
        /\ jobs' = [jobs EXCEPT ![s] = [Free EXCEPT !.form = form, !.co = c, !.stage = "refreshing",
                                                    !.request = "performed", !.exit = "success",
                                                    !.version = server[q]]]
        /\ Invalidate({q})

\* waitForValue has settled: the query waits for nothing.
Refreshed(s) ==
    /\ jobs[s].stage = "refreshing"
    /\ reply[AwaitedQuery(s)].phase = "idle"

\* A continuation that is ready runs before the next click or response.
Ready(s) == jobs[s].stage = "resolved" \/ Refreshed(s)

Quiet == \A s \in Slot : ~Ready(s)

\* finally: the component is released, if it is still the one that called.
Released(s) ==
    IF jobs[s].attached THEN busy \ {control[jobs[s].form].cell} ELSE busy

Done(s) == jobs' = [jobs EXCEPT ![s] = Settled([@ EXCEPT !.stage = "idle", !.attached = FALSE])]

\* Mutant: a failed mutation does not run the finally block.
Finish_OnlySuccess(s) ==
    /\ Done(s)
    /\ busy' = IF jobs[s].exit = "success" THEN Released(s) ELSE busy

Finish(s) ==
    /\ Done(s)
    /\ busy' = Released(s)

\* Components that unmount take their state with them; the handlers they
\* started run on and release nothing.
Detached(js, cells) ==
    [s \in Slot |-> IF js[s].form # "none" /\ control[js[s].form].cell \in cells
                   THEN [js[s] EXCEPT !.attached = FALSE]
                   ELSE js[s]]

Unmount(js, cells) ==
    /\ busy' = busy \ cells
    /\ jobs' = Detached(js, cells)
=============================================================================
