-------------------------------- MODULE Boot --------------------------------
(***************************************************************************)
(* One isolate of the worker, from its first request on: the secrets are   *)
(* fetched and the application is assembled lazily by whichever requests   *)
(* come first, every request owns a database pool, and what a request left *)
(* running in the background keeps its pool open after the response        *)
(* (worker.ts, secret-bindings.ts, once-until-succeeded.ts, boot.ts,       *)
(* runtime.ts, auth.ts, background.ts, run-route.ts).                      *)
(*                                                                         *)
(* JavaScript runs one continuation at a time, so what lies between two    *)
(* awaits is one step.                                                     *)
(***************************************************************************)
EXTENDS Naturals, Sequences, FiniteSets, Functions

CONSTANTS
    Request,        \* requests that reach this isolate
    Secrets,        \* SECRET_BINDING_NAMES in the order they are fetched
    MaxFailures     \* how often a shared attempt fails (bound)

ASSUME SecretsAssumption == Secrets \in Seq(STRING) /\ Secrets # <<>>

VARIABLES
    attempts,       \* per shared start-up step, the outcome of every attempt so far
    attempt,        \* per shared start-up step, the attempt held (0: null)
    env,            \* the secrets copied into process.env
    bound,          \* the secrets that the worker's environment binds
    secretValid,    \* does the AUTH_SECRET bound pass requireAuthSecret?
    ttlStore,       \* bootstrapOnce's ttlStore (0: null)
    runtime,        \* the store the runtime was made with (0: no runtime)
    auth,           \* has initAuth built better-auth?
    app,            \* has bootstrapOnce kept the assembled application?
    req,            \* per request: pc, the attempt awaited, and its answer
    pool,           \* per request: its database pool
    tasks,          \* per request: the background work under way, by task, with its phase
    awaited         \* per request: the promises its waitUntil waits for

shared == <<attempts, attempt>>
bindings == <<bound, secretValid>>
wiring == <<ttlStore, runtime, auth, app>>
bootVars == <<attempts, attempt, env, bound, secretValid, ttlStore, runtime, auth,
              app, req, pool, tasks, awaited>>

(***************************************************************************)
(* resolveSecrets and beforeFirstRequest are each wrapped once.            *)
(***************************************************************************)
Step == {"secrets", "before"}

Task == {"audit", "notice", "invitationLink"}

\* The phases of a background task: audit rows and the invitation's context go
\* through the request's pool, mail goes through the mail service.
Plan == [audit |-> <<"query">>,
         notice |-> <<"send">>,
         invitationLink |-> <<"query", "send">>]

\* A route is known by the background work its handler may start: a sign-in is
\* audited, unless its route is unknown, and a new user is welcomed by mail; a
\* change of the second factor mails a notice, an invitation mails its link.
Work == {{"audit"}, {"audit", "notice"}, {"notice"}, {"invitationLink"}}

Idle == [pc |-> "idle", on |-> 0, answer |-> "none"]

BootInit ==
    /\ attempts = [s \in Step |-> <<>>]
    /\ attempt = [s \in Step |-> 0]
    /\ env = {}
    /\ bound \in SUBSET {Secrets[i] : i \in DOMAIN Secrets}
    /\ secretValid \in BOOLEAN
    /\ ttlStore = 0 /\ runtime = 0 /\ auth = FALSE /\ app = FALSE
    /\ req = [r \in Request |-> Idle]
    /\ pool = [r \in Request |-> "none"]
    /\ tasks = [r \in Request |-> << >>]
    /\ awaited = [r \in Request |-> {}]

Status(s, n) == attempts[s][n].status

-----------------------------------------------------------------------------
(***************************************************************************)
(* onceUntilSucceeded.  A call starts an attempt when none is held and     *)
(* otherwise joins the one held; a failure lets go of the attempt before   *)
(* its callers see the rejection.                                          *)
(***************************************************************************)
Running == [status |-> "running", at |-> 0]

\* Mutant: the attempt is started afresh by every caller.
once_Unshared(s) ==
    /\ attempts' = [attempts EXCEPT ![s] = Append(@, Running)]
    /\ attempt' = [attempt EXCEPT ![s] = Len(attempts'[s])]

once(s) ==
    IF attempt[s] # 0
    THEN UNCHANGED shared
    ELSE /\ attempts' = [attempts EXCEPT ![s] = Append(@, Running)]
         /\ attempt' = [attempt EXCEPT ![s] = Len(attempts'[s])]

Settle(s, outcome) ==
    attempts' = [attempts EXCEPT ![s][attempt[s]].status = outcome]

Advance(s, n) ==
    attempts' = [attempts EXCEPT ![s][attempt[s]].at = n]

\* Mutant: the rejected promise stays memoised.
Reject_Keeps(s) == Settle(s, "failed") /\ UNCHANGED attempt

\* Mutant: the catch handler does not throw again.
Reject_Swallows(s) == Settle(s, "succeeded") /\ UNCHANGED attempt

Reject(s) ==
    /\ Settle(s, "failed")
    /\ attempt' = [attempt EXCEPT ![s] = 0]

Failures(s) == Cardinality({n \in DOMAIN attempts[s] : Status(s, n) = "failed"})

IsRunning(s) == attempt[s] # 0 /\ Status(s, attempt[s]) = "running"

\* The secrets the attempt has still to copy: a name without a binding is passed
\* over.
Outstanding ==
    {n \in DOMAIN Secrets :
        n > attempts["secrets"][attempt["secrets"]].at /\ Secrets[n] \in bound}

\* resolveSecretBindings: the secrets that are bound are fetched one after the
\* other, each into process.env as soon as it is there, and a retry begins with
\* the first again.
FetchSecret ==
    /\ IsRunning("secrets")
    /\ \/ \E n \in Outstanding :
            /\ \A m \in Outstanding : n <= m
            /\ env' = env \cup {Secrets[n]}
            /\ Advance("secrets", n)
       \/ Outstanding = {} /\ Settle("secrets", "succeeded") /\ UNCHANGED env
    /\ UNCHANGED <<attempt, bindings, wiring, req, pool, tasks, awaited>>

SecretUnavailable ==
    /\ IsRunning("secrets") /\ Outstanding # {}
    /\ Failures("secrets") < MaxFailures
    /\ Reject("secrets")
    /\ UNCHANGED <<env, bindings, wiring, req, pool, tasks, awaited>>

\* The beforeFirstRequest of the worker's options settles, either way.
BeforeFirstRequest ==
    /\ IsRunning("before")
    /\ \/ Settle("before", "succeeded") /\ UNCHANGED attempt
       \/ Failures("before") < MaxFailures /\ Reject("before")
    /\ UNCHANGED <<env, bindings, wiring, req, pool, tasks, awaited>>

-----------------------------------------------------------------------------
(***************************************************************************)
(* bootstrapOnce, without an await: environment, TTL store, runtime,       *)
(* better-auth, application.  A throw leaves behind what was set before    *)
(* it, and the next request runs the whole again.                          *)
(***************************************************************************)
\* Mutant: every bootstrap makes its own Durable Object backend.
keptStore_Fresh == ttlStore + 1

keptStore == IF ttlStore = 0 THEN 1 ELSE ttlStore

\* initRuntime throws on a second store, requireAuthSecret on a bad secret.
bootError ==
    IF runtime # 0 /\ runtime # keptStore THEN "secondStore"
    ELSE IF ~auth /\ ~("AUTH_SECRET" \in env /\ secretValid) THEN "badSecret"
    ELSE "none"

Bootstrap ==
    IF app
    THEN UNCHANGED wiring
    ELSE /\ ttlStore' = keptStore
         /\ runtime' = IF bootError = "secondStore" THEN runtime ELSE keptStore
         /\ auth' = (auth \/ bootError = "none")
         /\ app' = (bootError = "none")

Wait(r, pc, n) == req' = [req EXCEPT ![r].pc = pc, ![r].on = n]

Throw(r, cause) == req' = [req EXCEPT ![r].pc = "closed", ![r].on = 0, ![r].answer = cause]

\* resolveSecretsBeforeHandler
Arrive(r) ==
    /\ req[r].pc = "idle"
    /\ once("secrets")
    /\ Wait(r, "secrets", attempt'["secrets"])
    /\ UNCHANGED <<env, bindings, wiring, pool, tasks, awaited>>

\* The rejection of the shared promise reaches the request.
SecretsFail(r) ==
    /\ req[r].pc = "secrets"
    /\ Status("secrets", req[r].on) = "failed"
    /\ Throw(r, "secrets")
    /\ UNCHANGED <<shared, env, bindings, wiring, pool, tasks, awaited>>

\* createWorker's fetch up to its first await: bootstrap, a pool of its own,
\* beforeFirstRequest.
Fetch(r) ==
    /\ req[r].pc = "secrets"
    /\ Status("secrets", req[r].on) = "succeeded"
    /\ Bootstrap
    /\ IF app'
       THEN /\ pool' = [pool EXCEPT ![r] = "open"]
            /\ once("before")
            /\ Wait(r, "before", attempt'["before"])
       ELSE /\ Throw(r, bootError)
            /\ UNCHANGED <<shared, pool>>
    /\ UNCHANGED <<env, bindings, tasks, awaited>>

-----------------------------------------------------------------------------
(***************************************************************************)
(* The request in the application.                                         *)
(***************************************************************************)
\* The finally block of fetch: the pool is ended once the promises registered
\* so far have settled.
\* Mutant: the finally block ends the pool on the response.
Finally_Now(r) == awaited' = [awaited EXCEPT ![r] = {}]

Finally(r) == awaited' = [awaited EXCEPT ![r] = DOMAIN tasks[r]]

BeforeFails(r) ==
    /\ req[r].pc = "before"
    /\ Status("before", req[r].on) = "failed"
    /\ Finally(r)
    /\ req' = [req EXCEPT ![r].pc = "left", ![r].on = 0, ![r].answer = "before"]
    /\ UNCHANGED <<shared, env, bindings, wiring, pool, tasks>>

EnterApp(r) ==
    /\ req[r].pc = "before"
    /\ Status("before", req[r].on) = "succeeded"
    /\ Wait(r, "app", 0)
    /\ UNCHANGED <<shared, env, bindings, wiring, pool, tasks, awaited>>

\* Background.run: the effects are forked, and each is registered with the
\* waitUntil of the request it was forked in.
RunBackground(r) ==
    /\ req[r].pc = "app"
    /\ \E work \in Work : tasks' = [tasks EXCEPT ![r] = [t \in work |-> 1]]
    /\ Wait(r, "working", 0)
    /\ UNCHANGED <<shared, env, bindings, wiring, pool, awaited>>

\* runRoute and runMiddleware turn success and failure alike into a response.
Respond(r) ==
    /\ req[r].pc \in {"app", "working"}
    /\ Finally(r)
    /\ req' = [req EXCEPT ![r].pc = "left", ![r].answer = "response"]
    /\ UNCHANGED <<shared, env, bindings, wiring, pool, tasks>>

-----------------------------------------------------------------------------
(***************************************************************************)
(* Background work.                                                        *)
(***************************************************************************)
Busy(r, t) == t \in DOMAIN tasks[r]

Phase(r, t) == Plan[t][tasks[r][t]]

\* Failure is captured, so the task ends there; a failed query sends nothing.
GiveUp(r, t) == tasks' = [tasks EXCEPT ![r] = Restrict(@, DOMAIN @ \ {t})]

Proceed(r, t) ==
    IF tasks[r][t] = Len(Plan[t])
    THEN GiveUp(r, t)
    ELSE tasks' = [tasks EXCEPT ![r][t] = @ + 1]

\* The database answers, or the query fails.
Query(r, t) ==
    /\ Busy(r, t) /\ Phase(r, t) = "query"
    /\ Proceed(r, t) \/ GiveUp(r, t)
    /\ UNCHANGED <<shared, env, bindings, wiring, req, pool, awaited>>

\* The mail service accepts or refuses the mail; it may also never answer.
MailAnswers(r, t) ==
    /\ Busy(r, t) /\ Phase(r, t) = "send"
    /\ Proceed(r, t)
    /\ UNCHANGED <<shared, env, bindings, wiring, req, pool, awaited>>

\* Mutant: mail is sent without a timeout.
MailTimesOut_Never(r, t) == FALSE /\ UNCHANGED bootVars

\* withEmailTimeout: ten seconds, then an EmailError.
MailTimesOut(r, t) ==
    /\ Busy(r, t) /\ Phase(r, t) = "send"
    /\ GiveUp(r, t)
    /\ UNCHANGED <<shared, env, bindings, wiring, req, pool, awaited>>

EndPool(r) ==
    /\ req[r].pc = "left"
    /\ awaited[r] \cap DOMAIN tasks[r] = {}
    /\ awaited' = [awaited EXCEPT ![r] = {}]
    /\ pool' = [pool EXCEPT ![r] = "ended"]
    /\ req' = [req EXCEPT ![r].pc = "closed"]
    /\ UNCHANGED <<shared, env, bindings, wiring, tasks>>

-----------------------------------------------------------------------------
BootNext ==
    \/ FetchSecret \/ SecretUnavailable \/ BeforeFirstRequest
    \/ \E r \in Request :
         \/ Arrive(r) \/ SecretsFail(r) \/ Fetch(r) \/ BeforeFails(r)
         \/ EnterApp(r) \/ RunBackground(r) \/ Respond(r) \/ EndPool(r)
         \/ \E t \in Task : Query(r, t) \/ MailAnswers(r, t) \/ MailTimesOut(r, t)

\* What the isolate does of itself.
EventLoop ==
    \/ FetchSecret \/ BeforeFirstRequest
    \/ \E r \in Request :
         \/ SecretsFail(r) \/ Fetch(r) \/ BeforeFails(r)
         \/ EnterApp(r) \/ Respond(r) \/ EndPool(r)
         \/ \E t \in Task : Query(r, t) \/ MailTimesOut(r, t)

\* The event loop runs a continuation as long as one is ready; the secrets store,
\* the start-up hook and the database answer, if only with an error.  Nothing
\* makes the mail service answer: its timer does.
BootFairness == WF_bootVars(EventLoop)

BootSpec == BootInit /\ [][BootNext]_bootVars /\ BootFairness

-----------------------------------------------------------------------------
\* A request is in the application only after every secret that is bound was
\* copied, AUTH_SECRET among them, whoever started the attempt it waited for and
\* however many attempts failed half-way before.
ServedWithSecrets ==
    \A r \in Request :
        req[r].pc \in {"before", "app", "working", "left"} =>
            /\ env = bound
            /\ auth /\ "AUTH_SECRET" \in bound /\ secretValid

\* A start-up step has one attempt under way at most: requests that arrive
\* together share it (onceUntilSucceeded).
OneAttemptAtATime ==
    \A s \in Step :
        Cardinality({n \in DOMAIN attempts[s] : Status(s, n) = "running"}) <= 1

\* A request never joins an attempt that has already failed: a failure is seen
\* by the requests that were waiting for it and by no later one.
FailureNotKept ==
    [][\A r \in Request :
          /\ req[r].pc = "idle" /\ req'[r].pc = "secrets"
          => attempts["secrets"]'[req'[r].on].status # "failed"]_bootVars

\* A boot that fails again fails for the cause it failed for first: the retry is
\* never stopped by what the failed boot left behind (bootstrapOnce keeps its
\* ttlStore because initRuntime refuses another).
RetryMeetsSameError ==
    \A r \in Request : req[r].answer # "secondStore"

\* Background work that needs the database finds the pool of its request open,
\* long after the response went out (createWorker's finally block).
PoolOutlivesWork ==
    \A r \in Request : \A t \in Task :
        Busy(r, t) /\ Phase(r, t) = "query" => pool[r] = "open"

\* Every request comes to its end and gives its pool back, even when start-up
\* fails or the mail service never answers.
RequestsClose ==
    \A r \in Request : req[r].pc = "secrets" ~> req[r].pc = "closed" /\ pool[r] # "open"
=============================================================================
