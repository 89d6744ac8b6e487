----------------------------- MODULE BootProofs -----------------------------
(***************************************************************************)
(* Theorems about Boot, for any number of requests, any list of secrets    *)
(* and any number of failures.                                             *)
(*                                                                         *)
(* Three things are carried from step to step: an attempt under way is the *)
(* one held, and the one held has not failed (Shared); an attempt has      *)
(* copied every bound secret it is past (Copied); and a request with work  *)
(* in the background still awaits it, with its pool open (WorkAwaited).    *)
(***************************************************************************)
EXTENDS Boot, Integers, SequenceTheorems, FiniteSetTheorems, TLAPS

Attempt == [status : {"running", "succeeded", "failed"}, at : Nat]

Served == {"before", "app", "working", "left"}

ReqRecord ==
    [pc : {"idle", "secrets", "closed"} \cup Served, on : Nat,
     answer : {"none", "response", "secrets", "before", "badSecret"}]

AllSecrets == {Secrets[i] : i \in DOMAIN Secrets}

BootTyped ==
    /\ attempts \in [Step -> Seq(Attempt)]
    /\ attempt \in [Step -> Nat]
    /\ env \subseteq bound /\ bound \subseteq AllSecrets
    /\ ttlStore \in Nat /\ runtime \in Nat
    /\ auth \in BOOLEAN /\ app \in BOOLEAN
    /\ req \in [Request -> ReqRecord]
    /\ pool \in [Request -> {"none", "open", "ended"}]
    /\ awaited \in [Request -> SUBSET Task]
    /\ tasks = [r \in Request |-> tasks[r]]

\* The attempt held is one that was made and has not failed, and no other is
\* under way.
Shared ==
    \A s \in Step :
        /\ attempt[s] # 0 => /\ attempt[s] \in 1 .. Len(attempts[s])
                             /\ Status(s, attempt[s]) # "failed"
        /\ \A n \in 1 .. Len(attempts[s]) : Status(s, n) = "running" => n = attempt[s]

\* Every bound secret up to the n-th is in e.
CopiedUpTo(e, n) ==
    \A i \in DOMAIN Secrets : i <= n /\ Secrets[i] \in bound => Secrets[i] \in e

\* An attempt has copied the bound secrets it is past, and all of them when it
\* ends well.
Copied ==
    \A n \in 1 .. Len(attempts["secrets"]) :
        LET a == attempts["secrets"][n]
        IN  /\ CopiedUpTo(env, a.at)
            /\ a.status = "succeeded" => bound \subseteq env

\* What a request waits for is an attempt that was made.
Waiting ==
    \A r \in Request : \A s \in Step : req[r].pc = s => req[r].on \in 1 .. Len(attempts[s])

\* The application exists once better-auth was built, from the secrets.
Assembled ==
    /\ app = auth
    /\ auth => secretValid /\ "AUTH_SECRET" \in env /\ env = bound
    /\ \A r \in Request : req[r].pc \in Served => app

\* There is one store, and the runtime was made with it.
OneStore == runtime # 0 => ttlStore = runtime

\* Background work is awaited, and its pool open until it ended.
WorkAwaited ==
    \A r \in Request :
        /\ req[r].pc \in Served => pool[r] = "open"
        /\ DOMAIN tasks[r] \subseteq Task
        /\ DOMAIN tasks[r] # {} => req[r].pc \in {"working", "left"}
        /\ req[r].pc = "left" => DOMAIN tasks[r] \subseteq awaited[r]

BootInv ==
    /\ BootTyped /\ Shared /\ Copied /\ Waiting /\ Assembled /\ OneStore
    /\ WorkAwaited

-----------------------------------------------------------------------------
(* The shared attempts.                                                    *)

AttemptsTyped == attempts \in [Step -> Seq(Attempt)] /\ attempt \in [Step -> Nat]

\* Attempts are added and settled, never taken back.
Growing == \A s \in Step : Len(attempts[s]) <= Len(attempts[s]')

LEMMA SecretsTyped == Len(Secrets) \in Nat /\ DOMAIN Secrets = 1 .. Len(Secrets)
BY SecretsAssumption, LenProperties

\* A call finds the attempt held, or starts the only one under way.
LEMMA OnceEffect ==
    ASSUME AttemptsTyped, Shared, NEW s \in Step, once(s)
    PROVE  /\ AttemptsTyped' /\ Shared' /\ Growing
           /\ attempt[s]' \in 1 .. Len(attempts[s]')
           /\ Copied /\ UNCHANGED <<env, bound>> => Copied'
<1>1. CASE attempt[s] # 0
  BY <1>1 DEF once, shared, AttemptsTyped, Shared, Status, Growing, Copied, CopiedUpTo
<1>2. CASE attempt[s] = 0
  <2> DEFINE q == Append(attempts[s], Running)
             k == Len(attempts[s]) + 1
  <2>1. Running \in Attempt
    BY DEF Running, Attempt
  <2>2. /\ attempts[s] \in Seq(Attempt) /\ q \in Seq(Attempt) /\ Len(attempts[s]) \in Nat
        /\ Len(q) = k /\ q[k] = Running
        /\ \A n \in 1 .. Len(attempts[s]) : q[n] = attempts[s][n]
    BY <2>1, AppendProperties, LenProperties DEF AttemptsTyped
  <2>3. attempts' = [attempts EXCEPT ![s] = q] /\ attempts'[s] = q
    BY <1>2 DEF once, AttemptsTyped
  <2>4. attempt' = [attempt EXCEPT ![s] = k]
    BY <1>2, <2>2, <2>3 DEF once
  <2> HIDE DEF q
  <2>5. AttemptsTyped'
    BY <2>2, <2>3, <2>4 DEF AttemptsTyped
  <2>6. \A n \in 1 .. k : n = k \/ n \in 1 .. Len(attempts[s])
    BY <2>2
  <2>7. ASSUME NEW t \in Step, t # s
        PROVE  attempts'[t] = attempts[t] /\ attempt'[t] = attempt[t]
    BY <2>3, <2>4, <2>7 DEF AttemptsTyped
  <2>8. attempt'[s] = k /\ k \in 1 .. Len(attempts'[s]) /\ k # 0
    BY <2>2, <2>3, <2>4 DEF AttemptsTyped
  <2>9. Shared'
    <3>1. ASSUME NEW t \in Step
          PROVE  /\ attempt'[t] # 0 => /\ attempt'[t] \in 1 .. Len(attempts'[t])
                                       /\ attempts'[t][attempt'[t]].status # "failed"
                 /\ \A n \in 1 .. Len(attempts'[t]) :
                       attempts'[t][n].status = "running" => n = attempt'[t]
      <4>1. CASE t = s
        BY <1>2, <2>2, <2>3, <2>6, <2>8, <4>1 DEF Shared, Status, Running
      <4>2. CASE t # s
        BY <2>7, <4>2 DEF Shared, Status
      <4> QED BY <4>1, <4>2
    <3> QED BY <3>1 DEF Shared, Status
  <2>10. Growing
    <3>1. ASSUME NEW t \in Step PROVE Len(attempts[t]) <= Len(attempts'[t])
      <4>1. CASE t = s
        BY <2>2, <2>3, <4>1
      <4>2. CASE t # s
        <5>1. Len(attempts[t]) \in Nat
          BY LenProperties DEF AttemptsTyped
        <5> QED BY <2>7, <4>2, <5>1
      <4> QED BY <4>1, <4>2
    <3> QED BY <3>1 DEF Growing
  <2>11. ASSUME Copied, UNCHANGED <<env, bound>> PROVE Copied'
    <3>1. CASE s = "secrets"
      <4>1. CopiedUpTo(env', Running.at) /\ Running.status # "succeeded"
        BY SecretsTyped DEF Running, CopiedUpTo
      <4>2. ASSUME NEW n \in 1 .. Len(q)
            PROVE  /\ CopiedUpTo(env', q[n].at)
                   /\ q[n].status = "succeeded" => bound \subseteq env
        <5>1. CASE n = k
          BY <2>2, <2>3, <4>1, <5>1, <3>1
        <5>2. CASE n # k
          BY <2>2, <2>3, <2>6, <2>11, <3>1, <5>2 DEF Copied, CopiedUpTo
        <5> QED BY <5>1, <5>2
      <4> QED BY <2>3, <2>11, <3>1, <4>2 DEF Copied, CopiedUpTo
    <3>2. CASE s # "secrets"
      BY <2>7, <2>11, <3>2 DEF Copied, CopiedUpTo, Step
    <3> QED BY <3>1, <3>2
  <2> QED BY <2>3, <2>5, <2>8, <2>9, <2>10, <2>11
<1> QED BY <1>1, <1>2

\* The attempt under way moves on, or settles; a failure lets go of it.
LEMMA HeldEffect ==
    ASSUME AttemptsTyped, Shared, NEW s \in Step, IsRunning(s), NEW a \in Attempt,
           attempts' = [attempts EXCEPT ![s] = [attempts[s] EXCEPT ![attempt[s]] = a]],
           \/ a.status # "failed" /\ attempt' = attempt
           \/ a.status = "failed" /\ attempt' = [attempt EXCEPT ![s] = 0]
    PROVE  /\ AttemptsTyped' /\ Shared' /\ Growing
           /\ /\ Copied /\ env \subseteq env' /\ bound' = bound
              /\ s = "secrets" => /\ CopiedUpTo(env', a.at)
                                  /\ a.status = "succeeded" => bound \subseteq env'
              => Copied'
<1> DEFINE k == attempt[s]
           q == [attempts[s] EXCEPT ![k] = a]
<1>1. k \in 1 .. Len(attempts[s]) /\ attempts[s] \in Seq(Attempt)
  BY DEF IsRunning, Shared, AttemptsTyped
<1>2. /\ q \in Seq(Attempt) /\ Len(q) = Len(attempts[s])
      /\ \A n \in 1 .. Len(attempts[s]) : q[n] = IF n = k THEN a ELSE attempts[s][n]
  BY <1>1, ExceptSeq
<1>3. attempts' = [attempts EXCEPT ![s] = q] /\ attempts'[s] = q
  BY DEF AttemptsTyped
<1>4. attempt' \in [Step -> Nat] /\ (attempt'[s] = k \/ (a.status = "failed" /\ attempt'[s] = 0))
  <2>1. CASE attempt' = attempt
    BY <2>1 DEF AttemptsTyped
  <2>2. CASE a.status = "failed" /\ attempt' = [attempt EXCEPT ![s] = 0]
    BY <2>2 DEF AttemptsTyped
  <2> QED BY <2>1, <2>2
<1>5. ASSUME NEW t \in Step, t # s
      PROVE  attempts'[t] = attempts[t] /\ attempt'[t] = attempt[t]
  BY <1>3, <1>5 DEF AttemptsTyped
<1> HIDE DEF q
<1>6. AttemptsTyped'
  BY <1>2, <1>3, <1>4 DEF AttemptsTyped
<1>7. Shared'
  <2>1. ASSUME NEW t \in Step
        PROVE  /\ attempt'[t] # 0 => /\ attempt'[t] \in 1 .. Len(attempts'[t])
                                     /\ attempts'[t][attempt'[t]].status # "failed"
               /\ \A n \in 1 .. Len(attempts'[t]) :
                     attempts'[t][n].status = "running" => n = attempt'[t]
    <3>1. CASE t = s
      <4>1. attempt'[s] # 0 => attempt'[s] = k /\ a.status # "failed"
        BY DEF AttemptsTyped
      <4>2. a.status = "running" => attempt'[s] = k
        BY DEF AttemptsTyped
      <4>3. \A n \in 1 .. Len(attempts[s]) : n # k => attempts[s][n].status # "running"
        BY DEF Shared, Status
      <4> QED BY <1>1, <1>2, <1>3, <3>1, <4>1, <4>2, <4>3
    <3>2. CASE t # s
      BY <1>5, <3>2 DEF Shared, Status
    <3> QED BY <3>1, <3>2
  <2> QED BY <2>1 DEF Shared, Status
<1>8. Growing
  <2>1. ASSUME NEW t \in Step PROVE Len(attempts[t]) <= Len(attempts'[t])
    <3>1. Len(attempts[t]) \in Nat
      BY LenProperties DEF AttemptsTyped
    <3> QED BY <1>2, <1>3, <1>5, <3>1
  <2> QED BY <2>1 DEF Growing
<1>9. ASSUME Copied, env \subseteq env', bound' = bound,
             s = "secrets" => /\ CopiedUpTo(env', a.at)
                              /\ a.status = "succeeded" => bound \subseteq env'
      PROVE  Copied'
  <2>1. CASE s = "secrets"
    <3>1. ASSUME NEW n \in 1 .. Len(q)
          PROVE  /\ CopiedUpTo(env', q[n].at)
                 /\ q[n].status = "succeeded" => bound \subseteq env'
      <4>1. CASE n = k
        BY <1>1, <1>2, <1>3, <1>9, <2>1, <4>1
      <4>2. CASE n # k
        <5>1. q[n] = attempts["secrets"][n] /\ n \in 1 .. Len(attempts["secrets"])
          BY <1>2, <2>1, <4>2
        <5>2. /\ CopiedUpTo(env, attempts["secrets"][n].at)
              /\ attempts["secrets"][n].status = "succeeded" => bound \subseteq env
          BY <1>9, <5>1 DEF Copied
        <5>3. attempts'["secrets"][n] = attempts["secrets"][n]
          BY <1>3, <2>1, <5>1
        <5> QED BY <1>3, <1>9, <2>1, <5>1, <5>2, <5>3 DEF CopiedUpTo
      <4> QED BY <4>1, <4>2
    <3> QED BY <1>3, <1>9, <2>1, <3>1 DEF Copied, CopiedUpTo
  <2>2. CASE s # "secrets"
    <3>1. attempts'["secrets"] = attempts["secrets"]
      BY <1>5, <2>2 DEF Step
    <3> QED BY <1>9, <3>1 DEF Copied, CopiedUpTo
  <2> QED BY <2>1, <2>2
<1> QED BY <1>6, <1>7, <1>8, <1>9

\* A settled attempt keeps how far it came.
LEMMA SettleEffect ==
    ASSUME AttemptsTyped, Shared, NEW s \in Step, IsRunning(s),
           NEW outcome \in {"succeeded", "failed"}, Settle(s, outcome)
    PROVE  \E a \in Attempt :
              /\ a.status = outcome /\ a.at = attempts[s][attempt[s]].at
              /\ attempts' = [attempts EXCEPT ![s] = [attempts[s] EXCEPT ![attempt[s]] = a]]
<1> DEFINE a == [attempts[s][attempt[s]] EXCEPT !.status = outcome]
<1>1. attempts[s][attempt[s]] \in Attempt
  BY ElementOfSeq DEF IsRunning, Shared, AttemptsTyped
<1>2. a \in Attempt /\ a.status = outcome /\ a.at = attempts[s][attempt[s]].at
  BY <1>1 DEF Attempt
<1>3. attempts' = [attempts EXCEPT ![s] = [attempts[s] EXCEPT ![attempt[s]] = a]]
  BY DEF Settle, AttemptsTyped
<1> QED BY <1>2, <1>3

LEMMA AdvanceEffect ==
    ASSUME AttemptsTyped, Shared, NEW s \in Step, IsRunning(s), NEW n \in Nat, Advance(s, n)
    PROVE  \E a \in Attempt :
              /\ a.status = "running" /\ a.at = n
              /\ attempts' = [attempts EXCEPT ![s] = [attempts[s] EXCEPT ![attempt[s]] = a]]
<1> DEFINE a == [attempts[s][attempt[s]] EXCEPT !.at = n]
<1>1. attempts[s][attempt[s]] \in Attempt /\ attempts[s][attempt[s]].status = "running"
  BY ElementOfSeq DEF IsRunning, Status, Shared, AttemptsTyped
<1>2. a \in Attempt /\ a.status = "running" /\ a.at = n
  BY <1>1 DEF Attempt
<1>3. attempts' = [attempts EXCEPT ![s] = [attempts[s] EXCEPT ![attempt[s]] = a]]
  BY DEF Advance, AttemptsTyped
<1> QED BY <1>2, <1>3

-----------------------------------------------------------------------------
(* The steps of start-up.                                                  *)

\* What a shared attempt does is not seen by the requests until they look.
LEMMA StartUpStep ==
    ASSUME BootInv, AttemptsTyped', Shared', Growing, Copied',
           env \subseteq env', env' \subseteq bound,
           UNCHANGED <<bindings, wiring, req, pool, tasks, awaited>>
    PROVE  BootInv'
<1> USE DEF BootInv
<1>1. BootTyped'
  BY DEF BootTyped, AttemptsTyped, wiring, bindings, AllSecrets
<1>2. Waiting'
  <2>1. ASSUME NEW r \in Request, NEW s \in Step, req[r].pc = s
        PROVE  req[r].on \in 1 .. Len(attempts'[s])
    <3>1. Len(attempts[s]) \in Nat /\ Len(attempts'[s]) \in Nat
      BY LenProperties DEF BootTyped, AttemptsTyped
    <3> QED BY <2>1, <3>1 DEF Waiting, Growing
  <2> QED BY <2>1 DEF Waiting
<1>3. Assembled' /\ OneStore'
  BY DEF Assembled, OneStore, wiring, bindings
<1>4. WorkAwaited'
  BY DEF WorkAwaited
<1> QED BY <1>1, <1>2, <1>3, <1>4

LEMMA FetchSecretPreserves ==
    ASSUME BootInv, FetchSecret
    PROVE  BootInv'
<1> DEFINE at == attempts["secrets"][attempt["secrets"]].at
<1>1. "secrets" \in Step /\ AttemptsTyped /\ Shared /\ Copied /\ IsRunning("secrets")
  BY DEF Step, BootInv, BootTyped, AttemptsTyped, FetchSecret
<1>2. /\ attempt["secrets"] \in 1 .. Len(attempts["secrets"])
      /\ attempts["secrets"][attempt["secrets"]] \in Attempt
  BY <1>1, ElementOfSeq DEF IsRunning, Shared, AttemptsTyped
<1>3. at \in Nat /\ CopiedUpTo(env, at)
  BY <1>1, <1>2 DEF Copied, Attempt
<1>4. UNCHANGED <<attempt, bindings, wiring, req, pool, tasks, awaited>> /\ bound' = bound
  BY DEF FetchSecret, bindings
<1>5. env \subseteq bound
  BY DEF BootInv, BootTyped
<1>6. ASSUME NEW n \in Outstanding, \A m \in Outstanding : n <= m,
             env' = env \cup {Secrets[n]}, Advance("secrets", n)
      PROVE  BootInv'
  <2>1. n \in DOMAIN Secrets /\ n \in Nat /\ Secrets[n] \in bound
    BY SecretsTyped DEF Outstanding
  <2>2. PICK a \in Attempt :
          /\ a.status = "running" /\ a.at = n
          /\ attempts' = [attempts EXCEPT !["secrets"] =
                            [attempts["secrets"] EXCEPT ![attempt["secrets"]] = a]]
    BY <1>1, <1>6, <2>1, AdvanceEffect
  <2>3. CopiedUpTo(env', n)
    <3> SUFFICES ASSUME NEW i \in DOMAIN Secrets, i <= n, Secrets[i] \in bound
                 PROVE  Secrets[i] \in env'
      BY <1>4 DEF CopiedUpTo
    <3>1. CASE i <= at
      BY <1>3, <1>6, <3>1 DEF CopiedUpTo
    <3>2. CASE ~(i <= at)
      <4>1. i \in Outstanding
        BY <1>3, <3>2, SecretsTyped DEF Outstanding
      <4>2. i = n
        BY <1>6, <2>1, <4>1, SecretsTyped
      <4> QED BY <1>6, <4>2
    <3> QED BY <3>1, <3>2
  <2>4. CopiedUpTo(env', a.at) /\ a.status # "succeeded" /\ a.status # "failed"
    BY <2>2, <2>3 DEF CopiedUpTo
  <2>5. AttemptsTyped' /\ Shared' /\ Growing /\ Copied'
    BY <1>1, <1>4, <1>6, <2>2, <2>4, HeldEffect
  <2>6. env' \subseteq bound
    BY <1>5, <1>6, <2>1
  <2> QED BY <1>4, <1>6, <2>5, <2>6, StartUpStep
<1>7. CASE Outstanding = {} /\ Settle("secrets", "succeeded") /\ UNCHANGED env
  <2>1. PICK a \in Attempt :
          /\ a.status = "succeeded" /\ a.at = at
          /\ attempts' = [attempts EXCEPT !["secrets"] =
                            [attempts["secrets"] EXCEPT ![attempt["secrets"]] = a]]
    BY <1>1, <1>7, SettleEffect
  <2>2. bound \subseteq env
    <3> SUFFICES ASSUME NEW i \in DOMAIN Secrets, Secrets[i] \in bound
                 PROVE  Secrets[i] \in env
      BY DEF BootInv, BootTyped, AllSecrets
    <3>1. i <= at
      BY <1>3, <1>7, SecretsTyped DEF Outstanding
    <3> QED BY <1>3, <3>1 DEF CopiedUpTo
  <2>3. CopiedUpTo(env', a.at) /\ bound \subseteq env'
    BY <1>3, <1>4, <1>7, <2>1, <2>2 DEF CopiedUpTo
  <2>4. AttemptsTyped' /\ Shared' /\ Growing /\ Copied'
    BY <1>1, <1>4, <1>7, <2>1, <2>3, HeldEffect
  <2> QED BY <1>4, <1>5, <1>7, <2>4, StartUpStep
<1> QED BY <1>6, <1>7 DEF FetchSecret

\* A failure leaves the secrets copied so far where they are.
LEMMA RejectPreserves ==
    ASSUME BootInv, NEW s \in Step, IsRunning(s), Reject(s),
           UNCHANGED <<env, bindings, wiring, req, pool, tasks, awaited>>
    PROVE  BootInv'
<1>1. AttemptsTyped /\ Shared /\ Copied /\ env \subseteq bound /\ bound' = bound
  BY DEF BootInv, BootTyped, AttemptsTyped, bindings
<1>2. PICK a \in Attempt :
        /\ a.status = "failed" /\ a.at = attempts[s][attempt[s]].at
        /\ attempts' = [attempts EXCEPT ![s] = [attempts[s] EXCEPT ![attempt[s]] = a]]
  BY <1>1, SettleEffect DEF Reject
<1>3. attempt[s] \in 1 .. Len(attempts[s])
  BY <1>1 DEF IsRunning, Shared
<1>4. s = "secrets" => CopiedUpTo(env', a.at)
  BY <1>1, <1>2, <1>3 DEF Copied, CopiedUpTo
<1>5. AttemptsTyped' /\ Shared' /\ Growing /\ Copied'
  BY <1>1, <1>2, <1>4, HeldEffect DEF Reject
<1> QED BY <1>1, <1>5, StartUpStep

LEMMA SecretUnavailablePreserves ==
    ASSUME BootInv, SecretUnavailable
    PROVE  BootInv'
BY RejectPreserves DEF SecretUnavailable, Step

LEMMA BeforeFirstRequestPreserves ==
    ASSUME BootInv, BeforeFirstRequest
    PROVE  BootInv'
<1>1. "before" \in Step /\ IsRunning("before")
      /\ UNCHANGED <<env, bindings, wiring, req, pool, tasks, awaited>>
  BY DEF Step, BeforeFirstRequest
<1>2. CASE Settle("before", "succeeded") /\ UNCHANGED attempt
  <2>1. AttemptsTyped /\ Shared /\ Copied /\ env \subseteq bound /\ bound' = bound
    BY <1>1 DEF BootInv, BootTyped, AttemptsTyped, bindings
  <2>2. PICK a \in Attempt :
          /\ a.status = "succeeded"
          /\ attempts' = [attempts EXCEPT !["before"] =
                            [attempts["before"] EXCEPT ![attempt["before"]] = a]]
    BY <1>1, <1>2, <2>1, SettleEffect
  <2>3. AttemptsTyped' /\ Shared' /\ Growing /\ Copied'
    BY <1>1, <1>2, <2>1, <2>2, HeldEffect
  <2> QED BY <1>1, <2>1, <2>3, StartUpStep
<1>3. CASE Reject("before")
  BY <1>1, <1>3, RejectPreserves
<1> QED BY <1>2, <1>3 DEF BeforeFirstRequest

-----------------------------------------------------------------------------
(* The steps of a request.                                                 *)

\* What the invariant says of one request.
RequestOK(r) ==
    /\ req[r] \in ReqRecord
    /\ pool[r] \in {"none", "open", "ended"} /\ awaited[r] \subseteq Task
    /\ \A s \in Step : req[r].pc = s => req[r].on \in 1 .. Len(attempts[s])
    /\ req[r].pc \in Served => app /\ pool[r] = "open"
    /\ DOMAIN tasks[r] \subseteq Task
    /\ DOMAIN tasks[r] # {} => req[r].pc \in {"working", "left"}
    /\ req[r].pc = "left" => DOMAIN tasks[r] \subseteq awaited[r]

LEMMA EachRequest == BootInv => \A r \in Request : RequestOK(r)
BY DEF BootInv, BootTyped, Waiting, Assembled, WorkAwaited, RequestOK

\* A step of one request, which may join or start a shared attempt and assemble
\* the application.
LEMMA RequestStep ==
    ASSUME BootInv, NEW r \in Request,
           AttemptsTyped', Shared', Growing, Copied', UNCHANGED <<env, bindings>>,
           ttlStore' \in Nat, runtime' \in Nat, OneStore',
           auth' \in BOOLEAN, app' = auth', app => app',
           auth' => secretValid /\ "AUTH_SECRET" \in env /\ env = bound,
           NEW x, NEW y, NEW z, NEW w,
           req' = [req EXCEPT ![r] = x], pool' = [pool EXCEPT ![r] = y],
           tasks' = [tasks EXCEPT ![r] = z], awaited' = [awaited EXCEPT ![r] = w],
           RequestOK(r)'
    PROVE  BootInv'
<1>0. \A q \in Request : RequestOK(q)
  BY EachRequest
<1>1. /\ req \in [Request -> ReqRecord] /\ pool \in [Request -> {"none", "open", "ended"}]
      /\ tasks = [q \in Request |-> tasks[q]] /\ awaited \in [Request -> SUBSET Task]
      /\ env \subseteq bound /\ bound \subseteq AllSecrets
  BY DEF BootInv, BootTyped
<1>2. \A q \in Request : q # r => /\ req'[q] = req[q] /\ pool'[q] = pool[q]
                                  /\ tasks'[q] = tasks[q] /\ awaited'[q] = awaited[q]
  BY <1>1
<1>3. ASSUME NEW q \in Request PROVE RequestOK(q)'
  <2>1. CASE q = r
    BY <2>1
  <2>2. CASE q # r
    <3>1. ASSUME NEW s \in Step, req[q].pc = s PROVE req[q].on \in 1 .. Len(attempts'[s])
      <4>1. Len(attempts[s]) \in Nat /\ Len(attempts'[s]) \in Nat
        BY LenProperties DEF BootInv, BootTyped, AttemptsTyped
      <4> QED BY <1>0, <3>1, <4>1 DEF RequestOK, Growing
    <3>2. /\ req'[q] = req[q] /\ pool'[q] = pool[q]
          /\ tasks'[q] = tasks[q] /\ awaited'[q] = awaited[q]
      BY <1>2, <2>2
    <3> QED BY <1>0, <3>1, <3>2 DEF RequestOK
  <2> QED BY <2>1, <2>2
<1>4. /\ req' \in [Request -> ReqRecord] /\ pool' \in [Request -> {"none", "open", "ended"}]
      /\ awaited' \in [Request -> SUBSET Task]
  BY <1>1, <1>3 DEF RequestOK
<1>5. tasks' = [q \in Request |-> tasks'[q]]
  BY <1>1
<1>6. BootTyped'
  BY <1>1, <1>4, <1>5 DEF BootTyped, AttemptsTyped, AllSecrets, bindings
<1>7. Waiting' /\ WorkAwaited'
  BY <1>3 DEF Waiting, WorkAwaited, RequestOK
<1>8. Assembled'
  BY <1>3 DEF Assembled, RequestOK, bindings
<1> QED BY <1>6, <1>7, <1>8 DEF BootInv

\* The same for a step that leaves start-up alone.
LEMMA LocalStep ==
    ASSUME BootInv, NEW r \in Request, UNCHANGED <<shared, env, bindings, wiring>>,
           NEW x, NEW y, NEW z, NEW w,
           req' = [req EXCEPT ![r] = x], pool' = [pool EXCEPT ![r] = y],
           tasks' = [tasks EXCEPT ![r] = z], awaited' = [awaited EXCEPT ![r] = w],
           RequestOK(r)'
    PROVE  BootInv'
<1>1. AttemptsTyped' /\ Shared' /\ Copied'
  BY DEF BootInv, BootTyped, AttemptsTyped, Shared, Status, Copied, CopiedUpTo, shared,
     bindings
<1>2. Growing
  <2>1. ASSUME NEW s \in Step PROVE Len(attempts[s]) <= Len(attempts[s]')
    <3>1. Len(attempts[s]) \in Nat
      BY LenProperties DEF BootInv, BootTyped
    <3> QED BY <3>1 DEF shared
  <2> QED BY <2>1 DEF Growing
<1>3. /\ ttlStore' \in Nat /\ runtime' \in Nat /\ OneStore'
      /\ auth' \in BOOLEAN /\ app' = auth' /\ (app => app')
      /\ auth' => secretValid /\ "AUTH_SECRET" \in env /\ env = bound
  BY DEF BootInv, BootTyped, OneStore, Assembled, wiring
<1> QED BY <1>1, <1>2, <1>3, RequestStep

\* What a step leaves alone is put back where it was.
LEMMA Same ==
    ASSUME BootInv, NEW r \in Request
    PROVE  /\ req = [req EXCEPT ![r] = req[r]] /\ pool = [pool EXCEPT ![r] = pool[r]]
           /\ tasks = [tasks EXCEPT ![r] = tasks[r]]
           /\ awaited = [awaited EXCEPT ![r] = awaited[r]]
           /\ RequestOK(r)
<1>1. /\ req \in [Request -> ReqRecord] /\ pool \in [Request -> {"none", "open", "ended"}]
      /\ awaited \in [Request -> SUBSET Task]
  BY DEF BootInv, BootTyped
<1>2. tasks = [tasks EXCEPT ![r] = tasks[r]]
  <2>1. tasks = [q \in Request |-> tasks[q]]
    BY DEF BootInv, BootTyped
  <2> QED BY <2>1
<1> QED BY <1>1, <1>2, EachRequest

LEMMA ArrivePreserves ==
    ASSUME BootInv, NEW r \in Request, Arrive(r)
    PROVE  BootInv'
<1>1. "secrets" \in Step /\ AttemptsTyped /\ Shared /\ Copied /\ once("secrets")
      /\ UNCHANGED <<env, bound>>
  BY DEF Step, BootInv, BootTyped, AttemptsTyped, Arrive, bindings
<1>2. /\ AttemptsTyped' /\ Shared' /\ Growing /\ Copied'
      /\ attempt'["secrets"] \in 1 .. Len(attempts'["secrets"])
  BY <1>1, OnceEffect
<1>3. /\ ttlStore' \in Nat /\ runtime' \in Nat /\ OneStore'
      /\ auth' \in BOOLEAN /\ app' = auth' /\ (app => app')
      /\ auth' => secretValid /\ "AUTH_SECRET" \in env /\ env = bound
  BY DEF Arrive, BootInv, BootTyped, OneStore, Assembled, wiring
<1> DEFINE x == [req[r] EXCEPT !.pc = "secrets", !.on = attempt'["secrets"]]
<1>4. /\ req' = [req EXCEPT ![r] = x]
      /\ pool' = [pool EXCEPT ![r] = pool[r]] /\ tasks' = [tasks EXCEPT ![r] = tasks[r]]
      /\ awaited' = [awaited EXCEPT ![r] = awaited[r]]
      /\ RequestOK(r) /\ r \in DOMAIN req
  BY Same DEF Arrive, Wait, BootInv, BootTyped
<1>5. attempt'["secrets"] \in Nat
  BY <1>1, <1>2 DEF AttemptsTyped
<1>6. /\ x \in ReqRecord /\ x.pc = "secrets" /\ x.on = attempt'["secrets"]
      /\ x.answer = req[r].answer /\ req[r].pc = "idle"
  BY <1>4, <1>5 DEF RequestOK, ReqRecord, Arrive
<1> HIDE DEF x
<1>7. RequestOK(r)'
  <2>1. req'[r] = x /\ pool'[r] = pool[r] /\ tasks'[r] = tasks[r] /\ awaited'[r] = awaited[r]
    BY <1>4 DEF Arrive
  <2> QED BY <1>2, <1>4, <1>6, <2>1 DEF RequestOK, Step, Served
<1>8. UNCHANGED <<env, bindings>>
  BY DEF Arrive
<1> QED BY <1>2, <1>3, <1>4, <1>7, <1>8, RequestStep

LEMMA FetchPreserves ==
    ASSUME BootInv, NEW r \in Request, Fetch(r)
    PROVE  BootInv'
<1>1. /\ "before" \in Step /\ "secrets" \in Step /\ AttemptsTyped /\ Shared /\ Copied
      /\ UNCHANGED <<env, bound, bindings, tasks, awaited>>
  BY DEF Step, BootInv, BootTyped, AttemptsTyped, Fetch, bindings
<1>2. /\ tasks' = [tasks EXCEPT ![r] = tasks[r]]
      /\ awaited' = [awaited EXCEPT ![r] = awaited[r]]
      /\ pool = [pool EXCEPT ![r] = pool[r]]
      /\ RequestOK(r) /\ r \in DOMAIN req /\ r \in DOMAIN pool /\ req[r].pc = "secrets"
  BY <1>1, Same DEF BootInv, BootTyped, Fetch
<1>3. env = bound
  <2>1. req[r].on \in 1 .. Len(attempts["secrets"])
    BY <1>1, <1>2 DEF RequestOK
  <2>2. attempts["secrets"][req[r].on].status = "succeeded"
    BY DEF Fetch, Status
  <2>3. bound \subseteq env
    BY <1>1, <2>1, <2>2 DEF Copied
  <2> QED BY <2>3 DEF BootInv, BootTyped
<1>4. bootError # "secondStore" /\ bootError \in {"none", "badSecret"}
  BY DEF bootError, keptStore, BootInv, OneStore
<1>5. /\ ttlStore' \in Nat /\ runtime' \in Nat /\ OneStore'
      /\ auth' \in BOOLEAN /\ app' = auth' /\ (app => app')
  <2>1. CASE app
    BY <2>1 DEF Fetch, Bootstrap, wiring, BootInv, BootTyped, OneStore, Assembled
  <2>2. CASE ~app
    BY <1>4, <2>2 DEF Fetch, Bootstrap, keptStore, BootInv, BootTyped, OneStore, Assembled
  <2> QED BY <2>1, <2>2
<1>6. auth' => secretValid /\ "AUTH_SECRET" \in env /\ env = bound
  <2>1. CASE app
    BY <2>1 DEF Fetch, Bootstrap, wiring, BootInv, Assembled
  <2>2. CASE ~app
    <3>1. ~auth /\ (auth' => bootError = "none")
      BY <2>2 DEF Fetch, Bootstrap, BootInv, BootTyped, Assembled
    <3> QED BY <1>3, <3>1 DEF bootError
  <2> QED BY <2>1, <2>2
<1>7. CASE app'
  <2>1. once("before") /\ pool' = [pool EXCEPT ![r] = "open"]
        /\ Wait(r, "before", attempt'["before"])
    BY <1>7 DEF Fetch
  <2>2. /\ AttemptsTyped' /\ Shared' /\ Growing /\ Copied'
        /\ attempt'["before"] \in 1 .. Len(attempts'["before"])
    BY <1>1, <2>1, OnceEffect
  <2> DEFINE x == [req[r] EXCEPT !.pc = "before", !.on = attempt'["before"]]
  <2>3. req' = [req EXCEPT ![r] = x] /\ attempt'["before"] \in Nat
    BY <1>1, <2>1, <2>2 DEF Wait, AttemptsTyped
  <2>4. /\ x \in ReqRecord /\ x.pc = "before" /\ x.on = attempt'["before"]
        /\ x.answer = req[r].answer
    BY <1>2, <2>3 DEF RequestOK, ReqRecord, Served
  <2> HIDE DEF x
  <2>5. RequestOK(r)'
    <3>1. req'[r] = x /\ pool'[r] = "open" /\ tasks'[r] = tasks[r] /\ awaited'[r] = awaited[r]
      BY <1>1, <1>2, <2>1, <2>3
    <3> QED BY <1>2, <1>7, <2>2, <2>4, <3>1 DEF RequestOK, Step, Served
  <2> QED BY <1>1, <1>2, <1>5, <1>6, <2>1, <2>2, <2>3, <2>5, RequestStep
<1>8. CASE ~app'
  <2>1. Throw(r, bootError) /\ UNCHANGED <<shared, pool>>
    BY <1>8 DEF Fetch
  <2>2. AttemptsTyped' /\ Shared' /\ Copied' /\ Growing
    <3>1. AttemptsTyped' /\ Shared' /\ Copied'
      BY <1>1, <2>1 DEF AttemptsTyped, Shared, Status, Copied, CopiedUpTo, shared
    <3>2. ASSUME NEW s \in Step PROVE Len(attempts[s]) <= Len(attempts[s]')
      <4>1. Len(attempts[s]) \in Nat
        BY LenProperties, <1>1 DEF AttemptsTyped
      <4> QED BY <2>1, <4>1 DEF shared
    <3> QED BY <3>1, <3>2 DEF Growing
  <2> DEFINE x == [req[r] EXCEPT !.pc = "closed", !.on = 0, !.answer = bootError]
  <2>3. req' = [req EXCEPT ![r] = x]
    BY <2>1 DEF Throw
  <2>4. bootError = "badSecret"
    <3>1. CASE app
      BY <1>8, <3>1 DEF Fetch, Bootstrap, wiring
    <3>2. CASE ~app
      BY <1>4, <1>8, <3>2 DEF Fetch, Bootstrap
    <3> QED BY <3>1, <3>2
  <2>5. x \in ReqRecord /\ x.pc = "closed"
       
    BY <1>2, <2>4 DEF RequestOK, ReqRecord, Served
  <2> HIDE DEF x
  <2>6. RequestOK(r)'
    <3>1. /\ req'[r] = x /\ pool'[r] = pool[r] /\ tasks'[r] = tasks[r]
          /\ awaited'[r] = awaited[r]
      BY <1>1, <1>2, <2>1, <2>3
    <3> QED BY <1>2, <2>5, <3>1 DEF RequestOK, Step, Served
  <2>7. pool' = [pool EXCEPT ![r] = pool[r]]
    BY <1>2, <2>1
  <2> QED BY <1>1, <1>2, <1>5, <1>6, <2>2, <2>3, <2>6, <2>7, RequestStep
<1> QED BY <1>7, <1>8

LEMMA SecretsFailPreserves ==
    ASSUME BootInv, NEW r \in Request, SecretsFail(r)
    PROVE  BootInv'
<1> DEFINE x == [req[r] EXCEPT !.pc = "closed", !.on = 0, !.answer = "secrets"]
<1>1. /\ req' = [req EXCEPT ![r] = x]
      /\ pool' = [pool EXCEPT ![r] = pool[r]] /\ tasks' = [tasks EXCEPT ![r] = tasks[r]]
      /\ awaited' = [awaited EXCEPT ![r] = awaited[r]]
      /\ RequestOK(r) /\ r \in DOMAIN req
      /\ UNCHANGED <<shared, env, bindings, wiring, pool, tasks, awaited>>
  BY Same DEF SecretsFail, Throw, BootInv, BootTyped
<1>2. x \in ReqRecord /\ x.pc = "closed" /\ req[r].pc = "secrets"
  BY <1>1 DEF RequestOK, ReqRecord, SecretsFail
<1> HIDE DEF x
<1>3. RequestOK(r)'
  BY <1>1, <1>2 DEF RequestOK, Step, Served
<1> QED BY <1>1, <1>3, LocalStep

\* What the finally block hands to waitUntil is all the work there is.
LEMMA LeavePreserves ==
    ASSUME BootInv, NEW r \in Request, req[r].pc \in Served, Finally(r),
           UNCHANGED <<shared, env, bindings, wiring, pool, tasks>>,
           NEW x \in ReqRecord, x.pc = "left",
           req' = [req EXCEPT ![r] = x]
    PROVE  BootInv'
<1>1. /\ awaited' = [awaited EXCEPT ![r] = DOMAIN tasks[r]]
      /\ pool' = [pool EXCEPT ![r] = pool[r]] /\ tasks' = [tasks EXCEPT ![r] = tasks[r]]
      /\ RequestOK(r) /\ r \in DOMAIN req /\ r \in DOMAIN awaited
  BY Same DEF Finally, BootInv, BootTyped
<1>2. /\ req'[r] = x /\ awaited'[r] = DOMAIN tasks[r] /\ pool'[r] = pool[r]
      /\ tasks'[r] = tasks[r] /\ app' = app
  BY <1>1 DEF wiring
<1>3. RequestOK(r)'
  BY <1>1, <1>2 DEF RequestOK, Step, Served
<1> QED BY <1>1, <1>3, LocalStep

LEMMA BeforeFailsPreserves ==
    ASSUME BootInv, NEW r \in Request, BeforeFails(r)
    PROVE  BootInv'
<1> DEFINE x == [req[r] EXCEPT !.pc = "left", !.on = 0, !.answer = "before"]
<1>1. req[r] \in ReqRecord
  BY DEF BootInv, BootTyped
<1>2. x \in ReqRecord /\ x.pc = "left" /\ req' = [req EXCEPT ![r] = x]
  BY <1>1 DEF ReqRecord, Served, BeforeFails
<1> HIDE DEF x
<1> QED BY <1>2, LeavePreserves DEF BeforeFails, Served

LEMMA RespondPreserves ==
    ASSUME BootInv, NEW r \in Request, Respond(r)
    PROVE  BootInv'
<1> DEFINE x == [req[r] EXCEPT !.pc = "left", !.answer = "response"]
<1>1. req[r] \in ReqRecord /\ req[r].pc \in Served
  BY DEF BootInv, BootTyped, Respond, Served
<1>2. x \in ReqRecord /\ x.pc = "left" /\ req' = [req EXCEPT ![r] = x]
  BY <1>1 DEF ReqRecord, Served, Respond
<1> HIDE DEF x
<1> QED BY <1>1, <1>2, LeavePreserves DEF Respond

LEMMA EnterAppPreserves ==
    ASSUME BootInv, NEW r \in Request, EnterApp(r)
    PROVE  BootInv'
<1> DEFINE x == [req[r] EXCEPT !.pc = "app", !.on = 0]
<1>1. /\ req' = [req EXCEPT ![r] = x]
      /\ pool' = [pool EXCEPT ![r] = pool[r]] /\ tasks' = [tasks EXCEPT ![r] = tasks[r]]
      /\ awaited' = [awaited EXCEPT ![r] = awaited[r]]
      /\ RequestOK(r) /\ r \in DOMAIN req
      /\ UNCHANGED <<shared, env, bindings, wiring, pool, tasks, awaited>>
  BY Same DEF EnterApp, Wait, BootInv, BootTyped
<1>2. /\ x \in ReqRecord /\ x.pc = "app" /\ req[r].pc = "before"
      /\ x.answer = req[r].answer
  BY <1>1 DEF RequestOK, ReqRecord, EnterApp, Served
<1> HIDE DEF x
<1>3. RequestOK(r)'
  BY <1>1, <1>2 DEF RequestOK, Step, Served, wiring
<1> QED BY <1>1, <1>3, LocalStep

LEMMA RunBackgroundPreserves ==
    ASSUME BootInv, NEW r \in Request, RunBackground(r)
    PROVE  BootInv'
<1> DEFINE x == [req[r] EXCEPT !.pc = "working", !.on = 0]
<1>0. PICK work \in Work : tasks' = [tasks EXCEPT ![r] = [t \in work |-> 1]]
  BY DEF RunBackground
<1>1. /\ req' = [req EXCEPT ![r] = x]
      /\ pool' = [pool EXCEPT ![r] = pool[r]]
      /\ awaited' = [awaited EXCEPT ![r] = awaited[r]]
      /\ RequestOK(r) /\ r \in DOMAIN req
      /\ UNCHANGED <<shared, env, bindings, wiring, pool, awaited>>
  BY Same DEF RunBackground, Wait, BootInv, BootTyped
<1>2. /\ x \in ReqRecord /\ x.pc = "working" /\ req[r].pc = "app"
      /\ x.answer = req[r].answer
  BY <1>1 DEF RequestOK, ReqRecord, RunBackground, Served
<1>3. tasks'[r] = [t \in work |-> 1]
  <2>1. tasks = [q \in Request |-> tasks[q]]
    BY DEF BootInv, BootTyped
  <2> QED BY <1>0, <2>1
<1>4. DOMAIN tasks'[r] \subseteq Task
  BY <1>3 DEF Work, Task
<1> HIDE DEF x
<1>5. RequestOK(r)'
  BY <1>1, <1>2, <1>4 DEF RequestOK, Step, Served, wiring
<1> QED BY <1>0, <1>1, <1>5, LocalStep

\* The pool is ended when no work is left: all of it was awaited.
LEMMA EndPoolPreserves ==
    ASSUME BootInv, NEW r \in Request, EndPool(r)
    PROVE  BootInv'
<1> DEFINE x == [req[r] EXCEPT !.pc = "closed"]
<1>1. /\ req' = [req EXCEPT ![r] = x] /\ pool' = [pool EXCEPT ![r] = "ended"]
      /\ tasks' = [tasks EXCEPT ![r] = tasks[r]]
      /\ awaited' = [awaited EXCEPT ![r] = {}]
      /\ RequestOK(r) /\ r \in DOMAIN req /\ r \in DOMAIN pool /\ r \in DOMAIN awaited
      /\ UNCHANGED <<shared, env, bindings, wiring, tasks>>
  BY Same DEF EndPool, BootInv, BootTyped
<1>2. /\ x \in ReqRecord /\ x.pc = "closed" /\ req[r].pc = "left"
      /\ x.answer = req[r].answer
  BY <1>1 DEF RequestOK, ReqRecord, EndPool
<1>3. DOMAIN tasks[r] = {}
  BY <1>1, <1>2 DEF RequestOK, EndPool
<1> HIDE DEF x
<1>4. RequestOK(r)'
  BY <1>1, <1>2, <1>3 DEF RequestOK, Step, Served
<1> QED BY <1>1, <1>4, LocalStep

\* A task moves on or ends; none is added.
LEMMA WorkPreserves ==
    ASSUME BootInv, NEW r \in Request, NEW t \in Task, Proceed(r, t) \/ GiveUp(r, t),
           UNCHANGED <<shared, env, bindings, wiring, req, pool, awaited>>
    PROVE  BootInv'
<1>1. /\ req' = [req EXCEPT ![r] = req[r]]
      /\ pool' = [pool EXCEPT ![r] = pool[r]]
      /\ awaited' = [awaited EXCEPT ![r] = awaited[r]]
      /\ RequestOK(r)
  BY Same
<1>2. tasks = [q \in Request |-> tasks[q]]
  BY DEF BootInv, BootTyped
<1>3. PICK z : tasks' = [tasks EXCEPT ![r] = z] /\ DOMAIN z \subseteq DOMAIN tasks[r]
  <2>1. CASE GiveUp(r, t)
    <3> DEFINE z == Restrict(tasks[r], DOMAIN tasks[r] \ {t})
    <3>1. DOMAIN z \subseteq DOMAIN tasks[r]
      BY DEF Restrict
    <3>2. tasks' = [tasks EXCEPT ![r] = z]
      BY <1>2, <2>1 DEF GiveUp
    <3> QED BY <3>1, <3>2
  <2>2. CASE tasks' = [tasks EXCEPT ![r][t] = @ + 1]
    <3> DEFINE z == [tasks[r] EXCEPT ![t] = @ + 1]
    <3>1. DOMAIN z \subseteq DOMAIN tasks[r]
      OBVIOUS
    <3>2. tasks' = [tasks EXCEPT ![r] = z]
      BY <2>2
    <3> QED BY <3>1, <3>2
  <2> QED BY <2>1, <2>2 DEF Proceed
<1>4. tasks'[r] = z
  BY <1>2, <1>3
<1>5. RequestOK(r)'
  BY <1>1, <1>3, <1>4 DEF RequestOK, shared, wiring
<1> QED BY <1>1, <1>3, <1>5, LocalStep

-----------------------------------------------------------------------------
(* The theorems.                                                           *)

LEMMA BootInitially == BootInit => BootInv
<1> SUFFICES ASSUME BootInit PROVE BootInv
  OBVIOUS
<1>1. AttemptsTyped /\ \A s \in Step : attempts[s] = <<>> /\ attempt[s] = 0
  BY EmptySeq DEF BootInit, AttemptsTyped
<1>2. \A s \in Step : Len(attempts[s]) = 0
  BY <1>1, EmptySeq
<1>3. Shared /\ Copied
  BY <1>1, <1>2 DEF Shared, Copied, Step
<1>4. Idle \in ReqRecord /\ Idle.pc = "idle" /\ Idle.answer = "none"
  BY DEF Idle, ReqRecord
<1>5. req \in [Request -> ReqRecord] /\ \A r \in Request : req[r] = Idle
  BY <1>4 DEF BootInit
<1>6. BootTyped
  BY <1>1, <1>5 DEF BootInit, BootTyped, AttemptsTyped, AllSecrets
<1>7. Waiting
  BY <1>4, <1>5 DEF Waiting, Step
<1>8. Assembled /\ OneStore
  BY <1>4, <1>5 DEF BootInit, Assembled, OneStore, Served
<1>9. WorkAwaited
  <2>1. \A r \in Request : DOMAIN tasks[r] = {}
    BY DEF BootInit
  <2> QED BY <1>4, <1>5, <2>1 DEF WorkAwaited, Served
<1> QED BY <1>3, <1>6, <1>7, <1>8, <1>9 DEF BootInv

LEMMA BootStep == BootInv /\ [BootNext]_bootVars => BootInv'
<1> SUFFICES ASSUME BootInv, [BootNext]_bootVars PROVE BootInv'
  OBVIOUS
<1>1. CASE FetchSecret
  BY <1>1, FetchSecretPreserves
<1>2. CASE SecretUnavailable
  BY <1>2, SecretUnavailablePreserves
<1>3. CASE BeforeFirstRequest
  BY <1>3, BeforeFirstRequestPreserves
<1>4. ASSUME NEW r \in Request,
             \/ Arrive(r) \/ SecretsFail(r) \/ Fetch(r) \/ BeforeFails(r)
             \/ EnterApp(r) \/ RunBackground(r) \/ Respond(r) \/ EndPool(r)
      PROVE  BootInv'
  BY <1>4, ArrivePreserves, SecretsFailPreserves, FetchPreserves, BeforeFailsPreserves,
     EnterAppPreserves, RunBackgroundPreserves, RespondPreserves, EndPoolPreserves
<1>5. ASSUME NEW r \in Request, NEW t \in Task,
             Query(r, t) \/ MailAnswers(r, t) \/ MailTimesOut(r, t)
      PROVE  BootInv'
  BY <1>5, WorkPreserves DEF Query, MailAnswers, MailTimesOut
<1>6. CASE UNCHANGED bootVars
  BY <1>6 DEF bootVars, BootInv, BootTyped, Shared, Status, Copied, Waiting, Assembled,
     OneStore, WorkAwaited, CopiedUpTo, AllSecrets
<1> QED BY <1>1, <1>2, <1>3, <1>4, <1>5, <1>6 DEF BootNext

\* Requests that share start-up, each with its own pool, keep the isolate
\* consistent, whatever fails and in whatever order.
THEOREM BootConsistent == BootSpec => []BootInv
BY BootInitially, BootStep, PTL DEF BootSpec

\* onceUntilSucceeded: requests that arrive together share one attempt.
THEOREM AttemptsShared == BootSpec => []OneAttemptAtATime
<1>1. BootInv => OneAttemptAtATime
  <2> SUFFICES ASSUME BootInv, NEW s \in Step
               PROVE  Cardinality({n \in DOMAIN attempts[s] : Status(s, n) = "running"}) <= 1
    BY DEF OneAttemptAtATime
  <2> DEFINE T == {n \in DOMAIN attempts[s] : Status(s, n) = "running"}
  <2>1. DOMAIN attempts[s] = 1 .. Len(attempts[s])
    BY LenProperties DEF BootInv, BootTyped
  <2>2. T \subseteq {attempt[s]}
    BY <2>1 DEF BootInv, Shared
  <2>3. IsFiniteSet({attempt[s]}) /\ Cardinality({attempt[s]}) = 1
    BY FS_Singleton
  <2>4. Cardinality(T) <= Cardinality({attempt[s]})
    BY <2>2, <2>3, FS_Subset
  <2> QED BY <2>3, <2>4
<1> QED BY <1>1, BootConsistent, PTL

\* A rejection is seen by the requests that waited for it, and a later one starts
\* over: the memo lets go of a failed attempt (onceUntilSucceeded).
THEOREM FailureLetGo == BootSpec => FailureNotKept
<1>1. ASSUME BootInv, BootNext, NEW r \in Request, req[r].pc = "idle", req'[r].pc = "secrets"
      PROVE  attempts["secrets"]'[req'[r].on].status # "failed"
  <2>1. Arrive(r)
    <3>1. ASSUME NEW q \in Request,
                 \/ Arrive(q) \/ SecretsFail(q) \/ Fetch(q) \/ BeforeFails(q)
                 \/ EnterApp(q) \/ RunBackground(q) \/ Respond(q) \/ EndPool(q)
          PROVE  q = r /\ Arrive(q)
      <4>1. req \in [Request -> ReqRecord]
        BY <1>1 DEF BootInv, BootTyped
      <4>2. q = r
        BY <1>1, <3>1, <4>1 DEF Arrive, SecretsFail, Fetch, BeforeFails, EnterApp,
           RunBackground, Respond, EndPool, Wait, Throw
      <4> QED BY <1>1, <3>1, <4>2 DEF SecretsFail, Fetch, BeforeFails, EnterApp,
           RunBackground, Respond, EndPool
    <3>2. req' # req
      BY <1>1
    <3> QED BY <1>1, <3>1, <3>2 DEF BootNext, FetchSecret, SecretUnavailable,
         BeforeFirstRequest, Query, MailAnswers, MailTimesOut
  <2>2. req'[r].on = attempt'["secrets"]
    BY <1>1, <2>1 DEF Arrive, Wait, BootInv, BootTyped, ReqRecord
  <2>3. /\ Shared' /\ "secrets" \in Step
        /\ attempt["secrets"]' \in 1 .. Len(attempts["secrets"]')
    BY <1>1, <2>1, OnceEffect DEF Arrive, BootInv, BootTyped, AttemptsTyped, Step
  <2>4. attempt["secrets"]' # 0
    BY <2>3
  <2> QED BY <2>2, <2>3, <2>4 DEF Shared, Status
<1>2. BootInv /\ [BootNext]_bootVars =>
        [\A r \in Request :
            /\ req[r].pc = "idle" /\ req'[r].pc = "secrets"
            => attempts["secrets"]'[req'[r].on].status # "failed"]_bootVars
  BY <1>1
<1> QED BY <1>2, BootConsistent, PTL DEF BootSpec, FailureNotKept

\* No request reaches the application before every secret that is bound was
\* copied, and better-auth built from a valid AUTH_SECRET among them
\* (resolveSecretsBeforeHandler, bootstrapOnce).
THEOREM SecretsBeforeService == BootSpec => []ServedWithSecrets
<1>1. BootInv => ServedWithSecrets
  BY DEF BootInv, Assembled, Served, ServedWithSecrets
<1> QED BY <1>1, BootConsistent, PTL

\* A boot that is tried again is never refused for its store (initRuntime).
THEOREM StoreKept == BootSpec => []RetryMeetsSameError
<1>1. BootInv => RetryMeetsSameError
  BY DEF BootInv, BootTyped, ReqRecord, RetryMeetsSameError
<1> QED BY <1>1, BootConsistent, PTL

\* Work left behind by a response still has its pool (createWorker, Background).
THEOREM PoolKept == BootSpec => []PoolOutlivesWork
<1>1. BootInv => PoolOutlivesWork
  BY DEF BootInv, WorkAwaited, PoolOutlivesWork, Busy, Served
<1> QED BY <1>1, BootConsistent, PTL

=============================================================================
