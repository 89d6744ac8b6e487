# taimei-auth in TLA+

taimei-auth is the authentication and tenancy service of a family of web
applications: a Cloudflare Worker that signs users in (better-auth: magic link or
GitHub), keeps companies, memberships and invitations in Postgres, keeps
short-lived state in Durable Objects, and serves a single-page application and an
RPC interface. This directory specifies the parts of it that change state, checks
them with TLC on small instances, and proves what matters most with TLAPS for
instances of any size.

What is worth specifying here is concurrency. Every request is an independent
Worker invocation; the service relies on Postgres row locks, on single-statement
compare-and-set updates and on the per-key serialisation of Durable Objects, and on
nothing else. Tests run requests one at a time or race two of them by luck.

Paths below are relative to the root of the repository.

## Inventory

| Component | State it keeps | Operations | Where |
|---|---|---|---|
| membership use cases | `membership` rows (role), `user.last_used_company_id` | change role, remove, transfer ownership, switch company | `src/membership/`, `db/repositories/membership.ts` |
| membership guards | none; a *grant* handed to the use case | one guard per route | `src/membership/guard/` |
| invitations | `invitation` rows: PENDING, ACCEPTED, REVOKED, with an expiry | create, accept, revoke | `src/invitation/` |
| companies | `company` rows: ACTIVE, DELETED | sign-up company, add, update, soft delete | `src/company/` |
| accounts | `user` rows | withdrawal, deletion of orphans, sweep of abandoned sign-ups | `src/account/` |
| transactions | uncommitted rows, row and advisory locks, afterCommit hooks | run, commit, roll back | `src/transaction.ts`, `db/transaction.ts` |
| TTL store | key → value with expiry, in one Durable Object per key | get, set, delete, getAndDelete, incrementWindow, mergeSessionIndex, alarm | `src/ttl-store*.ts`, `src/kv-store.*.ts` |
| attempt budgets | a counter per window in the TTL store | spend (fail-open or fail-closed), reset | `src/attempt-budget.ts` |
| second factor (TOTP) | `mfa_totp` row, `mfa_recovery_code` rows | enroll, activate, disable, operator's rescue | `src/mfa/totp/`, `db/repositories/mfa-totp.ts` |
| login challenge | one key per challenge and its counter | open after primary authentication, complete, expire | `src/mfa/totp/login-challenge.ts`, `src/auth-plugins/` |
| sessions | better-auth's: one key per session, and per user an index of its sessions, both in the TTL store | issue, check, delete one, delete all, merge the index | `src/auth*.ts`, `src/session-*.ts`, `src/ttl-store-better-auth.ts` |
| boot and runtime | per isolate: secrets in the environment, the kept TTL store, the runtime, better-auth, the application; per request: its database pool and its background work | resolve secrets, bootstrap, first-request hook, serve, report, close | `src/worker.ts`, `src/boot.ts`, `src/runtime.ts`, `src/once-until-succeeded.ts`, `src/background.ts`, `src/run-route.ts` |
| audit log, e-mail | append-only rows; none | append, send, both possibly in the background | `src/audit/`, `src/email/` |
| RPC services | none; they read session, user and memberships | getSession, verifySession, listCurrentCompanyMembers, and two lookups | `src/rpc/` |
| auth-client SDK | the answers of one request of a consumer | the guard, against new and old servers | `packages/auth-client/` |
| SPA | per tab: route, mutation and query atoms, busy components, dialogs | 21 handlers that change something, refetches, redirects | `web/src/` |

How they interact. A route's guard reads committed rows *outside* any transaction and
hands what it found (the grant) to the use case, which opens a transaction later.
The use case issues its statements one by one; other requests run between any two of
them. Deleting a company or an account removes memberships, which reassigns current
companies, which may delete accounts, which cascades to memberships and invitations.
Signing in goes through better-auth, whose after-hook decides whether the new session
is handed out or replaced by a challenge. The second factor's use cases alternate
between Postgres, the TTL store and better-auth without a transaction around them.
better-auth keeps its index of sessions by reading it, changing its copy and writing it
back, in separate calls to the store. A consumer learns who its visitor is by RPCs that
read the session store, the user row and the memberships one after the other, and sends
the visitor to pages of this service that decide for themselves from what they then
find. The components of the SPA share one atom per mutation, and calling it again
interrupts the call under way.

What is hard: grants that are stale when used; locking reads whose rows are chosen
before their locks are granted; deletes that find nothing and hence lock nothing;
several steps of which any may fail; calls to the store that fail after they took
effect; counters at their limit; windows that expire in the middle of a request; alarms
that fire after their entry was rewritten; a shared start-up that fails while others
wait for it; work that outlives its request; redirects that each decide anew; answers
that arrive after the page they were for. The full list, with lines, is under `hazards` in `PROJECT.json`.

What makes each part correct:

* companies and memberships — a company in use has an OWNER; a membership is of a
  company in use, and only such a company is updated; nobody's current company dangles; an account that loses its last
  company goes with it and no other account does;
* invitations — spent once; an OWNER invitation needs an inviter who is still OWNER;
* second factor — while it is active nobody holds a session on the primary factor
  alone; a code is accepted once; a challenge is passed once, within its budget; the
  recovery codes that were shown are the ones that work;
* TTL store and sessions — an entry is there until its expiry and no longer, whatever
  its alarms do, and leaves the storage in the end; a session that can be used can be
  revoked;
* RPC, SDK and redirects — the answers a page puts together are about one company and
  were true; a deleted account stays out, and so does a session that carries an older revision; redirects end,
  at the place the visitor wanted unless the challenge refuses its address;
* boot — one attempt at a time, a failed one is not kept; nothing is served before the
  secrets that are bound are there; the pool outlives the work that needs it; requests end;
* SPA — a success notice agrees with the screen; recovery codes on screen are the active
  ones and stay; nothing stays busy.

## Modules

| Module | What it is |
|---|---|
| `Policy` | the role order and the role predicates of `src/membership/policy.ts` |
| `RowStore` | Postgres as the service uses it: committed rows, uncommitted writes per connection, the four row-lock modes, advisory locks, statement, commit, rollback |
| `Tenancy` | users, companies, memberships, invitations and every use case that changes them; extends both |
| `TenancyProofs` | the lock discipline of `Tenancy` and what it gives for single rows |
| `MembershipProofs` | what holds between users, memberships and companies, from the locks of all modes; extends `TenancyProofs` |
| `OwnerProofs` | that deleted companies keep no members and the others keep an owner, and under which conditions; extends `MembershipProofs` |
| `MCTenancy` | the databases that `Tenancy`'s runs start on |
| `TtlStore` | what the TTL store promises its callers |
| `Mfa` | the second factor of a user, from enrolment to login challenge; extends `RowStore` and `TtlStore` |
| `MfaProofs` | its inductive invariants and theorems |
| `MCMfa` | the codes submitted in `Mfa`'s runs |
| `TtlContract` | the abstract specification of the TTL store, which is what the memory backend does: an entry is there from its write to its expiry; uses `TtlStore` |
| `KvStore` | the Durable Objects: stored entries, alarms, late deliveries, the clock, the merge of the session index |
| `Sessions` | better-auth's session calls, one call to the store at a time, over `KvStore`; shown to implement `TtlContract` |
| `SessionsProofs` | its inductive invariant, the theorems and the proof of the refinement |
| `MCSessions` | the keys of `Sessions`' run |
| `Consumer` | the SDK's guard, the RPC programs and the session check, while the account changes |
| `Entry` | one visitor's way between a consumer and the pages of the service; extends `Consumer` |
| `EntryProofs` | the inductive invariants and theorems of both |
| `MCEntry` | its instance |
| `Boot` | one isolate: start-up, requests with their pools, background work |
| `BootProofs` | its inductive invariant and the theorems |
| `MCBoot` | its instance |
| `SpaControls` | one record per handler of the SPA that changes something |
| `SpaCalls` | mutation atoms, queries, refetches and the handlers' promise chains; extends `SpaControls` |
| `Spa` | the pages and dialogs of one tab and the server as it sees it; extends `SpaCalls` |
| `SpaProofs` | its inductive invariant and the theorems |
| `MCSpa` | what a user comes to do in its run |

### RowStore and Tenancy

`db[r]` is the committed value of row `r`, `own[t]` the uncommitted writes of slot
(connection) `t`, `held` the locks. A statement (`Execute`) waits until no other slot
holds a conflicting lock, and sees committed rows plus its own writes (READ COMMITTED:
each statement has a snapshot of its own). `Publish` is the commit, `Discard` the
rollback.

A request occupies a slot. A guard action (`RequireRoleChange`, `RequireInvite`, …)
reads `db` and puts the grant in `job[t]`; then one action per SQL statement moves
`job[t].pc` on. The action names are those of the functions in `db/repositories/` or
of the use case. A condition that makes the code fail ends the request with a
rollback, and `DbFailure` may do so at any point. `SignUp` (better-auth creates a
user) and `Expire` (an invitation's time passes) are the environment.

Choices a reader should know:

* The owner lock (`SELECT … FOR UPDATE` on the OWNER rows) is two steps,
  `SnapshotOwners` and `LockOwners`: Postgres picks the rows by the statement's
  snapshot, waits, and rechecks each row it has waited for. Rows that fail the recheck
  stay locked; rows that are gone are dropped; rows that have become OWNER meanwhile are
  *not* picked up. This is what the `withdrawal` and `roleChanges` findings rest on. The other
  multi-row statements pick their rows at the moment their locks are free.
* A multi-row statement takes its locks at once. The deadlocks that row-by-row locking
  can run into end in an abort, which is `DbFailure`.
* Consecutive statements that nothing can separate, because the first has taken the
  lock the second needs, are one action: lock and update in the reassignment, lock and
  count of an orphan check, the membership lock and the update of a switch. The two
  reads of a guard and of deleteCompany's recheck are one step each.
* `updateCompanyInfo` reads the company (`FindCompany`) and updates it (`UpdateCompany`) in two statements and
  takes no lock between them. The UPDATE asks for the status again and never sets it: what it writes is a version of
  the row with the status it had (`renames`).
* A user's e-mail address is identified with the user. `joined_at` is not kept, so the
  next current company may be any of the remaining ones. Leavers are checked for
  orphanhood in any order.
* Left out: names, org codes, audit rows, mails, the hourly budget of invitations,
  collisions of the advisory lock's hash, the foreign-key lock that a reassignment
  takes on the company, a row that is deleted and inserted again during one lock wait,
  and the deletion of sessions after the commit.

### TtlStore and Mfa

`store[k]` is an entry with its expiry; every operation is one step because a Durable
Object serves the requests to a key one after the other. An expired entry is invisible
to every operation, so its physical removal does not matter to callers. A call that
fails may have taken effect (`Fails`).

`Mfa` is about one user: every row and key these use cases touch belongs to a user or
to a user's challenge. Time runs in TOTP steps of 30 seconds. A code is what it
proves: `<<"totp", enrolment, time step>>` or `<<"recovery_code", enrolment, number>>`.
`Matches` is `matchTotpCode` with its window of one step to either side, or the search among the
unused recovery codes; `Consumable` is the WHERE clause of `consumeTotpTimestep` or
`consumeRecoveryCode`. As in `Tenancy`, a request occupies a slot and an action is one
SQL statement, one store call or one better-auth call; `Abort` ends a request at any
point. `live` are the sessions in the store, `delivered` those whose cookie reached a
client: a sign-in makes the session first and hands its cookie out only if no challenge
is required.

History variables record what the properties speak of: `origin` (what a session was
issued for), `activator`, `spent` (code and purpose), `tries` (codes compared per
challenge), `shown` (enrolments shown with their recovery codes).

Choices: the guard's session check and the first read of a use case are one step, and
so are the two reads of `matchOwnedCode`; `revokeOtherSessions` is one step of better-auth (external); a challenge can be submitted to
once the sign-in that opened it has ended; store calls that time out take effect at
once or never (ids are unique and late increments only use budget up). Left out:
encryption, mails, audit rows, redirects, the per-IP and per-session budgets in front
of the routes (fail-open), session expiry and sign-out, the cascade from a deleted
user, collisions between the six digits of different steps.

### TtlContract, KvStore and Sessions

`entry[k]` is what the object of key `k` has stored, `alarmAt[k]` its alarm, `ringing[k]` an
alarm that has been taken off the storage and whose handler has not succeeded yet. The
methods keep their names (`set`, `delete`, `getAndDelete`, `incrementWindow`,
`mergeSessionIndex`, `alarm`); each is one step because of the input gate. `delete` is
`deleteAll`, which clears the alarm too under the compatibility flag
`delete_all_deletes_alarm` of `wrangler.jsonc`; a delivery under way goes on.

The refinement maps `store` of `TtlContract` to the *live* entries (`visible`): an expired
entry that is still stored counts as gone. An alarm step is then a stutter, or it took away
something it must not. `parity` is a bit that flips with each call of a client, in both
specifications: without it an alarm that takes a live entry away would pass for somebody's
`delete`.

`Sessions` is about one user. Every call of better-auth (external) to the store is an
action (`ListSession`, `StoreSession`, …), the list it writes was read when the request
began, and any call may fail with or without effect, which ends the request. The
worker's own keys are used before the first sign-in only: they share nothing with the
sessions, and the two explorations need not be multiplied.

### Consumer and Entry

`Consumer` has the state an RPC reads (`current`, `role`, `revision`, `session`), the commits
that change it (`AccountChange`; each use case of `Tenancy` as its one commit) and the
guard's request `req`, one action per read: `GetSession` and `FindUserById` are
`checkSession`, then the answers. `getSession` answers both questions at once; against an
older server the guard calls `verifySession` and then `listCurrentCompanyMembers`. The
hook that removes the sessions of a deleted account (`DeleteSessionsOf`) may be lost.
`req.held` records what the user held during the request, `req.barred` that the account was
gone or the session outdated when it began. The revision of the user row is raised by the triggers of
`drizzle/manual/`; a change of the profile fields or the password is not kept, so `RaiseRevision` may happen at any
time. A session stored without a revision (`Unversioned`) is never outdated, as in `verifySessionUser`.

In `Entry`, `page` is where the browser is and `back` the pages its URL returns to, nested.
The *stops* redirect at once, the *pages* wait. Each stop is one action that decides from the
session and the memberships as they are; the ways in which a check can fail, and what the
code then falls back to, are actions of their own (`…Unknown`, `…Unavailable`). `goal` is the page the
visitor wants and `address` whether the challenge accepts it: sign-in takes any address of an allowed host,
`validateChallengeRedirect` only those of trusted origins without a fragment, and `CompleteChallenge` falls back to the
account page for the others. What a
consumer does with the guard's answer is external, as the comments of
`packages/auth-client/src/types.ts` ask for it.

Left out: the service key (a way for a call to fail), what makes an address acceptable, the cookie cache of better-auth, magic-link tokens and
the OAuth exchange (a sign-in is one step).

### Boot

`attempts[s]` lists the attempts of the two steps that `onceUntilSucceeded` wraps, `attempt[s]` is
the one held. A request goes `secrets`, `before`, `app`, `working`, `left`, `closed`; what
lies between two awaits is one step, so `Fetch` is bootstrap, pool and the call of the
first-request hook together. `bootstrapOnce` may throw half-way and leaves behind what it had set.
`tasks[r]` is the background work of a request with its phase (a query on the request's
pool, a mail), `awaited[r]` what the finally block waits for before it ends the pool.
`bound` are the secrets that the worker's environment binds, any subset of the names: `FetchSecret` copies those and
passes over the others, and without an AUTH_SECRET that is valid the bootstrap fails (`bootError`).
Left out: the contents of requests, what a failure is answered and whether it is reported (`settleCause`, a pure function of
the cause), health checks, the assembly of routes.

### SpaControls, SpaCalls and Spa

`SpaControls` has one record per handler: its page, the component whose busy state it sets
(`cell`), the mutation atom it calls, the queries that mutation invalidates and the query it
waits for. `SpaCalls` is what they have in common: `Call` sets the atom and interrupts the
call it ran, whose request may reach the server all the same; `Resolve` hands the exit to
everyone who waits for the atom; an invalidated query drops its fetch and asks again. A
continuation that is ready runs before the next click or response (`Quiet`). A handler may also ask for a query afresh and wait for it without
calling an atom (`RefreshAndWait`). Components that unmount lose their busy state, and their handlers run on (`Detached`).
`left` is where the document is being sent: `leaveSpaTo` ignores all but the first who asks, the redirect of
better-auth's client to GitHub (`LeaveForProvider`) does not go through it, and until the new document is there the old one takes clicks.

`Spa` adds what differs: which control is on screen, the dialogs, the challenge page, and
the server reduced to what the answers depend on. `server[q]` counts the changes to what
query `q` reads, so that a value on screen can be compared with the change a notice
announces. `OtherTab` is the same user elsewhere. What the routes decide on entry is in
`Entry`. Putting the recovery codes away (`PutCodesAway`) fetches the status again and ends in a notice like
the other changes. Left out: contents of the forms and lists, the toaster, the pages that only show
(sessions, connections), the layout.

## Runs

| Run | Instance | What it shows |
|---|---|---|
| `tenancy` | 3 users, 1 company, a company just founded or an OWNER's invitation that is out, 2 requests at a time | sign-up, role changes, transfers and an invitation that is created, revoked or accepted: an OWNER is kept, nobody becomes OWNER without an inviter who is one, the invitation is spent once |
| `lifecycle` | 2 users, 2 companies, from every populated database with at most one invitation out | types; an OWNER is kept, current companies are right, no ghost memberships (an invitation that is out adds nobody to a company that is being deleted), orphans (and only orphans) go, an update only ever changes a company in use, one sign-up company per account |
| `setup` | 2 enrolments, 1 challenge, 3 sessions, budget 2, 2 time steps | the recovery codes that were shown are the ones stored; a challenge is passed once and within its budget |
| `removal` | challenge, disabling, rescue | no session on the primary factor alone, no code twice |
| `store` | 2 sessions, 1 key of the worker, 2 requests at a time, 3 moments, 2 deletions | the objects implement the contract; sign-ins that overlap are all listed; a revocation reaches every session; expired entries leave the storage |
| `entry` | 2 companies, 3 commits elsewhere, at most 3 nested return addresses | the guard's answers fit together and were true; a deleted account and an outdated session stay out; redirects end, and keep their goal unless the challenge refuses it |
| `boot` | 3 requests, 3 secrets of which any may be bound, one failure per shared step | shared attempts, the bound secrets before service, pools that outlive work, and the end of every request |
| `spa` | 2 calls, 2 companies, 1 action in another tab (none while leaving and removing) | switches are not interrupted, notices agree with the screen, recovery codes are the active ones and stay, nothing stays busy |
| `withdrawal`, `roleChanges`, `deletedCompany`, `activation` | | the findings, see below |

Bounds. Two slots are enough for the races the hazards name, because each of them is
between a request and one other, but not for every property: `OwnerKept` holds for any two requests of `tenancy`
and is false for three, see `roleChanges`. `OwnerProofs` says where two are enough. Three users are an actor, a target and a bystander who
may be the last OWNER; two companies are the one being left and the one that remains. Ids
are handed out once, so the number of companies, invitations, enrolments, challenges,
sessions and tokens bounds the length of a history, and `MaxNow` and `MaxCount` bound the
clock and the counters. The budget of 5 attempts is 2 or 1, the windows of 600 and 900
seconds are 1 or 2 time steps: the properties depend on the order of the limit, the window and
the challenge's expiry, not on their size. In `setup` a challenge expires
while codes are being submitted to it; in `removal` it lasts from one time step to the next.

In `store` a session lives for 2 of 3 moments: it expires, its alarm fires late, and the entry
may have been rewritten in between. In `entry` three commits from elsewhere are one before,
one during and one after a guard's request; no URL nests more than two return
addresses, so the bound of three is never met. In `boot` the third request comes after two have shared a failure and
a retry. In `spa` the handlers are run in eight groups (`MCErrands`), put together by the atom,
the page or the query they share; the document they leave, and the list of companies that
most of them refresh, are shared by all.

Symmetry is used for users, companies, invitations, enrolments, challenges, sessions
and slots in the runs without liveness; no property picks one of them out.

Deadlock. Where everybody may withdraw, or the ids, the clock, the calls or the requests run out, the system
really may stop, and those runs do not check for it. In `tenancy` the check says
little about lock waits, since a waiting transaction can always fail. In `entry` it says
that no page is a dead end.

Fairness. `Tenancy` and `Mfa` assume none: their properties are invariants or action
properties, and a request may stop forever between two of its steps, which is what a
Worker that is evicted does. The others assume what their platform guarantees and no more:

* `Sessions`: time passes, an alarm that is due is delivered, and delivered again until its
  handler succeeds (Durable Objects deliver alarms at least once). No request is assumed
  to finish.
* `Entry`: a browser follows redirects and an RPC ends, for it has a timeout (weak
  fairness); a store that is asked again and again to delete an outdated session does so
  in the end (strong fairness of `SignOutOutdated(TRUE)`: without it a consumer and the
  sign-in page send the visitor back and forth for as long as the deletion fails). The
  visitor may do nothing.
* `Boot`: the event loop runs something as long as anything is ready; the secrets store, the hook and the database
  answer, if only with an error. The mail service need not answer: its ten-second timer
  fires.
* `Spa`: continuations run and every fetch ends in a response or an error. Nobody has to
  click, and no server has to carry a request out.

What limits a property:

* `SecondFactorStands` is checked without a concurrent activation, `OwnerKept` without
  somebody becoming OWNER next to a withdrawal (in `lifecycle` the invitation that is out is
  a MEMBER's) and with at most two requests at a time where roles change (`tenancy`), and `NoGhostMembership` without invitations created next to a company deletion:
  with them the property is false, and a finding;
* `ShownCodesWork` is checked without deletions and `CodeSpentOnce` without setting the
  second factor up again: with them they are false, see the observations below. The hazards at
  `src/mfa/totp/disable-mfa.ts:22` and `db/repositories/mfa-totp.ts:89` are those cases, and no run checks them;
* `SignInsListed` speaks of histories without a deletion, `RevocationReaches` of those whose
  only deletion is the revocation: better-auth deletes an index that it has read as empty,
  together with what was added since. That read and that delete are the library's;
  `mergeSessionIndex` cannot protect against them;
* `CodesStayOnScreen` speaks of a settled status (`StatusSettled`): a status fetch that began before the dialog
  was opened, or a removal whose answer is still out, may yet replace the dialog with another status. With
  four calls TLC shows it;
* `NoticeMatchesScreen` leaves out interrupted calls and `ControlsReleased` the sign-in
  pages, see the observations.

## Findings

1. *A company without an OWNER* (`withdrawal`). x withdraws, z is the only OWNER. The withdrawal chooses the owner
   rows it locks, z's; before it has the lock a transfer from z to y commits. A second transfer, from y to x, locks y's
   row, which the withdrawal does not hold: the withdrawal still sees x as no OWNER, the transfer commits, and x's
   account goes with the only OWNER. (A single transfer to x waits for the withdrawal, or the withdrawal for it: both lock
   the row of the old OWNER.) The glossary says that an OWNER always remains.
2. *A company without an OWNER, without a withdrawal* (`roleChanges`). Two demotions choose
   different owners to lock, because a third request makes one of their targets OWNER and the
   owner they found an ADMIN in between; each then counts the other's target as the OWNER who remains. Same
   sentence of the glossary.
3. *A membership of a deleted company* (`deletedCompany`). An invitation whose guard
   passed before the company was deleted is inserted afterwards, and accepting it does
   not look at the company. ADR-0010 says that a membership implies an ACTIVE company.
4. *A session on the primary factor survives activation* (`activation`). `activate`
   revokes the other sessions before it activates; a sign-in in between passes without
   a challenge. The glossary says that activation revokes every other session.

Observations that no run states, met while modelling:

* *Recovery codes that do not work.* `deleteEnrollment` finds no row, and so locks nothing; an
  enrolment commits; the second statement deletes its codes
  (`src/mfa/totp/disable-mfa.ts:22`). `GLOSSARY.md:149` says that one of two concurrent
  transitions wins and the other falls in with it. TLC finds it when `setup` also serves
  the operator's rescue.
* *A code accepted twice.* Consuming a time step does not compare the enrolment it was
  matched against (`db/repositories/mfa-totp.ts:89`). ADR-0016 says that there is exactly one
  winner. TLC finds it when `removal` also serves enrolment.
* *One atom for removing and leaving.* `handleLeave` of `Companies.tsx` and `handleRemove` of
  `MemberList.tsx` call the same `removeMember` atom, and only busy states of their own
  components, lost on navigation, keep them apart; `web/src/shared/__tests__/atom-runtime.test.ts:96`
  says that a shared atom is not called while it is pending. The transfer dialog may
  likewise be closed and opened again while a transfer is under way. `useSwitchCompany` goes
  by the atom's own pending state, which is what `SwitchUninterrupted` checks.
* *A destination that the challenge drops.* The sign-in pages accept addresses that
  `validateChallengeRedirect` refuses (`src/mfa/redirect-guard.ts:18`: one with a fragment, one of an allowed host that
  is no trusted origin). A visitor with a second factor then ends on `/account`, and the refusal is reported.
  `GoalKept` makes this exception by name.
* The handlers of the sign-in pages do not catch a rejected promise and leave the form busy.
* When the answer to an activation is lost, the recovery codes are not shown although the
  second factor is active.
* Background audit rows of an isolate that is evicted are lost.

## Proofs

### TenancyProofs

For any sets of users, companies, invitations and slots, any
set of served requests and any well-typed initial database:

| Theorem | Statement |
|---|---|
| `LockDiscipline` | `Spec => []IInv` |
| `TypeCorrect` | `Spec => []TypeOK` |
| `UpdatesInUse` | `Spec => []UpdatesCompanyInUse`: what an update is about to commit is a change of a company in use, however a deletion overlaps it |
| `SpentOnce` | `Spec => InvitationSpentOnce`: ACCEPTED and REVOKED are final; whoever joins by an invitation commits together with the ACCEPTED invitation, which was PENDING until then |

Assumptions: the id sets are disjoint (`TablesDisjoint`), the markers for missing and
deleted rows are not ids or values (`MarkersDistinct`), the initial databases are
well-typed (`StartAssumption`). TLC evaluates all three in every run of `MCTenancy`.

The properties speak of what a *commit* does to a row, but what makes them true was
checked by an earlier statement of the same transaction. The invariant carries that
check to the commit:

* `Flow` — at each statement the request is one that gets there, and its grant has
  the parts it needs;
* `WritesLocked` — a row with an uncommitted write is locked exclusively by its writer;
* `LocksExclude` — no two slots hold conflicting exclusive locks on a row; with
  `WritesLocked`, no other commit changes the row between the check and the commit;
* `FreshIds` — an id handed out for a new company or invitation belongs to one request;
* `CompanyWrites` — an uncommitted company row was ACTIVE, or is new;
* `InvitationWrites` — an uncommitted invitation row was PENDING, or is new, or is
  being deleted;
* `AcceptanceSpends` — an acceptance past its first statement has the ACCEPTED
  invitation among its uncommitted writes.

The induction does not go action by action through all conjuncts. Every step is one of
five kinds (`StepKinds`): a grant, a statement, a commit, a rollback, a step of the
environment. One lemma per kind shows that it preserves the invariant, the one for
statements under the condition `StatementSound` on what it locks and writes; then one
lemma per group of use cases shows that its statements are sound.

### MembershipProofs

For the same instances, started on a database whose foreign keys hold and in which the current
company of each user is one of the user's (`ConsistentStart`, evaluated in every run of `MCTenancy`; the
empty database is one):

| Theorem | Statement |
|---|---|
| `BelongingKept` | `Spec => []BelongInv` |
| `CurrentCompanyKept` | `Spec => []CurrentCompanyTracksMembership`: no current company dangles, and nobody who belongs somewhere has none |
| `OwnerInvitationsBacked` | `Spec => OwnerInvitationBacked`: the inviter of a new OWNER is OWNER when the acceptance commits |
| `OrphansOnly` | `Spec => OnlyOrphansDeleted`: only accounts that belong nowhere else are deleted, withdrawals aside |
| `SignupFirst` | `Spec => SignupCompanyIsFirst`: a sign-up company is the first of its user |

These relate several rows, and a transaction writes the rows one after the other: between deleting a
membership and reassigning the user's current company its own writes are inconsistent, and
other transactions commit meanwhile. Exclusion between writers is not enough for this. `BelongInv` therefore
adds to `IInv`:

* `Compatible` — no two slots hold conflicting locks of any mode, so that the KEY SHARE of a
  foreign key, the FOR SHARE of a switch and of `verifyInviter` and the advisory lock of a joining user
  also count;
* `Consistent(db)` — foreign keys and current companies of the committed rows;
* `Pending(t)` for each slot — what its writes still owe: a user taken out of a company is
  locked and does not point to it, or is still to be followed up (`Left`, `Leaving`); one
  added exists, cannot be deleted, and in the end points there (`Joined`, `Pointing`); one pointed to a
  company belongs to it and cannot be taken out first (`Moved`); one pointed nowhere belongs
  nowhere and is about to be deleted (`Homeless`); a deleted one leaves no membership (`Deleted`,
  `Orphans`); named companies exist (`Named`); the advisory lock is held and the account still has no company
  (`Alone`); the inviter is still OWNER (`Backed`).

The induction goes by kinds of steps again. A commit of one slot leaves what the others owe intact (`CommitKept`:
what a lock of any mode keeps others from doing, `CommitBounds`) and, having paid its own debts, the
database consistent (`CommitConsistent`). Statements touch only their own slot's debts: `EarlyStatement` is for those before
any user or membership is written, `MemberStatement` for changes of roles and removals, `LeaveStatement`
for the follow-up of those who leave; the rest is one lemma per statement.

### OwnerProofs

For the same instances, under the hypotheses named:

| Theorem | Statement |
|---|---|
| `NoGhosts` | if `Settled`: `Spec => []NoGhostMembership`: a deleted company has no members |
| `NobodyStranded` | if `Settled`: `Spec => NeverOrphaned`: nobody loses the last company and keeps the account |
| `OwnersKept` | if `Steady \/ Paired`, from databases in which each company has an OWNER: `Spec => []OwnerKept` |

The hypotheses are about which requests are served together, and the findings are what lies outside:

* `Settled` — invitations are not created where companies are deleted (and the service starts on databases whose
  memberships and pending invitations are of active companies). Without it: `deletedCompany`.
* `Steady` — nobody becomes OWNER of a company that exists: roles are not changed, ownership is not transferred, and no
  invitation is to become OWNER. Any number of requests may overlap, withdrawals and removals included.
* `Paired` — nobody withdraws, and at most two requests overlap; roles change as they like. Without either: `withdrawal` and
  `roleChanges`.

`tenancy` meets `Settled` and `Paired`, `lifecycle` meets `Settled` and `Steady`; each of the three runs that
find a violation meets all but the hypothesis of its theorem.

First the statements. Of each statement of each use case one lemma says what it writes (`Writes`), where its
request goes on (`Follows`) and what it has found or locked (`Results`); `Steps` then leaves five shapes of a step, and
neither invariant below needs to look at a use case again.

`GhostInv` adds to `BelongInv` that memberships and pending invitations are of active companies (`Closed`), that
whoever writes an invitation spends or creates it (`Spends`), that an acceptance is of an
invitation to its company (`Accepts`), and for a deletion under way that no pending
invitation is left to see once it has revoked them, and no member once it has removed them (`Closing`). An
acceptance that commits in between would have to spend an invitation the deletion holds.

`TenureInv` is about the owner lock. A request is `Complete` for a company when the owners it has found, or locked, are *all*
owners that are committed. Where nobody is promoted this stays true of every request once it was (`SteadySound`). Where roles
change it does not: a promotion commits and the other request misses the new owner. But then the promoting request
had locked all of them, and of two requests one is always `Complete` (`PairSound`). So the owner that a request has counted
stays until its commit (`Keeps`): it is locked, or the other request is the one that holds them all and has
counted one that is left. A withdrawal sees another owner and holds
his row, and its advisory lock keeps the user from founding a company meanwhile (`Withdraws`). With three slots `PairSound` says
nothing of the third, which is exactly the counterexample.

### MfaProofs

For any numbers of enrolments, challenges, sessions and slots, any budget and window:

| Theorem | Statement |
|---|---|
| `MfaConsistent` | `Spec => []MfaInv` |
| `MfaTypeCorrect` | `Spec => []MfaTypeOK` |
| `PassedOnce` | `Spec => []ChallengePassedOnce`: a challenge costs one code and issues one session |
| `BudgetNeverExceeded` | `Spec => []BudgetKept`: no more comparisons than the budget while a challenge can be passed |
| `SecondFactorHolds` | without activations: `Spec => []SecondFactorStands` |
| `SpentCodesRefused` | without enrolments: `Spec => CodeSpentOnce` |
| `ShownCodesStored` | without removals and rescues: `Spec => []ShownCodesWork` |

The last three have a hypothesis on `Ops`, the requests that are served, because without it
they are false: the finding of `activation` and the first two observations above. Each
hypothesis is met by the run that checks the property, which serves everything else
the property is about.

Assumptions: budgets, windows and the clock's bound are positive (`BudgetsPositive`), submitted
codes are codes and the keys are those of `Mfa` (`InputsTyped`), markers are not ids, rows
or request names (`MarkersApart`).

A budget is spent in the store, codes are compared afterwards and in another step, and a counter
that has expired starts again at one. `WindowOutlasts` says that a counter, once there,
expires no earlier than its challenge, so it is never restarted while the challenge
lives. `Counted` then bounds the comparisons made *plus those requests that were let through and have
not compared yet* by the counter and by the budget; the property alone is not
inductive, since two requests may both have been let through. `Once` says that whoever took a
challenge is alone in having taken it, that the challenge is gone, and that neither a code nor a
session goes with it yet.

`StandInv` adds that no transaction under way turns the second factor on; `SpentInv` that
transactions only delete (`OnlyRemovals`) and that what was spent can no longer be
consumed (`Used`: the stored time step is not behind it, the recovery code is not unused);
`ShownInv` that an uncommitted enrolment is the only one, for it holds the lock on the row
of the user's second factor (`OneInserts`), and that the stored recovery codes are exactly
those of the pending enrolment (`OneEnrolment`).

### SessionsProofs

For any sets of tokens, keys and slots, any lifetime and any length of time:

| Theorem | Statement |
|---|---|
| `SessionsConsistent` | `Spec => []SessionInv` |
| `SignInsKept` | `Spec => []SignInsListed` |
| `RevocationComplete` | `Spec => []RevocationReaches` |
| `ContractImplemented` | `Spec => KeepsContract`: the Durable Objects, their alarms late, repeated or failed, implement `TtlContract` |

Assumptions: keys are tokens, the index or the worker's own, and these differ (`SessionKeys`,
`KeyAssumption`), the lifetime is a natural number (`LifetimeAssumption`), the marker of a missing
entry is no entry and no time (`NullAssumption`).

What the index says of a session and what is stored for it are written by different calls, so
they must be shown to agree: everybody who knows of a token knows the same expiry (`Agreed`, since a
token is drawn once and stored once, `StoredOnce`), and the index expires no earlier than anything it
lists (`Covered`). Only with these does a stored session stay listed while it lives (`Listed`)
when the index is merged, pruned of the expired and given a new expiry; and only with the
listing does a revocation hold in its copy whatever it has yet to remove (`Reached`).

The refinement maps the entries that are live to the contract's entries. A write is a `TtlWrite` of the
contract, or a `TtlDelete` where it is stored already expired; an alarm and the passing of time
change nothing that the contract shows beyond its own expiry.

### EntryProofs

For any set of companies, any number of commits elsewhere and of nested return addresses:

| Theorem | Statement |
|---|---|
| `GuardConsistent` | `Spec => []GuardInv` |
| `AnswersAgree` | `Spec => []SameCompany` |
| `NoRightInvented` | `Spec => []AnswersHeld` |
| `BarredRefused` | `Spec => []BarredStayOut` |
| `WayKept` | `Spec => []Bound` |
| `GoalNeverDropped` | `Spec => []GoalKept` |

Assumption: the markers for no company and a deleted account are not ids or roles, and those for no session and no
revision are not revisions (`MarkersAssumption`).

`BarredStayOut` is about sessions whose account is gone or that carry an older revision; `GoalKept` lets the account page
stand in for the application only once the challenge has refused the address.

`GuardInv` carries over from each of the guard's reads to the next that the request has seen whatever
was true while it ran (`Witnessed`), that an answer collected so far is backed by it (`Backed`,
`CompanySeen`), and that whoever was barred at the start is barred at each read (`StillBarred`): a
deleted account has no memberships and does not come back, and a session is never newer
than the user row. `Bound` is about the URL: on the way to the application the return addresses
end in the application and hold nothing but the company form above it (`LeadsToApp`), until the address is refused.

### BootProofs

For any number of requests, any list of secrets and any number of failures:

| Theorem | Statement |
|---|---|
| `BootConsistent` | `BootSpec => []BootInv` |
| `AttemptsShared` | `BootSpec => []OneAttemptAtATime` |
| `FailureLetGo` | `BootSpec => FailureNotKept` |
| `SecretsBeforeService` | `BootSpec => []ServedWithSecrets` |
| `StoreKept` | `BootSpec => []RetryMeetsSameError` |
| `PoolKept` | `BootSpec => []PoolOutlivesWork` |

Assumption: there is at least one secret to resolve (`SecretsAssumption`).

`BootInv` says that the attempt held is under way or has succeeded and that no other is
under way (`Shared`), that an attempt has copied all bound secrets it is past (`Copied`), that requests
wait for attempts that exist (`Waiting`), that the application is there only with better-auth and the
secrets (`Assembled`), that the runtime was made with the store that is kept (`OneStore`), and
that work in the background is awaited with its pool open (`WorkAwaited`).

### SpaProofs

For any number of calls under way, any companies, and anything a user may have come to do:

| Theorem | Statement |
|---|---|
| `SpaInvariant` | `SpaSpec => []SpaInv` |
| `SwitchesRunThrough` | `SpaSpec => []SwitchUninterrupted` |
| `CodesBelongToTheTab` | `SpaSpec => []CodesAreActive` |
| `NoticesMatch` | `SpaSpec => NoticeMatchesScreen` |
| `CodesStay` | `SpaSpec => CodesStayOnScreen` |

Assumptions: calls have positive numbers (`SlotAssumption`), there is a company (`CompanyAssumption`), errands consist of
handlers (`ErrandsAssumption`). TLC evaluates them in `spa`.

`Jobs` ties an atom to the call it runs: a call that waits for its answer and is no longer the atom's was interrupted, and the
handlers that switch the company never were. `Dialog` ties the handlers that still belong to the enrolment dialog to the
step it is in: at most one of each kind is attached, an activation in flight is the one the atom runs, and its enrolment is the tab's
own once it succeeded (`ActivateSound`); an open dialog means the security page with the status shown off. `Notices` says what a handler that waits for a
list may rely on (`Due`): the fetch it waits for has read, or will read, its change, or the last one did, unless it failed. These hold
together or not at all: that a notice agrees with the screen needs the request to be performed, which needs the call not to have been
interrupted.

### Only model-checked

* Liveness under fairness (`ExpiredRemoved`, `Arrives`, `RequestsClose`, `ControlsReleased`), which
  is out of the prover's reach, as are ENABLED and induction over data.

The inductive invariants were themselves checked with TLC, as invariants on the instances of the
corresponding runs, before they were proved.

## Not modelled

* better-auth itself: it is external, modelled from how this code uses it. Its cookie cache,
  magic-link tokens and OAuth exchange are not there at all.
* Audit rows written in the transaction of their use case, and the contents of mails:
  outputs that no use case reads back.
* The fail-open budgets per address and session, CSRF, canary tokens: they only turn
  requests away.
* Reading the client's address from headers, encryption of secrets, (de)serialisation,
  rendering, the assembly of routes in `app.ts`: pure functions of one request.
* The RPCs `findUserByEmail` and `checkMemberships`, the list routes and the SPA's pages of
  sessions and connections: they read and show.
* Generated protobuf code and migrations, `infra/`, `lint/` and the non-production tooling.

## Plan

Done: `Policy`, `RowStore`, `Tenancy` with `TenancyProofs`, `MembershipProofs` and `OwnerProofs`; `TtlStore`, `Mfa` with
`MfaProofs`; `TtlContract`, `KvStore`, `Sessions` with `SessionsProofs`; `Consumer`, `Entry` with
`EntryProofs`; `Boot` with `BootProofs`; `SpaControls`, `SpaCalls`, `Spa` with `SpaProofs`.

Left:

* row-by-row locking of the owner rows, to see which of the deadlocks can happen.
