# Verification of incident-tracker

TLA+ models, TLC runs and TLAPS proofs of the incident-tracker API (`src/src`):
a multi-tenant Express application over Postgres (or, in tests, in-memory
repositories). Every request is an `async` handler that awaits one repository
call after another; each Postgres call is a transaction of its own at READ
COMMITTED, and several API processes share one database. Nothing holds a lock
from one call to the next, so what matters is what survives between two awaits.

## Inventory

| Component | State | Operations | What is hard |
|---|---|---|---|
| Authorization policy (`policies/authorization.ts`) | none | `authorize` | a Responder needs an incident role that no caller passes |
| Usage quota (`usage-service.ts`, usage repositories) | `tenant_usage_quotas`, `usage_events` | `consumeWriteQuota`, `getUsageSummary` | check and insert are two transactions; sliding window; two processes configured differently |
| Incidents, timeline, tasks, status updates (`incident-service.ts`, incident repositories, `incident-routes.ts`) | `incidents`, `incident_services`, `tasks`, append-only `timeline_events` and `status_updates` | create, patch, list, get, add event, create/patch task, publish | status checked on a stale read; SELECT then UPDATE of all columns; DELETE + INSERT of services; what a 403 reveals |
| Accounts (`auth-service.ts`, auth repositories) | `users` (hash, counter, lockout), `password_reset_tokens` | login, forgot, reset, signup | counter written back as an absolute value after argon2; single-use tokens |
| Tenancy (`tenant-service.ts`, tenant repositories) | `tenants`, `memberships`, `tenant_invites` | create tenant, invite, accept, switch | acceptance reads without a lock; roles change while requests run |
| Audit log (`audit-service.ts`, `audit-log-query-service.ts`) | `audit_log_events` | record (errors swallowed), list by cursor | the entry is not in the mutation's transaction; cursor in milliseconds |
| API keys (`api-key-service.ts`, `api-key-auth.ts`) | `service_accounts`, `api_keys` | create, list, revoke, authenticate | revocation racing a request; rows named by id alone; a key on the management routes |
| Sessions, CSRF (`register-session.ts`, `csrf.ts`, auth and tenant routes) | session store (Redis or memory): user, active tenant, CSRF token | load, save, regenerate, destroy, switch tenant, issue and check token | overlapping requests work on copies of one session and save them whole |
| Browser client (`public/assets/app.js`) | user, active tenant, tenants, lists, CSRF token | open, navigate, log in and out, switch, create, refresh | flows run beside each other and apply answers as they arrive; a flow stops at its first error |
| Migration runner (`db/migrate.ts`) | `schema_migrations`, the schema | run | two runners, a crash, an edited file |
| Schema, row-level security (`migrations/`) | tables, policies | — | queries without a tenant condition rely on it |
| Wiring, telemetry, errors | — | — | — |

Components call one another directly: an incident handler consumes the write
quota, calls `IncidentService` (which reads the membership, the incident, maybe
the task, and then writes) and finally records the audit entry. They share the
database only; the role an incident request reads is written by invite
acceptance, the rows by any other request. A browser has a session, which names
the user and the tenant of its requests; the page shows what the answers told it.

## Modules

| Module | Models | State |
|---|---|---|
| `Authorization` | `POLICY_RULES`, `hasRequiredIncidentRole`, `authorize` as operators | — |
| `UsageQuota` | `consumeWriteQuota`, `getUsageSummary` | the two tables, a clock, each request's locals |
| `UsageQuota_proofs` | theorems about `UsageQuota` | — |
| `IncidentLifecycle` | abstract: what a client is promised of a status | `status` |
| `IncidentWrites` | every mutating incident request, from the service call to the answer; both back ends | rows, services, tasks, row locks, audit log, each request's locals |
| `IncidentWrites_proofs` | theorems about `IncidentWrites` | — |
| `AccountAuth` | login with lockout, forgot, reset, of one account | the user row, tokens, a clock |
| `AccountAuth_proofs` | theorems about `AccountAuth` | — |
| `TenantMembership` | create tenant, invite, accept; both back ends | memberships, invites, row locks, a clock |
| `TenantMembership_proofs` | theorems about `TenantMembership` | — |
| `ApiKeys` | create account, create key, revoke, authenticate by key; both back ends, two tenants | accounts, keys, memberships, a clock, each request's locals |
| `ApiKeys_proofs` | theorems about `ApiKeys` | — |
| `Sessions` | the session of one browser: middlewares, auth and tenant handlers | session store, memberships, cookie, CSRF token, each request's copy of its session |
| `WebClient` | the page over `Sessions` (extends it): every flow of `app.js` | the page's state, each flow's remaining calls |
| `WebClient_proofs` | theorems about `WebClient` and, beneath it, `Sessions` | — |
| `Pagination` | a walk through incidents or the audit log, while rows are added; both back ends | committed and uncommitted rows, a clock, the cursor, the pages so far |
| `Pagination_proofs` | theorems about `Pagination` | — |
| `Migrations` | runs of `migrate.ts` over one database | `schema_migrations`, what took effect, each runner's locals |
| `Migrations_proofs` | theorems about `Migrations` | — |
| `MC*` | instances of the above | — |

Conventions. A *worker* is one request in flight, in any process; it makes one
step per awaited call, or per SQL statement inside a transaction where another
transaction can come between two statements. `pc` names the next step. `Die`
is a statement that fails or a process that is killed: what was committed stays
and what was not is rolled back. Where the in-memory repository behaves
differently the back end is a variable, chosen in `Init` among `Backends`. A definition called a *mutant* in its
comment is a wrong variant of the definition after it, kept to show that a
property notices; no specification uses it.

* `UsageQuota`: `ReadQuota`/`MissQuota`/`UpsertQuota` are `ensureQuota`;
  `OpenWindow` computes `windowStart`; `ReadUsage` is `sumUsageSince`;
  `Reject`/`Accept` are the comparison; `InsertEvent` is `createUsageEvent`,
  whose `createdAt` was taken in `Accept`. The tenant of a row is what
  row-level security and, in memory, the filter compare.
* `IncidentWrites`: `ReadMembership` is `requireMembership`, `FindIncident` and
  `FindTask` the reads and the checks on their results in the code's order;
  `SelectRow`, `UpdateRow`, `ReplaceServices`, `Commit` the statements of the
  two Postgres updates. `UpdateRow` waits for the row lock and keeps it to the
  end; `ReplaceServices` deletes the rows committed by then (READ COMMITTED).
  `Audit`/`AuditLost` are `recordSafely`. `Grant` stands for an invite accepted
  by another request. `held`, `written` and `overtaken` are history variables; the
  last holds the requests whose row another one has committed to between their
  SELECT and their UPDATE. One tenant is modelled: another tenant's ids are ids not found. Title, description, end
  time and due date are merged like severity, status and assignee.
* `AccountAuth`: `Verify` reads the row and branches on argon2's result,
  `RecordFailure` writes the counter computed from that read, `Succeed` clears
  it. A hash is the password it was made from. An unknown email has no effect
  and is left out. `stale` is a history variable: the logins under way whose
  password was verified before the account was last locked.
* `TenantMembership`: `FindInvite` is the SELECT, `UpsertMembership` the upsert
  that locks the membership row, `MarkAndCommit` the rest. An email belongs to
  one user, so an invite is addressed to a user. `creator` is
  `tenants.created_by_user_id`: nobody's before the tenant exists, and never
  written again.
* `ApiKeys`: `FindKey`, `FindOwner`, `MarkUsed` are the three transactions of
  `authenticateApiKey` (the scope check needs no further await and is part of
  the last); `Serve`, `RefuseKey` and `ReadMembership` are where the handlers
  begin: the incident routes, `ensureSessionAuth`, `requireMembership`.
  `Visible` is row-level security, and the filters of the in-memory repository.
* `Sessions`: one step loads the session (`Load`, with the CSRF check), one is
  the handler up to its last change of the session, one ends the response and
  saves (`End`); the audit entry comes between the last two. express-session is
  external and modelled as its options say: `resave` and `saveUninitialized`
  off, so a copy is saved, whole, exactly when it was changed. Session ids and
  tokens are random: an id that nothing can name any more stands for a fresh one
  (`FreshSid`, any such id), which keeps the model finite without a bound on
  logins. Where a handler needs a new id, `IdLeft` is the guard of the bound.
* `WebClient`: a click starts a flow, the list of the calls it will await
  (`todo`), of which `Submit` sends the first; `Settle` is what the refresh functions do without a request,
  `Apply` what they do with an answer, `Abandon` a flow's `catch`. A list is
  the tenant whose rows it shows. `Lose` is a network error. `calm` is a history
  variable: the page was opened since the last overlap of flows or failure.
* `Pagination`: `Insert`/`Commit`/`Rollback` are a transaction that stamps its
  row when it begins and shows it when it commits; `Append` is the in-memory
  repository. `After`, `IsPage`, `Answer` are the query, its limit and
  `nextCursor`. `cuts` and the other history variables serve the properties.
* `Migrations`: `Load` is the one SELECT, `Execute`, `Record`, `Commit` the
  statements of `applyMigration`; `Record` waits while another transaction holds
  the same key. A build is what a deploy finds in `migrations/`. `disturbed` is
  a history variable: something happened to this run.

## Runs

| Run | Question | Bounds | Result |
|---|---|---|---|
| `usage_quota` | Is the overshoot bounded, is every 429 justified? | 2 requests, 2 tenants, limits 1 and 2, window 1, 2 clock ticks, 4 events | holds |
| `incident_serial` | One request at a time: lifecycle, fields, who writes, what a 403 reveals | both back ends, 1 incident and task, every status, 2 severities, roles Responder, Viewer and none, granted under way | holds |
| `incident_race` | What is left of the lifecycle when patches overlap? Are service lists mixed, entries false, fields a patch does not name lost, does anybody wait forever? | both back ends, 2 requests at a time; patches that skip, end, and name no status, one of a severity, 3 service lists | holds |
| `incident_lifecycle_race` | Is the lifecycle kept when patches overlap? | Postgres, 2 requests; 2 patches that are legal moves of a new incident | violated |
| `auth` | Lockout, counter and tokens, overlapping | 2 logins, 2 resets (symmetric), lockout after 2 failures for 2 ticks, 3 failures, clock 3, 1 token | holds |
| `auth_lockout_race` | Is the account locked when failed logins overlap? | 2 logins, 1 reset, clock 4 | violated |
| `membership` | Is every membership earned, an invite accepted no more often than it can be, every acceptance answered? | both back ends, 2 requests, 2 users, 2 invites, of an Owner or a Viewer, 2 clock values | holds |
| `api_keys` | Does a key serve what was granted and no longer than that, and who can manage it? | both back ends, 2 tenants, 2 users, 2 requests by session or by key (a key reads, writes, and tries to create and revoke keys), 1 account of either user, 2 keys, 2 clock values | holds |
| `web_client` | Do overlapping requests mix up users, tenants or logouts? Does the page tell the truth? | 2 flows, 2 users, a tenant with one member and one to be founded, pages with a list by session and two by path | holds |
| `login_after_logout` | Can one log in again after a logout? | 1 flow | violated |
| `pagination` | Does a walk repeat or miss rows, and does it end? | both lists and back ends, 4 rows, 2 ms of 2 µs, 2 writers, limits 1, 2 and over the maximum | holds |
| `migrations` | Is every file applied once, in order, by whoever survives? | 2 runners, restarted at will, 3 files, 3 builds: a first one, one that adds files, one that edits a file | holds |

Why the bounds are enough. Every race in this code is between a read of one
request and a write of another, so two requests show it; a third would have to
relate the other two, and no code does. The quota, the counter and the tokens
are compared with a limit that two writes reach; the clock covers a time before,
at and after the window, lockout or expiry. One incident is enough because no
operation touches two. A walk needs a row on a page, one at its end and one
behind it that share a millisecond, and one that comes in late: four. Three
files show a build ahead of, behind and at odds with another.

`MaxTime`, `MaxEvents`, `MaxFailures`, `MaxTokens`, `MaxInvites`, `MaxAccounts`,
`MaxKeys`, `MaxSessions` (two flows can name six ids at once and a login needs
one more, so `IdLeft` refuses nothing in the runs), `Ids` and `MaxMs` bound the state space and are no part of the code.
So does `Persistent = FALSE` in the runs of the page: a user reloads a page
after flows overlapped or failed, since nothing is claimed of its display from
then on. The reload waits for what is in flight, so the session properties still
see every overlap of two requests. These runs use a `VIEW` that identifies
states up to the names of session ids, sessions nothing can reach, and lists
nothing is claimed of. The `VIEW`s of `auth` and `api_keys` leave out
locals a request will not read again and, in `auth` once logins have overlapped,
the streak, of which nothing is claimed then. The quota, `auth` and `api_keys`
runs take their workers, which are interchangeable, up to `SYMMETRY`. Only the quota run switches deadlock checking off: that
model stops once the clock and the events are at their bounds, which the system
does not.

The violated properties state what the documentation says:

* `LifecycleKept` with overlap — the 400 for an invalid transition
  (`src/openapi.yaml:694`, integration test at `incidents.integration.test.ts:174`):
  a patch checked against `declared` is written over `resolved`.
* `LockoutProtected` — "Login attempts are lockout-protected"
  (`src/README.md:126`): two overlapping failures are written as one, and a
  failure that computed no lockout overwrites one that did.
* `LoginServed` — "Use `GET /v1/auth/me` first to establish a session and get
  `csrfToken`" (`src/README.md:75`): after a logout the page keeps the token of
  the session that is gone and goes straight to the next login, which is refused
  with a 403 until the page is reloaded.

What holds in their place is stated beside them: `LegalOrigin` (a status is
always a legal move from one the incident had), `LockedAfterFailures` (the same
as long as logins have not overlapped), `NeverLockedEarly`. The write quota is a
soft limit: requests that overlap all see the same sum (`SoftLimit`; the strict
one, `StrictLimit`, is proved for one request at a time). `AuditTrue` says that
an audit entry is never false; it may be missing, since `recordSafely` swallows
its failure on purpose. `NothingSkipped` names the one gap of a walk: the
Postgres audit log keeps microseconds and the cursor does not, so a row stamped
in the millisecond of a page's last row, before it, can be passed over. `InviteAcceptedOnce`
means once in memory. On Postgres overlapping transactions each select the open
invite, and one that waited for the membership row marks the invite again: an
invite is accepted as often as requests overlap, and no more. All are the same
user's, so the membership stays earned. `UnnamedFieldsKept` names in the same way
the one request that loses another's fields, the one in `overtaken`, and
`LockoutSticks` the logins that lift a lockout they know nothing of, those in
`stale`. The properties of the page (`PageTellsSession`, `ListsOfActiveTenant`,
`FiledWhereShown`) are claims about a page on which no flows have overlapped and
nothing has failed since it was opened; on others the code breaks them, and no
document says what they should show. `LogoutFinal` is about sessions that no
other request held at the logout: a copy loaded before is saved after it.
`SoftLimit` is bounded by the larger of the limits processes are configured with,
so it does not tell which of them wrote the quota row last.

Fairness. The liveness properties (`RequestsAnswered`) assume that a handler
whose next step stays enabled takes it (Node runs every ready continuation; the
driver delivers every result or an error, which is `Die`) and that Postgres
grants a row lock to a waiter that finds it free again and again (it queues
waiters), the strong fairness on `UpdateRow`, `UpsertMembership` and, for the
waiting INSERT of a migration runner, `Record`. `RunEnds` assumes of a runner
what the others assume of a handler. `WalkEnds` is about a client that keeps
following `nextCursor`, which is its only fairness: rows may be added for as
long as it walks. Nothing else is assumed of clients, or of `Die`, `AuditLost`,
`Fail`, or the start of another run. The page has no liveness property: a fetch
may stay unanswered forever.

## Proofs

`UsageQuota_proofs` proves, for any finite set of requests, any tenants, limits,
window and bounds: `TypeCorrect`, `SoftLimitHolds`, `RejectionsJustified`, and
`StrictWhenSerial` (with one request at a time the documented strict limit
holds). The assumptions are those of `UsageQuota`.

`SoftLimit` is not inductive by itself. `Pending(t)` counts the requests that
have read a sum below the limit and not yet inserted; a request enters it in
`ReadUsage`, when the sum it reads, over a window that opened no later than the
current one (`SinceInv`), leaves room. At that moment the events in the window
are at most its limit less one, and at most all other requests are pending, so
the total is within the limit plus the number of requests less one. Inserting
moves one from pending to events; the clock only shrinks the window. `KindInv`
says that only writes get there, `UsedInv` that a sum stays covered by the rows
(they are never deleted), which gives `RejectionJustified`. `IInv` is their
conjunction; `TypeStep`, `LocalStep` and `SoftLimitStep` are its preservation.

`IncidentWrites_proofs` proves, for any requests, users, incidents and finite set
of workers and for either back end, every safety property the runs check of the
incident requests: `TypeCorrect`, `LegalOriginHolds`, `WritersAllowedHolds`,
`ServicesWholeHolds`, `AuditTrueHolds`, `ForbiddenOnlyIfExistsHolds`,
`UnnamedFieldsKeptHolds` and, for requests that do not overlap on a row,
`LifecycleRefined`. The assumptions are those of `IncidentWrites`: well-formed
requests, a valid role in each invite, finitely many requests in flight, and a
`None` that is no status, role, user, answer or row.

`LegalOrigin` speaks of the statuses an incident has had; to see that a commit
keeps it one has to know what every request under way carries. The set `held`
only grows and rows never disappear (`Grows`), so what a request learnt from an
old read stays true (`KnowsFrame`): the status its patch names was a legal move
from a status in `held` (`Reachable`, established by `FindIncident`), the row
its SELECT returned had a status in `held` (`CurrentHeld`, `SelectRow`), hence
the row it merges of the two has a reachable status (`MergedReachable`), and
committing that one keeps `LegalOrigin` (`StatusStep`). `Knows(w)` says this of
each step of a worker, `IInv` is the conjunction, `TypeStep` and `InvStep` its
preservation. The proof shows why overlap can break `LifecycleKept` and not
this: `Reachable` looks at the past of the incident, not at its present row.

The other properties rest on a second invariant, `JobInv`, which adds to `IInv`
what each request has established (`Job(w)`): the incident of a 403 is there
(`Refused`), the role it read allows what it is about to write (`Permitted`, so
`WritersAllowed` follows at the commit, whatever became of the membership), it
holds the lock of the row it has updated and, if it replaces the services, the
ones its DELETE saw are still those of the row (`Holding`, so `ServicesWhole`
survives the commit), its audit entry is of something written (`Logged`), and the
id of a row it creates is nobody else's (`FreshId`, `OwnId`). A step is split in
two: `MovesFrame` shows that a worker writes only rows it has locked or is alone
with and leaves the locals of the others alone (`WritesOwn`, `Spares`), `JobFrame`
that this keeps their jobs, and one lemma per action shows its own; `JobStep` joins
them.

`IncidentLifecycle` is what a client is promised: a status moves only along
`STATUS_TRANSITIONS`. `LifecycleRefined` is the refinement, for behaviours in
which no two workers are between the check and the commit of the same row
(`OneEach`). It needs `Serial`: the row a request read, the one its SELECT
returned and the one that is stored are then the same, so that the legal move it
checked is the step of the abstract specification, and every other step is a
stutter. `LifecycleOneWorker` discharges the hypothesis for one request at a time,
the setting of `incident_serial`; without it the theorem is false, which is what
`incident_lifecycle_race` shows.

`UnnamedFieldsKeptHolds` needs no such hypothesis. `Reading` says that what a
request read of its row is still so, and later that the row it is about to commit
is the merge of its payload with the row as it stands, unless it is in
`overtaken`. `ReadingFrame` keeps it over a step of another request: a commit to
the row puts those that have read it in `overtaken`, and those that have updated
it hold its lock, so that there is no such commit (`Holding`). The run with overlap
patches incidents only; that two updates of a task behave the same is left to
the theorem.

`Pagination_proofs` proves, for any writers, page sizes, clock and number of
rows, `WalkNewestFirst` and `WalkSkipsNothing`. Both rest on `Position`: while a
walk goes on its cursor is that of a row of the last page, which is the last of
everything shown. Rows are compared in the database's order and cursors are
rounded; `CursorOrder` relates the two: what comes after a rounded cursor comes
after its row, and what is lost by rounding shares its millisecond. `Coarse`
says that only the Postgres audit log has microseconds to lose. A row that is
committed late, ahead of the walk or behind it, changes nothing of this, which
is `WriterStep`; `ReaderStep` is the page.

`Migrations_proofs` proves, for any builds and any number of runners,
`MigrationsTyped`, `MigratedOnce`, `MigratedInOrder`, `DoneMeansMigrated` and
`FailureHasCause`. A runner decides from a SELECT made once; `Knows(r)` is what
remains true of it: rows it saw are there still, the files behind it are there
as it has them, and as long as nobody ran beside it nothing has changed ahead.
`Applies(r)` adds that a row about to be committed is absent from the table,
which `Apart` (no two open transactions hold one row) keeps true when another
runner commits. `RunnerFrame` carries these over the steps of other runners.

`AccountAuth_proofs` proves, for any requests, passwords, limits and times,
`TypeCorrect`, `LockedLate`, `TokensUsedOnce`, `LockedInTime` and `LockoutLasts`. `Lagging`
adds to `NeverLockedEarly` that the count a login carries from its read is no
larger than the failures recorded since. `Single` explains the tokens: a request
past `Consume` holds a `Spent` token that nobody else holds and that has not
changed the password yet; `Spent` survives the purge and new tokens. For
`LockedInTime`, `Undisturbed` says what is true until logins overlap: one is under
way at most, the counts are no less than the streak, although a reset may clear
the row between the read and the write. `LockoutLasts` is
for overlapping logins too: `Fresh` says that a login about to write, unless it is
in `stale`, began when no lockout that is set now was in force, since a lockout
that was set later would have made it stale and time only ends one. `TypeOK` also bounds the tokens by `MaxTokens`, for which `Budget` says
that every forgot request under way has an id left: it counts them, so reset
requests are assumed to be finitely many. Otherwise nothing is assumed beyond
`AccountAuth`, whose limits are numbers and whose logins and resets are different
requests.

`TenantMembership_proofs` proves, for any users, requests and invites and for
either back end, `MembershipsTyped`, `MembershipsEarnedAlways` and
`AcceptedAsOverlapping`. `ByManagers` says that whoever is a manager is on record
as one, so that `CheckInviter`, which reads a role another request may overwrite
before the INSERT, has still looked at a past manager. `Carries(w)` keeps that
of an inviter and of an acceptance the invite it found: it is addressed to the
caller and, as rows of `tenant_invites` are filled once (`Filled`), will be that
invite when it is redeemed. `RedeemStep`, shared by the two back ends, gives the
role. `Founded` says that before its creation a tenant has no members, so that
the first Owner is the creator, who keeps that role on the strength of it until
an accepted invite of theirs says otherwise. `Counted` bounds the acceptances of
an invite: those that have marked it and those that found it open and have yet
to (`InFlight`) are no more than there are requests, since once one has marked it
nobody finds it open; in memory, where finding and accepting are one step, it is
one.

`ApiKeys_proofs` proves, for any tenants, users, requests and either back end,
`KeysServedAsGranted`, `RevocationBinds`, `RevocationLasts`, `TenantRevokes` and
`SessionsManage`. They assume what `ApiKeys` assumes: well-formed requests and a
`None` that is nothing else. Authentication spreads over three transactions, a
management request over up to four. What holds them together is `Grows`, which
every step satisfies: no row is removed, the tenant, account, creator and scopes
of a key never change, a time once set stays set, no member leaves. So
`Carries(w)`, what the request has established so far, survives the steps of the
others (`OthersStep`); `KeyRow`, that a key belongs to the tenant of its account
and a manager of it made it, is the check of `FindAccount` and thus needs no
foreign key. `RevocationLasts` (no key is taken back, redated, or handed to another tenant,
account or owner) is `Grows` itself; `TenantRevokes` goes through
the steps that write a key. If the code let members be removed or keys be
reassigned, `Grows` is what would fail.

`WebClient_proofs` proves, for any number of flows, users, tenants and session
ids, of the sessions `ActiveTenantJoinedHolds`, `LogoutFinalHolds` and
`UserFixedHolds`, of the page `PageTellsSessionHolds`, `ListsOfActiveTenantHolds`
and `FiledWhereShownHolds`, and `TypeCorrect`. Three invariants build on each
other.

* `TypeInv` types the variables and says what each flow is waiting for: its
  remaining calls are one of the `Chains` the handlers of `app.js` can leave, its
  request is the first of them, and it has a copy of a session, or an answer of
  the kind its call gets, exactly at the steps that use one (`FlowOK`).
  `ChainSteps` takes a chain apart, `SettleCases` says what the refresh functions
  leave of it.
* `SessionInv` is about the server. `JoinedInv`: the tenant of a stored session,
  or of a copy, is joined by its user, and nobody leaves a tenant. `EndedInv`: a
  session that is over is not stored and nobody holds a copy of it to store.
  `UserInv`, for `UserFixed`: all copies of one session, and the stored one, are of
  one user; what keeps it is that a login saves under a `Fresh` id, which no
  copy, request, answer or cookie names.
* `PageInv` is about a calm page. At rest it agrees with the session of its
  cookie; a flow under way is the only one (`CalmFlow`) and `Agree(page, calls, s)`
  says that the page shows of the session `s` all that its remaining calls will
  not replace: the user unless the next call sets it, the active tenant unless it
  does, the lists that are not still to be refreshed. A click establishes it for
  the chain it starts, the handler's change to the session is matched by what its
  answer will do to the page (`Informs`, `ConcludePage`), the save makes that
  session the cookie's (`ServePage`), and `Apply` followed by `Settle` takes the
  call off the chain (`AgreeServed`, `AgreeSettle`, `ContinuePage`). When the
  chain is empty, `Agree` is the three properties.

The proofs assume what `Sessions` and `WebClient` assume: a `None` that is
nothing else, and pages that are those of the application. They hold for either
value of `Persistent`, so also for pages that stay open after a failure or an
overlap, which the runs leave out, and for any number of flows at once.

Every invariant and every safety action property of a passing run is a theorem
(`LifecycleKept` under the hypothesis it is checked under). Model-checked only:
the liveness properties `RequestsAnswered`, `WalkEnds` and `RunEnds`, as no
installed prover handles fairness; and the three violated properties, which no
proof could hold of.

For the proofs the models say a few things more precisely than a run needs: the
sets of requests, answers, copies and page states are named and `TypeOK` uses
them, `Workers` and `ResetWorkers` are assumed finite, and a request that creates
a row has an id that no other request under way creates.

## Plan

1. Composition of the quota, the incident handlers and the membership: a
   committed write was metered, a 429 writes nothing, a refused request is still
   metered.
2. Row-level security of the incident tables under a second tenant, as it is in
   `ApiKeys`.
3. Proofs: the safety half of the liveness properties, that a waiting request is
   never without a holder that can move; and the composition of item 1.

## Not modelled

The reads that are no list (`GET` of an incident, its timeline, tasks and
updates), the bootstrap and signup of accounts beyond the session they open, the
acceptance of an invite in a session (the page has no form for it), the expiry
of sessions, and shutdown.

Not planned: argon2, hashing and random tokens (taken as injective), rate
limiters (a library outside the source), telemetry, error formatting, styling.
