# Verification of the authentication and user-management module

TLA+ models of the parts of `src/backend/app/auth_usermanagement` (FastAPI, async
SQLAlchemy, PostgreSQL) in which several requests, browsers and an external identity
provider act on the same rows, with the TLC configurations that check them and the
TLAPS proofs of what the checks found to hold.  Paths below are relative to
`src/backend/app/auth_usermanagement` unless they begin with `src/`, `frontend/` or
`documents/`.

## 1. The system

| Part | State | Operations |
|---|---|---|
| Account memberships (`services/user_management_service.py`, `models/membership.py`) | `memberships`: user, scope, role name, status | change role, remove/deactivate, reactivate |
| Tenants (`services/tenant_service.py`) | `tenants` | create (with the owner's membership), update, suspend, delete (with memberships, spaces, invitations) |
| Invitations (`services/invitation_service.py`, `models/invitation.py`) | `invitations`: address, token hash, deadline, accepted/revoked times | create one or up to 50, preview, accept, revoke, resend |
| Users (`services/user_service.py`, `api/platform_user_routes.py`) | `users` | sync at login, suspend, promote/demote platform admin, delete |
| Refresh cookies (`services/cookie_token_service.py`, `api/refresh_token_routes.py`) | `refresh_tokens`: opaque key, token, deadline; a cookie jar per browser | store at login, exchange and rotate, clear at logout, purge |
| Sessions (`services/session_service.py`) | `sessions`: token hash, revocation, deadline | register, rotate, revoke one or all, validate |
| Scope context and guards (`security/`) | per request: roles and permissions of the caller, row-level-security variables | `get_scope_context`, `require_permission`, tenant middleware |
| Role configuration (`auth_config.yaml`, `services/auth_config_loader.py`) | read-only after loading | `permissions_for_role` |
| JWT verification (`security/jwt_verifier.py`) | the JWKS cache: keys with the time they were fetched, two locks | get (sync, async), invalidate, verify |
| Rate limiter (`services/rate_limiter_service.py`) | hits per key, in memory or in `rate_limit_hits` | count and record |
| Cleanup (`services/cleanup_service.py`) | none | purges of tokens, invitations, hits, audit rows |
| Audit (`services/audit_service.py`) | `audit_events` | insert and flush |
| Spaces (`services/space_service.py`) | `spaces`, space-scoped memberships | create, update, suspend |
| Cognito administration (`services/cognito_admin_service.py`, `api/custom_ui_routes.py`) | none; the accounts are Cognito's | sign-up, login, challenge, reset, invitation of an account; disable, enable, reset, delete |
| E-mail | external | stateless calls |
| AuthProvider (`frontend/src/auth_usermanagement/context/AuthProvider.jsx`) | tokens and session id in memory, cookies | bootstrap, timer refresh, login, logout |

They interact through the database: each request has one `AsyncSession` on a READ
COMMITTED connection (`src/backend/app/database.py:31`), reads rows, decides, and commits;
`get_db` itself never commits, so what a handler only flushed rolls back.  Nothing is
locked when it is read (there is no `SELECT ... FOR UPDATE` and no version column), so
every decision may be out of date when it is written.  The browser talks to the
endpoints from several tabs with one cookie jar.  Cognito is called in the middle of
handlers (the deletion of a user, the exchange of a refresh token, an invitation), and
what it has done stays done when the database then rolls back.  Within one process the
tasks of the event loop and the worker threads share the JWKS cache and the in-memory
limiter.

What is hard here:

- **interleaving**: every check-then-write (last owner, existing membership, pending
  invitation, session validation, last platform admin, rate limit);
- **stale state across an await**: the owner count before the Cognito deletion, the
  purge held open across the Cognito exchange, the address a deletion asks Cognito for;
- **locks taken one by one**: two purges, or a purge and the clean-up, in a circle;
- **identifiers nobody checks**: the scope an invitation names as its target;
- **partial failure**: a rotation in two commits, a bulk request with one session, a
  Cognito deletion without the local one, a fetch of the keys that fails;
- **identities that change**: a token names a sub and an address, and outlives both;
- **lost and reordered replies**: the cookie a late reply sets;
- **time**: deadlines passing between a check and its commit, `<` against `<=`;
- **protocol sequences**: legacy role names in a table of v3 roles, resending an expired
  invitation, the path of a cookie.

`PROJECT.json` lists each at its line under "hazards", with the properties that watch it.

What makes each part correct:

- memberships: a live tenant keeps an owner, one membership per user and tenant, nothing
  outlives its user or tenant, nothing is in a scope that is no tenant's;
- invitations: revoked, replaced and used links stay dead, an address has one pending
  invitation, the cleanup takes nothing that can be accepted;
- refresh cookies: no failure costs a login that Cognito has not made anew, no row stays
  usable that no browser can name, a logout revokes, no purge waits for ever;
- sessions: one live session per login, a login that is over stays over, revoke-all leaves
  none;
- users: one row per identity, an identity keeps its row, an admin remains, a deletion
  takes the Cognito account with it;
- JWT verification: listed keys are found, withdrawn ones expire a lifetime after the reply that
  listed them, every verification ends;
- rate limiter: never more than `limit` hits in a window, nobody refused below it.

## 2. Modules

| Module | What it is |
|---|---|
| `AuthConfig` | role names, permission sets, the comparison an acceptance makes |
| `Memberships` | abstract: operations on memberships that read and write in one step |
| `TenantMembership` | account-scoped memberships and every request that writes them; implements `Memberships` when requests do not overlap |
| `InvitationLifecycle` | abstract: what the status of an invitation promises |
| `Invitations` | the invitations of a tenant; implements `InvitationLifecycle` |
| `RefreshCookies` | the refresh-token store and the browsers' cookies |
| `CognitoAccounts` | the accounts of the user pool: every call that changes one, and Cognito's own pages |
| `UserLifecycle` | the users table over those accounts; extends `CognitoAccounts` |
| `Sessions` | the sessions table |
| `RateLimiter` | both limiters behind the middleware |
| `JwksCache` | the key cache and the verifications that read it |
| `<module>Proofs` | the theorems about that module (seven) |
| `MC<module>` | its instance for TLC: symmetry, initial states, deployments |

All but `JwksCache`, which is about tasks and threads, have the same shape.  A constant set `Requests` of slots says
how many requests run at once; `req[r]` holds what the request in slot `r` has read so
far and its stage, which names the step that comes next.  A step is what happens between
two `await`s on the database: a SELECT with the checks that follow it, or a flush and
commit with all it writes.  `Abort` ends a request anywhere: a crash, a dropped
connection, an exception; its open transaction rolls back.  UPDATEs through the ORM
write only the columns whose value changed since the row was loaded, and a row deleted
meanwhile raises `StaleDataError`; unique constraints and foreign keys are checked
against what is committed at that moment.  A DELETE that has not committed locks its
rows: other writers of them wait, that is, their action is disabled.  (An UPDATE and its
commit are one step, so it needs no lock.)

Operators whose comment begins with "Mutant" are never part of a specification.  Each is a
plausible bug in the definition after it, and makes the property that `PROJECT.json`
pairs with it fail.

### Memberships and TenantMembership

`rows` is the table by primary key, `fresh` the keys not yet handed out, `user` and
`tenant` whether these exist.  The code's `select count(*)` keeps a number; the model
keeps the set it counted (`seen`), so that properties can speak of what was counted.
`Memberships` has the same tables and no requests: each of its operations checks and
writes at once, and what it says of the last owner is the rule the handlers are after.
`Atomic` in `TenantMembership` instantiates it.  `CreateTenant` reads nothing it depends
on and takes a free slot only for its one step.

An invitation's target (`target_scope_id`) comes from the body of the request and is
compared with nothing, neither when the invitation is created nor when it is accepted.  A
request to accept therefore has two tenants: `home`, the invitation's own, which must be
live because the invitation goes with it, and `tenant`, the scope in which the membership
is looked up and inserted, any of `TargetScopes`: a live tenant, its own or another, or a
deleted one.  A deleted tenant also stands for an id that never was a tenant's; nothing
tells the two apart, since no foreign key ties `scope_id` to a tenant.  Targets of type
"space" are left out with the spaces.  `known` is a ghost: the rows there were when a
request looked.

| Action | Code |
|---|---|
| `CreateTenant` | `tenant_service.create_tenant` |
| `StartManage` | the guard of `api/tenant_user_routes.py`: `get_scope_context`, `require_permission("members:manage")`; `active_roles[0]` of an unordered query may be any of the roles |
| `LoadTarget`, `CountOwners` | the SELECTs and checks of `update_user_role`, `remove_user_from_tenant`, `reactivate_user_in_tenant` |
| `CommitPatch`, `CommitRemove`, `CommitReactivate` | their commits |
| `StartAccept`, `LoadMembership`, `CommitAcceptInsert`, `CommitAcceptUpdate` | `accept_invitation` with a target from `TargetScopes`; whether the invitation is open is the subject of `Invitations` |
| `StartDeleteUser`, `LoadOwned`, `CountOwners`, `CognitoDelete`, `CommitDeleteUser` | `user_service.delete_user`, one count per owned tenant |
| `StartDeleteTenant`, `DeleteTenantMemberships`, `CommitDeleteTenant` | `tenant_service.delete_tenant` |

### InvitationLifecycle and Invitations

`Invitations` models one tenant.  A creation reads the pending invitations of an address
and, in a later step, revokes those and inserts the new one; a bulk request does so for
one address after another and stops at the first that fails, since the failed session
fails the rest.  Acceptance, revocation and resending check the row they read and write
later.  `StatusOf` is `Invitation.status`, extended by "none" before the row exists and
"gone" afterwards; it is the refinement mapping to `InvitationLifecycle`, whose actions
state what remains of the service's rules when requests overlap: revoked is final,
accepted is final but for a revocation checked before it, nothing pending is cleaned up.

### RefreshCookies

`stored` and `expires_at` are the table; `cookie` and `csrf` the browsers' jars; `wide`,
chosen at the start, says whether `AUTH_COOKIE_PATH` reaches `/cookie/...` as well (by
default it is `{prefix}/token`, and a browser then sends nothing to
`/cookie/clear-refresh`).

| Action | Code |
|---|---|
| `StartStore`, `StartRefresh`, `StartClear` | the three endpoints with their cookie and CSRF checks |
| `PurgeExpired`, `LockRow` | `_purge_expired_tokens`: one DELETE, which takes the locks of its rows one by one, in any order, and keeps them while it waits for the next |
| `LoadToken` | the SELECT of `get_refresh_token`; the purge before it stays uncommitted |
| `CallCognito` | `call_cognito_refresh_async`: no new refresh token, an error or a timeout, and the request ends; or `Exchanged`, a new token, whose answer may be lost |
| `StoreToken`, `DeleteToken` | the two commits of `rotate_refresh_token`; also those of `store_refresh_token` and `revoke_refresh_token` |
| `purge_expired_refresh_tokens`, `LockRow`, `CommitCleanup` | the clean-up a platform admin triggers, and its commit |
| `Deliver`, `LoseReply` | the reply sets or expires the cookies, or gets lost; replies come in any order |
| `Abort`, `BreakDeadlock` | a failure anywhere before the reply; PostgreSQL cancels a statement of a deadlock |

Rows in `locked` are deleted in a transaction that is still open: others see them, and
wait when they want to delete them.  A refresh keeps those of its purge while it waits for
Cognito.  `Deadlocked` says what a deadlock is: requests each of which waits for rows that
only others among them hold.

A refresh token that Cognito has replaced is one it may refuse from then on.  The code
rotates the row after that answer (`refresh_token_routes.py:112`), so the row of a request
that fails in between holds a spent token.  Two history variables keep this per browser:
`spent`, the token of its cookie has been replaced; `lost`, a request that came with its
cookie took effect, at Cognito or in the store, and failed or lost its reply.

### CognitoAccounts and UserLifecycle

`CognitoAccounts` is the pool: the account at each address with its sub, its status, and
whether somebody knows its password or a reset code is out.  Its actions carry the names
of the functions of `cognito_admin_service`; the statuses from which each succeeds are
taken from the errors those functions tell apart, and what is Cognito's own (sign-up on
the hosted pages, a changed address, an account removed in the console) from the cases
`sync_user_from_cognito` says it handles.  `auth_mode` decides which of them exist.

| Action of `UserLifecycle` | Code |
|---|---|
| `SignIn`, `SetPassword` | `/custom/login`, `/custom/set-password`, or the hosted pages: a token |
| `SyncBySub`, `SyncByEmail`, `SyncInsert`, `SyncUpdate` | `sync_user_from_cognito`: two SELECTs, then a flush that the unique columns may refuse |
| `StartAdmin`, `Load`, `CountAdmins`, `CommitFlags` | `suspend_user`, `unsuspend_user`, `promote_to_platform_admin`, `demote_from_platform_admin` behind `require_platform_admin` |
| `DeleteAccount`, `CommitDelete` | the Cognito half and the local half of `delete_user` |
| `ManageAccount` | the platform admin's disable, enable and reset |
| `CognitoNext` | the rest of the pool's life |

A token may be synced at any later time, so `Begin` of a sync takes a sub and an address
that may since have parted.  `Written` is the ORM's flush: a column keeps what another
request has committed unless this one changes it.  `mixed` is a ghost: the rows that a
sync has left with the sub of one token and the address of another, which happens when two
syncs of one row overlap.

### Sessions

A row is its user, deadline and revocation; `login` is a ghost, the first id of its line
of rotations.  `Select` and a commit action per operation (`CommitRegister`,
`CommitRotate`, `CommitRevoke`) are the two steps of each service function; `DeleteUser`
takes the user with all rows.  `Selected` holds the differences between the operations'
WHERE clauses, of which only a rotation's looks at the deadline.

### RateLimiter

`Start` lets through what `_is_protected_path` does not name.  With the database `Count`
purges and counts in a transaction that `Record` closes with the insert; `Refuse` rolls
it back, purge included, and `FailOpen` is any failure, upon which the middleware lets the
request pass.  `MemoryCheck` is the in-memory limiter in one step, since it does not await.
`Cleanup` is the purge of `cleanup_service`.  `granted` is a ghost: every hit ever granted,
in the order of no table, to which the counts are compared.

### JwksCache

`snapshot` is the pair the code replaces as a whole, `lock` the two locks, `queue` the order
in which `asyncio.Lock` serves.  A verification looks (`Look`), waits, looks again under
the lock (`LookAgain`), fetches (`FetchAnswered`, `FetchFailed`), stores and releases
(`Store`); an unknown kid leads through `Invalidate` to one more round.  `MayRun` is the
event loop: a task is stopped only where it awaits, and `Invalidate`, which takes the
threading lock without an await, stops all others with it.  Cognito rotates its keys in
between (`Rotate`).  The clock is `time.monotonic()`, 0 when the host booted, and moves on
between any two steps, during a fetch too.  The code notes the time of a snapshot when the
reply has come, not when Cognito gave it; two ghosts keep the difference: `at`, the time of
a reply under way, and `delay`, how old the snapshot's reply was when it was stored.

## 3. Runs

Deadlock is not checked, because every bound below (keys, tokens, ids, identities, the
clock, created tenants) is finally used up, and a state without successor is then the
bound, not the code; a verification of `JwksCache` runs once.

| Run | Instance | Shows |
|---|---|---|
| `MembershipRaces` | 2 users, 1 platform admin, 2 tenants, 3 rows, 2 requests; 462,664 states | `TypeOK`; `DeletedUserHasNoMembership`: a deletion is final whatever was in flight; `OrphanedOnlyByRaceOrDowngrade`: the only ways a live tenant loses its last owner; `DeletedTenantGainsOnlyStrays`, `DanglingOnlyByOverlapOrStray`: a membership is where no tenant is only by a deletion that overlapped its insert or by another tenant's invitation; `TwinOnlyByOverlap`: a user is twice a member only by an acceptance that could not see the other row |
| `MembershipSerial` | 2 users, 2 tenants, 3 rows, 1 request; 185,934 states | what holds when requests do not overlap (with two requests none of these but the last does): `OneMembershipPerUser`; `DanglingOnlyByStray`; `OwnerLostOnlyByDowngrade`; `RefinesMemberships`: each handler is one atomic operation; `AcceptOnlyAddsPermissions` |
| `LastOwner` (violation) | 1 tenant, 2 requests, owners invited | `LastOwnerStaysOnRemovalOrDemotion`: a removal and a demotion, each of which counted two owners |
| `Downgrade` (violation) | 1 tenant, 1 request | an owner by PATCH accepts an invitation as member |
| `InvitationsRaces` | 2 ids, 3 tokens, 1 address, 2 requests, bulk of 2, clock to 2; 124,595 states | `TypeOK`; `RefinesLifecycle`; `DeadTokenStaysDead`; `TwinsOnlyByResendOrRace` |
| `RevokeAccepted` (violation) | 1 id, 2 requests | an acceptance commits between check and commit of a revocation |
| `RefreshCookiesRaces` | 2 browsers, 3 keys, 2 requests, lifetime 1, clock to 2; 1,891,702 states | `TypeOK`; `LoginSurvivesRotation`: a login is lost only to a failure after Cognito replaced its token; `OrphanedOnlyByOverlapOrLoss` |
| `RefreshCookiesFair` | 1 browser, 3 keys, 2 requests, lifetime 1, clock to 2, no logout; 216,317 states | `EveryRequestEnds` (liveness), with deadlocks of two purges |
| `UserLifecycleRaces` | 2 deployments, 2 rows, 2 addresses, 2 identities and a spare, 2 requests; 1,196,961 states | `TypeOK`; `RowLostOnlyToOldTokenOrOverlap`; `LastAdminLostOnlyByStaleCheck`; `NoFlagWrittenBack`; `StrandedUntilDeleted`; `DeletedIdentityIsGone`: neither the identity loaded nor the one the row has at the commit is left, but for the cases named |
| `SessionsRaces` | 1 user, 3 ids, 2 requests, clock to 1; 197,560 states | `DeletedUserHasNoSession`; `LoginForksOnlyByOverlap`; `LoginOverForGood`; `RevokeAllMissesOnlyNewer` |
| `RateLimiterRaces` | 3 routes, one of them not limited, 4 grants, 2 requests, limit 2, window 1, retention 2, clock to 3; 174,000 states | `ExcessBoundedByOverlap`; `RefusedOnlyAtLimit`; `GrantedAloneBelowLimit` |
| `JwksCacheFair` | 2 kids, 2 tasks, 1 thread, TTL 1, clock to 1; 388,774 states | `TypeOK`; `ListedKeyIsFound`; `WithdrawnKeyExpires`; `NobodyStuck`: the locks, the queue and the stopped loop leave somebody a step; `EveryVerificationAnswers` (liveness) |

Why these bounds are enough: every hazard listed is between two requests, and two slots
give every interleaving of two, while a third request may come as soon as one has ended.
Two users suffice for "the last owner and another", three rows for an owner, a second
owner and a twin row of one of them.  Three tokens or keys are one in use, its
replacement and a concurrent one, and for the purges two expired rows, which two DELETEs may
lock in opposite orders, and one that a login or rotation adds.  Two tenants are an
invitation's own and the one it names; in `MembershipRaces` the second is created only
where nobody has been given a role by PATCH (`OneTenantOrNoPatch`), while `MembershipSerial`
has both.  The clock runs past one lifetime, so a deadline can
pass between any two steps; with a lifetime of 1 tick and a clock to 2, rows expire before,
during and after a request, while later ones live.

`RefreshCookiesFair` is smaller (`EndsBounds`): states in which every key has been drawn
are not continued, because the property holds from there on, and it has no logout, whose
one step in the store is also a refresh's.

`UserLifecycle` looks at two deployments, because no request belongs to both and the
product of all operations would be out of reach: in hosted mode users change addresses and
are suspended, unsuspended, promoted, demoted and deleted; in custom mode accounts are
signed up, invited, challenged, disabled, enabled, reset and deleted.  Two identities and
two addresses are an admin and the user who is administered, the recreated account and the
address that changes hands.  A third identity is handed out in hosted mode while a deletion
has been to Cognito and not yet committed (`SpareIdentity`): who was deleted, or removed there,
signs up again and may sync into the row before it goes, which two identities, of which
the admin has one, do not allow.  One user with three sessions is a
login, its successor and another login or a second successor.  Two hits are the limit, a
third the excess, a fourth comes after the window has passed; the retention is longer than
the window, so the cleanup and a request's purge differ.  For the key cache, two tasks
share the asyncio lock and the loop, and the thread takes the other lock; two kids are the
old and the new one.  The clock starts at the boot of the host or a TTL later, since
`fetched_at = 0.0` means a different thing there; one tick is enough for a snapshot to grow
old, or for a reply to arrive a TTL after Cognito gave it, and the theorems take any TTL.

Symmetry is over users, keys, ids, identities, addresses, tenants, browsers,
tokens and slots, which no definition tells apart.  The runs with liveness use none.

**Fairness.**  Two runs assume any.

`JwksCacheFair`: weak fairness of `Continue(r)` for each verification `r`, that is, the
event loop and the threads run on and a fetch ends.  The code justifies it: `httpx` is
called with a timeout of 10 seconds, the asyncio lock serves its waiters in order (`queue`),
and no step waits for anything but a lock or that fetch.  The thread lock needs no stronger
assumption, since each verification takes it a bounded number of times and runs once.
Nothing is assumed of `Rotate`, `Tick` or `Start`: Cognito need not rotate and nobody need
ask.

`RefreshCookiesFair`: strong fairness of `Serve(r)` and weak fairness of `Answer(r)` for
each request, and weak fairness of `BreakDeadlock`.  The event loop runs every handler on;
the call to Cognito ends within its timeout of 10 seconds (`cookie_token_service.py:193`);
the clean-up's endpoint commits (`api/platform_tenant_routes.py:161`); a reply arrives or its connection
fails.  Strong fairness is what PostgreSQL's lock queues give: a row's waiters are served
in turn, so one that may go on again and again does.  `BreakDeadlock` is its deadlock
detector, without which two purges would wait for each other for ever.  Nothing is assumed
of new requests, of `Abort` or of the clock.

What TLC finds on these instances the theorems below state for all.

## 4. Proofs

The proof modules assume of the constants only what the modules' ASSUMEs say: `RowIds` is
finite, role names are known ones, durations are naturals, and the value that stands for
"no row", "no request" or "no cookie" is none of the rows, requests or keys.  TLC
evaluates these in every run.

**TenantMembershipProofs.**  The invariant `IInv` is `TypeOK`, `FreshIsEmpty` (a key not
handed out has no row) and, per request, `RequestInv`: what it may still rely on when it
commits.  `TypeOK` alone is not inductive, as a commit writes into the row it loaded
earlier; what makes it so is that a key once handed out keeps its user and tenant for
good (`Belongs`), which every step preserves (`Kept`, `RequestInvKept`).  For
`OrphanedOnlyByRaceOrDowngrade` the invariant also carries that a request about to give
up an ownership has counted two different owners (`Several`, `MoreThanOne`), and that
`delete_user` has counted every tenant of an owner row it found.  The step proof then goes
through the commits: if what was counted still holds, an owner remains.  A tenant's deletion
has locked all of the tenant's rows among those it could see (`DeleteTenantInv`), and an
acceptance that found none has none among those it could see (`AcceptInv`); with
`CreatedInv`, by which scopes in use have once been drawn, `DanglingCauses` and `TwinCause`
follow.  Theorems: `TypeCorrect`, `DeletedUserGone`, `DeletedTenantStrays`,
`DanglingCauses`, `TwinCause`, `LastOwner`, `AcceptAdds` (from `AccountRolesChain`: the permission sets of the account roles are
ordered by inclusion, so the comparison an acceptance makes takes nothing away).

*Requests that do not overlap.*  Six modules end with theorems under an assumption that
their comment names, mostly `OneAtATime` (`\A r, s \in Requests : r = s`): the number of
requests at once is at most one, all other constants stay arbitrary, and requests may
still be aborted anywhere.  They are the converse of the properties with "Race" or
"Overlap" in their name: the overlap named there is the only cause.  Each rests on an
invariant `SerialInv` beside `IInv`, whose part `Current(q, table)` says that the rows a
request has read are the rows there are, and on one fact about commits: when a request
commits, no other is in flight that could have been overtaken.  `Current` takes the table
as a parameter, so that one lemma carries it over every step that leaves the table alone.

- `TenantMembershipProofs`: `OneMembership` and `SerialDangling`, which are false with two
  requests; `SerialOwnerLoss`, in which of the exceptions of `LastOwner` only the accepted
  invitation remains; and `SerialRefinement`: `Spec => RefinesMemberships`, one lemma per
  kind of write (`AtomicInsert`, `AtomicUpdate`, `AtomicDeleteUser`, ...), the handler's
  commit being the abstract operation and all its other steps stutters.
- `InvitationsProofs`: `SerialAcceptance` (no accepted invitation is revoked), `SerialTwins`.
- `UserLifecycleProofs`: `SerialAdmins` (the last platform admin stays), `SerialRowsLost`.
- `SessionsProofs`: `SerialRotation` (one unrevoked session per login), `SerialRevokeAll`.
- `RateLimiterProofs`: `LimitHoldsOneByOne` assumes less, of one key only that its own
  requests come one after another (`[]OneByOne(key)`); `Limit` then holds for that key.
- `RefreshCookiesProofs`: `SerialLogout` and `SerialOrphans` assume that no browser has two
  requests in flight (`[]OneTab`) and that the cookie's path covers `/cookie` (`wide`).
  The invariant is `Carries`: a request carries the cookie its browser still has.

What still happens beside the one request (the clock, purges, the deletion of a tenant in
`Invitations` and of a user in `Sessions`, Cognito's own pages) is part of these theorems.

**InvitationsProofs.**  `IInv` adds to `TypeOK` that a request in flight names ids already
handed out and an open batch is never empty.  `Refinement` proves
`Spec => RefinesLifecycle`: the initial states map, and each action maps to the abstract
action of its name or to a stutter; a resend that commits late may map to an expiry, a
revocation or acceptance of an already revoked row to a stutter.  `OpenRow` says that a row
some step writes and leaves open has a token never issued before and comes from a resend
or a creation that commits; `DeadTokens` follows from it, and with `NewTwins` (which row of a new pair that step
wrote) `TwinsExplained`.  Theorems: `TypeCorrect`,
`Refinement`, `DeadTokens`, `TwinsExplained`, `SerialAcceptance`, `SerialTwins`.

**RefreshCookiesProofs.**  Needed beyond `TypeOK`: every key in a table, cookie or request
was issued (`AllIssued`); what each stage knows of its keys (`StageInv`: a key
the request has stored is still in the store or over its time, the key it carried is gone
from the store once its reply is ready, and the rows a purge has locked are stored and
expired); a key stored by a request in flight is in no cookie and no other request
(`Private`); a delivered key is in one browser's cookie and in that browser's requests
only (`Owned`); a row is locked by one transaction at most (`OneHolder`), so that what a commit
deletes is in nobody else's hands.  `LoginSurvivesRotation` is a conjunct of the invariant:
`Excuses` names the request that came with a cookie and has taken effect, and a step that
ends one must leave the mark `lost`.  Theorems: `TypeCorrect`, `LoginSurvives`, `Orphans`,
`SerialLogout`, `SerialOrphans`.

**UserLifecycleProofs.**  The steps of Cognito are summed up first: `Tame` says that an
address keeps its identity, loses it, or gets one that is new or has moved.  `IInv` is
`TypeOK`, `PoolInv` and `RowsInv` (identities in use were handed out, each is at one address
unless it has moved, and a row that is not mixed is about an identity and its address) and,
per request, what it knows of the row it loaded: an id once handed out, and for a deletion
past Cognito that the identity it loaded is gone or has moved (`AccountGone`), which
`GoneStays` preserves.  The action properties follow from what a single flush can write
(`WrittenColumns`).  `LastAdminGoes` says which commits can take the last admin.  Theorems:
`TypeCorrectness`, `RowsLostToOldTokens`, `LastAdminLostByStaleCheck`,
`FlagsNotWrittenBack`, `IdentitiesDeleted`, `StrandedForGood`, `SerialAdmins`,
`SerialRowsLost`.

**SessionsProofs.**  Rows only fade: once its key is handed out, a row is revoked or
deleted but never changes hands or becomes valid again (`RowsFade`).  `IInv` adds to `TypeOK`
that fresh keys are in no row, what each request has selected, and the two invariants
themselves.  Theorems: `TypeCorrectness`, `DeletedUsersStayWithoutSessions`,
`LoginsForkOnlyByOverlap`, `LoginsEndForGood`, `RevokeAllMissesNothingOlder`,
`SerialRotation`, `SerialRevokeAll`.

**RateLimiterProofs.**  No purge takes a hit that is still in the window (`Covers`): requests
purge by the time they began at, which is never ahead of the clock, and the cleanup keeps at
least a window.  `Budget` counts grants and the requests about to grant together; it is the
inductive form of `ExcessBoundedByOverlap`, which is what remains when the second number
is dropped.  Theorems: `TypeCorrectness`, `GrantsBounded`, `RefusalsDeserved`,
`AloneGrantedBelowLimit`, `LimitHoldsOneByOne`.

**JwksCacheProofs.**  `SnapshotInv` and `RepliesInv` say that the snapshot, and each reply
under way, lists nothing withdrawn before Cognito gave it (`GoodBy`: for the snapshot, its
time less its delay); `ListedInv` and `SureInv` that
a verification whose invalidation came in time finds its key in whatever is stored after.
For the locks, `HeldInv` says who holds which, `QueueInv` that the queue of the asyncio lock
is exactly the tasks that wait for it, without repetition, and `LoopInv` that one task at
most has stopped the event loop; `WaitInv` is all three.  `NobodyIsStuck` follows in this
order: whoever holds the threading lock is a thread and can go on; if nobody holds it, a
thread can, and so can a task that has stopped the loop for it; if the loop runs, the
holder of the asyncio lock can go on; if that is free too, the head of the queue can.
Theorems:
`TypeCorrectness`, `WithdrawnKeysExpire`, `ListedKeysAreFound`, `OneFetchPerPath`,
`NobodyIsStuck`.

Only model-checked: `EveryVerificationAnswers` and `EveryRequestEnds`.  Liveness under
fairness and ENABLED are beyond the prover and remain for TLC; `NobodyIsStuck` is the safety
half of the first (`CanContinue` spells out the guards in place of ENABLED).  The theorems `[][...]_vars` and the
refinements hold of every behaviour, fair or not.

## 5. What the checks say about the code

Violations of what documents, comments or messages state (`PROJECT.json`, "findings"):

1. *Last owner protection* (`documents/agent_reference.md:642`) holds one request at a time
   only: a removal and a demotion that overlap each count two owners (`LastOwner`).
2. *"Permanently delete a tenant and all associated data"*
   (`services/tenant_service.py:185`): an acceptance that inserts between the DELETE of the
   memberships and the commit leaves one of a tenant that is gone
   (`DanglingOnlyByOverlapOrStray` has to except it).
3. *"never downgrade through invitation"* (`services/invitation_service.py:140`): PATCH
   stores `owner`, a name without permissions in the v3 table, so any invitation
   "upgrades" it (`Downgrade`).
4. *"Accepted invitations cannot be revoked"* (`services/invitation_service.py:222`): they
   can, by overlap, and their status then reads revoked although the membership stands
   (`RevokeAccepted`).
5. *Logout clears the refresh cookie server-side* (`AuthProvider.jsx:327`): with the default
   path it only clears the browser's, and the row stays (`OrphanedOnlyByOverlapOrLoss` has to
   except a logout that was not sent the cookie).
6. *"Cognito sends a temporary password email to the invited user"*
   (`documents/custom_ui_integration_guide.md:173`): the mail is suppressed and the password
   dropped, so an invited account stays as it is until it is deleted, even one that was in
   use before (`StrandedUntilDeleted`).
7. *"while preserving at least one admin"* (`services/user_service.py:170`): two demotions
   that overlap leave none (`LastAdminLostOnlyByStaleCheck` names the stale count).
8. *"Permanently delete a user from Cognito and the local database"*
   (`services/user_service.py:190`): Cognito is asked for the address in the row and not for
   the sub, and a user it does not find counts as deleted; somebody who has changed the
   address in Cognito keeps the account (`DeletedIdentityIsGone` has to except them).
9. *A logout revokes the backend sessions* (`documents/custom_ui_integration_guide.md:252`): all
    but the current one (`RevokeAllMissesOnlyNewer` has to except the session kept).
10. *Rate limiting applies to the custom endpoints*
    (`documents/custom_ui_integration_guide.md:335`): no `/custom` path is limited.
11. *"Force next call to re-fetch"* (`security/jwt_verifier.py:133`): not while the clock,
    counted from the boot of the host, is below the TTL, nor when a fetch of the other path
    is under way (`ListedKeyIsFound` needs both as exceptions).

Noticed while modelling, not among the runs:

- Two first syncs of one person ("Idempotent - safe to call multiple times",
  `services/user_service.py:35`) may both insert; the unique columns refuse the second, which
  answers 500 and leaves no trace.
- An invitation's `target_scope_id` is taken from the body as it comes
  (`schemas/invitation.py:18-25`, `api/route_helpers.py:66-73`): the inviter's authority is
  checked in the tenant of the route, the membership is made wherever the body says.  No
  text of the repository says what is meant, so it is an exception of
  `DeletedTenantGainsOnlyStrays` and the two `Dangling` properties, by its name.
- A rotation stores before it deletes, in two commits, so that a failure between the two
  leaves the new row without a browser that knows its key
  (`OrphanedOnlyByOverlapOrLoss`); what costs the login is a failure between Cognito's
  answer and the first of them.
- A resend of an expired invitation yields two pending ones
  (`documents/version_1_fullreport.md`, section 6.9, has earlier ones auto-revoked);
  `TwinsOnlyByResendOrRace` names the case.
- `api/tenant_user_routes.py:49` says "admin+", but `members:manage` is not among the
  permissions of `account_admin`; nor of `owner` as PATCH stores it.
- A session past its deadline can still be listed and revoked, and a rotation gives its
  successor whatever deadline the request names, by default that of its predecessor.
- `/token/refresh` never returns a refresh token (`refresh_token_routes.py:122`), so
  `rotateSession` in `AuthProvider.jsx:244` is never called.
- Audit rows are added after the service's commit and flushed, and nothing commits them.

## 6. Assumptions and what is left out

- The database role is the one of the default `DATABASE_URL`, a superuser, whom no
  row-level-security policy restricts.  Under a restricted role many handlers, which touch
  rows without having set the scope variables, would find none.
- `token_urlsafe` never repeats a value, and primary keys are never reused.
- E-mail, formatting, pagination, HTTP status codes and the wording of errors.
- Signature checking of tokens and everything inside Cognito: its answers are choices.  What
  a call does to an account is taken from the errors and statuses the service tells apart.
- One clock per model.  Servers whose clocks differ, and several processes with a key cache or
  an in-memory limiter each, are not modelled.  How long a fetch of the keys may take is left
  open, though `httpx` gives up after 10 seconds without data.
- A rate-limit key is a route: the client's address would only multiply the keys.
- What a deletion of a user does in `memberships` and in `sessions` is in
  `TenantMembership` and `Sessions`, each with the users it needs, not in one joint model.
- Invitations with a target of type "space" are left out with the spaces; among account
  scopes the target is free.
- `InviteRoles` are role names; who may invite for which role is left to the scope context.

Not modelled, and why ("components" in `PROJECT.json` has the list):

- Spaces and space-scoped memberships: the handlers are those of accounts without the owner
  checks, and no code reads a space's or a tenant's status after it has been suspended.
- The scope context and the row-level-security variables: they live within one request and
  no other reads them; under the default database role they restrict nothing.
- The tenant middleware, response headers, configuration endpoints, e-mail: input and output.
- Loading and validating `auth_config.yaml`: done once, before the first request.
- The audit log: an insert that nothing reads back in the module.
- The browser's bootstrap and refresh timer, the forms and lists: their calls are requests of
  the models in any order, which includes the orders the browser makes them in.

## 7. Plan

1. `SessionLifecycle` as an abstract specification of a login (live, over) that `Sessions`
   implements but for forks; `LoginOverForGood` is its main step, and `SerialRotation` what
   its refinement needs when requests do not overlap.
2. The exceptions of `ListedKeyIsFound` stated as what has to have happened before, as those
   of `DeletedIdentityIsGone` are, rather than as states.
3. Space-scoped memberships beside the account-scoped ones, with invitations that name a
   space as their target.
4. The scope context: space inheritance, who can still manage a tenant.
