# EnvVault in TLA+

EnvVault is a multi-tenant store for the environment variables of software
projects: a FastAPI back end over PostgreSQL, with Redis for rate limiting.
This directory holds TLA+ models of the parts of it that keep state, the TLC
configurations that check them on small instances, and proofs, checked by
TLAPS, of what holds for every instance.

Paths below are relative to `src/backend/app` unless they start with `src/` or
`alembic/`.

## 1. The system

### Components

| Component | State it keeps | Operations | What makes it correct |
|---|---|---|---|
| Secret store (`services/secret.py`, `repositories/secret.py`) | `secrets` (with `is_deleted` and `current_version_id`), `secret_versions` | create, rotate, reveal, soft delete, list | version numbers without gap or duplicate, the pointer at the newest, one secret per name, reveals never stale, deletion final |
| Environments (`services/environment.py`) | `environments`, `encryption_keys` | create with a key, delete with everything in it | every environment has its key, every version its key and secret |
| Audit log (`repositories/audit.py`) | `audit_logs`, append-only by trigger | record, list | no plaintext without a committed entry; entries are for ever |
| Sessions (`services/auth.py`, `repositories/user.py`) | `refresh_tokens` | login, refresh with reuse detection, logout, logout-all | rotation atomic, one successor per token, a sweep reaches every token |
| Membership (`services/membership.py`, `services/rbac.py`) | `memberships` | gate, invite, change role, remove | one membership per user, only owners make owners and admins, there is always an owner |
| Rate limiting (`core/rate_limit.py`, `api/deps.py`) | a counter per key, in Redis or in the process | hit | at most the limit per window; a key that refuses recovers |
| Unit of work (`core/uow.py`, `core/database.py`) | a session, a pooled connection, the RLS settings of its transaction | enter, commit, flush, rollback, exit | rollback on every exit without commit; the settings are in force whenever a statement runs, and never for anyone else |
| Organizations, projects, users (`services/organization.py`, `services/project.py`, `register`) | `organizations`, `projects`, `users` | create, rename, delete, list, register | unique slugs and e-mails, complete cascades, answers that say what happened |
| Schema and policies (`src/ddl.sql`, `alembic/versions`) | constraints, triggers, row-level security | - | the policies agree with the services |
| Deployment (`src/backend/init-db.sh`, `scripts`, `alembic`) | the revision, roles, owners, privileges | provision, upgrade, downgrade | the schema is what its revision says; at the latest one the application can use it |
| Cryptography and credentials (`services/crypto.py`, `core/security/tokens.py`) | none | AES-GCM, envelope keys, JWT, password hashes | external primitives |
| HTTP layer, configuration, logging, health | none | - | wiring |

### How they interact

A request passes the rate limiter (for login, refresh and reveal), then the
dependency `get_current_user`, which looks the user up in a unit of work of its
own, then `get_org_uow`, which opens the unit of work of the request, sets
`app.current_user_id` and `app.current_org_id` for the policies and refuses
non-members.  The service then runs statement after statement in that one
transaction, READ COMMITTED, and commits.  Requests share nothing but the
tables and the limiter: they interleave at every `await`, meet in row locks,
unique constraints, foreign keys and cascades, and are rolled back when the
session is closed without a commit.  Before all that an operator or CI brings
the database to a revision of the schema, with scripts and Alembic commands that
may fail, stop half-way or overlap.

### Hard behaviours

* check-then-act: every service reads, decides and writes in separate
  statements without `FOR UPDATE` (names, version numbers, the count of owners,
  the state of a refresh token);
* the ORM session keeps objects it has read (the actor's membership, a secret
  and its pointer) while other transactions commit;
* constraints that disagree with the check in front of them (soft deletion),
  policies that silently hide rows from a DELETE;
* a request can end at any statement: a disconnect, a dead worker, Redis gone;
* two commands to Redis that belong together;
* settings that live as long as a transaction, on connections that requests of
  different organizations take turns on;
* scripts that commit statement by statement, migrations that replace what
  earlier ones made, and two roles either of which may own the result.

`PROJECT.json` lists these hazards at their lines with the properties that
cover them, and says so where none does yet.

## 2. Modules

| Module | What it is |
|---|---|
| `Secrets` | secret store, environments, keys and audit log, one action per statement |
| `SecretsInvariant` | the inductive strengthening of its safety properties |
| `SecretsProofs` | the theorems about `Secrets` |
| `SecretHistory` | abstract: a secret is an append-only sequence of versions |
| `SecretsRefinement` | the refinement mapping from `Secrets` to `SecretHistory` |
| `SecretsRefinementProofs` | the theorem that it is one |
| `RefreshTokens` | sessions |
| `Membership` | members of one organization: gate, services and policies |
| `Catalog` | users, organizations and projects: unique names, locks, cascades, roles lost meanwhile |
| `Tenancy` | the pool, the unit of work, and the row-level security policies of every table |
| `Deployment` | provisioning scripts and migrations: schema, owners and privileges |
| `RedisLimiter` | the Redis limiter, for one key |
| `FixedWindow` | abstract: at most `Limit` grants per window |
| `RefreshTokensProofs`, `MembershipProofs`, `CatalogProofs`, `TenancyProofs`, `DeploymentProofs`, `RedisLimiterProofs` | the theorems about the module they are named after |
| `MC*` | the modules TLC runs, with their symmetry sets |

### Conventions

* A **request** has a program counter `pc[r]`, whose labels are the statements
  it is about to run, and a record `req[r]` of its arguments and of what it has
  read.  Each action is one statement, from one `await` to the next, with the
  decisions that follow it.  A request ends with a 2xx answer (`"ok"`), an
  exception with a handler, one without (a 500), or `"aborted"`.
* **Rows** are named after the request that inserts them, as ids are fresh
  UUIDs.  Immutable columns are fields of that request's record.  The table
  variables hold what is committed.  An uncommitted row is a request between
  its INSERT and its COMMIT; in `RefreshTokens` an uncommitted UPDATE is the
  request's entry of `locked`.
* **PostgreSQL** is modelled by what its statements wait for and see: a SELECT
  sees committed rows; an INSERT waits for an uncommitted row with the same
  unique key and then fails or succeeds on the outcome; a foreign key holds its
  parent; an UPDATE or DELETE waits for the transaction that holds the row and
  looks at it again.  A write and the COMMIT directly after it are one step
  when nobody can tell them apart: rows changed but not committed are seen
  unchanged by others, who can only wait for them.
* **History variables** (`seen`, `known`, `barred`, `held` of `Tenancy`, `lost`,
  `recent`) are read by properties only and said to be history where they are
  declared.
* Operators commented `mutant:` are plausible bugs.  `PROJECT.json` pairs each
  checked property with one that breaks it; no specification uses them.

### Secrets

| Code | Action |
|---|---|
| `EnvironmentService.create` | `BeginMkEnv`, `CheckEnvName`, `InsertEnv` (flush), `CommitEnv` (key and commit) |
| `EnvironmentService.delete` | `BeginRmEnv`, `ReadEnv`, `DeleteEnv` (cascade) |
| `_get_owned_secret`, `_resolve_environment_org` | `ReadSecret`, `ResolveEnvironment` |
| `create_secret` | `BeginCreate`, `ResolveEnvironment`, `CheckName`, `ReadKey`, `InsertSecret`, `InsertVersion`, `CommitVersion` |
| `add_new_version` | `BeginOnSecret`, `ReadSecret`, `ResolveEnvironment`, `ReadKey`, `ReadLatest`, `InsertVersion`, `CommitVersion` |
| `get_decrypted_value`, `reveal_secret` | `ReadSecret`, `ResolveEnvironment`, `ReadVersion`, `Decrypt`, `RecordReveal`, `Respond` |
| `delete_secret` | `ReadSecret`, `ResolveEnvironment`, `SoftDelete` |
| session closed without commit | `Abort` |

Abstracted: ciphertexts (a version names its plaintext; the model keeps which
key it was encrypted under), timestamps, `created_by`, listing, the role gate,
and the read the endpoint of a rotation does for its answer after the commit.
All environments belong to one project, which stays.  `secret_versions`
references `encryption_keys` without a cascade, so dropping an environment with
versions may fail depending on the order in which triggers fire; `DeleteEnv`
allows both outcomes.  PostgreSQL may break a cycle of row locks between a
rotation and a cascade by ending one of the two with an error; for the tables
that is an `Abort`.  `Catalog`, where transactions keep one lock while they
wait for the next, represents such cycles.

### RefreshTokens

`login` is `BeginLogin`, `ReadUser`, `Issue`; `refresh` is `BeginWithToken`,
`ReadToken`, `CheckUser`, `Revoke`, `Issue`, or ends in `RevokeExpired` or in
the sweep `RevokeAll`, `ApplyAll`; `logout` ends in `Revoke`; `logout_all` is
the sweep alone.  The sweep is two steps because an UPDATE finds its rows in
the snapshot it starts with, and then waits for those another transaction
holds.  `Expire` is the clock, `Deactivate` an operator (the code only reads
`is_active`).  Left out: unknown tokens and wrong passwords, which the first
read refuses without a change.

### Membership

`Gate` is `get_org_uow`, `Authorize` is `require_org_role`; then `FindExisting`
(invite) or `ReadTarget` and `CountOwners` (change, remove), `StartWrite`, which
evaluates the policies of migration `d4a1b72e9c08` in the snapshot of the
write, and one of `ApplyInvite`, `ApplyUpdate`, `ApplyRemove`.  The session
keeps the actor's row from the gate on: the role the service decides on is the
one read first (`actorRole`), even when the target is the actor itself.  The
policies read the table afresh.  `owners` is the set of rows `count_owners`
counted, `target` the role the target had when it was read.  `Init` is any organization with an owner.  A request that is cut off
is one that takes no further step.

An admin cannot remove itself: `org_memberships_delete` lets owners only delete
their own row, the DELETE finds nothing, and the answer is 204 all the same.

### Catalog

| Code | Action |
|---|---|
| `AuthService.register` | `BeginRegister`, `CheckName`, `Start`, `AddEntry`, `Commit` |
| `OrganizationService.create` | `BeginMakeOrg`, then the same |
| `ProjectService.create` | `BeginMakeProject`, `Authorize`, `CheckName`, `Start`, `AddEntry`, `Refer`, `Commit` |
| `update` of both services | `BeginOnOrg`, `BeginOnProject`, `Authorize`, `Read`, `CheckName`, `Start`, `LockRow`, `AddEntry`, `Commit` |
| `OrganizationService.delete` | `BeginOnOrg`, `Authorize`, `Read`, `Start`, `LockRow`, `Cascade` (once for each project, and a last time), `Commit` |
| `ProjectService.delete` | `BeginOnProject`, `Authorize`, `Read`, `Start`, `LockRow`, `Commit` |
| the audit entry of `get_decrypted_value` | `BeginOnOrg`, `Authorize`, `Start`, `Refer`, `Commit` |
| a statement PostgreSQL ends because of a deadlock | `Victim` |
| `MembershipService.update_role`, `remove` | `Demote`, at any time, to a lower role out of `Reduced` or to none |

Each of these transactions has one statement that writes.  `Start` is the
snapshot it begins with, in which it finds its row and its policies are
evaluated.  Then it takes its locks one after the other and keeps those it has:

* an UPDATE of a slug and a DELETE lock their row against every other use and
  look at it again (`LockRow`; a slug is a key, so a foreign key's KEY SHARE
  conflicts with its UPDATE too);
* an INSERT and an UPDATE wait until nobody else is adding their name or giving
  it up, and meet the unique constraint (`AddEntry`); an UPDATE holds its row
  meanwhile;
* the triggers of an INSERT lock the organization a foreign key refers to FOR
  KEY SHARE (`Refer`); the INSERT of a project holds its index entry meanwhile;
* the triggers of a DELETE of an organization lock its projects one by one
  (`Cascade`), holding the organization and the projects before.

`held` are the rows a transaction has updated or deleted; the rest of what it
holds follows from where it is (`Shares`, `Entries`).  `Blockers` are the
transactions it waits for.  If it waits for itself through others, `Victim` ends
it with an error that no service maps, a 500.  Two organizations that swap slugs
get there: each holds its row and waits for the entry the other gives up, and
the check does not stop them, for an admin sees the organizations it belongs to
only.  `OnlyRenamesDeadlock` says there is no deadlock of another kind.

`Commit` publishes the transaction.  Deleting an organization that has audit
entries always fails: `ON DELETE SET NULL` would update them and their trigger
forbids it, so the owner is answered 500 (`Cascade`).  A foreign key that fails in
`ProjectService.create` is an `IntegrityError` like any other and answered as a
slug that exists (`Refer`).  The DELETE of a row its policy hides is a 204
that deletes nothing (`Start`).  `Demote` only lowers roles: what a promotion
gives is the subject of `Membership`, and here it would only let a request pass
that has been refused.

### Tenancy

`Arrive` picks any user, organization, operation and row; a path may name rows
of another organization.  `Enter` is `__aenter__`, or the `set_rls_context` at
the end of `commit()`: either takes a connection from the pool.  `ReadUser` is
`get_current_user` with its own unit of work, `Gate` is `get_org_uow`,
`Authorize` is `require_org_role`, `Find` the lookup a service starts with and
its test that the row belongs to the organization of the path, `Write` the
statement that writes and its COMMIT, `Resume` what follows the commit, `Cancel`
the end of a session at any point, `ChangeRole` a promotion, demotion or removal
by some other request.  `rank` is the role in the membership the session has
kept since the gate, which `Authorize` decides on; `held` is history: the roles
the user has had while its request ran.  Of the roles the model has two, as the
operations it offers ask for `member` or for nothing (`Required`).

`Visible` and `MayInsert` are the policies; the restrictive ones ask for the
membership at *every* statement (`Guard`), so a removal takes effect at once.
They do not ask for the role: a demotion takes effect with the next request.
`Secrets`, `RefreshTokens` and `Membership` leave this out: there a caller who
has passed the gate stays a member, or the request is one that is cut off.
`Write` and COMMIT are one step because others can only wait in between, which
`Secrets` and `Catalog` model; whether the cascade of an environment fails is
the subject of `Secrets` too.

### Deployment

The other modules start from a database that has every table, policy, function
and grant.  `Deployment` is how it gets there.  `db` is the committed state:
`rev` is `alembic_version`, `owner` says which objects there are and whose they
are, `shape` what later migrations change of the first one's tables and
policies, `app`, `public` and `defaults` the privileges of the runtime role, of
PUBLIC on the SECURITY DEFINER functions, and the default privileges.

| Code | Definition |
|---|---|
| `upgrade()` and `downgrade()` of the seven migrations | `CanUpgrade`, `Upgrade`, `CanDowngrade`, `Downgrade` and the operators they name |
| `alembic upgrade`, `downgrade` (`alembic/env.py`) | `StartAlembic`, `FinishAlembic`, `DieAlembic` |
| `init-db.sh` | `Init`, then `Statement` |
| `provision_migration_role.sh`, `provision_app_role.sh` | `StartScript`, `Statement`, `DieScript` |

An Alembic command reads the revision, runs all its migrations in one
transaction and commits them together; its `UPDATE alembic_version` expects the
revision it has read (`StillAt`).  A script's statements are committed one by
one, and the first that fails ends it.  Who may do what is PostgreSQL's rule of
ownership: a superuser everything, another role what it owns, and CREATE OR
REPLACE keeps the owner there is.

Assumed: a server's database belongs to a role of the platform, so that
`envvault_migrate` cannot create extensions; the operator of a server is a
superuser but not the bootstrap superuser, whose objects cannot be reassigned;
nobody drops roles or alters objects by hand.  Left out: the privileges PUBLIC
has anyway (the schema, types, other functions, CONNECT) and sequences, of which
there are none.

### RedisLimiter

One action per Redis command (`Incr`, `Expire`), the death of a request between
them (`Die`), and `Tick`.  The counter stops at `Limit + 1`: above the limit its
value does not matter.

## 3. What is checked

Bounds are those of the `.cfg` files.  `CHECK_DEADLOCK FALSE` is set where
requests are one-shot, so a run ends when all have ended; the limiters never
stop.

| Run | Instance | States | Shows |
|---|---|---|---|
| `secrets` | 4 requests and a seeded environment, 2 names | 243,000 | all safety properties of `Secrets`, and `StoreInv` |
| `secret_history` | 3 requests and a seeded environment, 1 name, fairness | 9,600 | `Secrets` implements `SecretHistory`; every request ends |
| `tokens` | 3 requests, 2 users, fairness | 207,000 | sessions: safety, and every request ends |
| `members` | 3 requests, 2 users, roles owner, admin, member | 896,000 | membership safety |
| `catalog` | 2 requests (symmetric), 2 users, 2 names, two organizations, one with a project, demotions to member or to none | 405,000 | names unique, no orphans, answers true but for demotions, no deadlock without a rename |
| `tenancy` | 2 requests, 2 connections, 2 users, 2 organizations, 10 rows, 6 of them named in paths | 2,025,000 | isolation of tenants, roles at work while they change, soundness of the pool |
| `deployment` | 2 Alembic commands and a script at a time, Docker and server | 3,672,000 | schema, privileges and ownership, whatever ran or failed before |
| `redis_limiter` | 3 clients, limit 2, window 3, fairness | 1,350 | limit, expiry, refinement, recovery unless a request died |
| `secret_name_burned` | 3 requests and a seeded environment | - | *violated*: a deleted secret's name cannot be used again |
| `tokens_rotated_once` | 4 requests, 1 user | - | *violated*: two concurrent refreshes of a token both succeed |
| `members_last_owner` | 2 requests, 2 users | - | *violated*: two owners remove or demote each other |
| `deployment_create_org` | as `deployment` | - | *violated*: migrated by `envvault_migrate`, the database lets nobody create an organization |

Why the bounds are enough to be of interest.  With four requests on secrets
there is room for a creation, two concurrent rotations and a reveal, a deletion
or a dropped environment between any two of their statements; two names let an
environment be created beside the seeded one.  With three requests on tokens
there is a login and two racing uses of its token (rotation, replay, logout,
logout-all).  With three membership requests two owners can act on each other
while a third act changes a role either of them has read.  In `Catalog` two
requests meet at every lock there is, two organizations with one owner each can
swap their slugs and deadlock (once `u2` has lost its sight of the first), and two names let any two rows take each other's.
Circles of three (a project renamed, another created under the new name and
their organization deleted, each waiting for the next) take a third request;
that those have a rename in them too is what the proof adds.
`Tenancy` has a row of every table, a second project tree to stray into, and connections that both organizations use in turn, so a
session may continue on another connection after its COMMIT.  With as many
connections as requests none has to wait for one, but every delay before
`Enter` is explored, and to wait is no more than that.  In `Deployment` the
state space is all of it: up and down through all revisions, with one command
that overlaps another and a script that overlaps both.  The limiter needs `Limit + 1` clients for concurrent hits to exceed it.

The properties that hold are weaker than some a reader might expect, for a
reason: `LastOwnerLostOnlyToRace` says the check of the last owner is right but
for its atomicity, `RecoversUnlessLost` the same of the key's expiry, and
`DeleteIsFinal` speaks of requests that begin after the deletion.  A sweep
reaches the tokens that were committed when the request began
(`SweepComplete`); a rotation still in flight when the sweep starts keeps the
new token, which the docstring of `RefreshTokenRepository` does not foresee.
`DropOkUnlessDemoted` and `ReloadFinds` name the one way in which an answer may
not say what happened: a role or a membership lost while the request runs.
`OwnersChangedOnlyByRace` says that whoever was an owner when a request read it
is changed by owners only; an admin whose request read a *member* still deletes
or demotes the owner that member has been promoted to meanwhile, which the
docstring ("modifying owners requires the actor to be an owner",
`services/membership.py:40`) does not say.  `RecoversUnlessLost` likewise has a
reverse: after a death between INCR and EXPIRE the key refuses for ever, though
the answer says "Try again later" (`api/deps.py:181`).

The policies let every member of an organization write, and test no role: what
keeps a viewer from revealing or changing a secret is `require_org_role` alone.
`RoleHeld` says that it does, on the role the session has kept since the gate.

What `ShapeFollowsRevision` and `RuntimeReady` show is that the migrations undo
and redo each other cleanly although `d4a1b72e9c08` has no downgrade and
`b7981284763f` one that always fails (it drops a constraint without a name), so
that `downgrade base` from there on rolls back.

### Fairness

`FairSpec` adds weak fairness of each request's own statements: the event loop
keeps scheduling a task whose statement can run, and PostgreSQL wakes a
statement when the transaction it waits for has ended.  Arrivals, aborts,
expiry, deactivation and dying are not fair.  `Deployment` promises
nothing of what operators will do.  `Catalog` has no fairness: what could keep
its requests from ending is a deadlock, and which deadlocks there are is a
safety property.  `Tenancy` has no fairness: that requests cannot exhaust the pool against each other is the
safety property `PoolSound` (who waits for a connection holds none).  In
`RedisLimiter` time does not stop and clients try again (that a client returns
is an assumption about clients, needed only for a refused one to notice it is
let through again).

### Disagreements between code and comments

The four violated runs are the findings of `PROJECT.json`, each with the line it
contradicts.

## 4. What is proved

Every safety invariant and every action property that a passing run checks is
also a theorem, for all values of the constants: any number of requests,
users, names, rows, connections, clients and Alembic commands.  So are the two
refinements.  `PROJECT.json` lists the theorems with the property each one
states.

Hardly any property is inductive alone.  Each proof module defines the
invariant it rests on as a conjunction of named parts, has one lemma per action
or per kind of statement, and under it one step per conjunct the action can
disturb; conjuncts an action leaves alone are settled by lemmas about steps that
change only `pc` or `req`.  TLC has checked each invariant on the instance of
the module's run; `StoreInv` stays part of the run `secrets`.

### Secrets (`StoreInv`)

* `JobsWellFormed`: which operation may be at which statement, and what its
  arguments stand for (a rotation's `secret` is a finished creation, and from
  `ReadSecret` on its `env` is that secret's);
* `RowsCommitted`: a committed row was inserted by a request that ended well,
  so an uncommitted row is never mistaken for a committed one;
* `PinsHold`: a transaction with an uncommitted row has its unique key to
  itself and keeps its parents - the reason why a dropped environment cannot
  take the secret away under a rotation that has inserted its version;
* `NumbersChosen`: the number a rotation has read is the next free one *or has
  been taken since*, and after a successful INSERT it is the next free one.
  This is where `uq_secret_version` does its work: the INSERT that follows a
  stale read fails, so `CommitVersion` may move the pointer without a condition;
* `RevealsKeepUp`: what a reveal holds is at least as new as what was committed
  when it began, and is a version of the secret it names.

`DeleteIsFinal` needs `TargetShape` too: a request that has found its target,
or can still find it, began when the target was live, for a secret that is not
live never is again (`NoRevival`).

`SecretsRefinementProofs` shows that `Secrets` implements `SecretHistory`.  All
statements but four are stutters.  The COMMIT of a creation or rotation appends
(that its number is one above the pointer's follows from `NumbersChosen` and
`VersionChain`), `SoftDelete` closes, `DeleteEnv` drops, and a reveal takes
effect at `ReadSecret`, where the pointer names the last version of the history.

### RefreshTokens (`SessionInv`)

`LockShape` says what a row lock is worth: one holder, a token nobody has
revoked, and a holder about to issue the successor.  `SuccessorRevokesParent`
follows, and that a sweep which has found a token either revokes it or waits for
a holder who does (`SweepShape`).  `BarredShape` traces a barred request to the
statement that refuses it.

### Membership (`MemberInv`)

`ActorShape`: the role the session has kept is one the actor has held since the
request began.  `DecisionShape`: a request that goes on to write an admin or an
owner, or over one it has read as an owner, was decided on the role of an owner.
`CountShape`: a count of one owner ends the request.  The action properties
follow step by step from these; `LastOwnerFallsToRace` adds that a count which is
not of one row is stale if the row it takes is the last owner.

### Catalog (`CatalogInv`)

`LocksOwned`, `LocksApart` and `EntriesApart` are the argument: a transaction
holds its row before it takes anything else, what it holds is there and is
nobody else's, and a name it has added is free but for itself.  So what each has
found (its parent there, its row there, nothing audited) still holds when it
commits.  `OnlyRenamesDeadlock` follows from the invariant in one state: without
renames, whoever is waited for and waits is a cascade or a project whose INSERT
waits for its organization; a cascade waits for projects that no other cascade
can hold; and the organization is held by a cascade.  `RowShape` and
`RequestShape` say that rows keep their kind and parent, so that a request's own
copy of them stays right.  The proof of `DropsDelete` found a flaw of an earlier
`Demote`, which could make a member of a viewer: with viewers among the constants
the property was false.

### Tenancy (`TenantInv`)

`PoolShape` and `JobShape`: a connection carries settings only while a session
holds it, and they are that session's user and organization once the gate is
behind it.  `RoleShape`: the role kept since the gate is one held since.  A row
and what a deletion cascades to have the same root (`BelowIsOwn`): tables are
four levels deep, which is why the recursive functions `Root` and `Below` can be
solved explicitly instead of by induction.

### Deployment (`DeployInv`)

`Sound`: the database has its type, the shape of its revision, and the grants
that came with it.  Each of the seven upgrades and six downgrades keeps this
(`UpgradeSound`, `DowngradeSound`), each statement of a script too
(`AfterSound`), hence a command that runs up to seven of them (`ChainSound`; the
recursive function `after` is solved explicitly).  `MigrateUpgrades` and
`ChainPossible` show that none of them raises for a bootstrapped migration role.
`DockerCreatesOrganizations` confines the finding of `deployment_create_org` to
servers: on Docker nothing ever belongs to a migration role (`DockerShape`), so
the promise that the run refutes is kept there.

### RedisLimiter (`KeyInv`, `BurstInv`)

The counter has a time to live, or exactly one request about to set it, or one
that died; `BurstInv` adds that the hits allowed since the last EXPIRE are those
the counter has counted.  `ImplementsFixedWindow` maps every step to one of
`FixedWindow` or a stutter.

### Assumptions

Those the modules state of their constants, which TLC evaluates in every run:
`None` and `Nowhere` are no ids; ids of requests, rows and organizations differ,
being fresh UUIDs; seeded rows obey the constraints of the tables (unique names,
foreign keys); every row refers to a row of the
table above it (`ForestAssumption`); the roles of the database differ; limit and
window are positive.

### Only model-checked

`EveryRequestEnds` of two modules and `RecoversUnlessLost` (liveness under
fairness, and with it ENABLED, are beyond the prover), and the four properties
the code violates.

## 5. Not modelled, and the plan

Done in this order: `Secrets` and its proof, `SecretHistory`, `RefreshTokens`,
`Membership`, the limiter, `Catalog`, `Tenancy` with its roles, `Deployment`,
the proofs of all of them, the refinement of `SecretHistory`.  Next:

1. More of the findings confined by theorems, as `LastOwnerFallsToRace` and
   `DockerCreatesOrganizations` do it: a token has two successors only if the
   requests that issued them overlapped.
2. That what `Demote` (`Catalog`) and `ChangeRole` (`Tenancy`) do to a role is
   what `Membership` lets requests do, so that the modules can be read as one
   system.
3. Operators the lemmas are about, stated once for the modules that share an
   idea: locks that exclude each other, roles by rank.

Left out for good: schemas, error wording, logging, configuration, health
checks (stateless); cryptographic primitives,
JWT and password hashing (external); API tokens and key rotation, which have
tables and columns but no code; the in-process limiter, whose `hit` awaits
nothing and so is one step; members who leave during a request of `Secrets`,
which `Tenancy` covers for every table; access tokens, which no table knows and
which stay valid for their fifteen minutes after a logout of all sessions;
requests of an application whose database is at an older revision or, as in
`deployment_create_org`, not owned by a superuser: `Catalog`, `Membership` and
`Tenancy` take the SECURITY DEFINER functions to bypass the policies.
