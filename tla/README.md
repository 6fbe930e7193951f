# Aegis Suite in TLA+

Specifications of the Aegis policy studio (the repository this directory
belongs to): TLA+ modules translated from the source, TLC configurations that
check them on small instances, and proofs of the most important properties for
instances of every size. `PROJECT.json` lists the runs, the source lines every
definition stands for, the mutated definitions that show that each property
can fail, the hazards of the code, the findings and the theorems.

Run a check with `tlc -config MCAuditTrail.cfg MCAuditTrail`, the proofs of a
module with `tlapm PepAuthProofs.tla`.

## 1. The system

Administrators edit policies in a web console. The **backend** ("Aegis Core")
compiles them to Rego, keeps everything in **Postgres**, signs an audit chain
and session tokens with keys that stay in a **KMS** (Vault), and serves
bundles of policies and data. **OPA** replicas poll the bundles. **PEPs**
("Aegis Sentry") authenticate callers and ask OPA.

| Part (source) | State | Operations | What makes it correct |
|---|---|---|---|
| Audit chain: `services/audit.js`, `storage.js` (`withAudit`, `audit_verify_chain`) | tables `audit_log`, `audit_state`, `audit_signing_keys`; in every process the cached key and `chainBroken`; two Postgres advisory locks | every mutating route; the integrity gate before it; reconciliation at boot; genesis | one linear signed history; what it says of the tables can be replayed |
| Boot: `server.js` listen callback, `bootstrap.js` | the first user, the genesis row | upgrade genesis, first administrator, platform keys, warm bundle | one genesis, whichever replica is first and wherever it dies |
| Bundles: `services/opaBundle.js` | `_caches`, `_buildings` of the process | `getBundle`, `buildBundle`, `invalidateBundle`, the polls | replicas converge on what was committed, and do not go back |
| PEP callers, grants, tags: `routes/pepCallers.js`, `routes/callerAccess.js`, `routes/policyCallers.js` | tables `pep_callers`, `pep_caller_policy_access`, tag arrays | create, edit, rotate the secret, revoke, delete, grant, scope tags | checks made before the transaction still mean something in it |
| Policies: `server.js`, `storage.js` | `policies`, `policy_versions`, throwaway modules in OPA | create, update, lock, tags, probe, preview | a locked policy does not change; every change has its version |
| Users, roles, organisations: `server.js`, `routes/roles.js`, `routes/orgs.js` | `users`, `roles`, `orgs` | create, edit, disable, delete | somebody can always administer; roles contain what root gave; nothing refers to what is gone |
| Authorisation: `middleware/*.js`, `opa/studio_authz.rego`, `opa/system_authz.rego` | none of their own | the user, the row and its organisation, the decision | tenants do not write each other's rows; mutations are frozen when trust is broken |
| Platform keys: `services/platformKeys.js`, `routes/platformKeys.js`, `services/opaClient.js` | `platform_signing_keys`, in-memory pointers, token caches | two-phase rotation, recovery, revocation | every token verifies under the key it names |
| KMS providers: `services/kms/*` | key versions | ensure, import, sign, rotate | the version that signs is known |
| Trust keys and JWKS: `routes/trustKeys.js`, `services/jwksFetcher.js` | `policy_trust_keys` | background refresh, refresh on request, edits | fetched material belongs to the row it is written to |
| Connection pool: `storage.js` | the pool of `pg`, its queue, the queue of the chain lock | every query of every request | no request waits for ever |
| Rego compiler: `services/regoCompiler.js`, `services/policyIndex.js` | none | a rule tree to Rego; the input paths a policy reads | a missing field never grants; `/discover` lists what can be decided |
| Templates: `templates/*.js` | none | the policies the console offers, with sample inputs | the same, for each of them |
| PEP: `pep/src/**` | nonce cache, caller cache, access cache, signer kid | authenticate, authorise, discover | no replay; no admission on what was not granted recently |
| Console: `frontend/src/**` | views | | shows what is stored |

How they interact: routes call `withAudit()`, which serialises all mutations
of all backend processes on one Postgres advisory lock; after the commit the
handler calls `invalidateBundle()`, which only empties a cache in its own
process; OPA replicas poll that process and start builds there; a build reads
the tables outside any transaction. Every mutating request is decided by OPA
on signals the backend gives it (is the chain intact, are the platform keys
trusted). Key rotation spans Vault, a table, a bundle, OPA and a pointer in
memory. The PEP never talks to the backend: it reads two documents of the
bundle from OPA, each with a cache of its own.

Hard behaviour: interleavings of requests and of replicas on shared tables;
checks before transactions; crashes with locks held; cached key versions;
asynchronous builds that overlap invalidations; failures after a commit;
time-outs of a wait that later succeeds; caches with independent TTLs; a
finite pool under a lock. `PROJECT.json` lists each place under `hazards`.

## 2. Modules

| Module | Content | Composed in |
|---|---|---|
| `AuditLedger` | What the audit service promises of the rows it images under its lock: they and a ledger change together, one entry per change. Of other rows it promises entries only. | refined by `AuditChain` |
| `AuditChain` | The implementation: replicas, requests, locks, keys, genesis. | `MCAuditChain`, `MCAuditTrail` |
| `BundleCache` | Mutating requests, bundle cache, builds, polling replicas. | `MCBundleCache`, `MCKeys` |
| `PlatformKeys` | Rotation, recovery and revocation of signing keys, tokens, what OPA trusts. | `MCKeys` |
| `TrustKeys` | The keys policies verify with and their refreshes. | `MCKeys` |
| `PolicyStore` | Policies, versions, locks, tags, probes and previews. | `MCRoutes`, `MCTagReplay` |
| `Callers` | PEP callers and grants. | `MCRoutes` |
| `Directory` | Users, roles, organisations. | `MCRoutes` |
| `StudioAuthz` | The decision of `studio.authz` between two reads of the row. | `MCRoutes` |
| `PepAuth` | Authentication in the PEP. | `MCRoutes` |
| `PepAccess` | The gate of `/authorize`, and `/discover`. | `MCRoutes` |
| `PoolAndLock` | Connection pool and chain lock. | `MCRoutes` |
| `Rego` | What compiled rule trees mean, and which paths the index says they read. | `PolicyTemplates`, `PolicyTrial` |
| `DigitalAssets`, `SaasMultitenant`, `CustodyHierarchy` | The templates as rule trees, with their sample inputs. | `PolicyTemplates` |
| `PolicyTemplates` | All of them. | `MCRoutes` |
| `PolicyTrial` | A user edits and drops fields of a sample input. | `MCRoutes` |
| `AuditChainProofs`, `BundleCacheProofs`, `PolicyStoreProofs`, `StudioAuthzProofs`, `PepAuthProofs`, `PepAccessProofs` | Theorems about one component each. | |
| `RoutesProofs`, `KeysProofs` | Theorems about the specifications of the two runs: what a part does is a behaviour of its component. The proofs of `Callers`, `Directory`, `PoolAndLock` and `PolicyTrial`, and of `PlatformKeys` and `TrustKeys`, are in them. | |

`MCRoutes` and `MCKeys` hold several components that share no variable. A
behaviour is one of a single part, chosen at the start; the others stand
still. This is a disjoint union of the state spaces, not a product. Where
components do share state they are one module: the mutating routes and the
bundle cache in `BundleCache`, requests and the pool in `PoolAndLock`, the
rotation with Vault, table, bundle, OPA and tokens in `PlatformKeys`, chain,
boot and users in `AuditChain`.

### AuditChain

*State.* `data` stands for the audited tables, `auditLog`, `auditState`,
`signingKeys` and `nextSeq` (the BIGSERIAL, which no rollback gives back) for
the audit tables, `chainLock` and `bootLock` for the advisory locks
`opa_studio_audit_chain` and `opa_studio_bootstrap`, `kmsVersion` for Vault.
A replica has `boot` (its place in the boot sequence), `key` and `chainBroken`
(the module variables of `audit.js`) and `genesis` (the row of an open genesis
transaction). A request has `pc`, `op`, `seen` (what its gate has read),
`noted` (the before image it will log) and `entry` (the row of its open
transaction).

*Kinds of rows.* What an entry says of the past depends on the route, so the
rows are of four kinds. `Admins` and `Records` (together `Imaged`: users, roles,
organisations, policies, callers, trust keys with inline material, the active
platform key) have a `beforeFetcher` that reads the row under the chain lock.
`TagLists` (tags of policies, scope tags of callers) have one that returns what
the route read before its transaction (`server.js:985`, `:1002`,
`pepCallers.js:373`), and the new list is computed from it. `Unimaged` rows have
none: `caller_access.grant` and `.revoke` (`callerAccess.js:120`, `:204`) and
`platform_key.revoke` (`platformKeys.js:310`). Their entries have `before` empty;
rows of the last two kinds also go and come back with the record they belong to
(`Owner`: foreign keys that cascade, a key retired by its successor) without an
entry of their own. `Refreshed` rows are trust keys with a `jwks_url`: the
refresher writes them with no entry (`RefreshJwks`), and `trust_key.refresh`
writes on another connection, so that what it fetched survives the rollback of
its audit (`RefetchRow`, `Refetch`).

*Actions.* A mutating request goes through `Arrive` (authentication and the
first reads of `headIsValid()`), `WalkChain` and `CompareHead` or
`HeadMismatch` (the two snapshots of `audit_verify_chain()`), `CheckRoute`
(OPA, the last-admin check and what a tags route reads) or `Refuse`, `LockChain`
(the lock and `beforeFetcher`), `AppendEntry` (which runs the mutation before
it) or `AppendThrows`, `Commit`; `Abandon` is a failure at any of these points. A boot
goes through `Reconcile` or `ReconcileFails`, `CountUsers`, `InitLockEmpty` or
`InitLockTaken`, `SignInit`, `CheckAdmin`, `BootstrapLock` or
`BootstrapRaceLost`, `SignBootstrap`, `CommitGenesis`; `GenesisFails` is a
failure in between. `Crash` takes a replica down at any point with all its
requests; `RotateKmsKey` is the operator at Vault.

*Abstractions.* A hash is the sequence of payloads it commits to (no
collisions); a signature is the version that made it; a payload is the row,
what it held and what it holds. The times of the last login and of the last
update are not part of what a row holds: `touchUserLogin()` writes nothing else,
and has no entry. A boot inserts templates, the platform organisation and the
built-in roles with no entry (`bulkSeed()`, `ensurePlatformDefaults()`): as no
request knows their ids before, they are taken to be there from the start. The
same is assumed of the promotion of admins of before there were roles, which
`ensurePlatformDefaults()` makes at the first boot of a version that has roles: it
changes rows of `users` with no entry, and is the one write to `Imaged` rows
that the ledger leaves out. OPA may deny whenever it likes (`Abandon`). A
rotation happens on a deployment that has signed and while nobody boots: the
genesis transactions do not compare versions, and a rotation inside that
window is out of the model.

### BundleCache

*State.* `tables` (policies, callers, grants), `cache` and `building` for
`_caches` and `_buildings`, `build` for the running builds and what each has
read, `job` for what a request that has checked or committed has still to do,
`poll` and `active` for the replicas. `revs`, `excused` and the `overtaken`
mark of a build are history: how often each table was written, and whether a
mutation published while a build was running.

*Actions.* One for each mutating route; grants, their revocation and scope
tags have their checks as an action of their own, since the code makes them
before the transaction. `Invalidate` is `invalidateBundle()`; `ReloadFails`
is the handler that dies between commit and invalidation. `Read`,
`FinishBuild` and `BuildFails` are a build; `PollHit` and `PollMiss` a poll.
`Restart` is a new process: empty caches, connections gone.

*Abstractions.* A bundle is the documents it contains, so equal revision means
equal bundle and a 304 leaves a replica with the cached one. Tags are one bit
on either side (overlap or not). Of the two more tables a bundle contains,
trust keys behave like the three that are there, and platform keys are in
`PlatformKeys`. The backend is one process, as deployed: its cache is not
shared.

### PlatformKeys

*State.* `vault` is the latest version of the transit key, which is the one
that signs. `status` is the row of each version; `pointer`, `pubkeys` and
`broken` are the module variables of `platformKeys.js`; `rotation` and
`revocation` the requests; `bundle`, `builds` and `trusted` the way to OPA;
`token` and `minting` a token with the kid it names, the version that signed
it, and the fingerprint `opaClient.js` caches it under; `pepKid` the kid of
`platformSigner.js`.

*Actions.* `BootMatches`, `BootMismatch`, `BootRegisters`, `BootFails` are
`loadOrInitPlatformKeys()` by what it finds. A rotation is `VaultRotate`,
`ReadPublicKey`, `Register`, `Publish`, then `Commit` when OPA has the key or
`TimesOut`; `ResumeRotation` is the repeated request, `RotationFails` any
failure, `Crash` the process. `Revoke` and `PublishRevocation` are
revocation. `PollCached`, `PollBuilds`, `BuildEnds`, `BuildFails`,
`OpaRestarts` are the bundle's way. `MintRead`, `PepMint` and `MintSign` are
`mint()` with the time that Vault takes in between; `TokenExpires` and
`PepRestarts` end a token and the PEP's kid.

*Abstractions.* A version stands for its public key and fingerprint. One
purpose is followed at a time, as the purposes share no state. The three
differ in where tokens are verified (OPA, or the backend itself for sessions)
and who mints them. The bundle's cache is followed as far as it carries keys.

### TrustKeys

*State.* `keys` holds the rows of `policy_trust_keys`, `served` what each URL
serves, `fetching` the refresh of the background ticker and of every request,
`asking` the requests between their check and their transaction.

*Actions.* `Tick`, `Served`, `FetchWrites`, `FetchFails` are a refresh: it
reads the row, waits for the URL, then writes by kid outside the audit lock.
The routes are `AskCreate`/`Create`, `AskUpdate`/`Update`,
`AskRevoke`/`Revoke`, `AskRefresh`/`RefreshNow` and `Delete`. `Expires` is a
TTL, `Rotates` the owner of a URL, `Dies` a crash.

*Abstractions.* A JWKS document is one model value, the URL and how often it
has changed.

### PolicyStore

*State.* `policies` (content, lock, version, tags), `versions`, `edit` (what a
request has read and sent), `temp` (the modules in OPA under an id made of the
clock), `tick` (that clock, `Date.now()`).

*Actions.* `StartSave`, `Probe` (compile and PUT into OPA), `Save`
(`savePolicyTx`); `Lock`; `StartTags` (the row is read and the
whole new list computed), `PatchTags` (the list is written, whatever the tags
are by then); `StartPreview`, `Put`,
`Evaluate`, `Clear`; `Fails`, `Tick`. A transaction is one step, which
`AuditChain` justifies. `MCTagReplay` adds the deltas of the audit rows, replayed
beside the tables. `PolicyNext` and `PreviewNext` are the two halves that
`MCRoutes` checks as parts of their own.

### Callers

*State.* `callers` (mode, secret, common name, status and `nth`, which counts
the callers created, so that one who takes over an id is another one),
`grants`, `locked` policies, `handling` (what a request found before its
transaction); `reborn` is history: the ids that were deleted and created again
under a request on its way.

*Actions.* A `Check...` action is what a route reads and tests; `Create`,
`Update`, `RotateSecret`, `Revoke`, `Grant`, `RevokeGrant`, `Delete` are the
transactions with what they test again, the partial unique index on the
common name included (`IndexAllows`).

### Directory

*State.* `users`, `roles`, `orgs`, `acting` (a request with what its actor was
when authenticated); `rootGave` (every permission root put into a role),
`crossed` (two removals of users were under way at once) and `loose` (an admin
was disabled past the guards) are history.

*Actions.* `Ask` is authentication, `permissionSubset` and the checks before
the transaction; `CreateUser`, `SetDisabled`, `SetLabel`, `DeleteUser`,
`CreateRole`, `UpdateRole`, `DeleteRole`, `CreateOrg`, `DeleteOrg` are the
transactions with the checks made in them and the foreign keys of the tables.
`PUT /api/users/:id` tests `disabled === true` and writes `!!disabled`: a request
with `true` is the operation `disable`, one with another truthy value
`disableLoosely`, which passes both guards and disables all the same, oneself and
the last admin included.

*What is not promised.* `NoEscalation` is about what roles contain. A manager of
users hands out any role they see, whatever it contains (`POST /api/users` calls
no `checkPermissionSubset`), and labels a user `admin` with
`PUT /api/users/:id`, which makes an effective root of them. Both are in the
model (`AskUser`, `SetLabel`), and no property forbids them.

*Abstractions.* A permission is a model value. Root is a flag, `label` the
legacy column `role = 'admin'`, which `studio.authz` takes for root and which
the last-admin check counts.

### StudioAuthz

*State.* `owned` is a policy and a trust key, each with its organisation and
who wrote it last; `deciding` the requests; `missed` is history: rows that a
request did not find, or that were replaced since.

*Actions.* `Ask` is `authorize()` up to the look-up of the row, `Decide` the
answer of OPA, with the three signals chosen freely, since they may change at
any time; `Create`, `UpdatePolicy`, `UpdateTrustKey`, `DeleteTrustKey`,
`Other` the routes, which look at the row again. `Allow` and `Says` are
`studio_authz.rego`, rule by rule.

*Abstractions.* A disabled user does not come this far, so `disabled` is
false. Lock and status of the rows are in `PolicyStore` and `TrustKeys`.

### PepAuth

*State.* `clock`; `table`, the callers OPA has, and `listed`, when each row was
last there; `cache` and `refresh` for `callerStore.js`; `handler` for the
deliveries; `nonces`; `admitted`, who was let through; `evicted`, whether the
nonce cache had to push out a nonce that was still needed.

*Actions.* `Receive` is the dispatcher and what a verifier does before it
needs the caller table; `OpaAnswers`, `RefreshEnds`, `RefreshFails` the
coalesced refresh; `HmacVerdict`, `JwtVerdict`, `MtlsVerdict` the rest of the
verifiers. `TableChanges` is a new bundle in OPA. `Tick` is time; who is ready
goes on before the clock, and a refresh may take any time: `fetchData()` clears its
timer when the headers have come (`pdpClient.js:111-112`) and reads the body
without one (`:122`), and the abort does not reach `authHeader()` (`:105`). The
cache is stamped when the body is read (`callerStore.js:46`). The history field
`took` of a cache, and of an admission on a row of it, is how long its fetch was.

*Abstractions.* Whether a signature, token or certificate is good is a field
of the request.

### PepAccess

*State.* `docs`, the two documents in OPA, and `last`, when each entry was
there; `store` and `fetch` for `accessStore.js`; `request`, `answers`.

*Actions.* `Authorize`, `AclGate`, `Evaluate` or `EvaluateDenies`;
`Discover`, `DiscoverIndex`, `DiscoverIds` (two look-ups, of which the second
may start a refresh); `OpaReads`, `FetchEnds`, `TimePasses`. The two documents
are fetched side by side, each with its own failure, which yields an empty
document. As in `PepAuth`, a fetch may take any time, and the cache is stamped at
its end; `took` is how long it was.

### PoolAndLock

*State.* `waiting` and `line` are the queues of the pool and of the chain
lock, `holder` says which request has which of the `Connections`, `stage` where
a request is.

*Actions.* `Arrive`, `Connected`, `ChecksEnd`, `Begin`, `CallsPool` (queries
on further connections inside the transaction), `InnerEnds`, `Commits`,
`ReadBackEnds`, `RollsBack`.

### Rego, the templates and PolicyTrial

`Rego` evaluates a rule tree as OPA evaluates the module that
`regoCompiler.js` makes of it (a condition over a missing field does not hold,
its negation does), and computes the input paths that `policyIndex.js`
collects. The three template modules are the rules and sample inputs of
`templates/*.js`, as data. `PolicyTrial` loads a template with its sample
input and sets or drops fields, in any order; a field that is an object takes
the paths inside it along.

*What is asked of a template* (`TemplateFits`, in the assumption that TLC
evaluates for every template of the server): its conditions are of the kinds the
compiler knows, with their operands; a `result_object` bundles rules before it;
the sample has what is required; and what evaluation can look at (`Reads`,
written after the compiled conditions) is in the index or has a default
(`RequiredPaths`, written after `policyIndex.js`). A collector that forgets a kind
of reference fails there. Of these facts about the rules, which need no input,
`RoutesDiscoverIsHonest` makes one about every input and every series of edits.

*Abstractions.* Fields have the type the policy expects or are absent; null is
the string "null"; ratios are in hundredths and times in seconds or days. The
fields of array items are not dropped one by one. `exists` accepts null, as
the compiled code does. In strict mode the paths of all branches of an OR are
required. The arguments of a `verification` condition are not indexed. Tokens
are model values, good or bad for a key.

## 3. Runs

| Run | Instance | Result |
|---|---|---|
| `AuditChain` (`MCAuditTrail.cfg`) | five parts, chosen at the start, 2 replicas. Users: 2 requests of the root user that overlap, a rotation of the KMS key, 3 rows of log, nobody deleted; or single requests of 2 users who both may be created and deleted, on one replica, 4 rows. Other rows: 2 overlapping requests, on one replica of an upgraded deployment, 3 rows of log, about a record and its tags, a record and a row without image, or a trust key that is refreshed | holds: `TypeOK`, `Manned`, `ChainIntact`, `EntriesVerify`, `OneGenesis`, `TrailReplays`, refinement `ImplementsLedger` (462 902 states) |
| `AuditChainLive` | 2 replicas, 2 requests, 1 user, 2 rows of log, 2 key versions | holds under `FairSpec`: `EveryRequestEnds`, `EveryBootEnds` |
| `BundleCache` | 1 organisation with a policy, 1 global caller, 2 requests, 2 replicas, 2 builds, 2 mutations, 1 fault | holds: `TypeOK`, `OrgBundlesFresh`, `BundlesAdvance` |
| `Keys` (`MCKeys.cfg`) | platform keys: 1 rotate and 1 revoke request at a time, 3 versions (2 for the session key), 1 fault; trust keys: 1 kid, 2 URLs, 2 requests, 4 changes by administrators, or 2 and one by the owner of a URL, 1 failed fetch or crash; bundles: 1 policy, no callers, 1 request, 2 replicas of one key, so 1 build, 2 mutations, 1 fault | holds under `FairSpec`: `TypeOK`, `SigningKeyStaysActive`, `RegisteredKeysVerify`, `OneKeyPending`, `TrustRecovers`, `InlineIsSent`, `RowsHydrate`; of bundles `Converges`, `FleetAgrees`, `EveryPollAnswered` |
| `Routes` (`MCRoutes.cfg`) | nine parts, see below | holds: `TypeOK` and the seventeen properties below |
| `FalseAlarm` | 1 replica, 2 requests | `AlarmIsReal` is violated |
| `SecondGenesis` | both users removable | `ChainIntact` is violated |
| `GlobalBundle` | a global replica, 1 mutation of an organisation's policy | `PublishDropsStale` is violated |
| `StaleBuild` | 1 replica, 1 mutation, no faults | `NextPollRebuilds` is violated |
| `PepKid` | 1 rotation, no faults | `PicksUpNewKey` is violated |
| `TagReplay` | 1 policy, 2 tags, 2 requests | `TagsReplay` is violated |
| `TwoRotations` | 2 rotate requests, 1 revoke request, 3 versions, no faults | `SigningKeyStaysActive` is violated |

`Routes`, by its parts:

| Part | Bounds | Properties |
|---|---|---|
| policies | 1 seeded id, a good and a rejected content, 1 tag, 2 requests, 3 versions of which 2 are kept | `HistoryFollows`: versions are gapless and the newest is the policy. `LockedIsFrozen`: nothing begun before a lock changes a locked policy |
| previews | 2 requests, 2 values of the clock | `PreviewIsOwn`: a preview shows its own policy, unless two were begun in one millisecond |
| callers | 2 callers, 1 common name, 1 policy, 2 requests, 2 creations, 3 changes | `ModeHasItsMaterial`, `GrantsAreOurs`, `OneCallerPerCn` |
| directory | 2 users, 3 roles, 2 organisations, 2 permissions, 2 requests at once, 3 in all | `NoEscalation`, `NothingDangles`, `AnAdminStays` |
| authz | 5 users of 2 organisations, 2 requests, at most one row at the start | `TenantsApart`, `DecisionIsOne` |
| auth | 2 caller tables, 7 requests (replayed, late, badly signed, of two modes), window, TTL and nonce cache of 1, fetches of any length within 3 ticks, 3 deliveries, 1 failure | `NoReplayInWindow`, `RowIsRecent` |
| access | 1 caller, 2 policies of which one is another organisation's, TTL of 1, fetches of any length within 3 ticks, 2 requests, 1 change of bundle, 1 failure | `GrantIsRecent`, `NobodyIsStuck` (waiters of the cache) |
| pool | 3 requests, 2 connections, 1 rollback | `NobodyIsStuck` (pool and lock) |
| templates | every template, 3 edits of its sample input or of the empty one | `DroppingNeverGrants`, `DiscoverIsHonest` |

*Bounds.* What is raced here are pairs: a request between its check and its
transaction, and another that changes what was checked. Two requests give
every such pair; the chain lock admits one at a time, and a third would queue.
`MaxSeq` is the capacity of the log: three numbers are a genesis and two
mutations, so one that another interrupts, one that extends another and one
that left a gap. `MCAuditTrail` leaves to each of its instances what the others
do without: a KMS that does not answer at a boot is seen with single requests
and in `AuditChainLive`, and the steps of the gate, where requests read without
a lock, with requests about users. When the log is full, transactions fail as they do for any other
reason. `MaxVersion` of `AuditChain` is one rotation, of `PlatformKeys` two,
so that a repeated request meets a pending rotation that is not the first.
`SessionBound` of `MCKeys` keeps the session key at one, as only the place of
verification differs. Four changes of a trust key are the shortest story in
which a kid comes back as another kind (create, revoke, delete, create), and
two are a creation and an edit under a refresh. `HistoryMax` 2 with three
versions makes the trim happen. A window and a TTL of one tick in a time
of three let each expire while the other is under way, or while a body is read, and a nonce cache of
one pushes out a nonce. A pool of two with three requests can be held by two
that wait for the lock of the third. `Opas` and `Builds` of `BundleCache`: two
replicas of one key can disagree, and two builds are one for each key, with a
slot to spare for the warm-up build, which `WarmsUp` turns on; where all
replicas poll one key, as in `Keys`, no second build ever runs. The passing
bundle runs leave it off: it builds the global bundle, which nobody polls
there. In part authz a request is about one row, so one at the start is
enough. In part directory one permission manages both users and organisations,
to keep it small; the two are never compared. Symmetry is used in safety runs
only, and only over sets whose members the configuration does not tell apart.

*Deadlock* is checked in the runs of `AuditChain` and `BundleCache`. The
others stop where their bounds are used up; that nobody waits for ever is said
there by `NobodyIsStuck`, `TrustRecovers` and `RowsHydrate`.

*Fairness.* `AuditChain`: strong fairness of every request's and every boot's
steps. Handlers run on as long as Postgres and the KMS answer (the vault
provider sets no time-out); the only steps others can disable are the two waits
for advisory locks, which Postgres queues. `BundleCache`: weak fairness of the
publish step, of builds and of polls: promises are settled by the event loop,
and OPA polls every 10 to 20 seconds for ever. `PlatformKeys`: weak fairness
of boots, of the steps of a rotation already begun and of its end by commit or
time-out, of the publish step of a revocation, of polls and builds, of minting
and of the expiry of tokens; requests of the backend call for tokens all the
time. `TrustKeys`: weak fairness of the ticker, of expiries, of the answer of
a URL and of every request that was begun; `setInterval` fires for ever, and a
fetch is assumed to end: `fetchJwksEntry` clears its timer when the headers are
there (`trustKeys.js:202-204`), so a body that trickles in for ever is left out. Nothing is assumed of crashes, failures, restarts,
arrivals, rotations and edits: nobody has to issue a mutation, and failures are
bounded.

*What the liveness properties leave out.* `TrustRecovers` excludes a version
that Vault has and no row names (a rotation that died in between; the next
rotation repairs it), a cached bundle that a build left outdated (see
`StaleBuild`), a backend whose keys did not match at boot (which freezes
mutations on purpose), and the PEP (see `PepKid`). `RowsHydrate` speaks of
active rows once edits are over. `EveryRequestEnds` counts a refusal as an end.

`Keys` has one rotate request at a time, because with two
`SigningKeyStaysActive` fails: that is the run `TwoRotations`. `NobodyIsStuck`
excludes one state, `Exhausted`: `POST /api/trust-keys/:kid/refresh` takes
further connections inside its transaction, and when all of them are held by
requests that wait for its lock, all of them wait for ever (`storage.js` sets
no time-out on the pool). No other combination of waits blocks the requests.
`OneCallerPerCn` and `NoEscalation` have no exception; `ModeHasItsMaterial` and
`GrantsAreOurs` exempt ids that were deleted and created again under a request,
`AnAdminStays` two removals at once and what is disabled with a truthy value
that is not `true`, `TenantsApart` rows that a look-up missed,
`RowIsRecent` failed refreshes (the old rows live on, which is the code's
choice). `RowIsRecent` and `GrantIsRecent` allow the TTL and the time that the
very fetch took, which has no bound, so they do not say that a revocation takes
effect within any fixed time. `TrailReplays` and `ImplementsLedger` are about
`Imaged` rows, and `NoReplayInWindow` a nonce pushed out of the cache.

### Findings

- `FalseAlarm`: the verifier reads log and head on two snapshots, so a commit
  in between makes it report an intact chain as broken; the request behind the
  gate is refused.
- `SecondGenesis`: the last-admin check is outside the transaction. Two
  administrators who delete each other leave no user, and the next bootstrap
  writes a second genesis row, after which the chain never verifies again.
- `GlobalBundle`: publishing an organisation's policy leaves the global bundle
  cached, which contains the policy. A replica on the global path keeps the old
  policy, or the one that was locked.
- `StaleBuild`: a build in flight is not dropped by `invalidateBundle()` and
  caches what it read before the mutation.
- `TagReplay`: a tags request writes the whole list it computed from the row it
  read before its transaction. Of two concurrent deltas one is lost, though both
  are in the audit trail, of which a comment says that its replay is unambiguous.
- `TwoRotations`: two overlapping rotations of one purpose retire the version
  that Vault signs with.
- `PepKid`: after a rotation the PEP signs with the new version under the old
  kid until it is restarted.

Seen while modelling, without a run of their own:

- `PUT /api/users/:id` tests `disabled === true` (`server.js:495`, `:501`) and
  writes `!!disabled` (`:517`): with `{"disabled": 1}` an administrator disables
  themselves, or the last active admin, and both checks that forbid it stand
  aside. This is the exception `loose` of `AnAdminStays`.
- A manager of users can give a role that contains more than they hold, and can
  label a user `admin`, which `studio.authz` takes for root. `roles.js` keeps
  roles themselves within their author's permissions; the user routes have no
  such test.
- `callerStore.js:5-6` says that revocation propagates within the TTL. A row is as
  old as the TTL and the fetch that brought it, and the read of a body from OPA
  has no time-out. While it lasts every request that needs the cache waits.
- Grants, revocations of grants and revocations of platform keys are logged
  without a before image, tags with one that may be stale; deletions cascade to
  grants without an entry of theirs. The refresher of trust keys writes without an
  entry, and `trust_key.refresh` outside the transaction of its entry.
- `accessStore.js` replaces its cache with empty documents when a fetch fails,
  where its comment speaks of keeping the previous ones. This errs on the side
  of refusing, and `GrantIsRecent` holds because of it.
- `modes/hmac.js:92-96` says that a replay with a bad signature falls through
  to 401; the nonce is looked up and remembered before the signature is
  verified, so it is answered 409, and a damaged first delivery uses up the
  nonce of the good one.
- `authorize.js:76-81` leaves missing rows to the 404 of the route;
  `PUT /api/policies/:id` of a missing id inserts the policy. This is the
  exception `missed` of `TenantsApart`.
- `orgs` rows have no organisation of their own: `getResourceOrgInfo` answers
  with their id, where its comment says that they surface as global.
- Two templates (`partial-risk-violations`, `partial-batch-validation`) collect
  violations without testing that the fields they compare are there, so that
  dropping a field can turn a refusal into a grant. They are modelled, and
  `DroppingNeverGrants` leaves them out by name (`Unguarded`).

## 4. Proofs

The theorems hold for every value of the constants: any number of requests,
rows and replicas, any time-outs, cache sizes and bounds. What a proof needs of
the constants is the named assumption of the module (`PepAuthAssumption` and
the like: bounds are numbers, the markers for "nothing" are not rows;
`TrialAssumption` says what is asked of a template, see section 2); TLC
evaluates them in the runs of the module. `KeysInlineIsSent` and the theorems on
`reason` need none. Three of those on platform keys (`KeysSigningKeyStaysActive`,
`KeysRegisteredKeysVerify`, `KeysOneKeyPending`) assume in addition `OneRotator`,
that the rotations of a purpose do not overlap: the run `TwoRotations` shows that
the code does not keep them apart, and what happens then. Every type invariant of
a run is a theorem (`TypeCorrect`, `BundleTypeCorrect`, `KeysTypeCorrect`,
`RoutesTypeCorrect`).

`AuditChainProofs`:

- `TypeCorrect` and `LocksCorrect` without any hypothesis;
- `ChainAlwaysIntact`, `EntriesAlwaysVerify`, `AlwaysOneGenesis`,
  `TrailAlwaysReplays` and `ChainImplementsLedger` (both about `Imaged` rows, while
  every other row races in the same behaviours) for the behaviours in which
  the studio is always `Manned`: once the chain has begun, it has a user. The
  theorems have the form `Spec /\ []Manned => []ChainIntact`. The run
  `SecondGenesis` shows that the code does not guarantee `Manned` and that
  the chain breaks without it;
- `StaysManned` says what it takes: `Spec /\ []OneDeletion => []Manned`, where
  `OneDeletion` is that no two requests are between the check and the end of the
  transaction of a user's deletion at once. All other requests may overlap as
  they like. `ChainWithoutRace` puts the two together: under `OneDeletion`
  everything above holds, so for the chain, its entries and the trail of `Imaged`
  rows the race of `SecondGenesis` is the only one that matters. The run `AuditChain` checks `Manned` with requests that
  do not overlap, or of which none deletes a user.

The inductive invariant is `IInv == TypeInv /\ LocksHeld /\ ControlInv /\
LogInv`. `ChainIntact` alone is not inductive. A commit extends the log by the
entry it signed some steps earlier, so the entry must still continue the head
(`EntryContinues`), which holds because whoever has an entry has the lock
(`LocksHeld`); sequence numbers in use have been drawn (`SeqsDrawn`), so the new
row is the last one. A genesis row needs that the log is still empty
(`GenesisAlone`), although the bootstrap does not take the chain lock: before
the chain begins an open upgrade has found users and an open bootstrap has found
none, so the two exclude each other; once it has begun, a bootstrap that finds
no user would contradict `Manned`. `RootFirst` adds that the users an upgrade
finds include the root user, whose row stands in its genesis entry, and that no
request starts before the chain. That a row verifies needs that at most one
key is ever registered and that every replica that can sign has it cached
(`OneKey`). `Manned` needs `AnotherUser`: the deletion under way leaves a user.
The route counted them under the gate, and only another deletion takes one away. `HeadIsLast` connects `audit_state` with the rows. That an
entry of an `Imaged` row records what it replaces needs that `noted` was read
under the lock that only this request holds since (`NotedFresh`). The refinement
maps the ledger to the payload sequence the head hash commits to, and its tables
to the `Imaged` rows; `Commit` and `CommitGenesis` are ledger steps (`Record` or
`Note`) and every other action, `RefreshJwks` included, is a stutter.

The other modules follow one pattern: what a property says of the tables is
inductive once one adds what a request on its way still knows about them.

| Theorem | What the invariant adds |
|---|---|
| `RoutesModeHasItsMaterial`, `RoutesGrantsAreOurs`, `RoutesOneCallerPerCn` | `AskedWell`, the shape of what a request was let through with, and `FoundStands`: the caller it found is still of the mode it found, or was deleted and created again |
| `BundleOrgBundlesFresh` | `FreshInv`: what a build of a key has read so far is still committed, as far as that key's bundle shows it, unless a mutation published meanwhile or has still to. A mutation owes an invalidation to every key that shows what it wrote (`OneRequest`, `PublishesOwes`), so a key nobody owes anything is one that nothing was written for |
| `BundleBundlesAdvance` | `OneBuild`: an organisation has one build at a time and no bundle cached meanwhile. `ReadsDated`, `CacheDated`, `ActiveDated`: a read, a cached bundle and a running one carry the numbers of the writes they saw, and what a replica runs is not newer than what the cache holds or the build reads. The first poll of the key starts the build, so what it reads comes after what any replica runs |
| `RoutesNoEscalation`, `RoutesNothingDangles`, `RoutesAnAdminStays` | `Admissible`: what a waiting actor holds came from root, also when its role has changed since. `OneRemoval` and `AnotherAdmin`: the one removal under way leaves an admin |
| `PolicyHistoryFollows` | `HistoryInv`: `Chronicle`, one row for each version of an interval. `TrimKeeps`: of such rows the trim leaves the newest `HistoryMax`; it counts the rows above a row, which is the length of the interval above it (`NewerRows`) |
| `PolicyLockedIsFrozen`, `PolicyPreviewIsOwn` | `ReadStands`, no route deletes a policy; `PreviewsApart` and `PutIsOwn`, two previews that share a module id know it, any other finds its own module in OPA |
| `KeysSigningKeyStaysActive`, `KeysRegisteredKeysVerify`, `KeysOneKeyPending` | `RowsKnown`: what has a row was read from Vault and the active row is the last one. `PointerKnown`: the signing pointer has a row, and what came later is active. `RotationKnown`: a rotation under way has a new version without a row and was let in on the active key, or its row is the active one |
| `KeysTypeCorrect` | from the time a rotation has read its version until it ends it has one; a `jwks_url` row, and a request that makes one, has a URL |
| `KeysInlineIsSent` | `RowIsSent`, row by row, whatever its kind was before |
| `AuthzTenantsApart` | `RowStands`, the row that was looked up has the organisation it had unless it is marked; `DecidedWell`, the decision was about that organisation |
| `ReasonIsUnique`, `ReasonGrants`, `AuthzDecisionIsOne` | none: statements about every input document. `reason` is a complete rule of Rego, where two values at once are an error |
| `AuthNoReplayInWindow`, `AuthRowIsRecent` | `NonceKept`: the nonce of what was let through stays while a replay could still be in its window, because entries live twice the window and a timestamp was checked before it was looked up (`CheckedInWindow`). `RefreshKnown`, `CacheKnown`, `ReadyFresh`: every row of the cache was in OPA when its fetch began, which was `took` before the cache was stamped, and who goes on does so with a cache of the TTL |
| `AuthTypeCorrect` | `NoncesCapped`: entries are numbered in the order they came in, so the oldest exists and is one entry (`Least`, `MaxIs`, `TrimmedIs`), and one pushed out for one that comes in keeps the cache at its limit. `WholeTables`: what is cached is a table that OPA had, never part of one |
| `AccessGrantIsRecent`, `AccessWaitersAreServed` | `DocsNoted`, `FetchKnown`, `StoreKnown`, `ReadyFresh` in the same way for two documents, `FetchWhenStale` (a fetch is under way only while the store is stale), and `IdsKnown` for `/discover`, which goes on with an index of its first look-up |
| `RoutesNobodyIsStuck` | `PoolInv`: `Holding`, how many connections a request has where it is, and `Queued`, that the line for the lock is made of the transactions, a refresh that calls the pool at its head. If no connection is free and no holder can go on, then the holders are transactions behind a head that waits for a connection itself, which is `Exhausted` |
| `RoutesDiscoverIsHonest` | `TrialInv`: `Nested`, a field with a default is there only within its object, and `Indexed`. The argument is a frame lemma, `AgreeDocument`: inputs that agree except on names no rule reads (`Agree`, `Reads`) get documents that agree. It goes from a condition of each kind over groups and branches to a rule, and over the rules in their order (`StageStart`: the recursive function that builds a document exists and obeys its equation). A field outside the index is read by no rule, or has a default |
| `RoutesTypeCorrect` | the shape of what requests carry, component by component: a grant's policy and the number of its caller's creation, what root gave, a template's sample inputs with the values its fields may have |

`RoutesProofs` carries these theorems over to the specification of `MCRoutes`,
and `KeysProofs` states its own for that of `MCKeys`, so that what is proved is
the property of the run word for word: a behaviour of `MCRoutes` is, for every
component, a behaviour of that component in which it may stand still
(`PartsStart`, `PartsStep`, `PartsFollow`).

Every invariant the passing runs check is a theorem. Only model-checked, and why:

- `DroppingNeverGrants` (templates): that a missing field never turns a refusal
  into a grant depends on what each of the server's templates says, case by
  case. It is false of two of them (`Unguarded`), so no argument about the
  compiler or the index gives it, and the templates are data that TLC walks
  through.
- `EveryRequestEnds`, `EveryBootEnds`, `Converges`, `FleetAgrees`,
  `EveryPollAnswered`, `TrustRecovers`, `RowsHydrate`: liveness under fairness.
- The violations: a counterexample is TLC's to find.

`NobodyIsStuck` of the pool is stated with `MayConnect` and `MayProceed` instead of
`ENABLED`, about which TLAPS cannot reason: `Connected` needs a waiter and a free
connection, the steps of a request the connection it holds and, in a transaction
that calls the pool or commits, the head of the line.

## 5. Not modelled

- *Console* (`frontend/src`): views that keep what is on the screen; every
  write goes through the routes.
- *Fleet tracker*: a map of telemetry that is pruned by age and decides nothing.
- *KMS providers other than vault and file*: stubs that throw. BYOK and the
  import of PEM files happen once, at deployment.
- *`validate()` of the compiler, raw Rego text, condition kinds no template
  uses*: functions from text to text without state. What is modelled is what
  compiled rules mean, not how they are printed.
- *`jwksCache.js` of the PEP*: a credential is good or bad; how its key was
  found is left out.
- *Passwords, expiry of sessions, login limits*: tests of one request against a
  clock or a counter of its own.
- *Template seeding, platform defaults, the promotion of admins of before there
  were roles, the password file, provisioning scripts, deployment files*: one-shot
  steps of the first boot of a version; `AuditChain` and `Directory` begin after
  them.

Left open within what is modelled: the warm-up and eager builds of a rotation
together with the bundles of the three tables (each is in a module, not the
two at once); a rotation of the audit key while a replica boots; several
backend processes behind one address, whose bundle caches would differ.
