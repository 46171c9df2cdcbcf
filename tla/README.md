# Rack Gateway in TLA+

Rack Gateway stands between people, CI and a Convox rack: it authenticates them, decides what they may do,
proxies their requests to the rack, and keeps an audit log of all of it. This directory holds a model of its core
logic in TLA+, the TLC runs that check it, and proofs of its main theorems in TLAPS.

Paths below are relative to `src/internal/gateway/` unless they start with `src/`.

## The system

Several gateway processes may run at once. They share a Postgres database, and that is all they share: what one
process knows of another's work is in the tables. Every request to the rack goes through `proxy/handler.go`
(`ProxyToRack`): permission, checks, an audit entry, a claim where the request is a step of an approved deploy, the
forward, the recording of what the rack answered, and the release of what wasn't used.

| Component | State | Operations | What makes it correct |
|---|---|---|---|
| Deploy approvals (`handlers/deploy_approval_*.go`, `db/deploy_approval_requests*.go`, `db/deploy_approval_expiry.go`, `jobs/deployapprovals/`) | a row per request: status, commit, window | create, approve, reject, extend, expire | one open request per commit; a rejection isn't overtaken by a promote; a lapsed request is closed |
| Deploy pipeline (`proxy/approval_*.go`, `proxy/resource_tracking.go`, `proxy/forward*.go`, `db/deploy_approval_claims.go`, `db/deploy_approval_tracking.go`, `db/object_keys.go`) | the row's claims, object, build and release; the claimed object keys | upload, build, read, promote: each claims, forwards, records, releases | one archive, one build, one promote per approval; what is promoted was built from the approved commit; what was recorded stays |
| Processes under an approval (`proxy/process_start.go`, `proxy/websocket.go`) | the row's process ids and exec commands | start, exec | nothing runs under a rejected approval; what runs is recorded |
| CircleCI job (`jobs/circleci/`) | a River job, the row held `FOR SHARE` | approve the hold job | the hold is approved only while the request is |
| Env writes (`db/app_env_lock.go`, `db/checked_builds.go`, `proxy/env_*.go`, `envutil/`) | an advisory lock per app, the builds being checked | lock, read, merge, release; record and settle a build | no env write is lost; no build uses an env a protected change replaced |
| Audit chain (`db/audit_append.go`, `auditverify/`, `jobs/verifyaudit/`) | the events, chained by hash and index | append alone or in a transaction, verify | indices have no gap and no fork; the verifier notices a change |
| Audit anchors (`jobs/audit/`) | an object per hour in S3, chained | write once, find the latest | one anchor per hour and chain; a retry recognizes its own |
| Attempts and denials (`audit/attempt.go`, `audit/denials.go`) | runs of equal denials in memory | record, end, flush | each denial is counted once |
| MFA (`auth/mfa/`, `db/mfa_attempts.go`) | attempts, used TOTP steps, backup codes | reserve, verify, finish, lock | the limit holds under concurrency; a code works once |
| CLI login (`db/cli_login.go`, `handlers/auth_cli*.go`) | a row per login | start, bind a browser, verify, fail, issue and redeem a code | one browser, one code, none after a failure |
| Sessions (`auth/session_manager.go`, `db/sessions_*.go`) | rows | create, touch, revoke | a revoked session stays revoked |
| User lock (`db/user_lock.go`) | `locked_at` | lock, unlock | an admin can't lock the last admin |
| Rack certificate (`rackcert/manager.go`) | a pin in memory and in the database | load, refresh | the newest pin is used |
| Rate limiter, session limit (`ratelimit/`, `proxy/websocket_sessions.go`) | maps in memory | take, sweep; acquire, release | the bound holds, and nobody is counted for ever |
| RBAC, settings, manifests, redaction, colcrypt, notifications, routes, CLI, web UI | configuration or none | pure decisions, data transformations, I/O | tables and transformations, covered by unit tests |

`PROJECT.json` lists every component with its files, and what of it is modelled.

### How they interact

- The permission lookup (`proxy/approval_resolvers.go`) reads the approval rows once, when a call begins, and the
  call goes on with what it read. What it relies on later is checked again by the claim's own `WHERE` clause, or
  isn't.
- Admins' decisions, the creation of requests, the sweep and the pipeline meet only in the row: each is one SQL
  statement (or one transaction) on it. The partial unique indices decide between rows.
- The rack is the only place where things really happen. The gateway's connection to it may end before the rack
  does, so a call has two lives, the handler's and the rack's.
- Audit entries are appended in the transaction of a decision (so a decision that can't be recorded doesn't happen),
  and before a call is forwarded.

### Which behaviour is hard

Timeouts of calls the rack goes on with; retries of them; decisions that come in the middle of a call; processes that
die between two steps; rows the sweep has to skip; keys that are written by other callers; locks that live in a
transaction and are lost with its connection; rows that are read, waited for and read again; row locks that foreign
keys take. `PROJECT.json` lists the hazards, each at its line, with the properties that cover it or the reason why none
does.

## The modules

| Module | Models |
|---|---|
| `ApprovalRows` | the `deploy_approval_requests` table: the rows, and per SQL statement which rows it matches and what it leaves in them |
| `DeployApproval` | requests, the calls of an approved deploy, direct callers beside them, and the rack; composes `ApprovalRows` |
| `DeployPromise` | the abstract specification: what an approval promises the people who grant it |
| `ApprovedProcess` | process starts, execs and the CircleCI job under approvals that have their release; composes `ApprovalRows` |
| `AppEnv` | env changes of an app and the builds that were checked with its env, under the app's lock |
| `Accounts` | transactions on users and their sessions, with their row locks, and appends to the audit chain |
| `AuditAnchors` | the hourly anchors of the audit chain, in a bucket whose objects can't be changed |
| `AuditVerification` | verification runs beside the writers of events and anchors; composes `AuditAnchors` |
| `MFA` | a user's attempts, automatic lock and enrollment, and the sign-ins that are exempt |
| `MC...` | the instances for TLC: symmetry sets and inputs; the rest is in the `.cfg` files |
| `DeployApproval_proofs`, `Archive_proofs`, `Promise_proofs` | type correctness of `DeployApproval` and the promote claim's invariant; what is recorded, checked, built and deployed; that `DeployApproval` implements `DeployPromise` |
| `AppEnv_proofs`, `ApprovedProcess_proofs`, `Accounts_proofs`, `AuditVerification_proofs`, `MFA_proofs` | each module's inductive invariant, and what follows from it |

The definitions marked "Slip" are small mistakes one could make in the definition that follows them. No specification
uses them; they say which property such a mistake would break.

### From the code to `ApprovalRows`

A statement has two operators: `Can...(row)` is its `WHERE` clause, and the other is what its `SET` leaves. Postgres
evaluates the clause on the row it has locked, so a statement is atomic. Times are reduced to what the clauses ask:
`lapsed` stands for `approval_expires_at <= NOW()` of an approval, and for the pending maximum age of a request;
`approved`, `uploaded`, `buildStarted` and `promoteStarted` for a timestamp that isn't NULL. The rack makes one
release of a finished build, so a release is named by its build. The rules of the table's trigger (an object, then a
build, then a release) are implied by the clauses and aren't modelled again.

### From the code to `DeployApproval`

| Variable | Code |
|---|---|
| `approval` | `deploy_approval_requests` |
| `creating` | create handlers between `admitApprovalCreation` and the insert (GitHub is asked meanwhile) |
| `keys` | `rack_object_keys`: free (no row), claimed (`uploaded_at` NULL), uploaded |
| `call` | a `ProxyToRack` handler: its label is the step it does next; `gone` is a handler that ended while the rack still works |
| `rack` | what has become of the forwarded request at the rack |
| `stored`, `built`, `applied` | the rack's objects, builds, and the releases it promoted for each request |

A call goes through `claimKey` and `claim` (`claimDeployApprovalStep`), `checkKey` and `verify`
(`validateBuildManifest`, in `requestBodyForRack`), `send` and `wait` (`forwardRequest`), `mark` and `record`
(`processBufferedResponse`, `recordInApproval`) and `release` (`releaseDeployApprovalClaims`). Each label is one
database statement, one read of the rack, or the network: other actors act between any two.

- `GiveUp` is the forward's timeout or an answer that breaks off. A promote then keeps its claim
  (`promoteMayHaveApplied`); an upload or build releases it.
- `RackRefuses` is an error status. The code takes it that such a promote wasn't applied, and so does the model.
- `NotSent` is `neverReachedRack`.
- `RecordNothing` is a write that failed at every retry (`recordStep`) or matched no row.
- `Abandon`, with `MayAbandon`, is a process that dies at any step, or a release that fails (which the code only
  logs). The rack goes on with what it was sent.
- `RackFinishesBuild` reads the object then, not when the build was created.
- `AdmitCreate` runs the sweep and the conflict check in one step; `InsertRequest` runs the second check and the
  insert. The unique index makes a conflict between its check and its insert fail the same way.
- `Sweep(S)` is one batch. Any due row may be missing from it: another transaction holds it (`SKIP LOCKED`), or the
  batch was full.

An archive is reduced to the commit that its manifest's images are tagged with, since that is what the check of an
approved build compares (`Verify`). A direct call is one by a caller who holds the permission: it claims keys, but no
approval. Direct builds are those of apps whose image patterns make the gateway read the archive.

### From the code to `DeployPromise`

A request is waiting, granted, withdrawn or deployed; under it a promote is none, running or applied. A promote starts
only under a grant, one at a time, none after one was applied, and a withdrawal comes only without one. The mapping
(`Standing`, `PromoteOf` at the end of `DeployApproval`) reads the first from the row and the second from the rack
alone, not from the claim: `PromiseKept` says that the claim, the timeouts and the decisions together do what was
promised.

### From the code to `ApprovedProcess`

The pipeline's result is the initial state: approved requests with a build and a release each. The rows then change by
`Decide`, `Promote` and `Lapse`, with the operators of `ApprovalRows`.

- A start (`proxy/process_start.go`) finds its approval, looks at it again just before the forward, and is recorded
  after it. It has no claim: `RackStarts` may come after a rejection, and `stray` remembers that it did.
  `LeaveStart` stands for every refusal in between: the command isn't the approved one, the audit can't be written,
  the gateway died.
- An exec (`proxy/websocket.go`) takes a session (`webSocketSessions`), is recorded and opens. A recheck
  (`websocket_recheck.go`) runs beside the session, every minute: it reads the row (`Recheck`), and the session ends
  when it hears the answer (`HeedRecheck`). `Restart` ends all sessions of a gateway. `LeaveExec` stands for what
  refuses or ends an exec otherwise.
- The job (`jobs/circleci/approve.go`) checks, confirms, writes its attempt, and holds the row `FOR SHARE` while
  CircleCI is told. The request may time out, or the transaction may be lost, with the POST on its way: `late`.

The comment at `db/deploy_approval_tracking.go:79` that `exec_commands` has a process's commands in the order they ran
is about one exec after another. Two at once may open in the other order; the model keeps them as a set.

### From the code to `AppEnv`

| Variable | Code |
|---|---|
| `env` | the env of the app's latest release, which is at the rack |
| `lock` | the transaction that holds the app's advisory lock (`db/app_env_lock.go`) |
| `row`, `aged` | `checked_builds`: recorded without a build's id, with it, or older than `CheckedBuildMaxAge` |
| `at`, `ask`, `base` | a handler: where it is, what was asked of it, the env it read |
| `rack`, `readEnv` | what the rack makes of the forwarded request, and the env a build read |

There are two ways to change an env. A release create through the proxy takes the lock, asks whether a checked build
may still read the env (`envutil/builds.go`), reads and merges, and forwards. The web editor
(`handlers/api_handler_env.go`) takes the lock, reads and merges, asks, and creates the release. They differ in what an
absent key means, and in who may change protected keys; `Merged` has both. A build reads the env, checks its manifest
with it, records its row and is forwarded; the rack's answer names the row, if it comes. Its handler's end gives the
lock up, and the build may read the env long after that.

`db/app_env_lock.go:34` says that the caller holds the lock until the rack has created the release. A handler whose
forward times out gives it up before (`GiveUp`), and one whose database connection breaks loses it (`LoseLock`). Such
a handler is `late`, and those it then interferes with are `crossed`: the properties are about all others. One app is
modelled, since locks and rows are per app.

### From the code to `Accounts`

A transaction is a row of statements (`db/user_lock.go`, `db/users_update.go`, `db/mfa.go`, `db/sessions_create.go`,
`db/audit_append.go`): `StatementsOf` lists them for each operation. Each statement takes its locks, or waits, or its
transaction is rolled back; what it writes shows at the commit. `Conflict` is Postgres's table of row locks:
`FOR UPDATE`, the update of no key column, `FOR SHARE`, and the key share lock a foreign key takes of the row it names.
`WaitsFor` says who waits for whom, and a circle is a deadlock. An append (`auditverify`'s chain) reads the latest
event and is checked again by the database's own function. Events are numbered from 1 here, from 0 in the code.

- `LockUser` counts the admins only when it finds its target among the unlocked ones. `AdminLocksLeaveAnAdmin` says
  what follows from that. A user who becomes an admin between the count and the update isn't covered by it.
- `LockUserAudited`, the gateway's own lock, has no such check: it may lock the last admin, by design.
- The row locks of sessions, `DeleteUser`, the creation of users, the handlers' role checks and the audit events that
  handlers write in a transaction of their own aren't modelled.

### From the code to `AuditAnchors` and `AuditVerification`

An event's id stands for its hash, which its place and all before it determine, and so does an anchor's. A job
(`jobs/audit/anchor_writer.go`) takes the anchor lock, looks at its hour's key and reads the head; looks for the
latest anchor and sends one PUT; and waits. S3 stores the PUT (`Store`), at a second of its own clock, or loses it. A
job that fails lets the lock go (`Fail`), and one whose database connection ends loses it without seeing that
(`LoseLock`). When its PUT can still be stored, or is yet to be sent, another job may read the bucket before it is:
that is `late`. `Restore` puts an older database in place, whose events
are then written anew with other hashes.

A run (`jobs/verifyaudit/`, `auditverify/`) reads the head, the event an earlier run verified, the anchors, and their
events. `AnchorsFail` has the checks of the anchors' order and links. `NoFalseAlarm` names what may make a run fail:
a restore, a late PUT, events without any anchor, and one race in the code. `checkHashV2Start` compares anchors, which
are listed late in a run, with the head, which was read first: a run that read it before the first hash v2 event, and
lists an anchor written after, fails once.

The comment at `jobs/audit/anchor_writer.go:109` that concurrent writes can't add a second version of a key or link two
anchors to the same predecessor holds as long as the lock is held (`AnchorsLinked`, "unless `late`").

### From the code to `MFA`

All is of one user, whose row serializes it: `rowLock` (`FOR UPDATE`) and `sharers` (`FOR SHARE`). An attempt
(`auth/mfa/`, `db/mfa_attempts.go`) locks the row, counts the recent attempts of its kind, reserves or is limited, is
verified without the lock, records its outcome, and checks for the automatic lock. Any of these may fail or be the
last. `PassTime` is a row that leaves the window, after which its attempt may be made anew.

`excused` remembers the failures that no check has to heed: those of an error (they count toward the limit but don't
lead to a check), those from before an unlock, and those whose request died before its check. A method's confirmation
or deletion locks the row, reads, and writes; a sign-in without a factor reads `mfa_enrolled` again `FOR SHARE` before
its session is exempt.

## The runs

States are from two workers.

| Run | Instance | Checks | Distinct states |
|---|---|---|---|
| `pipeline` | 1 request, 2 commits, 2 keys, 2 builds, 2 calls, processes die | `TypeOK`, `FreeClaimMeansNoPromote`, `RejectedNeverPromoted`, `PromotedIsApprovedCommit`, `DeployedMeansApplied`, `BindingsKept`, `PromiseKept` | 535 000 |
| `promotes` | 1 request, 3 calls, 2 keys, 1 build, processes die | `OnePromoteApplied`, `IInv`, `PromiseKept` | 127 000 |
| `direct` | 1 request, 2 commits, one approved and one direct call, a key from before keys were claimed | `PromotedIsApprovedCommit`, `BuiltWhatWasChecked`, `DeployInv` | 2 400 000 |
| `lifecycle` | 2 requests for one commit, 2 creators, 2 calls | `OneOpenRequest`, `PromiseKept` | 1 250 000 |
| `liveness` | 2 requests, 1 call, no process dies, fairness | `ClaimsSettle`, `LapsedRequestsClose` | 149 000 |
| `bound_archive` | 1 request, 2 keys, 2 calls | `BuiltFromBoundArchive`, violated | counterexample of 29 states |
| `app_env` | 2 writers, 1 build, 3 sorts of change, fairness | `EnvIInv`, `BuildsReadCheckedEnv`, `ChangesAreAtomic`, `OnlyAskedKeysChange`, `LockComesBack` | 624 000 |
| `approved_process` | 2 requests, one with a hold job, 1 start, 2 execs, 1 session at a time, fairness | `ProcessIInv`, `ExecsOnRecord`, `StrayProcessesUnused`, `HoldReleasedWhileApproved`, `GoneSessionsEnd` | 716 000 |
| `accounts` | 2 admins, a user, 3 transactions of any operation | `AccountIInv`, `SessionsMatchUsers`, `ChainLockMovesOn`, `AdminLocksLeaveAnAdmin` | 1 190 000 |
| `deadlock` | the same | `MFAResetsDontDeadlock`, violated | counterexample |
| `audit_verification` | 2 hours with a job each, 2 events, 2 PUTs, 2 seconds, 1 restore | `VerifyInv`, `AnchorsLinked`, `LossReported`, `NoFalseAlarm` | 3 290 000 |
| `mfa` | 3 attempts with codes, 1 with a key, 2 methods, 1 sign-in, limits of 2 | `MFAIInv`, `AttemptsWithinLimit`, `FailuresLock`, `EnrolledWithAMethod`, `ExemptionEndsAtEnrollment` | 1 970 000 |

What the properties say is at their definitions. In short: `OnePromoteApplied`, `FreeClaimMeansNoPromote` and
`RejectedNeverPromoted` are about the promote; `PromotedIsApprovedCommit` and `BuiltWhatWasChecked` about the archive;
`BindingsKept` and `DeployedMeansApplied` about the record; `OneOpenRequest`, `ClaimsSettle` and
`LapsedRequestsClose` about the request's life; `PromiseKept` is the refinement. `ChangesAreAtomic` says that no env
change undoes another, `BuildsReadCheckedEnv` that none comes under a checked build. `ExecsOnRecord` and
`HoldReleasedWhileApproved` tie what runs to the approval it runs under. `SessionsMatchUsers` says that no session
outlives the change that revoked it, however its sign-in raced it. `LossReported` says that a passing run has lost
nothing, and `NoFalseAlarm` that a failing one has a reason.

### The bounds, and why they are enough

- Calls: a slot is a call the gateway or the rack hasn't finished with. Two are needed for every race of two steps,
  and a third for a race behind a call that was given up: hence `promotes`.
- Keys and builds: two, so that an upload or a build can be retried under another name.
- Commits: two, so that an archive can be of the wrong one.
- Requests: two, so that one can be opened after, or beside, another; the pipeline's properties are per request, so
  one is enough for them. `PromotedIsApprovedCommit` needs another source of archives rather than another request:
  other commits' uploads, and the direct caller.
- `MaxCreators` bounds the handlers that create for one commit: two race.
- Nothing else of the deploys is bounded: a request may lapse, be extended and be tried again for ever.
- `app_env`: a change can be undone by one other change, and come under one build. The three sorts of change (`Asks`)
  remove, change, mask and omit a plain, a secret and a protected key, by either way. A handler runs once; a retry is a
  new request, which another writer stands for.
- `approved_process`: two requests, so that a process of one isn't used under the other; two execs for one session, so
  that the limit is met.
- `accounts`: three transactions, so that two that wait for each other meet a third; two admins are the fewest of whom
  each can lock the other. A transaction runs once, and sessions from before are there too.
- `audit_verification`: two hours, whose anchors are written in either order or by late PUTs; `MaxEvent`, `MaxAnchor`,
  `MaxSecond` and `MaxRestore` bound the events written, the PUTs sent, S3's clock (two anchors in one second, or not)
  and the restores. The jobs may be tried again and again while PUTs are left. `Legacy` is 0: an anchor from before the
  first hash v2 event is then one of the empty chain.
- `mfa`: the code's limits are five; with two, three attempts with codes pass the limit if anything lets them, and the
  key's attempt fails toward the lock beside them. Attempts are made anew without end.

Symmetry is over builds, over keys that aren't legacy, over calls of one sort, over transactions, and over attempts
with codes and methods. No property names one of them. It is off where liveness is checked.

Deadlock is checked where the system goes on for ever: an admin, a user or CI can always do something, or time passes.
In `app_env`, `accounts` and `deadlock` each handler or transaction runs once, and all may be done. A deadlock
of the database in `accounts` is told by `WaitsFor` instead, since any of its transactions may be ended.

### Fairness

`Fairness` is weak fairness of each handler's next step, and of the sweep for each due row. A handler's forward has a
timeout (`forwardTimeout`), its database statements do too, and the release follows in the same function. The sweep is
a periodic job (every 5 minutes, `ExpireInterval`), and a row that was locked at one sweep is due at the next. No
fairness is assumed of the rack, of admins, of CI, or of time.

In `app_env` a handler's `GiveUp` is weakly fair: every request has a timeout, after which the handler ends and its
transaction with it. In `approved_process` it is the recheck of an open session, which a ticker starts every minute,
and that the session hears its answer. The other specifications have no fairness.

`ClaimsSettle` holds only while no process dies: a claim of a dead process stays (`MayAbandon` is off there). The
approval then needs a person, which is what the code chose over a second deploy.

### What disagrees with the code's own words

`bound_archive`: `proxy/approval_claims.go:16` says "An approval uploads one archive, creates one build from it and
promotes its release once", and `proxy/deploy_approval_validation.go:41` that "the build must use the archive that was
uploaded under that approval". The build is compared with the object read when its permission was resolved
(`deploy_approval_validation.go:49`). If the upload of `o1` marked its key uploaded but couldn't write the approval,
its release unbinds `o1`; CI uploads `o2` under the same approval; and a build that was permitted before, with `o1`,
claims the approval's build, which asks only that an archive was uploaded. The approval then names `o2` and a build of
`o1`. The archive is still of the approved commit: the commit is compared where the archive is read, and
`PromotedIsApprovedCommit` holds.

`deadlock`: `db/mfa.go:73` says of an admin's reset of a user's MFA that it "takes the user's row lock first, like
every other change to a user's MFA, so it can't deadlock with them", and `db/mfa.go:301` that "Changes to a user's MFA,
sessions and roles take it before they touch anything else, so they can't deadlock with each other." The reset then
writes the admin's id into the sessions it revokes (`revoked_by_user_id`, `db/mfa.go:100`), and the foreign key of that
column (`db/migrations/20251008173112_user_sessions.sql:13`) takes a key share lock of the admin's own row. Two admins
who reset each other at once each hold `FOR UPDATE` what the other needs. Postgres ends one of the two, whose
transaction is rolled back whole, so all other properties hold. `ChainLockMovesOn` says that the chain lock, for which
every audit event waits, is in no such circle.

## The proofs

TLAPS proves, for any values of the constants that each module's `ConstantsAssumption` (and `NoneAssumption` of
`ApprovalRows`) allows, whatever the number of requests, calls, handlers, users, transactions, jobs and attempts. The
assumptions say that NULL or "nobody" is no value, that names of different things differ, that limits are numbers, and
that what is counted is finite.

| Module | Theorem | Says |
|---|---|---|
| `DeployApproval_proofs` | `TypeCorrect` | `Spec => []TypeOK` |
| | `ClaimInvariant` | `Spec => []IInv` |
| | `AtMostOnePromote` | `Spec => []OnePromoteApplied` |
| | `ReleaseIsSafe` | `Spec => []FreeClaimMeansNoPromote` |
| | `RejectionHolds` | `Spec => []RejectedNeverPromoted` |
| `Promise_proofs` | `KeepsPromise` | `Spec => PromiseKept`: `DeployApproval` implements `DeployPromise` |
| `Archive_proofs` | `DeployInvariant` | `Spec => []DeployInv` |
| | `BindingsStay` | `Spec => BindingsKept` |
| | `BuildsAreOfWhatWasChecked` | `Spec => []BuiltWhatWasChecked` |
| | `PromotesApprovedCommit` | `Spec => []PromotedIsApprovedCommit` |
| | `DeployedIsApplied` | `Spec => []DeployedMeansApplied` |
| | `RequestsOpenOnce` | `Spec => []OneOpenRequest` |
| `AppEnv_proofs` | `EnvSafe` | `Spec => []EnvIInv` |
| | `BuildsReadWhatWasChecked` | `Spec => []BuildsReadCheckedEnv` |
| | `ReleasesAreAtomic` | `Spec => ChangesAreAtomic` |
| | `OnlyAskedChange` | `Spec => OnlyAskedKeysChange` |
| `ApprovedProcess_proofs` | `ProcessSafe` | `Spec => []ProcessIInv` |
| | `WhatRunsIsRecorded` | `Spec => []ExecsOnRecord` |
| | `StraysStayUnused` | `Spec => []StrayProcessesUnused` |
| | `HoldsReleasedInTime` | `Spec => HoldReleasedWhileApproved` |
| `Accounts_proofs` | `AccountsSafe` | `Spec => []AccountIInv` |
| | `SessionsAreTheirUsers` | `Spec => []SessionsMatchUsers` |
| | `LocksLeaveAnAdmin` | `Spec => AdminLocksLeaveAnAdmin` |
| | `ChainIsNoDeadlock` | `Spec => []ChainLockMovesOn` |
| `AuditVerification_proofs` | `AnchorsSafe` | `Spec => []AnchorIInv` |
| | `AnchorsAreOneChain` | `Spec => []AnchorsLinked` |
| | `AnchorsHaveOneOrder` | `AnchorIInv /\ ~late` implies that the verifier's order of the anchors exists and is S3's |
| | `VerifySafe` | `Spec => []VerifyInv` |
| | `LossIsReported` | `Spec => LossReported` |
| | `NoAlarmIsFalse` | `Spec => NoFalseAlarm` |
| `MFA_proofs` | `MFASafe` | `Spec => []MFAIInv` |
| | `AttemptsAreLimited` | `Spec => []AttemptsWithinLimit` |
| | `FailuresLockTheUser` | `Spec => []FailuresLock` |
| | `EnrolledHasAMethod` | `Spec => []EnrolledWithAMethod` |
| | `ExemptionsEnd` | `Spec => []ExemptionEndsAtEnrollment` |

The first three modules are about `DeployApproval`. There, `TypeOK` isn't inductive: a build reads `stored[source]`, a promote
appends `call[c].build` to `applied`, so a running build must have a key, and a promote at the rack a release.
`ShapeOK` adds what each step of a handler relies on (`CallOK`) and the running builds' keys (`BuildOK`).

"At most one promote" isn't inductive either. `ClaimOK(r)` says why it holds: whoever may have `r`'s promote at the
rack, or is about to send it (`Promoting`), found the claim free and took it; the claim stays as long as there is such
a call, so there is at most one; once it was applied, the claim stays for good, and what is left of the call can only
record it. The cases that matter are the release (only after a refusal, or when nothing was sent, so the rack can't be
working: `ReleaseClaim`), the handler that goes away (`EndClaim`), and the decisions (an extension doesn't touch the
claim, a rejection needs it free: `DecideClaim`). TLC checks `IInv` in `promotes`.

`KeepsPromise` needs two more facts of each request, in `PromiseInv`: what the row tells of its approval is consistent
(`GrantOK`: an approved row, and one whose promote was claimed, was once approved), and "deployed", or the rack's
answer on its way to the handler, has an applied promote behind it (`ReportOK`). Each step then grants, withdraws,
sends, cancels, applies or reports (one lemma each: `GrantStep` to `ReportStep`), or changes nothing promised
(`Stutter`). The steps that carry the argument are the rejection, which the claim keeps away from a promote
(`NoClaimNoPromote`), the expiry, which withdraws only what was never approved (`ExpiryIsPromised`), the sending, which
finds a standing grant and no promote (`SendingIsGranted`), and the rack's answer to a handler that is gone
(`RackPromise`).

`DeployInv` adds what an approval's archive, build and release have to do with each other; TLC checks it in `direct`.
It is put together in three layers, since each is needed to keep the next:

- `BindingInv`: what a call was begun with is still what its request is bound to (`NamesOK`), and a row is filled in
  order (`RowOK`). A step's claim asks that the row has what comes before it, and no statement takes a recorded value
  out, so nothing recorded is ever replaced (`BindingsStay`).
- `ArchiveInv`: a key is claimed by one upload, and while that may still store something, nobody takes its object for
  complete (`KeysOK`); so a build that is past its check (`CheckOK`), and one the rack has taken (`SourceOK`), is of the
  object as it still is. The cases that matter are the upload that is given up, whose key stays claimed, and
  the retry, which finds the key taken.
- `RecordedOK`: a row's build was checked with the row's commit, its release is of a finished build, and nothing else
  was promoted under it. `PromotesApprovedCommit` and `DeployedIsApplied` follow.

`RequestsOpenOnce` rests on the unique index alone: the insert asks it, and no later statement opens a closed request.

The invariants of the other modules are laid out in the same way, one step per action, and each is checked by TLC in
its module's run:

- `EnvIInv`: who is between taking the lock and its end holds it (`HoldersHold`), so what it read is still the latest
  (`BaseIsLatest`); a checked build that may yet read the env has a row (`AwaitingBuildsKept`), and a writer that is
  past its look at the rows left no such build (`NoneAwaitsPastTheCheck`). Each is of the handlers in time only. What a writer forwards was accepted for the env it
  read (`ChangesAccepted`), which is still the latest when the release comes: hence `OnlyAskedChange`.
- `ProcessIInv`: a session is counted as long as its handler has it (`SessionsCounted`); what is on an approval's record
  is running and was started under it (`StartsInOrder`, `ExecsInOrder`); a job that holds the row has it approved, and
  a POST on its way has the row held or is late (`JobsInOrder`). A stray process's approval is rejected, which nothing
  undoes, so no record takes it.
- `AccountIInv`: row locks exclude each other (`LocksExclude`), and a transaction past its row's statement has its row
  (`RowsLocked`). So what a sign-in checked still is so when it commits (`SignInsStillMatch`), a revocation has all the
  user's sessions until it commits (`RevocationsComplete`), and the admins that were counted are still there
  (`AdminsCounted`). The chain's part (`ChainLinked`, `AppendsInOrder`) says that an event chosen under the chain lock
  follows the latest one until it is committed. Who has the chain lock took it before any row (`ChainLockFirst`), so
  neither its holder, when it waits for a row, nor who waits for it holds one, and no other transaction waits for them.
  A circle of waiting transactions through the holder would therefore close without it, and a deadlock is a circle with
  no smaller one in it: hence `ChainIsNoDeadlock`.
- `AnchorIInv`: while no lock went too early, what is on its way to S3 is the lock holder's and follows the latest
  anchor (`LockProtects`), so the anchors link and there is one per hour (`AnchorsLinked`); without a restore they
  grow (`AnchorsGrow`). That hashes of different anchors differ is a number here (`IdsDiffer`).
- `VerifyInv`: what was recorded of the chain's head, by an anchor or a run, is worth what came before it: if the event
  is still at its index, all the events up to it are there (`RecordsStand`), since an event that takes a lost one's
  place has another id. What a run has checked holds while the head it read does (`RunHolds`), so a passing run
  has lost nothing. Without a restore nothing is lost at all (`NothingLost`), and while no lock went too early a run
  lists the anchors as S3 stored them (`ListedAsStored`), so it has nothing to report. `WriteOrders` says place by place
  which anchor comes next; two lists that differ would differ at a first place, where the next one is unique.
- `MFAIInv`: who has the row lock has it alone (`RowLockHeld`), so what it counted is no less than what there is, and
  what it read is so (`ReadsHold`). The limit, the lock after failures and the exemption follow together.

### Only model-checked

Liveness and fairness are out of the prover's reach: `ClaimsSettle`, `LapsedRequestsClose`, `LockComesBack` and
`GoneSessionsEnd` are checked on the instances above, and the two properties that are violated are refuted there. Every
other property of the runs is proved. `AnchorsHaveOneOrder` is about the time before a lock is given up too early. That a run
finds an order after it too follows from `WriteOrders` place by place, by an induction that isn't done here.

## What is not modelled

- Promotes by callers without an approval; the command of an approved start and its env; how a process ends.
- Other tokens and apps: their rows are disjoint, except for object URLs, whose index is global and whose keys are
  claimed per app.
- The rate limits of creation, GitHub's verification (a nondeterministic refusal), notifications, and the audit events
  in the transactions of decisions. How one is appended there is in `Accounts`.
- A rack that applies a promote and answers with an error status (the code assumes it doesn't).
- The text of an env and of a manifest; a release create without an env; the audit of an env's diffs.
- A user's creation and deletion, and single updates of sessions and of users (touch, names).
- The walk of the verifier along the events' links and HMACs, and the aggregation of equal events; the anchors' write
  window, age and missing hours, retention, and the checks of an anchor that a job finds at its key.
- Single use of codes and challenges, which are one statement each; backup codes; trusted devices.
- Denial throttle: runs of equal denials in one process's memory, under one mutex. Its timers and its flush are hazards
  without a property, and the first thing left in the plan.
- CLI login: each step is one `UPDATE` whose clause names the state it needs, and the code is redeemed by one
  `DELETE ... RETURNING`.
- Rack certificate, rate limiter: a cached value, and refill times in one process's memory.
- Everything else `PROJECT.json` calls not modelled is configuration, pure decisions, transformations of data, or I/O.

## Plan

`DeployApproval` with its promise, `AppEnv`, `ApprovedProcess`, `Accounts`, `AuditAnchors`, `AuditVerification` and
`MFA` are done, each with the proof of its invariant and of its safety properties. What is left, the most important first:

1. `DenialThrottle`: each denial is counted exactly once, with late timers, overflow and a flush.
2. `CLILogin`: one browser, one code, none after failure.
3. `RackCert`: which pin ends up cached when a load races a refresh.
4. Abstract specifications of `AppEnv` (an env and atomic changes) and of the anchors (a chain that only grows), as
   refinements in place of `ChangesAreAtomic` and `AnchorsLinked`.
