# A TLA+ model of the JLPT mock test system

The system is a multi-tenant Django application: language centers let their
teachers write mock tests and quizzes, enrol students in groups, assign exams
and homework, and grade what the students submit. Every center has a PostgreSQL
schema of its own; accounts, centers, invitations and subscriptions live in the
schema `public`. Web requests are served by several gunicorn workers, a Celery
worker runs background tasks, and Django Channels pushes notifications.

This directory holds TLA+ modules translated from that code, the TLC instances
that check them and proofs of their main properties for TLAPS. Almost all that
is hard in this program is concurrency on one database: requests load a row,
decide from the copy and write later, most of the time without a lock, under
READ COMMITTED. The models therefore take one database statement (or one
transaction whose effects appear at COMMIT) as one step.

## 1. Inventory

| component | state | operations | hard behaviour | what makes it correct |
|---|---|---|---|---|
| attempts | `submissions` rows: status, answers, results, snapshot, `deleted_at` | start-exam, homework-start, submit-exam, submit-homework, PATCH, DELETE, auto-submit task, practice | requests and the task write from stale copies; unique keys that count soft-deleted rows; a task killed in its loop; snapshot and grading read the paper separately | one attempt per item; status and graded fields agree; a graded attempt is final; stuck attempts get submitted; a pass is earned on what is recorded |
| tenancy (`core`) | `search_path` of each session, the context variable `_current_schema` | middleware reset, JWT authentication, `schema_context`, `with_public_schema`, tasks | blocks nested with transactions that fail and roll `SET` back; pooled sessions | no statement on another center's tables; the context variable is truthful; clean connections |
| groups | group row with cached counters, memberships, history | add, bulk add, remove, PATCH, create, delete; counter signals | check-then-insert, count-then-save, two removals of one row | limit kept, counters exact, one log entry per removal |
| centers: invitations | invitation codes, accounts | issue, register, approve, upgrade a guest, edit a profile | four kinds of row locks taken in different orders; a code given up while someone registers with it | codes and accounts agree, no deadlock, one use of a code |
| authentication | accounts, tokens, reset mails | login, profile, change and reset of a password, accounts made, edited and deleted by owner and admin | whole-row saves of older copies; a link checked on a loaded row and used later | a link works once; nothing decided is undone silently |
| centers: subscriptions | plan, period, `is_active`, center status | plan change, suspend, activate, daily sweep | the sweep works from copies; two-step plan change | a paid center is open; expired trials end |
| centers: provisioning | center row, schema, tables | create, migrate (retried), hard delete | DDL in signals and tasks, retries, deletion during migration | unique slug and schema; users enter only a ready schema; deletion leaves nothing |
| centers: contact requests | rows left by visitors of the landing page | create, answer, dismiss | lookup before the INSERT, whole-row answers | a phone number waits for one answer |
| mock tests | test tree, publication, totals | CRUD under a lock on published tests, publish, clone, delete | check-then-act on the lock; totals in separate steps; branches soft-deleted without their children | a published test does not change; totals fit the tree; a clone asks the same |
| assignments; notifications | exams, homework with papers, groups, users; stored notices | update in several statements, open and close, delete; signals, alert tasks | signals before the many-to-many rows; check-then-insert of once-only notices | an open room is announced, no notice twice, a homework is somebody's |
| materials; files | material rows, avatars, the object storage | upload, replace, clone by reference, soft and hard deletion | storing, naming and deleting a file are separate steps, and names come back into use | what a row names exists; no file is left behind |
| analytics, chat, core helpers, deployment, API documentation | cached answers, none | reads | - | - |

How they interact: every request passes *tenancy* before it reaches a component.
*attempts* reads exams and homework (*assignments*), their papers (*mock
tests*) and nothing of it under a lock. *groups* decides who an assignment is
for. *notifications* hangs on the save signals of assignments, groups, mock tests
and attempts. *centers* and *authentication* share the accounts; *subscriptions*
decides through the center's status who may log in, and *provisioning* whether
there is a schema to enter. Deleting a center deletes its users and, with both,
*files*.

`PROJECT.json` lists the same components with their files and all hazards found
at the lines where they bite.

## 2. Plan

| # | module | abstract specification | theorems | state |
|---|---|---|---|---|
| 1 | `Submissions`, `SubmissionLoads` | `AttemptLifecycle` | types, keys, wholeness, stale writes, refinement | done |
| 2 | `TenantSchema` | - | isolation, truthful context, clean connections, what is lost by whom | done |
| 3 | `GroupMembership` | - | log, capacity and exact counters between overlapping bulk adds | done |
| 4 | `Invitations` | `InvitationVoucher` | types, agreement, no deadlock, refinement | done |
| 5 | `Centers` (subscriptions and provisioning) | `CenterLifecycle` | who owns a schema, paid centers open, nothing half made, refinement | done |
| 6 | `ContactRequests`, composed with `Centers` | - | one open request per number | done |
| 7 | `MockTests` | - | the tree is whole, published tests frozen, totals add up, clones ask the same | done |
| 8 | `Assignments` with its notifications | - | types, once-only notices, announced openings, assigned homework | done |
| 9 | `Grading` | - | types, a snapshot explains its result, a pass is earned | done |
| 10 | `Accounts` | - | reset links, stale saves | done |
| 11 | `MediaFiles` | - | types, named files exist, none left behind | done |

Each module is written to be proved about as well: parameters are `CONSTANTS`
with named assumptions, each operation is an action, and no module uses
`RECURSIVE`. Several questions about a module are asked in one run where they
fit one instance. For that most modules have a constant `Traffic`: a set of
*loads*, of which `Init` chooses one. A load names the kinds of requests that
arrive, which of them are served `alone` (nothing of the kind begins unless
nothing else is on its way), and how many failures there are. A property that
the code keeps only under a part of the loads carries that part as its premise,
so the premise says exactly what a deployment has to guarantee.

## 3. What is modelled, and how it corresponds to the code

### Submissions (apps/attempts)

`rows` is the table, `job[a]` what an actor (web request or Celery worker) is
doing with the `Submission` instance it loaded, `batch[w]` what the task has
still to submit. One action per statement: `StartExam`/`StartHomework` (the
permission and the checks), `Insert` (the INSERT against the unique and check
constraints), `SubmitExam`/`SubmitHomework` (load and check),
`CreateSnapshot`, `Grade` (the transaction of `grade_submission`, which checks
the status of the copy and saves six fields), `LoadPatch`/`WritePatch` (the
whole row is saved, `deleted_at` too), `LoadDelete`/`WriteDelete`, `Scan`,
`TakeNext`, `Crash`, and the steps of teachers and of the clock. The unique keys
count soft-deleted rows, as `Meta.constraints` does. A grade is abstracted to
what it was computed from: paper, version of its questions and answers.

Left out: status SUBMITTED is never assigned; POST on the collection fails on
NOT NULL `user_id` and changes nothing; the migrations of attempts,
assignments, mock tests and notifications are empty stubs, so the models are
taken as the schema. `AttemptLifecycle` is the promise of the app: opened once,
then final or withdrawn for ever. The app keeps it only if nothing overlaps, so
`SubmissionLoads` adds a load to `Submissions`: actors that overlap, or actors served
one by one (`OneByOne`; a run of the task counts until its batch is empty).
`TaskSeesTenant` says whether a run of the task works on the tables of the center. As
deployed it does not (`attempts/tasks.py:24-43` enters no schema), and `task` checks it
so; `races` lets it, because that is when the task can meet the students' requests, and
checks safety only.

### TenantSchema (apps/core, pgbouncer.ini)

`path[s]` is the search_path of a PostgreSQL session, `ctx[h]` the context
variable of a thread, `blocks[h]` the schema and `atomic` blocks it is in,
`want[h]` what the program text asks for at this point. A request is reset,
authenticated into its center (`Authenticate`) or left in public, works in
nested blocks, and is reset again; a Celery task enters schemas itself.
`Rollback` brings back the search_path of the block's beginning, because
PostgreSQL undoes SET; `set_public_schema` swallows the error it gets in an
aborted transaction, `set_tenant_schema` does not. With `Pooled` a statement
outside a transaction runs on any free session. Several requests that share one
thread under ASGI are not modelled: `Own` gives each thread a session of its own.

### GroupMembership (apps/groups)

One group; groups share no state. `members` are the membership rows, `joined`
counts the rows a user ever had (it identifies a row: a user has at most one at
a time), `history` the log entries. Locks are read off what their holders are
doing: FOR UPDATE of the bulk add, and the lock of a membership being deleted. The
foreign keys to the group are DEFERRABLE INITIALLY DEFERRED
(`groups/migrations/0001_initial.py:45,60`), so an INSERT locks the group FOR KEY SHARE
only at its COMMIT: it waits there for a bulk add, and a bulk add waits for no open
removal. The entry of a removal, its DELETE and its counters appear at that COMMIT. The
signal counts students and teachers in two statements and saves later. PATCH saves the full row it
loaded, and so can bring back a deleted group and old counters. `Abort` is a
killed worker or a failed statement. UPDATE and COMMIT of a removal are one
step. `remove_student_from_group` has no caller and is left out. The bound is
`MaxJoins` (how often a user joins).

`traffic` is chosen once, in the initial state: the kinds of requests, the
limits PATCH may set, which kinds overlap with nothing (`alone`) and whether requests
fail. A property that the code keeps only under a part of it says so: `Exclusive` (single
adds, removals and PATCHes come alone, and no add is killed; bulk adds and the
deletion of the group may overlap) and `RemovalsAlone`.

### Invitations (apps/centers, apps/authentication)

Codes and accounts of one center. `RegisterSerializer` checks a code without a
lock and then, in a transaction, locks it, looks at its target again and
creates the account; `approve_invitation` locks invitation and center (a SELECT
FOR UPDATE with a join locks both), then the user; `GuestUpgradeSerializer`
locks the user, reads the guest's invitation without a lock, saves every column
of it and inserts a new one; `PATCH me/` saves the full row it loaded. A
transaction's writes appear in its last step; an INSERT that refers to the center
waits at COMMIT, when its deferred foreign key is checked, until nobody holds the
center FOR UPDATE (`CenterFree`), which is a guard of that last step. `RoleGiven` follows the order of the branches in the code: the role GUEST
arises only from a code with `is_guest`, whose role is STUDENT. Codes issued in
bulk are several `Issue` steps. REJECTED is never assigned. An admin of another
center takes the same locks and is refused: an `Abort`.

`InvitationVoucher` is the promise without requests and locks. `ClaimInVain` is
part of it because the code allows it: `OneClaimPerCode`, section 6.

Accounts made directly by the owner or an admin and the soft deletion of users are in
`Accounts`, the hard deletion of a center in `Centers` and `MediaFiles`.

### Centers (apps/centers, core/tenant_utils.py)

`center`, `sub` and `schema` are the center rows, the subscription rows and the
PostgreSQL schemas; `stray` says that tables of a tenant were created in
`public`. Requests: `BeginCreate`/`FinishCreate` (Center.save, then the signals
that make the schema and queue the migration), `LoadPatch`/`WritePatch`,
`LoadPlan`/`SavePlan`/`ActivateCenter` (two transactions), `SetStatus`,
`RequestDelete`. Tasks: `Build` and `Mark` of the migration, `StartDelete`,
`Clean`, `Drop` and `Erase` of `hard_delete_center`, each retried up to
`MaxRetries` times. The sweep loads its batch (`SweepLoad`), handles one center per
`SweepStep`, and starts again. `PeriodEnds` is the clock. `BuildFails`,
`DropFails`, `EraseFails`, `NotifyFails` and `Crash` are the failures, bounded by
`MaxFaults`; a killed task is lost, because Celery acknowledges it when it is
taken. `CenterLifecycle` is the promise: set up once, open until deleted, never
back. `traffic.probe` says whether the readiness probe looks for a table that
exists. As deployed it does not, and no center gets ready (`setup`, section 6); the loads
of `centers` come with and without it, so that the properties also hold once the name is
corrected. `repair_broken_schemas` and `cleanup_failed_schemas` are left
out: no schedule starts them, and the second raises a FieldError.

### ContactRequests (apps/centers)

EXTENDS `Centers` and adds the contact requests beside it (`AppNext`): `Ask` is the
lookup of `ContactRequestCreateSerializer.validate`, `InsertContact` the INSERT,
`TellOwners` the signal after it, `LoadAnswer`/`SaveAnswer` the owner's PATCH,
which saves every column, `LoadDismissal`/`SaveDismissal` the soft deletion, which
saves one. `FormFails` is a killed request, or an exception of a signal handler: the
row stays and the visitor, who got an error, may not try again.

### MockTests (apps/mock_tests)

Four tables, `test`, `section`, `group` and `question`, and one request per editor.
`CheckSection`, `CheckGroup`, `CheckQuestion`, `LoadQuestion`, `LoadMove`,
`LoadRemoval` are the look at the status that locks a published test; the `Write...`
actions come later. A PATCH of a question, a group or a section may give it another
parent (`LoadMove`, `LoadGroup`, `LoadSection`), and only the status of the test it leaves
is looked at; the PATCH of a test writes its total, and a new test may be published at
once, as the serializers allow. After a question, its section is summed and stored and then
its test (`SumSection`, `StoreSection`, `SumTest`, `StoreTest`), without a lock.
`LoadPublish`/`Toggle` toggles what was read. Deleting a section or a group leaves
what is below it alive and hidden. A clone is `LoadClone`, `CloneSections`,
`CloneGroups`, `FinishClone`; its rows appear together, at COMMIT, and a parent
deleted in between ends it with an error. Left out: changing `created_by`, and the
editing of quizzes, which have no lock and no tree.

### Assignments (apps/assignments, apps/notifications)

One exam and one homework, the groups they are assigned to, the members of these
groups, and `inbox`, which counts the stored notices up to 2. A PATCH is
`PatchExam`/`PatchHomework` (validation), `Presave` (the signal that remembers the
old row), `Save`, `Tell` (the signal after it, which chooses who is told),
`Send` and `Sent` (one notice at a time, check then insert for the types that are
debounced) and `WriteGroups`. `Join`, `Grade`, `Publish`, `AlertDeadline`, `AlertClosing`
are the other senders. Creation is left out because through the API it raises a TypeError
before it writes: the serializers leave `assigned_group_ids` and the ids of the papers in
the arguments of the model. So the exam and the homework are there from the start. The WebSocket push
after a notice, which stores nothing, is left out too.

### Grading (apps/attempts/services.py)

One attempt at one paper. `TakeSnapshot` goes down the tree of alive rows,
`SaveResults` grades the alive questions under whatever they hang, in a later transaction;
`Toggle`, `Edit`, `Rewrite`, `Add`, `Remove`, `Hide` are the teachers' edits, also in
between. The arithmetic is exact: the code splits sections over the areas of a level
with Decimal weights, here in hundredths (`Language`, `Reading`), the pass mark and the minimum
of each area are those of the level, FULL_WRITTEN questions of N4 and N5 count in the
total only as the code has it. `Storable` is the width of the column. Left out: a PATCH
of a draft's level or of a section's type (each paper keeps its own). `Practice`
grades without storing.

### MediaFiles (core/storage, authentication, centers, materials)

`named[r]` is the file column of a row, `storage[f]` the files in a folder.
`Choose` picks a name that is free, `Put` stores the file, `Write` is the UPDATE:
three steps, with the deletion of the old file before (users, `SaveUser`) or after
(centers, `DeleteLater`). `Purge`, `PurgeFile`, `PurgeRow` are the hard deletion of a center
with its users. Materials and questions are deleted softly and never lose their
file, so a clone may share it. Left out: clearing an avatar with null, which deletes the
old file and names no new one.

### Accounts (apps/authentication, owner and admin endpoints of apps/centers)

`row` is the account stored under an address, `session` whether somebody holds a
token for it, `link` the reset mails. Every request is a load and a save: `LoadProfile`
and `LoadAdmin` lead to a save of all columns, `LoadChange`, `LoadConfirm`, `LoadDelete` to
a save of named ones, `ValidateCreate` to `Insert`. A password stands for the number of the
`set_password` call that made its hash, so an older hash is seen to come back.
`MeView` loads the account twice (authentication, then get), which is one step here.
Left out: `UserViewSet` other than POST always raises an AttributeError
(`authentication/views.py:228`).

## 4. Runs

| run | what it checks | instance | states |
|---|---|---|---|
| `races` | one attempt per item, whole gradings, only stale copies touch graded rows; served one by one, `AttemptLifecycle` | 2 requests, 1 worker killed once, two of the three at a time (`AtMostTwoBusy`), 1 student, an exam and a homework with two items, 2 ids, at most 1 paper withdrawn and 1 edited (`FewPaperEvents`) | 1.5 M |
| `task` (violated) | liveness: a stuck attempt is submitted by the task as deployed | 1 request, 1 worker, exam and homework | 1344 |
| `access` | isolation, clean connections, when a schema is lost; reset links, what is undone by what | 1 request thread, 1 task, 2 tenants, blocks 3 deep; or 1 admin, 1 member, 1 link, 2 requests, 2 passwords set | 1.9 M |
| `pooled` (violated) | isolation behind PgBouncer in transaction mode | 2 request threads, 2 sessions | - |
| `members` | log, counters and limit of a group under three kinds of traffic | 2 students, 1 teacher, 2 requests, limits 1 and 2, 2 joins each | 3.0 M |
| `accounts` | agreement of codes and accounts, no deadlock, who demotes a student, `InvitationVoucher` | 3 codes, 2 people, 3 requests, aborts | 0.3 M |
| `centers` | schemas, deletion, plans, trials, `CenterLifecycle`, and contact requests beside them | 2 centers of one name, 2 requests, 2 tasks, 1 retry, 1 fault; 2 numbers, 2 contact requests | 0.6 M |
| `setup` (violated) | liveness: a new center gets ready, with the probe as deployed | 1 center, 1 request, 2 tasks | 10 |
| `editor` | frozen tests, totals, clones | 2 editors (one admin), 2 tests, 2 sections, 2 groups, 2 questions, 2 scores | 2.1 M |
| `homework` | notices once, open rooms announced, homework assigned | 2 groups, 2 students, 1 teacher, 1 admin, 2 requests, 1 kill | 0.9 M |
| `grades` | earned passes, snapshots that explain | 6 papers at the pass marks of all levels, 4 questions, 1 edit | 1.1 M |
| `media` | files exist, none left behind | 2 users, 1 center, 2 materials, 3 names, 2 requests, 1 fault | 1.9 M |

The bounds. Two requests are enough to overtake each other at every statement;
three are used where three locks can form a circle. Two ids, joins or keys let a
deleted row be followed by a new one with the same key or name; two centers of one
name collide in their slug; three file names let a name be freed, reused and freed
again while another is in use. Three codes are a code given up, the one that replaces
it and one for somebody else. Three levels of blocks are a schema block in an
atomic block in a schema block, the shortest nesting in which a rollback and a
restore both act on a remembered schema. Two limits let PATCH lower the limit below
the members there are. One edit of a paper is enough to fall before the snapshot,
between it and the grading, or after both; the papers are chosen so that one
question more or less decides. One failure is enough for every step to be the one
after which a process dies. Two scores and two questions tell a sum from its last term.
Where ids, keys, codes or joins run out, the remaining actions are still enabled,
so no behaviour is cut before its end.

Every load of an MC module is there for a property: the first few let everything of
one kind overlap, the last ones serve it alone. What a property demands beyond that
(`alone`, no failure, a kind that does not occur) is needed: for each there is a
weaker definition, not run, that TLC refutes (section 6).

`CHECK_DEADLOCK FALSE` is set where the instance really may stop: a group that is
deleted and empty takes no request, invitation codes, keys, ids and file names run
out.

Fairness is assumed in `task`, `centers` and `setup`, and only of what the platform itself
runs. `task`: `WF_vars(TaskStep(w))` and `WF_vars(GradingStep(w))`, because Celery Beat fires
the task every five minutes (`CELERY_BEAT_SCHEDULE`) and a worker that is not killed
finishes its loop. `centers`, `setup`: `WF_vars(TaskStep(t))` for queued tasks and
`WF_vars(SweepLoad \/ SweepStep)` for the sweep, which Beat starts daily. Failures are
bounded (`MaxCrashes`, `MaxFaults`) and unfair. Nothing is assumed of students,
teachers, owners or requests.

## 5. Proofs

TLAPS checks every theorem for all values of the constants. Each proof module
defines the inductive invariant that TLC checked first.

- `SubmissionsProofs`. `IInv` adds to the properties that rows are well formed,
  that a copy belongs to a row that was stored under its id, and that a copy
  whose status is STARTED carries nothing of a grading (`SafeCopies`): without
  the last a full-row save could bring half a grading back. From it follow
  `TypeCorrect`, `OneAttemptEver`, `GradingIsWhole` and `OnlyStaleWrites`. Where
  requests and tasks are served one by one, however many there are, `SerialInv` says that
  every copy is the row as it stands: only the one busy actor writes, and the other copies
  of a task's batch are of other rows (`BatchIsCurrent`). From that follow
  `SerialCopiesCurrent`, `SerialGradedImmutable` (the promise that two overlapping requests
  break) and the refinement `SerialKeepsLifecycle`, while teachers edit and processes are killed.
- `AccessProofs` is about `TenantSchema` and `Accounts`.
  - TenantSchema, without a pooler. For every thread the invariant relates
    what each block saved to what was wanted around it (`SavedWell`), says that an
    atomic block does not change it (`AtomicKeepsWant`), and that a rollback, now
    or after the enclosing schema block has restored the context variable, brings
    back the tenant the variable names (`RollbackFits`, `RestoreFits`). From it follow
    `DirectIsolation`, `DirectContext` and `DirectClean`, and, step by step, `DirectLosses`:
    without an aborted transaction every step leaves the context variable on the schema
    wanted, and every schema block with what it is to restore (`KeepsItsPlace`).
  - Accounts. The invariant orders copies and rows: the password of a copy or of a link is
    never newer than the row's, links are mailed for passwords that were set
    (`OnlyStaleSaves` for all loads). Where what writes passwords is alone, a copy held by
    such a request is current and no other is held, and a fitting link is unused
    (`LinksAreOneTime`).
- `GroupMembershipProofs` has three invariants, one per kind of traffic:
  `RowsInv` (any interleaving: types, no silent removal), `LogInv` (removals come alone,
  whatever else overlaps: each still finds the row it loaded, hence one entry per removal)
  and `CountInv` (`Exclusive`: the lock of the group has one holder, who has the group
  as it is, `OneHolder`, and the counters are exact except between the INSERT of a single
  add and its counting). From the last follow `CountersExact`, `EnrolsWithinLimit` and
  `CapacityKept`. It is the most the lock gives: with removals that overlap, capacity is
  lost (section 6).
- `InvitationsProofs`. `IInv` says what each request knows of the rows (`Aware`),
  that locks are exclusive, that rows are whole, and `LateClaimsVain`: whenever
  an upgrade can still give a code up, either it is a guest's code, and becomes
  EXPIRED, or nobody is registering with it. Hence a late registration never
  takes an APPROVED code, and codes and accounts stay in step. `NobodyWaitsForEver`
  ranks the phases of a request so that whoever waits waits for a lower rank: the
  opposite lock orders of approving and upgrading cannot meet in one person,
  because one wants an unapproved account and the other an approved one.
  `RequestsKeepVouchers` is the refinement of `InvitationVoucher`.
- `Sums`. `SumFunctionOnSet` is a recursion over subsets. The lemmas `SumIsThatOf` to
  `SumOfCopies` (sums are unique, natural, additive over disjoint sets, monotone, and the
  same over copies) use no induction scheme: a family of subsets of a finite set for which
  the claim fails has a smallest member (`SmallestSubset`, from the well-founded strict
  subset ordering), and there the recursion gives a contradiction.
- `CourseworkProofs` is about `Assignments` and `Grading`.
  - Assignments. `Jobs` is what a request or task holds at each step. For `ToldOnce`: where
    senders do not overlap at most one is at work (`OneSender`), and what it still has to
    send of the debounced types is not stored (`Unsent`), so the choice it made before
    the inserts is not stale. For `OpeningsAreAnnounced`: every notice of an
    opening somebody is owed is stored or in the hands of a job that will send it or
    choose anew (`Announced`). For `HomeworkIsSomebodys`: of edits that are alone there is
    one (`OneEdit`), and what it is going to leave was found assignable (`Owned`).
  - Grading. Under `[GradingNext]` the copied snapshot agrees with the paper as long as no
    edit was counted since; on papers that agree, `Graded` is the same
    (`SnapshotsExplain`). `PassesAreEarned` adds that the sections of a paper add up to what
    question by question is earned on the snapshot (`SectionsAddUp`, `EarnedIsGraded`) and
    that a pass needs every area (`PassNeedsEveryArea`); `VerdictIsMonotone` says that a
    point more never turns a pass into a failure.
- `CentersProofs`. `Typed` adds to the types what each job holds at each step
  (`Shapes`) and that a subscription belongs to a center (`SubsHaveCenters`).
  `SchemasStayOwned`: a name is borne by one live center only, through all copies and
  tasks (`Names`), and as long as nothing fails a schema has the name of the center it was
  made for (`Owners`). `PayingCentersAreOpen`: where plan changes and sweeps are alone, a
  paying center is ACTIVE or a request is about to make it so, and no sweep holds it
  (`Payers`). `QuietCentersStayWhole`: where deletions are alone, whatever a center lacks is
  owed by a task, and whatever is left of another is about to be removed (`Wholes`).
  `CentersKeepLifecycle`, the refinement of `CenterLifecycle`, needs that a copy which is
  saved whole is of a live center, has its flag, and that no set-up or deletion of the center is
  under way (`Copies`). For `OneRequestWaits`, `DeskInv` says that a visitor who was checked is the
  only one and that no row of the number waits (`CheckedAlone`), and that an answer not
  saved yet fits the rows (`AnswersFit`): if it leaves its row waiting, no other row of that
  number waits and no other answer is about to make one wait. The second is what a
  dismissed row that comes back could break.
- `ContentProofs` is about `MockTests` and `MediaFiles`.
  - MockTests. `WholeTree` adds to the types what a request holds at each step (`Sound`):
    the row it will write, the parents it points at, the parts of a test a clone has read
    so far; and that rows never move back to missing (`Grown`). `Reliable` adds what a
    request may rely on (`Relies`): the key it drew is still free (`Reserves`), a row it
    loaded and will save whole still has the parent it loaded (`WritesBack`), and, where
    changes of the status overlap nothing, the test it checked is still a draft
    (`OnDraft`). Every step that is reliable spares what is under a published test
    (`SparesClosed`), hence `PublishedStaysFrozen`. For `ClonesAskTheSame` a clone that is
    alone has read exactly what is alive (`ClonesSeeAll`), and a bijection between old and
    new keys preserves how many questions there are of a score. For `TotalsAddUp` the
    invariant `TotalsKept` says that the total of a section that has had a question is the
    sum of the living ones unless a request that will store it is on its way (`Counts`), and that this
    request knows the stored total and, once computed, the sum (`Recalls`). The second is
    needed because a sum is stored only where it differs from the total in memory.
  - MediaFiles. What a material names, or a request is about to name, is stored
    (`TenantFiles`). For users and centers `IInv` says that a job which is alone knows the
    current name (`OneByOne`, `Current`); hence what it deletes is no longer named
    (`Files`); a center that is gone names nothing (`GoneAreNameless`); and every
    stored avatar is named, or held by a job that will name or delete it (`Accounted`).
    From these follow `FilesStayThere` and `NoFileIsLeftBehind`.

Assumptions are those named in the modules: disjoint names, finite sets, bounds that are
numbers, a NULL that is no value of a column. `Grading` takes finitely many questions;
`MockTests` draws keys from a finite set, different ones for different tables (UUIDs);
`MediaFiles` starts with different file names in a folder, which the storage gives.
Only model-checked: the liveness property `TrialsEnd` (liveness under fairness is out of
the prover's reach); and, among the refutations, `StuckIsSubmitted` and `SetUpCompletes`,
which the code as deployed does not keep.

## 6. Where code and promises differ

Three promises are refuted by runs. pgbouncer.ini says that transaction pooling works with
search_path switching (`pooled`). The docstring of the auto-submit task says that stuck
attempts are submitted, but the task never enters a center's schema (`task`; with
`TaskSeesTenant = TRUE` TLC finds `StuckIsSubmitted` kept, kills in mid-loop included). And
`centers/swagger.py:13-15` says that a migrated center becomes ready, but `schema_ready`
looks for a table `groups_group` while the model's table is `groups` (`setup`; with a probe
that finds its table TLC finds `SetUpCompletes` kept). The other modules model the code
past this gate. For other promises the module states what the code does
keep, and next to it, as a definition no run checks, the promise as a comment or the
API documentation has it. TLC refutes each of these on the instance named (`MC...`
definitions are there for that):

| definition | refuted because | promised in |
|---|---|---|
| `Submissions!GradedImmutable` | two requests: a stale copy is saved over a graded row | attempts, "once GRADED they cannot be modified" |
| `MCGroupMembership!RoomForAll` (`MCHasty`) | a bulk add overtakes an open removal, whose older count is then saved over the newer one, so the next bulk add finds room where there is none | "enforces max_students" |
| `Invitations!OneClaimPerCode` | a code that an upgrade gave up is taken by a registration that had checked it | "same code cannot be reused once claimed" |
| `Assignments!SomebodyAssignedAlways` | two overlapping edits replace groups and users | the serializer's validation |
| `Centers!PaidIsOpenAlways` (`MCOverlap`) | the sweep suspends a center that has just paid | `centers/tasks.py:313-322` |
| `MockTests!PublishedFrozenAlways` (`MCAlone`) | a question, a group or a section is moved into a published test: only the test it leaves is checked | the lock on published tests |
| `MockTests!ClonesAreMade` | a test with a deleted group or section whose children live cannot be cloned | clone |
| `Grading!SnapshotExplainsResultAlways` | graded against the live questions, hidden ones too, so `max_score` may be unreachable | `create_snapshot` |
| `MediaFiles!FilesExistAlways` (`MCOverlap`, `MCDismissed`) | a name freed by one row is deleted again by another | `Center.save` |
| `Accounts!LinksWorkOnceAlways` (`MCOverlap`) | two confirmations check the link before either saves | `authentication/swagger.py:740` |
| `ContactRequests!OneOpenRequestAlways` (`MCVisitors`) | two visitors, or a visitor and an owner, overlap | "already contacted us" |

Seen while modelling, without a definition of their own:

- After DELETE of an attempt, start-exam answers "Unable to start exam at this
  time. Please retry." for ever: the unique key counts the deleted row that the
  manager hides (`attempts/models.py:222`, `services.py:76`).
- submit-exam takes a homework attempt after its deadline
  (`attempts/views.py:117`; submit-homework refuses at 342).
- Two single adds can overfill a group (`groups/serializers.py:206`), a bulk add between
  the INSERT of a single add and its counting too (338), a signal
  can save an old count over a newer one (`groups/signals.py:20-29`), and two
  DELETEs of one membership log two removals (`groups/utils.py:24`). `NoOverfill` and
  `CountsExact` therefore carry the condition under which they hold.
- A profile save that loaded the account before an upgrade makes the student a
  guest again (`authentication/views.py:114`).
- `_get_tenant_app_labels` skips `mock_tests` (`core/tenant_utils.py`).
- A center on TRIAL cannot log in, since `LoginSerializer` asks for ACTIVE, against
  `centers/swagger.py:74`. `Center.save` retries a slug collision with the same slug; a
  migration that runs after its schema was dropped creates its tables in `public` (`stray`);
  a PATCH of a center that was erased meanwhile inserts it again.
- A suspension or a withdrawn approval is looked at by login only: tokens go on.
- The address of a soft-deleted account can never be used again.
- EXAM_UPDATED and HOMEWORK_UPDATED are never debounced, against the docstring of
  `notifications/signals.py:6`. No notification task is in the beat schedule.
- A score of 1000 or more does not fit its column: the submit fails at the save.
- GET of submissions shows a student a score before its publication.

## 7. Not modelled

Analytics and result views only read, behind a cache of 60 seconds. Chat is an empty list of
routes. The core helpers are stateless predicates, paging and formats. Deployment files
are process supervision, except for `pgbouncer.ini`. Templates and API documentation
are text. Left out of modelled components: several requests sharing one thread under
ASGI, the migration filter of the router, `repair_broken_schemas`, quizzes other than in
grading, reading and marking of notices and the WebSocket push, lists of users and guests.
Hashes, token signatures and the token blacklist belong to libraries. PostgreSQL, Django, Celery and the
object storage are external: their locks, constraints, rollbacks, redeliveries and free
names are modelled as the code relies on them, and marked so in the map.
