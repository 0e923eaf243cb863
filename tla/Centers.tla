------------------------------ MODULE Centers ------------------------------
(***************************************************************************)
(* The centers app: the life of a center and of its subscription.          *)
(*                                                                         *)
(* A center is a row of the public schema, a subscription row and a        *)
(* PostgreSQL schema of its own.  Creating one makes all three and queues  *)
(* the task that migrates the schema; deleting one queues the task that    *)
(* removes them.  Owners and center admins edit the row, the plan and the  *)
(* status meanwhile, and a daily sweep suspends centers whose trial is     *)
(* over.  Every save but the named ones writes the whole row it loaded.    *)
(***************************************************************************)
EXTENDS Integers, FiniteSets

CONSTANTS
  Ids,          \* primary keys of centers, each given out once (a bound)
  Bases,        \* what the names of centers slugify to
  PaidPlans,    \* the plans other than FREE
  Requests,     \* web requests being served at the same time
  Tasks,        \* Celery tasks queued or running at the same time (a bound)
  MaxRetries,   \* max_retries of the tasks
  MaxFaults,    \* bound on the failures of the environment
  Traffic,      \* the kinds of load the module is checked under
  None          \* NULL, or nothing there

ASSUME IdsAssumption == IsFiniteSet(Ids) /\ Requests \cap Tasks = {}
ASSUME BoundsAssumption == MaxRetries \in Nat /\ MaxFaults \in Nat
ASSUME PlansAssumption == "FREE" \notin PaidPlans

\* A load says which requests and sweeps there are (the last four kinds are of
\* ContactRequests), which of them are alone, how many failures there are, and
\* whether schema_ready looks for a table that the migrations make.  As
\* deployed it does not: it asks for groups_group, and the table is groups.
Kinds == {"create", "patch", "status", "plan", "delete", "sweep",
          "contact", "answer", "reopen", "dismiss"}
ASSUME TrafficAssumption ==
  Traffic \subseteq [kinds : SUBSET Kinds, alone : SUBSET Kinds,
                    faults : 0..MaxFaults, probe : BOOLEAN]

VARIABLES
  center,    \* center[i]: the row of table centers with key i, or None
  sub,       \* sub[i]: the row of table subscriptions of center i, or None
  schema,    \* schema[s]: the PostgreSQL schema named after slug s, or None
  stray,     \* have tables of a tenant been created in the schema public?
  used,      \* the keys given out so far
  req,       \* req[q]: what a web request is doing, with what it loaded
  task,      \* task[t]: a queued or running task, with what it loaded
  batch,     \* the expired trials the sweep has still to handle
  faults,    \* failures so far
  traffic    \* the load of this behaviour, chosen at the start

vars == <<center, sub, schema, stray, used, req, task, batch, faults, traffic>>

-----------------------------------------------------------------------------
(* Data.                                                                   *)

Slugs    == Bases \X (1..Cardinality(Ids))
Statuses == {"TRIAL", "ACTIVE", "SUSPENDED"}
Plans    == {"FREE"} \cup PaidPlans

\* The slug gives the schema its name, so the row needs one field for both.
Center == [slug : Slugs, ready : BOOLEAN, status : Statuses]
Sub    == [plan : Plans, over : BOOLEAN, active : BOOLEAN]
Schema == [madeFor : Ids, built : BOOLEAN]

NoRow == [slug |-> None, ready |-> FALSE, status |-> "TRIAL"]

Req  == [op : {"idle", "create", "patch", "plan", "activate"},
         id : Ids \cup {None}, copy : Center \cup {NoRow}, plan : Plans]
Task == [op : {"idle", "migrate", "mark", "delete", "clean", "drop", "erase"},
         id : Ids \cup {None}, slug : Slugs \cup {None}, tries : 0..MaxRetries]
Due  == [id : Ids, status : Statuses]

Quiet   == [op |-> "idle", id |-> None, copy |-> NoRow, plan |-> "FREE"]
NoTask  == [op |-> "idle", id |-> None, slug |-> None, tries |-> 0]
Trial   == [plan |-> "FREE", over |-> FALSE, active |-> TRUE]

ASSUME NullAssumption == None \notin Ids \cup Center \cup Sub \cup Schema \cup Slugs

Live(i) == center[i] # None
SlugsTaken == {center[i].slug : i \in {j \in Ids : Live(j)}}

AllQuiet ==
  (\A q \in Requests : req[q] = Quiet) /\ (\A t \in Tasks : task[t] = NoTask)
  /\ batch = {}

\* A request or a sweep of kind k begins: at any time, or, where the load
\* keeps the kind alone, only while nothing else is going on.
MayBegin(k) == k \in traffic.kinds /\ (k \in traffic.alone => AllQuiet)

Faulty == faults < traffic.faults /\ faults' = faults + 1

\* A task is put into the broker.  Tasks bounds the queue: where no slot is
\* free the step waits; the slots are alike, so it need not choose one.
Queue(t, op, i, s) ==
  /\ task[t] = NoTask
  /\ t = CHOOSE u \in Tasks : task[u] = NoTask
  /\ task' = [task EXCEPT ![t] = [op |-> op, id |-> i, slug |-> s, tries |-> 0]]

-----------------------------------------------------------------------------
(* Creating a center.                                                      *)

\* Center.save: the slug without a number, or with the first free one.
IsFirstFree(b, s) ==
  /\ s \in Slugs \ SlugsTaken /\ s[1] = b
  /\ \A n \in 1..(s[2] - 1) : <<b, n>> \in SlugsTaken

BeginCreate(q, i, b) ==
  /\ MayBegin("create") /\ req[q] = Quiet
  /\ i \notin used
  /\ \E s \in Slugs :
       /\ IsFirstFree(b, s)
       /\ req' = [req EXCEPT ![q] = [Quiet EXCEPT !.op = "create", !.id = i,
                    !.copy = [slug |-> s, ready |-> FALSE, status |-> "TRIAL"]]]
  /\ used' = used \cup {i}
  /\ UNCHANGED <<center, sub, schema, stray, task, batch, faults, traffic>>

SlugFreeForAnyone(i, s) == TRUE   \* fault: the slug is not unique

\* The unique keys on slug and schema_name, which row i itself may hold.
SlugFree(i, s) == \A j \in Ids \ {i} : Live(j) => center[j].slug # s

\* CREATE SCHEMA IF NOT EXISTS keeps a schema that is there.
WithSchema(i, s) ==
  IF schema[s] = None
    THEN [schema EXCEPT ![s] = [madeFor |-> i, built |-> FALSE]] ELSE schema

\* What an INSERT into centers does in its transaction: the signals start the
\* trial, whatever status was sent, and create the schema; the migrations are
\* queued after the commit.
InsertCenter(i, row, t) ==
  /\ center' = [center EXCEPT ![i] = [row EXCEPT !.status = "TRIAL"]]
  /\ sub' = [sub EXCEPT ![i] = Trial]
  /\ schema' = WithSchema(i, row.slug)
  /\ Queue(t, "migrate", None, row.slug)

\* The INSERT of a new center.  On a collision save() tries again with the
\* slug it has kept from the first attempt, and gives up.
FinishCreate(q, t) ==
  LET i == req[q].id
      row == req[q].copy IN
  /\ req[q].op = "create"
  /\ IF SlugFree(i, row.slug)
       THEN InsertCenter(i, row, t)
       ELSE UNCHANGED <<center, sub, schema, task>>
  /\ req' = [req EXCEPT ![q] = Quiet]
  /\ UNCHANGED <<stray, used, batch, faults, traffic>>

-----------------------------------------------------------------------------
(* Editing a center: PUT and PATCH by the owner or by its admin.           *)

\* The copy of the row, with the status the request asks for.
LoadPatch(q, i, st) ==
  /\ MayBegin("patch") /\ req[q] = Quiet /\ Live(i)
  /\ st = center[i].status \/ "status" \in traffic.kinds
  /\ req' = [req EXCEPT ![q] = [Quiet EXCEPT !.op = "patch", !.id = i,
                                  !.copy = [center[i] EXCEPT !.status = st]]]
  /\ UNCHANGED <<center, sub, schema, stray, used, task, batch, faults, traffic>>

PatchedAsUnready(row, copy) ==   \* fault: is_ready is writable, and not sent
  [copy EXCEPT !.ready = FALSE]

\* instance.save() without update_fields writes every column of the copy.
PatchedRow(row, copy) == copy

\* Where the row is gone meanwhile, Django's save() inserts it again, and the
\* signals take it for a new center.
WritePatch(q, t) ==
  LET i == req[q].id
      row == req[q].copy IN
  /\ req[q].op = "patch"
  /\ \/ /\ Live(i)
        /\ center' = [center EXCEPT ![i] = PatchedRow(@, row)]
        /\ UNCHANGED <<sub, schema, task>>
     \/ /\ ~Live(i) /\ SlugFree(i, row.slug)
        /\ InsertCenter(i, row, t)
     \/ /\ ~Live(i) /\ ~SlugFree(i, row.slug)
        /\ UNCHANGED <<center, sub, schema, task>>
  /\ req' = [req EXCEPT ![q] = Quiet]
  /\ UNCHANGED <<stray, used, batch, faults, traffic>>

\* POST suspend and activate: one UPDATE of the column.
SetStatus(i, st) ==
  /\ MayBegin("status") /\ Live(i)
  /\ center' = [center EXCEPT ![i].status = st]
  /\ UNCHANGED <<sub, schema, stray, used, req, task, batch, faults, traffic>>

-----------------------------------------------------------------------------
(* Changing a plan: PATCH owner-subscriptions and POST upgrade.            *)

LoadPlan(q, i, p) ==
  /\ MayBegin("plan") /\ req[q] = Quiet
  /\ sub[i] # None /\ sub[i].plan # p
  /\ req' = [req EXCEPT ![q] = [Quiet EXCEPT !.op = "plan", !.id = i, !.plan = p]]
  /\ UNCHANGED <<center, sub, schema, stray, used, task, batch, faults, traffic>>

SubWithPlanKeepingFlag(old, p) ==   \* fault: is_active is not set again
  [plan |-> p, over |-> FALSE, active |-> IF old = None THEN TRUE ELSE old.active]

\* The whole row is written: a new period begins and the flag is set.
SubWithPlan(old, p) == [plan |-> p, over |-> FALSE, active |-> TRUE]

\* subscription.save().  A row that is gone is inserted again, unless its
\* center is gone too (the foreign key).
SavePlan(q) ==
  LET i == req[q].id
      p == req[q].plan IN
  /\ req[q].op = "plan"
  /\ sub' = IF Live(i) THEN [sub EXCEPT ![i] = SubWithPlan(@, p)] ELSE sub
  /\ req' = [req EXCEPT ![q] = IF Live(i) /\ p # "FREE"
                                 THEN [@ EXCEPT !.op = "activate"] ELSE Quiet]
  /\ UNCHANGED <<center, schema, stray, used, task, batch, faults, traffic>>

\* center.save(update_fields=['status', ..]), a transaction of its own.
ActivateCenter(q) ==
  LET i == req[q].id IN
  /\ req[q].op = "activate"
  /\ center' = IF Live(i) THEN [center EXCEPT ![i].status = "ACTIVE"] ELSE center
  /\ req' = [req EXCEPT ![q] = Quiet]
  /\ UNCHANGED <<sub, schema, stray, used, task, batch, faults, traffic>>

\* Only the sweep asks whether a period is over.  Periods last for months: one
\* that began while a sweep was running does not end before it.
PeriodEnds(i) ==
  /\ "sweep" \in traffic.kinds /\ \A d \in batch : d.id # i
  /\ sub[i] # None /\ ~sub[i].over
  /\ sub' = [sub EXCEPT ![i].over = TRUE]
  /\ UNCHANGED <<center, schema, stray, used, req, task, batch, faults, traffic>>

-----------------------------------------------------------------------------
(* The task run_tenant_migrations.                                         *)

\* retry() puts the task back, until it has been tried MaxRetries times more.
Retry(t, op) ==
  LET r == task[t] IN
  task' = [task EXCEPT ![t] =
             IF r.tries < MaxRetries
               THEN [r EXCEPT !.op = op, !.tries = r.tries + 1,
                              !.slug = IF op = "delete" THEN None ELSE r.slug]
               ELSE NoTask]

\* The tables are made in the first schema of the search path that exists, so
\* in public when the center's own is gone; then schema_ready looks for them.
Build(t) ==
  LET s == task[t].slug IN
  /\ task[t].op = "migrate"
  /\ IF schema[s] = None
       THEN stray' = TRUE /\ UNCHANGED schema
       ELSE schema' = [schema EXCEPT ![s].built = TRUE] /\ UNCHANGED stray
  /\ IF schema[s] # None /\ traffic.probe
       THEN task' = [task EXCEPT ![t].op = "mark"]
       ELSE Retry(t, "migrate")
  /\ UNCHANGED <<center, sub, used, req, batch, faults, traffic>>

\* is_ready is set on the row that has the schema name now.  The task comes
\* here only where the probe finds its table.
Mark(t) ==
  /\ task[t].op = "mark"
  /\ IF task[t].slug \in SlugsTaken
       THEN /\ center' = [i \in Ids |-> IF Live(i) /\ center[i].slug = task[t].slug
                                          THEN [center[i] EXCEPT !.ready = TRUE]
                                          ELSE center[i]]
            /\ task' = [task EXCEPT ![t] = NoTask]
       ELSE UNCHANGED center /\ Retry(t, "migrate")
  /\ UNCHANGED <<sub, schema, stray, used, req, batch, faults, traffic>>

-----------------------------------------------------------------------------
(* Deleting a center: DELETE queues the task hard_delete_center each time.  *)

RequestDelete(i, t) ==
  /\ MayBegin("delete") /\ Live(i)
  /\ Queue(t, "delete", i, None)
  /\ UNCHANGED <<center, sub, schema, stray, used, req, batch, faults, traffic>>

\* The task loads the row, and with it the name of the schema it will drop.
StartDelete(t) ==
  LET i == task[t].id IN
  /\ task[t].op = "delete"
  /\ task' = [task EXCEPT ![t] = IF Live(i)
                 THEN [@ EXCEPT !.op = "clean", !.slug = center[i].slug] ELSE NoTask]
  /\ UNCHANGED <<center, sub, schema, stray, used, req, batch, faults, traffic>>

\* The rows that refer to the center, by SQL.
Clean(t) ==
  /\ task[t].op = "clean"
  /\ sub' = [sub EXCEPT ![task[t].id] = None]
  /\ task' = [task EXCEPT ![t].op = "drop"]
  /\ UNCHANGED <<center, schema, stray, used, req, batch, faults, traffic>>

SchemasLeftAlone(s) == schema   \* fault: the schema is not dropped

\* DROP SCHEMA IF EXISTS name CASCADE.
WithoutSchema(s) == [schema EXCEPT ![s] = None]

Drop(t) ==
  /\ task[t].op = "drop"
  /\ schema' = WithoutSchema(task[t].slug)
  /\ task' = [task EXCEPT ![t].op = "erase"]
  /\ UNCHANGED <<center, sub, stray, used, req, batch, faults, traffic>>

\* Center.hard_delete drops the schema once more and deletes the row; the
\* foreign keys take what refers to it along.
Erase(t) ==
  LET i == task[t].id IN
  /\ task[t].op = "erase"
  /\ schema' = WithoutSchema(task[t].slug)
  /\ center' = [center EXCEPT ![i] = None]
  /\ sub' = [sub EXCEPT ![i] = None]
  /\ task' = [task EXCEPT ![t] = NoTask]
  /\ UNCHANGED <<stray, used, req, batch, faults, traffic>>

-----------------------------------------------------------------------------
(* The daily task check_and_suspend_expired_subscriptions.                 *)

IsDue(i) == sub[i] # None /\ sub[i].plan = "FREE" /\ sub[i].active /\ sub[i].over

\* One query reads the expired trials, with their centers.
SweepLoad ==
  /\ MayBegin("sweep") /\ batch = {}
  /\ \E i \in Ids : IsDue(i)
  /\ batch' = {[id |-> i, status |-> center[i].status] : i \in {j \in Ids : IsDue(j)}}
  /\ UNCHANGED <<center, sub, schema, stray, used, req, task, faults, traffic>>

SuspendFlagOnly(d) == center   \* fault: the status of the center stays

Suspended(d) ==
  IF d.status = "SUSPENDED" THEN center
  ELSE [center EXCEPT ![d.id].status = "SUSPENDED"]

\* One subscription, in one transaction: two columns are written, by key and
\* whatever the rows hold by now; where a row is gone nothing is.
SweepNext(d) ==
  /\ d \in batch
  /\ batch' = batch \ {d}
  /\ IF Live(d.id) /\ sub[d.id] # None
       THEN /\ sub' = [sub EXCEPT ![d.id].active = FALSE]
            /\ center' = Suspended(d)
       ELSE UNCHANGED <<sub, center>>
  /\ UNCHANGED <<schema, stray, used, req, task, faults, traffic>>

-----------------------------------------------------------------------------
(* Failures.                                                               *)

\* An exception in the migrations (a lock, a lost connection).
BuildFails(t) ==
  /\ Faulty /\ task[t].op = "migrate"
  /\ Retry(t, "migrate")
  /\ UNCHANGED <<center, sub, schema, stray, used, req, batch, traffic>>

\* An error of DROP SCHEMA is logged and passed over, in both places.
DropFails(t) ==
  /\ Faulty /\ task[t].op \in {"drop", "erase"}
  /\ IF task[t].op = "drop"
       THEN task' = [task EXCEPT ![t].op = "erase"] /\ UNCHANGED <<center, sub>>
       ELSE /\ task' = [task EXCEPT ![t] = NoTask]
            /\ center' = [center EXCEPT ![task[t].id] = None]
            /\ sub' = [sub EXCEPT ![task[t].id] = None]
  /\ UNCHANGED <<schema, stray, used, req, batch, traffic>>

\* An error of the DELETE of the row is retried, from the start of the task.
EraseFails(t) ==
  /\ Faulty /\ task[t].op = "erase"
  /\ schema' = WithoutSchema(task[t].slug)
  /\ Retry(t, "delete")
  /\ UNCHANGED <<center, sub, stray, used, req, batch, traffic>>

\* A database error while the admins are notified is caught, but the
\* transaction of this subscription is aborted and its COMMIT rolls back.
NotifyFails(d) ==
  /\ Faulty /\ d \in batch /\ d.status # "SUSPENDED"
  /\ batch' = batch \ {d}
  /\ UNCHANGED <<center, sub, schema, stray, used, req, task, traffic>>

\* A process is killed.  Tasks are acknowledged when they are taken, so the
\* one it ran is gone; so is one that could not be queued at all.
Crash ==
  /\ Faulty
  /\ \/ \E q \in Requests : req[q] # Quiet /\ req' = [req EXCEPT ![q] = Quiet]
                          /\ UNCHANGED <<task, batch>>
     \/ \E t \in Tasks : task[t] # NoTask /\ task' = [task EXCEPT ![t] = NoTask]
                        /\ UNCHANGED <<req, batch>>
     \/ batch # {} /\ batch' = {} /\ UNCHANGED <<req, task>>
  /\ UNCHANGED <<center, sub, schema, stray, used, traffic>>

-----------------------------------------------------------------------------
Init ==
  /\ center = [i \in Ids |-> None] /\ sub = [i \in Ids |-> None]
  /\ schema = [s \in Slugs |-> None] /\ stray = FALSE /\ used = {}
  /\ req = [q \in Requests |-> Quiet] /\ task = [t \in Tasks |-> NoTask]
  /\ batch = {} /\ faults = 0 /\ traffic \in Traffic

RequestStep(q) ==
  \/ \E i \in Ids, b \in Bases : BeginCreate(q, i, b)
  \/ \E i \in Ids, st \in Statuses : LoadPatch(q, i, st)
  \/ \E i \in Ids, p \in Plans : LoadPlan(q, i, p)
  \/ \E t \in Tasks : FinishCreate(q, t) \/ WritePatch(q, t)
  \/ SavePlan(q) \/ ActivateCenter(q)

TaskStep(t) ==
  \/ Build(t) \/ Mark(t)
  \/ StartDelete(t) \/ Clean(t) \/ Drop(t) \/ Erase(t)

SweepStep == \E d \in batch : SweepNext(d)

Failure ==
  \/ \E t \in Tasks : BuildFails(t) \/ DropFails(t) \/ EraseFails(t)
  \/ \E d \in batch : NotifyFails(d)
  \/ Crash

Next ==
  \/ \E q \in Requests : RequestStep(q)
  \/ \E i \in Ids, st \in {"ACTIVE", "SUSPENDED"} : SetStatus(i, st)
  \/ \E i \in Ids, t \in Tasks : RequestDelete(i, t)
  \/ \E i \in Ids : PeriodEnds(i)
  \/ \E t \in Tasks : TaskStep(t)
  \/ SweepLoad \/ SweepStep
  \/ Failure

Spec == Init /\ [][Next]_vars

\* The workers take what is queued, and beat starts the sweep every day.
Fairness == (\A t \in Tasks : WF_vars(TaskStep(t))) /\ WF_vars(SweepLoad \/ SweepStep)

FairSpec == Spec /\ Fairness

-----------------------------------------------------------------------------
(* Properties.                                                             *)

\* Every variable holds a value of its kind.
TypeOK ==
  /\ center \in [Ids -> Center \cup {None}] /\ sub \in [Ids -> Sub \cup {None}]
  /\ schema \in [Slugs -> Schema \cup {None}] /\ stray \in BOOLEAN
  /\ used \subseteq Ids
  /\ req \in [Requests -> Req] /\ task \in [Tasks -> Task]
  /\ batch \subseteq Due /\ faults \in 0..MaxFaults /\ traffic \in Traffic

\* Nobody is served from the data of another center: whatever requests,
\* tasks and sweeps overlap, as long as nothing fails, the schema that bears
\* the name of a live center was made for that center.  (A creation that finds
\* a schema under its name takes it over, IF NOT EXISTS.)
SchemasAreOwned ==
  faults = 0 =>
    \A i \in Ids : Live(i) /\ schema[center[i].slug] # None
                    => schema[center[i].slug].madeFor = i

\* Nothing is left half made or half deleted: once everything queued has run
\* without a failure, and no two deletions overlapped, a live center has its
\* subscription and its own migrated schema, is ready (if the probe knows the
\* tables and no stale copy was written over the flag), and no subscription or
\* schema is left of any other.
QuietCentersAreWhole ==
  AllQuiet /\ faults = 0 /\ "delete" \in traffic.alone =>
    /\ \A i \in Ids : (sub[i] # None) <=> Live(i)
    /\ \A s \in Slugs : (schema[s] # None) <=> (s \in SlugsTaken)
    /\ \A i \in Ids : Live(i) =>
         /\ schema[center[i].slug] = [madeFor |-> i, built |-> TRUE]
         /\ traffic.probe /\ "patch" \notin traffic.kinds => center[i].ready

\* Who pays is let in: a center on a paid plan is ACTIVE and its subscription
\* is on, when the requests and sweeps that touch it do not overlap, nothing
\* fails and nobody sets its status by hand.
PaidIsOpen ==
  /\ {"plan", "sweep"} \subseteq traffic.alone /\ faults = 0
  /\ {"patch", "status"} \cap traffic.kinds = {}
  /\ \A q \in Requests : req[q].op \notin {"plan", "activate"}
  => \A i \in Ids : Live(i) /\ sub[i] # None /\ sub[i].plan # "FREE"
                    => sub[i].active /\ center[i].status = "ACTIVE"

\* The same for requests and sweeps that do overlap.
PaidIsOpenAlways ==
  faults = 0 /\ AllQuiet /\ {"patch", "status"} \cap traffic.kinds = {} =>
    \A i \in Ids : Live(i) /\ sub[i] # None /\ sub[i].plan # "FREE"
                    => sub[i].active /\ center[i].status = "ACTIVE"

\* A trial does end: one that is over is sooner or later suspended, upgraded
\* or gone, though sweeps are killed and rolled back, unless somebody sets the
\* status of the center by hand.
TrialsEnd ==
  /\ "sweep" \notin traffic.alone /\ "plan" \in traffic.alone
  /\ {"patch", "status"} \cap traffic.kinds = {}
  =>
    \A i \in Ids :
      (sub[i] # None /\ sub[i].plan = "FREE" /\ sub[i].over)
        ~> (\/ sub[i] = None \/ sub[i].plan # "FREE"
            \/ ~sub[i].active /\ center[i].status = "SUSPENDED")

\* A new center is set up: as long as nothing fails and deletions do not
\* overlap, it becomes ready or is gone (swagger.py: "when done, `is_ready` is
\* set to true").  As deployed the probe looks for a table nobody makes, the
\* task gives up after its retries and the center stays closed.
SetUpCompletes ==
  "patch" \notin traffic.kinds /\ "delete" \in traffic.alone =>
    \A i \in Ids : (Live(i) /\ faults = 0) ~> (~Live(i) \/ center[i].ready \/ faults > 0)

-----------------------------------------------------------------------------
(* What a center promises its users: CenterLifecycle, with the rows and       *)
(* schemas of this module as its stages.                                   *)

Coming(i) == \E q \in Requests : req[q].op = "create" /\ req[q].id = i

Stage(i) ==
  CASE i \notin used \/ Coming(i) -> "none"
    [] Live(i) /\ ~center[i].ready -> "setup"
    [] Live(i) /\ center[i].ready  -> "ready"
    [] OTHER -> "gone"

Lifecycle == INSTANCE CenterLifecycle WITH Centers <- Ids, stage <- [i \in Ids |-> Stage(i)]

\* Where no copy of a row is older than a task's step, a center goes through
\* its stages one way: no deleted center returns, no ready one is set up again.
KeepsLifecycle ==
  [][("patch" \in traffic.kinds => "patch" \in traffic.alone /\ "delete" \in traffic.alone)
       => Lifecycle!Next \/ UNCHANGED Lifecycle!stages]_vars
=============================================================================
