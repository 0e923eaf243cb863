---------------------------- MODULE CentersProofs ----------------------------
(***************************************************************************)
(* Proofs about Centers, and about ContactRequests beside it.              *)
(***************************************************************************)
EXTENDS ContactRequests, TLAPS

USE BoundsAssumption, PlansAssumption, TrafficAssumption, NullAssumption

\* Requests that hold a row they are going to write, and what the tasks are for.
Holds(q)     == req[q].op \in {"create", "patch"}
Planning(q)  == req[q].op \in {"plan", "activate"}
SettingUp(t) == task[t].op \in {"migrate", "mark"}
Named(t)     == task[t].op \in {"clean", "drop", "erase"}   \* the row is loaded
Removing(t)  == task[t].op = "delete" \/ Named(t)

\* What requests and tasks have loaded fits what they are doing.
Shapes ==
  /\ \A q \in Requests :
       /\ Holds(q) => req[q].id \in Ids /\ req[q].copy \in Center
       /\ req[q].op = "create" => ~req[q].copy.ready
       /\ Planning(q) => req[q].id \in Ids
  /\ \A t \in Tasks :
       /\ SettingUp(t) => task[t].slug \in Slugs
       /\ Removing(t) => task[t].id \in Ids
       /\ Named(t) => task[t].slug \in Slugs

\* The foreign key of the subscriptions.
SubsHaveCenters == \A i \in Ids : sub[i] # None => Live(i)

Typed == TypeOK /\ Shapes /\ SubsHaveCenters

-----------------------------------------------------------------------------
(* Types.                                                                  *)

LEMMA IdleAreTyped == Quiet \in Req /\ NoTask \in Task /\ Trial \in Sub
  BY DEF Quiet, Req, NoTask, Task, Trial, Sub, Plans

\* The status of a center is written.
LEMMA StatusMove ==
  ASSUME Typed, NEW i \in Ids, Live(i), NEW st \in Statuses, center' = [center EXCEPT ![i].status = st]
  PROVE  /\ \A j \in Ids \ {i} : center'[j] = center[j]
         /\ center'[i] # None /\ center'[i].slug = center[i].slug /\ center'[i].ready = center[i].ready
         /\ center'[i].status = st
<1>1. center[i] \in Center
  BY DEF Live, Typed, TypeOK
<1>2. center'[i] = [center[i] EXCEPT !.status = st]
  BY DEF Typed, TypeOK
<1>3. \A j \in Ids \ {i} : center'[j] = center[j]
  BY DEF Typed, TypeOK
<1> DEFINE row == [center[i] EXCEPT !.status = st]
<1>4. row \in Center /\ row.slug = center[i].slug /\ row.ready = center[i].ready /\ row.status = st
  BY <1>1 DEF Center
<1> HIDE DEF row
<1>5. center'[i] = row
  BY <1>2 DEF row
<1> QED BY <1>3, <1>4, <1>5

\* A step of one request.
LEMMA ReqStep ==
  ASSUME Typed, NEW q \in Requests, NEW r \in Req, req' = [req EXCEPT ![q] = r]
  PROVE  \A p \in Requests : req'[p] = IF p = q THEN r ELSE req[p]
  BY DEF Typed, TypeOK

\* A step of one task.
LEMMA TaskMove ==
  ASSUME Typed, NEW t \in Tasks, NEW r \in Task, task' = [task EXCEPT ![t] = r]
  PROVE  \A u \in Tasks : task'[u] = IF u = t THEN r ELSE task[u]
  BY DEF Typed, TypeOK

\* What a new row with its trial, its schema and its task changes.
Inserted(i, row, t) ==
  /\ center' \in [Ids -> Center \cup {None}] /\ sub' \in [Ids -> Sub \cup {None}]
  /\ schema' \in [Slugs -> Schema \cup {None}] /\ task' \in [Tasks -> Task]
  /\ center'[i] = [row EXCEPT !.status = "TRIAL"] /\ sub'[i] = Trial
  /\ center'[i] \in Center /\ center'[i].slug = row.slug /\ center'[i].ready = row.ready
  /\ \A j \in Ids \ {i} : center'[j] = center[j] /\ sub'[j] = sub[j]
  /\ \A s \in Slugs : schema'[s] = IF s = row.slug /\ schema[s] = None
                                     THEN [madeFor |-> i, built |-> FALSE] ELSE schema[s]
  /\ task[t] = NoTask
  /\ \A u \in Tasks : task'[u] =
       IF u = t THEN [op |-> "migrate", id |-> None, slug |-> row.slug, tries |-> 0]
                ELSE task[u]

LEMMA InsertIsTyped ==
  ASSUME Typed, NEW i \in Ids, NEW row \in Center, NEW t \in Tasks, InsertCenter(i, row, t)
  PROVE  Inserted(i, row, t)
<1> DEFINE r == [op |-> "migrate", id |-> None, slug |-> row.slug, tries |-> 0]
<1>1. row.slug \in Slugs /\ [row EXCEPT !.status = "TRIAL"] \in Center
  BY DEF Center, Statuses
<1>2. r \in Task
  BY <1>1 DEF Task
<1>3. task' = [task EXCEPT ![t] = r] /\ task[t] = NoTask
  BY DEF InsertCenter, Queue
<1>4. [madeFor |-> i, built |-> FALSE] \in Schema
  BY DEF Schema
<1>5. schema' \in [Slugs -> Schema \cup {None}]
  BY <1>1, <1>4 DEF InsertCenter, WithSchema, Typed, TypeOK
<1>6. /\ center' \in [Ids -> Center \cup {None}] /\ sub' \in [Ids -> Sub \cup {None}]
      /\ center'[i] = [row EXCEPT !.status = "TRIAL"] /\ sub'[i] = Trial
      /\ \A j \in Ids \ {i} : center'[j] = center[j] /\ sub'[j] = sub[j]
  BY <1>1, IdleAreTyped DEF InsertCenter, Typed, TypeOK
<1>8. [row EXCEPT !.status = "TRIAL"].slug = row.slug /\ [row EXCEPT !.status = "TRIAL"].ready = row.ready
  BY DEF Center
<1>9. \A s \in Slugs : schema'[s] = IF s = row.slug /\ schema[s] = None
                                      THEN [madeFor |-> i, built |-> FALSE] ELSE schema[s]
  BY <1>1, <1>4 DEF InsertCenter, WithSchema, Typed, TypeOK
<1>7. task' \in [Tasks -> Task]
  BY <1>2, <1>3 DEF Typed, TypeOK
<1>10. \A u \in Tasks : task'[u] = IF u = t THEN r ELSE task[u]
  BY <1>2, <1>3, TaskMove
<1> QED BY <1>1, <1>3, <1>5, <1>6, <1>7, <1>8, <1>9, <1>10 DEF Inserted

\* A task is put back, or given up.
LEMMA Retried ==
  ASSUME Typed, NEW t \in Tasks, NEW op \in {"migrate", "delete"}, Retry(t, op)
  PROVE  /\ task' \in [Tasks -> Task]
         /\ \A u \in Tasks \ {t} : task'[u] = task[u]
         /\ task'[t] = NoTask \/ /\ task'[t].op = op /\ task'[t].id = task[t].id
                                 /\ op = "migrate" => task'[t].slug = task[t].slug
<1> DEFINE r == [task[t] EXCEPT !.op = op, !.tries = task[t].tries + 1,
                                !.slug = IF op = "delete" THEN None ELSE task[t].slug]
<1>1. task[t] \in Task
  BY DEF Typed, TypeOK
<1>2. CASE task[t].tries < MaxRetries
  <2>1. task[t].tries + 1 \in 0..MaxRetries
    BY <1>1, <1>2 DEF Task
  <2>2. r \in Task /\ r.op = op /\ r.id = task[t].id
        /\ (op = "migrate" => r.slug = task[t].slug)
    BY <1>1, <2>1 DEF Task
  <2>3. task' = [task EXCEPT ![t] = r]
    BY <1>2 DEF Retry
  <2> QED BY <2>2, <2>3, TaskMove DEF Typed, TypeOK
<1>3. CASE ~(task[t].tries < MaxRetries)
  <2>1. task' = [task EXCEPT ![t] = NoTask]
    BY <1>3 DEF Retry
  <2> QED BY <2>1, IdleAreTyped, TaskMove DEF Typed, TypeOK
<1> QED BY <1>2, <1>3

LEMMA BuildIsTyped ==
  ASSUME Typed, NEW t \in Tasks, Build(t)
  PROVE  Typed'
<1>1. task[t].slug \in Slugs /\ task[t] \in Task /\ task[t].op = "migrate"
  BY DEF Build, Typed, TypeOK, Shapes, SettingUp
<1>2. schema' \in [Slugs -> Schema \cup {None}] /\ stray' \in BOOLEAN
  <2> DEFINE s == task[t].slug
  <2>1. schema[s] # None => [schema[s] EXCEPT !.built = TRUE] \in Schema
    BY <1>1 DEF Typed, TypeOK, Schema
  <2>2. schema[s] # None => schema' = [schema EXCEPT ![s] = [schema[s] EXCEPT !.built = TRUE]]
    BY DEF Build
  <2>3. schema' \in [Slugs -> Schema \cup {None}]
    <3>1. CASE schema[s] = None
      <4>1. schema' = schema
        BY <3>1 DEF Build
      <4> QED BY <4>1 DEF Typed, TypeOK
    <3>2. CASE schema[s] # None
      <4> HIDE DEF s
      <4> QED BY <2>1, <2>2, <3>2 DEF Typed, TypeOK
    <3> QED BY <3>1, <3>2
  <2>4. stray' = TRUE \/ stray' = stray
    BY DEF Build
  <2> QED BY <2>3, <2>4 DEF Typed, TypeOK
<1>3. /\ task' \in [Tasks -> Task] /\ \A u \in Tasks \ {t} : task'[u] = task[u]
      /\ \/ task'[t] = NoTask
         \/ task'[t].op \in {"migrate", "mark"} /\ task'[t].slug = task[t].slug
  <2>1. CASE schema[task[t].slug] # None /\ traffic.probe
    <3>1. task' = [task EXCEPT ![t] = [task[t] EXCEPT !.op = "mark"]]
      BY <2>1 DEF Build, Typed, TypeOK
    <3>2. [task[t] EXCEPT !.op = "mark"] \in Task
      BY <1>1 DEF Task
    <3> QED BY <1>1, <3>1, <3>2, TaskMove DEF Typed, TypeOK, Task
  <2>2. CASE ~(schema[task[t].slug] # None /\ traffic.probe)
    BY <2>2, Retried DEF Build
  <2> QED BY <2>1, <2>2
<1>4. Shapes'
  BY <1>1, <1>3 DEF Build, Typed, Shapes, Holds, Planning, SettingUp, Named, Removing, NoTask
<1>5. SubsHaveCenters'
  BY DEF Build, Typed, SubsHaveCenters, Live
<1> QED BY <1>2, <1>3, <1>4, <1>5 DEF Build, Typed, TypeOK

LEMMA MarkIsTyped ==
  ASSUME Typed, NEW t \in Tasks, Mark(t)
  PROVE  /\ Typed'
         /\ \A i \in Ids : ~Live(i) => center'[i] = None
         /\ \A i \in Ids : Live(i) =>
              /\ center'[i] # None /\ center'[i].slug = center[i].slug
              /\ center'[i].status = center[i].status
              /\ center'[i].ready <=> center[i].ready \/ center[i].slug = task[t].slug
<1>1. task[t].slug \in Slugs /\ task[t] \in Task /\ task[t].op = "mark"
  BY DEF Mark, Typed, TypeOK, Shapes, SettingUp
<1>2. \A i \in Ids : center'[i] = IF Live(i) /\ center[i].slug = task[t].slug
                                    THEN [center[i] EXCEPT !.ready = TRUE] ELSE center[i]
  BY DEF Mark, SlugsTaken
<1>3. \A i \in Ids : Live(i) => [center[i] EXCEPT !.ready = TRUE] \in Center
  <2> SUFFICES ASSUME NEW i \in Ids, Live(i) PROVE [center[i] EXCEPT !.ready = TRUE] \in Center
    OBVIOUS
  <2>1. center[i] \in Center
    BY DEF Typed, TypeOK, Live
  <2> QED BY <2>1 DEF Center
<1>4. center' \in [Ids -> Center \cup {None}]
  BY <1>3 DEF Mark, Typed, TypeOK
<1>5. /\ task' \in [Tasks -> Task] /\ \A u \in Tasks \ {t} : task'[u] = task[u]
      /\ \/ task'[t] = NoTask
         \/ task'[t].op \in {"migrate", "mark"} /\ task'[t].slug = task[t].slug
  BY Retried, IdleAreTyped DEF Mark, Typed, TypeOK
<1>6. \A i \in Ids : center'[i] # None <=> center[i] # None
  BY <1>2, <1>3, <1>4 DEF Live
<1>7. Shapes'
  BY <1>1, <1>5 DEF Mark, Typed, Shapes, Holds, Planning, SettingUp, Named, Removing, NoTask
<1>8. SubsHaveCenters'
  BY <1>6 DEF Mark, Typed, SubsHaveCenters, Live
<1>9. ASSUME NEW i \in Ids, Live(i)
      PROVE  /\ center'[i] # None /\ center'[i].slug = center[i].slug
             /\ center'[i].status = center[i].status
             /\ center'[i].ready <=> center[i].ready \/ center[i].slug = task[t].slug
  <2>1. center[i] \in Center
    BY <1>9 DEF Typed, TypeOK, Live
  <2>2. CASE center[i].slug = task[t].slug
    <3>1. center'[i] = [center[i] EXCEPT !.ready = TRUE]
      BY <1>2, <1>9, <2>2
    <3> QED BY <1>6, <1>9, <2>1, <2>2, <3>1 DEF Center, Live
  <2>3. CASE center[i].slug # task[t].slug
    BY <1>2, <1>9, <2>3 DEF Live
  <2> QED BY <2>2, <2>3
<1> QED BY <1>2, <1>4, <1>5, <1>7, <1>8, <1>9 DEF Mark, Typed, TypeOK, Live

LEMMA BeginCreateIsTyped ==
  ASSUME Typed, NEW q \in Requests, NEW i \in Ids, NEW b \in Bases, BeginCreate(q, i, b)
  PROVE  Typed' /\ req'[q].op = "create" /\ req'[q].id = i /\ req'[q].copy.slug \notin SlugsTaken
<1>1. PICK s \in Slugs : /\ IsFirstFree(b, s)
                         /\ req' = [req EXCEPT ![q] = [Quiet EXCEPT !.op = "create", !.id = i,
                              !.copy = [slug |-> s, ready |-> FALSE, status |-> "TRIAL"]]]
  BY DEF BeginCreate
<1> DEFINE row == [slug |-> s, ready |-> FALSE, status |-> "TRIAL"]
           r == [Quiet EXCEPT !.op = "create", !.id = i, !.copy = row]
<1>2. row \in Center /\ ~row.ready /\ s \notin SlugsTaken
  BY <1>1 DEF Center, Statuses, IsFirstFree
<1>3. r \in Req /\ r.op = "create" /\ r.id = i /\ r.copy = row
  BY <1>2 DEF Quiet, Req, Plans
<1>4. req' = [req EXCEPT ![q] = r]
  BY <1>1
<1> HIDE DEF r
<1>5. req' \in [Requests -> Req]
  BY <1>3, <1>4 DEF Typed, TypeOK
<1>6. \A p \in Requests : req'[p] = IF p = q THEN r ELSE req[p]
  BY <1>3, <1>4, ReqStep
<1>7. Shapes'
  BY <1>2, <1>3, <1>6 DEF BeginCreate, Typed, Shapes, Holds, Planning, SettingUp, Named, Removing
<1>8. req'[q] = r
  BY <1>6
<1>9. UNCHANGED <<center, sub, schema, stray, task, batch, faults, traffic>> /\ used' \subseteq Ids
  BY DEF BeginCreate, Typed, TypeOK
<1>10. Typed'
  BY <1>5, <1>7, <1>9 DEF Typed, TypeOK, SubsHaveCenters, Live
<1> QED BY <1>2, <1>3, <1>8, <1>10

LEMMA LoadPatchIsTyped ==
  ASSUME Typed, NEW q \in Requests, NEW i \in Ids, NEW st \in Statuses, LoadPatch(q, i, st)
  PROVE  /\ Typed' /\ req'[q].op = "patch" /\ req'[q].id = i
         /\ req'[q].copy.slug = center[i].slug /\ req'[q].copy.ready = center[i].ready
<1> DEFINE row == [center[i] EXCEPT !.status = st]
           r == [Quiet EXCEPT !.op = "patch", !.id = i, !.copy = row]
<1>1. center[i] \in Center
  BY DEF LoadPatch, Live, Typed, TypeOK
<1>2. row \in Center /\ row.slug = center[i].slug /\ row.ready = center[i].ready
  BY <1>1 DEF Center
<1> HIDE DEF row
<1>3. r \in Req /\ r.op = "patch" /\ r.id = i /\ r.copy = row
  BY <1>2 DEF Quiet, Req, Plans
<1>4. req' = [req EXCEPT ![q] = r]
  BY DEF LoadPatch, row
<1> HIDE DEF r
<1>5. req' \in [Requests -> Req]
  BY <1>3, <1>4 DEF Typed, TypeOK
<1>6. \A p \in Requests : req'[p] = IF p = q THEN r ELSE req[p]
  BY <1>3, <1>4, ReqStep
<1>7. Shapes'
  BY <1>2, <1>3, <1>6 DEF LoadPatch, Typed, Shapes, Holds, Planning, SettingUp, Named, Removing
<1> QED BY <1>2, <1>3, <1>5, <1>6, <1>7 DEF LoadPatch, Typed, TypeOK, SubsHaveCenters, Live

\* A row is inserted, or the request ends without one.
LEMMA InsertKeepsTyped ==
  ASSUME Typed, NEW q \in Requests, NEW t \in Tasks, Holds(q),
         InsertCenter(req[q].id, req[q].copy, t), req' = [req EXCEPT ![q] = Quiet],
         UNCHANGED <<stray, used, batch, faults, traffic>>
  PROVE  Typed' /\ Inserted(req[q].id, req[q].copy, t)
<1>1. req[q].id \in Ids /\ req[q].copy \in Center /\ req[q].copy.slug \in Slugs
      /\ [req[q].copy EXCEPT !.status = "TRIAL"] \in Center
  BY DEF Typed, Shapes, Center, Statuses
<1>0. Inserted(req[q].id, req[q].copy, t)
  BY <1>1, InsertIsTyped
<1>2. \A p \in Requests : req'[p] = IF p = q THEN Quiet ELSE req[p]
  BY ReqStep, IdleAreTyped
<1>3. Shapes'
  BY <1>0, <1>1, <1>2 DEF Inserted, Typed, Shapes, Holds, Planning, SettingUp, Named, Removing, Quiet
<1>4. SubsHaveCenters'
  BY <1>0, <1>1 DEF Inserted, Typed, SubsHaveCenters, Live
<1> QED BY <1>0, <1>1, <1>3, <1>4, IdleAreTyped DEF Inserted, Typed, TypeOK

LEMMA EndKeepsTyped ==
  ASSUME Typed, NEW q \in Requests, req' = [req EXCEPT ![q] = Quiet],
         center' \in [Ids -> Center \cup {None}],
         \A i \in Ids : center'[i] # None <=> center[i] # None,
         UNCHANGED <<sub, schema, stray, used, task, batch, faults, traffic>>
  PROVE  Typed'
  BY ReqStep, IdleAreTyped
     DEF Typed, TypeOK, Shapes, SubsHaveCenters, Holds, Planning, SettingUp, Named, Removing, Live, Quiet

LEMMA FinishCreateIsTyped ==
  ASSUME Typed, NEW q \in Requests, NEW t \in Tasks, FinishCreate(q, t)
  PROVE  Typed'
<1>1. CASE SlugFree(req[q].id, req[q].copy.slug)
  BY <1>1, InsertKeepsTyped DEF FinishCreate, Holds
<1>2. CASE ~SlugFree(req[q].id, req[q].copy.slug)
  BY <1>2, EndKeepsTyped DEF FinishCreate, Typed, TypeOK
<1> QED BY <1>1, <1>2

LEMMA WritePatchIsTyped ==
  ASSUME Typed, NEW q \in Requests, NEW t \in Tasks, WritePatch(q, t)
  PROVE  Typed'
<1>1. CASE ~Live(req[q].id) /\ SlugFree(req[q].id, req[q].copy.slug)
  BY <1>1, InsertKeepsTyped DEF WritePatch, Holds
<1>2. CASE ~Live(req[q].id) /\ ~SlugFree(req[q].id, req[q].copy.slug)
  BY <1>2, EndKeepsTyped DEF WritePatch, Typed, TypeOK
<1>3. CASE Live(req[q].id)
  <2>1. req[q].id \in Ids /\ req[q].copy \in Center
    BY DEF WritePatch, Typed, Shapes, Holds
  <2>2. center' = [center EXCEPT ![req[q].id] = req[q].copy]
    BY <1>3 DEF WritePatch, PatchedRow
  <2>3. center' \in [Ids -> Center \cup {None}] /\ \A i \in Ids : center'[i] # None <=> center[i] # None
    BY <1>3, <2>1, <2>2 DEF Typed, TypeOK, Live
  <2> QED BY <1>3, <2>3, EndKeepsTyped DEF WritePatch
<1> QED BY <1>1, <1>2, <1>3

LEMMA SweepNextIsTyped ==
  ASSUME Typed, NEW d \in batch, SweepNext(d)
  PROVE  /\ Typed' /\ d.id \in Ids
         /\ \A i \in Ids \ {d.id} : center'[i] = center[i] /\ sub'[i] = sub[i]
         /\ center'[d.id] # None => /\ center'[d.id].slug = center[d.id].slug
                                    /\ center'[d.id].ready = center[d.id].ready
         /\ \A i \in Ids : center'[i] # None <=> center[i] # None
         /\ \A i \in Ids : sub'[i] # None <=> sub[i] # None
<1>1. d.id \in Ids /\ d.status \in Statuses
  BY DEF Typed, TypeOK, Due
<1>2. CASE Live(d.id) /\ sub[d.id] # None
  <2> DEFINE row == [center[d.id] EXCEPT !.status = "SUSPENDED"]
             sb  == [sub[d.id] EXCEPT !.active = FALSE]
  <2>1. center[d.id] \in Center /\ sub[d.id] \in Sub
    BY <1>1, <1>2 DEF Live, Typed, TypeOK
  <2>2. row \in Center /\ row.slug = center[d.id].slug /\ row.ready = center[d.id].ready
        /\ sb \in Sub
    BY <2>1 DEF Center, Statuses, Sub
  <2>3. sub' = [sub EXCEPT ![d.id] = sb]
        /\ (center' = center \/ center' = [center EXCEPT ![d.id] = row])
    BY <1>2 DEF SweepNext, Suspended
  <2> HIDE DEF row, sb
  <2>4. sub' \in [Ids -> Sub \cup {None}] /\ center' \in [Ids -> Center \cup {None}]
        /\ sub'[d.id] = sb /\ center'[d.id] \in {center[d.id], row}
        /\ \A i \in Ids \ {d.id} : center'[i] = center[i] /\ sub'[i] = sub[i]
    BY <1>1, <2>1, <2>2, <2>3 DEF Typed, TypeOK
  <2>5. \A i \in Ids : (center'[i] # None <=> center[i] # None) /\ (sub'[i] # None <=> sub[i] # None)
    BY <1>1, <1>2, <2>1, <2>2, <2>4 DEF Live
  <2>6. Shapes' /\ SubsHaveCenters'
    BY <2>5 DEF SweepNext, Typed, Shapes, SubsHaveCenters, Live, Holds, Planning, SettingUp, Named, Removing
  <2> QED BY <1>1, <2>2, <2>4, <2>5, <2>6 DEF SweepNext, Typed, TypeOK
<1>3. CASE ~(Live(d.id) /\ sub[d.id] # None)
  <2>1. UNCHANGED <<center, sub>>
    BY <1>3 DEF SweepNext
  <2> QED BY <1>1, <2>1 DEF SweepNext, Typed, TypeOK, Shapes, SubsHaveCenters, Live, Holds, Planning,
                           SettingUp, Named, Removing
<1> QED BY <1>2, <1>3

\* A task that failed is put back, or given up.
LEMMA RetryKeepsTyped ==
  ASSUME Typed, NEW t \in Tasks, NEW op \in {"migrate", "delete"}, Retry(t, op),
         op = "migrate" => SettingUp(t), op = "delete" => Removing(t),
         schema' \in [Slugs -> Schema \cup {None}], faults' \in 0..MaxFaults,
         UNCHANGED <<center, sub, stray, used, req, batch, traffic>>
  PROVE  Typed'
<1>1. \A u \in Tasks \ {t} : task'[u] = task[u]
  BY Retried
<1>2. task' \in [Tasks -> Task] /\ SubsHaveCenters'
  BY Retried DEF Typed, SubsHaveCenters, Live
<1>3. CASE task'[t] = NoTask
  BY <1>1, <1>2, <1>3 DEF Typed, TypeOK, Shapes, Holds, Planning, SettingUp, Named, Removing, NoTask
<1>4. CASE /\ task'[t].op = op /\ task'[t].id = task[t].id
           /\ op = "migrate" => task'[t].slug = task[t].slug
  BY <1>1, <1>2, <1>4 DEF Typed, TypeOK, Shapes, Holds, Planning, SettingUp, Named, Removing
<1> QED BY <1>3, <1>4, Retried

LEMMA FaultIsCounted ==
  ASSUME Typed, Faulty
  PROVE  faults' \in 0..MaxFaults /\ faults' # 0
<1>1. traffic.faults \in 0..MaxFaults
  BY DEF Typed, TypeOK
<1> QED BY <1>1 DEF Faulty, Typed, TypeOK

\* Every step leaves the variables with values of their kinds.
LEMMA TypedKept == Typed /\ [Next]_vars => Typed'
<1> SUFFICES ASSUME Typed, [Next]_vars PROVE Typed'
  OBVIOUS
<1> USE DEF Holds, Planning, SettingUp, Named, Removing, Live
<1>1. ASSUME NEW q \in Requests, RequestStep(q) PROVE Typed'
  <2>1. ASSUME NEW i \in Ids, NEW p \in Plans, LoadPlan(q, i, p) PROVE Typed'
    BY <2>1, IdleAreTyped DEF Typed, TypeOK, Shapes, SubsHaveCenters, LoadPlan, Quiet, Req
  <2>2. ASSUME SavePlan(q) PROVE Typed'
    BY <2>2, IdleAreTyped
       DEF Typed, TypeOK, Shapes, SubsHaveCenters, SavePlan, SubWithPlan, Sub, Req, Quiet
  <2>3. ASSUME ActivateCenter(q) PROVE Typed'
    BY <2>3, IdleAreTyped
       DEF Typed, TypeOK, Shapes, SubsHaveCenters, ActivateCenter, Center, Statuses, Quiet
  <2> QED BY <1>1, <2>1, <2>2, <2>3, BeginCreateIsTyped, LoadPatchIsTyped, FinishCreateIsTyped,
             WritePatchIsTyped DEF RequestStep
<1>2. ASSUME NEW i \in Ids, NEW st \in {"ACTIVE", "SUSPENDED"}, SetStatus(i, st) PROVE Typed'
  BY <1>2 DEF Typed, TypeOK, Shapes, SubsHaveCenters, SetStatus, Center, Statuses
<1>3. ASSUME NEW i \in Ids, NEW t \in Tasks, RequestDelete(i, t) PROVE Typed'
  BY <1>3, IdleAreTyped DEF Typed, TypeOK, Shapes, SubsHaveCenters, RequestDelete, Queue, Task
<1>4. ASSUME NEW i \in Ids, PeriodEnds(i) PROVE Typed'
  BY <1>4 DEF Typed, TypeOK, Shapes, SubsHaveCenters, PeriodEnds, Sub
<1>5. ASSUME NEW t \in Tasks, TaskStep(t) PROVE Typed'
  <2>1. ASSUME StartDelete(t) PROVE Typed'
    BY <2>1, IdleAreTyped
       DEF Typed, TypeOK, Shapes, SubsHaveCenters, StartDelete, Center, Task, NoTask
  <2>2. ASSUME Clean(t) PROVE Typed'
    BY <2>2 DEF Typed, TypeOK, Shapes, SubsHaveCenters, Clean, Task
  <2>3. ASSUME Drop(t) PROVE Typed'
    BY <2>3 DEF Typed, TypeOK, Shapes, SubsHaveCenters, Drop, WithoutSchema, Task
  <2>4. ASSUME Erase(t) PROVE Typed'
    BY <2>4, IdleAreTyped
       DEF Typed, TypeOK, Shapes, SubsHaveCenters, Erase, WithoutSchema, NoTask
  <2> QED BY <1>5, <2>1, <2>2, <2>3, <2>4, BuildIsTyped, MarkIsTyped DEF TaskStep
<1>6. ASSUME SweepLoad PROVE Typed'
  BY <1>6 DEF Typed, TypeOK, Shapes, SubsHaveCenters, SweepLoad, IsDue, Due, Center
<1>7. ASSUME Failure PROVE Typed'
  <2>1. ASSUME NEW t \in Tasks, BuildFails(t) PROVE Typed'
    BY <2>1, FaultIsCounted, RetryKeepsTyped DEF BuildFails, Typed, TypeOK
  <2>2. ASSUME NEW t \in Tasks, DropFails(t) PROVE Typed'
    <3>1. faults' \in 0..MaxFaults
      BY <2>2, FaultIsCounted DEF DropFails
    <3>2. CASE task[t].op = "drop"
      BY <2>2, <3>1, <3>2 DEF Typed, TypeOK, Shapes, SubsHaveCenters, DropFails, Task
    <3>3. CASE task[t].op = "erase"
      BY <2>2, <3>1, <3>3, IdleAreTyped
         DEF Typed, TypeOK, Shapes, SubsHaveCenters, DropFails, NoTask
    <3> QED BY <2>2, <3>2, <3>3 DEF DropFails
  <2>3. ASSUME NEW t \in Tasks, EraseFails(t) PROVE Typed'
    <3>1. schema' \in [Slugs -> Schema \cup {None}] /\ Removing(t)
      BY <2>3 DEF EraseFails, WithoutSchema, Typed, TypeOK
    <3> QED BY <2>3, <3>1, FaultIsCounted, RetryKeepsTyped DEF EraseFails
  <2>4. ASSUME NEW d \in batch, NotifyFails(d) PROVE Typed'
    BY <2>4, FaultIsCounted DEF Typed, TypeOK, Shapes, SubsHaveCenters, NotifyFails
  <2>5. ASSUME Crash PROVE Typed'
    BY <2>5, IdleAreTyped, FaultIsCounted
       DEF Typed, TypeOK, Shapes, SubsHaveCenters, Crash, Quiet, NoTask
  <2> QED BY <1>7, <2>1, <2>2, <2>3, <2>4, <2>5 DEF Failure
<1>8. ASSUME UNCHANGED vars PROVE Typed'
  BY <1>8 DEF Typed, TypeOK, Shapes, SubsHaveCenters, vars
<1> QED BY <1>1, <1>2, <1>3, <1>4, <1>5, <1>6, <1>7, <1>8, SweepNextIsTyped DEF Next, SweepStep

LEMMA TypedAtStart == Init => Typed
<1> SUFFICES ASSUME Init PROVE Typed
  OBVIOUS
<1>1. TypeOK
  <2>1. /\ center \in [Ids -> Center \cup {None}] /\ sub \in [Ids -> Sub \cup {None}]
        /\ schema \in [Slugs -> Schema \cup {None}]
    BY DEF Init
  <2>2. req \in [Requests -> Req] /\ task \in [Tasks -> Task]
    BY IdleAreTyped DEF Init
  <2>3. faults \in 0..MaxFaults
    BY DEF Init
  <2> QED BY <2>1, <2>2, <2>3 DEF Init, TypeOK
<1>2. \A q \in Requests : req[q].op = "idle"
  BY DEF Init, Quiet
<1>3. \A t \in Tasks : task[t].op = "idle"
  BY DEF Init, NoTask
<1>4. SubsHaveCenters
  BY DEF Init, SubsHaveCenters
<1> QED BY <1>1, <1>2, <1>3, <1>4 DEF Typed, Shapes, Holds, Planning, SettingUp, Named, Removing

\* The requests for contact change nothing of the centers.
LEMMA DeskStepsAreStutters == [AppNext]_<<vars, desk>> => [Next]_vars
  BY DEF AppNext, vars

\* Whatever requests, tasks, sweeps and failures follow each other, every
\* variable of the centers holds a value of its kind.
THEOREM TypeCorrect == AppSpec => []Typed
<1>1. AppInit => Typed
  BY TypedAtStart DEF AppInit
<1>2. Typed /\ [AppNext]_<<vars, desk>> => Typed'
  BY TypedKept, DeskStepsAreStutters
<1> QED BY <1>1, <1>2, PTL DEF AppSpec

-----------------------------------------------------------------------------
(* Names.                                                                  *)

\* Slug s is the name of center i: in its row, in the row a request is going
\* to write, or in a task that removes it.
Bears(i, s) ==
  \/ Live(i) /\ center[i].slug = s
  \/ \E q \in Requests : Holds(q) /\ req[q].id = i /\ req[q].copy.slug = s
  \/ \E t \in Tasks : Named(t) /\ task[t].id = i /\ task[t].slug = s

\* A center never changes its name, and no two centers share one.
OneName     == \A i \in Ids, r, s \in Slugs : Bears(i, r) /\ Bears(i, s) => r = s
NamesAreOwn == \A i, j \in Ids : Live(i) /\ Live(j) /\ center[i].slug = center[j].slug => i = j

\* A key that a request is going to use for a new row is its own.
UsedKeys == \A i \in Ids, s \in Slugs : Bears(i, s) => i \in used
NewKeys ==
  \A q \in Requests : req[q].op = "create" =>
    /\ ~Live(req[q].id)
    /\ \A p \in Requests \ {q} : Holds(p) => req[p].id # req[q].id

Names == Typed /\ OneName /\ NamesAreOwn /\ UsedKeys /\ NewKeys

\* As long as nothing fails, a schema bears the name of the center it was made for.
Owners ==
  faults = 0 => \A s \in Slugs : schema[s] # None =>
    Live(schema[s].madeFor) /\ center[schema[s].madeFor].slug = s

\* A step that gives no center a name it did not bear.
SameNames ==
  /\ used' = used
  /\ \A i \in Ids : center'[i] # None => Live(i) /\ center'[i].slug = center[i].slug
  /\ \A q \in Requests : req'[q].op \in {"create", "patch"} =>
       \/ /\ req'[q].op = req[q].op /\ req'[q].id = req[q].id
          /\ req'[q].copy.slug = req[q].copy.slug
       \/ /\ req'[q].op = "patch" /\ Live(req'[q].id)
          /\ req'[q].copy.slug = center[req'[q].id].slug
  /\ \A t \in Tasks : task'[t].op \in {"clean", "drop", "erase"} =>
       \/ Named(t) /\ task'[t].id = task[t].id /\ task'[t].slug = task[t].slug
       \/ Live(task'[t].id) /\ task'[t].slug = center[task'[t].id].slug

LEMMA SameNamesAreKept ==
  ASSUME Names, Typed', SameNames
  PROVE  Names'
<1>1. \A i \in Ids, s \in Slugs : Bears(i, s)' => Bears(i, s)
  <2> SUFFICES ASSUME NEW i \in Ids, NEW s \in Slugs, Bears(i, s)' PROVE Bears(i, s)
    OBVIOUS
  <2>1. CASE (Live(i) /\ center[i].slug = s)'
    BY <2>1 DEF SameNames, Bears, Live
  <2>2. CASE (\E q \in Requests : Holds(q) /\ req[q].id = i /\ req[q].copy.slug = s)'
    BY <2>2 DEF SameNames, Bears, Holds
  <2>3. CASE (\E t \in Tasks : Named(t) /\ task[t].id = i /\ task[t].slug = s)'
    BY <2>3 DEF SameNames, Bears, Named
  <2> QED BY <2>1, <2>2, <2>3 DEF Bears
<1>2. OneName' /\ UsedKeys'
  BY <1>1 DEF Names, OneName, UsedKeys, SameNames
<1>3. NamesAreOwn'
  BY DEF Names, NamesAreOwn, SameNames, Live
<1>4. NewKeys'
  <2> SUFFICES ASSUME NEW q \in Requests, req'[q].op = "create"
               PROVE  /\ ~Live(req[q].id)'
                      /\ \A p \in Requests \ {q} : req'[p].op \in {"create", "patch"} => req'[p].id # req'[q].id
    BY DEF NewKeys, Holds
  <2>1. req[q].op = "create" /\ req'[q].id = req[q].id /\ req[q].id \in Ids
    BY DEF SameNames, Names, Typed, Shapes, Holds
  <2>2. ~Live(req[q].id) /\ \A p \in Requests \ {q} : Holds(p) => req[p].id # req[q].id
    BY <2>1 DEF Names, NewKeys
  <2> QED BY <2>1, <2>2 DEF SameNames, Live, Holds
<1> QED BY <1>2, <1>3, <1>4 DEF Names

LEMMA NewNameIsOwn ==
  ASSUME Names, NEW q \in Requests, NEW i \in Ids, NEW b \in Bases, BeginCreate(q, i, b)
  PROVE  Names'
<1>1. Typed /\ Typed' /\ i \notin used /\ req'[q].op = "create" /\ req'[q].id = i
  BY BeginCreateIsTyped DEF Names, BeginCreate
<1>2. UNCHANGED <<center, task>> /\ used' = used \cup {i} /\ \A p \in Requests \ {q} : req'[p] = req[p]
  BY <1>1 DEF BeginCreate, Typed, TypeOK
<1>3. \A j \in Ids, s \in Slugs : Bears(j, s)' => Bears(j, s) \/ (j = i /\ req'[q].copy.slug = s)
  BY <1>1, <1>2 DEF Bears, Live, Holds, Named
<1>4. \A s \in Slugs : ~Bears(i, s)
  BY <1>1 DEF Names, UsedKeys
<1>5. OneName' /\ UsedKeys'
  BY <1>2, <1>3, <1>4 DEF Names, OneName, UsedKeys
<1>6. NamesAreOwn'
  BY <1>2 DEF Names, NamesAreOwn, Live
<1>7. \A p \in Requests \ {q} : Holds(p) => req[p].id # i
  <2> SUFFICES ASSUME NEW p \in Requests \ {q}, Holds(p), req[p].id = i PROVE FALSE
    OBVIOUS
  <2>1. req[p].copy.slug \in Slugs
    BY DEF Names, Typed, Shapes, Center
  <2> QED BY <2>1, <1>4 DEF Bears
<1>8. ~Live(i)
  <2> SUFFICES ASSUME Live(i) PROVE FALSE
    OBVIOUS
  <2>1. center[i].slug \in Slugs
    BY DEF Names, Typed, TypeOK, Center, Live
  <2> QED BY <2>1, <1>4 DEF Bears
<1>9. NewKeys'
  BY <1>1, <1>2, <1>7, <1>8 DEF Names, NewKeys, Holds, Live
<1> QED BY <1>1, <1>5, <1>6, <1>9 DEF Names

\* The row that is inserted bears the name its center had, and no other.
LEMMA InsertedNames ==
  ASSUME Names, Typed', NEW q \in Requests, NEW t \in Tasks, Holds(q),
         SlugFree(req[q].id, req[q].copy.slug), Inserted(req[q].id, req[q].copy, t),
         req' = [req EXCEPT ![q] = Quiet], UNCHANGED used
  PROVE  Names'
<1> DEFINE i == req[q].id
           row == req[q].copy
<1>1. Typed /\ i \in Ids /\ row \in Center /\ row.slug \in Slugs
  BY DEF Names, Typed, Shapes, Center
<1>2. \A p \in Requests : req'[p] = IF p = q THEN Quiet ELSE req[p]
  BY <1>1, ReqStep, IdleAreTyped
<1>3. center'[i].slug = row.slug /\ \A j \in Ids \ {i} : center'[j] = center[j]
  BY DEF Inserted
<1>4. \A u \in Tasks : task'[u].op = "migrate" \/ task'[u] = task[u]
  BY DEF Inserted
<1>5. Bears(i, row.slug)
  BY DEF Bears
<1>6. \A j \in Ids, s \in Slugs : Bears(j, s)' => Bears(j, s)
  <2> SUFFICES ASSUME NEW j \in Ids, NEW s \in Slugs, Bears(j, s)' PROVE Bears(j, s)
    OBVIOUS
  <2>1. CASE (Live(j) /\ center[j].slug = s)'
    BY <1>3, <1>5, <2>1 DEF Bears, Live
  <2>2. CASE (\E p \in Requests : Holds(p) /\ req[p].id = j /\ req[p].copy.slug = s)'
    BY <1>2, <2>2 DEF Bears, Holds, Quiet
  <2>3. CASE (\E u \in Tasks : Named(u) /\ task[u].id = j /\ task[u].slug = s)'
    BY <1>4, <2>3 DEF Bears, Named
  <2> QED BY <2>1, <2>2, <2>3 DEF Bears
<1>7. OneName' /\ UsedKeys'
  BY <1>6 DEF Names, OneName, UsedKeys
<1>8. NamesAreOwn'
  <2>1. \A j \in Ids \ {i} : Live(j) => center[j].slug # row.slug
    BY DEF SlugFree
  <2> QED BY <1>1, <1>3, <2>1 DEF Names, NamesAreOwn, Live
<1>9. NewKeys'
  <2> SUFFICES ASSUME NEW p \in Requests, req'[p].op = "create"
               PROVE  /\ ~Live(req[p].id)'
                      /\ \A r \in Requests \ {p} : req'[r].op \in {"create", "patch"} => req'[r].id # req'[p].id
    BY DEF NewKeys, Holds
  <2>1. p # q /\ req'[p] = req[p]
    BY <1>2 DEF Quiet
  <2>2. /\ ~Live(req[p].id) /\ req[p].id # i /\ req[p].id \in Ids
        /\ \A r \in Requests \ {p} : Holds(r) => req[r].id # req[p].id
    BY <2>1 DEF Names, NewKeys, Typed, Shapes, Holds
  <2> QED BY <1>2, <1>3, <2>1, <2>2 DEF Live, Holds, Quiet
<1> QED BY <1>7, <1>8, <1>9 DEF Names

LEMMA NamesKept == Names /\ [Next]_vars => Names'
<1> SUFFICES ASSUME Names, [Next]_vars PROVE Names'
  OBVIOUS
<1> USE DEF Live, Holds, Named
<1>1. Typed /\ Typed'
  BY TypedKept DEF Names
<1>2. SameNames => Names'
  BY <1>1, SameNamesAreKept
<1>3. ASSUME NEW q \in Requests, RequestStep(q) PROVE Names'
  <2>1. ASSUME NEW i \in Ids, NEW st \in Statuses, LoadPatch(q, i, st) PROVE Names'
    <3>1. /\ UNCHANGED <<center, used, task>> /\ \A p \in Requests \ {q} : req'[p] = req[p]
          /\ Live(i)
      BY <1>1, <2>1 DEF LoadPatch, Typed, TypeOK
    <3>2. center[i].slug = req'[q].copy.slug /\ req'[q].id = i /\ req'[q].op = "patch"
      BY <1>1, <2>1, LoadPatchIsTyped
    <3> QED BY <1>1, <1>2, <3>1, <3>2 DEF SameNames, Typed, TypeOK
  <2>2. ASSUME NEW i \in Ids, NEW p \in Plans, LoadPlan(q, i, p) PROVE Names'
    BY <1>1, <1>2, <2>2 DEF SameNames, Typed, TypeOK, LoadPlan, Quiet
  <2>3. ASSUME NEW t \in Tasks, FinishCreate(q, t) PROVE Names'
    <3>1. CASE SlugFree(req[q].id, req[q].copy.slug)
      <4>1. Inserted(req[q].id, req[q].copy, t)
        BY <1>1, <2>3, <3>1, InsertKeepsTyped DEF FinishCreate
      <4> QED BY <1>1, <2>3, <3>1, <4>1, InsertedNames DEF FinishCreate
    <3>2. CASE ~SlugFree(req[q].id, req[q].copy.slug)
      BY <1>1, <1>2, <2>3, <3>2 DEF SameNames, Typed, TypeOK, FinishCreate, Quiet
    <3> QED BY <3>1, <3>2
  <2>4. ASSUME NEW t \in Tasks, WritePatch(q, t) PROVE Names'
    <3> DEFINE i == req[q].id
               row == req[q].copy
    <3>0. i \in Ids /\ row \in Center /\ row.slug \in Slugs /\ \A p \in Requests \ {q} : req'[p] = req[p]
      BY <1>1, <2>4 DEF WritePatch, Typed, TypeOK, Shapes, Center
    <3>1. CASE ~Live(i) /\ SlugFree(i, row.slug)
      <4>1. Inserted(i, row, t)
        BY <1>1, <2>4, <3>1, InsertKeepsTyped DEF WritePatch
      <4> QED BY <1>1, <2>4, <3>1, <4>1, InsertedNames DEF WritePatch
    <3>2. CASE ~Live(i) /\ ~SlugFree(i, row.slug)
      BY <1>1, <1>2, <2>4, <3>2 DEF SameNames, Typed, TypeOK, WritePatch, Quiet
    <3>3. CASE Live(i)
      <4>1. center[i] \in Center /\ center[i].slug \in Slugs
        BY <1>1, <3>0, <3>3 DEF Typed, TypeOK, Center
      <4>2. Bears(i, row.slug) /\ Bears(i, center[i].slug)
        BY <2>4, <3>3 DEF Bears, WritePatch
      <4>3. row.slug = center[i].slug
        BY <3>0, <4>1, <4>2 DEF Names, OneName
      <4>4. center' = [center EXCEPT ![i] = row]
        BY <2>4, <3>3 DEF WritePatch, PatchedRow
      <4>5. \A j \in Ids : center'[j] # None => Live(j) /\ center'[j].slug = center[j].slug
        BY <1>1, <3>0, <3>3, <4>3, <4>4 DEF Typed, TypeOK
      <4>6. req'[q] = Quiet /\ UNCHANGED <<used, task>>
        BY <1>1, <2>4, <3>3 DEF WritePatch, Typed, TypeOK
      <4> QED BY <1>2, <3>0, <4>5, <4>6 DEF SameNames, Quiet
    <3> QED BY <3>1, <3>2, <3>3
  <2>5. ASSUME SavePlan(q) PROVE Names'
    BY <1>1, <1>2, <2>5 DEF SameNames, Typed, TypeOK, SavePlan, Quiet, Req
  <2>6. ASSUME ActivateCenter(q) PROVE Names'
    BY <1>1, <1>2, <2>6 DEF SameNames, Typed, TypeOK, ActivateCenter, Quiet, Center
  <2> QED BY <1>3, <2>1, <2>2, <2>3, <2>4, <2>5, <2>6, NewNameIsOwn DEF RequestStep
<1>4. ASSUME NEW i \in Ids, NEW st \in {"ACTIVE", "SUSPENDED"}, SetStatus(i, st) PROVE Names'
  BY <1>1, <1>2, <1>4 DEF SameNames, Typed, TypeOK, SetStatus, Center
<1>5. ASSUME NEW i \in Ids, NEW t \in Tasks, RequestDelete(i, t) PROVE Names'
  BY <1>1, <1>2, <1>5 DEF SameNames, Typed, TypeOK, RequestDelete, Queue
<1>6. ASSUME NEW i \in Ids, PeriodEnds(i) PROVE Names'
  BY <1>1, <1>2, <1>6 DEF SameNames, Typed, TypeOK, PeriodEnds
<1>7. ASSUME NEW t \in Tasks, TaskStep(t) PROVE Names'
  <2>1. ASSUME Build(t) PROVE Names'
    <3>1. \A u \in Tasks : task'[u] = task[u] \/ task'[u].op \in {"migrate", "mark", "idle"}
      BY <1>1, <2>1, Retried DEF Build, NoTask, Typed, TypeOK, Task
    <3> QED BY <1>1, <1>2, <2>1, <3>1 DEF SameNames, Typed, TypeOK, Build
  <2>2. ASSUME Mark(t) PROVE Names'
    <3>1. \A u \in Tasks : task'[u] = task[u] \/ task'[u].op \in {"migrate", "idle"}
      BY <1>1, <2>2, Retried DEF Mark, NoTask, Typed, TypeOK
    <3>2. \A i \in Ids : center'[i] # None => Live(i) /\ center'[i].slug = center[i].slug
      BY <1>1, <2>2, MarkIsTyped
    <3> QED BY <1>1, <1>2, <2>2, <3>1, <3>2 DEF SameNames, Typed, TypeOK, Mark
  <2>3. ASSUME StartDelete(t) PROVE Names'
    BY <1>1, <1>2, <2>3 DEF SameNames, Typed, TypeOK, StartDelete, NoTask, Task
  <2>4. ASSUME Clean(t) PROVE Names'
    BY <1>1, <1>2, <2>4 DEF SameNames, Typed, TypeOK, Clean, Task
  <2>5. ASSUME Drop(t) PROVE Names'
    BY <1>1, <1>2, <2>5 DEF SameNames, Typed, TypeOK, Drop, Task
  <2>6. ASSUME Erase(t) PROVE Names'
    BY <1>1, <1>2, <2>6 DEF SameNames, Typed, TypeOK, Erase, NoTask
  <2> QED BY <1>7, <2>1, <2>2, <2>3, <2>4, <2>5, <2>6 DEF TaskStep
<1>8. ASSUME SweepLoad PROVE Names'
  BY <1>1, <1>2, <1>8 DEF SameNames, Typed, TypeOK, SweepLoad
<1>9. ASSUME NEW d \in batch, SweepNext(d) PROVE Names'
  BY <1>1, <1>2, <1>9, SweepNextIsTyped DEF SameNames, SweepNext
<1>10. ASSUME Failure PROVE Names'
  <2>1. ASSUME NEW t \in Tasks, BuildFails(t) PROVE Names'
    <3>1. \A u \in Tasks : task'[u] = task[u] \/ task'[u].op \in {"migrate", "idle"}
      BY <1>1, <2>1, Retried DEF BuildFails, NoTask
    <3> QED BY <1>1, <1>2, <2>1, <3>1 DEF SameNames, BuildFails
  <2>2. ASSUME NEW t \in Tasks, DropFails(t) PROVE Names'
    <3>1. CASE task[t].op = "drop"
      BY <1>1, <1>2, <2>2, <3>1 DEF SameNames, Typed, TypeOK, DropFails, Task
    <3>2. CASE task[t].op = "erase"
      BY <1>1, <1>2, <2>2, <3>2 DEF SameNames, Typed, TypeOK, DropFails, NoTask
    <3> QED BY <2>2, <3>1, <3>2 DEF DropFails
  <2>3. ASSUME NEW t \in Tasks, EraseFails(t) PROVE Names'
    <3>1. \A u \in Tasks : task'[u] = task[u] \/ task'[u].op \in {"delete", "idle"}
      BY <1>1, <2>3, Retried DEF EraseFails, NoTask
    <3> QED BY <1>1, <1>2, <2>3, <3>1 DEF SameNames, EraseFails
  <2>4. ASSUME NEW d \in batch, NotifyFails(d) PROVE Names'
    BY <1>1, <1>2, <2>4 DEF SameNames, NotifyFails
  <2>5. ASSUME Crash PROVE Names'
    BY <1>1, <1>2, <2>5 DEF SameNames, Typed, TypeOK, Crash, Quiet, NoTask
  <2> QED BY <1>10, <2>1, <2>2, <2>3, <2>4, <2>5 DEF Failure
<1>11. ASSUME UNCHANGED vars PROVE Names'
  BY <1>2, <1>11 DEF SameNames, vars
<1> QED BY <1>3, <1>4, <1>5, <1>6, <1>7, <1>8, <1>9, <1>10, <1>11 DEF Next, SweepStep

LEMMA NamesAtStart == Init => Names
<1> SUFFICES ASSUME Init PROVE Names
  OBVIOUS
<1>1. /\ \A i \in Ids : ~Live(i)
      /\ \A q \in Requests : req[q].op = "idle"
      /\ \A t \in Tasks : task[t].op = "idle"
  BY DEF Init, Live, Quiet, NoTask
<1>2. \A i \in Ids, s \in Slugs : ~Bears(i, s)
  BY <1>1 DEF Bears, Holds, Named
<1> QED BY <1>1, <1>2, TypedAtStart DEF Names, OneName, NamesAreOwn, UsedKeys, NewKeys

-----------------------------------------------------------------------------
(* Schemas and their owners.                                               *)

\* Where nothing has failed after a step, the step was no failure.
LEMMA Faultless ==
  ASSUME Typed, [Next]_vars, faults' = 0
  PROVE  faults = 0 /\ ~Failure
<1>1. ASSUME Failure PROVE FALSE
  BY <1>1, FaultIsCounted DEF Failure, BuildFails, DropFails, EraseFails, NotifyFails, Crash
<1> QED BY <1>1 DEF Next, vars, RequestStep, BeginCreate, LoadPatch, LoadPlan, FinishCreate, WritePatch,
         SavePlan, ActivateCenter, SetStatus, RequestDelete, PeriodEnds, TaskStep, Build, Mark,
         StartDelete, Clean, Drop, Erase, SweepLoad, SweepStep, SweepNext

LEMMA TrafficStays == [Next]_vars => traffic' = traffic
  BY DEF Next, vars, RequestStep, BeginCreate, LoadPatch, LoadPlan, FinishCreate, WritePatch,
         SavePlan, ActivateCenter, SetStatus, RequestDelete, PeriodEnds, TaskStep, Build, Mark,
         StartDelete, Clean, Drop, Erase, SweepLoad, SweepStep, SweepNext,
         Failure, BuildFails, DropFails, EraseFails, NotifyFails, Crash

\* Every schema is one that was there, and the centers keep their rows.
SameOwners ==
  /\ \A s \in Slugs : schema'[s] # None =>
       schema[s] # None /\ schema'[s].madeFor = schema[s].madeFor
  /\ \A i \in Ids : Live(i) => center'[i] # None /\ center'[i].slug = center[i].slug

LEMMA SameOwnersAreKept ==
  ASSUME Names, Owners, faults = 0, SameOwners
  PROVE  Owners'
<1>1. \A s \in Slugs : schema[s] # None => schema[s].madeFor \in Ids
  BY DEF Names, Typed, TypeOK, Schema
<1> QED BY <1>1 DEF Owners, SameOwners, Live

\* The schema of the new row was made for it, now or before.
LEMMA InsertedOwners ==
  ASSUME Names, Owners, faults = 0, NEW i \in Ids, NEW row \in Center, NEW t \in Tasks,
         Bears(i, row.slug), SlugFree(i, row.slug), Inserted(i, row, t)
  PROVE  Owners'
<1>1. row.slug \in Slugs /\ center'[i] # None /\ center'[i].slug = row.slug
  BY DEF Inserted, Center
<1>2. SUFFICES ASSUME NEW s \in Slugs, schema'[s] # None
               PROVE  center'[schema'[s].madeFor] # None /\ center'[schema'[s].madeFor].slug = s
  BY DEF Owners, Live
<1>3. CASE s = row.slug /\ schema[s] = None
  <2>1. schema'[s] = [madeFor |-> i, built |-> FALSE]
    BY <1>3 DEF Inserted
  <2> QED BY <1>1, <1>3, <2>1
<1>4. CASE ~(s = row.slug /\ schema[s] = None)
  <2> DEFINE j == schema[s].madeFor
  <2>1. schema'[s] = schema[s] /\ j \in Ids /\ Live(j) /\ center[j].slug = s
    BY <1>2, <1>4 DEF Inserted, Names, Typed, TypeOK, Schema, Owners
  <2>2. CASE j = i
    <3>1. Bears(i, s)
      BY <2>1, <2>2 DEF Bears
    <3>2. s = row.slug
      BY <1>1, <3>1 DEF Names, OneName
    <3> QED BY <1>1, <2>1, <2>2, <3>2
  <2>3. CASE j # i
    BY <2>1, <2>3 DEF Inserted, Live
  <2> QED BY <2>2, <2>3
<1> QED BY <1>3, <1>4

LEMMA OwnersKept == Names /\ Owners /\ [Next]_vars => Owners'
<1> SUFFICES ASSUME Names, Owners, [Next]_vars, faults' = 0 PROVE Owners'
  BY DEF Owners
<1> USE DEF Live
<1>1. Typed /\ Typed'
  BY TypedKept DEF Names
<1>2. faults = 0 /\ ~Failure
  BY <1>1, Faultless DEF Names
<1>3. SameOwners => Owners'
  BY <1>2, SameOwnersAreKept
<1>4. UNCHANGED <<center, schema>> => Owners'
  BY <1>3 DEF SameOwners
<1>5. ASSUME NEW q \in Requests, NEW t \in Tasks, FinishCreate(q, t) \/ WritePatch(q, t) PROVE Owners'
  <2> DEFINE i == req[q].id
             row == req[q].copy
  <2>1. Holds(q) /\ i \in Ids /\ row \in Center /\ row.slug \in Slugs
    BY <1>1, <1>5 DEF FinishCreate, WritePatch, Typed, Shapes, Holds, Center
  <2>2. Bears(i, row.slug)
    BY <2>1 DEF Bears
  <2>3. CASE InsertCenter(i, row, t) /\ SlugFree(i, row.slug)
    <3>1. Inserted(i, row, t)
      BY <1>1, <2>1, <2>3, InsertIsTyped
    <3> QED BY <1>2, <2>1, <2>2, <2>3, <3>1, InsertedOwners
  <2>4. CASE Live(i) /\ WritePatch(q, t)
    <3>1. center[i] \in Center /\ center[i].slug \in Slugs
      BY <1>1, <2>1, <2>4 DEF Typed, TypeOK, Center
    <3>2. Bears(i, center[i].slug)
      BY <2>4 DEF Bears
    <3>3. row.slug = center[i].slug
      BY <2>1, <2>2, <3>1, <3>2 DEF Names, OneName
    <3>4. center' = [center EXCEPT ![i] = row] /\ UNCHANGED schema
      BY <2>4 DEF WritePatch, PatchedRow
    <3> QED BY <1>1, <1>3, <2>1, <3>3, <3>4 DEF SameOwners, Typed, TypeOK
  <2>5. CASE UNCHANGED <<center, schema>>
    BY <1>4, <2>5
  <2> QED BY <1>5, <2>3, <2>4, <2>5 DEF FinishCreate, WritePatch
<1>6. ASSUME NEW q \in Requests, ActivateCenter(q) PROVE Owners'
  <2>1. req[q].id \in Ids
    BY <1>1, <1>6 DEF ActivateCenter, Typed, Shapes, Planning
  <2> QED BY <1>1, <1>3, <1>4, <1>6, <2>1, StatusMove DEF SameOwners, ActivateCenter, Statuses
<1>7. ASSUME NEW i \in Ids, NEW st \in {"ACTIVE", "SUSPENDED"}, SetStatus(i, st) PROVE Owners'
  BY <1>1, <1>3, <1>7, StatusMove DEF SameOwners, SetStatus, Statuses
<1>8. ASSUME NEW t \in Tasks, Build(t) PROVE Owners'
  BY <1>1, <1>3, <1>8 DEF SameOwners, Typed, TypeOK, Build, Schema
<1>9. ASSUME NEW t \in Tasks, Mark(t) PROVE Owners'
  <2>1. \A i \in Ids : Live(i) => center'[i] # None /\ center'[i].slug = center[i].slug
    BY <1>1, <1>9, MarkIsTyped
  <2> QED BY <1>3, <1>9, <2>1 DEF SameOwners, Mark
<1>10. ASSUME NEW t \in Tasks, Drop(t) PROVE Owners'
  BY <1>1, <1>3, <1>10 DEF SameOwners, Typed, TypeOK, Drop, WithoutSchema
<1>11. ASSUME NEW t \in Tasks, Erase(t) PROVE Owners'
  <2> DEFINE i == task[t].id
             name == task[t].slug
  <2>1. i \in Ids /\ name \in Slugs /\ Bears(i, name)
    BY <1>1, <1>11 DEF Erase, Typed, Shapes, Removing, Named, Bears
  <2>2. \A s \in Slugs : Live(i) /\ center[i].slug = s => s = name
    BY <2>1 DEF Names, OneName, Bears
  <2>3. \A s \in Slugs : schema[s] # None => schema[s].madeFor \in Ids
    BY <1>1 DEF Typed, TypeOK, Schema
  <2> QED BY <1>1, <1>2, <1>11, <2>1, <2>2, <2>3 DEF Owners, Typed, TypeOK, Erase, WithoutSchema
<1>12. ASSUME NEW d \in batch, SweepNext(d) PROVE Owners'
  BY <1>1, <1>3, <1>12, SweepNextIsTyped DEF SameOwners, SweepNext
<1> QED BY <1>2, <1>4, <1>5, <1>6, <1>7, <1>8, <1>9, <1>10, <1>11, <1>12
        DEF vars, Next, RequestStep, BeginCreate, LoadPatch, LoadPlan, SavePlan, RequestDelete, PeriodEnds,
            TaskStep, StartDelete, Clean, SweepLoad, SweepStep

LEMMA OwnedAlways == AppSpec => [](Names /\ Owners)
<1>1. AppInit => Names /\ Owners
  BY NamesAtStart DEF AppInit, Init, Owners
<1>2. Names /\ Owners /\ [AppNext]_<<vars, desk>> => (Names /\ Owners)'
  BY NamesKept, OwnersKept, DeskStepsAreStutters
<1> QED BY <1>1, <1>2, PTL DEF AppSpec

\* Nobody is served from the data of another center: the schema that bears the
\* name of a live center was made for it, whatever requests, tasks and sweeps
\* overlap, as long as nothing fails.
THEOREM SchemasStayOwned == AppSpec => []SchemasAreOwned
<1>1. Names /\ Owners => SchemasAreOwned
  <2> SUFFICES ASSUME Names, Owners, faults = 0, NEW i \in Ids, Live(i), schema[center[i].slug] # None
               PROVE  schema[center[i].slug].madeFor = i
    BY DEF SchemasAreOwned
  <2>1. center[i].slug \in Slugs
    BY DEF Names, Typed, TypeOK, Center, Live
  <2>2. schema[center[i].slug].madeFor \in Ids
    BY <2>1 DEF Names, Typed, TypeOK, Schema
  <2> QED BY <2>1, <2>2 DEF Names, NamesAreOwn, Owners
<1> QED BY <1>1, OwnedAlways, PTL

-----------------------------------------------------------------------------
(* Paying centers.                                                         *)

\* Nobody loads a row to edit it.
NoPatches == "patch" \notin traffic.kinds => \A q \in Requests : req[q].op # "patch"

OneByOne == {"plan", "sweep"} \subseteq traffic.alone /\ faults = 0
            /\ {"patch", "status"} \cap traffic.kinds = {}

Paying(i) == Live(i) /\ sub[i] # None /\ sub[i].plan # "FREE"

Payers ==
  OneByOne =>
    /\ batch # {} => \A q \in Requests : ~Planning(q)
    /\ \A d \in batch : ~Paying(d.id)
    /\ \A i \in Ids : Paying(i) =>
         /\ sub[i].active
         /\ \/ center[i].status = "ACTIVE"
            \/ \E q \in Requests : req[q].op = "activate" /\ req[q].id = i

\* What is asked of a center is asked of one that has its row and subscription.
LEMMA NoPatchesKept == Typed /\ NoPatches /\ [Next]_vars => NoPatches'
<1> SUFFICES ASSUME Typed, NoPatches, [Next]_vars, "patch" \notin traffic'.kinds,
                    NEW p \in Requests, req'[p].op = "patch"
             PROVE  FALSE
  BY DEF NoPatches
<1>1. req[p].op # "patch" /\ "patch" \notin traffic.kinds
  BY TrafficStays DEF NoPatches
<1>2. req' # req
  BY <1>1
<1>3. PICK q \in Requests : RequestStep(q) \/ Crash
  BY <1>2 DEF Next, vars, SetStatus, RequestDelete, PeriodEnds, TaskStep, Build, Mark, StartDelete, Clean,
              Drop, Erase, SweepLoad, SweepStep, SweepNext, Failure, BuildFails, DropFails, EraseFails,
              NotifyFails
<1>4. \A i \in Ids, b \in Bases : ~BeginCreate(q, i, b)
  BY <1>1, BeginCreateIsTyped DEF BeginCreate, Typed, TypeOK
<1>5. \A i \in Ids, st \in Statuses : ~LoadPatch(q, i, st)
  BY <1>1 DEF LoadPatch, MayBegin
<1>6. req[p] \in Req
  BY DEF Typed, TypeOK
<1>7. \A i \in Ids, r \in Plans : ~LoadPlan(q, i, r)
  <2> SUFFICES ASSUME NEW i \in Ids, NEW r \in Plans, LoadPlan(q, i, r) PROVE FALSE
    OBVIOUS
  <2>1. req'[q].op = "plan" /\ (p # q => req'[p] = req[p])
    BY DEF LoadPlan, Quiet, Typed, TypeOK
  <2> QED BY <1>1, <2>1
<1>8. \A t \in Tasks : ~FinishCreate(q, t) /\ ~WritePatch(q, t)
  BY <1>1 DEF FinishCreate, WritePatch, Quiet, Typed, TypeOK
<1>9. ~SavePlan(q)
  BY <1>1, <1>6 DEF SavePlan, Quiet, Typed, TypeOK, Req
<1>10. ~ActivateCenter(q) /\ ~Crash
  BY <1>1 DEF ActivateCenter, Crash, Quiet, Typed, TypeOK
<1> QED BY <1>3, <1>4, <1>5, <1>7, <1>8, <1>9, <1>10 DEF RequestStep

LEMMA PayersKept == Names /\ NoPatches /\ Payers /\ [Next]_vars => Payers'
<1> SUFFICES ASSUME Names, NoPatches, Payers, [Next]_vars, OneByOne' PROVE Payers'
  BY DEF Payers
<1> USE DEF Live, Planning, Paying
<1>1. Typed /\ Typed' /\ traffic' = traffic
  BY TypedKept, TrafficStays DEF Names
<1>2. faults = 0 /\ ~Failure
  BY <1>1, Faultless DEF OneByOne
<1>3. /\ batch # {} => \A q \in Requests : ~Planning(q)
      /\ \A d \in batch : ~Paying(d.id)
      /\ \A i \in Ids : Paying(i) =>
           /\ sub[i].active
           /\ \/ center[i].status = "ACTIVE"
              \/ \E q \in Requests : req[q].op = "activate" /\ req[q].id = i
      /\ "patch" \notin traffic.kinds /\ "status" \notin traffic.kinds
      /\ "plan" \in traffic.alone /\ "sweep" \in traffic.alone
      /\ \A d \in batch : d.id \in Ids
  BY <1>1, <1>2 DEF Payers, OneByOne, Typed, TypeOK, Due
<1>4. UNCHANGED <<center, sub, req, batch>> => Payers'
  BY <1>3 DEF Payers
<1>5. ASSUME NEW q \in Requests, NEW i \in Ids, NEW b \in Bases, BeginCreate(q, i, b) PROVE Payers'
  <2>1. /\ UNCHANGED <<center, sub, batch>> /\ \A p \in Requests \ {q} : req'[p] = req[p]
        /\ req[q].op = "idle"
    BY <1>1, <1>5 DEF BeginCreate, Typed, TypeOK, Quiet
  <2>2. req'[q].op = "create"
    BY <1>1, <1>5, BeginCreateIsTyped
  <2> QED BY <1>3, <2>1, <2>2 DEF Payers
<1>6. ASSUME NEW q \in Requests, NEW i \in Ids, NEW p \in Plans, LoadPlan(q, i, p) PROVE Payers'
  <2>1. /\ UNCHANGED <<center, sub, batch>> /\ \A r \in Requests \ {q} : req'[r] = req[r]
        /\ req[q].op = "idle" /\ req'[q].op = "plan" /\ batch = {}
    BY <1>1, <1>3, <1>6 DEF LoadPlan, MayBegin, AllQuiet, Typed, TypeOK, Quiet
  <2> QED BY <1>3, <2>1 DEF Payers
<1>7. ASSUME NEW q \in Requests, NEW t \in Tasks, FinishCreate(q, t) PROVE Payers'
  <2>1. /\ \A r \in Requests \ {q} : req'[r] = req[r]
        /\ req'[q].op = "idle" /\ req[q].op = "create" /\ batch' = batch
        /\ req[q].id \in Ids /\ req[q].copy \in Center
    BY <1>1, <1>7 DEF FinishCreate, Typed, TypeOK, Quiet, Shapes, Holds
  <2>2. CASE SlugFree(req[q].id, req[q].copy.slug)
    <3>1. Inserted(req[q].id, req[q].copy, t)
      BY <1>1, <1>7, <2>1, <2>2, InsertIsTyped DEF FinishCreate
    <3>2. sub'[req[q].id].plan = "FREE" /\ \A i \in Ids \ {req[q].id} : center'[i] = center[i] /\ sub'[i] = sub[i]
      BY <3>1 DEF Inserted, Trial
    <3> QED BY <1>3, <2>1, <3>2 DEF Payers
  <2>3. CASE ~SlugFree(req[q].id, req[q].copy.slug)
    BY <1>3, <1>7, <2>1, <2>3 DEF Payers, FinishCreate
  <2> QED BY <2>2, <2>3
<1>8. ASSUME NEW q \in Requests, SavePlan(q) PROVE Payers'
  <2> DEFINE i == req[q].id
             p == req[q].plan
  <2>1. /\ i \in Ids /\ batch = {} /\ UNCHANGED <<center, batch>>
        /\ \A r \in Requests \ {q} : req'[r] = req[r]
    BY <1>1, <1>3, <1>8 DEF SavePlan, Typed, TypeOK, Shapes
  <2>2. CASE ~Live(i)
    <3>1. sub' = sub /\ req[q].op = "plan" /\ req'[q] = Quiet
      BY <1>1, <1>8, <2>2 DEF SavePlan, Typed, TypeOK
    <3> QED BY <1>3, <2>1, <3>1 DEF Payers, Quiet
  <2>3. CASE Live(i)
    <3>1. /\ \A j \in Ids \ {i} : sub'[j] = sub[j] /\ req[q].op = "plan"
          /\ sub'[i].active /\ sub'[i].plan = p
      BY <1>1, <1>8, <2>1, <2>3 DEF SavePlan, SubWithPlan, Typed, TypeOK
    <3>2. p # "FREE" => req'[q].op = "activate" /\ req'[q].id = i
      BY <1>1, <1>8, <2>3 DEF SavePlan, Typed, TypeOK, Req
    <3> QED BY <1>3, <2>1, <3>1, <3>2 DEF Payers
  <2> QED BY <2>2, <2>3
<1>9. ASSUME NEW q \in Requests, ActivateCenter(q) PROVE Payers'
  <2> DEFINE i == req[q].id
  <2>1. /\ i \in Ids /\ batch = {} /\ UNCHANGED <<sub, batch>>
        /\ \A r \in Requests \ {q} : req'[r] = req[r]
    BY <1>1, <1>3, <1>9 DEF ActivateCenter, Typed, TypeOK, Shapes
  <2>2. \A j \in Ids \ {i} : center'[j] = center[j]
    BY <1>1, <1>9, <2>1 DEF ActivateCenter, Typed, TypeOK
  <2>3. Live(i) => center'[i].status = "ACTIVE"
    BY <1>1, <1>9, <2>1, StatusMove DEF ActivateCenter, Statuses
  <2>4. ~Live(i) => center'[i] = None
    BY <1>9 DEF ActivateCenter
  <2> QED BY <1>3, <2>1, <2>2, <2>3, <2>4 DEF Payers
<1>10. ASSUME NEW i \in Ids, PeriodEnds(i) PROVE Payers'
  <2>1. sub[i] \in Sub /\ UNCHANGED <<center, req, batch>>
    BY <1>1, <1>10 DEF PeriodEnds, Typed, TypeOK
  <2>2. sub'[i].active = sub[i].active /\ sub'[i].plan = sub[i].plan /\ \A j \in Ids \ {i} : sub'[j] = sub[j]
    BY <1>1, <1>10, <2>1 DEF PeriodEnds, Typed, TypeOK, Sub
  <2> QED BY <1>3, <2>1, <2>2 DEF Payers
<1>11. ASSUME NEW t \in Tasks, Mark(t) PROVE Payers'
  <2>1. UNCHANGED <<sub, req, batch>>
    BY <1>11 DEF Mark
  <2>2. \A i \in Ids : center'[i] # None => Live(i) /\ center'[i].status = center[i].status
    BY <1>1, <1>11, MarkIsTyped
  <2> QED BY <1>3, <2>1, <2>2 DEF Payers
<1>12. ASSUME NEW t \in Tasks, Clean(t) PROVE Payers'
  <2>1. UNCHANGED <<center, req, batch>> /\ \A i \in Ids : sub'[i] = None \/ sub'[i] = sub[i]
    BY <1>1, <1>12 DEF Clean, Typed, TypeOK
  <2> QED BY <1>3, <2>1 DEF Payers
<1>13. ASSUME NEW t \in Tasks, Erase(t) PROVE Payers'
  <2>1. /\ UNCHANGED <<req, batch>> /\ \A i \in Ids : sub'[i] = None \/ sub'[i] = sub[i]
        /\ \A i \in Ids : center'[i] = None \/ center'[i] = center[i]
    BY <1>1, <1>13 DEF Erase, Typed, TypeOK
  <2> QED BY <1>3, <2>1 DEF Payers
<1>14. ASSUME SweepLoad PROVE Payers'
  <2>1. UNCHANGED <<center, sub, req>> /\ \A q \in Requests : req[q].op = "idle"
    BY <1>3, <1>14 DEF SweepLoad, MayBegin, AllQuiet, Quiet
  <2>2. \A d \in batch' : sub[d.id].plan = "FREE"
    BY <1>14 DEF SweepLoad, IsDue
  <2> QED BY <1>3, <2>1, <2>2 DEF Payers
<1>15. ASSUME NEW d \in batch, SweepNext(d) PROVE Payers'
  <2>1. /\ req' = req /\ batch' \subseteq batch /\ d.id \in Ids
        /\ \A i \in Ids \ {d.id} : center'[i] = center[i] /\ sub'[i] = sub[i]
        /\ \A i \in Ids : center'[i] # None <=> center[i] # None
        /\ \A i \in Ids : sub'[i] # None <=> sub[i] # None
    BY <1>1, <1>15, SweepNextIsTyped DEF SweepNext
  <2>2. sub[d.id] # None => sub'[d.id].plan = sub[d.id].plan
    BY <1>1, <1>15, <2>1 DEF SweepNext, Typed, TypeOK, Sub
  <2> QED BY <1>3, <2>1, <2>2 DEF Payers
<1>16. /\ \A i \in Ids, st \in Statuses : ~SetStatus(i, st) /\ \A q \in Requests : ~LoadPatch(q, i, st)
       /\ \A q \in Requests, t \in Tasks : ~WritePatch(q, t)
  BY <1>3 DEF NoPatches, SetStatus, LoadPatch, WritePatch, MayBegin
<1> QED BY <1>2, <1>4, <1>5, <1>6, <1>7, <1>8, <1>9, <1>10, <1>11, <1>12, <1>13, <1>14, <1>15, <1>16
        DEF vars, Next, RequestStep, Statuses, RequestDelete, TaskStep, Build, StartDelete, Drop, SweepStep

\* Who pays is let in: the center is ACTIVE and its subscription on.
THEOREM PayingCentersAreOpen == AppSpec => []PaidIsOpen
<1>1. AppInit => Names /\ NoPatches /\ Payers
  <2> SUFFICES ASSUME Init PROVE Names /\ NoPatches /\ Payers
    BY DEF AppInit
  <2>1. \A i \in Ids : ~Live(i)
    BY DEF Init, Live
  <2>2. batch = {} /\ \A q \in Requests : req[q].op = "idle"
    BY DEF Init, Quiet
  <2> QED BY <2>1, <2>2, NamesAtStart DEF NoPatches, Payers, Paying
<1>2. Names /\ NoPatches /\ Payers /\ [AppNext]_<<vars, desk>> => (Names /\ NoPatches /\ Payers)'
  BY NamesKept, NoPatchesKept, PayersKept, DeskStepsAreStutters DEF Names
<1>3. Payers => PaidIsOpen
  BY DEF Payers, OneByOne, PaidIsOpen, Paying
<1> QED BY <1>1, <1>2, <1>3, PTL DEF AppSpec

-----------------------------------------------------------------------------
(* Whole centers.                                                          *)

\* Nothing fails and deletions do not overlap.
Orderly == faults = 0 /\ "delete" \in traffic.alone

Erasing   == {task[t].id : t \in {u \in Tasks : task[u].op = "erase"}}
Dropping  == {task[t].id : t \in {u \in Tasks : task[u].op \in {"drop", "erase"}}}
Migrating == {task[t].slug : t \in {u \in Tasks : task[u].op = "migrate"}}
InSetUp   == {task[t].slug : t \in {u \in Tasks : task[u].op \in {"migrate", "mark"}}}

OneRemoval == \A t, u \in Tasks : Removing(t) /\ Removing(u) => t = u
RemovesALive ==
  \A t \in Tasks : Removing(t) =>
    /\ Live(task[t].id) /\ center[task[t].id].slug \notin InSetUp
    /\ Named(t) => task[t].slug = center[task[t].id].slug
SetsUpALive == InSetUp \subseteq SlugsTaken
Complete ==
  \A i \in Ids : Live(i) =>
    /\ i \notin Dropping => sub[i] # None
    /\ i \notin Erasing => schema[center[i].slug] # None
    /\ i \notin Erasing => schema[center[i].slug].built \/ center[i].slug \in Migrating
    /\ traffic.probe /\ "patch" \notin traffic.kinds
        => center[i].ready \/ center[i].slug \in InSetUp \/ i \in Erasing

Wholes == Orderly => OneRemoval /\ RemovesALive /\ SetsUpALive /\ Complete

\* The tasks and schemas stay, the subscriptions that are there stay, and the
\* rows keep their names and, where nobody edits them, their flags.
SameParts ==
  /\ UNCHANGED <<schema, task>>
  /\ \A i \in Ids : sub[i] # None => sub'[i] # None
  /\ \A i \in Ids : center'[i] # None <=> center[i] # None
  /\ \A i \in Ids : Live(i) =>
       /\ center'[i].slug = center[i].slug
       /\ "patch" \notin traffic.kinds => center'[i].ready = center[i].ready

LEMMA TakenSlugs ==
  /\ \A s : s \in SlugsTaken <=> \E i \in Ids : Live(i) /\ center[i].slug = s
  /\ \A s : s \in SlugsTaken' <=> \E i \in Ids : center'[i] # None /\ center'[i].slug = s
  BY DEF SlugsTaken, Live

LEMMA SamePartsAreKept ==
  ASSUME Typed, Wholes, Orderly, traffic' = traffic, SameParts
  PROVE  Wholes'
<1>1. OneRemoval /\ RemovesALive /\ SetsUpALive /\ Complete
  BY DEF Wholes
<1>2. Erasing' = Erasing /\ Dropping' = Dropping /\ Migrating' = Migrating /\ InSetUp' = InSetUp
  BY DEF SameParts, Erasing, Dropping, Migrating, InSetUp
<1>3. OneRemoval'
  BY <1>1 DEF OneRemoval, SameParts, Removing, Named
<1>4. RemovesALive'
  <2> SUFFICES ASSUME NEW t \in Tasks, Removing(t)
               PROVE  /\ center'[task[t].id] # None /\ center'[task[t].id].slug \notin InSetUp
                      /\ Named(t) => task[t].slug = center'[task[t].id].slug
    BY <1>2 DEF RemovesALive, SameParts, Live, Removing, Named
  <2>1. task[t].id \in Ids /\ Live(task[t].id)
    BY <1>1 DEF RemovesALive, Typed, Shapes
  <2> QED BY <1>1, <2>1 DEF RemovesALive, SameParts, Live
<1>5. SetsUpALive'
  BY <1>1, <1>2, TakenSlugs DEF SetsUpALive, SameParts, Live
<1>6. Complete'
  BY <1>1, <1>2 DEF Complete, SameParts, Live
<1> QED BY <1>3, <1>4, <1>5, <1>6 DEF Wholes

\* The tasks that remove a center stay as they are, and none is added.
SameRemovals ==
  /\ \A u \in Tasks : Removing(u) => task'[u] = task[u]
  /\ \A u \in Tasks : task'[u].op \in {"delete", "clean", "drop", "erase"} => task'[u] = task[u]

LEMMA SameRemovalsAreKept ==
  ASSUME OneRemoval, SameRemovals
  PROVE  /\ OneRemoval' /\ Erasing' = Erasing /\ Dropping' = Dropping
         /\ \A u \in Tasks : Removing(u)' <=> Removing(u)
         /\ \A u \in Tasks : Named(u)' <=> Named(u)
         /\ \A u \in Tasks : Removing(u)' => task'[u] = task[u]
<1>1. \A u \in Tasks : Removing(u)' <=> Removing(u)
  BY DEF SameRemovals, Removing, Named
<1>2. \A u \in Tasks : Named(u)' <=> Named(u)
  BY DEF SameRemovals, Removing, Named
<1>3. OneRemoval'
  BY <1>1 DEF OneRemoval, Removing, Named
<1>4. Erasing' = Erasing /\ Dropping' = Dropping
  BY DEF SameRemovals, Erasing, Dropping, Removing, Named
<1> QED BY <1>1, <1>2, <1>3, <1>4 DEF SameRemovals, Removing, Named

LEMMA InsertedIsWhole ==
  ASSUME Names, Wholes, Orderly, traffic' = traffic, NEW i \in Ids, NEW row \in Center, NEW t \in Tasks,
         ~Live(i), SlugFree(i, row.slug), Inserted(i, row, t)
  PROVE  Wholes'
<1> DEFINE name == row.slug
<1>1. OneRemoval /\ RemovesALive /\ SetsUpALive /\ Complete
  BY DEF Wholes
<1>2. /\ name \in Slugs /\ center'[i] # None /\ center'[i].slug = name /\ sub'[i] # None
      /\ schema'[name] # None
  <2>1. name \in Slugs /\ center'[i] \in Center /\ center'[i].slug = name /\ sub'[i] = Trial
    BY DEF Inserted, Center
  <2>2. Trial # None
    BY IdleAreTyped
  <2>3. [madeFor |-> i, built |-> FALSE] \in Schema
    BY DEF Schema
  <2>4. schema'[name] # None
    BY <2>1, <2>3 DEF Inserted
  <2> QED BY <2>1, <2>2, <2>4
<1>3. /\ \A j \in Ids \ {i} : center'[j] = center[j] /\ sub'[j] = sub[j]
      /\ \A j \in Ids : Live(j) => j # i /\ center[j].slug # name
      /\ \A s \in Slugs \ {name} : schema'[s] = schema[s]
      /\ \A j \in Ids : Live(j) => center[j].slug \in Slugs
  BY DEF Inserted, SlugFree, Names, Typed, TypeOK, Center, Live
<1>4. /\ task[t].op = "idle" /\ task'[t].op = "migrate" /\ task'[t].slug = name
      /\ \A u \in Tasks \ {t} : task'[u] = task[u]
  BY DEF Inserted, NoTask
<1>5. Migrating' = Migrating \cup {name} /\ InSetUp' = InSetUp \cup {name}
  BY <1>4 DEF Migrating, InSetUp
<1>6. SameRemovals
  BY <1>4 DEF SameRemovals, Removing, Named
<1>7. RemovesALive'
  <2> SUFFICES ASSUME NEW u \in Tasks, Removing(u), task'[u] = task[u]
               PROVE  /\ center'[task[u].id] # None /\ center'[task[u].id].slug \notin InSetUp'
                      /\ Named(u) => task[u].slug = center'[task[u].id].slug
    BY <1>1, <1>6, SameRemovalsAreKept DEF RemovesALive, Live, Removing, Named
  <2>1. task[u].id \in Ids /\ Live(task[u].id)
    BY <1>1 DEF RemovesALive, Names, Typed, Shapes
  <2>2. center'[task[u].id] = center[task[u].id]
    BY <1>3, <2>1
  <2> QED BY <1>1, <1>3, <1>5, <2>1, <2>2 DEF RemovesALive, Live
<1>8. SetsUpALive'
  <2>1. \A s \in SlugsTaken : s \in SlugsTaken'
    BY <1>3, TakenSlugs DEF Live
  <2>2. name \in SlugsTaken'
    BY <1>2, TakenSlugs
  <2> QED BY <1>1, <1>5, <2>1, <2>2 DEF SetsUpALive
<1>9. Complete'
  <2> SUFFICES ASSUME NEW j \in Ids, center'[j] # None
               PROVE  /\ j \notin Dropping => sub'[j] # None
                      /\ j \notin Erasing => schema'[center'[j].slug] # None
                      /\ j \notin Erasing => schema'[center'[j].slug].built \/ center'[j].slug \in Migrating'
                      /\ traffic.probe /\ "patch" \notin traffic.kinds
                          => center'[j].ready \/ center'[j].slug \in InSetUp' \/ j \in Erasing
    BY <1>1, <1>6, SameRemovalsAreKept DEF Complete, Live
  <2>1. CASE j = i
    BY <1>2, <1>5, <2>1
  <2>2. CASE j # i
    <3>1. center'[j] = center[j] /\ sub'[j] = sub[j] /\ Live(j)
      BY <1>3, <2>2 DEF Live
    <3>2. schema'[center[j].slug] = schema[center[j].slug]
      BY <1>3, <3>1
    <3> QED BY <1>1, <1>5, <3>1, <3>2 DEF Complete
  <2> QED BY <2>1, <2>2
<1> QED BY <1>1, <1>6, <1>7, <1>8, <1>9, SameRemovalsAreKept DEF Wholes

\* The schema that is built belongs to a center that nobody removes.
LEMMA BuiltIsWhole ==
  ASSUME Names, Wholes, Orderly, traffic' = traffic, NEW t \in Tasks, Build(t)
  PROVE  Wholes'
<1> DEFINE name == task[t].slug
<1>1. OneRemoval /\ RemovesALive /\ SetsUpALive /\ Complete /\ Typed
  BY DEF Wholes, Names
<1>2. task[t].op = "migrate" /\ name \in Slugs /\ name \in InSetUp /\ task[t] \in Task
  BY <1>1 DEF Build, Typed, TypeOK, Shapes, SettingUp, InSetUp
<1>3. schema[name] # None
  <2>1. PICK i \in Ids : Live(i) /\ center[i].slug = name
    BY <1>1, <1>2, TakenSlugs DEF SetsUpALive
  <2>2. i \notin Erasing
    BY <1>1, <1>2, <2>1 DEF RemovesALive, Erasing, Removing, Named
  <2> QED BY <1>1, <2>1, <2>2 DEF Complete
<1>4. /\ UNCHANGED <<center, sub>> /\ schema'[name].built /\ schema'[name] # None
      /\ \A s \in Slugs \ {name} : schema'[s] = schema[s]
  <2>1. schema[name] \in Schema
    BY <1>1, <1>2, <1>3 DEF Typed, TypeOK
  <2>2. [schema[name] EXCEPT !.built = TRUE] \in Schema /\ [schema[name] EXCEPT !.built = TRUE].built
    BY <2>1 DEF Schema
  <2>3. schema' = [schema EXCEPT ![name] = [schema[name] EXCEPT !.built = TRUE]]
    BY <1>3 DEF Build
  <2> QED BY <1>1, <1>2, <2>2, <2>3 DEF Build, Typed, TypeOK
<1>5. /\ \A u \in Tasks \ {t} : task'[u] = task[u]
      /\ traffic.probe => task'[t].op = "mark" /\ task'[t].slug = name
      /\ \/ task'[t].op = "idle"
         \/ task'[t].op \in {"migrate", "mark"} /\ task'[t].slug = name
  <2>1. CASE traffic.probe
    <3>1. task' = [task EXCEPT ![t] = [task[t] EXCEPT !.op = "mark"]]
      BY <1>1, <1>3, <2>1 DEF Build, Typed, TypeOK
    <3> QED BY <1>1, <1>2, <2>1, <3>1 DEF Typed, TypeOK, Task
  <2>2. CASE ~traffic.probe
    BY <1>1, <2>2, Retried DEF Build, NoTask
  <2> QED BY <2>1, <2>2
<1>6. InSetUp' \subseteq InSetUp /\ (traffic.probe => InSetUp' = InSetUp)
      /\ \A s \in Migrating : s = name \/ s \in Migrating'
  BY <1>2, <1>5 DEF InSetUp, Migrating
<1>7. SameRemovals
  BY <1>2, <1>5 DEF SameRemovals, Removing, Named
<1>8. RemovesALive' /\ SetsUpALive'
  BY <1>1, <1>4, <1>6, <1>7, SameRemovalsAreKept, TakenSlugs
     DEF RemovesALive, SetsUpALive, Live, Removing, Named
<1>9. Complete'
  <2> SUFFICES ASSUME NEW j \in Ids, Live(j)
               PROVE  /\ j \notin Dropping => sub[j] # None
                      /\ j \notin Erasing => schema'[center[j].slug] # None
                      /\ j \notin Erasing => schema'[center[j].slug].built \/ center[j].slug \in Migrating'
                      /\ traffic.probe /\ "patch" \notin traffic.kinds
                          => center[j].ready \/ center[j].slug \in InSetUp' \/ j \in Erasing
    BY <1>1, <1>4, <1>7, SameRemovalsAreKept DEF Complete, Live
  <2>1. center[j].slug \in Slugs
    BY <1>1 DEF Typed, TypeOK, Center, Live
  <2> QED BY <1>1, <1>4, <1>6, <2>1 DEF Complete
<1> QED BY <1>1, <1>7, <1>8, <1>9, SameRemovalsAreKept DEF Wholes

LEMMA MarkedIsWhole ==
  ASSUME Names, Wholes, Orderly, traffic' = traffic, NEW t \in Tasks, Mark(t)
  PROVE  Wholes'
<1> DEFINE name == task[t].slug
<1> USE DEF Live
<1>1. OneRemoval /\ RemovesALive /\ SetsUpALive /\ Complete /\ Typed
  BY DEF Wholes, Names
<1>2. task[t].op = "mark" /\ name \in InSetUp /\ UNCHANGED <<sub, schema>>
  BY DEF Mark, InSetUp
<1>3. /\ \A u \in Tasks \ {t} : task'[u] = task[u]
      /\ task'[t].op = "idle"
  BY <1>1, <1>2 DEF Mark, SetsUpALive, Typed, TypeOK, NoTask
<1>4. \A i \in Ids : Live(i) => center'[i] # None /\ center'[i].slug = center[i].slug
  BY <1>1, MarkIsTyped
<1>10. \A i \in Ids : Live(i) /\ (center[i].ready \/ center[i].slug = name) => center'[i].ready
  BY <1>1, MarkIsTyped
<1>11. \A i \in Ids : ~Live(i) => center'[i] = None
  BY <1>1, MarkIsTyped
<1>5. Migrating' = Migrating /\ InSetUp' \subseteq InSetUp /\ \A s \in InSetUp : s = name \/ s \in InSetUp'
  BY <1>2, <1>3 DEF InSetUp, Migrating
<1>6. SameRemovals
  BY <1>2, <1>3 DEF SameRemovals, Removing, Named
<1>7. RemovesALive'
  <2> SUFFICES ASSUME NEW u \in Tasks, Removing(u)
               PROVE  /\ center'[task[u].id] # None /\ center'[task[u].id].slug \notin InSetUp'
                      /\ Named(u) => task[u].slug = center'[task[u].id].slug
    BY <1>1, <1>6, SameRemovalsAreKept DEF RemovesALive, Live, Removing, Named
  <2>1. task[u].id \in Ids /\ Live(task[u].id)
    BY <1>1 DEF RemovesALive, Typed, Shapes
  <2> QED BY <1>1, <1>4, <1>5, <2>1 DEF RemovesALive
<1>8. SetsUpALive'
  BY <1>1, <1>4, <1>5, TakenSlugs DEF SetsUpALive
<1>9. Complete'
  BY <1>1, <1>2, <1>4, <1>5, <1>6, <1>10, <1>11, SameRemovalsAreKept DEF Complete
<1> QED BY <1>1, <1>6, <1>7, <1>8, <1>9, SameRemovalsAreKept DEF Wholes

\* A deletion begins when nothing else goes on.
LEMMA DeletedIsWhole ==
  ASSUME Names, Wholes, Orderly, traffic' = traffic, NEW i \in Ids, NEW t \in Tasks, RequestDelete(i, t)
  PROVE  Wholes'
<1>1. Complete /\ Typed
  BY DEF Wholes, Names
<1>2. /\ \A u \in Tasks : task[u].op = "idle"
      /\ UNCHANGED <<center, sub, schema>> /\ Live(i)
  BY DEF RequestDelete, MayBegin, AllQuiet, Orderly, NoTask
<1>3. \A u \in Tasks \ {t} : task'[u] = task[u]
  BY <1>1 DEF RequestDelete, Queue, Typed, TypeOK
<1>4. task'[t].op = "delete" /\ task'[t].id = i
  BY <1>1 DEF RequestDelete, Queue, Typed, TypeOK
<1>5. /\ Erasing = {} /\ Dropping = {} /\ Migrating = {} /\ InSetUp = {}
      /\ Erasing' = {} /\ Dropping' = {} /\ Migrating' = {} /\ InSetUp' = {}
  BY <1>2, <1>3, <1>4 DEF Erasing, Dropping, Migrating, InSetUp
<1>6. \A u \in Tasks : Removing(u)' => u = t
  BY <1>2, <1>3 DEF Removing, Named
<1>7. OneRemoval'
  BY <1>6 DEF OneRemoval, Removing, Named
<1>8. RemovesALive'
  BY <1>2, <1>4, <1>5, <1>6 DEF RemovesALive, Live, Removing, Named
<1>9. SetsUpALive' /\ Complete'
  BY <1>1, <1>2, <1>5 DEF SetsUpALive, Complete, Live
<1> QED BY <1>7, <1>8, <1>9 DEF Wholes

\* A removal goes on: it stays the only one, of the same center.
LEMMA RemovalIsWhole ==
  ASSUME Names, Wholes, Orderly, traffic' = traffic, NEW t \in Tasks,
         StartDelete(t) \/ Clean(t) \/ Drop(t)
  PROVE  Wholes'
<1> DEFINE i == task[t].id
           name == center[i].slug
<1>1. OneRemoval /\ RemovesALive /\ SetsUpALive /\ Complete /\ Typed
  BY DEF Wholes, Names
<1>2. /\ Removing(t) /\ i \in Ids /\ Live(i) /\ name \in Slugs /\ task[t] \in Task /\ name \notin InSetUp
      /\ Named(t) => task[t].slug = name
      /\ \A u \in Tasks \ {t} : ~Removing(u)
  BY <1>1 DEF StartDelete, Clean, Drop, Removing, Named, OneRemoval, RemovesALive, Typed, TypeOK, Shapes,
              Center, Live
<1>3. /\ \A u \in Tasks \ {t} : task'[u] = task[u]
      /\ task'[t].op \in {"clean", "drop", "erase"} /\ task'[t].id = i /\ task'[t].slug = name
      /\ task'[t].op = "clean" => StartDelete(t)
      /\ task'[t].op = "drop" => Clean(t)
      /\ task'[t].op = "erase" => Drop(t)
  <2>1. CASE StartDelete(t)
    <3>1. task' = [task EXCEPT ![t] = [task[t] EXCEPT !.op = "clean", !.slug = name]]
      BY <1>1, <1>2, <2>1 DEF StartDelete, Typed, TypeOK
    <3> QED BY <1>1, <1>2, <2>1, <3>1 DEF Typed, TypeOK, Task
  <2>2. CASE Clean(t) \/ Drop(t)
    BY <1>1, <1>2, <2>2 DEF Clean, Drop, Typed, TypeOK, Task, Named
  <2> QED BY <2>1, <2>2
<1>4. InSetUp' = InSetUp /\ Migrating' = Migrating
  BY <1>2, <1>3 DEF InSetUp, Migrating, Removing, Named
<1>5. center' = center
  BY DEF StartDelete, Clean, Drop
<1>6. \A u \in Tasks \ {t} : ~Removing(u)'
  BY <1>2, <1>3 DEF Removing, Named
<1>7. OneRemoval'
  BY <1>6 DEF OneRemoval, Removing, Named
<1>8. RemovesALive'
  <2>1. \A u \in Tasks : Removing(u)' => u = t
    BY <1>6
  <2>2. center'[task'[t].id] # None /\ center'[task'[t].id].slug \notin InSetUp'
        /\ task'[t].slug = center'[task'[t].id].slug
    BY <1>2, <1>3, <1>4, <1>5 DEF Live
  <2> QED BY <2>1, <2>2 DEF RemovesALive, Live, Removing, Named
<1>9. SetsUpALive'
  BY <1>1, <1>4, <1>5, TakenSlugs DEF SetsUpALive, Live
<1>10. /\ task[t].op = "drop" => i \in Erasing'
       /\ task[t].op \in {"clean", "drop"} => i \in Dropping'
       /\ Erasing \subseteq Erasing' /\ Dropping \subseteq Dropping'
  BY <1>2, <1>3 DEF Erasing, Dropping, StartDelete, Clean, Drop
<1>11. Complete'
  <2> SUFFICES ASSUME NEW j \in Ids, Live(j)
               PROVE  /\ j \notin Dropping' => sub'[j] # None
                      /\ j \notin Erasing' => schema'[center[j].slug] # None
                      /\ j \notin Erasing' => schema'[center[j].slug].built \/ center[j].slug \in Migrating
                      /\ traffic.probe /\ "patch" \notin traffic.kinds
                          => center[j].ready \/ center[j].slug \in InSetUp \/ j \in Erasing'
    BY <1>4, <1>5 DEF Complete, Live
  <2>1. center[j].slug \in Slugs /\ (j # i => center[j].slug # name)
    BY <1>1, <1>2 DEF Typed, TypeOK, Center, Live, Names, NamesAreOwn
  <2>2. CASE StartDelete(t)
    BY <1>1, <1>10, <2>2 DEF StartDelete, Complete
  <2>3. CASE Clean(t)
    <3>1. schema' = schema /\ \A k \in Ids \ {i} : sub'[k] = sub[k]
      BY <1>1, <1>2, <2>3 DEF Clean, Typed, TypeOK
    <3>2. i \in Dropping'
      BY <1>10, <2>3 DEF Clean
    <3> QED BY <1>1, <1>10, <3>1, <3>2 DEF Complete
  <2>4. CASE Drop(t)
    <3>1. sub' = sub /\ \A s \in Slugs \ {name} : schema'[s] = schema[s]
      BY <1>1, <1>2, <2>4 DEF Drop, WithoutSchema, Typed, TypeOK, Named
    <3>2. i \in Erasing'
      BY <1>10, <2>4 DEF Drop
    <3> QED BY <1>1, <1>10, <2>1, <3>1, <3>2 DEF Complete
  <2> QED BY <2>2, <2>3, <2>4
<1> QED BY <1>7, <1>8, <1>9, <1>11 DEF Wholes

LEMMA ErasedIsWhole ==
  ASSUME Names, Wholes, Orderly, traffic' = traffic, NEW t \in Tasks, Erase(t)
  PROVE  Wholes'
<1> DEFINE i == task[t].id
           name == center[i].slug
<1>1. OneRemoval /\ RemovesALive /\ SetsUpALive /\ Complete /\ Typed
  BY DEF Wholes, Names
<1>2. /\ i \in Ids /\ Live(i) /\ task[t].slug = name /\ name \notin InSetUp
      /\ \A u \in Tasks \ {t} : ~Removing(u)
  BY <1>1 DEF Erase, Removing, Named, OneRemoval, RemovesALive, Typed, Shapes
<1>3. /\ \A u \in Tasks \ {t} : task'[u] = task[u]
      /\ task'[t].op = "idle" /\ task[t].op = "erase"
  BY <1>1 DEF Erase, NoTask, Typed, TypeOK
<1>4. /\ \A j \in Ids \ {i} : center'[j] = center[j] /\ sub'[j] = sub[j]
      /\ \A s \in Slugs \ {name} : schema'[s] = schema[s]
      /\ center'[i] = None
  BY <1>1, <1>2 DEF Erase, WithoutSchema, Typed, TypeOK
<1>5. InSetUp' = InSetUp /\ Migrating' = Migrating
  BY <1>3 DEF InSetUp, Migrating
<1>6. \A u \in Tasks : ~Removing(u)'
  BY <1>2, <1>3 DEF Removing, Named
<1>7. OneRemoval' /\ RemovesALive'
  BY <1>6 DEF OneRemoval, RemovesALive, Removing, Named
<1>8. SetsUpALive'
  BY <1>1, <1>2, <1>4, <1>5, TakenSlugs DEF SetsUpALive, Live
<1>9. \A j \in Ids \ {i} : j \notin Erasing /\ j \notin Dropping
  BY <1>2 DEF Erasing, Dropping, Removing, Named
<1>10. Complete'
  <2> SUFFICES ASSUME NEW j \in Ids, center'[j] # None
               PROVE  /\ sub'[j] # None
                      /\ schema'[center'[j].slug] # None
                      /\ schema'[center'[j].slug].built \/ center'[j].slug \in Migrating
                      /\ traffic.probe /\ "patch" \notin traffic.kinds
                          => center'[j].ready \/ center'[j].slug \in InSetUp
    BY <1>5 DEF Complete, Live
  <2>1. j # i /\ center'[j] = center[j] /\ sub'[j] = sub[j] /\ Live(j)
    BY <1>4 DEF Live
  <2>2. center[j].slug \in Slugs /\ center[j].slug # name
    BY <1>1, <1>2, <2>1 DEF Typed, TypeOK, Center, Live, Names, NamesAreOwn
  <2> QED BY <1>1, <1>4, <1>9, <2>1, <2>2 DEF Complete
<1> QED BY <1>7, <1>8, <1>10 DEF Wholes

LEMMA WholesKept == Names /\ NoPatches /\ Wholes /\ [Next]_vars => Wholes'
<1> SUFFICES ASSUME Names, NoPatches, Wholes, [Next]_vars, Orderly' PROVE Wholes'
  BY DEF Wholes
<1>1. Typed /\ Typed' /\ traffic' = traffic
  BY TypedKept, TrafficStays DEF Names
<1>2. ~Failure /\ Orderly
  BY <1>1, Faultless DEF Orderly
<1>3. SameParts => Wholes'
  BY <1>1, <1>2, SamePartsAreKept
<1>4. UNCHANGED <<center, sub, schema, task>> => Wholes'
  BY <1>3 DEF SameParts, Live
<1>5. ASSUME NEW q \in Requests, NEW t \in Tasks, FinishCreate(q, t) PROVE Wholes'
  <2> DEFINE i == req[q].id
             row == req[q].copy
  <2>1. i \in Ids /\ row \in Center /\ ~Live(i)
    BY <1>1, <1>5 DEF FinishCreate, Typed, Shapes, Holds, Names, NewKeys
  <2>2. CASE SlugFree(i, row.slug)
    <3>1. Inserted(i, row, t)
      BY <1>1, <1>5, <2>1, <2>2, InsertIsTyped DEF FinishCreate
    <3> QED BY <1>1, <1>2, <2>1, <2>2, <3>1, InsertedIsWhole
  <2>3. CASE ~SlugFree(i, row.slug)
    BY <1>4, <1>5, <2>3 DEF FinishCreate
  <2> QED BY <2>2, <2>3
<1>6. ASSUME NEW q \in Requests, NEW t \in Tasks, WritePatch(q, t) PROVE Wholes'
  <2> DEFINE i == req[q].id
             row == req[q].copy
  <2>1. i \in Ids /\ row \in Center /\ Holds(q) /\ "patch" \in traffic.kinds
    BY <1>1, <1>6 DEF WritePatch, Typed, Shapes, Holds, NoPatches
  <2>2. CASE ~Live(i) /\ SlugFree(i, row.slug)
    <3>1. Inserted(i, row, t)
      BY <1>1, <1>6, <2>1, <2>2, InsertIsTyped DEF WritePatch
    <3> QED BY <1>1, <1>2, <2>1, <2>2, <3>1, InsertedIsWhole
  <2>3. CASE ~Live(i) /\ ~SlugFree(i, row.slug)
    BY <1>4, <1>6, <2>3 DEF WritePatch
  <2>4. CASE Live(i)
    <3>1. center[i] \in Center /\ center[i].slug \in Slugs /\ row.slug \in Slugs
      BY <1>1, <2>1, <2>4 DEF Typed, TypeOK, Center, Live
    <3>2. Bears(i, row.slug) /\ Bears(i, center[i].slug)
      BY <2>1, <2>4 DEF Bears
    <3>3. row.slug = center[i].slug
      BY <2>1, <3>1, <3>2 DEF Names, OneName
    <3>4. center' = [center EXCEPT ![i] = row] /\ UNCHANGED <<sub, schema, task>>
      BY <1>6, <2>4 DEF WritePatch, PatchedRow
    <3> QED BY <1>1, <1>3, <2>1, <2>4, <3>3, <3>4 DEF SameParts, Typed, TypeOK, Live
  <2> QED BY <2>2, <2>3, <2>4
<1>7. ASSUME NEW q \in Requests, SavePlan(q) PROVE Wholes'
  <2>1. UNCHANGED <<center, schema, task>> /\ \A i \in Ids : sub[i] # None => sub'[i] # None
    <3>1. UNCHANGED <<center, schema, task>> /\ req[q].id \in Ids /\ req[q].plan \in Plans
      BY <1>1, <1>7 DEF SavePlan, Typed, TypeOK, Shapes, Planning, Req
    <3>2. SubWithPlan(sub[req[q].id], req[q].plan) \in Sub
      BY <3>1 DEF SubWithPlan, Sub
    <3> QED BY <1>1, <1>7, <3>1, <3>2 DEF SavePlan, Typed, TypeOK
  <2> QED BY <1>3, <2>1 DEF SameParts, Live
<1>8. ASSUME NEW q \in Requests, ActivateCenter(q) PROVE Wholes'
  <2>1. req[q].id \in Ids /\ UNCHANGED <<sub, schema, task>>
    BY <1>1, <1>8 DEF ActivateCenter, Typed, Shapes, Planning
  <2>2. CASE Live(req[q].id)
    <3>1. center' = [center EXCEPT ![req[q].id].status = "ACTIVE"]
      BY <1>8, <2>2 DEF ActivateCenter
    <3> QED BY <1>1, <1>3, <2>1, <2>2, <3>1, StatusMove DEF SameParts, Statuses, Live
  <2>3. CASE ~Live(req[q].id)
    BY <1>4, <1>8, <2>1, <2>3 DEF ActivateCenter
  <2> QED BY <2>2, <2>3
<1>9. ASSUME NEW i \in Ids, NEW st \in {"ACTIVE", "SUSPENDED"}, SetStatus(i, st) PROVE Wholes'
  <2>1. Live(i) /\ center' = [center EXCEPT ![i].status = st] /\ UNCHANGED <<sub, schema, task>>
    BY <1>9 DEF SetStatus
  <2> QED BY <1>1, <1>3, <2>1, StatusMove DEF SameParts, Statuses, Live
<1>10. ASSUME NEW i \in Ids, PeriodEnds(i) PROVE Wholes'
  <2>1. sub[i] \in Sub /\ UNCHANGED <<center, schema, task>>
    BY <1>1, <1>10 DEF PeriodEnds, Typed, TypeOK
  <2>2. [sub[i] EXCEPT !.over = TRUE] \in Sub
    BY <2>1 DEF Sub
  <2>3. sub' = [sub EXCEPT ![i] = [sub[i] EXCEPT !.over = TRUE]]
    BY <1>10 DEF PeriodEnds
  <2>4. \A j \in Ids : sub[j] # None => sub'[j] # None
    BY <1>1, <2>2, <2>3 DEF Typed, TypeOK
  <2> QED BY <1>3, <2>1, <2>4 DEF SameParts, Live
<1>11. ASSUME NEW d \in batch, SweepNext(d) PROVE Wholes'
  <2>1. UNCHANGED <<schema, task>>
    BY <1>11 DEF SweepNext
  <2>2. \A i \in Ids : Live(i) =>
          center'[i] # None /\ center'[i].slug = center[i].slug /\ center'[i].ready = center[i].ready
    BY <1>1, <1>11, SweepNextIsTyped DEF Live
  <2>3. \A i \in Ids : (center'[i] # None <=> center[i] # None) /\ (sub[i] # None => sub'[i] # None)
    BY <1>1, <1>11, SweepNextIsTyped
  <2> QED BY <1>3, <2>1, <2>2, <2>3 DEF SameParts
<1>12. ASSUME NEW t \in Tasks, TaskStep(t) PROVE Wholes'
  BY <1>1, <1>2, <1>12, BuiltIsWhole, MarkedIsWhole, RemovalIsWhole, ErasedIsWhole DEF TaskStep
<1>13. ASSUME NEW i \in Ids, NEW t \in Tasks, RequestDelete(i, t) PROVE Wholes'
  BY <1>1, <1>2, <1>13, DeletedIsWhole
<1> QED BY <1>2, <1>4, <1>5, <1>6, <1>7, <1>8, <1>9, <1>10, <1>11, <1>12, <1>13
        DEF vars, Next, RequestStep, BeginCreate, LoadPatch, LoadPlan, SweepLoad, SweepStep

\* Nothing is left half made or half deleted: when all that was queued has run
\* without a failure and no two deletions overlapped, a live center has its
\* subscription, its own migrated schema and its flag, and nothing is left of
\* another.
THEOREM QuietCentersStayWhole == AppSpec => []QuietCentersAreWhole
<1> DEFINE IInv == Names /\ Owners /\ NoPatches /\ Wholes
<1>1. AppInit => IInv
  <2> SUFFICES ASSUME Init PROVE IInv
    BY DEF AppInit
  <2>1. Names /\ \A i \in Ids : ~Live(i)
    BY NamesAtStart DEF Init, Live
  <2>2. \A t \in Tasks : task[t].op = "idle"
    BY DEF Init, NoTask
  <2>3. OneRemoval /\ RemovesALive /\ SetsUpALive /\ Complete
    BY <2>1, <2>2 DEF OneRemoval, RemovesALive, SetsUpALive, Complete, Removing, Named, InSetUp
  <2>4. NoPatches /\ Owners
    BY DEF Init, NoPatches, Owners, Quiet
  <2> QED BY <2>1, <2>3, <2>4 DEF Wholes
<1>2. IInv /\ [AppNext]_<<vars, desk>> => IInv'
  BY NamesKept, OwnersKept, NoPatchesKept, WholesKept, DeskStepsAreStutters DEF Names
<1>3. IInv => QuietCentersAreWhole
  <2> SUFFICES ASSUME IInv, AllQuiet, Orderly PROVE
        /\ \A i \in Ids : (sub[i] # None) <=> Live(i)
        /\ \A s \in Slugs : (schema[s] # None) <=> (s \in SlugsTaken)
        /\ \A i \in Ids : Live(i) =>
             /\ schema[center[i].slug] = [madeFor |-> i, built |-> TRUE]
             /\ traffic.probe /\ "patch" \notin traffic.kinds => center[i].ready
    BY DEF QuietCentersAreWhole, Orderly
  <2>1. Erasing = {} /\ Dropping = {} /\ Migrating = {} /\ InSetUp = {}
    BY DEF AllQuiet, NoTask, Erasing, Dropping, Migrating, InSetUp
  <2>2. Typed /\ Complete
    BY DEF Names, Wholes
  <2>3. ASSUME NEW i \in Ids, Live(i)
        PROVE  /\ sub[i] # None /\ center[i].slug \in Slugs /\ schema[center[i].slug] # None
               /\ schema[center[i].slug] = [madeFor |-> i, built |-> TRUE]
               /\ traffic.probe /\ "patch" \notin traffic.kinds => center[i].ready
    <3>1. center[i].slug \in Slugs /\ sub[i] # None /\ schema[center[i].slug] # None
      BY <2>1, <2>2, <2>3 DEF Complete, Typed, TypeOK, Center, Live
    <3>2. schema[center[i].slug] \in Schema /\ schema[center[i].slug].built
      BY <2>1, <2>2, <2>3, <3>1 DEF Complete, Typed, TypeOK
    <3>3. schema[center[i].slug].madeFor \in Ids
      BY <3>2 DEF Schema
    <3>4. schema[center[i].slug].madeFor = i
      BY <2>3, <3>1, <3>3 DEF Owners, Orderly, Names, NamesAreOwn
    <3>5. schema[center[i].slug] = [madeFor |-> i, built |-> TRUE]
      <4> DEFINE x == schema[center[i].slug]
      <4>1. x.built = TRUE
        BY <3>2 DEF Schema
      <4>2. x = [madeFor |-> x.madeFor, built |-> x.built]
        BY <3>2 DEF Schema
      <4> QED BY <3>4, <4>1, <4>2
    <3> QED BY <2>1, <2>2, <2>3, <3>1, <3>5 DEF Complete
  <2>4. \A i \in Ids : (sub[i] # None) <=> Live(i)
    BY <2>2, <2>3 DEF Typed, SubsHaveCenters
  <2>5. ASSUME NEW s \in Slugs PROVE (schema[s] # None) <=> (s \in SlugsTaken)
    <3>1. schema[s] # None => schema[s].madeFor \in Ids
      BY <2>2 DEF Typed, TypeOK, Schema
    <3>2. schema[s] # None => s \in SlugsTaken
      BY <3>1, TakenSlugs DEF Owners, Orderly
    <3>3. ASSUME s \in SlugsTaken PROVE schema[s] # None
      <4>1. PICK i \in Ids : Live(i) /\ center[i].slug = s
        BY <3>3, TakenSlugs
      <4> QED BY <2>3, <4>1
    <3> QED BY <3>2, <3>3
  <2> QED BY <2>3, <2>4, <2>5
<1> QED BY <1>1, <1>2, <1>3, PTL DEF AppSpec

-----------------------------------------------------------------------------
(* The life of a center.                                                   *)

\* Where a row is edited and a center deleted only while nothing else goes on,
\* the copy that a request holds is as old as its row.
Copies ==
  "patch" \in traffic.alone /\ "delete" \in traffic.alone =>
    \A q \in Requests : req[q].op = "patch" =>
      /\ Live(req[q].id) /\ req[q].copy.ready = center[req[q].id].ready
      /\ center[req[q].id].slug \notin InSetUp
      /\ \A t \in Tasks : ~Removing(t)

\* The rows that are being edited stay, and nothing new is done to them.
SameCopies ==
  /\ \A q \in Requests : req'[q].op = "patch" => req'[q] = req[q]
  /\ \A q \in Requests : req'[q].op = "patch" =>
       /\ center'[req[q].id] # None /\ center'[req[q].id].slug = center[req[q].id].slug
       /\ center'[req[q].id].ready = center[req[q].id].ready
       /\ center[req[q].id].slug \in InSetUp' => center[req[q].id].slug \in InSetUp
  /\ \A t \in Tasks : task'[t].op \in {"delete", "clean", "drop", "erase"} => Removing(t)

LEMMA SameCopiesAreKept ==
  ASSUME Typed, Copies, "patch" \in traffic.alone, "delete" \in traffic.alone, SameCopies
  PROVE  Copies'
<1> SUFFICES ASSUME NEW q \in Requests, req'[q].op = "patch"
             PROVE  /\ center'[req'[q].id] # None /\ req'[q].copy.ready = center'[req'[q].id].ready
                    /\ center'[req'[q].id].slug \notin InSetUp'
                    /\ \A t \in Tasks : ~(task'[t].op \in {"delete", "clean", "drop", "erase"})
  BY DEF Copies, Live, Removing, Named
<1>1. req'[q] = req[q] /\ req[q].op = "patch"
  BY DEF SameCopies
<1>2. /\ Live(req[q].id) /\ req[q].copy.ready = center[req[q].id].ready
      /\ center[req[q].id].slug \notin InSetUp /\ \A t \in Tasks : ~Removing(t)
  BY <1>1 DEF Copies
<1> QED BY <1>1, <1>2 DEF SameCopies

\* A new row bears a name that is none of a live center.
LEMMA InsertedCopies ==
  ASSUME Names, Copies, "patch" \in traffic.alone, "delete" \in traffic.alone,
         NEW q \in Requests, NEW t \in Tasks, req[q].op \in {"create", "patch"}, ~Live(req[q].id),
         SlugFree(req[q].id, req[q].copy.slug), Inserted(req[q].id, req[q].copy, t),
         req' = [req EXCEPT ![q] = Quiet]
  PROVE  Copies'
<1> DEFINE i == req[q].id
           name == req[q].copy.slug
<1>1. Typed /\ i \in Ids /\ \A p \in Requests : req'[p] = IF p = q THEN Quiet ELSE req[p]
  BY ReqStep, IdleAreTyped DEF Names, Typed, Shapes, Holds
<1>2. /\ task[t].op = "idle" /\ task'[t].op = "migrate" /\ task'[t].slug = name
      /\ \A u \in Tasks \ {t} : task'[u] = task[u]
      /\ \A j \in Ids \ {i} : center'[j] = center[j]
  BY DEF Inserted, NoTask
<1>3. InSetUp' = InSetUp \cup {name}
  BY <1>2 DEF InSetUp
<1>4. \A u \in Tasks : task'[u].op \in {"delete", "clean", "drop", "erase"} => Removing(u)
  BY <1>2 DEF Removing, Named
<1>5. ASSUME NEW p \in Requests, req'[p].op = "patch"
      PROVE  /\ req'[p] = req[p]
             /\ center'[req[p].id] # None /\ center'[req[p].id].slug = center[req[p].id].slug
             /\ center'[req[p].id].ready = center[req[p].id].ready
             /\ center[req[p].id].slug \in InSetUp' => center[req[p].id].slug \in InSetUp
  <2>1. p # q /\ req'[p] = req[p]
    BY <1>1, <1>5 DEF Quiet
  <2>2. Live(req[p].id) /\ req[p].id \in Ids
    BY <1>1, <1>5, <2>1 DEF Copies, Typed, Shapes, Holds
  <2>3. center'[req[p].id] = center[req[p].id] /\ center[req[p].id].slug # name
    BY <1>2, <2>2 DEF SlugFree
  <2> QED BY <1>3, <2>1, <2>2, <2>3 DEF Live
<1> QED BY <1>1, <1>4, <1>5, SameCopiesAreKept DEF SameCopies

LEMMA CopiesKept == Names /\ Copies /\ [Next]_vars => Copies'
<1> SUFFICES ASSUME Names, Copies, [Next]_vars, "patch" \in traffic.alone, "delete" \in traffic.alone
             PROVE  Copies'
  BY TrafficStays DEF Copies
<1> USE DEF Live
<1>1. Typed /\ Typed'
  BY TypedKept DEF Names
<1>2. SameCopies => Copies'
  BY <1>1, SameCopiesAreKept
<1>3. /\ \A q \in Requests : req[q].op = "patch" =>
            /\ req[q].id \in Ids /\ Live(req[q].id) /\ req[q].copy.ready = center[req[q].id].ready
            /\ center[req[q].id].slug \notin InSetUp
            /\ \A t \in Tasks : ~Removing(t)
  BY <1>1 DEF Copies, Typed, Shapes, Holds
<1>4. (\A q \in Requests : req'[q].op # "patch") => Copies'
  BY DEF Copies
\* The steps that leave the tasks alone, or only put a set-up further or away.
<1>5. ASSUME \A q \in Requests : req'[q].op = "patch" => req'[q] = req[q],
             \A i \in Ids : Live(i) => center'[i] # None /\ center'[i].slug = center[i].slug
                                      /\ (center[i].slug \notin InSetUp => center'[i].ready = center[i].ready),
             InSetUp' \subseteq InSetUp,
             \A t \in Tasks : task'[t].op \in {"delete", "clean", "drop", "erase"} => Removing(t)
      PROVE  Copies'
  BY <1>2, <1>3, <1>5 DEF SameCopies
<1>6. ASSUME \A q \in Requests : req'[q].op = "patch" => req'[q] = req[q],
             \A i \in Ids : Live(i) => center'[i] # None /\ center'[i].slug = center[i].slug
                                      /\ center'[i].ready = center[i].ready,
             task' = task
      PROVE  Copies'
  BY <1>5, <1>6 DEF InSetUp, Removing, Named
<1>7. ASSUME NEW q \in Requests, RequestStep(q) PROVE Copies'
  <2>1. ASSUME NEW i \in Ids, NEW b \in Bases, BeginCreate(q, i, b) PROVE Copies'
    <3>1. UNCHANGED <<center, task>> /\ \A p \in Requests \ {q} : req'[p] = req[p]
      BY <1>1, <2>1 DEF BeginCreate, Typed, TypeOK
    <3>2. req'[q].op = "create"
      BY <1>1, <2>1, BeginCreateIsTyped
    <3> QED BY <1>6, <3>1, <3>2
  <2>2. ASSUME NEW i \in Ids, NEW st \in Statuses, LoadPatch(q, i, st) PROVE Copies'
    <3>1. /\ \A t \in Tasks : task[t].op = "idle"
          /\ \A p \in Requests : req[p].op = "idle"
          /\ UNCHANGED <<center, task>> /\ center[i] # None
      BY <2>2 DEF LoadPatch, MayBegin, AllQuiet, NoTask, Quiet
    <3>2. \A p \in Requests \ {q} : req'[p] = req[p]
      BY <1>1, <2>2 DEF LoadPatch, Typed, TypeOK
    <3>3. req'[q].id = i /\ req'[q].copy.ready = center[i].ready
      BY <1>1, <2>2, LoadPatchIsTyped
    <3>4. InSetUp' = {}
      BY <3>1 DEF InSetUp
    <3> QED BY <3>1, <3>2, <3>3, <3>4 DEF Copies, Removing, Named
  <2>3. ASSUME NEW i \in Ids, NEW p \in Plans, LoadPlan(q, i, p) PROVE Copies'
    <3>1. UNCHANGED <<center, task>> /\ \A r \in Requests \ {q} : req'[r] = req[r]
      BY <1>1, <2>3 DEF LoadPlan, Typed, TypeOK
    <3>2. req'[q].op = "plan"
      BY <1>1, <2>3 DEF LoadPlan, Quiet, Typed, TypeOK
    <3> QED BY <1>6, <3>1, <3>2
  <2>4. ASSUME NEW t \in Tasks, FinishCreate(q, t) PROVE Copies'
    <3>1. /\ req[q].op = "create" /\ ~Live(req[q].id) /\ req[q].id \in Ids /\ req[q].copy \in Center
          /\ req' = [req EXCEPT ![q] = Quiet]
      BY <1>1, <2>4 DEF FinishCreate, Names, NewKeys, Typed, Shapes, Holds
    <3>2. CASE SlugFree(req[q].id, req[q].copy.slug)
      <4>1. Inserted(req[q].id, req[q].copy, t)
        BY <1>1, <2>4, <3>1, <3>2, InsertIsTyped DEF FinishCreate
      <4> QED BY <3>1, <3>2, <4>1, InsertedCopies
    <3>3. CASE ~SlugFree(req[q].id, req[q].copy.slug)
      <4>1. \A p \in Requests : req'[p] = IF p = q THEN Quiet ELSE req[p]
        BY <1>1, <3>1, ReqStep, IdleAreTyped
      <4> QED BY <1>6, <2>4, <3>3, <4>1 DEF FinishCreate, Quiet
    <3> QED BY <3>2, <3>3
  <2>5. ASSUME NEW t \in Tasks, WritePatch(q, t) PROVE Copies'
    <3> DEFINE i == req[q].id
               row == req[q].copy
    <3>1. i \in Ids /\ row \in Center /\ Live(i) /\ row.ready = center[i].ready /\ Holds(q)
      BY <1>1, <1>3, <2>5 DEF WritePatch, Typed, Shapes, Holds
    <3>2. center[i].slug \in Slugs /\ row.slug \in Slugs /\ Bears(i, row.slug) /\ Bears(i, center[i].slug)
      BY <1>1, <3>1 DEF Typed, TypeOK, Center, Bears
    <3>3. row.slug = center[i].slug
      BY <3>1, <3>2 DEF Names, OneName
    <3>4. center' = [center EXCEPT ![i] = row] /\ UNCHANGED task /\ req' = [req EXCEPT ![q] = Quiet]
      BY <2>5, <3>1 DEF WritePatch, PatchedRow
    <3>5. \A p \in Requests : req'[p] = IF p = q THEN Quiet ELSE req[p]
      BY <1>1, <3>4, ReqStep, IdleAreTyped
    <3> QED BY <1>1, <1>6, <3>1, <3>3, <3>4, <3>5 DEF Typed, TypeOK, Quiet
  <2>6. ASSUME SavePlan(q) PROVE Copies'
    <3>1. UNCHANGED <<center, task>> /\ \A r \in Requests \ {q} : req'[r] = req[r]
      BY <1>1, <2>6 DEF SavePlan, Typed, TypeOK
    <3>2. req'[q].op # "patch"
      BY <1>1, <2>6 DEF SavePlan, Quiet, Typed, TypeOK, Req
    <3> QED BY <1>6, <3>1, <3>2
  <2>7. ASSUME ActivateCenter(q) PROVE Copies'
    <3>1. /\ task' = task /\ req[q].id \in Ids
          /\ \A p \in Requests : req'[p] = IF p = q THEN Quiet ELSE req[p]
      BY <1>1, <2>7, ReqStep, IdleAreTyped DEF ActivateCenter, Typed, Shapes, Planning
    <3>2. \A i \in Ids : Live(i) => center'[i] # None /\ center'[i].slug = center[i].slug
                                     /\ center'[i].ready = center[i].ready
      BY <1>1, <2>7, <3>1, StatusMove DEF ActivateCenter, Statuses
    <3> QED BY <1>6, <3>1, <3>2 DEF Quiet
  <2> QED BY <1>7, <2>1, <2>2, <2>3, <2>4, <2>5, <2>6, <2>7 DEF RequestStep
<1>8. ASSUME NEW i \in Ids, NEW st \in {"ACTIVE", "SUSPENDED"}, SetStatus(i, st) PROVE Copies'
  BY <1>1, <1>6, <1>8, StatusMove DEF SetStatus, Statuses
<1>9. ASSUME NEW i \in Ids, NEW t \in Tasks, RequestDelete(i, t) PROVE Copies'
  <2>1. \A q \in Requests : req'[q].op = "idle"
    BY <1>9 DEF RequestDelete, MayBegin, AllQuiet, Quiet
  <2> QED BY <1>4, <2>1
<1>10. ASSUME NEW t \in Tasks, Build(t) PROVE Copies'
  <2>1. /\ \A u \in Tasks \ {t} : task'[u] = task[u]
        /\ task[t].op = "migrate"
        /\ \/ task'[t].op = "idle"
           \/ task'[t].op \in {"migrate", "mark"} /\ task'[t].slug = task[t].slug
    BY <1>1, <1>10, Retried DEF Build, NoTask, Typed, TypeOK, Task
  <2>2. InSetUp' \subseteq InSetUp
    BY <2>1 DEF InSetUp
  <2> QED BY <1>5, <1>10, <2>1, <2>2 DEF Build, Removing, Named
<1>11. ASSUME NEW t \in Tasks, Mark(t) PROVE Copies'
  <2>1. /\ \A u \in Tasks \ {t} : task'[u] = task[u]
        /\ task[t].op = "mark" /\ req' = req
        /\ \/ task'[t].op = "idle"
           \/ task'[t].op = "migrate" /\ task'[t].slug = task[t].slug
    BY <1>1, <1>11, Retried DEF Mark, NoTask, Typed, TypeOK
  <2>2. InSetUp' \subseteq InSetUp /\ task[t].slug \in InSetUp
    BY <2>1 DEF InSetUp
  <2>3. \A i \in Ids : Live(i) => center'[i] # None /\ center'[i].slug = center[i].slug
    BY <1>1, <1>11, MarkIsTyped
  <2>4. ASSUME NEW i \in Ids, Live(i), center[i].slug \notin InSetUp PROVE center'[i].ready = center[i].ready
    <3>1. center[i] \in Center /\ center'[i] \in Center /\ center[i].slug # task[t].slug
      BY <1>1, <2>2, <2>3, <2>4 DEF Typed, TypeOK
    <3>2. center'[i].ready <=> center[i].ready
      BY <1>1, <1>11, <2>4, <3>1, MarkIsTyped
    <3> QED BY <3>1, <3>2 DEF Center
  <2> QED BY <1>5, <2>1, <2>2, <2>3, <2>4 DEF Removing, Named
<1>12. ASSUME NEW t \in Tasks, Removing(t), req' = req PROVE Copies'
  BY <1>3, <1>4, <1>12
<1>13. ASSUME NEW d \in batch, SweepNext(d) PROVE Copies'
  <2>1. \A i \in Ids : Live(i) => center'[i] # None /\ center'[i].slug = center[i].slug
                                   /\ center'[i].ready = center[i].ready
    BY <1>1, <1>13, SweepNextIsTyped
  <2> QED BY <1>6, <1>13, <2>1 DEF SweepNext
<1>14. ASSUME Failure PROVE Copies'
  <2>1. ASSUME NEW t \in Tasks, BuildFails(t) PROVE Copies'
    <3>1. /\ \A u \in Tasks \ {t} : task'[u] = task[u]
          /\ task[t].op = "migrate"
          /\ \/ task'[t].op = "idle"
             \/ task'[t].op = "migrate" /\ task'[t].slug = task[t].slug
      BY <1>1, <2>1, Retried DEF BuildFails, NoTask
    <3>2. InSetUp' \subseteq InSetUp
      BY <3>1 DEF InSetUp
    <3> QED BY <1>5, <2>1, <3>1, <3>2 DEF BuildFails, Removing, Named
  <2>2. ASSUME NEW t \in Tasks, DropFails(t) \/ EraseFails(t) PROVE Copies'
    BY <1>12, <2>2 DEF DropFails, EraseFails, Removing, Named
  <2>3. ASSUME NEW d \in batch, NotifyFails(d) PROVE Copies'
    BY <1>6, <2>3 DEF NotifyFails
  <2>4. ASSUME Crash PROVE Copies'
    <3>1. /\ center' = center
          /\ \A p \in Requests : req'[p] = req[p] \/ req'[p].op = "idle"
          /\ \A u \in Tasks : task'[u] = task[u] \/ task'[u].op = "idle"
      BY <1>1, <2>4 DEF Crash, Typed, TypeOK, Quiet, NoTask
    <3>2. InSetUp' \subseteq InSetUp
      BY <3>1 DEF InSetUp
    <3> QED BY <1>5, <3>1, <3>2 DEF Removing, Named
  <2> QED BY <1>14, <2>1, <2>2, <2>3, <2>4 DEF Failure
<1>15. ASSUME NEW t \in Tasks, StartDelete(t) \/ Clean(t) \/ Drop(t) \/ Erase(t) PROVE Copies'
  BY <1>12, <1>15 DEF StartDelete, Clean, Drop, Erase, Removing, Named
<1>16. UNCHANGED <<center, req, task>> => Copies'
  BY <1>6
<1> QED BY <1>7, <1>8, <1>9, <1>10, <1>11, <1>13, <1>14, <1>15, <1>16
        DEF vars, Next, TaskStep, PeriodEnds, SweepLoad, SweepStep

StageOf == [i \in Ids |-> Stage(i)]

\* What a center's stage says of its row, in a state and in the next one.
LEMMA StageIs ==
  ASSUME Names
  PROVE  \A i \in Ids :
           /\ i \notin used => StageOf[i] = "none" /\ ~Live(i)
           /\ Coming(i) => StageOf[i] = "none" /\ ~Live(i) /\ i \in used
           /\ Live(i) => i \in used /\ ~Coming(i)
           /\ Live(i) /\ ~center[i].ready => StageOf[i] = "setup"
           /\ Live(i) /\ center[i].ready => StageOf[i] = "ready"
           /\ i \in used /\ ~Coming(i) /\ ~Live(i) => StageOf[i] = "gone"
<1> TAKE i \in Ids
<1>1. Live(i) => i \in used
  <2> SUFFICES ASSUME Live(i) PROVE i \in used
    OBVIOUS
  <2>1. center[i].slug \in Slugs /\ Bears(i, center[i].slug)
    BY DEF Names, Typed, TypeOK, Center, Live, Bears
  <2> QED BY <2>1 DEF Names, UsedKeys
<1>2. ASSUME Coming(i) PROVE ~Live(i) /\ i \in used
  <2>1. PICK q \in Requests : req[q].op = "create" /\ req[q].id = i
    BY <1>2 DEF Coming
  <2>2. ~Live(i)
    BY <2>1 DEF Names, NewKeys
  <2>3. req[q].copy.slug \in Slugs /\ Bears(i, req[q].copy.slug)
    BY <2>1 DEF Names, Typed, Shapes, Holds, Center, Bears
  <2> QED BY <2>2, <2>3 DEF Names, UsedKeys
<1> QED BY <1>1, <1>2 DEF StageOf, Stage

LEMMA NextStageIs ==
  ASSUME Names'
  PROVE  \A i \in Ids :
           /\ i \notin used' => StageOf'[i] = "none" /\ ~Live(i)'
           /\ Coming(i)' => StageOf'[i] = "none" /\ ~Live(i)' /\ i \in used'
           /\ Live(i)' => i \in used' /\ ~Coming(i)'
           /\ Live(i)' /\ ~center'[i].ready => StageOf'[i] = "setup"
           /\ Live(i)' /\ center'[i].ready => StageOf'[i] = "ready"
           /\ i \in used' /\ ~Coming(i)' /\ ~Live(i)' => StageOf'[i] = "gone"
<1> TAKE i \in Ids
<1>1. Live(i)' => i \in used'
  <2> SUFFICES ASSUME Live(i)' PROVE i \in used'
    OBVIOUS
  <2>1. center'[i].slug \in Slugs
    BY DEF Names, Typed, TypeOK, Center, Live
  <2>2. \E s \in Slugs : Bears(i, s)'
    BY <2>1 DEF Bears, Live
  <2> QED BY <2>2 DEF Names, UsedKeys
<1>2. ASSUME Coming(i)' PROVE ~Live(i)' /\ i \in used'
  <2>1. PICK q \in Requests : req'[q].op = "create" /\ req'[q].id = i
    BY <1>2 DEF Coming
  <2>2. ~Live(i)'
    BY <2>1 DEF Names, NewKeys
  <2>3. req'[q].copy.slug \in Slugs
    BY <2>1 DEF Names, Typed, Shapes, Holds, Center
  <2>4. \E s \in Slugs : Bears(i, s)'
    BY <2>1, <2>3 DEF Bears, Holds
  <2> QED BY <2>2, <2>4 DEF Names, UsedKeys
<1> QED BY <1>1, <1>2 DEF StageOf, Stage

\* One center moves, or none does.
LEMMA OneMoves ==
  ASSUME NEW i \in Ids, NEW from, NEW to, StageOf[i] \in from, StageOf'[i] = to,
         \A j \in Ids \ {i} : StageOf'[j] = StageOf[j]
  PROVE  Lifecycle!Go(i, from, to)
<1>1. StageOf' = [StageOf EXCEPT ![i] = to]
  BY DEF StageOf
<1> QED BY <1>1 DEF StageOf, Lifecycle!Go

LEMMA NoneMoves ==
  ASSUME \A j \in Ids : StageOf'[j] = StageOf[j]
  PROVE  UNCHANGED Lifecycle!stages
<1>1. StageOf' = StageOf
  BY DEF StageOf
<1> QED BY <1>1 DEF StageOf, Lifecycle!stages

\* Where no copy of a row is stale, every step of the system is a step of the
\* life of one center, or of none.
LEMMA LifecycleStep ==
  ASSUME Names, NoPatches, Copies, [Next]_vars,
         "patch" \in traffic.kinds => "patch" \in traffic.alone /\ "delete" \in traffic.alone
  PROVE  Lifecycle!Next \/ UNCHANGED Lifecycle!stages
<1> USE DEF Live
<1> DEFINE Goal == Lifecycle!Next \/ UNCHANGED Lifecycle!stages
<1>1. Typed /\ Typed' /\ Names'
  BY NamesKept, TypedKept DEF Names
<1>2. \A i \in Ids : center[i] # None => center[i].ready \in BOOLEAN
  BY <1>1 DEF Typed, TypeOK, Center
\* Nothing that a stage depends on changes.
<1>3. ASSUME used' = used, \A i \in Ids : Coming(i)' <=> Coming(i),
             \A i \in Ids : center'[i] # None <=> center[i] # None,
             \A i \in Ids : center[i] # None => center'[i].ready = center[i].ready
      PROVE  Goal
  <2>1. \A i \in Ids : Stage(i)' = Stage(i)
    BY <1>3 DEF Stage, Coming
  <2>2. \A i \in Ids : StageOf'[i] = StageOf[i]
    BY <2>1 DEF StageOf
  <2> QED BY <2>2, NoneMoves
<1>4. ASSUME UNCHANGED <<used, center>>, \A q \in Requests : req'[q].op = "create" => req'[q] = req[q],
             \A q \in Requests : req[q].op = "create" => req'[q] = req[q]
      PROVE  Goal
  <2>1. \A i \in Ids : Coming(i)' <=> Coming(i)
    BY <1>4 DEF Coming
  <2> QED BY <1>3, <1>4, <2>1
\* One center moves.
<1>5. ASSUME NEW i \in Ids, NEW q \in Requests, req[q].op = "create", req[q].id = i, used' = used,
             \A p \in Requests \ {q} : req'[p] = req[p], req'[q].op = "idle",
             \A j \in Ids \ {i} : center'[j] = center[j],
             center'[i] = None \/ (center'[i] # None /\ ~center'[i].ready)
      PROVE  Goal
  <2>1. \A j \in Ids \ {i} : Coming(j)' <=> Coming(j)
    BY <1>5 DEF Coming
  <2>2. \A j \in Ids \ {i} : Stage(j)' = Stage(j)
    BY <1>5, <2>1 DEF Stage, Coming
  <2>3. \A j \in Ids \ {i} : StageOf'[j] = StageOf[j]
    BY <2>2 DEF StageOf
  <2>4. Coming(i)
    BY <1>5 DEF Coming
  <2>5. StageOf[i] = "none" /\ i \in used
    BY <2>4, StageIs
  <2>6. \A p \in Requests \ {q} : Holds(p) => req[p].id # i
    BY <1>5 DEF Names, NewKeys
  <2>7. ~Coming(i)'
    BY <1>5, <2>6 DEF Coming, Holds
  <2>8. StageOf'[i] = "setup" \/ StageOf'[i] = "gone"
    BY <1>1, <1>5, <2>5, <2>7, NextStageIs
  <2>9. Lifecycle!Create(i) \/ Lifecycle!Refuse(i)
    BY <2>3, <2>5, <2>8, OneMoves DEF Lifecycle!Create, Lifecycle!Refuse
  <2> QED BY <2>9 DEF Lifecycle!Next
<1>6. ASSUME NEW i \in Ids, center'[i] = None, \A j \in Ids \ {i} : center'[j] = center[j],
             UNCHANGED <<used, req>>
      PROVE  Goal
  <2>1. \A j \in Ids : Coming(j)' <=> Coming(j)
    BY <1>6 DEF Coming
  <2>2. CASE center[i] = None
    BY <1>3, <1>6, <2>1, <2>2
  <2>3. CASE center[i] # None
    <3>1. StageOf[i] \in {"setup", "ready"} /\ i \in used /\ ~Coming(i)
      BY <1>2, <2>3, StageIs
    <3>2. ~Coming(i)'
      BY <2>1, <3>1
    <3>3. StageOf'[i] = "gone"
      BY <1>1, <1>6, <3>1, <3>2, NextStageIs
    <3>4. \A j \in Ids \ {i} : Stage(j)' = Stage(j)
      BY <1>6, <2>1 DEF Stage, Coming
    <3>5. \A j \in Ids \ {i} : StageOf'[j] = StageOf[j]
      BY <3>4 DEF StageOf
    <3>6. Lifecycle!Delete(i)
      BY <3>1, <3>3, <3>5, OneMoves DEF Lifecycle!Delete
    <3> QED BY <3>6 DEF Lifecycle!Next
  <2> QED BY <2>2, <2>3
<1>7. ASSUME NEW t \in Tasks, Mark(t) PROVE Goal
  <2>0. UNCHANGED <<used, req>>
    BY <1>7 DEF Mark
  <2>1. \A i \in Ids : Coming(i)' <=> Coming(i)
    BY <2>0 DEF Coming
  <2>2. \A i \in Ids : center'[i] # None <=> center[i] # None
    BY <1>1, <1>7, MarkIsTyped
  <2>3. CASE \E i \in Ids : center[i] # None /\ center[i].slug = task[t].slug /\ ~center[i].ready
    <3>1. PICK i \in Ids : center[i] # None /\ center[i].slug = task[t].slug /\ ~center[i].ready
      BY <2>3
    <3>2. center'[i] # None /\ center'[i].ready
      BY <1>1, <1>7, <3>1, MarkIsTyped
    <3>3. ASSUME NEW j \in Ids \ {i}, center[j] # None PROVE center'[j].ready = center[j].ready
      <4>1. center[j] # None /\ center'[j] # None /\ center[j].slug # task[t].slug
        BY <2>2, <3>1, <3>3 DEF Names, NamesAreOwn
      <4>2. center[j] \in Center /\ center'[j] \in Center
        BY <1>1, <4>1 DEF Typed, TypeOK
      <4>3. center'[j].ready <=> center[j].ready
        BY <1>1, <1>7, <4>1, MarkIsTyped
      <4> QED BY <4>2, <4>3 DEF Center
    <3>4. \A j \in Ids \ {i} : Stage(j)' = Stage(j)
      BY <2>0, <2>1, <2>2, <3>3 DEF Stage, Coming
    <3>5. \A j \in Ids \ {i} : StageOf'[j] = StageOf[j]
      BY <3>4 DEF StageOf
    <3>6. StageOf[i] = "setup" /\ StageOf'[i] = "ready"
      BY <1>1, <3>1, <3>2, StageIs, NextStageIs
    <3>7. Lifecycle!Open(i)
      BY <3>5, <3>6, OneMoves DEF Lifecycle!Open
    <3> QED BY <3>7 DEF Lifecycle!Next
  <2>4. CASE ~\E i \in Ids : center[i] # None /\ center[i].slug = task[t].slug /\ ~center[i].ready
    <3>1. ASSUME NEW j \in Ids, center[j] # None PROVE center'[j].ready = center[j].ready
      <4>1. center[j] \in Center /\ center'[j] \in Center
        BY <1>1, <2>2, <3>1 DEF Typed, TypeOK
      <4>2. center'[j].ready <=> center[j].ready
        BY <1>1, <1>7, <2>4, <3>1, MarkIsTyped
      <4> QED BY <4>1, <4>2 DEF Center
    <3> QED BY <1>3, <2>0, <2>1, <2>2, <3>1
  <2> QED BY <2>3, <2>4
<1>8. ASSUME NEW q \in Requests, NEW i \in Ids, NEW b \in Bases, BeginCreate(q, i, b) PROVE Goal
  <2>1. /\ i \notin used /\ used' = used \cup {i} /\ req[q].op = "idle" /\ UNCHANGED center
        /\ \A p \in Requests \ {q} : req'[p] = req[p]
    BY <1>1, <1>8 DEF BeginCreate, Typed, TypeOK, Quiet
  <2>2. req'[q].op = "create" /\ req'[q].id = i
    BY <1>1, <1>8, BeginCreateIsTyped
  <2>3. \A j \in Ids \ {i} : Stage(j)' = Stage(j)
    BY <2>1, <2>2 DEF Stage, Coming
  <2>4. \A j \in Ids \ {i} : StageOf'[j] = StageOf[j]
    BY <2>3 DEF StageOf
  <2>5. Coming(i)'
    BY <2>2 DEF Coming
  <2>6. StageOf[i] = "none" /\ StageOf'[i] = "none"
    BY <1>1, <2>1, <2>5, StageIs, NextStageIs
  <2>7. \A j \in Ids : StageOf'[j] = StageOf[j]
    BY <2>4, <2>6
  <2> QED BY <2>7, NoneMoves
<1>9. ASSUME NEW q \in Requests, NEW i \in Ids, NEW st \in Statuses, LoadPatch(q, i, st) PROVE Goal
  <2>1. UNCHANGED <<used, center>> /\ req[q].op = "idle" /\ \A p \in Requests \ {q} : req'[p] = req[p]
    BY <1>1, <1>9 DEF LoadPatch, Typed, TypeOK, Quiet
  <2>2. req'[q].op = "patch"
    BY <1>1, <1>9, LoadPatchIsTyped
  <2> QED BY <1>4, <2>1, <2>2
<1>10. ASSUME NEW q \in Requests, NEW i \in Ids, NEW p \in Plans, LoadPlan(q, i, p) PROVE Goal
  <2>1. UNCHANGED <<used, center>> /\ req[q].op = "idle" /\ \A r \in Requests \ {q} : req'[r] = req[r]
    BY <1>1, <1>10 DEF LoadPlan, Typed, TypeOK, Quiet
  <2>2. req'[q].op = "plan"
    BY <1>1, <1>10 DEF LoadPlan, Quiet, Typed, TypeOK
  <2> QED BY <1>4, <2>1, <2>2
<1>11. ASSUME NEW q \in Requests, NEW t \in Tasks, FinishCreate(q, t) PROVE Goal
  <2> DEFINE i == req[q].id
             row == req[q].copy
  <2>1. /\ req[q].op = "create" /\ i \in Ids /\ row \in Center /\ ~row.ready /\ center[i] = None
        /\ used' = used /\ req' = [req EXCEPT ![q] = Quiet]
    BY <1>1, <1>11 DEF FinishCreate, Names, NewKeys, Typed, Shapes, Holds
  <2>2. (\A p \in Requests \ {q} : req'[p] = req[p]) /\ req'[q].op = "idle"
    BY <1>1, <2>1 DEF Typed, TypeOK, Quiet
  <2>3. CASE SlugFree(i, row.slug)
    <3>1. Inserted(i, row, t)
      BY <1>1, <1>11, <2>1, <2>3, InsertIsTyped DEF FinishCreate
    <3>2. center'[i] # None /\ ~center'[i].ready /\ \A j \in Ids \ {i} : center'[j] = center[j]
      BY <2>1, <3>1 DEF Inserted
    <3> QED BY <1>5, <2>1, <2>2, <3>2
  <2>4. CASE ~SlugFree(i, row.slug)
    <3>1. center' = center
      BY <1>11, <2>4 DEF FinishCreate
    <3> QED BY <1>5, <2>1, <2>2, <3>1
  <2> QED BY <2>3, <2>4
<1>12. ASSUME NEW q \in Requests, NEW t \in Tasks, WritePatch(q, t) PROVE Goal
  <2> DEFINE i == req[q].id
             row == req[q].copy
  <2>1. req[q].op = "patch" /\ "patch" \in traffic.alone /\ "delete" \in traffic.alone
    BY <1>12 DEF WritePatch, NoPatches
  <2>2. i \in Ids /\ row \in Center /\ Live(i) /\ row.ready = center[i].ready
    BY <1>1, <2>1 DEF Copies, Typed, Shapes, Holds
  <2>3. center' = [center EXCEPT ![i] = row] /\ req' = [req EXCEPT ![q] = Quiet] /\ used' = used
    BY <1>12, <2>2 DEF WritePatch, PatchedRow
  <2>4. \A p \in Requests : req'[p] = IF p = q THEN Quiet ELSE req[p]
    BY <1>1, <2>3, ReqStep, IdleAreTyped
  <2>5. \A j \in Ids : Coming(j)' <=> Coming(j)
    BY <2>1, <2>4 DEF Coming, Quiet
  <2>6. /\ \A j \in Ids : center'[j] # None <=> center[j] # None
        /\ \A j \in Ids : center[j] # None => center'[j].ready = center[j].ready
    BY <1>1, <2>2, <2>3 DEF Typed, TypeOK
  <2> QED BY <1>3, <2>3, <2>5, <2>6
<1>13. ASSUME NEW q \in Requests, SavePlan(q) PROVE Goal
  <2>1. /\ UNCHANGED <<used, center>> /\ req[q].op = "plan"
        /\ \A r \in Requests \ {q} : req'[r] = req[r]
    BY <1>1, <1>13 DEF SavePlan, Typed, TypeOK
  <2>2. req'[q].op # "create"
    BY <1>1, <1>13 DEF SavePlan, Quiet, Typed, TypeOK, Req
  <2> QED BY <1>4, <2>1, <2>2
<1>14. ASSUME NEW i \in Ids, NEW st \in Statuses, center[i] # None,
              center' = [center EXCEPT ![i].status = st], used' = used,
              \A j \in Ids : Coming(j)' <=> Coming(j)
       PROVE  Goal
  <2>1. /\ \A j \in Ids : center'[j] # None <=> center[j] # None
        /\ \A j \in Ids : center[j] # None => center'[j].ready = center[j].ready
    BY <1>1, <1>14, StatusMove
  <2> QED BY <1>3, <1>14, <2>1
<1>15. ASSUME NEW q \in Requests, ActivateCenter(q) PROVE Goal
  <2>1. /\ used' = used /\ req[q].op = "activate" /\ req[q].id \in Ids /\ req' = [req EXCEPT ![q] = Quiet]
    BY <1>1, <1>15 DEF ActivateCenter, Typed, Shapes, Planning
  <2>2. \A p \in Requests : req'[p] = IF p = q THEN Quiet ELSE req[p]
    BY <1>1, <2>1, ReqStep, IdleAreTyped
  <2>3. \A j \in Ids : Coming(j)' <=> Coming(j)
    BY <2>1, <2>2 DEF Coming, Quiet
  <2>4. CASE center[req[q].id] # None
    BY <1>14, <1>15, <2>1, <2>3, <2>4 DEF ActivateCenter, Statuses
  <2>5. CASE center[req[q].id] = None
    BY <1>3, <1>15, <2>1, <2>3, <2>5 DEF ActivateCenter
  <2> QED BY <2>4, <2>5
<1>16. ASSUME NEW i \in Ids, NEW st \in {"ACTIVE", "SUSPENDED"}, SetStatus(i, st) PROVE Goal
  <2>1. \A j \in Ids : Coming(j)' <=> Coming(j)
    BY <1>16 DEF SetStatus, Coming
  <2> QED BY <1>14, <1>16, <2>1 DEF SetStatus, Statuses
<1>17. ASSUME NEW d \in batch, SweepNext(d) PROVE Goal
  <2>1. UNCHANGED <<used, req>>
    BY <1>17 DEF SweepNext
  <2>2. \A j \in Ids : Coming(j)' <=> Coming(j)
    BY <2>1 DEF Coming
  <2>3. /\ \A j \in Ids : center'[j] # None <=> center[j] # None
        /\ \A j \in Ids : center[j] # None => center'[j].ready = center[j].ready
    BY <1>1, <1>17, SweepNextIsTyped
  <2> QED BY <1>3, <2>1, <2>2, <2>3
<1>18. UNCHANGED <<used, req, center>> => Goal
  BY <1>4
<1>19. ASSUME NEW t \in Tasks, Erase(t) PROVE Goal
  BY <1>1, <1>6, <1>19 DEF Erase, Typed, TypeOK, Shapes, Removing, Named
<1>20. ASSUME NEW t \in Tasks, DropFails(t) PROVE Goal
  <2>1. CASE task[t].op = "drop"
    BY <1>18, <1>20, <2>1 DEF DropFails
  <2>2. CASE task[t].op = "erase"
    BY <1>1, <1>6, <1>20, <2>2 DEF DropFails, Typed, TypeOK, Shapes, Removing, Named
  <2> QED BY <1>20, <2>1, <2>2 DEF DropFails
<1>21. ASSUME Crash PROVE Goal
  <2>1. CASE req' = req
    BY <1>18, <1>21, <2>1 DEF Crash
  <2>2. ASSUME NEW q \in Requests, req' = [req EXCEPT ![q] = Quiet] PROVE Goal
    <3>1. UNCHANGED <<used, center>>
      BY <1>21 DEF Crash
    <3>2. (\A p \in Requests \ {q} : req'[p] = req[p]) /\ req'[q].op = "idle"
      BY <1>1, <2>2 DEF Typed, TypeOK, Quiet
    <3>3. CASE req[q].op = "create"
      <4>1. req[q].id \in Ids /\ center[req[q].id] = None
        BY <1>1, <3>3 DEF Names, NewKeys, Typed, Shapes, Holds
      <4> QED BY <1>5, <3>1, <3>2, <3>3, <4>1
    <3>4. CASE req[q].op # "create"
      BY <1>4, <3>1, <3>2, <3>4
    <3> QED BY <3>3, <3>4
  <2> QED BY <1>21, <2>1, <2>2 DEF Crash
<1> HIDE DEF Goal
<1>22. ASSUME Next PROVE Goal
  <2>1. ASSUME NEW q \in Requests, RequestStep(q) PROVE Goal
    BY <1>8, <1>9, <1>10, <1>11, <1>12, <1>13, <1>15, <2>1 DEF RequestStep
  <2>2. ASSUME NEW t \in Tasks, TaskStep(t) PROVE Goal
    BY <1>7, <1>18, <1>19, <2>2 DEF TaskStep, Build, StartDelete, Clean, Drop
  <2>3. ASSUME Failure PROVE Goal
    BY <1>18, <1>20, <1>21, <2>3 DEF Failure, BuildFails, EraseFails, NotifyFails
  <2> QED BY <1>16, <1>17, <1>18, <1>22, <2>1, <2>2, <2>3
          DEF Next, RequestDelete, PeriodEnds, SweepLoad, SweepStep
<1> QED BY <1>18, <1>22 DEF vars, Goal

\* A center goes through its stages one way, whatever fails: no deleted center
\* returns and no ready one is set up again, where nobody saves a stale row.
THEOREM CentersKeepLifecycle == AppSpec => KeepsLifecycle
<1> DEFINE IInv == Names /\ NoPatches /\ Copies
<1>1. AppInit => IInv
  <2>1. Init => \A q \in Requests : req[q].op = "idle"
    BY DEF Init, Quiet
  <2> QED BY <2>1, NamesAtStart DEF AppInit, NoPatches, Copies
<1>2. IInv /\ [AppNext]_<<vars, desk>> => IInv'
  BY NamesKept, NoPatchesKept, CopiesKept, DeskStepsAreStutters DEF Names
<1>3. IInv /\ [AppNext]_<<vars, desk>>
      => [("patch" \in traffic.kinds => "patch" \in traffic.alone /\ "delete" \in traffic.alone)
           => Lifecycle!Next \/ UNCHANGED Lifecycle!stages]_vars
  BY LifecycleStep, DeskStepsAreStutters
<1> QED BY <1>1, <1>2, <1>3, PTL DEF AppSpec, KeepsLifecycle

-----------------------------------------------------------------------------
(* A phone number waits for one answer at a time.                          *)

Answered == {"RESOLVED", "REJECTED"}

DeskTypes ==
  /\ contact \in [ContactKeys -> Contact \cup {None}]
  /\ form \in [Requests -> Form \cup {NoForm}]

Inserting(q) == form[q].op = "insert"
Patching(q)  == form[q].op = "patch"

\* The load under which the promise is kept.
Careful == "contact" \in traffic.alone /\ "reopen" \notin traffic.kinds

\* Rows: the promise itself.
OneEach ==
  \A j, k \in ContactKeys :
    Waits(j) /\ Waits(k) /\ contact[j].phone = contact[k].phone => j = k

\* A visitor who has been checked is the only one, and no row of his number
\* waits.
CheckedAlone ==
  \A q \in Requests : Inserting(q) =>
    /\ \A k \in ContactKeys : Waits(k) => contact[k].phone # form[q].phone
    /\ \A p \in Requests : Inserting(p) => p = q

\* An answer not saved yet changes no phone number; where it leaves the row
\* waiting, no other row of that number waits, no other answer is going to
\* make one wait, and no visitor of that number has been checked.
AnswersFit ==
  \A q \in Requests : Patching(q) =>
    LET f == form[q] IN
    /\ contact[f.id] # None /\ contact[f.id].phone = f.row.phone
    /\ f.row.status \notin Answered =>
         /\ \A k \in ContactKeys : Waits(k) /\ contact[k].phone = f.row.phone => k = f.id
         /\ \A p \in Requests :
              /\ Patching(p) /\ form[p].row.status \notin Answered
                   /\ form[p].row.phone = f.row.phone => form[p].id = f.id
              /\ Inserting(p) => form[p].phone # f.row.phone

DismissalsFit ==
  \A q \in Requests : form[q].op \in {"delete", "tell"} => contact[form[q].id] # None

DeskInv == DeskTypes /\ DismissalsFit
           /\ (Careful => OneEach /\ CheckedAlone /\ AnswersFit)
-----------------------------------------------------------------------------
\* The load is chosen once: no step of the centers changes it.
LEMMA LoadIsKept == Next => traffic' = traffic
  BY DEF Next, RequestStep, BeginCreate, LoadPatch, LoadPlan, FinishCreate, WritePatch,
         SavePlan, ActivateCenter, SetStatus, RequestDelete, PeriodEnds, TaskStep, Build,
         Mark, StartDelete, Clean, Drop, Erase, SweepLoad, SweepStep, SweepNext, Failure,
         BuildFails, DropFails, EraseFails, NotifyFails, Crash

\* The kinds of a form are told apart by op, and carry the fields of their kind.
LEMMA FormShapes ==
  ASSUME DeskTypes, NEW q \in Requests
  PROVE  /\ form[q] = NoForm \/ form[q].op \in {"insert", "tell", "delete", "patch"}
         /\ form[q].op = "insert" => form[q] \in [op : {"insert"}, phone : Phones]
         /\ form[q].op \in {"tell", "delete"} =>
              form[q] \in [op : {"tell", "delete"}, id : ContactKeys]
         /\ form[q].op = "patch" =>
              form[q] \in [op : {"patch"}, id : ContactKeys, row : Contact]
         /\ form[q] # NoForm => form[q] \in Form
  BY DEF DeskTypes, Form, NoForm

LEMMA DeskStarts == AppInit => DeskInv
  BY ContactsAssumption
  DEF AppInit, DeskInit, DeskInv, DeskTypes, DismissalsFit, OneEach, CheckedAlone,
      AnswersFit, Waits, Inserting, Patching, NoForm

\* A step that lets a request go and leaves the rows alone.
LEMMA FormDropped ==
  ASSUME DeskInv, NEW q \in Requests, UNCHANGED <<vars, contact>>,
         form' = [form EXCEPT ![q] = NoForm]
  PROVE  DeskInv'
  BY DEF DeskInv, DeskTypes, DismissalsFit, OneEach, CheckedAlone, AnswersFit, Waits,
         Inserting, Patching, NoForm, Careful, vars

LEMMA AskKeeps ==
  ASSUME DeskInv, NEW q \in Requests, NEW p \in Phones, Ask(q, p), UNCHANGED vars
  PROVE  DeskInv'
<1> DEFINE f == [op |-> "insert", phone |-> p]
<1>1. form' = [form EXCEPT ![q] = f] /\ contact' = contact /\ form[q] = NoForm
  BY DEF Ask, MayAsk
<1>2. f \in Form
  BY DEF Form
<1>3. DeskTypes' /\ DismissalsFit'
  BY <1>1, <1>2 DEF DeskInv, DeskTypes, DismissalsFit
<1>4. ASSUME Careful' PROVE (OneEach /\ CheckedAlone /\ AnswersFit)'
  <2>1. Careful /\ OneEach
    BY <1>4 DEF DeskInv, Careful, vars
  <2>2. \A r \in Requests : form[r] = NoForm
    BY <2>1 DEF Ask, MayAsk, DeskQuiet, Careful
  <2>3. \A k \in ContactKeys : Waits(k) => contact[k].phone # p
    BY DEF Ask, Existing, Kept, Waits, DeskInv, DeskTypes, Contact, STATUS_CHOICES
  <2>4. \A r \in Requests : form'[r] = IF r = q THEN f ELSE NoForm
    BY <1>1, <2>2 DEF DeskInv, DeskTypes
  <2>5. OneEach' /\ CheckedAlone'
    BY <1>1, <2>1, <2>3, <2>4 DEF OneEach, CheckedAlone, Inserting, Waits, NoForm
  <2>6. AnswersFit'
    BY <2>4 DEF AnswersFit, Patching, NoForm
  <2> QED BY <2>5, <2>6
<1> QED BY <1>3, <1>4 DEF DeskInv

LEMMA InsertKeeps ==
  ASSUME DeskInv, NEW q \in Requests, NEW k \in ContactKeys, InsertContact(q, k),
         UNCHANGED vars
  PROVE  DeskInv'
<1> DEFINE p == form[q].phone
           row == [phone |-> p, status |-> "PENDING", alive |-> TRUE]
           f == [op |-> "tell", id |-> k]
<1>1. /\ form' = [form EXCEPT ![q] = f] /\ contact' = [contact EXCEPT ![k] = row]
      /\ form[q].op = "insert" /\ contact[k] = None
  BY DEF InsertContact
<1>2. p \in Phones /\ row \in Contact /\ f \in Form
  BY <1>1, FormShapes DEF DeskInv, Contact, STATUS_CHOICES, Form
<1>3. DeskTypes'
  BY <1>1, <1>2 DEF DeskInv, DeskTypes
<1>4. DismissalsFit'
  <2>1. row # None
    BY <1>2, ContactsAssumption
  <2>2. \A j \in ContactKeys : contact'[j] = IF j = k THEN row ELSE contact[j]
    BY <1>1 DEF DeskInv, DeskTypes
  <2>3. \A r \in Requests : form'[r] = IF r = q THEN f ELSE form[r]
    BY <1>1 DEF DeskInv, DeskTypes
  <2>4. \A r \in Requests : form[r].op \in {"tell", "delete"} => form[r].id \in ContactKeys
    BY FormShapes DEF DeskInv
  <2>5. ASSUME NEW r \in Requests, form'[r].op \in {"delete", "tell"}
        PROVE  contact'[form'[r].id] # None
    <3>1. CASE r = q
      BY <2>1, <2>2, <2>3, <3>1
    <3>2. CASE r # q
      BY <2>1, <2>2, <2>3, <2>4, <2>5, <3>2 DEF DeskInv, DismissalsFit
    <3> QED BY <3>1, <3>2
  <2> QED BY <2>5 DEF DismissalsFit
<1>5. ASSUME Careful' PROVE (OneEach /\ CheckedAlone /\ AnswersFit)'
  <2>1. Careful /\ OneEach /\ CheckedAlone /\ AnswersFit
    BY <1>5 DEF DeskInv, Careful, vars
  <2>2. \A j \in ContactKeys : Waits(j) => contact[j].phone # p
    BY <1>1, <2>1 DEF CheckedAlone, Inserting
  <2>3. \A j \in ContactKeys : Waits(j)' <=> j = k \/ Waits(j)
    BY <1>1, <1>2, ContactsAssumption DEF Waits, DeskInv, DeskTypes
  <2>4. \A j \in ContactKeys : contact'[j] = IF j = k THEN row ELSE contact[j]
    BY <1>1 DEF DeskInv, DeskTypes
  <2>5. \A r \in Requests : form'[r] = IF r = q THEN f ELSE form[r]
    BY <1>1 DEF DeskInv, DeskTypes
  <2>6. OneEach'
    BY <2>1, <2>2, <2>3, <2>4 DEF OneEach
  <2>7. \A r \in Requests : ~Inserting(r)'
    BY <1>1, <2>1, <2>5 DEF CheckedAlone, Inserting
  <2>8. \A r \in Requests : Patching(r)' => Patching(r) /\ form'[r] = form[r]
    BY <1>1, <2>5 DEF Patching
  <2>9. ASSUME NEW r \in Requests, Patching(r)'
        PROVE  /\ contact'[form[r].id] # None
               /\ contact'[form[r].id].phone = form[r].row.phone
               /\ form[r].row.status \notin Answered => form[r].row.phone # p
    <3>1. Patching(r) /\ form[r].id \in ContactKeys
      BY <2>8, <2>9, FormShapes DEF Patching, DeskInv
    <3>2. /\ contact[form[r].id] # None
          /\ contact[form[r].id].phone = form[r].row.phone
          /\ form[r].row.status \notin Answered => p # form[r].row.phone
      BY <1>1, <2>1, <3>1 DEF AnswersFit, Inserting
    <3> QED BY <1>1, <2>4, <3>1, <3>2
  <2>10. AnswersFit'
    BY <2>1, <2>3, <2>4, <2>7, <2>8, <2>9 DEF AnswersFit
  <2> QED BY <2>6, <2>7, <2>10 DEF CheckedAlone
<1> QED BY <1>3, <1>4, <1>5 DEF DeskInv

LEMMA LoadAnswerKeeps ==
  ASSUME DeskInv, NEW q \in Requests, NEW k \in ContactKeys, NEW st \in STATUS_CHOICES,
         LoadAnswer(q, k, st), UNCHANGED vars
  PROVE  DeskInv'
<1> DEFINE row == [contact[k] EXCEPT !.status = st]
           f == [op |-> "patch", id |-> k, row |-> row]
<1>1. /\ form' = [form EXCEPT ![q] = f] /\ contact' = contact /\ Kept(k)
      /\ form[q] = NoForm
  BY DEF LoadAnswer, MayAsk
<1>2. contact[k] \in Contact /\ row \in Contact /\ f \in Form
  BY <1>1 DEF DeskInv, DeskTypes, Kept, Contact, Form
<1>3. DeskTypes'
  BY <1>1, <1>2 DEF DeskInv, DeskTypes
<1>4. DismissalsFit'
  BY <1>1 DEF DeskInv, DeskTypes, DismissalsFit
<1>5. ASSUME Careful' PROVE (OneEach /\ CheckedAlone /\ AnswersFit)'
  <2>1. Careful /\ OneEach /\ CheckedAlone /\ AnswersFit
    BY <1>5 DEF DeskInv, Careful, vars
  <2>2. \A r \in Requests : form'[r] = IF r = q THEN f ELSE form[r]
    BY <1>1 DEF DeskInv, DeskTypes
  <2>3. st \notin Answered => Waits(k)
    BY <1>1, <1>2, <2>1
    DEF LoadAnswer, Careful, Answered, Waits, Kept, STATUS_CHOICES, Contact
  <2>4. row.phone = contact[k].phone /\ row.status = st
    BY <1>2 DEF Contact
  <2>5. OneEach' /\ CheckedAlone'
    BY <1>1, <2>1, <2>2 DEF OneEach, CheckedAlone, Inserting, Waits
  <2>51. \A r \in Requests : r # q /\ Patching(r)' => Patching(r) /\ form'[r] = form[r]
    BY <2>2 DEF Patching
  <2>52. st \notin Answered =>
           \A j \in ContactKeys : Waits(j) /\ contact[j].phone = contact[k].phone => j = k
    BY <2>1, <2>3 DEF OneEach
  <2>53. \A r \in Requests : Patching(r) =>
           /\ contact[form[r].id] # None /\ contact[form[r].id].phone = form[r].row.phone
           /\ form[r].row.status \notin Answered =>
                \A j \in ContactKeys :
                  Waits(j) /\ contact[j].phone = form[r].row.phone => j = form[r].id
    BY <2>1 DEF AnswersFit
  <2>54. f.id = k /\ f.row = row
    OBVIOUS
  <2>6. ASSUME NEW r \in Requests, Patching(r)'
        PROVE  /\ contact[form'[r].id] # None
               /\ contact[form'[r].id].phone = form'[r].row.phone
               /\ form'[r].row.status \notin Answered =>
                    \A j \in ContactKeys :
                      Waits(j) /\ contact[j].phone = form'[r].row.phone => j = form'[r].id
    <3>1. CASE r = q
      <4>1. form'[r].id = k /\ form'[r].row = row
        BY <2>2, <2>54, <3>1
      <4> HIDE DEF row
      <4> QED BY <1>1, <2>4, <2>52, <4>1 DEF Kept
    <3>2. CASE r # q
      BY <2>51, <2>53, <2>6, <3>2
    <3> QED BY <3>1, <3>2
  <2>7. ASSUME NEW r \in Requests, NEW p \in Requests, Patching(r)', Patching(p)',
               form'[r].row.status \notin Answered, form'[p].row.status \notin Answered,
               form'[p].row.phone = form'[r].row.phone
        PROVE  form'[p].id = form'[r].id
    <3> HIDE DEF row
    <3>1. CASE r # q /\ p # q
      <4>1. /\ Patching(r) /\ form'[r] = form[r] /\ Patching(p) /\ form'[p] = form[p]
        BY <2>51, <2>7, <3>1
      <4> QED BY <2>1, <2>7, <4>1 DEF AnswersFit
    <3>2. CASE r = q /\ p # q
      <4>1. /\ form'[r].id = k /\ form'[r].row = row /\ Patching(p) /\ form'[p] = form[p]
        BY <2>2, <2>51, <2>54, <2>7, <3>2
      <4> QED BY <2>3, <2>4, <2>53, <2>7, <4>1
    <3>3. CASE r # q /\ p = q
      <4>1. /\ form'[p].id = k /\ form'[p].row = row /\ Patching(r) /\ form'[r] = form[r]
        BY <2>2, <2>51, <2>54, <2>7, <3>3
      <4> QED BY <2>3, <2>4, <2>53, <2>7, <4>1
    <3>4. CASE r = q /\ p = q
      BY <3>4
    <3> QED BY <3>1, <3>2, <3>3, <3>4
  <2>8. ASSUME NEW r \in Requests, NEW p \in Requests, Patching(r)', Inserting(p)',
               form'[r].row.status \notin Answered
        PROVE  form'[p].phone # form'[r].row.phone
    <3>1. p # q /\ Inserting(p) /\ form'[p] = form[p]
      BY <2>2, <2>8 DEF Inserting
    <3> HIDE DEF row
    <3>2. CASE r = q
      <4>1. form'[r].row = row
        BY <2>2, <2>54, <3>2
      <4> QED BY <2>1, <2>3, <2>4, <2>8, <3>1, <4>1 DEF CheckedAlone
    <3>3. CASE r # q
      <4>1. Patching(r) /\ form'[r] = form[r]
        BY <2>51, <2>8, <3>3
      <4> QED BY <2>1, <2>8, <3>1, <4>1 DEF AnswersFit
    <3> QED BY <3>2, <3>3
  <2>9. \A j \in ContactKeys : Waits(j)' <=> Waits(j)
    BY <1>1 DEF Waits
  <2>10. AnswersFit'
    BY <1>1, <2>6, <2>7, <2>8, <2>9 DEF AnswersFit
  <2> QED BY <2>5, <2>10
<1> QED BY <1>3, <1>4, <1>5 DEF DeskInv

LEMMA SaveAnswerKeeps ==
  ASSUME DeskInv, NEW q \in Requests, SaveAnswer(q), UNCHANGED vars
  PROVE  DeskInv'
<1> DEFINE k == form[q].id
           row == form[q].row
<1>1. /\ form' = [form EXCEPT ![q] = NoForm] /\ contact' = [contact EXCEPT ![k] = row]
      /\ form[q].op = "patch"
  BY DEF SaveAnswer
<1>2. k \in ContactKeys /\ row \in Contact /\ row # None
  BY <1>1, FormShapes, ContactsAssumption DEF DeskInv
<1>3. DeskTypes'
  BY <1>1, <1>2 DEF DeskInv, DeskTypes
<1>4. DismissalsFit'
  BY <1>1, <1>2 DEF DeskInv, DeskTypes, DismissalsFit, NoForm
<1>5. ASSUME Careful' PROVE (OneEach /\ CheckedAlone /\ AnswersFit)'
  <2>1. Careful /\ OneEach /\ CheckedAlone /\ AnswersFit
    BY <1>5 DEF DeskInv, Careful, vars
  <2>2. \A r \in Requests : form'[r] = IF r = q THEN NoForm ELSE form[r]
    BY <1>1 DEF DeskInv, DeskTypes
  <2>3. \A j \in ContactKeys : contact'[j] = IF j = k THEN row ELSE contact[j]
    BY <1>1, <1>2 DEF DeskInv, DeskTypes
  <2>4. \A j \in ContactKeys : Waits(j)' =>
          \/ j # k /\ Waits(j) /\ contact'[j] = contact[j]
          \/ j = k /\ row.status \notin Answered /\ contact'[j] = row
    BY <2>3 DEF Waits, Answered
  <2>5. Patching(q)
    BY <1>1 DEF Patching
  <2>6. contact[k] # None /\ contact[k].phone = row.phone
    BY <2>1, <2>5 DEF AnswersFit
  <2>7. row.status \notin Answered =>
          /\ \A j \in ContactKeys : Waits(j) /\ contact[j].phone = row.phone => j = k
          /\ \A p \in Requests : Inserting(p) => form[p].phone # row.phone
          /\ \A p \in Requests :
               Patching(p) /\ form[p].row.status \notin Answered
                 /\ form[p].row.phone = row.phone => form[p].id = k
    BY <2>1, <2>5 DEF AnswersFit
  <2>8. OneEach'
    BY <2>1, <2>4, <2>7 DEF OneEach
  <2>9. \A r \in Requests : /\ Inserting(r)' => Inserting(r) /\ form'[r] = form[r]
                            /\ Patching(r)' => Patching(r) /\ form'[r] = form[r]
    BY <2>2 DEF Inserting, Patching, NoForm
  <2>10. CheckedAlone'
    <3>1. ASSUME NEW r \in Requests, Inserting(r)', NEW j \in ContactKeys, Waits(j)'
          PROVE  contact'[j].phone # form'[r].phone
      <4>1. Inserting(r) /\ form'[r] = form[r]
        BY <2>9, <3>1 DEF Inserting
      <4>2. CASE j # k /\ Waits(j) /\ contact'[j] = contact[j]
        BY <2>1, <4>1, <4>2 DEF CheckedAlone
      <4>3. CASE j = k /\ row.status \notin Answered /\ contact'[j] = row
        BY <2>7, <4>1, <4>3
      <4> QED BY <2>4, <3>1, <4>2, <4>3
    <3>2. ASSUME NEW r \in Requests, Inserting(r)', NEW p \in Requests, Inserting(p)'
          PROVE  p = r
      BY <2>1, <2>9, <3>2 DEF CheckedAlone, Inserting
    <3> QED BY <3>1, <3>2 DEF CheckedAlone
  <2>11. \A r \in Requests : Patching(r) => form[r].id \in ContactKeys
    BY FormShapes DEF Patching, DeskInv
  <2>12. \A r \in Requests : Patching(r) =>
           contact'[form[r].id] # None /\ contact'[form[r].id].phone = form[r].row.phone
    BY <1>2, <2>1, <2>3, <2>6, <2>11 DEF AnswersFit
  <2>13. ASSUME NEW r \in Requests, Patching(r)', form'[r].row.status \notin Answered,
                NEW j \in ContactKeys, Waits(j)', contact'[j].phone = form'[r].row.phone
         PROVE  j = form'[r].id
    <3>1. Patching(r) /\ form'[r] = form[r]
      BY <2>9, <2>13 DEF Patching
    <3>2. CASE j # k /\ Waits(j) /\ contact'[j] = contact[j]
      BY <2>1, <2>13, <3>1, <3>2 DEF AnswersFit
    <3>3. CASE j = k /\ row.status \notin Answered /\ contact'[j] = row
      BY <2>7, <2>13, <3>1, <3>3
    <3> QED BY <2>4, <2>13, <3>2, <3>3
  <2>14. ASSUME NEW r \in Requests, Patching(r)', form'[r].row.status \notin Answered,
                NEW p \in Requests
         PROVE  /\ Patching(p)' /\ form'[p].row.status \notin Answered
                     /\ form'[p].row.phone = form'[r].row.phone => form'[p].id = form'[r].id
                /\ Inserting(p)' => form'[p].phone # form'[r].row.phone
    <3>1. Patching(r) /\ form'[r] = form[r]
      BY <2>9, <2>14 DEF Patching
    <3> QED BY <2>1, <2>9, <2>14, <3>1 DEF AnswersFit, Patching, Inserting
  <2>15. AnswersFit'
    BY <2>9, <2>12, <2>13, <2>14 DEF AnswersFit, Patching, Inserting, Waits
  <2> QED BY <2>8, <2>10, <2>15
<1> QED BY <1>3, <1>4, <1>5 DEF DeskInv

LEMMA LoadDismissalKeeps ==
  ASSUME DeskInv, NEW q \in Requests, NEW k \in ContactKeys, LoadDismissal(q, k),
         UNCHANGED vars
  PROVE  DeskInv'
<1> DEFINE f == [op |-> "delete", id |-> k]
<1>1. form' = [form EXCEPT ![q] = f] /\ contact' = contact /\ Kept(k)
  BY DEF LoadDismissal
<1>2. f \in Form
  BY DEF Form
<1>3. DeskTypes' /\ DismissalsFit'
  BY <1>1, <1>2 DEF DeskInv, DeskTypes, DismissalsFit, Kept
<1>4. Careful' => (OneEach /\ CheckedAlone /\ AnswersFit)'
  BY <1>1 DEF DeskInv, DeskTypes, OneEach, CheckedAlone, AnswersFit, Waits, Inserting,
              Patching, Careful, vars
<1> QED BY <1>3, <1>4 DEF DeskInv

LEMMA SaveDismissalKeeps ==
  ASSUME DeskInv, NEW q \in Requests, SaveDismissal(q), UNCHANGED vars
  PROVE  DeskInv'
<1> DEFINE k == form[q].id
<1>1. /\ form' = [form EXCEPT ![q] = NoForm]
      /\ contact' = [contact EXCEPT ![k].alive = FALSE] /\ form[q].op = "delete"
  BY DEF SaveDismissal
<1>2. k \in ContactKeys /\ contact[k] \in Contact
  BY <1>1, FormShapes DEF DeskInv, DeskTypes, DismissalsFit
<1>3. \A j \in ContactKeys :
        /\ contact'[j] # None <=> contact[j] # None
        /\ contact[j] # None => contact'[j].phone = contact[j].phone
        /\ Waits(j)' => Waits(j)
  BY <1>1, <1>2, ContactsAssumption DEF DeskInv, DeskTypes, Contact, Waits
<1>4. \A r \in Requests : form'[r] = IF r = q THEN NoForm ELSE form[r]
  BY <1>1 DEF DeskInv, DeskTypes
<1>5. DeskTypes'
  BY <1>1, <1>2 DEF DeskInv, DeskTypes, Contact
<1>6. DismissalsFit'
  BY <1>3, <1>4, FormShapes DEF DeskInv, DismissalsFit, NoForm
<1>7. ASSUME Careful' PROVE (OneEach /\ CheckedAlone /\ AnswersFit)'
  <2>1. Careful /\ OneEach /\ CheckedAlone /\ AnswersFit
    BY <1>7 DEF DeskInv, Careful, vars
  <2>2. \A r \in Requests : /\ Inserting(r)' => Inserting(r) /\ form'[r] = form[r]
                            /\ Patching(r)' => Patching(r) /\ form'[r] = form[r]
    BY <1>4 DEF Inserting, Patching, NoForm
  <2>3. \A r \in Requests : Patching(r) => form[r].id \in ContactKeys
    BY FormShapes DEF Patching, DeskInv
  <2>4. \A j \in ContactKeys : Waits(j)' => Waits(j) /\ contact'[j].phone = contact[j].phone
    BY <1>3 DEF Waits
  <2>5. OneEach'
    BY <2>1, <2>4 DEF OneEach
  <2>6. CheckedAlone'
    BY <2>1, <2>2, <2>4 DEF CheckedAlone, Inserting, Waits
  <2>7. ASSUME NEW r \in Requests, Patching(r)'
        PROVE  /\ contact'[form'[r].id] # None
               /\ contact'[form'[r].id].phone = form'[r].row.phone
               /\ form'[r].row.status \notin Answered =>
                    /\ \A j \in ContactKeys :
                         Waits(j)' /\ contact'[j].phone = form'[r].row.phone => j = form'[r].id
                    /\ \A p \in Requests :
                         /\ Patching(p)' /\ form'[p].row.status \notin Answered
                              /\ form'[p].row.phone = form'[r].row.phone
                              => form'[p].id = form'[r].id
                         /\ Inserting(p)' => form'[p].phone # form'[r].row.phone
    <3>1. Patching(r) /\ form'[r] = form[r] /\ form[r].id \in ContactKeys
      BY <2>2, <2>3, <2>7 DEF Patching
    <3>2. contact[form[r].id] # None /\ contact[form[r].id].phone = form[r].row.phone
      BY <2>1, <3>1 DEF AnswersFit
    <3>3. ASSUME form[r].row.status \notin Answered, NEW j \in ContactKeys, Waits(j)',
                 contact'[j].phone = form[r].row.phone
          PROVE  j = form[r].id
      BY <2>1, <2>4, <3>1, <3>3 DEF AnswersFit
    <3>4. ASSUME form[r].row.status \notin Answered, NEW p \in Requests
          PROVE  /\ Patching(p)' /\ form'[p].row.status \notin Answered
                      /\ form'[p].row.phone = form[r].row.phone => form'[p].id = form[r].id
                 /\ Inserting(p)' => form'[p].phone # form[r].row.phone
      BY <2>1, <2>2, <3>1, <3>4 DEF AnswersFit, Patching, Inserting
    <3> QED BY <1>3, <3>1, <3>2, <3>3, <3>4
  <2>8. AnswersFit'
    BY <2>7 DEF AnswersFit
  <2> QED BY <2>5, <2>6, <2>8
<1> QED BY <1>5, <1>6, <1>7 DEF DeskInv

LEMMA DeskKept == DeskInv /\ [AppNext]_<<vars, desk>> => DeskInv'
<1> SUFFICES ASSUME DeskInv, [AppNext]_<<vars, desk>> PROVE DeskInv'
  OBVIOUS
<1>1. CASE UNCHANGED desk /\ traffic' = traffic
  BY <1>1 DEF desk, DeskInv, DeskTypes, DismissalsFit, OneEach, CheckedAlone, AnswersFit,
              Waits, Inserting, Patching, Careful
<1>2. CASE \E q \in Requests : FormStep(q) /\ UNCHANGED vars
  <2> PICK q \in Requests : FormStep(q) /\ UNCHANGED vars
    BY <1>2
  <2>1. CASE \E p \in Phones : Ask(q, p)
    BY <2>1, AskKeeps
  <2>2. CASE \E k \in ContactKeys : InsertContact(q, k)
    BY <2>2, InsertKeeps
  <2>3. CASE \E k \in ContactKeys : LoadDismissal(q, k)
    BY <2>3, LoadDismissalKeeps
  <2>4. CASE \E k \in ContactKeys, st \in STATUS_CHOICES : LoadAnswer(q, k, st)
    BY <2>4, LoadAnswerKeeps
  <2>5. CASE TellOwners(q) \/ FormFails(q)
    BY <2>5, FormDropped DEF TellOwners, FormFails
  <2>6. CASE SaveAnswer(q)
    BY <2>6, SaveAnswerKeeps
  <2>7. CASE SaveDismissal(q)
    BY <2>7, SaveDismissalKeeps
  <2> QED BY <2>1, <2>2, <2>3, <2>4, <2>5, <2>6, <2>7 DEF FormStep
<1> QED BY <1>1, <1>2, LoadIsKept DEF AppNext, vars, desk

\* A phone number waits for one answer at a time (OneOpenRequest), for any
\* number of requests and numbers: the lookup of
\* ContactRequestCreateSerializer.validate is enough as long as no other
\* visitor comes between it and the INSERT.
THEOREM OneRequestWaits == AppSpec => []OneOpenRequest
<1>1. DeskInv => OneOpenRequest
  BY DEF DeskInv, OneOpenRequest, OneEach, Careful
<1> QED BY <1>1, DeskStarts, DeskKept, PTL DEF AppSpec
=============================================================================
