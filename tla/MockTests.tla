----------------------------- MODULE MockTests -----------------------------
(***************************************************************************)
(* The mock_tests app: teachers edit the tree of a test (sections, groups, *)
(* questions), publish it and clone it.                                    *)
(*                                                                         *)
(* A request checks the status of the test it has loaded and writes later, *)
(* without a lock; most writes are of the whole row it loaded.  Deleting   *)
(* sets deleted_at of one row and leaves its children as they are.  After  *)
(* the commit of a question its section's total and the test's are         *)
(* computed again, from what the request has in memory.                    *)
(***************************************************************************)
EXTENDS Integers, FiniteSets, Functions

CONSTANTS
  Tests, Sections, Groups, Questions,   \* primary keys (bounds)
  Scores,         \* the scores a question can be given
  DefaultTotal,   \* total_score of a new section
  Editors,        \* teachers and admins with a request at the same time
  Admins,         \* which of them are center admins
  Workloads,      \* the kinds of load the module is checked under
  Missing         \* no row, or nothing there

Kinds == {"new", "add", "rescore", "retitle", "retotal", "move", "remove",
          "patch", "publish", "clone", "discard"}

ASSUME EditorsAssumption == Admins \subseteq Editors /\ Editors # {}
ASSUME ScoresAssumption == Scores \subseteq Nat /\ Scores # {} /\ DefaultTotal \in Nat
ASSUME WorkloadsAssumption == Workloads \subseteq [kinds : SUBSET Kinds, alone : SUBSET Kinds]

VARIABLES
  test,       \* table mock_tests
  section,    \* table test_sections
  group,      \* table question_groups
  question,   \* table questions
  req,        \* req[e]: the request of editor e, with what it has loaded
  workload    \* the load of this behaviour, chosen at the start

editorVars == <<test, section, group, question, req, workload>>
rows == <<test, section, group, question>>

-----------------------------------------------------------------------------
(* Data.                                                                   *)

Test     == [status : {"DRAFT", "PUBLISHED"}, total : Nat, by : Editors, alive : BOOLEAN]
Section  == [test : Tests, total : Nat, alive : BOOLEAN]
Group    == [section : Sections, alive : BOOLEAN]
Question == [group : Groups, score : Scores, alive : BOOLEAN]
Keys     == Tests \cup Sections \cup Groups \cup Questions

\* What a request has in memory of a section and its test.
InMemory == [of : Sections, section : Nat, in : Tests, test : Nat]

\* A key belongs to one table, and there are rows to begin with.
ASSUME KeysAssumption ==
  /\ IsFiniteSet(Keys)
  /\ Tests # {} /\ Sections # {} /\ Groups # {} /\ Questions # {}
  /\ Tests \cap (Sections \cup Groups \cup Questions) = {}
  /\ Sections \cap (Groups \cup Questions) = {} /\ Groups \cap Questions = {}
ASSUME MissingAssumption ==
  /\ Missing \notin Keys /\ Missing \notin InMemory
  /\ Missing \notin Test \cup Section \cup Group \cup Question

NoEdit == [op |-> "idle", kind |-> Missing, id |-> Missing, row |-> Missing,
           seen |-> Missing, sum |-> 0]

\* A request of kind k begins.  A kind that the load keeps alone overlaps no
\* other request; the others overlap each other as they come.
MayBegin(e, k) ==
  /\ req[e] = NoEdit /\ k \in workload.kinds
  /\ \A f \in Editors : req[f] # NoEdit =>
       k \notin workload.alone /\ req[f].kind \notin workload.alone

AtRest == \A e \in Editors : req[e] = NoEdit

TestOfGroup(g)    == section[group[g].section].test
TestOfQuestion(q) == TestOfGroup(question[q].group)
SectionOf(q)      == group[question[q].group].section

\* Question.objects and the like: rows that are not soft-deleted.
Alive(tab, x) == tab[x] # Missing /\ tab[x].alive

\* What a student is shown of a test: rows whose parents are alive too.
Shown(q) ==
  /\ Alive(question, q) /\ Alive(group, question[q].group) /\ Alive(section, SectionOf(q))
Paper(t) == {q \in Questions : Shown(q) /\ TestOfQuestion(q) = t}
Papers(t) == {<<q, question[q].group, question[q].score>> : q \in Paper(t)}

\* The permission class: admins, and the teacher who made the test.
MayEdit(e, t) == e \in Admins \/ test[t].by = e

EditableAlways(t) == TRUE   \* fault: the status is not looked at

\* validate_mock_test_editable.
Editable(t) == test[t].status = "DRAFT"

\* A request loads a section with its test.
SeenOf(s) == [of |-> s, section |-> section[s].total,
              in |-> section[s].test, test |-> test[section[s].test].total]

\* The request goes on to step op with the row it is going to write.
Hold(e, k, op, x, row, seen) ==
  /\ MayBegin(e, k)
  /\ req' = [req EXCEPT ![e] = [op |-> op, kind |-> k, id |-> x, row |-> row,
                                 seen |-> seen, sum |-> 0]]
  /\ UNCHANGED <<rows, workload>>

\* It goes on, with what it has in memory now.
GoOn(e, op, row, seen, sum) ==
  req' = [req EXCEPT ![e] = [op |-> op, kind |-> req[e].kind, id |-> req[e].id, row |-> row,
                             seen |-> seen, sum |-> sum]]

Done(e) == req' = [req EXCEPT ![e] = NoEdit] /\ UNCHANGED workload

-----------------------------------------------------------------------------
(* Creating.                                                               *)

\* Keys are drawn at random: no two requests draw the same.
Fresh(tab, x) == tab[x] = Missing /\ \A e \in Editors : req[e].id # x

CreateTest(e, t, st) ==
  /\ MayBegin(e, "new") /\ Fresh(test, t)
  /\ test' = [test EXCEPT ![t] = [status |-> st, total |-> DefaultTotal,
                                  by |-> e, alive |-> TRUE]]
  /\ Done(e) /\ UNCHANGED <<section, group, question>>

\* The serializer finds the parent alive and its test editable.  Who made the
\* test is not asked for a new child.
CheckSection(e, s, t) ==
  /\ Fresh(section, s) /\ Alive(test, t) /\ Editable(t)
  /\ Hold(e, "add", "section", s, [test |-> t, total |-> DefaultTotal, alive |-> TRUE], Missing)

CheckGroup(e, g, s) ==
  /\ Fresh(group, g) /\ Alive(section, s) /\ Editable(section[s].test)
  /\ Hold(e, "add", "group", g, [section |-> s, alive |-> TRUE], Missing)

CheckQuestion(e, q, g, n) ==
  /\ Fresh(question, q) /\ Alive(group, g) /\ Editable(TestOfGroup(g))
  /\ Hold(e, "add", "question", q, [group |-> g, score |-> n, alive |-> TRUE],
          SeenOf(group[g].section))

\* The row is written, whole: inserted, or put over what is there now.
WriteSection(e) ==
  /\ req[e].op = "section"
  /\ section' = [section EXCEPT ![req[e].id] = req[e].row]
  /\ Done(e) /\ UNCHANGED <<test, group, question>>

WriteGroup(e) ==
  /\ req[e].op = "group"
  /\ group' = [group EXCEPT ![req[e].id] = req[e].row]
  /\ Done(e) /\ UNCHANGED <<test, section, question>>

\* A question's post_save signal loads the section of the group it is moved to,
\* and leaves the totals for after the commit.
WriteQuestion(e) ==
  LET row == req[e].row IN
  /\ req[e].op = "question"
  /\ question' = [question EXCEPT ![req[e].id] = row]
  /\ GoOn(e, "sum", row, IF req[e].kind = "move" THEN SeenOf(req[e].seen)
                         ELSE req[e].seen, 0)
  /\ UNCHANGED <<test, section, group, workload>>

-----------------------------------------------------------------------------
(* recalc_section_and_mock_scores, after the commit of a question, of the  *)
(* section the request has in memory and of the test in memory with it.     *)

ScoresOf(Q) == SumFunction([q \in Q |-> question[q].score])

\* Questions that are alive count, in groups that are not alive too.
SectionSum(s) == ScoresOf({q \in Questions : Alive(question, q) /\ SectionOf(q) = s})

TestSum(t) ==
  SumFunction([s \in {x \in Sections : Alive(section, x) /\ section[x].test = t} |->
                 section[s].total])

SumSection(e) ==
  /\ req[e].op = "sum"
  /\ GoOn(e, "store", req[e].row, req[e].seen, SectionSum(req[e].seen.of))
  /\ UNCHANGED <<rows, workload>>

\* The sum is stored only where it differs from the total in memory.
StoreSection(e) ==
  /\ req[e].op = "store"
  /\ section' = IF req[e].sum = req[e].seen.section THEN section
                ELSE [section EXCEPT ![req[e].seen.of].total = req[e].sum]
  /\ GoOn(e, "sumTest", req[e].row, req[e].seen, 0)
  /\ UNCHANGED <<test, group, question, workload>>

SumTest(e) ==
  /\ req[e].op = "sumTest"
  /\ GoOn(e, "storeTest", req[e].row, req[e].seen, TestSum(req[e].seen.in))
  /\ UNCHANGED <<rows, workload>>

StoreTest(e) ==
  /\ req[e].op = "storeTest"
  /\ test' = IF req[e].sum = req[e].seen.test THEN test
             ELSE [test EXCEPT ![req[e].seen.in].total = req[e].sum]
  /\ Done(e) /\ UNCHANGED <<section, group, question>>

-----------------------------------------------------------------------------
(* Editing: PUT and PATCH.  The status looked at is that of the test the row *)
(* is in now.  The parent is writable: the row may be moved into another     *)
(* test, whose status nobody looks at.                                       *)

LoadQuestion(e, q, n) ==
  /\ Alive(question, q) /\ MayEdit(e, TestOfQuestion(q)) /\ Editable(TestOfQuestion(q))
  /\ Hold(e, "rescore", "question", q, [question[q] EXCEPT !.score = n], SeenOf(SectionOf(q)))

LoadMove(e, q, g, n) ==
  /\ Alive(question, q) /\ MayEdit(e, TestOfQuestion(q)) /\ Editable(TestOfQuestion(q))
  /\ Alive(group, g) /\ g # question[q].group
  /\ Hold(e, "move", "question", q, [question[q] EXCEPT !.group = g, !.score = n],
          group[g].section)

\* Of a group without a move only the text changes; the row is written whole.
LoadGroup(e, g, s) ==
  /\ Alive(group, g) /\ MayEdit(e, TestOfGroup(g)) /\ Editable(TestOfGroup(g))
  /\ Alive(section, s)
  /\ Hold(e, IF s = group[g].section THEN "retitle" ELSE "move", "group", g,
          [group[g] EXCEPT !.section = s], Missing)

LoadSection(e, s, t, n) ==
  /\ Alive(section, s) /\ MayEdit(e, section[s].test) /\ Editable(section[s].test)
  /\ Alive(test, t)
  /\ Hold(e, IF t = section[s].test THEN "retotal" ELSE "move", "section", s,
          [section[s] EXCEPT !.test = t, !.total = n], Missing)

LoadTest(e, t, st, n) ==
  /\ Alive(test, t) /\ MayEdit(e, t) /\ Editable(t)
  /\ Hold(e, "patch", "test", t, [test[t] EXCEPT !.status = st, !.total = n], Missing)

WriteTest(e) ==
  /\ req[e].op = "test"
  /\ test' = [test EXCEPT ![req[e].id] = req[e].row]
  /\ Done(e) /\ UNCHANGED <<section, group, question>>

\* POST publish toggles the status that was loaded.
LoadPublish(e, t) ==
  /\ Alive(test, t) /\ MayEdit(e, t)
  /\ Hold(e, "publish", "toggle", t, test[t], Missing)

Toggled(st) == IF st = "PUBLISHED" THEN "DRAFT" ELSE "PUBLISHED"

Toggle(e) ==
  /\ req[e].op = "toggle"
  /\ test' = [test EXCEPT ![req[e].id].status = Toggled(req[e].row.status)]
  /\ Done(e) /\ UNCHANGED <<section, group, question>>

-----------------------------------------------------------------------------
(* Deleting.                                                               *)

LoadRemoval(e, tab, t, x) ==
  /\ Alive(tab, x) /\ MayEdit(e, t) /\ Editable(t)
  /\ Hold(e, "remove", "remove", x, tab[x],
          IF x \in Questions THEN SeenOf(SectionOf(x)) ELSE Missing)

Erased(tab, x) == [tab EXCEPT ![x] = Missing]   \* fault: delete() deletes the row

Dead(tab, x) == [tab EXCEPT ![x].alive = FALSE]

\* soft_delete of a section or a group: nothing is computed again.
RemoveBranch(e) ==
  LET x == req[e].id IN
  /\ req[e].op = "remove" /\ x \notin Questions
  /\ section' = IF x \in Sections THEN Dead(section, x) ELSE section
  /\ group'   = IF x \in Groups   THEN Dead(group, x)   ELSE group
  /\ Done(e) /\ UNCHANGED <<test, question>>

RemoveQuestionOnly(e) ==   \* fault: a deletion does not touch the totals
  /\ req[e].op = "remove" /\ req[e].id \in Questions
  /\ question' = Dead(question, req[e].id)
  /\ Done(e) /\ UNCHANGED <<test, section, group>>

\* soft_delete of a question saves it, and the signal follows.
RemoveQuestion(e) ==
  /\ req[e].op = "remove" /\ req[e].id \in Questions
  /\ question' = Dead(question, req[e].id)
  /\ GoOn(e, "sum", req[e].row, req[e].seen, 0)
  /\ UNCHANGED <<test, section, group, workload>>

\* DELETE of a test: soft_delete_mock_test_tree, in one transaction.
LoadDiscard(e, t) ==
  /\ Alive(test, t) /\ MayEdit(e, t) /\ Editable(t)
  /\ Hold(e, "discard", "discard", t, Missing, Missing)

InTest(tab, testOf(_), t) ==
  [x \in DOMAIN tab |-> IF tab[x] # Missing /\ testOf(x) = t
                        THEN [tab[x] EXCEPT !.alive = FALSE] ELSE tab[x]]

Discard(e) ==
  LET t == req[e].id IN
  /\ req[e].op = "discard"
  /\ test' = Dead(test, t)
  /\ section'  = InTest(section, LAMBDA s : section[s].test, t)
  /\ group'    = InTest(group, TestOfGroup, t)
  /\ question' = InTest(question, TestOfQuestion, t)
  /\ Done(e)

-----------------------------------------------------------------------------
(* Cloning: one transaction that reads the source table by table, each query  *)
(* seeing what is committed by then.                                       *)

LoadClone(e, t) ==
  /\ Alive(test, t) /\ MayEdit(e, t)
  /\ Hold(e, "clone", "sections", t, [test |-> test[t]], Missing)

CloneSections(e) ==
  LET ss == {s \in Sections : Alive(section, s) /\ section[s].test = req[e].id} IN
  /\ req[e].op = "sections"
  /\ GoOn(e, "groups", [test |-> req[e].row.test, sections |-> [s \in ss |-> section[s]]],
          Missing, 0)
  /\ UNCHANGED <<rows, workload>>

\* Alive groups, of whatever section: one whose section was not copied is not
\* in section_map, and the KeyError rolls everything back.
CloneGroups(e) ==
  LET gs == {g \in Groups : Alive(group, g) /\ TestOfGroup(g) = req[e].id} IN
  /\ req[e].op = "groups"
  /\ \/ /\ \A g \in gs : group[g].section \in DOMAIN req[e].row.sections
        /\ GoOn(e, "copy", [test |-> req[e].row.test, sections |-> req[e].row.sections,
                            groups |-> [g \in gs |-> group[g]]], Missing, 0)
     \/ /\ \E g \in gs : group[g].section \notin DOMAIN req[e].row.sections
        /\ req' = [req EXCEPT ![e] = NoEdit]
  /\ UNCHANGED <<rows, workload>>

QuestionsFrom(t, gs) ==   \* fault: deleted questions are copied, and revived
  {q \in Questions : question[q] # Missing /\ TestOfQuestion(q) = t /\ question[q].group \in gs}

\* Question.objects: the questions of the test that are alive.
QuestionsOf(t, gs) == {q \in Questions : Alive(question, q) /\ TestOfQuestion(q) = t}

\* Keys of a table for the copies of the rows xs: any that are free.
NewKeys(tab, keys, xs) ==
  LET free == {k \in keys : Fresh(tab, k)} IN
  CHOOSE f \in [xs -> free] : IsInjective(f)

RoomFor(tab, keys, xs) == Cardinality(xs) <= Cardinality({k \in keys : Fresh(tab, k)})

\* tab with the copies, copies[x] under the key key[x].
WithCopies(tab, key, copies) ==
  [k \in DOMAIN tab |-> IF k \in Range(key)
                        THEN copies[CHOOSE x \in DOMAIN key : key[x] = k] ELSE tab[k]]

\* The questions a clone copies, and the totals it ends with: after the commit
\* they are computed again, once for each question copied, by a request that
\* alone knows the new keys; a section without questions keeps the total it had.
CopiedQuestions(e) == QuestionsOf(req[e].id, DOMAIN req[e].row.groups)

CopiedTotal(e, s) ==
  LET qs == {q \in CopiedQuestions(e) : req[e].row.groups[question[q].group].section = s}
  IN IF qs = {} THEN req[e].row.sections[s].total ELSE ScoresOf(qs)

CopiedTestTotal(e) ==
  IF CopiedQuestions(e) = {} THEN req[e].row.test.total
  ELSE SumFunction([s \in DOMAIN req[e].row.sections |-> CopiedTotal(e, s)])

\* The copies of all rows appear, test c and what keys sk, gk and qk give.
InsertCopies(e, c, sk, gk, qk) ==
  /\ Fresh(test, c)
  /\ test' = [test EXCEPT ![c] = [status |-> "DRAFT", total |-> CopiedTestTotal(e),
                                  by |-> e, alive |-> TRUE]]
  /\ section' = WithCopies(section, sk,
       [s \in DOMAIN sk |-> [test |-> c, total |-> CopiedTotal(e, s), alive |-> TRUE]])
  /\ group' = WithCopies(group, gk,
       [g \in DOMAIN gk |-> [section |-> sk[req[e].row.groups[g].section], alive |-> TRUE]])
  /\ question' = WithCopies(question, qk,
       [q \in DOMAIN qk |-> [group |-> gk[question[q].group], score |-> question[q].score,
                             alive |-> TRUE]])

\* The questions, and the commit; a question whose group was not copied is a
\* KeyError too.
FinishClone(e) ==
  LET ss == DOMAIN req[e].row.sections
      gs == DOMAIN req[e].row.groups
      qs == CopiedQuestions(e) IN
  /\ req[e].op = "copy"
  /\ \/ /\ \A q \in qs : question[q].group \in gs
        /\ RoomFor(section, Sections, ss) /\ RoomFor(group, Groups, gs)
        /\ RoomFor(question, Questions, qs)
        /\ \E c \in Tests :
             InsertCopies(e, c, NewKeys(section, Sections, ss), NewKeys(group, Groups, gs),
                          NewKeys(question, Questions, qs))
     \/ /\ \E q \in qs : question[q].group \notin gs
        /\ UNCHANGED rows
  /\ Done(e)

-----------------------------------------------------------------------------
Check(e) ==
  \/ \E t \in Tests :
       \/ LoadPublish(e, t) \/ LoadDiscard(e, t) \/ LoadClone(e, t)
       \/ \E st \in {"DRAFT", "PUBLISHED"} :
            \/ CreateTest(e, t, st)
            \/ test[t] # Missing /\ \E n \in Scores \cup {test[t].total} : LoadTest(e, t, st, n)
       \/ \E s \in Sections :
            \/ CheckSection(e, s, t)
            \/ section[s] # Missing
               /\ \E n \in Scores \cup {section[s].total} : LoadSection(e, s, t, n)
  \/ \E s \in Sections :
       \/ \E g \in Groups : CheckGroup(e, g, s) \/ LoadGroup(e, g, s)
       \/ section[s] # Missing /\ LoadRemoval(e, section, section[s].test, s)
  \/ \E g \in Groups :
       \/ \E q \in Questions, n \in Scores : CheckQuestion(e, q, g, n) \/ LoadMove(e, q, g, n)
       \/ group[g] # Missing /\ LoadRemoval(e, group, TestOfGroup(g), g)
  \/ \E q \in Questions :
       \/ \E n \in Scores : LoadQuestion(e, q, n)
       \/ question[q] # Missing /\ LoadRemoval(e, question, TestOfQuestion(q), q)

WriteStep(e) ==
  \/ WriteSection(e) \/ WriteGroup(e) \/ WriteQuestion(e) \/ WriteTest(e) \/ Toggle(e)
  \/ RemoveBranch(e) \/ RemoveQuestion(e) \/ Discard(e)
  \/ SumSection(e) \/ StoreSection(e) \/ SumTest(e) \/ StoreTest(e)
  \/ CloneSections(e) \/ CloneGroups(e) \/ FinishClone(e)

EditorNext == \E e \in Editors : Check(e) \/ WriteStep(e)

\* A test that has just been made, with one section of one group of one question.
Made(t, s, g, q, n) ==
  /\ test = [u \in Tests |-> IF u = t THEN [status |-> "DRAFT", total |-> n,
                by |-> CHOOSE e \in Editors : TRUE, alive |-> TRUE] ELSE Missing]
  /\ section = [u \in Sections |->
                  IF u = s THEN [test |-> t, total |-> n, alive |-> TRUE] ELSE Missing]
  /\ group = [u \in Groups |-> IF u = g THEN [section |-> s, alive |-> TRUE] ELSE Missing]
  /\ question = [u \in Questions |->
                   IF u = q THEN [group |-> g, score |-> n, alive |-> TRUE] ELSE Missing]

\* The keys that are drawn first make no difference, nor the first score.
EditorInit ==
  /\ Made(CHOOSE t \in Tests : TRUE, CHOOSE s \in Sections : TRUE, CHOOSE g \in Groups : TRUE,
          CHOOSE q \in Questions : TRUE, CHOOSE n \in Scores : TRUE)
  /\ req = [e \in Editors |-> NoEdit]
  /\ workload \in Workloads

EditorSpec == EditorInit /\ [][EditorNext]_editorVars

-----------------------------------------------------------------------------
(* Properties.                                                             *)

\* Every row points at rows that are there, and every request holds a row of
\* the table it is going to write.
TreeTypeOK ==
  /\ test \in [Tests -> Test \cup {Missing}]
  /\ section \in [Sections -> Section \cup {Missing}]
  /\ group \in [Groups -> Group \cup {Missing}]
  /\ question \in [Questions -> Question \cup {Missing}]
  /\ \A s \in Sections : section[s] # Missing => test[section[s].test] # Missing
  /\ \A g \in Groups : group[g] # Missing => section[group[g].section] # Missing
  /\ \A q \in Questions : question[q] # Missing => group[question[q].group] # Missing
  /\ \A e \in Editors :
       /\ req[e].op = "section"  => req[e].row \in Section
       /\ req[e].op = "group"    => req[e].row \in Group
       /\ req[e].op = "question" => req[e].row \in Question
  /\ workload \in Workloads

Changes(t) ==
  /\ test[t] # Missing /\ test[t].status = "PUBLISHED" /\ test'[t].status = "PUBLISHED"
  /\ Papers(t)' # Papers(t)

\* What students are shown of a published test does not change, however edits
\* overlap, if nothing overlaps a change of the status and no section, group or
\* question is moved: a PATCH of its parent puts it into a test whose status
\* nobody looks at (serializers.py:119, 154).
PublishedFrozen ==
  [][({"publish", "patch"} \cap workload.kinds \subseteq workload.alone
       /\ "move" \notin workload.kinds) => \A t \in Tests : ~Changes(t)]_editorVars

\* The same when they are moved, even if nothing overlaps at all.
PublishedFrozenAlways ==
  [][workload.alone = Kinds => \A t \in Tests : ~Changes(t)]_editorVars

\* The total of a section that has had a question is the sum of its questions'
\* scores once nothing is going on, if saves of questions overlap nothing, no
\* group or question is moved and nobody sets a total by hand.
TotalsFollowQuestions ==
  /\ AtRest
  /\ {"add", "rescore", "remove", "clone"} \cap workload.kinds \subseteq workload.alone
  /\ {"move", "retotal"} \cap workload.kinds = {}
  => \A s \in Sections :
       (Alive(section, s) /\ \E q \in Questions : question[q] # Missing /\ SectionOf(q) = s)
         => section[s].total = SectionSum(s)

Scored(t) == [n \in Scores |-> Cardinality({q \in Paper(t) : question[q].score = n})]

\* A clone asks what its source asks: it has as many questions of each score as
\* students are shown there, none revived or lost, whatever was deleted before;
\* where parts of the source are left without a parent there is no clone.
ClonesMatch ==
  [][\A e \in Editors :
       "clone" \in workload.alone /\ FinishClone(e) =>
         \A c \in Tests : test[c] = Missing /\ test'[c] # Missing =>
           /\ Scored(c)' = Scored(req[e].id)
           /\ Cardinality({s \in Sections : Alive(section', s) /\ section'[s].test = c})
                = Cardinality({s \in Sections :
                                 Alive(section, s) /\ section[s].test = req[e].id})]_editorVars

\* A request to clone makes the clone, even if nothing overlaps it.
ClonesAreMade ==
  [][\A e \in Editors :
       ~("clone" \in workload.alone /\ req[e].kind = "clone" /\ req'[e] = NoEdit
           /\ {t \in Tests : test'[t] # Missing} = {t \in Tests : test[t] # Missing})]_editorVars
=============================================================================
