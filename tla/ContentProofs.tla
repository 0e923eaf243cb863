---------------------------- MODULE ContentProofs ----------------------------
(***************************************************************************)
(* Theorems about what a center teaches with: about MockTests, for any     *)
(* tests, editors and loads, and about MediaFiles, for any rows, file      *)
(* names and requests.                                                     *)
(***************************************************************************)
EXTENDS MockTests, MediaFiles, Sums, FunctionTheorems, SequenceTheorems, TLAPS

-----------------------------------------------------------------------------
(* Keys.                                                                   *)

LEMMA KeysAreFinite == ASSUME NEW S \in SUBSET Keys PROVE IsFiniteSet(S)
BY KeysAssumption, FS_Subset

\* Where there is room, the new keys are free, and each is drawn once.
LEMMA NewKeysAreFresh ==
  ASSUME NEW tab, NEW keys \in SUBSET Keys, NEW xs \in SUBSET Keys, RoomFor(tab, keys, xs)
  PROVE  /\ NewKeys(tab, keys, xs) \in [xs -> {k \in keys : Fresh(tab, k)}]
         /\ IsInjective(NewKeys(tab, keys, xs))
<1> DEFINE free == {k \in keys : Fresh(tab, k)}
<1>1. /\ Cardinality(xs) \in Nat /\ Cardinality(free) \in Nat
      /\ ExistsBijection(1..Cardinality(xs), xs) /\ ExistsBijection(1..Cardinality(free), free)
  BY KeysAreFinite, FS_CardinalityType
<1>2. Cardinality(xs) <= Cardinality(free)
  BY DEF RoomFor
<1> HIDE DEF free
<1>3. ExistsInjection(1..Cardinality(xs), 1..Cardinality(free))
  BY <1>1, <1>2, Fun_NatInjLeq
<1>4. ExistsInjection(xs, 1..Cardinality(xs)) /\ ExistsInjection(1..Cardinality(free), free)
  BY <1>1, Fun_ExistsBijEquiv
<1>5. ExistsInjection(xs, free)
  <2>1. ExistsInjection(xs, 1..Cardinality(free))
    BY <1>3, <1>4, Fun_ExistsInjTransitive
  <2> QED BY <1>4, <2>1, Fun_ExistsInjTransitive
<1>6. \E f \in [xs -> free] : IsInjective(f)
  BY <1>5 DEF ExistsInjection, Injection
<1> QED BY <1>6 DEF NewKeys, free

\* The rows that are copied appear under the new keys, all others are kept.
LEMMA CopiesAreWritten ==
  ASSUME NEW tab, NEW keys, NEW key, NEW copies, tab = [k \in keys |-> tab[k]],
         NEW xs, key \in [xs -> keys], IsInjective(key)
  PROVE  LET new == WithCopies(tab, key, copies) IN
         /\ new = [k \in keys |-> new[k]]
         /\ \A x \in xs : new[key[x]] = copies[x]
         /\ \A k \in keys : (\A x \in xs : key[x] # k) => new[k] = tab[k]
<1> DEFINE new == WithCopies(tab, key, copies)
<1>1. DOMAIN tab = keys /\ DOMAIN key = xs
  OBVIOUS
<1>2. new = [k \in keys |-> IF k \in Range(key) THEN copies[CHOOSE x \in xs : key[x] = k]
                            ELSE tab[k]]
  BY <1>1 DEF WithCopies
<1>3. ASSUME NEW x \in xs PROVE new[key[x]] = copies[x]
  <2>1. key[x] \in Range(key) /\ key[x] \in keys
    BY <1>1 DEF Range
  <2>2. (CHOOSE y \in xs : key[y] = key[x]) = x
    BY <1>1 DEF IsInjective
  <2> QED BY <1>2, <2>1, <2>2
<1>4. ASSUME NEW k \in keys, \A x \in xs : key[x] # k PROVE new[k] = tab[k]
  BY <1>1, <1>2, <1>4 DEF Range
<1>5. new = [k \in keys |-> new[k]]
  BY <1>2
<1> HIDE DEF new
<1> QED BY <1>3, <1>4, <1>5 DEF new

-----------------------------------------------------------------------------
(* What requests hold.                                                     *)

Saving == {"sum", "store", "sumTest", "storeTest"}
Cloning == {"sections", "groups", "copy"}
EditOps == {"idle", "section", "group", "question", "test", "toggle", "discard", "remove"}
             \cup Saving \cup Cloning

\* The row, the key and the totals fit what is done next.
FitsEdit(r) ==
  /\ r.op \in EditOps
  /\ r.op = "idle" => r = NoEdit
  /\ r.op = "section" =>
       r.kind \in {"add", "retotal", "move"} /\ r.id \in Sections /\ r.row \in Section
  /\ r.op = "group" =>
       r.kind \in {"add", "retitle", "move"} /\ r.id \in Groups /\ r.row \in Group
  /\ r.op = "question" =>
       /\ r.kind \in {"add", "rescore", "move"} /\ r.id \in Questions /\ r.row \in Question
       /\ r.kind # "move" => r.seen \in InMemory
       /\ r.kind = "move" => r.seen \in Sections
  /\ r.op \in Saving =>
       /\ r.kind \in {"add", "rescore", "move", "remove"}
       /\ r.id \in Questions /\ r.row \in Question /\ r.seen \in InMemory /\ r.sum \in Nat
  /\ r.op = "test" => r.kind = "patch" /\ r.id \in Tests /\ r.row \in Test
  /\ r.op = "toggle" => r.kind = "publish" /\ r.id \in Tests /\ r.row \in Test
  /\ r.op = "discard" => r.kind = "discard" /\ r.id \in Tests
  /\ r.op = "remove" =>
       /\ r.kind = "remove" /\ r.id \in Sections \cup Groups \cup Questions
       /\ r.id \in Questions => r.row \in Question /\ r.seen \in InMemory

\* Rows of a table that have been read.
Read(f, keys, set) ==
  /\ f = [x \in DOMAIN f |-> f[x]] /\ DOMAIN f \subseteq keys
  /\ \A x \in DOMAIN f : f[x] \in set

FitsClone(r) == r.op \in Cloning =>
  /\ r.kind = "clone" /\ r.id \in Tests /\ r.row.test \in Test
  /\ r.op # "sections" => Read(r.row.sections, Sections, Section)
  /\ r.op = "copy" =>
       /\ Read(r.row.groups, Groups, Group)
       /\ \A g \in DOMAIN r.row.groups : r.row.groups[g].section \in DOMAIN r.row.sections

\* The rows it is about are there.
Points(e) ==
  /\ req[e].op = "section" => test[req[e].row.test] # Missing
  /\ req[e].op = "group" => section[req[e].row.section] # Missing
  /\ req[e].op \in {"question"} \cup Saving => group[req[e].row.group] # Missing
  /\ req[e].op = "question" =>
       /\ req[e].kind # "move" =>
            section[req[e].seen.of] # Missing /\ test[req[e].seen.in] # Missing
       /\ req[e].kind = "move" => section[req[e].seen] # Missing
  /\ req[e].op \in Saving => section[req[e].seen.of] # Missing /\ test[req[e].seen.in] # Missing
  /\ req[e].op \in {"toggle", "test", "discard"} \cup Cloning => test[req[e].id] # Missing
  /\ req[e].op = "remove" =>
       /\ req[e].id \in Sections => section[req[e].id] # Missing
       /\ req[e].id \in Groups => group[req[e].id] # Missing
       /\ req[e].id \in Questions =>
            /\ question[req[e].id] # Missing /\ group[req[e].row.group] # Missing
            /\ section[req[e].seen.of] # Missing /\ test[req[e].seen.in] # Missing

Sound(e) == FitsEdit(req[e]) /\ FitsClone(req[e]) /\ Points(e)

\* The tables, whose rows point at rows that are there.
Tree ==
  /\ test \in [Tests -> Test \cup {Missing}]
  /\ section \in [Sections -> Section \cup {Missing}]
  /\ group \in [Groups -> Group \cup {Missing}]
  /\ question \in [Questions -> Question \cup {Missing}]
  /\ \A s \in Sections : section[s] # Missing => test[section[s].test] # Missing
  /\ \A g \in Groups : group[g] # Missing => section[group[g].section] # Missing
  /\ \A q \in Questions : question[q] # Missing => group[question[q].group] # Missing

WholeTree ==
  /\ Tree /\ workload \in Workloads
  /\ req = [e \in Editors |-> req[e]] /\ \A e \in Editors : Sound(e)

\* Rows do not disappear, and only the request of e goes on.
Grown ==
  /\ \A t \in Tests : test[t] # Missing => test'[t] # Missing
  /\ \A s \in Sections : section[s] # Missing => section'[s] # Missing
  /\ \A g \in Groups : group[g] # Missing => group'[g] # Missing
  /\ \A q \in Questions : question[q] # Missing => question'[q] # Missing

EditTurns(e) ==
  /\ req' = [f \in Editors |-> req'[f]] /\ workload' = workload
  /\ \A f \in Editors : f # e => req'[f] = req[f]

LEMMA TreeFields ==
  ASSUME WholeTree
  PROVE  /\ \A t \in Tests : test[t] # Missing =>
              /\ test[t] \in Test /\ test[t].status \in {"DRAFT", "PUBLISHED"}
              /\ test[t].total \in Nat /\ test[t].by \in Editors /\ test[t].alive \in BOOLEAN
         /\ \A s \in Sections : section[s] # Missing =>
              /\ section[s] \in Section /\ section[s].test \in Tests
              /\ section[s].total \in Nat /\ section[s].alive \in BOOLEAN
              /\ test[section[s].test] # Missing
         /\ \A g \in Groups : group[g] # Missing =>
              /\ group[g] \in Group /\ group[g].section \in Sections
              /\ group[g].alive \in BOOLEAN /\ section[group[g].section] # Missing
         /\ \A q \in Questions : question[q] # Missing =>
              /\ question[q] \in Question /\ question[q].group \in Groups
              /\ question[q].score \in Scores /\ question[q].alive \in BOOLEAN
              /\ group[question[q].group] # Missing
<1> USE DEF WholeTree, Tree
<1>1. \A t \in Tests : test[t] # Missing => test[t] \in Test
  OBVIOUS
<1>2. \A s \in Sections : section[s] # Missing => section[s] \in Section
  OBVIOUS
<1>3. \A g \in Groups : group[g] # Missing => group[g] \in Group
  OBVIOUS
<1>4. \A q \in Questions : question[q] # Missing => question[q] \in Question
  OBVIOUS
<1> QED BY <1>1, <1>2, <1>3, <1>4 DEF Test, Section, Group, Question

\* What a step shows for the others to stay sound.
LEMMA OthersStaySound ==
  ASSUME WholeTree, NEW e \in Editors, Tree', Grown, EditTurns(e), Sound(e)'
  PROVE  WholeTree'
<1>1. ASSUME NEW f \in Editors, f # e PROVE Sound(f)'
  <2>1. req'[f] = req[f] /\ Sound(f)
    BY <1>1 DEF EditTurns, WholeTree
  <2>2. Points(f)'
    BY <2>1, TreeFields DEF Sound, Points, Grown, FitsEdit, FitsClone, Section, Group,
      Question, InMemory, EditOps, Saving, Cloning
  <2>3. FitsEdit(req[f])' /\ FitsClone(req[f])'
    BY <2>1 DEF Sound, FitsEdit, FitsClone, Read
  <2> QED BY <2>2, <2>3 DEF Sound
<1>2. workload' \in Workloads /\ req' = [f \in Editors |-> req'[f]]
  BY DEF WholeTree, EditTurns
<1>3. \A f \in Editors : Sound(f)'
  BY <1>1
<1> QED BY <1>2, <1>3 DEF WholeTree

LEMMA SameTree ==
  ASSUME WholeTree, UNCHANGED rows PROVE Tree' /\ Grown
BY DEF WholeTree, Tree, Grown, rows

LEMMA HoldDoes ==
  ASSUME WholeTree, NEW e \in Editors, NEW k, NEW op, NEW x, NEW row, NEW seen,
         Hold(e, k, op, x, row, seen)
  PROVE  /\ EditTurns(e) /\ UNCHANGED rows /\ Tree' /\ Grown
         /\ req[e] = NoEdit /\ MayBegin(e, k)
         /\ req'[e] = [op |-> op, kind |-> k, id |-> x, row |-> row, seen |-> seen, sum |-> 0]
<1>1. EditTurns(e)
  BY DEF Hold, EditTurns, WholeTree
<1>2. UNCHANGED rows
  BY DEF Hold
<1> QED BY <1>1, <1>2, SameTree DEF Hold, WholeTree, MayBegin

LEMMA GoOnDoes ==
  ASSUME WholeTree, NEW e \in Editors, NEW op, NEW row, NEW seen, NEW sum,
         GoOn(e, op, row, seen, sum), UNCHANGED workload
  PROVE  /\ EditTurns(e)
         /\ req'[e] = [op |-> op, kind |-> req[e].kind, id |-> req[e].id, row |-> row,
                       seen |-> seen, sum |-> sum]
BY DEF GoOn, EditTurns, WholeTree

LEMMA DoneDoes ==
  ASSUME WholeTree, NEW e \in Editors, Done(e)
  PROVE  EditTurns(e) /\ req'[e] = NoEdit /\ Sound(e)'
<1>1. EditTurns(e) /\ req'[e] = NoEdit
  BY DEF Done, EditTurns, WholeTree
<1>2. Sound(e)'
  BY <1>1 DEF Sound, FitsEdit, FitsClone, Points, NoEdit, EditOps, Saving, Cloning
<1> QED BY <1>1, <1>2

Moves(e) == Tree' /\ Grown /\ EditTurns(e) /\ Sound(e)'

-----------------------------------------------------------------------------
(* Each step keeps the tree whole.                                         *)

LEMMA KeysDiffer ==
  /\ Missing \notin Tests /\ Missing \notin Sections /\ Missing \notin Groups
  /\ Missing \notin Questions
  /\ Missing \notin Test /\ Missing \notin Section /\ Missing \notin Group
  /\ Missing \notin Question
  /\ Tests \cap Sections = {} /\ Tests \cap Groups = {} /\ Tests \cap Questions = {}
  /\ Sections \cap Groups = {} /\ Sections \cap Questions = {} /\ Groups \cap Questions = {}
BY KeysAssumption, MissingAssumption DEF Keys

LEMMA SeenIsTyped ==
  ASSUME WholeTree, NEW s \in Sections, section[s] # Missing
  PROVE  /\ SeenOf(s) \in InMemory
         /\ SeenOf(s).of = s /\ SeenOf(s).in = section[s].test /\ test[section[s].test] # Missing
BY TreeFields DEF SeenOf, InMemory

LEMMA CheckSectionMoves ==
  ASSUME WholeTree, NEW e \in Editors, NEW s \in Sections, NEW t \in Tests, CheckSection(e, s, t)
  PROVE  Moves(e)
<1> DEFINE row == [test |-> t, total |-> DefaultTotal, alive |-> TRUE]
<1>1. Hold(e, "add", "section", s, row, Missing) /\ test[t] # Missing
  BY DEF CheckSection, Alive
<1>2. row \in Section /\ row.test = t
  BY ScoresAssumption DEF Section
<1> HIDE DEF row
<1>3. /\ Tree' /\ Grown /\ EditTurns(e) /\ UNCHANGED rows
      /\ req'[e] = [op |-> "section", kind |-> "add", id |-> s, row |-> row,
                    seen |-> Missing, sum |-> 0]
  BY <1>1, HoldDoes
<1>4. Sound(e)'
  BY <1>1, <1>2, <1>3 DEF Sound, FitsEdit, FitsClone, Points, EditOps, Saving, Cloning, rows
<1> QED BY <1>3, <1>4 DEF Moves

LEMMA CheckGroupMoves ==
  ASSUME WholeTree, NEW e \in Editors, NEW g \in Groups, NEW s \in Sections, CheckGroup(e, g, s)
  PROVE  Moves(e)
<1> DEFINE row == [section |-> s, alive |-> TRUE]
<1>1. Hold(e, "add", "group", g, row, Missing) /\ section[s] # Missing
  BY DEF CheckGroup, Alive
<1>2. row \in Group /\ row.section = s
  BY DEF Group
<1> HIDE DEF row
<1>3. /\ Tree' /\ Grown /\ EditTurns(e) /\ UNCHANGED rows
      /\ req'[e] = [op |-> "group", kind |-> "add", id |-> g, row |-> row,
                    seen |-> Missing, sum |-> 0]
  BY <1>1, HoldDoes
<1>4. Sound(e)'
  BY <1>1, <1>2, <1>3 DEF Sound, FitsEdit, FitsClone, Points, EditOps, Saving, Cloning, rows
<1> QED BY <1>3, <1>4 DEF Moves

\* A request that is going to save a question.
LEMMA HoldQuestionMoves ==
  ASSUME WholeTree, NEW e \in Editors, NEW k \in {"add", "rescore", "move"}, NEW q \in Questions,
         NEW row \in Question, group[row.group] # Missing, NEW seen,
         k # "move" => /\ seen \in InMemory
                       /\ section[seen.of] # Missing /\ test[seen.in] # Missing,
         k = "move" => seen \in Sections /\ section[seen] # Missing,
         Hold(e, k, "question", q, row, seen)
  PROVE  Moves(e)
<1>1. /\ Tree' /\ Grown /\ EditTurns(e) /\ UNCHANGED rows
      /\ req'[e] = [op |-> "question", kind |-> k, id |-> q, row |-> row,
                    seen |-> seen, sum |-> 0]
  BY HoldDoes
<1>2. Sound(e)'
  BY <1>1 DEF Sound, FitsEdit, FitsClone, Points, EditOps, Saving, Cloning, rows
<1> QED BY <1>1, <1>2 DEF Moves

LEMMA CheckQuestionMoves ==
  ASSUME WholeTree, NEW e \in Editors, NEW q \in Questions, NEW g \in Groups, NEW n \in Scores,
         CheckQuestion(e, q, g, n)
  PROVE  Moves(e)
<1>1. group[g] # Missing
  BY DEF CheckQuestion, Alive
<1> DEFINE seen == SeenOf(group[g].section)
<1>2. seen \in InMemory /\ section[seen.of] # Missing /\ test[seen.in] # Missing
  BY <1>1, TreeFields, SeenIsTyped
<1>4. Hold(e, "add", "question", q, [group |-> g, score |-> n, alive |-> TRUE], seen)
  BY DEF CheckQuestion
<1> HIDE DEF seen
<1>3. [group |-> g, score |-> n, alive |-> TRUE] \in Question
  BY DEF Question
<1> QED BY <1>1, <1>2, <1>3, <1>4, HoldQuestionMoves

LEMMA LoadQuestionMoves ==
  ASSUME WholeTree, NEW e \in Editors, NEW q \in Questions, NEW n \in Scores, LoadQuestion(e, q, n)
  PROVE  Moves(e)
<1> DEFINE seen == SeenOf(SectionOf(q))
<1>1. question[q] # Missing
      /\ Hold(e, "rescore", "question", q, [question[q] EXCEPT !.score = n], seen)
  BY DEF LoadQuestion, Alive
<1>2. seen \in InMemory /\ section[seen.of] # Missing /\ test[seen.in] # Missing
  BY <1>1, TreeFields, SeenIsTyped DEF SectionOf
<1> HIDE DEF seen
<1>3. /\ [question[q] EXCEPT !.score = n] \in Question
      /\ [question[q] EXCEPT !.score = n].group = question[q].group
  BY <1>1, TreeFields DEF Question
<1>4. group[[question[q] EXCEPT !.score = n].group] # Missing
  BY <1>1, <1>3, TreeFields
<1> QED BY <1>1, <1>2, <1>3, <1>4, HoldQuestionMoves

LEMMA LoadMoveMoves ==
  ASSUME WholeTree, NEW e \in Editors, NEW q \in Questions, NEW g \in Groups, NEW n \in Scores,
         LoadMove(e, q, g, n)
  PROVE  Moves(e)
<1> DEFINE row == [question[q] EXCEPT !.group = g, !.score = n]
<1>1. /\ question[q] # Missing /\ group[g] # Missing
      /\ Hold(e, "move", "question", q, row, group[g].section)
  BY DEF LoadMove, Alive
<1>2. row \in Question /\ row.group = g
  BY <1>1, TreeFields DEF Question
<1> HIDE DEF row
<1>3. group[row.group] # Missing /\ group[g].section \in Sections
      /\ section[group[g].section] # Missing
  BY <1>1, <1>2, TreeFields
<1> QED BY <1>1, <1>2, <1>3, HoldQuestionMoves

LEMMA LoadGroupMoves ==
  ASSUME WholeTree, NEW e \in Editors, NEW g \in Groups, NEW s \in Sections, LoadGroup(e, g, s)
  PROVE  Moves(e)
<1> DEFINE row == [group[g] EXCEPT !.section = s]
           k == IF s = group[g].section THEN "retitle" ELSE "move"
<1>1. group[g] # Missing /\ section[s] # Missing /\ Hold(e, k, "group", g, row, Missing)
  BY DEF LoadGroup, Alive
<1>2. row \in Group /\ row.section = s
  BY <1>1, TreeFields DEF Group
<1>3. k \in {"add", "retitle", "move"}
  OBVIOUS
<1> HIDE DEF row, k
<1>4. /\ Tree' /\ Grown /\ EditTurns(e) /\ UNCHANGED rows
      /\ req'[e] = [op |-> "group", kind |-> k, id |-> g, row |-> row,
                    seen |-> Missing, sum |-> 0]
  BY <1>1, HoldDoes
<1>5. Sound(e)'
  BY <1>1, <1>2, <1>3, <1>4 DEF Sound, FitsEdit, FitsClone, Points, EditOps, Saving, Cloning, rows
<1> QED BY <1>4, <1>5 DEF Moves

LEMMA LoadSectionMoves ==
  ASSUME WholeTree, NEW e \in Editors, NEW s \in Sections, section[s] # Missing, NEW t \in Tests,
         NEW n \in Scores \cup {section[s].total}, LoadSection(e, s, t, n)
  PROVE  Moves(e)
<1> DEFINE row == [section[s] EXCEPT !.test = t, !.total = n]
           k == IF t = section[s].test THEN "retotal" ELSE "move"
<1>1. row \in Section /\ row.test = t
  BY TreeFields, ScoresAssumption DEF Section
<1>2. test[t] # Missing /\ Hold(e, k, "section", s, row, Missing)
  BY DEF LoadSection, Alive
<1>3. k \in {"add", "retotal", "move"}
  OBVIOUS
<1> HIDE DEF row, k
<1>4. /\ Tree' /\ Grown /\ EditTurns(e) /\ UNCHANGED rows
      /\ req'[e] = [op |-> "section", kind |-> k, id |-> s, row |-> row,
                    seen |-> Missing, sum |-> 0]
  BY <1>2, HoldDoes
<1>5. Sound(e)'
  BY <1>1, <1>2, <1>3, <1>4 DEF Sound, FitsEdit, FitsClone, Points, EditOps, Saving, Cloning, rows
<1> QED BY <1>4, <1>5 DEF Moves

LEMMA LoadTestMoves ==
  ASSUME WholeTree, NEW e \in Editors, NEW t \in Tests, NEW st \in {"DRAFT", "PUBLISHED"},
         test[t] # Missing, NEW n \in Scores \cup {test[t].total}, LoadTest(e, t, st, n)
  PROVE  Moves(e)
<1> DEFINE row == [test[t] EXCEPT !.status = st, !.total = n]
<1>1. Hold(e, "patch", "test", t, row, Missing)
  BY DEF LoadTest
<1>2. row \in Test
  BY TreeFields, ScoresAssumption DEF Test
<1> HIDE DEF row
<1>3. /\ Tree' /\ Grown /\ EditTurns(e) /\ UNCHANGED rows
      /\ req'[e] = [op |-> "test", kind |-> "patch", id |-> t, row |-> row,
                    seen |-> Missing, sum |-> 0]
  BY <1>1, HoldDoes
<1>4. Sound(e)'
  BY <1>2, <1>3 DEF Sound, FitsEdit, FitsClone, Points, EditOps, Saving, Cloning, rows
<1> QED BY <1>3, <1>4 DEF Moves

LEMMA LoadPublishMoves ==
  ASSUME WholeTree, NEW e \in Editors, NEW t \in Tests, LoadPublish(e, t)
  PROVE  Moves(e)
<1>1. test[t] # Missing /\ Hold(e, "publish", "toggle", t, test[t], Missing)
  BY DEF LoadPublish, Alive
<1>2. test[t] \in Test
  BY <1>1, TreeFields
<1>3. /\ Tree' /\ Grown /\ EditTurns(e) /\ UNCHANGED rows
      /\ req'[e] = [op |-> "toggle", kind |-> "publish", id |-> t, row |-> test[t],
                    seen |-> Missing, sum |-> 0]
  BY <1>1, HoldDoes
<1>4. Sound(e)'
  BY <1>1, <1>2, <1>3 DEF Sound, FitsEdit, FitsClone, Points, EditOps, Saving, Cloning, rows
<1> QED BY <1>3, <1>4 DEF Moves

LEMMA LoadDiscardMoves ==
  ASSUME WholeTree, NEW e \in Editors, NEW t \in Tests, LoadDiscard(e, t)
  PROVE  Moves(e)
<1>1. test[t] # Missing /\ Hold(e, "discard", "discard", t, Missing, Missing)
  BY DEF LoadDiscard, Alive
<1>2. /\ Tree' /\ Grown /\ EditTurns(e) /\ UNCHANGED rows
      /\ req'[e] = [op |-> "discard", kind |-> "discard", id |-> t, row |-> Missing,
                    seen |-> Missing, sum |-> 0]
  BY <1>1, HoldDoes
<1>3. Sound(e)'
  BY <1>1, <1>2 DEF Sound, FitsEdit, FitsClone, Points, EditOps, Saving, Cloning, rows
<1> QED BY <1>2, <1>3 DEF Moves

LEMMA LoadCloneMoves ==
  ASSUME WholeTree, NEW e \in Editors, NEW t \in Tests, LoadClone(e, t)
  PROVE  Moves(e)
<1> DEFINE row == [test |-> test[t]]
<1>1. test[t] # Missing /\ Hold(e, "clone", "sections", t, row, Missing)
  BY DEF LoadClone, Alive
<1>2. row.test \in Test
  BY <1>1, TreeFields
<1> HIDE DEF row
<1>3. /\ Tree' /\ Grown /\ EditTurns(e) /\ UNCHANGED rows
      /\ req'[e] = [op |-> "sections", kind |-> "clone", id |-> t, row |-> row,
                    seen |-> Missing, sum |-> 0]
  BY <1>1, HoldDoes
<1>4. Sound(e)'
  BY <1>1, <1>2, <1>3 DEF Sound, FitsEdit, FitsClone, Points, EditOps, Saving, Cloning, rows
<1> QED BY <1>3, <1>4 DEF Moves

\* A removal, whatever the table.
LEMMA HoldRemovalMoves ==
  ASSUME WholeTree, NEW e \in Editors, NEW x \in Sections \cup Groups \cup Questions, NEW row, NEW seen,
         x \in Sections => section[x] # Missing, x \in Groups => group[x] # Missing,
         x \in Questions => /\ question[x] # Missing /\ row = question[x]
                            /\ seen = SeenOf(SectionOf(x)),
         Hold(e, "remove", "remove", x, row, seen)
  PROVE  Moves(e)
<1>1. /\ Tree' /\ Grown /\ EditTurns(e) /\ UNCHANGED rows
      /\ req'[e] = [op |-> "remove", kind |-> "remove", id |-> x, row |-> row,
                    seen |-> seen, sum |-> 0]
  BY HoldDoes
<1>2. x \in Questions => /\ row \in Question /\ seen \in InMemory /\ group[row.group] # Missing
                         /\ section[seen.of] # Missing /\ test[seen.in] # Missing
  BY TreeFields, SeenIsTyped DEF SectionOf
<1>3. Sound(e)'
  BY <1>1, <1>2 DEF Sound, FitsEdit, FitsClone, Points, EditOps, Saving, Cloning, rows
<1> QED BY <1>1, <1>3 DEF Moves

LEMMA LoadRemovalMoves ==
  ASSUME WholeTree, NEW e \in Editors
  PROVE  /\ \A s \in Sections : LoadRemoval(e, section, section[s].test, s) => Moves(e)
         /\ \A g \in Groups : LoadRemoval(e, group, TestOfGroup(g), g) => Moves(e)
         /\ \A q \in Questions : LoadRemoval(e, question, TestOfQuestion(q), q) => Moves(e)
<1>1. ASSUME NEW s \in Sections, LoadRemoval(e, section, section[s].test, s) PROVE Moves(e)
  <2>1. s \notin Groups /\ s \notin Questions
    BY KeysDiffer
  <2>2. section[s] # Missing /\ Hold(e, "remove", "remove", s, section[s], Missing)
    BY <1>1, <2>1 DEF LoadRemoval, Alive
  <2> QED BY <2>1, <2>2, HoldRemovalMoves
<1>2. ASSUME NEW g \in Groups, LoadRemoval(e, group, TestOfGroup(g), g) PROVE Moves(e)
  <2>1. g \notin Sections /\ g \notin Questions
    BY KeysDiffer
  <2>2. group[g] # Missing /\ Hold(e, "remove", "remove", g, group[g], Missing)
    BY <1>2, <2>1 DEF LoadRemoval, Alive
  <2> QED BY <2>1, <2>2, HoldRemovalMoves
<1>3. ASSUME NEW q \in Questions, LoadRemoval(e, question, TestOfQuestion(q), q) PROVE Moves(e)
  <2>1. q \notin Groups /\ q \notin Sections
    BY KeysDiffer
  <2>2. question[q] # Missing /\ Hold(e, "remove", "remove", q, question[q], SeenOf(SectionOf(q)))
    BY <1>3, <2>1 DEF LoadRemoval, Alive
  <2> QED BY <2>1, <2>2, HoldRemovalMoves
<1> QED BY <1>1, <1>2, <1>3

\* A row is put over another, or into an empty place.
LEMMA TestRowMoves ==
  ASSUME WholeTree, NEW e \in Editors, NEW t \in Tests, NEW row \in Test,
         test' = [test EXCEPT ![t] = row], UNCHANGED <<section, group, question>>, Done(e)
  PROVE  Moves(e)
<1>1. row # Missing
  BY KeysDiffer
<1>2. Tree' /\ Grown
  BY <1>1 DEF Tree, WholeTree, Grown
<1> QED BY <1>2, DoneDoes DEF Moves

LEMMA CreateTestMoves ==
  ASSUME WholeTree, NEW e \in Editors, NEW t \in Tests, NEW st \in {"DRAFT", "PUBLISHED"},
         CreateTest(e, t, st)
  PROVE  Moves(e)
<1> DEFINE row == [status |-> st, total |-> DefaultTotal, by |-> e, alive |-> TRUE]
<1>1. row \in Test
  BY ScoresAssumption DEF Test
<1>2. test' = [test EXCEPT ![t] = row] /\ UNCHANGED <<section, group, question>> /\ Done(e)
  BY DEF CreateTest
<1> HIDE DEF row
<1> QED BY <1>1, <1>2, TestRowMoves

LEMMA WriteSectionMoves ==
  ASSUME WholeTree, NEW e \in Editors, WriteSection(e)
  PROVE  Moves(e)
<1>1. /\ req[e].op = "section" /\ UNCHANGED <<test, group, question>> /\ Done(e)
      /\ section' = [section EXCEPT ![req[e].id] = req[e].row]
  BY DEF WriteSection
<1>2. /\ req[e].id \in Sections /\ req[e].row \in Section /\ req[e].row # Missing
      /\ test[req[e].row.test] # Missing
  BY <1>1, KeysDiffer DEF WholeTree, Sound, FitsEdit, Points
<1>3. Tree' /\ Grown
  BY <1>1, <1>2 DEF Tree, WholeTree, Grown
<1> QED BY <1>1, <1>3, DoneDoes DEF Moves

LEMMA WriteGroupMoves ==
  ASSUME WholeTree, NEW e \in Editors, WriteGroup(e)
  PROVE  Moves(e)
<1>1. /\ req[e].op = "group" /\ UNCHANGED <<test, section, question>> /\ Done(e)
      /\ group' = [group EXCEPT ![req[e].id] = req[e].row]
  BY DEF WriteGroup
<1>2. /\ req[e].id \in Groups /\ req[e].row \in Group /\ req[e].row # Missing
      /\ section[req[e].row.section] # Missing
  BY <1>1, KeysDiffer DEF WholeTree, Sound, FitsEdit, Points
<1>3. Tree' /\ Grown
  BY <1>1, <1>2 DEF Tree, WholeTree, Grown
<1> QED BY <1>1, <1>3, DoneDoes DEF Moves

LEMMA SavingIsTyped ==
  ASSUME WholeTree, NEW e \in Editors, req[e].op \in Saving
  PROVE  /\ req[e].kind \in {"add", "rescore", "move", "remove"} /\ req[e].id \in Questions
         /\ req[e].row \in Question /\ req[e].seen \in InMemory /\ req[e].sum \in Nat
         /\ req[e].row.group \in Groups /\ group[req[e].row.group] # Missing
         /\ req[e].seen.of \in Sections /\ section[req[e].seen.of] # Missing
         /\ req[e].seen.in \in Tests /\ test[req[e].seen.in] # Missing
<1>1. /\ req[e].kind \in {"add", "rescore", "move", "remove"} /\ req[e].id \in Questions
      /\ req[e].row \in Question /\ req[e].seen \in InMemory /\ req[e].sum \in Nat
      /\ group[req[e].row.group] # Missing
      /\ section[req[e].seen.of] # Missing /\ test[req[e].seen.in] # Missing
  BY DEF WholeTree, Sound, FitsEdit, Points
<1> QED BY <1>1 DEF Question, InMemory

\* A request goes on computing totals.
LEMMA GoOnSavingMoves ==
  ASSUME WholeTree, NEW e \in Editors, NEW op \in Saving, NEW row \in Question,
         NEW seen \in InMemory, NEW sum \in Nat, GoOn(e, op, row, seen, sum), UNCHANGED workload,
         req[e].kind \in {"add", "rescore", "move", "remove"}, req[e].id \in Questions,
         group[row.group] # Missing, section[seen.of] # Missing, test[seen.in] # Missing,
         Tree', Grown
  PROVE  Moves(e)
<1>1. /\ EditTurns(e)
      /\ req'[e] = [op |-> op, kind |-> req[e].kind, id |-> req[e].id, row |-> row,
                    seen |-> seen, sum |-> sum]
  BY GoOnDoes
<1>2. row.group \in Groups /\ seen.of \in Sections /\ seen.in \in Tests
  BY DEF Question, InMemory
<1>3. Sound(e)'
  BY <1>1, <1>2 DEF Sound, FitsEdit, FitsClone, Points, EditOps, Saving, Cloning, Grown
<1> QED BY <1>1, <1>3 DEF Moves

LEMMA WriteQuestionMoves ==
  ASSUME WholeTree, NEW e \in Editors, WriteQuestion(e)
  PROVE  Moves(e)
<1> DEFINE row == req[e].row
           seen == IF req[e].kind = "move" THEN SeenOf(req[e].seen) ELSE req[e].seen
<1>1. /\ req[e].op = "question" /\ UNCHANGED <<test, section, group>> /\ UNCHANGED workload
      /\ question' = [question EXCEPT ![req[e].id] = row] /\ GoOn(e, "sum", row, seen, 0)
  BY DEF WriteQuestion
<1>2. /\ req[e].id \in Questions /\ row \in Question /\ row # Missing
      /\ row.group \in Groups /\ group[row.group] # Missing
      /\ req[e].kind \in {"add", "rescore", "move", "remove"}
  BY <1>1, KeysDiffer DEF WholeTree, Sound, FitsEdit, Points, Question
<1>3. seen \in InMemory /\ section[seen.of] # Missing /\ test[seen.in] # Missing
  <2>1. CASE req[e].kind = "move"
    <3>1. req[e].seen \in Sections /\ section[req[e].seen] # Missing
      BY <1>1, <2>1 DEF WholeTree, Sound, FitsEdit, Points
    <3> QED BY <2>1, <3>1, SeenIsTyped
  <2>2. CASE req[e].kind # "move"
    BY <1>1, <2>2 DEF WholeTree, Sound, FitsEdit, Points
  <2> QED BY <2>1, <2>2
<1> HIDE DEF row, seen
<1>4. Tree' /\ Grown
  BY <1>1, <1>2 DEF Tree, WholeTree, Grown
<1> QED BY <1>1, <1>2, <1>3, <1>4, GoOnSavingMoves DEF Saving

LEMMA ScoresOfType ==
  ASSUME WholeTree, NEW Q \in SUBSET Questions, \A q \in Q : question[q] # Missing
  PROVE  ScoresOf(Q) \in Nat
<1>1. IsFiniteSet(Q)
  BY KeysAreFinite DEF Keys
<1>2. [q \in Q |-> question[q].score] \in [Q -> Nat]
  BY TreeFields, ScoresAssumption
<1> QED BY <1>1, <1>2, SumFunctionType DEF ScoresOf

LEMMA SectionSumType == ASSUME WholeTree, NEW s PROVE SectionSum(s) \in Nat
BY ScoresOfType DEF SectionSum, Alive

LEMMA TestSumType == ASSUME WholeTree, NEW t PROVE TestSum(t) \in Nat
<1> DEFINE S == {x \in Sections : Alive(section, x) /\ section[x].test = t}
<1>1. IsFiniteSet(S)
  BY KeysAreFinite DEF Keys
<1>2. [s \in S |-> section[s].total] \in [S -> Nat]
  BY TreeFields DEF Alive
<1> HIDE DEF S
<1>3. SumFunction([s \in S |-> section[s].total]) \in Nat
  BY <1>1, <1>2, SumFunctionType
<1> QED BY <1>3 DEF TestSum, S

LEMMA SumSectionMoves ==
  ASSUME WholeTree, NEW e \in Editors, SumSection(e)
  PROVE  Moves(e)
<1>1. /\ req[e].op \in Saving /\ UNCHANGED rows /\ UNCHANGED workload
      /\ GoOn(e, "store", req[e].row, req[e].seen, SectionSum(req[e].seen.of))
  BY DEF SumSection, Saving
<1>2. Tree' /\ Grown
  BY <1>1, SameTree
<1>3. "store" \in Saving
  BY DEF Saving
<1> QED BY <1>1, <1>2, <1>3, SavingIsTyped, SectionSumType, GoOnSavingMoves

LEMMA StoreSectionMoves ==
  ASSUME WholeTree, NEW e \in Editors, StoreSection(e)
  PROVE  Moves(e)
<1> DEFINE s == req[e].seen.of
<1>1. /\ req[e].op \in Saving /\ UNCHANGED <<test, group, question>> /\ UNCHANGED workload
      /\ section' = section \/ section' = [section EXCEPT ![s].total = req[e].sum]
      /\ GoOn(e, "sumTest", req[e].row, req[e].seen, 0)
  BY DEF StoreSection, Saving
<1>2. s \in Sections /\ section[s] # Missing /\ req[e].sum \in Nat
  BY <1>1, SavingIsTyped
<1> DEFINE row == [section[s] EXCEPT !.total = req[e].sum]
<1>3. row \in Section /\ row.test = section[s].test /\ row # Missing /\ test[row.test] # Missing
  BY <1>2, TreeFields, KeysDiffer DEF Section
<1>4. section' = section \/ section' = [section EXCEPT ![s] = row]
  BY <1>1
<1> HIDE DEF row, s
<1>5. Tree' /\ Grown
  <2>1. CASE section' = section
    BY <1>1, <2>1, SameTree DEF rows
  <2>2. CASE section' = [section EXCEPT ![s] = row]
    BY <1>1, <1>2, <1>3, <2>2 DEF Tree, WholeTree, Grown
  <2> QED BY <1>4, <2>1, <2>2
<1>6. "sumTest" \in Saving
  BY DEF Saving
<1>7. 0 \in Nat
  OBVIOUS
<1> QED BY <1>1, <1>5, <1>6, <1>7, SavingIsTyped, GoOnSavingMoves

LEMMA SumTestMoves ==
  ASSUME WholeTree, NEW e \in Editors, SumTest(e)
  PROVE  Moves(e)
<1>1. /\ req[e].op \in Saving /\ UNCHANGED rows /\ UNCHANGED workload
      /\ GoOn(e, "storeTest", req[e].row, req[e].seen, TestSum(req[e].seen.in))
  BY DEF SumTest, Saving
<1>2. Tree' /\ Grown
  BY <1>1, SameTree
<1>3. "storeTest" \in Saving
  BY DEF Saving
<1> QED BY <1>1, <1>2, <1>3, SavingIsTyped, TestSumType, GoOnSavingMoves

LEMMA StoreTestMoves ==
  ASSUME WholeTree, NEW e \in Editors, StoreTest(e)
  PROVE  Moves(e)
<1> DEFINE t == req[e].seen.in
           row == IF req[e].sum = req[e].seen.test THEN test[t]
                  ELSE [test[t] EXCEPT !.total = req[e].sum]
<1>1. /\ req[e].op \in Saving /\ UNCHANGED <<section, group, question>> /\ Done(e)
      /\ test' = IF req[e].sum = req[e].seen.test THEN test
                 ELSE [test EXCEPT ![t].total = req[e].sum]
  BY DEF StoreTest, Saving
<1>2. t \in Tests /\ test[t] \in Test /\ req[e].sum \in Nat
  BY <1>1, SavingIsTyped, TreeFields
<1>3. row \in Test
  BY <1>2 DEF Test
<1>4. test' = [test EXCEPT ![t] = row]
  BY <1>1, <1>2 DEF WholeTree, Tree
<1> HIDE DEF row, t
<1> QED BY <1>1, <1>2, <1>3, <1>4, TestRowMoves

LEMMA WriteTestMoves ==
  ASSUME WholeTree, NEW e \in Editors, WriteTest(e)
  PROVE  Moves(e)
<1>1. req[e].id \in Tests /\ req[e].row \in Test
  BY DEF WriteTest, WholeTree, Sound, FitsEdit
<1> QED BY <1>1, TestRowMoves DEF WriteTest

LEMMA ToggleMoves ==
  ASSUME WholeTree, NEW e \in Editors, Toggle(e)
  PROVE  Moves(e)
<1> DEFINE t == req[e].id
           row == [test[t] EXCEPT !.status = Toggled(req[e].row.status)]
<1>1. t \in Tests /\ test[t] # Missing
  BY DEF Toggle, WholeTree, Sound, FitsEdit, Points
<1>2. row \in Test
  BY <1>1, TreeFields DEF Test, Toggled
<1>3. test' = [test EXCEPT ![t] = row] /\ UNCHANGED <<section, group, question>> /\ Done(e)
  BY DEF Toggle
<1> HIDE DEF row, t
<1> QED BY <1>1, <1>2, <1>3, TestRowMoves

\* A row with deleted_at set.
LEMMA DeadRows ==
  ASSUME WholeTree
  PROVE  /\ \A t \in Tests : test[t] # Missing =>
              /\ [test[t] EXCEPT !.alive = FALSE] \in Test
              /\ [test[t] EXCEPT !.alive = FALSE].status = test[t].status
         /\ \A s \in Sections : section[s] # Missing =>
              /\ [section[s] EXCEPT !.alive = FALSE] \in Section
              /\ [section[s] EXCEPT !.alive = FALSE].test = section[s].test
         /\ \A g \in Groups : group[g] # Missing =>
              /\ [group[g] EXCEPT !.alive = FALSE] \in Group
              /\ [group[g] EXCEPT !.alive = FALSE].section = group[g].section
         /\ \A q \in Questions : question[q] # Missing =>
              /\ [question[q] EXCEPT !.alive = FALSE] \in Question
              /\ [question[q] EXCEPT !.alive = FALSE].group = question[q].group
<1>1. ASSUME NEW t \in Tests, test[t] # Missing
      PROVE  /\ [test[t] EXCEPT !.alive = FALSE] \in Test
             /\ [test[t] EXCEPT !.alive = FALSE].status = test[t].status
  BY <1>1, TreeFields DEF Test
<1>2. ASSUME NEW s \in Sections, section[s] # Missing
      PROVE  /\ [section[s] EXCEPT !.alive = FALSE] \in Section
             /\ [section[s] EXCEPT !.alive = FALSE].test = section[s].test
  BY <1>2, TreeFields DEF Section
<1>3. ASSUME NEW g \in Groups, group[g] # Missing
      PROVE  /\ [group[g] EXCEPT !.alive = FALSE] \in Group
             /\ [group[g] EXCEPT !.alive = FALSE].section = group[g].section
  BY <1>3, TreeFields DEF Group
<1>4. ASSUME NEW q \in Questions, question[q] # Missing
      PROVE  /\ [question[q] EXCEPT !.alive = FALSE] \in Question
             /\ [question[q] EXCEPT !.alive = FALSE].group = question[q].group
  BY <1>4, TreeFields DEF Question
<1> QED BY <1>1, <1>2, <1>3, <1>4

\* Rows are deleted softly: every row is as it was, or has deleted_at set.
Softly(tab, new, keys) ==
  /\ new = [x \in keys |-> new[x]]
  /\ \A x \in keys : \/ new[x] = tab[x]
                     \/ tab[x] # Missing /\ new[x] = [tab[x] EXCEPT !.alive = FALSE]

LEMMA SoftDeletionMoves ==
  ASSUME WholeTree, Softly(test, test', Tests), Softly(section, section', Sections),
         Softly(group, group', Groups), Softly(question, question', Questions)
  PROVE  Tree' /\ Grown
<1>1. /\ test' \in [Tests -> Test \cup {Missing}]
      /\ \A t \in Tests : test[t] # Missing <=> test'[t] # Missing
  <2>1. ASSUME NEW t \in Tests
        PROVE  /\ test'[t] \in Test \cup {Missing}
               /\ test[t] # Missing <=> test'[t] # Missing
    BY DeadRows, KeysDiffer DEF Softly, WholeTree, Tree
  <2> QED BY <2>1 DEF Softly
<1>2. /\ section' \in [Sections -> Section \cup {Missing}]
      /\ \A s \in Sections : /\ section[s] # Missing <=> section'[s] # Missing
                             /\ section[s] # Missing => section'[s].test = section[s].test
  <2>1. ASSUME NEW s \in Sections
        PROVE  /\ section'[s] \in Section \cup {Missing}
               /\ section[s] # Missing <=> section'[s] # Missing
               /\ section[s] # Missing => section'[s].test = section[s].test
    <3> DEFINE row == [section[s] EXCEPT !.alive = FALSE]
    <3>1. section[s] # Missing => row \in Section /\ row.test = section[s].test
      BY DeadRows
    <3>2. section'[s] = section[s] \/ (section[s] # Missing /\ section'[s] = row)
      BY DEF Softly
    <3> HIDE DEF row
    <3> QED BY <3>1, <3>2, KeysDiffer DEF WholeTree, Tree
  <2> QED BY <2>1 DEF Softly
<1>3. /\ group' \in [Groups -> Group \cup {Missing}]
      /\ \A g \in Groups : /\ group[g] # Missing <=> group'[g] # Missing
                           /\ group[g] # Missing => group'[g].section = group[g].section
  <2>1. ASSUME NEW g \in Groups
        PROVE  /\ group'[g] \in Group \cup {Missing}
               /\ group[g] # Missing <=> group'[g] # Missing
               /\ group[g] # Missing => group'[g].section = group[g].section
    <3> DEFINE row == [group[g] EXCEPT !.alive = FALSE]
    <3>1. group[g] # Missing => row \in Group /\ row.section = group[g].section
      BY DeadRows
    <3>2. group'[g] = group[g] \/ (group[g] # Missing /\ group'[g] = row)
      BY DEF Softly
    <3> HIDE DEF row
    <3> QED BY <3>1, <3>2, KeysDiffer DEF WholeTree, Tree
  <2> QED BY <2>1 DEF Softly
<1>4. /\ question' \in [Questions -> Question \cup {Missing}]
      /\ \A q \in Questions : /\ question[q] # Missing <=> question'[q] # Missing
                              /\ question[q] # Missing => question'[q].group = question[q].group
  <2>1. ASSUME NEW q \in Questions
        PROVE  /\ question'[q] \in Question \cup {Missing}
               /\ question[q] # Missing <=> question'[q] # Missing
               /\ question[q] # Missing => question'[q].group = question[q].group
    <3> DEFINE row == [question[q] EXCEPT !.alive = FALSE]
    <3>1. question[q] # Missing => row \in Question /\ row.group = question[q].group
      BY DeadRows
    <3>2. question'[q] = question[q] \/ (question[q] # Missing /\ question'[q] = row)
      BY DEF Softly
    <3> HIDE DEF row
    <3> QED BY <3>1, <3>2, KeysDiffer DEF WholeTree, Tree
  <2> QED BY <2>1 DEF Softly
<1>5. Grown
  BY <1>1, <1>2, <1>3, <1>4 DEF Grown
<1>6. /\ \A s \in Sections : section'[s] # Missing => test'[section'[s].test] # Missing
      /\ \A g \in Groups : group'[g] # Missing => section'[group'[g].section] # Missing
      /\ \A q \in Questions : question'[q] # Missing => group'[question'[q].group] # Missing
  BY <1>1, <1>2, <1>3, <1>4, TreeFields
<1> QED BY <1>1, <1>2, <1>3, <1>4, <1>5, <1>6 DEF Tree

LEMMA SoftlyByKind ==
  ASSUME NEW keys, NEW tab, tab = [x \in keys |-> tab[x]]
  PROVE  /\ Softly(tab, tab, keys)
         /\ \A x \in keys : tab[x] # Missing => Softly(tab, Dead(tab, x), keys)
<1>1. Softly(tab, tab, keys)
  BY DEF Softly
<1>2. ASSUME NEW x \in keys, tab[x] # Missing PROVE Softly(tab, Dead(tab, x), keys)
  <2> DEFINE new == Dead(tab, x)
             row == [tab[x] EXCEPT !.alive = FALSE]
  <2>1. new = [tab EXCEPT ![x] = row]
    BY DEF Dead
  <2> HIDE DEF row, new
  <2>2. /\ new = [y \in keys |-> new[y]] /\ new[x] = row
        /\ \A y \in keys : y # x => new[y] = tab[y]
    BY <2>1
  <2>3. Softly(tab, new, keys)
    BY <1>2, <2>2 DEF Softly, row
  <2> QED BY <2>3 DEF new
<1> QED BY <1>1, <1>2

LEMMA RemoveBranchDoes ==
  ASSUME WholeTree, NEW e \in Editors, RemoveBranch(e)
  PROVE  /\ Softly(test, test', Tests) /\ Softly(section, section', Sections)
         /\ Softly(group, group', Groups) /\ Softly(question, question', Questions)
         /\ Done(e) /\ test' = test /\ question' = question
<1> DEFINE x == req[e].id
<1>1. /\ x \in Sections => section[x] # Missing
      /\ x \in Groups => group[x] # Missing
  BY DEF RemoveBranch, WholeTree, Sound, Points
<1>2. /\ section' = IF x \in Sections THEN Dead(section, x) ELSE section
      /\ group' = IF x \in Groups THEN Dead(group, x) ELSE group
      /\ Done(e) /\ test' = test /\ question' = question
  BY DEF RemoveBranch
<1>3. /\ test = [t \in Tests |-> test[t]] /\ section = [s \in Sections |-> section[s]]
      /\ group = [g \in Groups |-> group[g]] /\ question = [q \in Questions |-> question[q]]
  BY DEF WholeTree, Tree
<1> HIDE DEF x
<1>4. Softly(section, section', Sections)
  BY <1>1, <1>2, <1>3, SoftlyByKind
<1>5. Softly(group, group', Groups)
  BY <1>1, <1>2, <1>3, SoftlyByKind
<1>6. Softly(test, test', Tests) /\ Softly(question, question', Questions)
  BY <1>2, <1>3, SoftlyByKind
<1> QED BY <1>2, <1>4, <1>5, <1>6

LEMMA RemoveQuestionDoes ==
  ASSUME WholeTree, NEW e \in Editors, RemoveQuestion(e)
  PROVE  /\ Softly(test, test', Tests) /\ Softly(section, section', Sections)
         /\ Softly(group, group', Groups) /\ Softly(question, question', Questions)
         /\ UNCHANGED <<test, section, group, workload>> /\ question' = Dead(question, req[e].id)
         /\ GoOn(e, "sum", req[e].row, req[e].seen, 0)
         /\ req[e].kind = "remove" /\ req[e].id \in Questions /\ question[req[e].id] # Missing
         /\ req[e].row \in Question /\ req[e].seen \in InMemory /\ group[req[e].row.group] # Missing
         /\ section[req[e].seen.of] # Missing /\ test[req[e].seen.in] # Missing
<1>1. /\ question' = Dead(question, req[e].id) /\ UNCHANGED <<test, section, group, workload>>
      /\ GoOn(e, "sum", req[e].row, req[e].seen, 0) /\ req[e].op = "remove"
      /\ req[e].id \in Questions
  BY DEF RemoveQuestion
<1>2. /\ req[e].kind = "remove" /\ question[req[e].id] # Missing
      /\ req[e].row \in Question /\ req[e].seen \in InMemory /\ group[req[e].row.group] # Missing
      /\ section[req[e].seen.of] # Missing /\ test[req[e].seen.in] # Missing
  BY <1>1 DEF WholeTree, Sound, FitsEdit, Points
<1>3. /\ test = [t \in Tests |-> test[t]] /\ section = [s \in Sections |-> section[s]]
      /\ group = [g \in Groups |-> group[g]] /\ question = [q \in Questions |-> question[q]]
  BY DEF WholeTree, Tree
<1>4. /\ Softly(test, test', Tests) /\ Softly(section, section', Sections)
      /\ Softly(group, group', Groups)
  BY <1>1, <1>3, SoftlyByKind
<1>5. Softly(question, question', Questions)
  BY <1>1, <1>2, <1>3, SoftlyByKind
<1> QED BY <1>1, <1>2, <1>4, <1>5

LEMMA DiscardDoes ==
  ASSUME WholeTree, NEW e \in Editors, Discard(e)
  PROVE  /\ Softly(test, test', Tests) /\ Softly(section, section', Sections)
         /\ Softly(group, group', Groups) /\ Softly(question, question', Questions)
         /\ Done(e) /\ req[e].op = "discard" /\ req[e].id \in Tests
         /\ \A s \in Sections : section[s] # Missing =>
              IF section[s].test = req[e].id THEN section'[s].alive = FALSE
              ELSE section'[s] = section[s]
         /\ \A g \in Groups : group[g] # Missing /\ TestOfGroup(g) # req[e].id
              => group'[g] = group[g]
         /\ \A q \in Questions : question[q] # Missing /\ TestOfQuestion(q) # req[e].id
              => question'[q] = question[q]
<1> DEFINE t == req[e].id
<1>1. req[e].op = "discard" /\ t \in Tests /\ test[t] # Missing
  BY DEF Discard, WholeTree, Sound, FitsEdit, Points
<1>2. /\ test' = Dead(test, t) /\ Done(e)
      /\ section' = [s \in DOMAIN section |->
                       IF section[s] # Missing /\ section[s].test = t
                       THEN [section[s] EXCEPT !.alive = FALSE] ELSE section[s]]
      /\ group' = [g \in DOMAIN group |->
                     IF group[g] # Missing /\ TestOfGroup(g) = t
                     THEN [group[g] EXCEPT !.alive = FALSE] ELSE group[g]]
      /\ question' = [q \in DOMAIN question |->
                        IF question[q] # Missing /\ TestOfQuestion(q) = t
                        THEN [question[q] EXCEPT !.alive = FALSE] ELSE question[q]]
  BY DEF Discard, InTest
<1>3. /\ test = [u \in Tests |-> test[u]] /\ section = [s \in Sections |-> section[s]]
      /\ group = [g \in Groups |-> group[g]] /\ question = [q \in Questions |-> question[q]]
  BY DEF WholeTree, Tree
<1> HIDE DEF t
<1>4. Softly(test, test', Tests)
  BY <1>1, <1>2, <1>3, SoftlyByKind
<1>5. /\ Softly(section, section', Sections)
      /\ \A s \in Sections : section[s] # Missing =>
           IF section[s].test = t THEN section'[s].alive = FALSE ELSE section'[s] = section[s]
  BY <1>2, <1>3, TreeFields DEF Softly, Section
<1>6. /\ Softly(group, group', Groups)
      /\ \A g \in Groups : group[g] # Missing /\ TestOfGroup(g) # t => group'[g] = group[g]
  BY <1>2, <1>3 DEF Softly
<1>7. /\ Softly(question, question', Questions)
      /\ \A q \in Questions : question[q] # Missing /\ TestOfQuestion(q) # t
           => question'[q] = question[q]
  BY <1>2, <1>3 DEF Softly
<1> QED BY <1>1, <1>2, <1>4, <1>5, <1>6, <1>7 DEF t

LEMMA RemovalsMove ==
  ASSUME WholeTree, NEW e \in Editors, RemoveBranch(e) \/ RemoveQuestion(e) \/ Discard(e)
  PROVE  Moves(e)
<1>1. Tree' /\ Grown
  BY RemoveBranchDoes, RemoveQuestionDoes, DiscardDoes, SoftDeletionMoves
<1>2. CASE RemoveBranch(e) \/ Discard(e)
  BY <1>1, <1>2, RemoveBranchDoes, DiscardDoes, DoneDoes DEF Moves
<1>3. CASE RemoveQuestion(e)
  <2>1. "sum" \in Saving /\ 0 \in Nat
    BY DEF Saving
  <2> QED BY <1>1, <1>3, <2>1, RemoveQuestionDoes, GoOnSavingMoves
<1> QED BY <1>2, <1>3

\* Copies appear under free keys.
Placed(tab, new, keys, key, copies) ==
  /\ key \in [DOMAIN copies -> {k \in keys : Fresh(tab, k)}] /\ IsInjective(key)
  /\ new = [k \in keys |-> new[k]]
  /\ \A x \in DOMAIN copies : new[key[x]] = copies[x]
  /\ \A k \in keys : (\A x \in DOMAIN copies : key[x] # k) => new[k] = tab[k]

CopiedSections(e, c) ==
  [s \in DOMAIN req[e].row.sections |-> [test |-> c, total |-> CopiedTotal(e, s), alive |-> TRUE]]
CopiedGroups(e, sk) ==
  [g \in DOMAIN req[e].row.groups |->
     [section |-> sk[req[e].row.groups[g].section], alive |-> TRUE]]
CopiedRows(e, gk) ==
  [q \in CopiedQuestions(e) |->
     [group |-> gk[question[q].group], score |-> question[q].score, alive |-> TRUE]]

\* What a clone writes.
Copies(e, c, sk, gk, qk) ==
  /\ c \in Tests /\ Fresh(test, c)
  /\ test' = [test EXCEPT ![c] = [status |-> "DRAFT", total |-> CopiedTestTotal(e),
                                  by |-> e, alive |-> TRUE]]
  /\ Placed(section, section', Sections, sk, CopiedSections(e, c))
  /\ Placed(group, group', Groups, gk, CopiedGroups(e, sk))
  /\ Placed(question, question', Questions, qk, CopiedRows(e, gk))
  /\ \A q \in CopiedQuestions(e) : question[q].group \in DOMAIN req[e].row.groups

LEMMA CloneIsTyped ==
  ASSUME WholeTree, NEW e \in Editors, req[e].op \in Cloning
  PROVE  /\ req[e].kind = "clone" /\ req[e].id \in Tests /\ req[e].row.test \in Test
         /\ test[req[e].id] # Missing
         /\ req[e].op # "sections" => Read(req[e].row.sections, Sections, Section)
         /\ req[e].op = "copy" =>
              /\ Read(req[e].row.groups, Groups, Group)
              /\ \A g \in DOMAIN req[e].row.groups :
                   req[e].row.groups[g].section \in DOMAIN req[e].row.sections
BY DEF WholeTree, Sound, FitsClone, Points

LEMMA PlacedByNewKeys ==
  ASSUME NEW tab, NEW keys \in SUBSET Keys, tab = [k \in keys |-> tab[k]],
         NEW xs \in SUBSET Keys, RoomFor(tab, keys, xs), NEW copies, DOMAIN copies = xs
  PROVE  LET key == NewKeys(tab, keys, xs)
         IN  /\ DOMAIN key = xs
             /\ Placed(tab, WithCopies(tab, key, copies), keys, key, copies)
<1> DEFINE key == NewKeys(tab, keys, xs)
           new == WithCopies(tab, key, copies)
<1>1. key \in [xs -> {k \in keys : Fresh(tab, k)}] /\ IsInjective(key)
  BY NewKeysAreFresh
<1> HIDE DEF key
<1>2. key \in [xs -> keys] /\ IsInjective(key)
  BY <1>1
<1>3. /\ new = [k \in keys |-> new[k]]
      /\ \A x \in xs : new[key[x]] = copies[x]
      /\ \A k \in keys : (\A x \in xs : key[x] # k) => new[k] = tab[k]
  BY <1>2, CopiesAreWritten
<1> HIDE DEF new
<1>4. Placed(tab, new, keys, key, copies)
  BY <1>1, <1>3 DEF Placed
<1> QED BY <1>1, <1>4 DEF key, new

LEMMA FinishCloneDoes ==
  ASSUME WholeTree, NEW e \in Editors, FinishClone(e)
  PROVE  /\ Done(e) /\ req[e].op = "copy"
         /\ UNCHANGED rows \/ \E c \in Tests : \E sk, gk, qk : Copies(e, c, sk, gk, qk)
<1> DEFINE ss == DOMAIN req[e].row.sections
           gs == DOMAIN req[e].row.groups
           qs == CopiedQuestions(e)
           sk == NewKeys(section, Sections, ss)
           gk == NewKeys(group, Groups, gs)
           qk == NewKeys(question, Questions, qs)
<1>1. Done(e) /\ req[e].op = "copy"
  BY DEF FinishClone
<1>2. CASE UNCHANGED rows
  BY <1>1, <1>2
<1>3. ASSUME NEW c \in Tests, InsertCopies(e, c, sk, gk, qk), \A q \in qs : question[q].group \in gs,
             RoomFor(section, Sections, ss), RoomFor(group, Groups, gs),
             RoomFor(question, Questions, qs)
      PROVE  Copies(e, c, sk, gk, qk)
  <2>1. /\ section = [s \in Sections |-> section[s]] /\ group = [g \in Groups |-> group[g]]
        /\ question = [q \in Questions |-> question[q]]
    BY DEF WholeTree, Tree
  <2>2. ss \in SUBSET Sections /\ gs \in SUBSET Groups /\ qs \in SUBSET Questions
    BY <1>1, CloneIsTyped DEF Cloning, Read, CopiedQuestions, QuestionsOf
  <2>3. /\ Sections \in SUBSET Keys /\ Groups \in SUBSET Keys /\ Questions \in SUBSET Keys
        /\ ss \in SUBSET Keys /\ gs \in SUBSET Keys /\ qs \in SUBSET Keys
    BY <2>2 DEF Keys
  <2> DEFINE sc == CopiedSections(e, c)
             gc == CopiedGroups(e, sk)
             qc == CopiedRows(e, gk)
  <2>4. DOMAIN sc = ss /\ DOMAIN gc = gs /\ DOMAIN qc = qs
    BY DEF CopiedSections, CopiedGroups, CopiedRows
  <2> HIDE DEF ss, gs, qs, sc, gc, qc
  <2>5. DOMAIN sk = ss /\ Placed(section, WithCopies(section, sk, sc), Sections, sk, sc)
    BY <1>3, <2>1, <2>3, <2>4, PlacedByNewKeys
  <2>6. DOMAIN gk = gs /\ Placed(group, WithCopies(group, gk, gc), Groups, gk, gc)
    BY <1>3, <2>1, <2>3, <2>4, PlacedByNewKeys
  <2>7. DOMAIN qk = qs /\ Placed(question, WithCopies(question, qk, qc), Questions, qk, qc)
    BY <1>3, <2>1, <2>3, <2>4, PlacedByNewKeys
  <2> HIDE DEF sk, gk, qk
  <2>8. /\ Fresh(test, c)
        /\ test' = [test EXCEPT ![c] = [status |-> "DRAFT", total |-> CopiedTestTotal(e),
                                        by |-> e, alive |-> TRUE]]
        /\ section' = WithCopies(section, sk,
             [s \in DOMAIN sk |-> [test |-> c, total |-> CopiedTotal(e, s), alive |-> TRUE]])
        /\ group' = WithCopies(group, gk,
             [g \in DOMAIN gk |-> [section |-> sk[req[e].row.groups[g].section], alive |-> TRUE]])
        /\ question' = WithCopies(question, qk,
             [q \in DOMAIN qk |-> [group |-> gk[question[q].group], score |-> question[q].score,
                                   alive |-> TRUE]])
    BY <1>3 DEF InsertCopies
  <2>9. /\ section' = WithCopies(section, sk, sc)
        /\ group' = WithCopies(group, gk, gc)
        /\ question' = WithCopies(question, qk, qc)
    BY <2>5, <2>6, <2>7, <2>8 DEF sc, gc, qc, CopiedSections, CopiedGroups, CopiedRows, ss, gs, qs
  <2> QED BY <1>3, <2>5, <2>6, <2>7, <2>8, <2>9 DEF Copies, sc, gc, qc, qs, gs
<1>4. CASE ~ UNCHANGED rows
  <2>1. /\ \A q \in qs : question[q].group \in gs
        /\ RoomFor(section, Sections, ss) /\ RoomFor(group, Groups, gs)
        /\ RoomFor(question, Questions, qs)
        /\ \E c \in Tests : InsertCopies(e, c, sk, gk, qk)
    BY <1>4 DEF FinishClone
  <2> QED BY <1>1, <1>3, <2>1
<1> QED BY <1>2, <1>4

\* Placing typed copies under free keys keeps a table typed, and its rows.
RowsOf(copies, set) == \A x \in DOMAIN copies : copies[x] \in set

Extended(tab, new, keys, set, key, copies) ==
  /\ new \in [keys -> set \cup {Missing}]
  /\ \A k \in keys : tab[k] # Missing => new[k] = tab[k]
  /\ \A k \in keys : tab[k] = Missing /\ new[k] # Missing =>
       \E x \in DOMAIN copies : key[x] = k /\ new[k] = copies[x]
  /\ \A x \in DOMAIN copies : /\ key[x] \in keys /\ tab[key[x]] = Missing
                              /\ new[key[x]] = copies[x] /\ new[key[x]] # Missing

LEMMA PlacedIsTyped ==
  ASSUME NEW keys, NEW set, Missing \notin set, NEW tab, tab \in [keys -> set \cup {Missing}],
         NEW new, NEW key, NEW copies, RowsOf(copies, set), Placed(tab, new, keys, key, copies)
  PROVE  Extended(tab, new, keys, set, key, copies)
<1> USE DEF RowsOf
<1>1. \A x \in DOMAIN copies : key[x] \in keys /\ tab[key[x]] = Missing
  BY DEF Placed, Fresh
<1>2. \A x \in DOMAIN copies : new[key[x]] = copies[x] /\ new[key[x]] # Missing
  BY DEF Placed
<1>3. ASSUME NEW k \in keys
      PROVE  /\ new[k] \in set \cup {Missing}
             /\ tab[k] # Missing => new[k] = tab[k]
             /\ tab[k] = Missing /\ new[k] # Missing =>
                  \E x \in DOMAIN copies : key[x] = k /\ new[k] = copies[x]
  <2>1. CASE \E x \in DOMAIN copies : key[x] = k
    BY <1>1, <1>2, <2>1
  <2>2. CASE \A x \in DOMAIN copies : key[x] # k
    <3>1. new[k] = tab[k]
      BY <2>2 DEF Placed
    <3> QED BY <2>2, <3>1
  <2> QED BY <2>1, <2>2
<1>4. new \in [keys -> set \cup {Missing}]
  BY <1>3 DEF Placed
<1> QED BY <1>1, <1>2, <1>3, <1>4 DEF Extended

LEMMA CopiedTotalsType ==
  ASSUME WholeTree, NEW e \in Editors, req[e].op = "copy"
  PROVE  /\ \A s \in DOMAIN req[e].row.sections : CopiedTotal(e, s) \in Nat
         /\ CopiedTestTotal(e) \in Nat
<1> DEFINE ss == DOMAIN req[e].row.sections
<1>1. /\ req[e].row.test \in Test /\ ss \in SUBSET Sections
      /\ \A s \in ss : req[e].row.sections[s] \in Section
  BY CloneIsTyped DEF Cloning, Read
<1>2. ASSUME NEW s \in ss PROVE CopiedTotal(e, s) \in Nat
  <2> DEFINE Q == {q \in CopiedQuestions(e) :
                     req[e].row.groups[question[q].group].section = s}
  <2>1. Q \in SUBSET Questions /\ \A q \in Q : question[q] # Missing
    BY DEF CopiedQuestions, QuestionsOf, Alive
  <2> HIDE DEF Q
  <2>2. ScoresOf(Q) \in Nat
    BY <2>1, ScoresOfType
  <2>3. req[e].row.sections[s].total \in Nat
    BY <1>1 DEF Section
  <2> QED BY <2>2, <2>3 DEF CopiedTotal, Q
<1>3. SumFunction([s \in ss |-> CopiedTotal(e, s)]) \in Nat
  <2>1. IsFiniteSet(ss)
    BY <1>1, KeysAreFinite DEF Keys
  <2>2. [s \in ss |-> CopiedTotal(e, s)] \in [ss -> Nat]
    BY <1>2
  <2> HIDE DEF ss
  <2> QED BY <2>1, <2>2, SumFunctionType
<1>4. CopiedTestTotal(e) \in Nat
  BY <1>1, <1>3 DEF CopiedTestTotal, Test
<1> QED BY <1>2, <1>4

\* What is placed by a clone.
LEMMA CopiesAreTyped ==
  ASSUME WholeTree, NEW e \in Editors, req[e].op = "copy", NEW c \in Tests, NEW sk, NEW gk, NEW qk,
         Copies(e, c, sk, gk, qk)
  PROVE  /\ \A s \in DOMAIN CopiedSections(e, c) :
              CopiedSections(e, c)[s] \in Section /\ CopiedSections(e, c)[s].test = c
         /\ \A g \in DOMAIN CopiedGroups(e, sk) :
              /\ CopiedGroups(e, sk)[g] \in Group
              /\ \E s \in DOMAIN CopiedSections(e, c) : CopiedGroups(e, sk)[g].section = sk[s]
         /\ \A q \in DOMAIN CopiedRows(e, gk) :
              /\ CopiedRows(e, gk)[q] \in Question
              /\ \E g \in DOMAIN CopiedGroups(e, sk) : CopiedRows(e, gk)[q].group = gk[g]
<1> DEFINE ss == DOMAIN req[e].row.sections
           gs == DOMAIN req[e].row.groups
<1>1. /\ DOMAIN CopiedSections(e, c) = ss /\ DOMAIN CopiedGroups(e, sk) = gs
      /\ DOMAIN CopiedRows(e, gk) = CopiedQuestions(e)
  BY DEF CopiedSections, CopiedGroups, CopiedRows
<1>2. /\ \A g \in gs : req[e].row.groups[g].section \in ss
      /\ \A q \in CopiedQuestions(e) : question[q].group \in gs
      /\ \A q \in CopiedQuestions(e) : question[q].score \in Scores
  BY CloneIsTyped, TreeFields DEF Copies, Cloning, CopiedQuestions, QuestionsOf, Alive
<1>3. /\ \A s \in ss : sk[s] \in Sections
      /\ \A g \in gs : gk[g] \in Groups
  BY <1>1 DEF Copies, Placed
<1>4. ASSUME NEW s \in ss
      PROVE  CopiedSections(e, c)[s] \in Section /\ CopiedSections(e, c)[s].test = c
  BY CopiedTotalsType DEF CopiedSections, Section
<1>5. ASSUME NEW g \in gs
      PROVE  /\ CopiedGroups(e, sk)[g] \in Group
             /\ \E s \in ss : CopiedGroups(e, sk)[g].section = sk[s]
  BY <1>2, <1>3 DEF CopiedGroups, Group
<1>6. ASSUME NEW q \in CopiedQuestions(e)
      PROVE  /\ CopiedRows(e, gk)[q] \in Question
             /\ \E g \in gs : CopiedRows(e, gk)[q].group = gk[g]
  BY <1>2, <1>3 DEF CopiedRows, Question
<1> HIDE DEF ss, gs
<1> QED BY <1>1, <1>4, <1>5, <1>6

\* The tables after a clone.
CopyExtends(e, c, sk, gk, qk) ==
  /\ Extended(section, section', Sections, Section, sk, CopiedSections(e, c))
  /\ Extended(group, group', Groups, Group, gk, CopiedGroups(e, sk))
  /\ Extended(question, question', Questions, Question, qk, CopiedRows(e, gk))

LEMMA CopiesExtend ==
  ASSUME WholeTree, NEW e \in Editors, req[e].op = "copy", NEW c \in Tests, NEW sk, NEW gk, NEW qk,
         Copies(e, c, sk, gk, qk)
  PROVE  CopyExtends(e, c, sk, gk, qk)
<1> DEFINE sc == CopiedSections(e, c)
           gc == CopiedGroups(e, sk)
           qc == CopiedRows(e, gk)
<1>1. /\ Placed(section, section', Sections, sk, sc) /\ Placed(group, group', Groups, gk, gc)
      /\ Placed(question, question', Questions, qk, qc)
  BY DEF Copies
<1>2. RowsOf(sc, Section) /\ RowsOf(gc, Group) /\ RowsOf(qc, Question)
  BY CopiesAreTyped DEF RowsOf
<1> HIDE DEF sc, gc, qc
<1>3. /\ section \in [Sections -> Section \cup {Missing}]
      /\ group \in [Groups -> Group \cup {Missing}]
      /\ question \in [Questions -> Question \cup {Missing}]
  BY DEF WholeTree, Tree
<1>4. Missing \notin Section /\ Missing \notin Group /\ Missing \notin Question
  BY KeysDiffer
<1>5. Extended(section, section', Sections, Section, sk, sc)
  BY <1>1, <1>2, <1>3, <1>4, PlacedIsTyped
<1>6. Extended(group, group', Groups, Group, gk, gc)
  BY <1>1, <1>2, <1>3, <1>4, PlacedIsTyped
<1>7. Extended(question, question', Questions, Question, qk, qc)
  BY <1>1, <1>2, <1>3, <1>4, PlacedIsTyped
<1> QED BY <1>5, <1>6, <1>7 DEF CopyExtends, sc, gc, qc

LEMMA CopiesMove ==
  ASSUME WholeTree, NEW e \in Editors, req[e].op = "copy", NEW c \in Tests, NEW sk, NEW gk, NEW qk,
         Copies(e, c, sk, gk, qk)
  PROVE  Tree' /\ Grown
<1> DEFINE sc == CopiedSections(e, c)
           gc == CopiedGroups(e, sk)
           qc == CopiedRows(e, gk)
           row == [status |-> "DRAFT", total |-> CopiedTestTotal(e), by |-> e, alive |-> TRUE]
<1>1. row \in Test
  BY CopiedTotalsType DEF Test
<1>2. test' = [test EXCEPT ![c] = row]
  BY DEF Copies
<1>3. /\ \A s \in DOMAIN sc : sc[s] \in Section /\ sc[s].test = c
      /\ \A g \in DOMAIN gc : gc[g] \in Group /\ \E s \in DOMAIN sc : gc[g].section = sk[s]
      /\ \A q \in DOMAIN qc : qc[q] \in Question /\ \E g \in DOMAIN gc : qc[q].group = gk[g]
  BY CopiesAreTyped
<1> HIDE DEF sc, gc, qc, row
<1>4. /\ test \in [Tests -> Test \cup {Missing}]
      /\ section \in [Sections -> Section \cup {Missing}]
      /\ group \in [Groups -> Group \cup {Missing}]
      /\ question \in [Questions -> Question \cup {Missing}]
  BY DEF WholeTree, Tree
<1>5. /\ test' \in [Tests -> Test \cup {Missing}] /\ test'[c] # Missing
      /\ \A t \in Tests : test[t] # Missing => test'[t] # Missing
  BY <1>1, <1>2, <1>4, KeysDiffer
<1>6. /\ Extended(section, section', Sections, Section, sk, sc)
      /\ Extended(group, group', Groups, Group, gk, gc)
      /\ Extended(question, question', Questions, Question, qk, qc)
  BY CopiesExtend DEF CopyExtends, sc, gc, qc
<1>9. Grown
  BY <1>5, <1>6 DEF Grown, Extended
<1>10. ASSUME NEW s \in Sections, section'[s] # Missing PROVE test'[section'[s].test] # Missing
  BY <1>3, <1>5, <1>6, <1>10, TreeFields DEF Extended
<1>11. ASSUME NEW g \in Groups, group'[g] # Missing PROVE section'[group'[g].section] # Missing
  BY <1>3, <1>6, <1>11, TreeFields DEF Extended
<1>12. ASSUME NEW q \in Questions, question'[q] # Missing
       PROVE  group'[question'[q].group] # Missing
  BY <1>3, <1>6, <1>12, TreeFields DEF Extended
<1> QED BY <1>5, <1>6, <1>9, <1>10, <1>11, <1>12 DEF Tree, Extended

LEMMA FinishCloneMoves ==
  ASSUME WholeTree, NEW e \in Editors, FinishClone(e)
  PROVE  Moves(e)
<1>1. Done(e) /\ req[e].op = "copy"
  BY FinishCloneDoes
<1>2. Tree' /\ Grown
  BY <1>1, FinishCloneDoes, SameTree, CopiesMove
<1> QED BY <1>1, <1>2, DoneDoes DEF Moves

LEMMA CloneSectionsMoves ==
  ASSUME WholeTree, NEW e \in Editors, CloneSections(e)
  PROVE  Moves(e)
<1> DEFINE ss == {s \in Sections : Alive(section, s) /\ section[s].test = req[e].id}
           sections == [s \in ss |-> section[s]]
           row == [test |-> req[e].row.test, sections |-> sections]
<1>1. /\ req[e].op = "sections" /\ UNCHANGED rows /\ UNCHANGED workload
      /\ GoOn(e, "groups", row, Missing, 0)
  BY DEF CloneSections
<1>2. Read(sections, Sections, Section)
  BY TreeFields DEF Read, Alive
<1>3. row.test = req[e].row.test /\ row.sections = sections
  OBVIOUS
<1> HIDE DEF row, sections
<1>4. /\ EditTurns(e)
      /\ req'[e] = [op |-> "groups", kind |-> req[e].kind, id |-> req[e].id, row |-> row,
                    seen |-> Missing, sum |-> 0]
  BY <1>1, GoOnDoes
<1>5. /\ req[e].kind = "clone" /\ req[e].id \in Tests /\ req[e].row.test \in Test
      /\ test[req[e].id] # Missing
  BY <1>1, CloneIsTyped DEF Cloning
<1>6. Sound(e)'
  BY <1>1, <1>2, <1>3, <1>4, <1>5
    DEF Sound, FitsEdit, FitsClone, Points, EditOps, Saving, Cloning, rows, Read
<1> QED BY <1>1, <1>4, <1>6, SameTree DEF Moves

LEMMA CloneGroupsMoves ==
  ASSUME WholeTree, NEW e \in Editors, CloneGroups(e)
  PROVE  Moves(e)
<1> DEFINE gs == {g \in Groups : Alive(group, g) /\ TestOfGroup(g) = req[e].id}
           groups == [g \in gs |-> group[g]]
           row == [test |-> req[e].row.test, sections |-> req[e].row.sections, groups |-> groups]
<1>1. req[e].op = "groups" /\ UNCHANGED rows /\ UNCHANGED workload
  BY DEF CloneGroups
<1>2. /\ req[e].kind = "clone" /\ req[e].id \in Tests /\ req[e].row.test \in Test
      /\ test[req[e].id] # Missing /\ Read(req[e].row.sections, Sections, Section)
  BY <1>1, CloneIsTyped DEF Cloning
<1>3. CASE \E g \in gs : group[g].section \notin DOMAIN req[e].row.sections
  <2>1. req' = [req EXCEPT ![e] = NoEdit]
    BY <1>3 DEF CloneGroups
  <2>2. Done(e)
    BY <1>1, <2>1 DEF Done
  <2> QED BY <1>1, <2>2, DoneDoes, SameTree DEF Moves
<1>4. CASE \A g \in gs : group[g].section \in DOMAIN req[e].row.sections
  <2>1. GoOn(e, "copy", row, Missing, 0)
    BY <1>4 DEF CloneGroups
  <2>2. Read(groups, Groups, Group)
    BY TreeFields DEF Read, Alive
  <2>3. /\ row.test = req[e].row.test /\ row.sections = req[e].row.sections
        /\ row.groups = groups
        /\ \A g \in DOMAIN groups : groups[g].section \in DOMAIN row.sections
    BY <1>4
  <2> HIDE DEF row, groups
  <2>4. /\ EditTurns(e)
        /\ req'[e] = [op |-> "copy", kind |-> req[e].kind, id |-> req[e].id, row |-> row,
                      seen |-> Missing, sum |-> 0]
    BY <1>1, <2>1, GoOnDoes
  <2>5. Sound(e)'
    BY <1>1, <1>2, <2>2, <2>3, <2>4
      DEF Sound, FitsEdit, FitsClone, Points, EditOps, Saving, Cloning, rows, Read
  <2> QED BY <1>1, <2>4, <2>5, SameTree DEF Moves
<1> QED BY <1>3, <1>4

-----------------------------------------------------------------------------
(* The tree stays whole.                                                   *)

LEMMA StepMoves ==
  ASSUME WholeTree, NEW e \in Editors, Check(e) \/ WriteStep(e)
  PROVE  Moves(e)
<1>1. CASE Check(e)
  <2>1. ASSUME NEW t \in Tests,
               \/ LoadPublish(e, t) \/ LoadDiscard(e, t) \/ LoadClone(e, t)
               \/ \E st \in {"DRAFT", "PUBLISHED"} :
                    \/ CreateTest(e, t, st)
                    \/ test[t] # Missing
                         /\ \E n \in Scores \cup {test[t].total} : LoadTest(e, t, st, n)
               \/ \E s \in Sections :
                    \/ CheckSection(e, s, t)
                    \/ section[s] # Missing
                         /\ \E n \in Scores \cup {section[s].total} : LoadSection(e, s, t, n)
        PROVE  Moves(e)
    BY <2>1, CreateTestMoves, LoadPublishMoves, LoadDiscardMoves, LoadCloneMoves, LoadTestMoves,
      CheckSectionMoves, LoadSectionMoves
  <2>2. ASSUME NEW s \in Sections,
               \/ \E g \in Groups : CheckGroup(e, g, s) \/ LoadGroup(e, g, s)
               \/ section[s] # Missing /\ LoadRemoval(e, section, section[s].test, s)
        PROVE  Moves(e)
    BY <2>2, CheckGroupMoves, LoadGroupMoves, LoadRemovalMoves
  <2>3. ASSUME NEW g \in Groups,
               \/ \E q \in Questions, n \in Scores :
                    CheckQuestion(e, q, g, n) \/ LoadMove(e, q, g, n)
               \/ group[g] # Missing /\ LoadRemoval(e, group, TestOfGroup(g), g)
        PROVE  Moves(e)
    BY <2>3, CheckQuestionMoves, LoadMoveMoves, LoadRemovalMoves
  <2>4. ASSUME NEW q \in Questions,
               \/ \E n \in Scores : LoadQuestion(e, q, n)
               \/ question[q] # Missing /\ LoadRemoval(e, question, TestOfQuestion(q), q)
        PROVE  Moves(e)
    BY <2>4, LoadQuestionMoves, LoadRemovalMoves
  <2> QED BY <1>1, <2>1, <2>2, <2>3, <2>4 DEF Check
<1>2. CASE WriteStep(e)
  BY <1>2, WriteSectionMoves, WriteGroupMoves, WriteQuestionMoves, WriteTestMoves, ToggleMoves,
    RemovalsMove, SumSectionMoves, StoreSectionMoves, SumTestMoves, StoreTestMoves,
    CloneSectionsMoves, CloneGroupsMoves, FinishCloneMoves DEF WriteStep
<1> QED BY <1>1, <1>2

LEMMA InitWhole == EditorInit => WholeTree
<1> SUFFICES ASSUME EditorInit PROVE WholeTree
  OBVIOUS
<1> DEFINE t == CHOOSE u \in Tests : TRUE
           s == CHOOSE u \in Sections : TRUE
           g == CHOOSE u \in Groups : TRUE
           q == CHOOSE u \in Questions : TRUE
           n == CHOOSE u \in Scores : TRUE
           by == CHOOSE e \in Editors : TRUE
           trow == [status |-> "DRAFT", total |-> n, by |-> by, alive |-> TRUE]
           srow == [test |-> t, total |-> n, alive |-> TRUE]
           grow == [section |-> s, alive |-> TRUE]
           qrow == [group |-> g, score |-> n, alive |-> TRUE]
<1>1. /\ t \in Tests /\ s \in Sections /\ g \in Groups /\ q \in Questions /\ n \in Scores
      /\ by \in Editors /\ n \in Nat
  BY KeysAssumption, ScoresAssumption, EditorsAssumption
<1>2. /\ req = [e \in Editors |-> NoEdit] /\ workload \in Workloads
      /\ test = [u \in Tests |-> IF u = t THEN trow ELSE Missing]
      /\ section = [u \in Sections |-> IF u = s THEN srow ELSE Missing]
      /\ group = [u \in Groups |-> IF u = g THEN grow ELSE Missing]
      /\ question = [u \in Questions |-> IF u = q THEN qrow ELSE Missing]
  BY DEF EditorInit, Made
<1> HIDE DEF t, s, g, q, n, by
<1>3. trow \in Test /\ srow \in Section /\ grow \in Group /\ qrow \in Question
  BY <1>1 DEF Test, Section, Group, Question
<1>4. srow.test = t /\ grow.section = s /\ qrow.group = g
  OBVIOUS
<1> HIDE DEF trow, srow, grow, qrow
<1>5. Tree
  BY <1>1, <1>2, <1>3, <1>4, KeysDiffer DEF Tree
<1>6. \A e \in Editors : Sound(e)
  BY <1>2 DEF Sound, FitsEdit, FitsClone, Points, NoEdit, EditOps, Saving, Cloning
<1> QED BY <1>2, <1>5, <1>6 DEF WholeTree

LEMMA NextWhole == WholeTree /\ [EditorNext]_editorVars => WholeTree'
<1> SUFFICES ASSUME WholeTree, [EditorNext]_editorVars PROVE WholeTree'
  OBVIOUS
<1>1. CASE UNCHANGED editorVars
  <2>1. Tree' /\ (workload \in Workloads)' /\ (req = [e \in Editors |-> req[e]])'
    BY <1>1 DEF editorVars, WholeTree, Tree
  <2>2. ASSUME NEW e \in Editors PROVE Sound(e)'
    <3>1. Sound(e)
      BY DEF WholeTree
    <3> QED BY <1>1, <3>1 DEF editorVars, Sound, FitsEdit, FitsClone, Points, Read
  <2> QED BY <2>1, <2>2 DEF WholeTree
<1>2. ASSUME NEW e \in Editors, Check(e) \/ WriteStep(e) PROVE WholeTree'
  BY <1>2, StepMoves, OthersStaySound DEF Moves
<1> QED BY <1>1, <1>2 DEF EditorNext

\* Foreign keys always point at rows that are there, whatever overlaps, and a
\* request that saves a whole row has loaded one of that table.
THEOREM TreeStaysWhole == EditorSpec => []TreeTypeOK
<1>1. WholeTree => TreeTypeOK
  BY DEF WholeTree, Tree, TreeTypeOK, Sound, FitsEdit
<1> QED BY <1>1, InitWhole, NextWhole, PTL DEF EditorSpec

-----------------------------------------------------------------------------
(* What a request relies on between its check and its writes.              *)

\* The loads PublishedFrozen speaks of.
StatusAlone ==
  {"publish", "patch"} \cap workload.kinds \subseteq workload.alone /\ "move" \notin workload.kinds

AdmittedKind(e) == req[e] # NoEdit => req[e].kind \in workload.kinds

\* The key of a new row is free, and no other request has it.
Reserves(e) == req[e].kind = "add" =>
  /\ req[e].op = "section"  => section[req[e].id] = Missing
  /\ req[e].op = "group"    => group[req[e].id] = Missing
  /\ req[e].op = "question" => question[req[e].id] = Missing
  /\ req[e].op \in {"section", "group", "question"} =>
       \A f \in Editors : req[f].id = req[e].id => f = e

\* A row that is written back stays where it is, unless it is being moved.
WritesBack(e) ==
  /\ req[e].op = "section" /\ req[e].kind \in {"retotal", "move"} =>
       /\ section[req[e].id] # Missing
       /\ req[e].kind = "retotal" /\ "move" \notin workload.kinds =>
            section[req[e].id].test = req[e].row.test
  /\ req[e].op = "group" /\ req[e].kind \in {"retitle", "move"} =>
       /\ group[req[e].id] # Missing
       /\ req[e].kind = "retitle" /\ "move" \notin workload.kinds =>
            group[req[e].id].section = req[e].row.section
  /\ req[e].op = "question" /\ req[e].kind \in {"rescore", "move"} =>
       /\ question[req[e].id] # Missing
       /\ req[e].kind = "rescore" /\ "move" \notin workload.kinds =>
            question[req[e].id].group = req[e].row.group

\* The test whose status was checked is still a draft.
OnDraft(e) == StatusAlone =>
  /\ req[e].op = "section" => Editable(req[e].row.test)
  /\ req[e].op = "group" => Editable(section[req[e].row.section].test)
  /\ req[e].op = "question" => Editable(TestOfGroup(req[e].row.group))
  /\ req[e].op = "discard" => Editable(req[e].id)
  /\ req[e].op = "remove" =>
       /\ req[e].id \in Sections => Editable(section[req[e].id].test)
       /\ req[e].id \in Groups => Editable(TestOfGroup(req[e].id))
       /\ req[e].id \in Questions => Editable(TestOfQuestion(req[e].id))

Relies(e) == AdmittedKind(e) /\ Reserves(e) /\ WritesBack(e) /\ OnDraft(e)

LoneKinds == \A e, f \in Editors :
  req[e] # NoEdit /\ req[f] # NoEdit /\ req[e].kind \in workload.alone => e = f

Reliable == WholeTree /\ LoneKinds /\ \A e \in Editors : Relies(e)

-----------------------------------------------------------------------------
(* How a step changes what others rely on.                                 *)

\* Rows that appear have keys no other request has.
Births(e) == \A f \in Editors : f # e =>
  /\ \A s \in Sections : section[s] = Missing /\ section'[s] # Missing => req[f].id # s
  /\ \A g \in Groups : group[g] = Missing /\ group'[g] # Missing => req[f].id # g
  /\ \A q \in Questions : question[q] = Missing /\ question'[q] # Missing => req[f].id # q

SetsStatus(e) == req[e] # NoEdit /\ req[e].kind \in {"patch", "publish"}

\* Rows stay under their parents, and tests keep their status, where no request
\* is made to change them.
StaysPut(e) ==
  /\ \A t \in Tests : test[t] # Missing /\ ~SetsStatus(e) => test'[t].status = test[t].status
  /\ "move" \notin workload.kinds =>
       /\ \A s \in Sections : section[s] # Missing => section'[s].test = section[s].test
       /\ \A g \in Groups : group[g] # Missing => group'[g].section = group[g].section
       /\ \A q \in Questions : question[q] # Missing => question'[q].group = question[q].group

Exists(x) ==
  \/ x \in Tests /\ test[x] # Missing
  \/ x \in Sections /\ section[x] # Missing
  \/ x \in Groups /\ group[x] # Missing
  \/ x \in Questions /\ question[x] # Missing

FirstOps == {"section", "group", "question", "test", "toggle", "discard", "remove", "sections"}

\* A request begins, with a key of its own or that of a row.
BeginsEdit(e) ==
  /\ MayBegin(e, req'[e].kind) /\ UNCHANGED rows /\ req'[e].op \in FirstOps
  /\ (\A f \in Editors : req[f].id # req'[e].id) \/ Exists(req'[e].id)
  /\ Reserves(e)' /\ WritesBack(e)' /\ OnDraft(e)'

\* It goes on computing or copying, or ends.
GoesOn(e) ==
  \/ req'[e] = NoEdit
  \/ /\ req[e] # NoEdit /\ req'[e].op \in Saving \cup Cloning
     /\ req'[e].kind = req[e].kind /\ req'[e].id = req[e].id

LEMMA UnchangedStays ==
  ASSUME UNCHANGED rows, NEW e PROVE Births(e) /\ StaysPut(e)
BY DEF rows, Births, StaysPut

\* Relying on a tree that has not changed.
LEMMA RowsKeep ==
  ASSUME WholeTree, UNCHANGED rows
  PROVE  /\ \A t : Editable(t)' <=> Editable(t)
         /\ \A g : TestOfGroup(g)' = TestOfGroup(g)
         /\ \A q : TestOfQuestion(q)' = TestOfQuestion(q)
BY DEF rows, Editable, TestOfGroup, TestOfQuestion

LEMMA AllOthers ==
  ASSUME WholeTree, NEW e \in Editors, EditTurns(e), NEW x, \A f \in Editors : req[f].id # x,
         req'[e].id = x
  PROVE  \A f \in Editors : req'[f].id = req'[e].id => f = e
BY DEF EditTurns

LEMMA CheckSectionBegins ==
  ASSUME WholeTree, NEW e \in Editors, NEW s \in Sections, NEW t \in Tests, CheckSection(e, s, t)
  PROVE  BeginsEdit(e)
<1> DEFINE row == [test |-> t, total |-> DefaultTotal, alive |-> TRUE]
<1>1. Hold(e, "add", "section", s, row, Missing) /\ Fresh(section, s) /\ Editable(t)
  BY DEF CheckSection
<1>2. row.test = t
  OBVIOUS
<1> HIDE DEF row
<1>3. /\ UNCHANGED rows /\ EditTurns(e) /\ MayBegin(e, "add")
      /\ req'[e] = [op |-> "section", kind |-> "add", id |-> s, row |-> row,
                    seen |-> Missing, sum |-> 0]
  BY <1>1, HoldDoes
<1>4. section[s] = Missing /\ \A f \in Editors : req[f].id # s
  BY <1>1 DEF Fresh
<1>5. Reserves(e)'
  BY <1>3, <1>4, AllOthers DEF Reserves, rows
<1>6. WritesBack(e)' /\ OnDraft(e)'
  BY <1>1, <1>2, <1>3, RowsKeep DEF WritesBack, OnDraft
<1> QED BY <1>3, <1>4, <1>5, <1>6 DEF BeginsEdit, FirstOps

LEMMA CheckGroupBegins ==
  ASSUME WholeTree, NEW e \in Editors, NEW g \in Groups, NEW s \in Sections, CheckGroup(e, g, s)
  PROVE  BeginsEdit(e)
<1> DEFINE row == [section |-> s, alive |-> TRUE]
<1>1. Hold(e, "add", "group", g, row, Missing) /\ Fresh(group, g) /\ Editable(section[s].test)
  BY DEF CheckGroup
<1>2. row.section = s
  OBVIOUS
<1> HIDE DEF row
<1>3. /\ UNCHANGED rows /\ EditTurns(e) /\ MayBegin(e, "add")
      /\ req'[e] = [op |-> "group", kind |-> "add", id |-> g, row |-> row,
                    seen |-> Missing, sum |-> 0]
  BY <1>1, HoldDoes
<1>4. group[g] = Missing /\ \A f \in Editors : req[f].id # g
  BY <1>1 DEF Fresh
<1>5. Reserves(e)'
  BY <1>3, <1>4, AllOthers DEF Reserves, rows
<1>6. WritesBack(e)' /\ OnDraft(e)'
  BY <1>1, <1>2, <1>3, RowsKeep DEF WritesBack, OnDraft, rows
<1> QED BY <1>3, <1>4, <1>5, <1>6 DEF BeginsEdit, FirstOps

LEMMA CheckQuestionBegins ==
  ASSUME WholeTree, NEW e \in Editors, NEW q \in Questions, NEW g \in Groups, NEW n \in Scores,
         CheckQuestion(e, q, g, n)
  PROVE  BeginsEdit(e)
<1> DEFINE row == [group |-> g, score |-> n, alive |-> TRUE]
           seen == SeenOf(group[g].section)
<1>1. Hold(e, "add", "question", q, row, seen) /\ Fresh(question, q) /\ Editable(TestOfGroup(g))
  BY DEF CheckQuestion
<1>2. row.group = g
  OBVIOUS
<1> HIDE DEF row, seen
<1>3. /\ UNCHANGED rows /\ EditTurns(e) /\ MayBegin(e, "add")
      /\ req'[e] = [op |-> "question", kind |-> "add", id |-> q, row |-> row,
                    seen |-> seen, sum |-> 0]
  BY <1>1, HoldDoes
<1>4. question[q] = Missing /\ \A f \in Editors : req[f].id # q
  BY <1>1 DEF Fresh
<1>5. Reserves(e)'
  BY <1>3, <1>4, AllOthers DEF Reserves, rows
<1>6. WritesBack(e)' /\ OnDraft(e)'
  BY <1>1, <1>2, <1>3, RowsKeep DEF WritesBack, OnDraft
<1> QED BY <1>3, <1>4, <1>5, <1>6 DEF BeginsEdit, FirstOps

LEMMA LoadQuestionBegins ==
  ASSUME WholeTree, NEW e \in Editors, NEW q \in Questions, NEW n \in Scores, LoadQuestion(e, q, n)
  PROVE  BeginsEdit(e)
<1> DEFINE row == [question[q] EXCEPT !.score = n]
           seen == SeenOf(SectionOf(q))
<1>1. /\ Hold(e, "rescore", "question", q, row, seen) /\ question[q] # Missing
      /\ Editable(TestOfQuestion(q))
  BY DEF LoadQuestion, Alive
<1>2. row.group = question[q].group
  BY <1>1, TreeFields DEF Question
<1> HIDE DEF row, seen
<1>3. /\ UNCHANGED rows /\ EditTurns(e) /\ MayBegin(e, "rescore")
      /\ req'[e] = [op |-> "question", kind |-> "rescore", id |-> q, row |-> row,
                    seen |-> seen, sum |-> 0]
  BY <1>1, HoldDoes
<1>4. Exists(q)
  BY <1>1 DEF Exists
<1>5. Reserves(e)' /\ WritesBack(e)'
  BY <1>1, <1>2, <1>3 DEF Reserves, WritesBack, rows
<1>6. OnDraft(e)'
  BY <1>1, <1>2, <1>3, RowsKeep DEF OnDraft, TestOfQuestion
<1> QED BY <1>3, <1>4, <1>5, <1>6 DEF BeginsEdit, FirstOps

LEMMA LoadMoveBegins ==
  ASSUME WholeTree, NEW e \in Editors, NEW q \in Questions, NEW g \in Groups, NEW n \in Scores,
         LoadMove(e, q, g, n)
  PROVE  BeginsEdit(e)
<1> DEFINE row == [question[q] EXCEPT !.group = g, !.score = n]
           seen == group[g].section
<1>1. Hold(e, "move", "question", q, row, seen) /\ question[q] # Missing
  BY DEF LoadMove, Alive
<1> HIDE DEF row, seen
<1>2. /\ UNCHANGED rows /\ EditTurns(e) /\ MayBegin(e, "move") /\ workload' = workload
      /\ req'[e] = [op |-> "question", kind |-> "move", id |-> q, row |-> row,
                    seen |-> seen, sum |-> 0]
  BY <1>1, HoldDoes DEF EditTurns
<1>3. Exists(q)
  BY <1>1 DEF Exists
<1>4. Reserves(e)' /\ WritesBack(e)'
  BY <1>1, <1>2 DEF Reserves, WritesBack, rows
<1>5. OnDraft(e)'
  BY <1>2 DEF OnDraft, StatusAlone, MayBegin
<1> QED BY <1>2, <1>3, <1>4, <1>5 DEF BeginsEdit, FirstOps

LEMMA LoadGroupBegins ==
  ASSUME WholeTree, NEW e \in Editors, NEW g \in Groups, NEW s \in Sections, LoadGroup(e, g, s)
  PROVE  BeginsEdit(e)
<1> DEFINE row == [group[g] EXCEPT !.section = s]
           k == IF s = group[g].section THEN "retitle" ELSE "move"
<1>1. /\ Hold(e, k, "group", g, row, Missing) /\ group[g] # Missing
      /\ Editable(section[group[g].section].test)
  BY DEF LoadGroup, Alive, TestOfGroup
<1>2. row.section = s
  BY <1>1, TreeFields DEF Group
<1>3. k \in {"retitle", "move"} /\ (k = "retitle" => s = group[g].section)
  OBVIOUS
<1> HIDE DEF row, k
<1>4. /\ UNCHANGED rows /\ EditTurns(e) /\ MayBegin(e, k) /\ workload' = workload
      /\ req'[e] = [op |-> "group", kind |-> k, id |-> g, row |-> row,
                    seen |-> Missing, sum |-> 0]
  BY <1>1, HoldDoes DEF EditTurns
<1>5. Exists(g)
  BY <1>1 DEF Exists
<1>6. Reserves(e)' /\ WritesBack(e)'
  BY <1>1, <1>2, <1>3, <1>4 DEF Reserves, WritesBack, rows
<1>7. OnDraft(e)'
  <2>1. CASE k = "move"
    BY <1>4, <2>1 DEF OnDraft, StatusAlone, MayBegin
  <2>2. CASE k = "retitle"
    BY <1>1, <1>2, <1>3, <1>4, <2>2, RowsKeep DEF OnDraft, rows
  <2> QED BY <1>3, <2>1, <2>2
<1> QED BY <1>4, <1>5, <1>6, <1>7 DEF BeginsEdit, FirstOps

LEMMA LoadSectionBegins ==
  ASSUME WholeTree, NEW e \in Editors, NEW s \in Sections, section[s] # Missing, NEW t \in Tests,
         NEW n \in Scores \cup {section[s].total}, LoadSection(e, s, t, n)
  PROVE  BeginsEdit(e)
<1> DEFINE row == [section[s] EXCEPT !.test = t, !.total = n]
           k == IF t = section[s].test THEN "retotal" ELSE "move"
<1>1. Hold(e, k, "section", s, row, Missing) /\ Editable(section[s].test)
  BY DEF LoadSection
<1>2. row.test = t
  BY <1>1, TreeFields DEF Section
<1>3. k \in {"retotal", "move"} /\ (k = "retotal" => t = section[s].test)
  OBVIOUS
<1> HIDE DEF row, k
<1>4. /\ UNCHANGED rows /\ EditTurns(e) /\ MayBegin(e, k) /\ workload' = workload
      /\ req'[e] = [op |-> "section", kind |-> k, id |-> s, row |-> row,
                    seen |-> Missing, sum |-> 0]
  BY <1>1, HoldDoes DEF EditTurns
<1>5. Exists(s)
  BY <1>1 DEF Exists
<1>6. Reserves(e)' /\ WritesBack(e)'
  BY <1>1, <1>2, <1>3, <1>4 DEF Reserves, WritesBack, rows
<1>7. OnDraft(e)'
  <2>1. CASE k = "move"
    BY <1>4, <2>1 DEF OnDraft, StatusAlone, MayBegin
  <2>2. CASE k = "retotal"
    BY <1>1, <1>2, <1>3, <1>4, <2>2, RowsKeep DEF OnDraft
  <2> QED BY <1>3, <2>1, <2>2
<1> QED BY <1>4, <1>5, <1>6, <1>7 DEF BeginsEdit, FirstOps

\* Requests about a test.
LEMMA HoldTestBegins ==
  ASSUME WholeTree, NEW e \in Editors, NEW k \in Kinds \ {"add"}, NEW t \in Tests, NEW row, NEW seen,
         NEW op \in {"test", "toggle", "discard", "sections"}, test[t] # Missing,
         op = "discard" => Editable(t), Hold(e, k, op, t, row, seen)
  PROVE  BeginsEdit(e)
<1>1. /\ UNCHANGED rows /\ EditTurns(e) /\ MayBegin(e, k)
      /\ req'[e] = [op |-> op, kind |-> k, id |-> t, row |-> row, seen |-> seen, sum |-> 0]
  BY HoldDoes
<1>2. Exists(t)
  BY DEF Exists
<1>3. Reserves(e)' /\ WritesBack(e)'
  BY <1>1 DEF Reserves, WritesBack, rows
<1>4. OnDraft(e)'
  BY <1>1, RowsKeep DEF OnDraft
<1> QED BY <1>1, <1>2, <1>3, <1>4 DEF BeginsEdit, FirstOps

LEMMA TestRequestsBegin ==
  ASSUME WholeTree, NEW e \in Editors, NEW t \in Tests
  PROVE  /\ LoadPublish(e, t) \/ LoadDiscard(e, t) \/ LoadClone(e, t) => BeginsEdit(e)
         /\ \A st, n : LoadTest(e, t, st, n) => BeginsEdit(e)
<1>1. {"publish", "discard", "clone", "patch"} \subseteq Kinds \ {"add"}
  BY DEF Kinds
<1>2. ASSUME LoadPublish(e, t) \/ LoadDiscard(e, t) \/ LoadClone(e, t) PROVE BeginsEdit(e)
  BY <1>1, <1>2, HoldTestBegins DEF LoadPublish, LoadDiscard, LoadClone, Alive
<1>3. ASSUME NEW st, NEW n, LoadTest(e, t, st, n) PROVE BeginsEdit(e)
  BY <1>1, <1>3, HoldTestBegins DEF LoadTest, Alive
<1> QED BY <1>2, <1>3

LEMMA HoldRemovalBegins ==
  ASSUME WholeTree, NEW e \in Editors, NEW x, NEW row, NEW seen, Exists(x),
         x \in Sections => Editable(section[x].test),
         x \in Groups => Editable(TestOfGroup(x)),
         x \in Questions => Editable(TestOfQuestion(x)),
         Hold(e, "remove", "remove", x, row, seen)
  PROVE  BeginsEdit(e)
<1>1. /\ UNCHANGED rows /\ EditTurns(e) /\ MayBegin(e, "remove")
      /\ req'[e] = [op |-> "remove", kind |-> "remove", id |-> x, row |-> row,
                    seen |-> seen, sum |-> 0]
  BY HoldDoes
<1>2. Reserves(e)' /\ WritesBack(e)'
  BY <1>1 DEF Reserves, WritesBack, rows
<1>3. OnDraft(e)'
  BY <1>1, RowsKeep DEF OnDraft, rows
<1> QED BY <1>1, <1>2, <1>3 DEF BeginsEdit, FirstOps

LEMMA LoadRemovalBegins ==
  ASSUME WholeTree, NEW e \in Editors
  PROVE  /\ \A s \in Sections : LoadRemoval(e, section, section[s].test, s) => BeginsEdit(e)
         /\ \A g \in Groups : LoadRemoval(e, group, TestOfGroup(g), g) => BeginsEdit(e)
         /\ \A q \in Questions : LoadRemoval(e, question, TestOfQuestion(q), q) => BeginsEdit(e)
<1>1. ASSUME NEW s \in Sections, LoadRemoval(e, section, section[s].test, s)
      PROVE  BeginsEdit(e)
  <2>1. s \notin Groups /\ s \notin Questions /\ Exists(s) /\ Editable(section[s].test)
    BY <1>1, KeysDiffer DEF LoadRemoval, Alive, Exists
  <2> QED BY <1>1, <2>1, HoldRemovalBegins DEF LoadRemoval
<1>2. ASSUME NEW g \in Groups, LoadRemoval(e, group, TestOfGroup(g), g) PROVE BeginsEdit(e)
  <2>1. g \notin Sections /\ g \notin Questions /\ Exists(g) /\ Editable(TestOfGroup(g))
    BY <1>2, KeysDiffer DEF LoadRemoval, Alive, Exists
  <2> QED BY <1>2, <2>1, HoldRemovalBegins DEF LoadRemoval
<1>3. ASSUME NEW q \in Questions, LoadRemoval(e, question, TestOfQuestion(q), q)
      PROVE  BeginsEdit(e)
  <2>1. q \notin Groups /\ q \notin Sections /\ Exists(q) /\ Editable(TestOfQuestion(q))
    BY <1>3, KeysDiffer DEF LoadRemoval, Alive, Exists
  <2> QED BY <1>3, <2>1, HoldRemovalBegins DEF LoadRemoval
<1> QED BY <1>1, <1>2, <1>3

\* Whatever is checked begins, except that a test is created at once.
LEMMA CheckBegins ==
  ASSUME WholeTree, NEW e \in Editors, Check(e)
  PROVE  BeginsEdit(e) \/ \E t \in Tests, st \in {"DRAFT", "PUBLISHED"} : CreateTest(e, t, st)
<1>1. ASSUME NEW t \in Tests,
             \/ LoadPublish(e, t) \/ LoadDiscard(e, t) \/ LoadClone(e, t)
             \/ \E st, n : LoadTest(e, t, st, n)
             \/ \E s \in Sections :
                  \/ CheckSection(e, s, t)
                  \/ section[s] # Missing
                       /\ \E n \in Scores \cup {section[s].total} : LoadSection(e, s, t, n)
      PROVE  BeginsEdit(e)
  BY <1>1, TestRequestsBegin, CheckSectionBegins, LoadSectionBegins
<1>2. ASSUME NEW s \in Sections,
             \/ \E g \in Groups : CheckGroup(e, g, s) \/ LoadGroup(e, g, s)
             \/ section[s] # Missing /\ LoadRemoval(e, section, section[s].test, s)
      PROVE  BeginsEdit(e)
  BY <1>2, CheckGroupBegins, LoadGroupBegins, LoadRemovalBegins
<1>3. ASSUME NEW g \in Groups,
             \/ \E q \in Questions, n \in Scores :
                  CheckQuestion(e, q, g, n) \/ LoadMove(e, q, g, n)
             \/ group[g] # Missing /\ LoadRemoval(e, group, TestOfGroup(g), g)
      PROVE  BeginsEdit(e)
  BY <1>3, CheckQuestionBegins, LoadMoveBegins, LoadRemovalBegins
<1>4. ASSUME NEW q \in Questions,
             \/ \E n \in Scores : LoadQuestion(e, q, n)
             \/ question[q] # Missing /\ LoadRemoval(e, question, TestOfQuestion(q), q)
      PROVE  BeginsEdit(e)
  BY <1>4, LoadQuestionBegins, LoadRemovalBegins
<1> QED BY <1>1, <1>2, <1>3, <1>4 DEF Check

\* Published, and what a step changes of what students are shown is of tests
\* that are not.
Closed(t) == test[t] # Missing /\ test[t].status = "PUBLISHED"

SparesClosed ==
  /\ \A s \in Sections :
       /\ section[s] = Missing /\ section'[s] # Missing => ~Closed(section'[s].test)
       /\ section[s] # Missing /\ section'[s].alive # section[s].alive
            => ~Closed(section[s].test)
  /\ \A g \in Groups :
       /\ group[g] = Missing /\ group'[g] # Missing => ~Closed(TestOfGroup(g)')
       /\ group[g] # Missing /\ group'[g].alive # group[g].alive => ~Closed(TestOfGroup(g))
  /\ \A q \in Questions :
       /\ question[q] = Missing /\ question'[q] # Missing => ~Closed(TestOfQuestion(q)')
       /\ question[q] # Missing /\ (\/ question'[q].alive # question[q].alive
                                    \/ question'[q].score # question[q].score)
            => ~Closed(TestOfQuestion(q))

EditWorks(e) == Births(e) /\ StaysPut(e) /\ GoesOn(e) /\ (StatusAlone => SparesClosed)

LEMMA UnchangedSpares == UNCHANGED <<section, group, question>> => SparesClosed
BY DEF SparesClosed

LEMMA WorksOnNothing ==
  ASSUME WholeTree, NEW e \in Editors, UNCHANGED rows, GoesOn(e) PROVE EditWorks(e)
<1>1. UNCHANGED <<section, group, question>>
  BY DEF rows
<1> QED BY <1>1, UnchangedStays, UnchangedSpares DEF EditWorks

LEMMA DoneGoesOn == ASSUME WholeTree, NEW e \in Editors, Done(e) PROVE GoesOn(e)
BY DoneDoes DEF GoesOn

LEMMA GoOnGoesOn ==
  ASSUME WholeTree, NEW e \in Editors, NEW op \in Saving \cup Cloning, NEW row, NEW seen, NEW sum,
         GoOn(e, op, row, seen, sum), UNCHANGED workload, req[e] # NoEdit
  PROVE  GoesOn(e)
<1>1. req'[e] = [op |-> op, kind |-> req[e].kind, id |-> req[e].id, row |-> row,
                 seen |-> seen, sum |-> sum]
  BY GoOnDoes
<1> QED BY <1>1 DEF GoesOn

LEMMA BusyByOp == \A e : req[e].op # "idle" => req[e] # NoEdit
BY DEF NoEdit

LEMMA CreateTestWorks ==
  ASSUME Reliable, NEW e \in Editors, NEW t \in Tests, NEW st, CreateTest(e, t, st)
  PROVE  EditWorks(e)
<1>1. /\ test[t] = Missing /\ UNCHANGED <<section, group, question>> /\ Done(e) /\ WholeTree
      /\ \A u \in Tests : u # t => test'[u] = test[u]
  BY DEF CreateTest, Fresh, Reliable, WholeTree, Tree
<1>2. Births(e) /\ StaysPut(e)
  BY <1>1 DEF Births, StaysPut
<1> QED BY <1>1, <1>2, DoneGoesOn, UnchangedSpares DEF EditWorks

LEMMA TestStepsWork ==
  ASSUME Reliable, NEW e \in Editors, WriteTest(e) \/ Toggle(e) \/ StoreTest(e)
  PROVE  EditWorks(e)
<1>1. WholeTree /\ UNCHANGED <<section, group, question>> /\ Done(e)
  BY DEF WriteTest, Toggle, StoreTest, Reliable
<1>2. Births(e)
  BY <1>1 DEF Births
<1>3. \A t \in Tests : test[t] # Missing /\ ~SetsStatus(e) => test'[t].status = test[t].status
  <2>1. CASE WriteTest(e) \/ Toggle(e)
    <3>1. SetsStatus(e)
      BY <1>1, <2>1, BusyByOp DEF SetsStatus, WriteTest, Toggle, WholeTree, Sound, FitsEdit
    <3> QED BY <3>1
  <2>2. CASE StoreTest(e)
    <3> DEFINE t == req[e].seen.in
    <3>1. t \in Tests /\ test[t] \in Test
      BY <1>1, <2>2, SavingIsTyped, TreeFields DEF StoreTest, Saving
    <3>2. test' = test \/ test' = [test EXCEPT ![t].total = req[e].sum]
      BY <2>2 DEF StoreTest
    <3> HIDE DEF t
    <3>3. ASSUME NEW u \in Tests PROVE test'[u] = test[u] \/ test'[u] = [test[u] EXCEPT !.total = req[e].sum]
      BY <1>1, <3>1, <3>2 DEF WholeTree, Tree
    <3>4. ASSUME NEW u \in Tests, test[u] # Missing PROVE test'[u].status = test[u].status
      BY <1>1, <3>3, <3>4, TreeFields DEF Test
    <3> QED BY <3>4
  <2> QED BY <2>1, <2>2
<1>4. StaysPut(e)
  BY <1>1, <1>3 DEF StaysPut
<1> QED BY <1>1, <1>2, <1>4, DoneGoesOn, UnchangedSpares DEF EditWorks

LEMMA WriteSectionWorks ==
  ASSUME Reliable, NEW e \in Editors, WriteSection(e)
  PROVE  EditWorks(e)
<1> DEFINE x == req[e].id
<1>1. /\ req[e].op = "section" /\ UNCHANGED <<test, group, question>> /\ Done(e) /\ WholeTree
      /\ section' = [section EXCEPT ![x] = req[e].row] /\ Relies(e)
  BY DEF WriteSection, Reliable
<1>2. x \in Sections /\ req[e].kind \in {"add", "retotal", "move"} /\ req[e].row \in Section
  BY <1>1 DEF WholeTree, Sound, FitsEdit
<1>3. /\ section'[x] = req[e].row
      /\ \A s \in Sections : s # x => section'[s] = section[s]
  BY <1>1, <1>2 DEF WholeTree, Tree
<1>4. CASE section[x] = Missing
  <2>1. \A f \in Editors : f # e => req[f].id # x
    BY <1>1, <1>2, <1>4 DEF Relies, Reserves, WritesBack
  <2>2. Births(e) /\ StaysPut(e)
    BY <1>1, <1>3, <1>4, <2>1 DEF Births, StaysPut
  <2>3. StatusAlone => ~Closed(section'[x].test)
    BY <1>1, <1>3 DEF Relies, OnDraft, Editable, Closed
  <2>4. StatusAlone => SparesClosed
    BY <1>1, <1>3, <1>4, <2>3 DEF SparesClosed
  <2> QED BY <1>1, <2>2, <2>4, DoneGoesOn DEF EditWorks
<1>5. CASE section[x] # Missing
  <2>1. "move" \notin workload.kinds => section[x].test = req[e].row.test
    <3>1. req[e].kind \in {"retotal", "move"} /\ req[e].kind \in workload.kinds
      BY <1>1, <1>2, <1>5, BusyByOp DEF Relies, Reserves, AdmittedKind
    <3> QED BY <1>1, <3>1 DEF Relies, WritesBack
  <2>2. Births(e) /\ StaysPut(e)
    BY <1>1, <1>3, <1>5, <2>1 DEF Births, StaysPut
  <2>3. StatusAlone => ~Closed(section[x].test)
    BY <1>1, <2>1 DEF Relies, OnDraft, Editable, Closed, StatusAlone
  <2>4. StatusAlone => SparesClosed
    BY <1>1, <1>3, <1>5, <2>3 DEF SparesClosed
  <2> QED BY <1>1, <2>2, <2>4, DoneGoesOn DEF EditWorks
<1> QED BY <1>4, <1>5

LEMMA WriteGroupWorks ==
  ASSUME Reliable, NEW e \in Editors, WriteGroup(e)
  PROVE  EditWorks(e)
<1> SUFFICES ASSUME NEW x, x = req[e].id PROVE EditWorks(e)
  OBVIOUS
<1>1. /\ req[e].op = "group" /\ UNCHANGED <<test, section, question>> /\ Done(e) /\ WholeTree
      /\ group' = [group EXCEPT ![x] = req[e].row] /\ Relies(e)
  BY DEF WriteGroup, Reliable
<1>2. x \in Groups /\ req[e].kind \in {"add", "retitle", "move"} /\ req[e].row \in Group
  BY <1>1 DEF WholeTree, Sound, FitsEdit
<1>3. /\ group'[x] = req[e].row
      /\ \A g \in Groups : g # x => group'[g] = group[g]
  BY <1>1, <1>2 DEF WholeTree, Tree
<1>4. StatusAlone => ~Closed(section[req[e].row.section].test)
  BY <1>1 DEF Relies, OnDraft, Editable, Closed
<1>5. CASE group[x] = Missing
  <2>1. \A f \in Editors : f # e => req[f].id # x
    BY <1>1, <1>2, <1>5 DEF Relies, Reserves, WritesBack
  <2>2. Births(e) /\ StaysPut(e)
    BY <1>1, <1>3, <1>5, <2>1 DEF Births, StaysPut
  <2>3. StatusAlone => ~Closed(TestOfGroup(x)')
    BY <1>1, <1>3, <1>4 DEF Closed, TestOfGroup
  <2>4. StatusAlone => SparesClosed
    BY <1>1, <1>3, <1>5, <2>3 DEF SparesClosed
  <2> QED BY <1>1, <2>2, <2>4, DoneGoesOn DEF EditWorks
<1>6. CASE group[x] # Missing
  <2>1. "move" \notin workload.kinds => group[x].section = req[e].row.section
    <3>1. req[e].kind \in {"retitle", "move"} /\ req[e].kind \in workload.kinds
      BY <1>1, <1>2, <1>6, BusyByOp DEF Relies, Reserves, AdmittedKind
    <3> QED BY <1>1, <3>1 DEF Relies, WritesBack
  <2>2. Births(e) /\ StaysPut(e)
    BY <1>1, <1>3, <1>6, <2>1 DEF Births, StaysPut
  <2>3. StatusAlone => ~Closed(TestOfGroup(x))
    BY <1>4, <2>1 DEF TestOfGroup, StatusAlone
  <2>4. StatusAlone => SparesClosed
    BY <1>1, <1>3, <1>6, <2>3 DEF SparesClosed
  <2> QED BY <1>1, <2>2, <2>4, DoneGoesOn DEF EditWorks
<1> QED BY <1>5, <1>6

LEMMA WriteQuestionWorks ==
  ASSUME Reliable, NEW e \in Editors, WriteQuestion(e)
  PROVE  EditWorks(e)
<1> SUFFICES ASSUME NEW x, x = req[e].id, NEW row, row = req[e].row PROVE EditWorks(e)
  OBVIOUS
<1>1. /\ req[e].op = "question" /\ UNCHANGED <<test, section, group, workload>> /\ WholeTree
      /\ question' = [question EXCEPT ![x] = row] /\ Relies(e) /\ req[e] # NoEdit
  BY BusyByOp DEF WriteQuestion, Reliable
<1>2. x \in Questions /\ req[e].kind \in {"add", "rescore", "move"} /\ row \in Question
  BY <1>1 DEF WholeTree, Sound, FitsEdit
<1>3. /\ question'[x] = row
      /\ \A q \in Questions : q # x => question'[q] = question[q]
  BY <1>1, <1>2 DEF WholeTree, Tree
<1>4. GoesOn(e)
  <2>1. "sum" \in Saving \cup Cloning
    BY DEF Saving
  <2> QED BY <1>1, <2>1, GoOnGoesOn DEF WriteQuestion
<1>5. StatusAlone => ~Closed(TestOfGroup(row.group))
  BY <1>1 DEF Relies, OnDraft, Editable, Closed
<1>6. CASE question[x] = Missing
  <2>1. \A f \in Editors : f # e => req[f].id # x
    BY <1>1, <1>2, <1>6 DEF Relies, Reserves, WritesBack
  <2>2. Births(e) /\ StaysPut(e)
    BY <1>1, <1>3, <1>6, <2>1 DEF Births, StaysPut
  <2>3. StatusAlone => ~Closed(TestOfQuestion(x)')
    BY <1>1, <1>3, <1>5 DEF TestOfQuestion, TestOfGroup
  <2>4. StatusAlone => SparesClosed
    BY <1>1, <1>3, <1>6, <2>3 DEF SparesClosed
  <2> QED BY <2>2, <2>4, <1>4 DEF EditWorks
<1>7. CASE question[x] # Missing
  <2>1. req[e].kind \in {"rescore", "move"} /\ req[e].kind \in workload.kinds
    BY <1>1, <1>2, <1>7 DEF Relies, Reserves, AdmittedKind
  <2>2. "move" \notin workload.kinds => question[x].group = row.group
    BY <1>1, <2>1 DEF Relies, WritesBack
  <2>3. Births(e)
    BY <1>1, <1>3, <1>7 DEF Births
  <2>4. StaysPut(e)
    BY <1>1, <1>3, <2>2 DEF StaysPut
  <2>5. StatusAlone => ~Closed(TestOfQuestion(x))
    BY <1>5, <2>2 DEF TestOfQuestion, StatusAlone
  <2>6. StatusAlone => SparesClosed
    BY <1>1, <1>3, <1>7, <2>5 DEF SparesClosed
  <2> QED BY <2>3, <2>4, <2>6, <1>4 DEF EditWorks
<1> QED BY <1>6, <1>7

LEMMA SumStepsWork ==
  ASSUME Reliable, NEW e \in Editors, SumSection(e) \/ SumTest(e)
  PROVE  EditWorks(e)
<1>1. WholeTree /\ UNCHANGED rows /\ UNCHANGED workload /\ req[e] # NoEdit
  BY BusyByOp DEF SumSection, SumTest, Reliable
<1>2. "store" \in Saving \cup Cloning /\ "storeTest" \in Saving \cup Cloning
  BY DEF Saving
<1>3. GoesOn(e)
  BY <1>1, <1>2, GoOnGoesOn DEF SumSection, SumTest
<1> QED BY <1>1, <1>3, WorksOnNothing

LEMMA StoreSectionWorks ==
  ASSUME Reliable, NEW e \in Editors, StoreSection(e)
  PROVE  EditWorks(e)
<1> DEFINE x == req[e].seen.of
<1>1. /\ WholeTree /\ UNCHANGED <<test, group, question, workload>> /\ req[e] # NoEdit
      /\ section' = section \/ section' = [section EXCEPT ![x].total = req[e].sum]
  BY BusyByOp DEF StoreSection, Reliable
<1>2. x \in Sections /\ section[x] # Missing
  BY <1>1, SavingIsTyped DEF StoreSection, Saving
<1> HIDE DEF x
<1>3. ASSUME NEW s \in Sections, section[s] # Missing
      PROVE  section'[s].test = section[s].test /\ section'[s].alive = section[s].alive
  <2>1. section[s] \in Section
    BY <1>1, <1>3, TreeFields
  <2>2. section'[s] = section[s] \/ section'[s] = [section[s] EXCEPT !.total = req[e].sum]
    BY <1>1, <1>2 DEF WholeTree, Tree
  <2> QED BY <2>1, <2>2 DEF Section
<1>4. \A s \in Sections : section[s] = Missing => section'[s] = Missing
  BY <1>1, <1>2 DEF WholeTree, Tree
<1>5. Births(e) /\ StaysPut(e) /\ SparesClosed
  BY <1>1, <1>3, <1>4 DEF Births, StaysPut, SparesClosed
<1>6. "sumTest" \in Saving \cup Cloning
  BY DEF Saving
<1>7. GoesOn(e)
  BY <1>1, <1>6, GoOnGoesOn DEF StoreSection
<1> QED BY <1>5, <1>7 DEF EditWorks

\* Soft deletion leaves rows where they are.
LEMMA SoftlyStays ==
  ASSUME WholeTree, NEW e \in Editors, Softly(test, test', Tests), Softly(section, section', Sections),
         Softly(group, group', Groups), Softly(question, question', Questions)
  PROVE  /\ Births(e) /\ StaysPut(e)
         /\ \A q \in Questions : question[q] # Missing => question'[q].score = question[q].score
         /\ \A s \in Sections : section[s] = Missing => section'[s] = Missing
         /\ \A g \in Groups : group[g] = Missing => group'[g] = Missing
         /\ \A q \in Questions : question[q] = Missing => question'[q] = Missing
<1>1. \A t \in Tests : test[t] # Missing => test'[t].status = test[t].status
  <2> SUFFICES ASSUME NEW t \in Tests, test[t] # Missing PROVE test'[t].status = test[t].status
    OBVIOUS
  <2>1. test[t] \in Test /\ (test'[t] = test[t] \/ test'[t] = [test[t] EXCEPT !.alive = FALSE])
    BY TreeFields DEF Softly
  <2> QED BY <2>1 DEF Test
<1>2. \A s \in Sections : section[s] # Missing => section'[s].test = section[s].test
  <2> SUFFICES ASSUME NEW s \in Sections, section[s] # Missing
               PROVE section'[s].test = section[s].test
    OBVIOUS
  <2>1. /\ section[s] \in Section
        /\ section'[s] = section[s] \/ section'[s] = [section[s] EXCEPT !.alive = FALSE]
    BY TreeFields DEF Softly
  <2> QED BY <2>1 DEF Section
<1>3. \A g \in Groups : group[g] # Missing => group'[g].section = group[g].section
  <2> SUFFICES ASSUME NEW g \in Groups, group[g] # Missing
               PROVE group'[g].section = group[g].section
    OBVIOUS
  <2>1. /\ group[g] \in Group
        /\ group'[g] = group[g] \/ group'[g] = [group[g] EXCEPT !.alive = FALSE]
    BY TreeFields DEF Softly
  <2> QED BY <2>1 DEF Group
<1>4. \A q \in Questions : question[q] # Missing =>
         question'[q].group = question[q].group /\ question'[q].score = question[q].score
  <2> SUFFICES ASSUME NEW q \in Questions, question[q] # Missing
               PROVE  /\ question'[q].group = question[q].group
                      /\ question'[q].score = question[q].score
    OBVIOUS
  <2>1. /\ question[q] \in Question
        /\ question'[q] = question[q] \/ question'[q] = [question[q] EXCEPT !.alive = FALSE]
    BY TreeFields DEF Softly
  <2> QED BY <2>1 DEF Question
<1>5. /\ \A s \in Sections : section[s] = Missing => section'[s] = Missing
      /\ \A g \in Groups : group[g] = Missing => group'[g] = Missing
      /\ \A q \in Questions : question[q] = Missing => question'[q] = Missing
  BY DEF Softly
<1>6. Births(e)
  BY <1>5 DEF Births
<1> QED BY <1>1, <1>2, <1>3, <1>4, <1>5, <1>6 DEF StaysPut

LEMMA RemoveBranchWorks ==
  ASSUME Reliable, NEW e \in Editors, RemoveBranch(e)
  PROVE  EditWorks(e)
<1> SUFFICES ASSUME NEW x, x = req[e].id PROVE EditWorks(e)
  OBVIOUS
<1>1. /\ WholeTree /\ Relies(e) /\ req[e].op = "remove" /\ question' = question
      /\ section' = IF x \in Sections THEN Dead(section, x) ELSE section
      /\ group' = IF x \in Groups THEN Dead(group, x) ELSE group
  BY DEF RemoveBranch, Reliable
<1>2. Births(e) /\ StaysPut(e) /\ GoesOn(e)
  BY <1>1, RemoveBranchDoes, SoftlyStays, DoneGoesOn
<1>3. /\ \A s \in Sections : section[s] = Missing => section'[s] = Missing
      /\ \A g \in Groups : group[g] = Missing => group'[g] = Missing
  BY <1>1, RemoveBranchDoes, SoftlyStays
<1>4. /\ \A s \in Sections : s # x => section'[s] = section[s]
      /\ \A g \in Groups : g # x => group'[g] = group[g]
  BY <1>1 DEF WholeTree, Tree, Dead
<1>5. StatusAlone =>
        /\ x \in Sections => ~Closed(section[x].test)
        /\ x \in Groups => ~Closed(TestOfGroup(x))
  BY <1>1 DEF Relies, OnDraft, Editable, Closed
<1>6. StatusAlone => SparesClosed
  BY <1>1, <1>3, <1>4, <1>5 DEF SparesClosed
<1> QED BY <1>2, <1>6 DEF EditWorks

LEMMA RemoveQuestionWorks ==
  ASSUME Reliable, NEW e \in Editors, RemoveQuestion(e)
  PROVE  EditWorks(e)
<1> SUFFICES ASSUME NEW x, x = req[e].id PROVE EditWorks(e)
  OBVIOUS
<1>1. /\ WholeTree /\ Relies(e) /\ req[e].op = "remove" /\ UNCHANGED <<section, group, workload>>
      /\ question' = Dead(question, x) /\ x \in Questions /\ req[e] # NoEdit
  BY BusyByOp DEF RemoveQuestion, Reliable
<1>2. /\ Births(e) /\ StaysPut(e)
      /\ \A q \in Questions : question[q] # Missing => question'[q].score = question[q].score
      /\ \A q \in Questions : question[q] = Missing => question'[q] = Missing
  BY <1>1, RemoveQuestionDoes, SoftlyStays
<1>3. "sum" \in Saving \cup Cloning
  BY DEF Saving
<1>4. GoesOn(e)
  BY <1>1, <1>3, GoOnGoesOn DEF RemoveQuestion
<1>5. \A q \in Questions : q # x => question'[q] = question[q]
  BY <1>1 DEF WholeTree, Tree, Dead
<1>6. StatusAlone => ~Closed(TestOfQuestion(x))
  BY <1>1 DEF Relies, OnDraft, Editable, Closed
<1>7. StatusAlone => SparesClosed
  BY <1>1, <1>2, <1>5, <1>6 DEF SparesClosed
<1> QED BY <1>2, <1>4, <1>7 DEF EditWorks

LEMMA DiscardWorks ==
  ASSUME Reliable, NEW e \in Editors, Discard(e)
  PROVE  EditWorks(e)
<1> SUFFICES ASSUME NEW t, t = req[e].id PROVE EditWorks(e)
  OBVIOUS
<1>1. WholeTree /\ Relies(e) /\ req[e].op = "discard"
  BY DEF Discard, Reliable
<1>2. /\ Births(e) /\ StaysPut(e) /\ GoesOn(e)
      /\ \A q \in Questions : question[q] # Missing => question'[q].score = question[q].score
      /\ \A s \in Sections : section[s] = Missing => section'[s] = Missing
      /\ \A g \in Groups : group[g] = Missing => group'[g] = Missing
      /\ \A q \in Questions : question[q] = Missing => question'[q] = Missing
  BY <1>1, DiscardDoes, SoftlyStays, DoneGoesOn
<1>3. /\ \A s \in Sections : section[s] # Missing /\ section[s].test # t
           => section'[s] = section[s]
      /\ \A g \in Groups : group[g] # Missing /\ TestOfGroup(g) # t => group'[g] = group[g]
      /\ \A q \in Questions : question[q] # Missing /\ TestOfQuestion(q) # t
           => question'[q] = question[q]
  BY <1>1, DiscardDoes
<1>4. StatusAlone => ~Closed(t)
  BY <1>1 DEF Relies, OnDraft, Editable, Closed
<1>5. StatusAlone => SparesClosed
  BY <1>2, <1>3, <1>4 DEF SparesClosed
<1> QED BY <1>2, <1>5 DEF EditWorks

LEMMA CopiesWork ==
  ASSUME WholeTree, NEW e \in Editors, req[e].op = "copy", NEW c \in Tests, NEW sk, NEW gk, NEW qk,
         Copies(e, c, sk, gk, qk)
  PROVE  Births(e) /\ StaysPut(e) /\ SparesClosed
<1> DEFINE sc == CopiedSections(e, c)
           gc == CopiedGroups(e, sk)
           qc == CopiedRows(e, gk)
<1>1. /\ test[c] = Missing /\ \A t \in Tests : t # c => test'[t] = test[t]
      /\ Placed(section, section', Sections, sk, sc) /\ Placed(group, group', Groups, gk, gc)
      /\ Placed(question, question', Questions, qk, qc)
  BY DEF Copies, Fresh, WholeTree, Tree
<1>2. /\ \A s \in DOMAIN sc : sc[s] \in Section /\ sc[s].test = c
      /\ \A g \in DOMAIN gc : gc[g] \in Group /\ \E s \in DOMAIN sc : gc[g].section = sk[s]
      /\ \A q \in DOMAIN qc : qc[q] \in Question /\ \E g \in DOMAIN gc : qc[q].group = gk[g]
  BY CopiesAreTyped
<1> HIDE DEF sc, gc, qc
<1>4. /\ Extended(section, section', Sections, Section, sk, sc)
      /\ Extended(group, group', Groups, Group, gk, gc)
      /\ Extended(question, question', Questions, Question, qk, qc)
  BY CopiesExtend DEF CopyExtends, sc, gc, qc
<1>7. /\ \A x \in DOMAIN sc : \A f \in Editors : req[f].id # sk[x]
      /\ \A x \in DOMAIN gc : \A f \in Editors : req[f].id # gk[x]
      /\ \A x \in DOMAIN qc : \A f \in Editors : req[f].id # qk[x]
  BY <1>1 DEF Placed, Fresh
<1>8. Births(e)
  BY <1>4, <1>7 DEF Births, Extended
<1>9. StaysPut(e)
  BY <1>1, <1>4 DEF StaysPut, Extended
<1>10. ASSUME NEW s \in Sections, section[s] = Missing, section'[s] # Missing
       PROVE  section'[s].test = c
  BY <1>2, <1>4, <1>10 DEF Extended
<1>11. ASSUME NEW g \in Groups, group[g] = Missing, group'[g] # Missing
       PROVE  TestOfGroup(g)' = c
  <2>1. PICK x \in DOMAIN gc : group'[g] = gc[x]
    BY <1>4, <1>11 DEF Extended
  <2>2. PICK s \in DOMAIN sc : gc[x].section = sk[s]
    BY <1>2
  <2>3. section'[sk[s]].test = c
    BY <1>2, <1>4 DEF Extended
  <2> QED BY <2>1, <2>2, <2>3 DEF TestOfGroup
<1>12. ASSUME NEW q \in Questions, question[q] = Missing, question'[q] # Missing
       PROVE  TestOfQuestion(q)' = c
  <2>1. PICK x \in DOMAIN qc : question'[q] = qc[x]
    BY <1>4, <1>12 DEF Extended
  <2>2. PICK g \in DOMAIN gc : qc[x].group = gk[g]
    BY <1>2
  <2>3. TestOfGroup(gk[g])' = c
    <3>1. PICK y : y = gk[g]
      OBVIOUS
    <3>2. TestOfGroup(y)' = c
      BY <1>4, <1>11, <3>1 DEF Extended
    <3> QED BY <3>1, <3>2
  <2> QED BY <2>1, <2>2, <2>3 DEF TestOfQuestion, TestOfGroup
<1>13. ~Closed(c)
  BY <1>1 DEF Closed
<1>14. SparesClosed
  BY <1>4, <1>10, <1>11, <1>12, <1>13 DEF SparesClosed, Extended
<1> QED BY <1>8, <1>9, <1>14

LEMMA ClonesWork ==
  ASSUME Reliable, NEW e \in Editors, CloneSections(e) \/ CloneGroups(e) \/ FinishClone(e)
  PROVE  EditWorks(e)
<1>1. WholeTree
  BY DEF Reliable
<1>2. "groups" \in Saving \cup Cloning /\ "copy" \in Saving \cup Cloning
  BY DEF Cloning
<1>3. CASE CloneSections(e)
  <2>1. UNCHANGED rows /\ UNCHANGED workload /\ req[e] # NoEdit
    BY <1>3, BusyByOp DEF CloneSections
  <2>2. GoesOn(e)
    BY <1>1, <1>2, <1>3, <2>1, GoOnGoesOn DEF CloneSections
  <2> QED BY <1>1, <2>1, <2>2, WorksOnNothing
<1>4. CASE CloneGroups(e)
  <2>1. UNCHANGED rows /\ UNCHANGED workload /\ req[e] # NoEdit
    BY <1>4, BusyByOp DEF CloneGroups
  <2>2. req' = [req EXCEPT ![e] = NoEdit] => GoesOn(e)
    BY <1>1 DEF GoesOn, WholeTree
  <2>3. GoesOn(e)
    BY <1>1, <1>2, <1>4, <2>1, <2>2, GoOnGoesOn DEF CloneGroups
  <2> QED BY <1>1, <2>1, <2>3, WorksOnNothing
<1>5. CASE FinishClone(e)
  <2>1. Done(e) /\ req[e].op = "copy"
    BY <1>1, <1>5, FinishCloneDoes
  <2>2. CASE UNCHANGED rows
    BY <1>1, <2>1, <2>2, DoneGoesOn, WorksOnNothing
  <2>3. CASE ~ UNCHANGED rows
    <3>1. Births(e) /\ StaysPut(e) /\ SparesClosed
      BY <1>1, <1>5, <2>1, <2>3, FinishCloneDoes, CopiesWork
    <3> QED BY <1>1, <2>1, <3>1, DoneGoesOn DEF EditWorks
  <2> QED BY <2>2, <2>3
<1> QED BY <1>3, <1>4, <1>5

LEMMA StepWorks ==
  ASSUME Reliable, NEW e \in Editors, Check(e) \/ WriteStep(e)
  PROVE  BeginsEdit(e) \/ EditWorks(e)
<1>1. CASE Check(e)
  BY <1>1, CheckBegins, CreateTestWorks DEF Reliable
<1>2. CASE WriteStep(e)
  BY <1>2, WriteSectionWorks, WriteGroupWorks, WriteQuestionWorks, TestStepsWork,
    RemoveBranchWorks, RemoveQuestionWorks, DiscardWorks, SumStepsWork, StoreSectionWorks,
    ClonesWork DEF WriteStep
<1> QED BY <1>1, <1>2

-----------------------------------------------------------------------------
(* What requests rely on lasts.                                            *)

LEMMA KeysStayApart ==
  ASSUME Reliable, NEW e \in Editors, NEW f \in Editors, f # e, BeginsEdit(e) \/ GoesOn(e),
         req[f].kind = "add", req[f].op \in {"section", "group", "question"}
  PROVE  req'[e].id # req[f].id
<1>1. FitsEdit(req[f]) /\ Reserves(f)
  BY DEF Reliable, Relies, WholeTree, Sound
<1>2. /\ req[f].op = "section" => req[f].id \in Sections /\ section[req[f].id] = Missing
      /\ req[f].op = "group" => req[f].id \in Groups /\ group[req[f].id] = Missing
      /\ req[f].op = "question" => req[f].id \in Questions /\ question[req[f].id] = Missing
      /\ req[f].id # req[e].id
  BY <1>1 DEF FitsEdit, Reserves
<1>3. CASE BeginsEdit(e)
  <2>1. ~Exists(req[f].id)
    BY <1>2, KeysDiffer DEF Exists
  <2> QED BY <1>3, <2>1 DEF BeginsEdit
<1>4. CASE GoesOn(e)
  <2>1. NoEdit.id = Missing
    BY DEF NoEdit
  <2> QED BY <1>2, <1>4, <2>1, KeysDiffer DEF GoesOn
<1> QED BY <1>3, <1>4

\* A step of e leaves what f relies on as it is.
LEMMA OthersKeepRelying ==
  ASSUME Reliable, NEW e \in Editors, NEW f \in Editors, f # e, EditTurns(e), Grown,
         BeginsEdit(e) \/ EditWorks(e)
  PROVE  Relies(f)'
<1>1. /\ WholeTree /\ Relies(f) /\ req'[f] = req[f] /\ workload' = workload
      /\ FitsEdit(req[f]) /\ Points(f)
  BY DEF Reliable, EditTurns, WholeTree, Sound
<1>2. Births(e) /\ StaysPut(e)
  BY <1>1, UnchangedStays DEF BeginsEdit, EditWorks
<1>3. AdmittedKind(f)'
  BY <1>1 DEF Relies, AdmittedKind
<1>4. Reserves(f)'
  <2>1. CASE req[f].kind = "add" /\ req[f].op \in {"section", "group", "question"}
    <3>1. \A h \in Editors : req'[h].id = req[f].id => h = f
      BY <1>1, <2>1, KeysStayApart DEF Relies, Reserves, EditTurns, EditWorks
    <3>2. /\ req[f].op = "section" => section'[req[f].id] = Missing
          /\ req[f].op = "group" => group'[req[f].id] = Missing
          /\ req[f].op = "question" => question'[req[f].id] = Missing
      BY <1>1, <1>2, <2>1 DEF Relies, Reserves, Births, FitsEdit
    <3> QED BY <1>1, <3>1, <3>2 DEF Reserves
  <2>2. CASE ~(req[f].kind = "add" /\ req[f].op \in {"section", "group", "question"})
    BY <1>1, <2>2 DEF Reserves
  <2> QED BY <2>1, <2>2
<1>5. WritesBack(f)'
  BY <1>1, <1>2 DEF Relies, WritesBack, StaysPut, Grown, FitsEdit
<1>6. ASSUME StatusAlone' PROVE OnDraft(f)'
  <2>1. StatusAlone
    BY <1>1, <1>6 DEF StatusAlone
  <2>2. CASE req[f] = NoEdit
    BY <1>1, <2>2 DEF OnDraft, NoEdit
  <2>3. CASE req[f] # NoEdit
    <3>1. ~SetsStatus(e)
      BY <2>1, <2>3 DEF SetsStatus, StatusAlone, Reliable, Relies, AdmittedKind, LoneKinds
    <3>2. \A t \in Tests : test[t] # Missing /\ Editable(t) => Editable(t)'
      BY <1>2, <3>1 DEF StaysPut, Editable
    <3>3. \A s \in Sections : section[s] # Missing =>
             /\ section'[s].test = section[s].test /\ section[s].test \in Tests
             /\ test[section[s].test] # Missing
      BY <1>1, <1>2, <2>1, TreeFields DEF StaysPut, StatusAlone
    <3>4. \A g \in Groups : group[g] # Missing =>
             TestOfGroup(g)' = TestOfGroup(g) /\ TestOfGroup(g) \in Tests
               /\ test[TestOfGroup(g)] # Missing
      BY <1>1, <1>2, <2>1, <3>3, TreeFields DEF StaysPut, TestOfGroup, StatusAlone
    <3>5. \A q \in Questions : question[q] # Missing =>
             TestOfQuestion(q)' = TestOfQuestion(q) /\ TestOfQuestion(q) \in Tests
               /\ test[TestOfQuestion(q)] # Missing
      <4> SUFFICES ASSUME NEW q \in Questions, question[q] # Missing
                   PROVE  /\ TestOfQuestion(q)' = TestOfQuestion(q)
                          /\ TestOfQuestion(q) \in Tests /\ test[TestOfQuestion(q)] # Missing
        OBVIOUS
      <4>1. question'[q].group = question[q].group
        BY <1>2, <2>1 DEF StaysPut, StatusAlone
      <4>2. PICK g \in Groups : g = question[q].group /\ group[g] # Missing
        BY <1>1, TreeFields
      <4> QED BY <3>4, <4>1, <4>2 DEF TestOfQuestion, TestOfGroup
    <3> QED BY <1>1, <2>1, <3>2, <3>3, <3>4, <3>5
         DEF Relies, OnDraft, FitsEdit, Points, Section, Group, Question, Editable, TestOfGroup
  <2> QED BY <2>2, <2>3
<1>7. OnDraft(f)'
  BY <1>6 DEF OnDraft
<1> QED BY <1>3, <1>4, <1>5, <1>7 DEF Relies

LEMMA StepKeepsReliable ==
  ASSUME Reliable, NEW e \in Editors, Check(e) \/ WriteStep(e)
  PROVE  Reliable'
<1>1. WholeTree' /\ EditTurns(e) /\ Grown
  BY StepMoves, OthersStaySound DEF Moves, Reliable
<1>2. BeginsEdit(e) \/ EditWorks(e)
  BY StepWorks
<1>3. Relies(e)'
  <2>1. CASE BeginsEdit(e)
    BY <1>1, <2>1 DEF BeginsEdit, Relies, AdmittedKind, MayBegin, EditTurns
  <2>2. CASE GoesOn(e)
    <3>1. AdmittedKind(e)'
      BY <1>1, <2>2 DEF GoesOn, AdmittedKind, EditTurns, Reliable, Relies
    <3>2. req'[e].op \in {"idle"} \cup Saving \cup Cloning
      BY <2>2 DEF GoesOn, NoEdit
    <3>3. req'[e].op \notin {"section", "group", "question", "discard", "remove"}
      BY <3>2 DEF Saving, Cloning
    <3> QED BY <3>1, <3>3 DEF Relies, Reserves, WritesBack, OnDraft
  <2> QED BY <1>2, <2>1, <2>2 DEF EditWorks
<1>4. \A f \in Editors : Relies(f)'
  BY <1>1, <1>2, <1>3, OthersKeepRelying
<1>5. LoneKinds'
  <2>1. CASE BeginsEdit(e)
    BY <1>1, <2>1 DEF BeginsEdit, MayBegin, LoneKinds, Reliable, EditTurns
  <2>2. CASE GoesOn(e)
    BY <1>1, <2>2 DEF GoesOn, LoneKinds, Reliable, EditTurns
  <2> QED BY <1>2, <2>1, <2>2 DEF EditWorks
<1> QED BY <1>1, <1>4, <1>5 DEF Reliable

LEMMA InitReliable == EditorInit => Reliable
<1> SUFFICES ASSUME EditorInit PROVE Reliable
  OBVIOUS
<1>1. WholeTree /\ \A e \in Editors : req[e] = NoEdit
  BY InitWhole DEF EditorInit
<1>2. LoneKinds
  BY <1>1 DEF LoneKinds
<1>3. ASSUME NEW e \in Editors PROVE Relies(e)
  BY <1>1 DEF NoEdit, Relies, AdmittedKind, Reserves, WritesBack, OnDraft
<1> QED BY <1>1, <1>2, <1>3 DEF Reliable

LEMMA NextReliable == Reliable /\ [EditorNext]_editorVars => Reliable'
<1> SUFFICES ASSUME Reliable, [EditorNext]_editorVars PROVE Reliable'
  OBVIOUS
<1>1. CASE UNCHANGED editorVars
  <2>1. WholeTree'
    BY <1>1, NextWhole DEF Reliable
  <2>2. LoneKinds'
    BY <1>1 DEF editorVars, Reliable, LoneKinds
  <2>3. ASSUME NEW e \in Editors PROVE Relies(e)'
    <3>1. Relies(e)
      BY DEF Reliable
    <3> QED BY <1>1, <3>1 DEF editorVars, Relies, AdmittedKind, Reserves, WritesBack, OnDraft,
          StatusAlone, Editable, TestOfGroup, TestOfQuestion
  <2> QED BY <2>1, <2>2, <2>3 DEF Reliable
<1>2. ASSUME NEW e \in Editors, Check(e) \/ WriteStep(e) PROVE Reliable'
  BY <1>2, StepKeepsReliable
<1> QED BY <1>1, <1>2 DEF EditorNext

-----------------------------------------------------------------------------
(* Published tests stay as they are.                                       *)

\* Rows under a test that is published are the same rows after a step.
LEMMA ClosedKeepsRows ==
  ASSUME WholeTree, WholeTree', NEW e \in Editors, StaysPut(e), SparesClosed, Grown, StatusAlone,
         NEW t \in Tests, Closed(t), NEW q \in Questions
  PROVE  /\ q \in Paper(t) <=> q \in Paper(t)'
         /\ q \in Paper(t) => /\ question'[q].group = question[q].group
                              /\ question'[q].score = question[q].score
<1>1. CASE question[q] # Missing
  <2>1. PICK g \in Groups : g = question[q].group /\ group[g] # Missing
    BY <1>1, TreeFields
  <2>2. PICK s \in Sections : s = group[g].section /\ section[s] # Missing
    BY <2>1, TreeFields
  <2>3. /\ question'[q] # Missing /\ question'[q].group = g
        /\ group'[g] # Missing /\ group'[g].section = s
        /\ section'[s] # Missing /\ section'[s].test = section[s].test
    BY <1>1, <2>1, <2>2 DEF StaysPut, Grown, StatusAlone
  <2>4. /\ TestOfQuestion(q) = section[s].test /\ TestOfGroup(g) = section[s].test
        /\ SectionOf(q) = s
        /\ TestOfQuestion(q)' = section[s].test /\ SectionOf(q)' = s
    BY <2>1, <2>2, <2>3 DEF TestOfQuestion, TestOfGroup, SectionOf
  <2>5. section[s].test = t =>
          /\ question'[q].alive = question[q].alive /\ question'[q].score = question[q].score
          /\ group'[g].alive = group[g].alive /\ section'[s].alive = section[s].alive
    BY <1>1, <2>1, <2>2, <2>4 DEF SparesClosed
  <2> QED BY <1>1, <2>1, <2>2, <2>3, <2>4, <2>5 DEF Paper, Shown, Alive
<1>2. CASE question[q] = Missing
  <2>1. q \notin Paper(t)
    BY <1>2 DEF Paper, Shown, Alive
  <2>2. q \notin Paper(t)'
    BY <1>2 DEF Paper, Shown, Alive, SparesClosed
  <2> QED BY <2>1, <2>2
<1> QED BY <1>1, <1>2

LEMMA ClosedKeepsPapers ==
  ASSUME WholeTree, WholeTree', NEW e \in Editors, StaysPut(e), SparesClosed, Grown, StatusAlone,
         NEW t \in Tests, Closed(t)
  PROVE  Papers(t)' = Papers(t)
<1>1. Paper(t) \subseteq Questions /\ (Paper(t) \subseteq Questions)'
  BY DEF Paper
<1>2. Paper(t)' = Paper(t)
  BY <1>1, ClosedKeepsRows
<1>3. \A q \in Paper(t) : question'[q].group = question[q].group
                            /\ question'[q].score = question[q].score
  BY <1>1, ClosedKeepsRows
<1> QED BY <1>2, <1>3 DEF Papers

\* What students are shown of a published test stays the same.
THEOREM PublishedStaysFrozen == EditorSpec => PublishedFrozen
<1> DEFINE Frozen == (/\ {"publish", "patch"} \cap workload.kinds \subseteq workload.alone
                      /\ "move" \notin workload.kinds) => \A t \in Tests : ~Changes(t)
<1>1. Reliable /\ [EditorNext]_editorVars => [Frozen]_editorVars
  <2> SUFFICES ASSUME Reliable, NEW e \in Editors, Check(e) \/ WriteStep(e), StatusAlone,
                      NEW t \in Tests, Closed(t)
               PROVE  Papers(t)' = Papers(t)
    BY DEF EditorNext, StatusAlone, Changes, Closed
  <2>1. WholeTree /\ WholeTree' /\ EditTurns(e) /\ Grown
    BY StepMoves, OthersStaySound DEF Moves, Reliable
  <2>2. CASE BeginsEdit(e)
    <3>1. UNCHANGED <<section, group, question>> /\ StaysPut(e)
      BY <2>2, UnchangedStays DEF BeginsEdit, rows
    <3> QED BY <2>1, <3>1, UnchangedSpares, ClosedKeepsPapers
  <2>3. CASE EditWorks(e)
    BY <2>1, <2>3, ClosedKeepsPapers DEF EditWorks
  <2> QED BY <2>2, <2>3, StepWorks
<1> QED BY <1>1, InitReliable, NextReliable, PTL DEF EditorSpec, PublishedFrozen

-----------------------------------------------------------------------------
(* A request that overlaps nothing.                                        *)

\* Nobody else moves while such a request is served.
LEMMA LoneIsAlone ==
  ASSUME Reliable, NEW e \in Editors, Check(e) \/ WriteStep(e), NEW f \in Editors,
         req[f] # NoEdit, req[f].kind \in workload.alone
  PROVE  e = f
<1>1. CASE req[e] # NoEdit
  BY <1>1 DEF Reliable, LoneKinds
<1>2. CASE req[e] = NoEdit
  <2>1. CASE BeginsEdit(e)
    BY <2>1 DEF BeginsEdit, MayBegin
  <2>2. CASE \E t \in Tests, st \in {"DRAFT", "PUBLISHED"} : CreateTest(e, t, st)
    BY <2>2 DEF CreateTest, MayBegin
  <2>3. ~WriteStep(e)
    BY <1>2 DEF NoEdit, WriteStep, WriteSection, WriteGroup, WriteQuestion, WriteTest, Toggle,
      RemoveBranch, RemoveQuestion, Discard, SumSection, StoreSection, SumTest, StoreTest,
      CloneSections, CloneGroups, FinishClone
  <2> QED BY <2>1, <2>2, <2>3, CheckBegins DEF Reliable
<1> QED BY <1>1, <1>2

\* The rows of the source, of which the memory of a request to clone is a copy.
SectionsUnder(t) == {s \in Sections : Alive(section, s) /\ section[s].test = t}
GroupsUnder(t) == {g \in Groups : Alive(group, g) /\ TestOfGroup(g) = t}

SeesAll(e) == "clone" \in workload.alone =>
  /\ req[e].op \in {"groups", "copy"} =>
       req[e].row.sections = [s \in SectionsUnder(req[e].id) |-> section[s]]
  /\ req[e].op = "copy" => req[e].row.groups = [g \in GroupsUnder(req[e].id) |-> group[g]]

ClonesSeeAll == \A e \in Editors : SeesAll(e)

LEMMA WhoClones ==
  ASSUME WholeTree, NEW e \in Editors, WriteStep(e), req'[e].op \in {"groups", "copy"}
  PROVE  CloneSections(e) \/ CloneGroups(e)
<1>1. ~ Done(e)
  BY DoneDoes DEF NoEdit
<1>2. ~(WriteQuestion(e) \/ RemoveQuestion(e))
  BY DEF WriteQuestion, RemoveQuestion, GoOn, WholeTree
<1>3. ~(SumSection(e) \/ StoreSection(e) \/ SumTest(e))
  BY DEF SumSection, StoreSection, SumTest, GoOn, WholeTree
<1> QED BY <1>1, <1>2, <1>3 DEF WriteStep, WriteSection, WriteGroup, WriteTest, Toggle,
      RemoveBranch, Discard, StoreTest, FinishClone

LEMMA ClonersSeeAll ==
  ASSUME WholeTree, NEW e \in Editors, CloneSections(e) \/ CloneGroups(e), SeesAll(e)
  PROVE  SeesAll(e)'
<1> DEFINE sections == [s \in SectionsUnder(req[e].id) |-> section[s]]
           groups == [g \in GroupsUnder(req[e].id) |-> group[g]]
<1>1. UNCHANGED rows /\ UNCHANGED workload
  BY DEF CloneSections, CloneGroups
<1>3. CASE CloneSections(e)
  <2> DEFINE row == [test |-> req[e].row.test, sections |-> sections]
  <2>1. GoOn(e, "groups", row, Missing, 0) /\ row.sections = sections
    BY <1>3 DEF CloneSections, SectionsUnder
  <2> HIDE DEF sections, row
  <2>2. req'[e] = [op |-> "groups", kind |-> req[e].kind, id |-> req[e].id, row |-> row,
                   seen |-> Missing, sum |-> 0]
    BY <1>1, <2>1, GoOnDoes
  <2>3. req'[e].op = "groups" /\ req'[e].id = req[e].id /\ req'[e].row.sections = sections
    BY <2>1, <2>2
  <2> QED BY <1>1, <2>3 DEF SeesAll, sections, SectionsUnder, Alive, rows
<1>4. CASE CloneGroups(e)
  <2>1. CASE req' = [req EXCEPT ![e] = NoEdit]
    BY <2>1 DEF SeesAll, NoEdit, WholeTree
  <2>2. CASE req' # [req EXCEPT ![e] = NoEdit]
    <3> DEFINE row == [test |-> req[e].row.test, sections |-> req[e].row.sections,
                       groups |-> groups]
    <3>1. /\ GoOn(e, "copy", row, Missing, 0)
          /\ row.sections = req[e].row.sections /\ row.groups = groups
      BY <1>4, <2>2 DEF CloneGroups, GroupsUnder
    <3> HIDE DEF groups, row
    <3>2. req'[e] = [op |-> "copy", kind |-> req[e].kind, id |-> req[e].id, row |-> row,
                     seen |-> Missing, sum |-> 0]
      BY <1>1, <3>1, GoOnDoes
    <3>3. /\ req'[e].op = "copy" /\ req'[e].id = req[e].id /\ req'[e].row.groups = groups
          /\ req'[e].row.sections = req[e].row.sections /\ req[e].op = "groups"
      BY <1>4, <3>1, <3>2 DEF CloneGroups
    <3> QED BY <1>1, <3>3 DEF SeesAll, groups, SectionsUnder, GroupsUnder, TestOfGroup, Alive, rows
  <2> QED BY <2>1, <2>2
<1> QED BY <1>3, <1>4

LEMMA StepSeesAll ==
  ASSUME Reliable, ClonesSeeAll, NEW e \in Editors, Check(e) \/ WriteStep(e)
  PROVE  ClonesSeeAll'
<1>1. WholeTree /\ EditTurns(e)
  BY StepMoves DEF Moves, Reliable
<1>2. SeesAll(e)'
  <2>1. CASE req'[e].op \notin {"groups", "copy"}
    BY <2>1 DEF SeesAll
  <2>2. CASE req'[e].op \in {"groups", "copy"}
    <3>1. ~Check(e)
      <4>1. ~BeginsEdit(e)
        BY <2>2 DEF BeginsEdit, FirstOps
      <4>2. \A t \in Tests : \A st : ~CreateTest(e, t, st)
        BY <1>1, <2>2, DoneDoes DEF CreateTest, NoEdit
      <4> QED BY <1>1, <4>1, <4>2, CheckBegins
    <3> QED BY <1>1, <2>2, <3>1, WhoClones, ClonersSeeAll DEF ClonesSeeAll
  <2> QED BY <2>1, <2>2
<1>3. ASSUME NEW f \in Editors, f # e PROVE SeesAll(f)'
  <2>1. CASE req[f].op \in {"groups", "copy"} /\ "clone" \in workload.alone
    <3>1. req[f] # NoEdit /\ req[f].kind = "clone"
      BY <1>1, <2>1, CloneIsTyped, BusyByOp DEF Cloning
    <3> QED BY <1>3, <2>1, <3>1, LoneIsAlone
  <2>2. CASE ~(req[f].op \in {"groups", "copy"} /\ "clone" \in workload.alone)
    BY <1>1, <1>3, <2>2 DEF EditTurns, SeesAll
  <2> QED BY <2>1, <2>2
<1> QED BY <1>2, <1>3 DEF ClonesSeeAll

-----------------------------------------------------------------------------
(* A clone asks what its source asks.                                      *)

LEMMA KeyedAreAsMany ==
  ASSUME NEW S, IsFiniteSet(S), NEW T, NEW key, IsInjective(key), S \subseteq DOMAIN key,
         \A x \in S : key[x] \in T, \A y \in T : \E x \in S : key[x] = y
  PROVE  Cardinality(T) = Cardinality(S)
<1> DEFINE f == [x \in S |-> key[x]]
<1>1. f \in [S -> T] /\ \A x, y \in S : f[x] = f[y] => x = y
  BY DEF IsInjective
<1>2. \A y \in T : \E x \in S : f[x] = y
  OBVIOUS
<1> HIDE DEF f
<1>3. f \in Bijection(S, T)
  BY <1>1, <1>2, Fun_IsBij
<1>4. ExistsBijection(S, T)
  BY <1>3, Fun_ExistsBij
<1> QED BY <1>4, FS_Bijection

\* What a clone that is made copies, and what is under the new test.
LEMMA CloneCopiesAll ==
  ASSUME WholeTree, NEW e \in Editors, req[e].op = "copy", SeesAll(e), "clone" \in workload.alone,
         NEW c \in Tests, NEW sk, NEW gk, NEW qk, Copies(e, c, sk, gk, qk)
  PROVE  /\ DOMAIN sk = SectionsUnder(req[e].id) /\ DOMAIN gk = GroupsUnder(req[e].id)
         /\ DOMAIN qk = Paper(req[e].id) /\ CopiedQuestions(e) = Paper(req[e].id)
<1> SUFFICES ASSUME NEW t, t = req[e].id
             PROVE  /\ DOMAIN sk = SectionsUnder(t) /\ DOMAIN gk = GroupsUnder(t)
                    /\ DOMAIN qk = Paper(t) /\ CopiedQuestions(e) = Paper(t)
  OBVIOUS
<1>1. /\ DOMAIN req[e].row.sections = SectionsUnder(t)
      /\ DOMAIN req[e].row.groups = GroupsUnder(t)
      /\ \A g \in GroupsUnder(t) : req[e].row.groups[g] = group[g]
  BY DEF SeesAll
<1>2. /\ DOMAIN sk = SectionsUnder(t) /\ DOMAIN gk = GroupsUnder(t)
      /\ DOMAIN qk = CopiedQuestions(e)
  BY <1>1 DEF Copies, Placed, CopiedSections, CopiedGroups, CopiedRows
<1>3. \A g \in GroupsUnder(t) : group[g].section \in SectionsUnder(t)
  BY <1>1, CloneIsTyped DEF Cloning
<1>4. ASSUME NEW q \in CopiedQuestions(e) PROVE q \in Paper(t)
  <2>1. q \in Questions /\ Alive(question, q) /\ TestOfQuestion(q) = t
    BY DEF CopiedQuestions, QuestionsOf
  <2>2. question[q].group \in GroupsUnder(t)
    BY <1>1 DEF Copies
  <2>3. Alive(group, question[q].group) /\ Alive(section, SectionOf(q))
    BY <1>3, <2>2 DEF GroupsUnder, SectionsUnder, SectionOf
  <2> QED BY <2>1, <2>3 DEF Paper, Shown
<1>5. ASSUME NEW q \in Paper(t) PROVE q \in CopiedQuestions(e)
  BY DEF Paper, Shown, CopiedQuestions, QuestionsOf
<1> QED BY <1>2, <1>4, <1>5

\* The rows under a new test are the copies.
LEMMA CloneHoldsCopies ==
  ASSUME WholeTree, NEW e \in Editors, req[e].op = "copy", SeesAll(e), "clone" \in workload.alone,
         NEW c \in Tests, NEW sk, NEW gk, NEW qk, Copies(e, c, sk, gk, qk)
  PROVE  /\ \A s \in SectionsUnder(req[e].id) : sk[s] \in SectionsUnder(c)'
         /\ \A y \in SectionsUnder(c)' : \E s \in SectionsUnder(req[e].id) : sk[s] = y
         /\ \A q \in Paper(req[e].id) :
              qk[q] \in Paper(c)' /\ question'[qk[q]].score = question[q].score
         /\ \A y \in Paper(c)' : \E q \in Paper(req[e].id) : qk[q] = y
<1> SUFFICES ASSUME NEW t, t = req[e].id
             PROVE  /\ \A s \in SectionsUnder(t) : sk[s] \in SectionsUnder(c)'
                    /\ \A y \in SectionsUnder(c)' : \E s \in SectionsUnder(t) : sk[s] = y
                    /\ \A q \in Paper(t) :
                         qk[q] \in Paper(c)' /\ question'[qk[q]].score = question[q].score
                    /\ \A y \in Paper(c)' : \E q \in Paper(t) : qk[q] = y
  OBVIOUS
<1> DEFINE sc == CopiedSections(e, c)
           gc == CopiedGroups(e, sk)
           qc == CopiedRows(e, gk)
<1>1. /\ DOMAIN sk = SectionsUnder(t) /\ DOMAIN gk = GroupsUnder(t) /\ DOMAIN qk = Paper(t)
      /\ CopiedQuestions(e) = Paper(t)
  BY CloneCopiesAll
<1>2. /\ test[c] = Missing
      /\ Placed(section, section', Sections, sk, sc) /\ Placed(group, group', Groups, gk, gc)
      /\ Placed(question, question', Questions, qk, qc)
  BY DEF Copies, Fresh
<1>3. /\ DOMAIN sc = SectionsUnder(t) /\ DOMAIN gc = GroupsUnder(t) /\ DOMAIN qc = Paper(t)
  BY <1>1, <1>2 DEF Placed
<1>4. ASSUME NEW s \in SectionsUnder(t)
      PROVE  sc[s] \in Section /\ sc[s].test = c /\ sc[s].alive = TRUE
  BY <1>3, CopiesAreTyped DEF CopiedSections
<1>5. ASSUME NEW g \in GroupsUnder(t)
      PROVE  /\ gc[g] \in Group /\ gc[g].alive = TRUE
             /\ \E s \in SectionsUnder(t) : gc[g].section = sk[s]
  <2>1. gc[g] \in Group /\ \E s \in SectionsUnder(t) : gc[g].section = sk[s]
    BY <1>3, CopiesAreTyped
  <2>2. gc[g].alive = TRUE
    BY <1>3 DEF CopiedGroups
  <2> QED BY <2>1, <2>2
<1>6. ASSUME NEW q \in Paper(t)
      PROVE  /\ qc[q] \in Question /\ qc[q].alive = TRUE /\ qc[q].score = question[q].score
             /\ \E g \in GroupsUnder(t) : qc[q].group = gk[g]
  BY <1>3, CopiesAreTyped DEF CopiedRows
<1> HIDE DEF sc, gc, qc
<1>7. /\ Extended(section, section', Sections, Section, sk, sc)
      /\ Extended(group, group', Groups, Group, gk, gc)
      /\ Extended(question, question', Questions, Question, qk, qc)
  BY CopiesExtend DEF CopyExtends, sc, gc, qc
<1>8. ASSUME NEW s \in SectionsUnder(t)
      PROVE  sk[s] \in Sections /\ section'[sk[s]] # Missing /\ section'[sk[s]].alive = TRUE
             /\ section'[sk[s]].test = c
  <2>1. sk[s] \in Sections /\ section'[sk[s]] # Missing /\ section'[sk[s]] = sc[s]
    BY <1>3, <1>7 DEF Extended
  <2> QED BY <1>4, <2>1
<1>9. ASSUME NEW g \in GroupsUnder(t), NEW y, y = gk[g]
      PROVE  /\ y \in Groups /\ group'[y] # Missing /\ group'[y].alive = TRUE
             /\ Alive(section', group'[y].section) /\ section'[group'[y].section].test = c
  <2>1. y \in Groups /\ group'[y] # Missing /\ group'[y] = gc[g]
    BY <1>3, <1>7, <1>9 DEF Extended
  <2>2. PICK s \in SectionsUnder(t) : gc[g].section = sk[s]
    BY <1>5
  <2>3. gc[g].alive = TRUE
    BY <1>5
  <2> QED BY <1>8, <2>1, <2>2, <2>3 DEF Alive
<1>10. ASSUME NEW q \in Paper(t), NEW y, y = qk[q]
       PROVE  y \in Paper(c)' /\ question'[y].score = question[q].score
  <2>1. /\ y \in Questions /\ question'[y] = qc[q] /\ question'[y] # Missing
    BY <1>3, <1>7, <1>10 DEF Extended
  <2>2. PICK g \in GroupsUnder(t) : qc[q].group = gk[g]
    BY <1>6
  <2>3. PICK z : z = gk[g]
    OBVIOUS
  <2>4. Alive(question', y) /\ Alive(group', z) /\ question'[y].group = z
    BY <1>6, <1>9, <2>1, <2>2, <2>3 DEF Alive
  <2>5. Alive(section', group'[z].section) /\ section'[group'[z].section].test = c
    BY <1>9, <2>3
  <2>6. (y \in Paper(c))'
    BY <2>1, <2>4, <2>5 DEF Paper, Shown, Alive, TestOfQuestion, TestOfGroup, SectionOf
  <2> QED BY <1>6, <2>1, <2>6
<1>11. ASSUME NEW y \in SectionsUnder(c)' PROVE \E s \in SectionsUnder(t) : sk[s] = y
  <2>1. y \in Sections /\ section'[y] # Missing /\ section'[y].test = c
    BY DEF SectionsUnder, Alive
  <2>2. section[y] = Missing
    BY <1>2, <1>7, <2>1, TreeFields DEF Extended
  <2> QED BY <1>3, <1>7, <2>1, <2>2 DEF Extended
<1>12. ASSUME NEW y \in Paper(c)' PROVE \E q \in Paper(t) : qk[q] = y
  <2>1. y \in Questions /\ question'[y] # Missing
        /\ section'[group'[question'[y].group].section].test = c
    BY DEF Paper, Shown, Alive, TestOfQuestion, TestOfGroup
  <2>2. question[y] = Missing
    <3> SUFFICES ASSUME question[y] # Missing PROVE FALSE
      OBVIOUS
    <3>1. PICK g \in Groups : g = question[y].group /\ group[g] # Missing
      BY <2>1, TreeFields
    <3>2. PICK s \in Sections : s = group[g].section /\ section[s] # Missing
      BY <3>1, TreeFields
    <3>3. /\ question'[y] = question[y] /\ group'[g] = group[g] /\ section'[s] = section[s]
      BY <1>7, <2>1, <3>1, <3>2 DEF Extended
    <3>4. section[s].test = c
      BY <2>1, <3>1, <3>2, <3>3
    <3> QED BY <1>2, <3>2, <3>4, TreeFields
  <2> QED BY <1>3, <1>7, <2>1, <2>2 DEF Extended
<1>13. \A s \in SectionsUnder(t) : sk[s] \in SectionsUnder(c)'
  BY <1>8 DEF SectionsUnder, Alive
<1>14. \A q \in Paper(t) : qk[q] \in Paper(c)' /\ question'[qk[q]].score = question[q].score
  BY <1>10
<1> QED BY <1>11, <1>12, <1>13, <1>14

\* A clone asks as many questions of each score as students are shown of its
\* source, in as many sections, if nothing overlaps cloning.
THEOREM ClonesAskTheSame == EditorSpec => ClonesMatch
<1> DEFINE Match == \A e \in Editors :
       "clone" \in workload.alone /\ FinishClone(e) =>
         \A c \in Tests : test[c] = Missing /\ test'[c] # Missing =>
           /\ Scored(c)' = Scored(req[e].id)
           /\ Cardinality({s \in Sections : Alive(section', s) /\ section'[s].test = c})
                = Cardinality({s \in Sections :
                                 Alive(section, s) /\ section[s].test = req[e].id})
<1>1. Reliable /\ ClonesSeeAll /\ [EditorNext]_editorVars => [Match]_editorVars
  <2> SUFFICES ASSUME Reliable, ClonesSeeAll, NEW e \in Editors, "clone" \in workload.alone,
                      FinishClone(e), NEW c \in Tests, test[c] = Missing, test'[c] # Missing,
                      NEW t, t = req[e].id
               PROVE  /\ Scored(c)' = Scored(t)
                      /\ Cardinality({s \in Sections : Alive(section', s) /\ section'[s].test = c})
                           = Cardinality({s \in Sections : Alive(section, s) /\ section[s].test = t})
    OBVIOUS
  <2>1. WholeTree /\ SeesAll(e) /\ req[e].op = "copy"
    BY FinishCloneDoes DEF Reliable, ClonesSeeAll
  <2>2. PICK d \in Tests : \E sk, gk, qk : Copies(e, d, sk, gk, qk)
    BY <2>1, FinishCloneDoes DEF rows
  <2>3. PICK sk, gk, qk : Copies(e, d, sk, gk, qk)
    BY <2>2
  <2>4. c = d
    BY <2>1, <2>3 DEF Copies, WholeTree, Tree
  <2>5. Copies(e, c, sk, gk, qk)
    BY <2>3, <2>4
  <2>6. /\ DOMAIN sk = SectionsUnder(t) /\ DOMAIN qk = Paper(t)
        /\ IsInjective(sk) /\ IsInjective(qk)
    <3>1. DOMAIN sk = SectionsUnder(req[e].id) /\ DOMAIN qk = Paper(req[e].id)
      BY <2>1, <2>5, CloneCopiesAll
    <3>2. IsInjective(sk) /\ IsInjective(qk)
      BY <2>5 DEF Copies, Placed
    <3> QED BY <3>1, <3>2
  <2>7. IsFiniteSet(SectionsUnder(t)) /\ IsFiniteSet(Paper(t))
    BY KeysAreFinite DEF Keys, SectionsUnder, Paper
  <2>8. /\ \A s \in SectionsUnder(t) : sk[s] \in SectionsUnder(c)'
        /\ \A y \in SectionsUnder(c)' : \E s \in SectionsUnder(t) : sk[s] = y
        /\ \A q \in Paper(t) : qk[q] \in Paper(c)' /\ question'[qk[q]].score = question[q].score
        /\ \A y \in Paper(c)' : \E q \in Paper(t) : qk[q] = y
    BY <2>1, <2>5, CloneHoldsCopies
  <2>9. Cardinality(SectionsUnder(c)') = Cardinality(SectionsUnder(t))
    BY <2>6, <2>7, <2>8, KeyedAreAsMany
  <2>10. ASSUME NEW n \in Scores
         PROVE  Cardinality({y \in Paper(c)' : question'[y].score = n})
                  = Cardinality({q \in Paper(t) : question[q].score = n})
    <3> DEFINE S == {q \in Paper(t) : question[q].score = n}
               T == {y \in Paper(c)' : question'[y].score = n}
    <3>1. IsFiniteSet(S) /\ S \subseteq DOMAIN qk
      BY <2>6, <2>7, FS_Subset
    <3>2. \A q \in S : qk[q] \in T
      BY <2>8
    <3>3. \A y \in T : \E q \in S : qk[q] = y
      BY <2>8
    <3> HIDE DEF S, T
    <3>4. Cardinality(T) = Cardinality(S)
      BY <2>6, <3>1, <3>2, <3>3, KeyedAreAsMany
    <3> QED BY <3>4 DEF S, T
  <2>11. Scored(c)' = Scored(t)
    BY <2>10 DEF Scored
  <2>12. Cardinality({s \in Sections : Alive(section', s) /\ section'[s].test = c})
           = Cardinality({s \in Sections : Alive(section, s) /\ section[s].test = t})
    BY <2>9 DEF SectionsUnder, Alive
  <2> QED BY <2>11, <2>12
<1>2. EditorInit => ClonesSeeAll
  <2> SUFFICES ASSUME EditorInit PROVE ClonesSeeAll
    OBVIOUS
  <2>1. \A e \in Editors : req[e].op = "idle"
    BY DEF EditorInit, NoEdit
  <2> QED BY <2>1 DEF ClonesSeeAll, SeesAll
<1>3. Reliable /\ ClonesSeeAll /\ [EditorNext]_editorVars => ClonesSeeAll'
  <2> SUFFICES ASSUME Reliable, ClonesSeeAll, [EditorNext]_editorVars PROVE ClonesSeeAll'
    OBVIOUS
  <2>1. CASE UNCHANGED editorVars
    BY <2>1 DEF editorVars, ClonesSeeAll, SeesAll, SectionsUnder, GroupsUnder, TestOfGroup, Alive
  <2>2. ASSUME NEW e \in Editors, Check(e) \/ WriteStep(e) PROVE ClonesSeeAll'
    BY <2>2, StepSeesAll
  <2> QED BY <2>1, <2>2 DEF EditorNext
<1> QED BY <1>1, <1>2, <1>3, InitReliable, NextReliable, PTL DEF EditorSpec, ClonesMatch

-----------------------------------------------------------------------------
(* Totals.                                                                 *)

\* The loads TotalsFollowQuestions speaks of.
TotalsGuarded ==
  /\ {"add", "rescore", "remove", "clone"} \cap workload.kinds \subseteq workload.alone
  /\ {"move", "retotal"} \cap workload.kinds = {}

\* A section that counts: it is alive and has had a question.
Counted(s) == Alive(section, s) /\ \E q \in Questions : question[q] # Missing /\ SectionOf(q) = s

SectionSaved(e) == group[req[e].row.group].section

\* The total of such a section is right, unless it is about to be put right.
Counts(s) ==
  \/ section[s].total = SectionSum(s)
  \/ \E e \in Editors : req[e].op \in {"sum", "store"} /\ SectionSaved(e) = s

\* The section a request has in memory is that of its question, with the total
\* that is stored.
Recalls(e) ==
  /\ \/ req[e].op \in {"question", "sum", "store"}
     \/ req[e].op = "remove" /\ req[e].id \in Questions
     => /\ req[e].seen.of = SectionSaved(e)
        /\ req[e].seen.section = section[SectionSaved(e)].total
  /\ req[e].op = "store" => req[e].sum = SectionSum(SectionSaved(e))
  /\ req[e].op = "remove" /\ req[e].id \in Questions => req[e].row.group = question[req[e].id].group

TotalsKept == TotalsGuarded =>
  /\ \A s \in Sections : Counted(s) => Counts(s)
  /\ \A e \in Editors : Recalls(e)

\* A question, deleted or not, that belongs to a section.
Under(q, s) == question[q] # Missing /\ SectionOf(q) = s

\* The section keeps its questions, as they were.
SumStays(s) == \A q \in Questions :
  /\ Under(q, s)' <=> Under(q, s)
  /\ Under(q, s) => /\ question'[q].alive = question[q].alive
                    /\ question'[q].score = question[q].score

LEMMA SumStaysTheSame ==
  ASSUME NEW s, SumStays(s)
  PROVE  /\ SectionSum(s)' = SectionSum(s)
         /\ (\E q \in Questions : question'[q] # Missing /\ SectionOf(q)' = s)
              <=> \E q \in Questions : question[q] # Missing /\ SectionOf(q) = s
<1> DEFINE Q == {q \in Questions : Alive(question, q) /\ SectionOf(q) = s}
<1>1. \A q \in Questions : Alive(question, q)' /\ SectionOf(q)' = s
                             <=> Alive(question, q) /\ SectionOf(q) = s
  BY DEF SumStays, Under, Alive
<1>2. Q' = Q
  BY <1>1
<1>3. \A q \in Q : question'[q].score = question[q].score
  BY DEF SumStays, Under, Alive
<1>4. SectionSum(s) = SumFunction([q \in Q |-> question[q].score])
  BY DEF SectionSum, ScoresOf
<1>5. SectionSum(s)' = SumFunction([q \in Q' |-> question'[q].score])
  BY DEF SectionSum, ScoresOf
<1> HIDE DEF Q
<1>6. [q \in Q' |-> question'[q].score] = [q \in Q |-> question[q].score]
  BY <1>2, <1>3
<1>7. SectionSum(s)' = SectionSum(s)
  BY <1>4, <1>5, <1>6
<1> QED BY <1>7 DEF SumStays, Under

\* What a step of e shows for the totals.
CountsAfter(e, s) ==
  \/ section'[s].total = SectionSum(s)'
  \/ req'[e].op \in {"sum", "store"} /\ SectionSaved(e)' = s

Tallies(e) ==
  /\ \A s \in Sections : Counted(s)' => CountsAfter(e, s)
  /\ Recalls(e)'

\* A section that the step leaves alone.
LEMMA StaysCounted ==
  ASSUME WholeTree, NEW e \in Editors, NEW s \in Sections, Counted(s) => section[s].total = SectionSum(s),
         Counted(s)', Alive(section, s), section'[s].total = section[s].total, SumStays(s)
  PROVE  CountsAfter(e, s)
<1>1. Counted(s)
  BY SumStaysTheSame DEF Counted
<1> QED BY <1>1, SumStaysTheSame DEF CountsAfter

\* Who saves a question is alone.
LEMMA SaversAreAlone ==
  ASSUME Reliable, TotalsGuarded, NEW e \in Editors, Check(e) \/ WriteStep(e), NEW f \in Editors,
         req[f].op \in {"question", "remove"} \cup Saving
  PROVE  e = f
<1>1. req[f] # NoEdit /\ req[f].kind \in {"add", "rescore", "move", "remove"}
  BY DEF NoEdit, Saving, Reliable, WholeTree, Sound, FitsEdit
<1>2. req[f].kind \in workload.alone
  BY <1>1 DEF TotalsGuarded, Reliable, Relies, AdmittedKind
<1> QED BY <1>1, <1>2, LoneIsAlone

\* Before a step of e, every total that counts is right but for what e saves.
LEMMA CountedBefore ==
  ASSUME Reliable, TotalsGuarded, TotalsKept, NEW e \in Editors, Check(e) \/ WriteStep(e),
         NEW s \in Sections, Counted(s), req[e].op \in {"sum", "store"} => SectionSaved(e) # s
  PROVE  section[s].total = SectionSum(s)
BY SaversAreAlone DEF TotalsKept, Counts, Saving

\* A step of e that does as it should keeps all totals.
LEMMA TalliesKeep ==
  ASSUME Reliable, TotalsKept, NEW e \in Editors, Check(e) \/ WriteStep(e),
         TotalsGuarded => Tallies(e)
  PROVE  TotalsKept'
<1>1. WholeTree /\ EditTurns(e) /\ (TotalsGuarded' <=> TotalsGuarded)
  BY StepMoves DEF Moves, Reliable, EditTurns, TotalsGuarded
<1> SUFFICES ASSUME TotalsGuarded
             PROVE  /\ \A s \in Sections : Counted(s)' => Counts(s)'
                    /\ \A f \in Editors : Recalls(f)'
  BY <1>1 DEF TotalsKept
<1>2. ASSUME NEW s \in Sections, Counted(s)' PROVE Counts(s)'
  BY <1>2 DEF Tallies, CountsAfter, Counts
<1>3. ASSUME NEW f \in Editors, f # e PROVE Recalls(f)'
  <2>1. req'[f] = req[f] /\ req[f].op \notin {"question", "remove"} \cup Saving
    BY <1>1, <1>3, SaversAreAlone DEF EditTurns
  <2> QED BY <2>1 DEF Recalls, Saving
<1> QED BY <1>2, <1>3 DEF Tallies

LEMMA SameRowsSameSums ==
  ASSUME UNCHANGED <<section, group, question>>
  PROVE  \A s : SumStays(s) /\ (Counted(s)' <=> Counted(s))
BY DEF SumStays, Under, SectionOf, Counted, Alive

\* A step that leaves the rows alone, of a request that saves no question.
LEMMA NothingToTally ==
  ASSUME Reliable, TotalsGuarded, TotalsKept, NEW e \in Editors, Check(e) \/ WriteStep(e),
         UNCHANGED <<section, group, question>>, req[e].op \notin {"sum", "store"}, Recalls(e)'
  PROVE  Tallies(e)
<1>1. ASSUME NEW s \in Sections, Counted(s)' PROVE CountsAfter(e, s)
  <2>1. Counted(s) /\ SumStays(s) /\ WholeTree
    BY <1>1, SameRowsSameSums DEF Reliable
  <2>2. section[s].total = SectionSum(s)
    BY <2>1, CountedBefore
  <2> QED BY <1>1, <2>1, <2>2, StaysCounted DEF Counted
<1> QED BY <1>1 DEF Tallies

LEMMA NothingToRecall ==
  ASSUME NEW e, req'[e].op \notin {"question", "remove", "sum", "store"} PROVE Recalls(e)'
BY DEF Recalls

\* Totals in memory are those that are stored when a request begins.
LEMMA BeginsWithTotals ==
  ASSUME WholeTree, NEW e \in Editors, NEW k, NEW op \in {"question", "remove"}, NEW x, NEW row,
         NEW g \in Groups, row.group = g, group[g] # Missing,
         op = "remove" => x \in Questions /\ question[x].group = g,
         Hold(e, k, op, x, row, SeenOf(group[g].section))
  PROVE  Recalls(e)'
<1>1. UNCHANGED rows
      /\ req'[e] = [op |-> op, kind |-> k, id |-> x, row |-> row,
                    seen |-> SeenOf(group[g].section), sum |-> 0]
  BY HoldDoes
<1>2. /\ SeenOf(group[g].section).of = group[g].section
      /\ SeenOf(group[g].section).section = section[group[g].section].total
  BY DEF SeenOf
<1>3. req'[e].op = op /\ req'[e].row = row /\ req'[e].id = x
      /\ req'[e].seen.of = group[g].section
      /\ req'[e].seen.section = section[group[g].section].total
  BY <1>1, <1>2
<1>4. SectionSaved(e)' = group[g].section
  BY <1>1, <1>3 DEF SectionSaved, rows
<1> QED BY <1>1, <1>3, <1>4 DEF Recalls, rows

LEMMA ChecksRecall ==
  ASSUME Reliable, TotalsGuarded, NEW e \in Editors, Check(e)
  PROVE  Recalls(e)'
<1>1. WholeTree
  BY DEF Reliable
<1>2. ASSUME NEW q \in Questions, NEW g \in Groups, NEW n \in Scores, CheckQuestion(e, q, g, n)
      PROVE  Recalls(e)'
  <2> DEFINE row == [group |-> g, score |-> n, alive |-> TRUE]
  <2>1. /\ Hold(e, "add", "question", q, row, SeenOf(group[g].section))
        /\ group[g] # Missing /\ row.group = g
    BY <1>2 DEF CheckQuestion, Alive
  <2> HIDE DEF row
  <2> QED BY <1>1, <2>1, BeginsWithTotals
<1>3. ASSUME NEW q \in Questions, NEW n \in Scores, LoadQuestion(e, q, n)
      PROVE  Recalls(e)'
  <2> DEFINE row == [question[q] EXCEPT !.score = n]
  <2>1. Hold(e, "rescore", "question", q, row, SeenOf(SectionOf(q))) /\ question[q] # Missing
    BY <1>3 DEF LoadQuestion, Alive
  <2>2. PICK g \in Groups : g = question[q].group /\ group[g] # Missing
    BY <1>1, <2>1, TreeFields
  <2>3. row.group = g /\ SeenOf(SectionOf(q)) = SeenOf(group[g].section)
    BY <1>1, <2>1, <2>2, TreeFields DEF Question, SectionOf
  <2> HIDE DEF row
  <2> QED BY <1>1, <2>1, <2>2, <2>3, BeginsWithTotals
<1>4. ASSUME NEW q \in Questions, question[q] # Missing,
             LoadRemoval(e, question, TestOfQuestion(q), q)
      PROVE  Recalls(e)'
  <2>1. Hold(e, "remove", "remove", q, question[q], SeenOf(SectionOf(q)))
    BY <1>4 DEF LoadRemoval
  <2>2. PICK g \in Groups : g = question[q].group /\ group[g] # Missing
    BY <1>1, <1>4, TreeFields
  <2>3. SeenOf(SectionOf(q)) = SeenOf(group[g].section)
    BY <2>2 DEF SectionOf
  <2> QED BY <1>1, <2>1, <2>2, <2>3, BeginsWithTotals
<1>5. ASSUME NEW k, NEW op \in FirstOps, NEW x, NEW row, NEW seen, Hold(e, k, op, x, row, seen),
             op = "question" => k = "move", op = "remove" => x \notin Questions
      PROVE  Recalls(e)'
  <2>1. /\ req'[e] = [op |-> op, kind |-> k, id |-> x, row |-> row, seen |-> seen, sum |-> 0]
        /\ MayBegin(e, k)
    BY <1>1, <1>5, HoldDoes
  <2>2. k # "move"
    BY <2>1 DEF MayBegin, TotalsGuarded
  <2> QED BY <1>5, <2>1, <2>2 DEF Recalls, FirstOps
<1>6. ASSUME NEW t \in Tests,
             \/ LoadPublish(e, t) \/ LoadDiscard(e, t) \/ LoadClone(e, t)
             \/ \E st \in {"DRAFT", "PUBLISHED"} :
                  \/ CreateTest(e, t, st)
                  \/ test[t] # Missing
                       /\ \E n \in Scores \cup {test[t].total} : LoadTest(e, t, st, n)
             \/ \E s \in Sections :
                  \/ CheckSection(e, s, t)
                  \/ section[s] # Missing
                       /\ \E n \in Scores \cup {section[s].total} : LoadSection(e, s, t, n)
      PROVE  Recalls(e)'
  <2>1. \A st : CreateTest(e, t, st) => Recalls(e)'
    BY <1>1, DoneDoes, NothingToRecall DEF CreateTest, NoEdit
  <2>2. {"toggle", "discard", "sections", "test", "section"} \subseteq FirstOps
    BY DEF FirstOps
  <2> QED BY <1>5, <1>6, <2>1, <2>2
       DEF LoadPublish, LoadDiscard, LoadClone, LoadTest, CheckSection, LoadSection
<1>7. ASSUME NEW s \in Sections,
             \/ \E g \in Groups : CheckGroup(e, g, s) \/ LoadGroup(e, g, s)
             \/ section[s] # Missing /\ LoadRemoval(e, section, section[s].test, s)
      PROVE  Recalls(e)'
  <2>1. {"group", "remove"} \subseteq FirstOps /\ s \notin Questions
    BY KeysDiffer DEF FirstOps
  <2> QED BY <1>5, <1>7, <2>1 DEF CheckGroup, LoadGroup, LoadRemoval
<1>8. ASSUME NEW g \in Groups,
             \/ \E q \in Questions, n \in Scores : LoadMove(e, q, g, n)
             \/ group[g] # Missing /\ LoadRemoval(e, group, TestOfGroup(g), g)
      PROVE  Recalls(e)'
  <2>1. {"question", "remove"} \subseteq FirstOps /\ g \notin Questions
    BY KeysDiffer DEF FirstOps
  <2> QED BY <1>5, <1>8, <2>1 DEF LoadMove, LoadRemoval
<1> QED BY <1>2, <1>3, <1>4, <1>6, <1>7, <1>8 DEF Check

LEMMA ChecksTally ==
  ASSUME Reliable, TotalsGuarded, TotalsKept, NEW e \in Editors, Check(e)
  PROVE  Tallies(e)
<1>1. WholeTree
  BY DEF Reliable
<1>2. UNCHANGED <<section, group, question>> /\ req[e] = NoEdit
  BY <1>1, CheckBegins DEF BeginsEdit, CreateTest, MayBegin, rows
<1>3. req[e].op \notin {"sum", "store"}
  BY <1>2 DEF NoEdit
<1> QED BY <1>2, <1>3, ChecksRecall, NothingToTally

\* What a request that saves a question holds.
LEMMA SaverHolds ==
  ASSUME Reliable, TotalsGuarded, TotalsKept, NEW e \in Editors,
         \/ req[e].op \in {"question"} \cup Saving
         \/ req[e].op = "remove" /\ req[e].id \in Questions
  PROVE  /\ req[e].row \in Question /\ req[e].row.group \in Groups /\ group[req[e].row.group] # Missing
         /\ SectionSaved(e) \in Sections /\ section[SectionSaved(e)] # Missing
         /\ req[e].id \in Questions
         /\ req[e].op \in {"question", "remove"} /\ question[req[e].id] # Missing
              => question[req[e].id].group = req[e].row.group
<1>1. WholeTree /\ Relies(e) /\ Recalls(e) /\ "move" \notin workload.kinds
  BY DEF Reliable, TotalsKept, TotalsGuarded
<1>2. /\ req[e].row \in Question /\ group[req[e].row.group] # Missing /\ req[e].id \in Questions
      /\ req[e] # NoEdit
  BY <1>1 DEF WholeTree, Sound, FitsEdit, Points, NoEdit, Saving
<1>3. req[e].row.group \in Groups
  BY <1>2 DEF Question
<1>4. ASSUME req[e].op \in {"question", "remove"}, question[req[e].id] # Missing
      PROVE  question[req[e].id].group = req[e].row.group
  <2>1. req[e].op = "question" => req[e].kind \in {"add", "rescore"}
    BY <1>1, <1>2 DEF WholeTree, Sound, FitsEdit, Relies, AdmittedKind
  <2> QED BY <1>1, <1>2, <1>4, <2>1 DEF Recalls, Relies, Reserves, WritesBack
<1> QED BY <1>1, <1>2, <1>3, <1>4, TreeFields DEF SectionSaved

LEMMA WriteSectionTallies ==
  ASSUME Reliable, TotalsGuarded, TotalsKept, NEW e \in Editors, WriteSection(e)
  PROVE  Tallies(e)
<1> SUFFICES ASSUME NEW x, x = req[e].id PROVE Tallies(e)
  OBVIOUS
<1>1. /\ req[e].op = "section" /\ UNCHANGED <<group, question>> /\ WholeTree /\ Relies(e)
      /\ section' = [section EXCEPT ![x] = req[e].row] /\ WriteStep(e) /\ Done(e)
  BY DEF WriteSection, Reliable, WriteStep
<1>2. x \in Sections /\ req[e].kind = "add"
  <2>1. req[e].kind \in {"add", "retotal", "move"} /\ req[e] # NoEdit /\ x \in Sections
    BY <1>1 DEF WholeTree, Sound, FitsEdit, NoEdit
  <2> QED BY <1>1, <2>1 DEF Relies, AdmittedKind, TotalsGuarded
<1>3. section[x] = Missing /\ \A s \in Sections : s # x => section'[s] = section[s]
  BY <1>1, <1>2 DEF Relies, Reserves, WholeTree, Tree
<1>4. ASSUME NEW s \in Sections, Counted(s)' PROVE CountsAfter(e, s)
  <2>1. s # x
    <3>1. PICK q \in Questions : question[q] # Missing /\ group[question[q].group].section = s
      BY <1>1, <1>4 DEF Counted, SectionOf
    <3> QED BY <1>1, <1>3, <3>1, TreeFields
  <2>2. SumStays(s)
    BY <1>1 DEF SumStays, Under, SectionOf
  <2>3. Alive(section, s) /\ section'[s].total = section[s].total
    BY <1>3, <1>4, <2>1 DEF Counted, Alive
  <2>4. Counted(s) => section[s].total = SectionSum(s)
    BY <1>1, CountedBefore
  <2> QED BY <1>1, <1>4, <2>2, <2>3, <2>4, StaysCounted
<1>5. Recalls(e)'
  BY <1>1, DoneDoes, NothingToRecall DEF NoEdit
<1> QED BY <1>4, <1>5 DEF Tallies

LEMMA WriteGroupTallies ==
  ASSUME Reliable, TotalsGuarded, TotalsKept, NEW e \in Editors, WriteGroup(e)
  PROVE  Tallies(e)
<1> SUFFICES ASSUME NEW x, x = req[e].id PROVE Tallies(e)
  OBVIOUS
<1>1. /\ req[e].op = "group" /\ UNCHANGED <<section, question>> /\ WholeTree /\ Relies(e)
      /\ group' = [group EXCEPT ![x] = req[e].row] /\ WriteStep(e) /\ Done(e)
  BY DEF WriteGroup, Reliable, WriteStep
<1>2. x \in Groups /\ req[e].kind \in {"add", "retitle"}
  <2>1. req[e].kind \in {"add", "retitle", "move"} /\ req[e] # NoEdit /\ x \in Groups
    BY <1>1 DEF WholeTree, Sound, FitsEdit, NoEdit
  <2> QED BY <1>1, <2>1 DEF Relies, AdmittedKind, TotalsGuarded
<1>3. /\ group'[x] = req[e].row /\ \A g \in Groups : g # x => group'[g] = group[g]
      /\ group[x] # Missing => group[x].section = req[e].row.section
  BY <1>1, <1>2 DEF Relies, Reserves, WritesBack, WholeTree, Tree, TotalsGuarded
<1>4. ASSUME NEW s \in Sections, Counted(s)' PROVE CountsAfter(e, s)
  <2>1. \A q \in Questions : question[q] # Missing =>
           group'[question[q].group].section = group[question[q].group].section
    BY <1>1, <1>3, TreeFields
  <2>2. SumStays(s)
    BY <1>1, <2>1 DEF SumStays, Under, SectionOf
  <2>3. Alive(section, s) /\ section'[s].total = section[s].total
    BY <1>1, <1>4 DEF Counted, Alive
  <2>4. Counted(s) => section[s].total = SectionSum(s)
    BY <1>1, CountedBefore
  <2> QED BY <1>1, <1>4, <2>2, <2>3, <2>4, StaysCounted
<1>5. Recalls(e)'
  BY <1>1, DoneDoes, NothingToRecall DEF NoEdit
<1> QED BY <1>4, <1>5 DEF Tallies

\* A question is saved: its section is about to be put right.
LEMMA SavedQuestionTallies ==
  ASSUME Reliable, TotalsGuarded, TotalsKept, NEW e \in Editors, WriteStep(e),
         req[e].op \in {"question", "remove"}, NEW x, x = req[e].id, x \in Questions,
         UNCHANGED <<section, group>>, \A q \in Questions : q # x => question'[q] = question[q],
         question'[x] # Missing, question'[x].group = req[e].row.group,
         req'[e].op = "sum", req'[e].row = req[e].row, req'[e].seen.of = SectionSaved(e),
         req'[e].seen.section = section[SectionSaved(e)].total
  PROVE  Tallies(e)
<1>1. WholeTree
  BY DEF Reliable
<1>2. SectionSaved(e)' = SectionSaved(e)
  BY DEF SectionSaved
<1>3. Recalls(e)'
  BY <1>2 DEF Recalls
<1>4. ASSUME NEW s \in Sections, Counted(s)', s # SectionSaved(e) PROVE CountsAfter(e, s)
  <2>1. question[x] # Missing => SectionOf(x) = SectionSaved(e)
    BY SaverHolds DEF SectionOf, SectionSaved
  <2>2. SectionOf(x)' = SectionSaved(e)
    BY DEF SectionOf, SectionSaved
  <2>3. \A q \in Questions : q # x => (Under(q, s)' <=> Under(q, s))
    BY DEF Under, SectionOf
  <2>4. ~Under(x, s) /\ ~Under(x, s)'
    BY <1>4, <2>1, <2>2 DEF Under
  <2>5. SumStays(s)
    BY <2>3, <2>4 DEF SumStays
  <2>6. Alive(section, s) /\ section'[s].total = section[s].total
    BY <1>4 DEF Counted, Alive
  <2>7. Counted(s) => section[s].total = SectionSum(s)
    BY CountedBefore
  <2> QED BY <1>1, <1>4, <2>5, <2>6, <2>7, StaysCounted
<1>5. CountsAfter(e, SectionSaved(e))
  BY <1>2 DEF CountsAfter
<1> QED BY <1>3, <1>4, <1>5 DEF Tallies

LEMMA WriteQuestionTallies ==
  ASSUME Reliable, TotalsGuarded, TotalsKept, NEW e \in Editors, WriteQuestion(e)
  PROVE  Tallies(e)
<1> SUFFICES ASSUME NEW x, x = req[e].id, NEW row, row = req[e].row PROVE Tallies(e)
  OBVIOUS
<1> DEFINE seen == IF req[e].kind = "move" THEN SeenOf(req[e].seen) ELSE req[e].seen
<1>1. /\ req[e].op = "question" /\ UNCHANGED <<section, group, workload>> /\ WholeTree /\ Recalls(e)
      /\ question' = [question EXCEPT ![x] = row] /\ WriteStep(e) /\ GoOn(e, "sum", row, seen, 0)
  BY DEF WriteQuestion, Reliable, WriteStep, TotalsKept
<1>2. x \in Questions /\ row \in Question
  BY <1>1, SaverHolds
<1>3. seen.of = SectionSaved(e) /\ seen.section = section[SectionSaved(e)].total
  <2>1. req[e].kind # "move"
    BY <1>1, BusyByOp DEF Reliable, Relies, AdmittedKind, TotalsGuarded
  <2> QED BY <1>1, <2>1 DEF Recalls
<1> HIDE DEF seen
<1>4. req'[e] = [op |-> "sum", kind |-> req[e].kind, id |-> req[e].id, row |-> row,
                 seen |-> seen, sum |-> 0]
  BY <1>1, GoOnDoes
<1>5. req'[e].op = "sum" /\ req'[e].row = row /\ req'[e].seen = seen
  BY <1>4
<1>6. question'[x] = row /\ \A q \in Questions : q # x => question'[q] = question[q]
  BY <1>1, <1>2 DEF WholeTree, Tree
<1> QED BY <1>1, <1>2, <1>3, <1>5, <1>6, KeysDiffer, SavedQuestionTallies

LEMMA RemoveQuestionTallies ==
  ASSUME Reliable, TotalsGuarded, TotalsKept, NEW e \in Editors, RemoveQuestion(e)
  PROVE  Tallies(e)
<1> SUFFICES ASSUME NEW x, x = req[e].id PROVE Tallies(e)
  OBVIOUS
<1>1. /\ req[e].op = "remove" /\ WholeTree /\ Recalls(e) /\ WriteStep(e) /\ Relies(e)
      /\ UNCHANGED <<section, group, workload>>
      /\ x \in Questions /\ question' = Dead(question, x)
      /\ GoOn(e, "sum", req[e].row, req[e].seen, 0)
  BY DEF RemoveQuestion, Reliable, WriteStep, TotalsKept
<1>2. req'[e] = [op |-> "sum", kind |-> req[e].kind, id |-> req[e].id, row |-> req[e].row,
                 seen |-> req[e].seen, sum |-> 0]
  BY <1>1, GoOnDoes
<1>3. req'[e].op = "sum" /\ req'[e].row = req[e].row /\ req'[e].seen = req[e].seen
  BY <1>2
<1>4. question[x] # Missing /\ question[x] \in Question
  BY <1>1, RemoveQuestionDoes, TreeFields
<1>5. /\ question'[x] = [question[x] EXCEPT !.alive = FALSE]
      /\ \A q \in Questions : q # x => question'[q] = question[q]
  BY <1>1 DEF Dead, WholeTree, Tree
<1>6. question'[x].group = question[x].group /\ question'[x] # Missing
  <2>1. question'[x].group = question[x].group
    BY <1>4, <1>5 DEF Question
  <2>2. question'[x] # Missing
    BY <1>1, <1>4, RemovalsMove DEF Moves, Grown
  <2> QED BY <2>1, <2>2
<1>7. question[x].group = req[e].row.group
  BY <1>1 DEF Recalls
<1>8. req[e].seen.of = SectionSaved(e) /\ req[e].seen.section = section[SectionSaved(e)].total
  BY <1>1 DEF Recalls
<1>9. /\ question'[x].group = req[e].row.group /\ UNCHANGED <<section, group>>
      /\ req'[e].seen.of = SectionSaved(e)
      /\ req'[e].seen.section = section[SectionSaved(e)].total
  BY <1>1, <1>3, <1>6, <1>7, <1>8
<1>10. WriteStep(e) /\ req[e].op \in {"question", "remove"} /\ x \in Questions
  BY <1>1
<1>11. \A q \in Questions : q # x => question'[q] = question[q]
  BY <1>5
<1>12. question'[x] # Missing
  BY <1>6
<1> QED BY <1>3, <1>9, <1>10, <1>11, <1>12, SavedQuestionTallies

\* Rows that are deleted softly, and sections that live on with their questions.
LEMMA SoftDeletionTallies ==
  ASSUME Reliable, TotalsGuarded, TotalsKept, NEW e \in Editors, WriteStep(e), Done(e),
         req[e].op \notin {"sum", "store"},
         Softly(test, test', Tests), Softly(section, section', Sections),
         Softly(group, group', Groups), Softly(question, question', Questions),
         \A s \in Sections, q \in Questions :
            section'[s] # Missing /\ section'[s].alive /\ Under(q, s)
              => question'[q] = question[q]
  PROVE  Tallies(e)
<1>1. WholeTree /\ "move" \notin workload.kinds
  BY DEF Reliable, TotalsGuarded
<1>2. Recalls(e)'
  BY <1>1, DoneDoes, NothingToRecall DEF NoEdit
<1>3. ASSUME NEW s \in Sections, Counted(s)' PROVE CountsAfter(e, s)
  <2>1. /\ section'[s] # Missing /\ section'[s].alive /\ section[s] # Missing
        /\ section'[s] = section[s] \/ section'[s] = [section[s] EXCEPT !.alive = FALSE]
    BY <1>3 DEF Counted, Alive, Softly
  <2>2. section'[s] = section[s]
    BY <1>1, <2>1, TreeFields DEF Section
  <2>3. ASSUME NEW q \in Questions PROVE Under(q, s)' <=> Under(q, s)
    <3>1. question'[q] # Missing <=> question[q] # Missing
      BY <1>1, SoftlyStays, SoftDeletionMoves DEF Grown
    <3>2. CASE question[q] # Missing
      <4>1. PICK g \in Groups : g = question[q].group /\ group[g] # Missing
        BY <1>1, <3>2, TreeFields
      <4>2. question'[q].group = g /\ group'[g].section = group[g].section
        BY <1>1, <3>2, <4>1, SoftlyStays DEF StaysPut
      <4> QED BY <3>1, <4>1, <4>2 DEF Under, SectionOf
    <3> QED BY <3>1, <3>2 DEF Under
  <2>4. SumStays(s)
    BY <2>1, <2>3 DEF SumStays
  <2>5. Counted(s) => section[s].total = SectionSum(s)
    BY CountedBefore
  <2> QED BY <1>1, <1>3, <2>1, <2>2, <2>4, <2>5, StaysCounted DEF Alive
<1> QED BY <1>2, <1>3 DEF Tallies

LEMMA RemoveBranchTallies ==
  ASSUME Reliable, TotalsGuarded, TotalsKept, NEW e \in Editors, RemoveBranch(e)
  PROVE  Tallies(e)
<1>1. WholeTree /\ WriteStep(e) /\ req[e].op = "remove"
  BY DEF Reliable, WriteStep, RemoveBranch
<1> QED BY <1>1, RemoveBranchDoes, SoftDeletionTallies

LEMMA DiscardTallies ==
  ASSUME Reliable, TotalsGuarded, TotalsKept, NEW e \in Editors, Discard(e)
  PROVE  Tallies(e)
<1>1. WholeTree /\ WriteStep(e) /\ req[e].op = "discard"
  BY DEF Reliable, WriteStep, Discard
<1>2. ASSUME NEW s \in Sections, NEW q \in Questions, section'[s] # Missing, section'[s].alive,
             Under(q, s)
      PROVE  question'[q] = question[q]
  <2>1. section[s] # Missing /\ TestOfQuestion(q) = section[s].test
    BY <1>1, <1>2, TreeFields DEF Under, SectionOf, TestOfQuestion, TestOfGroup
  <2>2. section[s].test # req[e].id
    BY <1>1, <1>2, <2>1, DiscardDoes
  <2> QED BY <1>1, <1>2, <2>1, <2>2, DiscardDoes DEF Under
<1> QED BY <1>1, <1>2, DiscardDoes, SoftDeletionTallies

LEMMA SumSectionTallies ==
  ASSUME Reliable, TotalsGuarded, TotalsKept, NEW e \in Editors, SumSection(e)
  PROVE  Tallies(e)
<1> SUFFICES ASSUME NEW s0, s0 = req[e].seen.of PROVE Tallies(e)
  OBVIOUS
<1>1. /\ req[e].op = "sum" /\ UNCHANGED rows /\ UNCHANGED workload /\ WholeTree /\ Recalls(e)
      /\ WriteStep(e) /\ GoOn(e, "store", req[e].row, req[e].seen, SectionSum(s0))
  BY DEF SumSection, Reliable, WriteStep, TotalsKept
<1>2. s0 = SectionSaved(e)
  BY <1>1 DEF Recalls
<1>3. req'[e] = [op |-> "store", kind |-> req[e].kind, id |-> req[e].id, row |-> req[e].row,
                 seen |-> req[e].seen, sum |-> SectionSum(s0)]
  BY <1>1, GoOnDoes
<1>4. /\ req'[e].op = "store" /\ req'[e].row = req[e].row /\ req'[e].seen = req[e].seen
      /\ req'[e].sum = SectionSum(s0)
  BY <1>3
<1>5. UNCHANGED <<section, group, question>>
  BY <1>1 DEF rows
<1>6. SectionSaved(e)' = s0
  BY <1>2, <1>4, <1>5 DEF SectionSaved
<1>7. SectionSum(s0)' = SectionSum(s0)
  BY <1>5, SameRowsSameSums, SumStaysTheSame
<1>8. Recalls(e)'
  <2>1. SectionSum(SectionSaved(e))' = SectionSum(s0)
    BY <1>2, <1>4, <1>5 DEF SectionSum, ScoresOf, Alive, SectionOf, SectionSaved
  <2>2. section[s0].total = req[e].seen.section /\ req[e].seen.of = s0
    BY <1>1, <1>2 DEF Recalls
  <2> QED BY <1>4, <1>5, <1>6, <2>1, <2>2 DEF Recalls
<1>9. ASSUME NEW s \in Sections, Counted(s)' PROVE CountsAfter(e, s)
  <2>1. CASE s = s0
    BY <1>4, <1>6, <2>1 DEF CountsAfter
  <2>2. CASE s # s0
    <3>1. Counted(s) /\ SumStays(s)
      BY <1>5, <1>9, SameRowsSameSums
    <3>2. section[s].total = SectionSum(s)
      BY <1>1, <1>2, <2>2, <3>1, CountedBefore
    <3> QED BY <1>1, <1>5, <1>9, <3>1, <3>2, StaysCounted DEF Counted
  <2> QED BY <2>1, <2>2
<1> QED BY <1>8, <1>9 DEF Tallies

LEMMA StoreSectionTallies ==
  ASSUME Reliable, TotalsGuarded, TotalsKept, NEW e \in Editors, StoreSection(e)
  PROVE  Tallies(e)
<1> SUFFICES ASSUME NEW s0, s0 = SectionSaved(e) PROVE Tallies(e)
  OBVIOUS
<1>1. /\ req[e].op = "store" /\ UNCHANGED <<group, question, workload>> /\ WholeTree /\ Recalls(e)
      /\ WriteStep(e) /\ GoOn(e, "sumTest", req[e].row, req[e].seen, 0)
      /\ section' = IF req[e].sum = req[e].seen.section THEN section
                    ELSE [section EXCEPT ![s0].total = req[e].sum]
  <2>1. req[e].op = "store" /\ Recalls(e)
    BY DEF StoreSection, TotalsKept
  <2>2. s0 = req[e].seen.of
    BY <2>1 DEF Recalls
  <2> QED BY <2>1, <2>2 DEF StoreSection, Reliable, WriteStep
<1>2. s0 \in Sections /\ section[s0] \in Section
  BY <1>1, SaverHolds, TreeFields DEF Saving
<1>3. req[e].seen.section = section[s0].total /\ req[e].sum = SectionSum(s0)
  BY <1>1 DEF Recalls
<1>4. section'[s0].total = SectionSum(s0)
  <2>1. CASE req[e].sum = req[e].seen.section
    BY <1>1, <1>3, <2>1
  <2>2. CASE req[e].sum # req[e].seen.section
    <3>1. section'[s0] = [section[s0] EXCEPT !.total = req[e].sum]
      BY <1>1, <1>2, <2>2 DEF WholeTree, Tree
    <3> QED BY <1>2, <1>3, <3>1 DEF Section
  <2> QED BY <2>1, <2>2
<1>5. \A s \in Sections : s # s0 => section'[s] = section[s]
  BY <1>1 DEF WholeTree, Tree
<1>6. \A s : SumStays(s)
  BY <1>1 DEF SumStays, Under, SectionOf
<1>7. ASSUME NEW s \in Sections, Counted(s)' PROVE CountsAfter(e, s)
  <2>1. CASE s = s0
    BY <1>4, <1>6, <2>1, SumStaysTheSame DEF CountsAfter
  <2>2. CASE s # s0
    <3>1. Alive(section, s) /\ section'[s].total = section[s].total
      BY <1>5, <1>7, <2>2 DEF Counted, Alive
    <3>2. Counted(s) => section[s].total = SectionSum(s)
      BY <1>1, <2>2, CountedBefore
    <3> QED BY <1>1, <1>6, <1>7, <3>1, <3>2, StaysCounted
  <2> QED BY <2>1, <2>2
<1>8. Recalls(e)'
  <2>1. req'[e] = [op |-> "sumTest", kind |-> req[e].kind, id |-> req[e].id, row |-> req[e].row,
                   seen |-> req[e].seen, sum |-> 0]
    BY <1>1, GoOnDoes
  <2> QED BY <2>1, NothingToRecall
<1> QED BY <1>7, <1>8 DEF Tallies

\* What a clone has under a new section adds up to the total it is given.
LEMMA CopiedSectionAddsUp ==
  ASSUME WholeTree, WholeTree', NEW e \in Editors, req[e].op = "copy", NEW c \in Tests,
         NEW sk, NEW gk, NEW qk, Copies(e, c, sk, gk, qk),
         NEW x \in DOMAIN CopiedSections(e, c), NEW s, s = sk[x], Counted(s)'
  PROVE  section'[s].total = SectionSum(s)'
<1> DEFINE sc == CopiedSections(e, c)
           gc == CopiedGroups(e, sk)
           qc == CopiedRows(e, gk)
           D == {q \in CopiedQuestions(e) : req[e].row.groups[question[q].group].section = x}
           E == {q \in Questions : Alive(question', q) /\ SectionOf(q)' = s}
<1>1. CopyExtends(e, c, sk, gk, qk)
  BY CopiesExtend
<1>2. /\ DOMAIN sc = DOMAIN req[e].row.sections /\ DOMAIN gc = DOMAIN req[e].row.groups
      /\ DOMAIN qc = CopiedQuestions(e)
  BY DEF CopiedSections, CopiedGroups, CopiedRows
<1>3. /\ IsInjective(sk) /\ IsInjective(qk) /\ DOMAIN sk = DOMAIN sc /\ DOMAIN qk = DOMAIN qc
  BY DEF Copies, Placed
<1>4. /\ \A g \in DOMAIN gc : gc[g].section = sk[req[e].row.groups[g].section]
                              /\ req[e].row.groups[g].section \in DOMAIN sc
      /\ \A q \in DOMAIN qc : /\ qc[q].group = gk[question[q].group]
                              /\ qc[q].score = question[q].score /\ qc[q].alive = TRUE
                              /\ question[q].group \in DOMAIN gc
  BY <1>2, CloneIsTyped DEF CopiedGroups, CopiedRows, Copies, Cloning
<1>5. sc[x].total = CopiedTotal(e, x)
  BY DEF CopiedSections
<1> HIDE DEF sc, gc, qc
<1>6. section[s] = Missing /\ section'[s] = sc[x]
  BY <1>1 DEF CopyExtends, Extended, sc
<1>7. ASSUME NEW q \in Questions, SectionOf(q)' = s, question'[q] # Missing
      PROVE  \E y \in D : qk[y] = q
  <2>1. question[q] = Missing
    <3> SUFFICES ASSUME question[q] # Missing PROVE FALSE
      OBVIOUS
    <3>1. PICK g \in Groups : g = question[q].group /\ group[g] # Missing
      BY TreeFields
    <3>2. question'[q] = question[q] /\ group'[g] = group[g]
      BY <1>1, <3>1 DEF CopyExtends, Extended
    <3>3. group[g].section = s
      BY <1>7, <3>1, <3>2 DEF SectionOf
    <3> QED BY <1>6, <3>1, <3>3, TreeFields
  <2>2. PICK y \in DOMAIN qc : qk[y] = q /\ question'[q] = qc[y]
    BY <1>1, <1>7, <2>1 DEF CopyExtends, Extended, qc
  <2>3. PICK g : g = question[y].group
    OBVIOUS
  <2>4. g \in DOMAIN gc /\ question'[q].group = gk[g] /\ group'[gk[g]] = gc[g]
    BY <1>1, <1>4, <2>2, <2>3 DEF CopyExtends, Extended, gc
  <2>5. sk[req[e].row.groups[g].section] = s
    BY <1>4, <1>7, <2>4 DEF SectionOf
  <2>6. req[e].row.groups[g].section = x
    BY <1>3, <1>4, <2>4, <2>5 DEF IsInjective, sc
  <2> QED BY <1>2, <2>2, <2>3, <2>6
<1>8. ASSUME NEW y \in D, NEW q, q = qk[y]
      PROVE  q \in E /\ question'[q].score = question[y].score
  <2>1. y \in DOMAIN qc /\ q \in Questions /\ question'[q] # Missing /\ question'[q] = qc[y]
    BY <1>1, <1>2, <1>8 DEF CopyExtends, Extended, qc
  <2>2. PICK g : g = question[y].group
    OBVIOUS
  <2>3. g \in DOMAIN gc /\ question'[q].group = gk[g] /\ group'[gk[g]] = gc[g]
    BY <1>1, <1>4, <2>1, <2>2 DEF CopyExtends, Extended, gc
  <2>4. SectionOf(q)' = s
    BY <1>4, <2>2, <2>3 DEF SectionOf
  <2> QED BY <1>4, <2>1, <2>4 DEF Alive
<1>9. D # {}
  BY <1>7 DEF Counted
<1>10. section'[s].total = ScoresOf(D)
  BY <1>5, <1>6, <1>9 DEF CopiedTotal
<1> DEFINE f == [y \in D |-> question[y].score]
           g == [q \in E |-> question'[q].score]
           key == [y \in D |-> qk[y]]
<1>11. f \in [D -> Nat] /\ g \in [E -> Nat]
  <2>1. \A y \in D : question[y].score \in Nat
    BY TreeFields, ScoresAssumption DEF CopiedQuestions, QuestionsOf, Alive
  <2>2. \A q \in E : question'[q].score \in Nat
    <3>1. \A q \in Questions : question'[q] # Missing => question'[q] \in Question
      BY DEF WholeTree, Tree
    <3> QED BY <3>1, ScoresAssumption DEF Alive, Question
  <2> QED BY <2>1, <2>2
<1>12. IsFiniteSet(D) /\ IsFiniteSet(E)
  <2>1. D \in SUBSET Keys /\ E \in SUBSET Keys
    BY DEF CopiedQuestions, QuestionsOf, Keys
  <2> QED BY <2>1, KeysAreFinite
<1>13. key \in [D -> E] /\ \A y \in D : g[key[y]] = f[y]
  BY <1>8
<1>14. /\ \A y, z \in D : key[y] = key[z] => y = z
  BY <1>2, <1>3 DEF IsInjective, qc
<1>15. \A q \in E : \E y \in D : key[y] = q
  BY <1>7 DEF Alive
<1>16. ScoresOf(D) = SumFunctionOnSet(f, D)
  <2>1. DOMAIN f = D
    OBVIOUS
  <2> QED BY <2>1 DEF ScoresOf, SumFunction
<1>17. SectionSum(s)' = SumFunctionOnSet(g, E)
  <2>1. DOMAIN g = E
    OBVIOUS
  <2> QED BY <2>1 DEF SectionSum, ScoresOf, SumFunction, Alive
<1> HIDE DEF D, E, f, g, key
<1>18. SumFunctionOnSet(g, E) = SumFunctionOnSet(f, D)
  BY <1>11, <1>12, <1>13, <1>14, <1>15, SumOfCopies
<1> QED BY <1>10, <1>16, <1>17, <1>18

\* Steps that write no row of a section, a group or a question.
LEMMA DoneTallies ==
  ASSUME Reliable, TotalsGuarded, TotalsKept, NEW e \in Editors, WriteStep(e),
         UNCHANGED <<section, group, question>>, req[e].op \notin {"sum", "store"},
         req'[e] = NoEdit
  PROVE  Tallies(e)
<1>1. req'[e].op = "idle"
  BY DEF NoEdit
<1> QED BY <1>1, NothingToRecall, NothingToTally

LEMMA QuietTallies ==
  ASSUME Reliable, TotalsGuarded, TotalsKept, NEW e \in Editors,
         \/ WriteTest(e) \/ Toggle(e) \/ SumTest(e) \/ StoreTest(e)
         \/ CloneSections(e) \/ CloneGroups(e)
  PROVE  Tallies(e)
<1>1. WholeTree /\ WriteStep(e) /\ UNCHANGED <<section, group, question>>
      /\ req[e].op \notin {"sum", "store"}
  BY DEF Reliable, WriteStep, WriteTest, Toggle, SumTest, StoreTest, CloneSections, CloneGroups, rows
<1>2. CASE WriteTest(e) \/ Toggle(e) \/ StoreTest(e)
  <2>1. req'[e] = NoEdit
    BY <1>1, <1>2, DoneDoes DEF WriteTest, Toggle, StoreTest
  <2> QED BY <1>1, <2>1, DoneTallies
<1>3. ASSUME NEW op \in {"storeTest", "groups", "copy"}, NEW row, NEW seen, NEW sum,
             GoOn(e, op, row, seen, sum), UNCHANGED workload
      PROVE  Tallies(e)
  <2>1. req'[e] = [op |-> op, kind |-> req[e].kind, id |-> req[e].id, row |-> row,
                   seen |-> seen, sum |-> sum]
    BY <1>1, <1>3, GoOnDoes
  <2>2. req'[e].op \notin {"question", "remove", "sum", "store"}
    BY <2>1
  <2> QED BY <1>1, <2>2, NothingToRecall, NothingToTally
<1>4. CASE SumTest(e)
  <2>1. /\ UNCHANGED workload
        /\ GoOn(e, "storeTest", req[e].row, req[e].seen, TestSum(req[e].seen.in))
    BY <1>4 DEF SumTest
  <2> QED BY <1>3, <2>1
<1>5. CASE CloneSections(e)
  <2>1. UNCHANGED workload /\ \E row : GoOn(e, "groups", row, Missing, 0)
    BY <1>5 DEF CloneSections
  <2> QED BY <1>3, <2>1
<1>6. CASE CloneGroups(e)
  <2>1. CASE req' = [req EXCEPT ![e] = NoEdit]
    <3>1. req'[e] = NoEdit
      BY <1>1, <2>1 DEF WholeTree
    <3> QED BY <1>1, <3>1, DoneTallies
  <2>2. CASE \E row : GoOn(e, "copy", row, Missing, 0)
    BY <1>3, <1>6, <2>2 DEF CloneGroups
  <2> QED BY <1>6, <2>1, <2>2 DEF CloneGroups
<1> QED BY <1>2, <1>4, <1>5, <1>6

LEMMA FinishCloneTallies ==
  ASSUME Reliable, TotalsGuarded, TotalsKept, NEW e \in Editors, FinishClone(e)
  PROVE  Tallies(e)
<1>1. /\ WholeTree /\ WriteStep(e) /\ req[e].op = "copy" /\ Done(e)
      /\ UNCHANGED rows \/ \E c \in Tests : \E sk, gk, qk : Copies(e, c, sk, gk, qk)
  BY FinishCloneDoes DEF Reliable, WriteStep
<1>2. WholeTree'
  BY <1>1, StepMoves, OthersStaySound DEF Moves
<1>3. req'[e] = NoEdit
  BY <1>1, DoneDoes
<1>4. CASE UNCHANGED rows
  BY <1>1, <1>3, <1>4, DoneTallies DEF rows
<1>5. ASSUME NEW c \in Tests, NEW sk, NEW gk, NEW qk, Copies(e, c, sk, gk, qk) PROVE Tallies(e)
  <2>1. CopyExtends(e, c, sk, gk, qk)
    BY <1>1, <1>5, CopiesExtend
  <2>2. ASSUME NEW s \in Sections, Counted(s)', section[s] = Missing PROVE CountsAfter(e, s)
    <3>1. section'[s] # Missing
      BY <2>2 DEF Counted, Alive
    <3>2. PICK x \in DOMAIN CopiedSections(e, c) : s = sk[x]
      BY <2>1, <2>2, <3>1 DEF CopyExtends, Extended
    <3> QED BY <1>1, <1>2, <1>5, <2>2, <3>2, CopiedSectionAddsUp DEF CountsAfter
  <2>3. ASSUME NEW s \in Sections, section[s] # Missing, NEW q \in Questions
        PROVE  /\ Under(q, s)' <=> Under(q, s)
               /\ Under(q, s) => question'[q] = question[q]
    <3>1. CASE question[q] # Missing
      <4>1. PICK g \in Groups : g = question[q].group /\ group[g] # Missing
        BY <1>1, <3>1, TreeFields
      <4>2. question'[q] = question[q] /\ group'[g] = group[g]
        BY <2>1, <3>1, <4>1 DEF CopyExtends, Extended
      <4> QED BY <4>1, <4>2 DEF Under, SectionOf
    <3>2. CASE question[q] = Missing /\ question'[q] # Missing
      <4>1. PICK y \in DOMAIN CopiedRows(e, gk) : question'[q] = CopiedRows(e, gk)[y]
        BY <2>1, <3>2 DEF CopyExtends, Extended
      <4>2. PICK g : g = question[y].group
        OBVIOUS
      <4>3. question'[q].group = gk[g] /\ g \in DOMAIN CopiedGroups(e, sk)
        BY <1>5, <4>1, <4>2 DEF CopiedRows, CopiedGroups, Copies
      <4>4. group'[gk[g]] = CopiedGroups(e, sk)[g]
        BY <2>1, <4>3 DEF CopyExtends, Extended
      <4>5. SectionOf(q)' = sk[req[e].row.groups[g].section]
        BY <4>3, <4>4 DEF CopiedGroups, SectionOf
      <4>6. req[e].row.groups[g].section \in DOMAIN CopiedSections(e, c)
        BY <1>1, <4>3, CloneIsTyped DEF CopiedGroups, CopiedSections, Cloning
      <4>7. section[sk[req[e].row.groups[g].section]] = Missing
        BY <2>1, <4>6 DEF CopyExtends, Extended
      <4> QED BY <2>3, <3>2, <4>5, <4>7 DEF Under
    <3>3. CASE question[q] = Missing /\ question'[q] = Missing
      BY <3>3 DEF Under
    <3> QED BY <3>1, <3>2, <3>3
  <2>4. ASSUME NEW s \in Sections, Counted(s)', section[s] # Missing PROVE CountsAfter(e, s)
    <3>1. SumStays(s)
      BY <2>3, <2>4 DEF SumStays
    <3>2. section'[s] = section[s]
      BY <2>1, <2>4 DEF CopyExtends, Extended
    <3>3. Alive(section, s) /\ section'[s].total = section[s].total
      BY <2>4, <3>2 DEF Counted, Alive
    <3>4. Counted(s) => section[s].total = SectionSum(s)
      BY <1>1, CountedBefore
    <3> QED BY <1>1, <2>4, <3>1, <3>3, <3>4, StaysCounted
  <2>5. Recalls(e)'
    <3>1. req'[e].op = "idle"
      BY <1>3 DEF NoEdit
    <3> QED BY <3>1, NothingToRecall
  <2> QED BY <2>2, <2>4, <2>5 DEF Tallies
<1> QED BY <1>1, <1>4, <1>5

LEMMA StepTallies ==
  ASSUME Reliable, TotalsGuarded, TotalsKept, NEW e \in Editors, Check(e) \/ WriteStep(e)
  PROVE  Tallies(e)
<1>1. CASE Check(e)
  BY <1>1, ChecksTally
<1>2. CASE WriteStep(e)
  BY <1>2, WriteSectionTallies, WriteGroupTallies, WriteQuestionTallies, RemoveBranchTallies,
    RemoveQuestionTallies, DiscardTallies, SumSectionTallies, StoreSectionTallies, QuietTallies,
    FinishCloneTallies DEF WriteStep
<1> QED BY <1>1, <1>2

LEMMA NextKeepsTotals == Reliable /\ TotalsKept /\ [EditorNext]_editorVars => TotalsKept'
<1> SUFFICES ASSUME Reliable, TotalsKept, [EditorNext]_editorVars PROVE TotalsKept'
  OBVIOUS
<1>1. CASE UNCHANGED editorVars
  <2> SUFFICES ASSUME TotalsGuarded PROVE TotalsKept'
    BY <1>1 DEF editorVars, TotalsKept, TotalsGuarded
  <2>1. UNCHANGED <<section, group, question, req>>
    BY <1>1 DEF editorVars
  <2>2. \A s : SectionSum(s)' = SectionSum(s)
    BY <2>1, SameRowsSameSums, SumStaysTheSame
  <2>3. ASSUME NEW s \in Sections, Counted(s)' PROVE Counts(s)'
    <3>1. Counts(s)
      BY <2>1, <2>3, SameRowsSameSums DEF TotalsKept
    <3> QED BY <2>1, <2>2, <3>1 DEF Counts, SectionSaved
  <2>4. ASSUME NEW e \in Editors PROVE Recalls(e)'
    <3>1. Recalls(e)
      BY DEF TotalsKept
    <3> QED BY <2>1, <3>1 DEF Recalls, SectionSaved, SectionSum, ScoresOf, Alive, SectionOf
  <2> QED BY <2>3, <2>4 DEF TotalsKept
<1>2. ASSUME NEW e \in Editors, Check(e) \/ WriteStep(e) PROVE TotalsKept'
  BY <1>2, StepTallies, TalliesKeep
<1> QED BY <1>1, <1>2 DEF EditorNext

LEMMA InitKeepsTotals == EditorInit => TotalsKept
<1> SUFFICES ASSUME EditorInit PROVE TotalsKept
  OBVIOUS
<1> DEFINE t == CHOOSE u \in Tests : TRUE
           s == CHOOSE u \in Sections : TRUE
           g == CHOOSE u \in Groups : TRUE
           q == CHOOSE u \in Questions : TRUE
           n == CHOOSE u \in Scores : TRUE
<1>1. t \in Tests /\ s \in Sections /\ g \in Groups /\ q \in Questions
      /\ n \in Scores /\ n \in Nat
  BY KeysAssumption, ScoresAssumption, EditorsAssumption
<1>2. /\ \A e \in Editors : req[e] = NoEdit
      /\ section = [u \in Sections |->
                      IF u = s THEN [test |-> t, total |-> n, alive |-> TRUE] ELSE Missing]
      /\ group = [u \in Groups |-> IF u = g THEN [section |-> s, alive |-> TRUE] ELSE Missing]
      /\ question = [u \in Questions |->
                       IF u = q THEN [group |-> g, score |-> n, alive |-> TRUE] ELSE Missing]
  BY DEF EditorInit, Made
<1> HIDE DEF t, s, g, q, n
<1>3. \A e \in Editors : Recalls(e)
  BY <1>2 DEF NoEdit, Recalls
<1>4. section[s].total = n /\ question[q].score = n
  BY <1>1, <1>2
<1>5. \A u \in Questions : question[u] # Missing => u = q
  BY <1>2
<1>6. question[q] # Missing /\ question[q].alive /\ SectionOf(q) = s
  <2>1. [group |-> g, score |-> n, alive |-> TRUE] \in Question
    BY <1>1 DEF Question
  <2> QED BY <1>1, <1>2, <2>1, KeysDiffer DEF SectionOf
<1>7. ASSUME NEW u \in Sections, Counted(u) PROVE Counts(u)
  <2>1. u = s
    BY <1>5, <1>6, <1>7 DEF Counted
  <2>2. {x \in Questions : Alive(question, x) /\ SectionOf(x) = s} = {q}
    BY <1>1, <1>5, <1>6 DEF Alive
  <2> DEFINE f == [x \in {q} |-> question[x].score]
  <2>3. SectionSum(s) = SumFunctionOnSet(f, {q})
    <3>1. DOMAIN f = {q}
      OBVIOUS
    <3> QED BY <2>2, <3>1 DEF SectionSum, ScoresOf, SumFunction
  <2>4. f \in [{q} -> Nat] /\ f[q] = n
    BY <1>1, <1>4
  <2> HIDE DEF f
  <2>5. SectionSum(s) = n
    BY <2>3, <2>4, SumOfOne
  <2> QED BY <1>4, <2>1, <2>5 DEF Counts
<1> QED BY <1>3, <1>7 DEF TotalsKept

\* With saves of questions that overlap nothing, none moved and no total set by
\* hand, a section's total is its questions' sum whenever nothing is going on.
THEOREM TotalsAddUp == EditorSpec => []TotalsFollowQuestions
<1>1. EditorInit => Reliable /\ TotalsKept
  BY InitReliable, InitKeepsTotals
<1>2. Reliable /\ TotalsKept /\ [EditorNext]_editorVars => (Reliable /\ TotalsKept)'
  BY NextReliable, NextKeepsTotals
<1>3. TotalsKept => TotalsFollowQuestions
  BY DEF TotalsKept, TotalsGuarded, TotalsFollowQuestions, Counted, Counts, AtRest, NoEdit
<1> QED BY <1>1, <1>2, <1>3, PTL DEF EditorSpec

-----------------------------------------------------------------------------
(* Files.                                                                  *)

USE RowsAssumption, TrafficAssumption

\* What a job holds fits its phase.
Fits(j) ==
  /\ j.phase = "idle" => j = Idle
  /\ j.phase # "idle" => j.row \in Rows /\ j.op \in Ops
  /\ j.op = "purge" <=> j.phase \in {"file", "row"}
  /\ j.op = "purge" => j.row \in Users \cup Centers
  /\ j.op = "dismiss" => j.row \in Users
  /\ j.op = "upload" => j.row \notin Materials
  /\ j.op \in {"create", "clone"} => j.row \in Materials
  /\ j.phase = "view" => j.row \in Users /\ j.op \in {"upload", "dismiss"}
  /\ j.phase \in {"choose", "put"} => j.op \in {"upload", "replace", "create"}
  /\ j.phase = "put" => j.file \in Names
  /\ j.phase = "after" => j.later # <<>>
  /\ j.later # <<>> => j.row \in Centers /\ j.phase \in {"choose", "put", "write", "after"}

Typed == TypeOK /\ \A q \in Requests : Fits(job[q])

\* The load admits what is done, and a center that is being deleted is doomed.
Admissible == \A q \in Requests :
  /\ job[q].op # None => job[q].op \in traffic.ops
  /\ job[q].op = "purge" => doomed

-----------------------------------------------------------------------------
(* The files of the tenants.                                               *)

TenantFiles ==
  /\ \A r \in Materials : named[r] # None => named[r] \in storage["tenants"]
  /\ \A q \in Requests : job[q].row \in Materials /\ job[q].phase # "put" /\ job[q].file # None
       => job[q].file \in storage["tenants"]

-----------------------------------------------------------------------------
(* A folder whose requests come one by one.                                *)

Avatars == {"avatars", "center_avatars"}

At(q, f) == job[q].phase # "idle" /\ (job[q].op = "purge" \/ FolderOf(job[q].row) = f)
Works(q, f) == job[q].phase # "idle" /\ FolderOf(job[q].row) = f

OneByOne == \A f \in traffic.alone \cap Avatars : \A p, q \in Requests : At(p, f) /\ At(q, f) => p = q

\* Copies are current.
CurrentIn(f) == \A q \in Requests : Works(q, f) =>
  /\ job[q].op # "purge" => job[q].row \in alive
  /\ job[q].op \in {"profile", "touch"} \/ job[q].phase \in {"view", "file"}
       => job[q].file = named[job[q].row]
  /\ job[q].phase = "save" => job[q].file \in {None, named[job[q].row]}

Current == \A f \in traffic.alone \cap Avatars : CurrentIn(f)

\* A user who is not stored has no avatar, where nobody is deleted softly.
GoneAreNameless ==
  "avatars" \in traffic.alone /\ "dismiss" \notin traffic.ops
    => \A r \in Users \ alive : named[r] = None

\* The conditions of FilesExist, whatever is on its way.
Guarded(f) ==
  /\ f \in traffic.alone \cap Avatars
  /\ f = "center_avatars" => ~doomed
  /\ f = "avatars" => faults = 0 /\ (doomed => "dismiss" \notin traffic.ops)

Has(r, f) == r \in alive /\ FolderOf(r) = f

\* No two rows name the same file.
Distinct(f) == \A r, s \in Rows :
  Has(r, f) /\ Has(s, f) /\ named[r] # None /\ named[r] = named[s] => r = s

\* A file is missing only where the job at work is about to replace its name.
Rewrites(q, r) ==
  job[q].row = r /\ r \in Users /\ job[q].op \in {"upload", "replace", "dismiss", "purge"}

Present(f) == \A r \in Rows : Has(r, f) /\ named[r] # None =>
  named[r] \in storage[f] \/ \E q \in Requests : Rewrites(q, r)

\* A new file has a name no row names, except the user who has just lost it.
NewFiles(f) == \A q \in Requests : Works(q, f) =>
  /\ job[q].phase = "put" => job[q].file \notin storage[f]
  /\ job[q].phase = "write" /\ Carries(q) =>
       /\ job[q].file \in storage[f]
       /\ \A s \in Rows : Has(s, f) /\ named[s] = job[q].file => s = job[q].row /\ s \in Users

\* What is deleted after the commit is the name that was replaced.
InList(l, n) == \E i \in 1..Len(l) : l[i] = n
Listed(q, n) == InList(job[q].later, n)

LateFiles(f) == \A q \in Requests, n \in Names : Works(q, f) /\ Listed(q, n) =>
  /\ job[q].phase # "after" => Carries(q) /\ n = named[job[q].row]
  /\ job[q].phase = "after" => \A s \in Rows : Has(s, f) => named[s] # n

FilesIn(f) == Distinct(f) /\ Present(f) /\ NewFiles(f) /\ LateFiles(f)
Files == \A f \in Avatars : Guarded(f) => FilesIn(f)

\* Nothing is left behind: a file has a row that keeps it, or is the new one of
\* the job at work, or is on its list.
Freed(q) ==
  \/ Carries(q) /\ job[q].phase \in {"choose", "put", "write"}
  \/ job[q].op = "dismiss" /\ job[q].phase \in {"save", "write"}
  \/ job[q].op = "purge" /\ job[q].phase = "row"

Kept(r) == \A q \in Requests : Freed(q) => job[q].row # r

Needed(n, f) ==
  \/ \E r \in Rows : Has(r, f) /\ named[r] = n /\ Kept(r)
  \/ \E q \in Requests : Works(q, f) /\ Carries(q) /\ job[q].phase = "write" /\ job[q].file = n
  \/ \E q \in Requests : Works(q, f) /\ Listed(q, n)

AccountedIn(f) == \A n \in storage[f] : Needed(n, f)
Accounted == faults = 0 => \A f \in traffic.alone \cap Avatars : AccountedIn(f)

-----------------------------------------------------------------------------
(* What the steps do.                                                      *)

\* Job q goes on as described, the others wait.
Turns(q, phase, op, row, file, later) ==
  /\ job' \in [Requests -> Job]
  /\ job'[q].phase = phase /\ job'[q].op = op /\ job'[q].row = row
  /\ job'[q].file = file /\ job'[q].later = later
  /\ \A p \in Requests : p # q => job'[p] = job[p]

\* A job ends.
Ends(q) == Turns(q, "idle", None, None, None, <<>>) /\ job'[q] = Idle

\* Files are gone from a folder.
Loses(f, gone) == \A g \in Folders : storage'[g] = IF g = f THEN storage[g] \ gone ELSE storage[g]

LEMMA ListsAreLists ==
  /\ <<>> \in Lists
  /\ \A n \in Names : <<n>> \in Lists /\ <<n>> # <<>>
  /\ \A m, n \in Names : <<m, n>> \in Lists /\ <<m, n>> # <<>>
  BY DEF Lists

LEMMA ListsAreShort ==
  \A l \in Lists : l = <<>> \/ (\E n \in Names : l = <<n>>) \/ (\E m, n \in Names : l = <<m, n>>)
<1> TAKE l \in Lists
<1>1. l \in {<<>>} \/ l \in {<<n>> : n \in Names} \/ l \in {<<m, n>> : m, n \in Names}
  BY DEF Lists
<1>2. l \in {<<n>> : n \in Names} => \E n \in Names : l = <<n>>
  OBVIOUS
<1>3. l \in {<<m, n>> : m, n \in Names} => \E m, n \in Names : l = <<m, n>>
  OBVIOUS
<1> QED BY <1>1, <1>2, <1>3

LEMMA OneOf == \A l : Len(l) = 1 => \A k : InList(l, k) <=> k = l[1]
  BY DEF InList

LEMMA OneOfTwo ==
  \A l : Len(l) = 2 => \A k : InList(l, k) <=> k = l[1] \/ k = l[2]
  BY DEF InList

LEMMA ListsShrink ==
  ASSUME NEW l \in Lists, l # <<>>
  PROVE /\ Head(l) \in Names
        /\ Len(l) # 1 => Tail(l) \in Lists /\ Tail(l) # <<>>
        /\ \A k : InList(l, k)
             <=> k = Head(l) \/ (Len(l) # 1 /\ InList(Tail(l), k))
<1>1. CASE \E n \in Names : l = <<n>>
  <2>1. PICK n \in Names : l = <<n>>
    BY <1>1
  <2>2. Len(l) = 1 /\ Head(l) = n /\ l[1] = n
    BY <2>1
  <2> QED BY <2>2, OneOf
<1>2. CASE \E m, n \in Names : l = <<m, n>>
  <2>1. PICK m \in Names, n \in Names : l = <<m, n>>
    BY <1>2
  <2>2. Len(l) = 2 /\ Tail(l) = <<n>> /\ Head(l) = m /\ l[1] = m /\ l[2] = n
    BY <2>1
  <2>3. Len(<<n>>) = 1 /\ <<n>>[1] = n
    OBVIOUS
  <2>4. \A k : InList(Tail(l), k) <=> k = n
    BY <2>2, <2>3, OneOf
  <2>5. \A k : InList(l, k) <=> k = m \/ k = n
    BY <2>2, OneOfTwo
  <2>6. Tail(l) \in Lists /\ Tail(l) # <<>>
    BY <2>2, ListsAreLists
  <2> QED BY <2>2, <2>4, <2>5, <2>6
<1> QED BY <1>1, <1>2, ListsAreShort

\* New fields.
LEMMA JobFields == \A j \in Job :
  /\ j.phase \in Phases /\ j.op \in Ops \cup {None} /\ j.row \in Rows \cup {None}
  /\ j.file \in Names \cup {None} /\ j.later \in Lists
  BY DEF Job

LEMMA JobTurns ==
  ASSUME Typed, NEW q \in Requests, NEW j \in Job, job' = [job EXCEPT ![q] = j]
  PROVE Turns(q, j.phase, j.op, j.row, j.file, j.later)
  BY DEF Typed, TypeOK, Turns

LEMMA RecordTurns ==
  ASSUME Typed, NEW q \in Requests, NEW phase \in Phases, NEW op \in Ops \cup {None},
         NEW row \in Rows \cup {None}, NEW file \in Names \cup {None}, NEW later \in Lists,
         job' = [job EXCEPT ![q] = [phase |-> phase, op |-> op, row |-> row, file |-> file,
                                    later |-> later]]
  PROVE Turns(q, phase, op, row, file, later)
<1> DEFINE j == [phase |-> phase, op |-> op, row |-> row, file |-> file, later |-> later]
<1>1. /\ j \in Job /\ j.phase = phase /\ j.op = op /\ j.row = row /\ j.file = file /\ j.later = later
      /\ job' = [job EXCEPT ![q] = j]
  BY DEF Job
<1> HIDE DEF j
<1> QED BY <1>1 DEF Typed, TypeOK, Turns

LEMMA PhaseTurns ==
  ASSUME Typed, NEW q \in Requests, NEW phase \in Phases, job' = [job EXCEPT ![q].phase = phase]
  PROVE Turns(q, phase, job[q].op, job[q].row, job[q].file, job[q].later)
<1> DEFINE j == [job[q] EXCEPT !.phase = phase]
<1>1. job[q] \in Job
  BY DEF Typed, TypeOK
<1>2. /\ j.phase = phase /\ j.op = job[q].op /\ j.row = job[q].row
      /\ j.file = job[q].file /\ j.later = job[q].later
  BY <1>1 DEF Job
<1>3. j \in Job /\ job' = [job EXCEPT ![q] = j]
  BY <1>1 DEF Job
<1> HIDE DEF j
<1> QED BY <1>2, <1>3, JobTurns

LEMMA PhaseFileTurns ==
  ASSUME Typed, NEW q \in Requests, NEW phase \in Phases, NEW file \in Names \cup {None},
         job' = [job EXCEPT ![q].phase = phase, ![q].file = file]
  PROVE Turns(q, phase, job[q].op, job[q].row, file, job[q].later)
<1> DEFINE i == [job[q] EXCEPT !.phase = phase]
           j == [i EXCEPT !.file = file]
<1>1. job[q] \in Job
  BY DEF Typed, TypeOK
<1>2. /\ i.phase = phase /\ i.op = job[q].op /\ i.row = job[q].row
      /\ i.file = job[q].file /\ i.later = job[q].later
  BY <1>1 DEF Job
<1>3. i \in Job
  BY <1>1 DEF Job
<1>4. job' = [job EXCEPT ![q] = j]
  BY DEF Typed, TypeOK
<1> HIDE DEF i
<1>5. /\ j.phase = i.phase /\ j.op = i.op /\ j.row = i.row /\ j.file = file /\ j.later = i.later
  BY <1>3 DEF Job
<1>6. j \in Job
  BY <1>3 DEF Job
<1> HIDE DEF j
<1> QED BY <1>2, <1>4, <1>5, <1>6, JobTurns

LEMMA PhaseLaterTurns ==
  ASSUME Typed, NEW q \in Requests, NEW phase \in Phases, NEW later \in Lists,
         job' = [job EXCEPT ![q].phase = phase, ![q].later = later]
  PROVE Turns(q, phase, job[q].op, job[q].row, job[q].file, later)
<1> DEFINE i == [job[q] EXCEPT !.phase = phase]
           j == [i EXCEPT !.later = later]
<1>1. job[q] \in Job
  BY DEF Typed, TypeOK
<1>2. /\ i.phase = phase /\ i.op = job[q].op /\ i.row = job[q].row
      /\ i.file = job[q].file /\ i.later = job[q].later
  BY <1>1 DEF Job
<1>3. i \in Job
  BY <1>1 DEF Job
<1>4. job' = [job EXCEPT ![q] = j]
  BY DEF Typed, TypeOK
<1> HIDE DEF i
<1>5. /\ j.phase = i.phase /\ j.op = i.op /\ j.row = i.row /\ j.file = i.file /\ j.later = later
  BY <1>3 DEF Job
<1>6. j \in Job
  BY <1>3 DEF Job
<1> HIDE DEF j
<1> QED BY <1>2, <1>4, <1>5, <1>6, JobTurns

LEMMA LaterTurns ==
  ASSUME Typed, NEW q \in Requests, NEW later \in Lists,
         job' = [job EXCEPT ![q] = [job[q] EXCEPT !.later = later]]
  PROVE Turns(q, job[q].phase, job[q].op, job[q].row, job[q].file, later)
<1> DEFINE j == [job[q] EXCEPT !.later = later]
<1>1. job[q] \in Job
  BY DEF Typed, TypeOK
<1>2. /\ j.phase = job[q].phase /\ j.op = job[q].op /\ j.row = job[q].row
      /\ j.file = job[q].file /\ j.later = later
  BY <1>1 DEF Job
<1>3. j \in Job /\ job' = [job EXCEPT ![q] = j]
  BY <1>1 DEF Job
<1> HIDE DEF j
<1> QED BY <1>2, <1>3, JobTurns

LEMMA IdleIsTyped == Idle \in Job /\ Idle.phase = "idle" /\ Fits(Idle)
<1>1. Idle \in Job
  BY ListsAreLists DEF Idle, Job, Phases
<1>2. Idle.phase = "idle" /\ Idle.op = None /\ Idle.row = None /\ Idle.later = <<>>
  BY DEF Idle
<1>3. None \notin Ops
  OBVIOUS
<1> QED BY <1>1, <1>2, <1>3 DEF Fits, Ops

LEMMA JobEnds ==
  ASSUME Typed, NEW q \in Requests, job' = [job EXCEPT ![q] = Idle]
  PROVE Ends(q)
  BY IdleIsTyped DEF Typed, TypeOK, Turns, Ends, Idle

LEMMA WithoutLoses ==
  ASSUME Typed, NEW f \in Folders, NEW gone, storage' = Without(f, gone)
  PROVE Loses(f, gone) /\ storage' \in [Folders -> SUBSET Names]
  BY DEF Typed, TypeOK, Loses, Without

LEMMA FoldersOfRows == \A r \in Rows : FolderOf(r) \in Folders
  BY DEF FolderOf, Folders, Rows

LEMMA BeginTurns ==
  ASSUME Typed, NEW q \in Requests, NEW op \in Ops, NEW r \in Rows, NEW phase \in Phases,
         NEW file \in Names \cup {None}, Begin(q, op, r, phase, file)
  PROVE Turns(q, phase, op, r, file, <<>>)
  BY ListsAreLists, RecordTurns DEF Begin

LEMMA LoadDoes ==
  ASSUME Typed, NEW q \in Requests, NEW r \in Rows,
         NEW op \in {"upload", "replace", "profile", "touch", "dismiss"}, Load(q, op, r)
  PROVE /\ Turns(q, IF op \in {"upload", "dismiss"} /\ r \in Users THEN "view" ELSE "save",
                 op, r, named[r], <<>>)
        /\ UNCHANGED <<named, alive, storage, doomed, faults, traffic>>
  BY BeginTurns DEF Load, Typed, TypeOK, Phases, Ops

LEMMA CreateDoes ==
  ASSUME Typed, NEW q \in Requests, NEW r \in Materials, Create(q, r)
  PROVE /\ Turns(q, "save", "create", r, None, <<>>)
        /\ UNCHANGED <<named, alive, storage, doomed, faults, traffic>>
  BY BeginTurns DEF Create, Phases, Ops, Rows

LEMMA CloneDoes ==
  ASSUME Typed, NEW q \in Requests, NEW r \in Materials, NEW s \in Materials, Clone(q, r, s)
  PROVE /\ Turns(q, "write", "clone", r, named[s], <<>>)
        /\ UNCHANGED <<named, alive, storage, doomed, faults, traffic>>
  BY BeginTurns DEF Clone, Phases, Ops, Rows, Typed, TypeOK

LEMMA ViewDeleteDoes ==
  ASSUME Typed, NEW q \in Requests, ViewDelete(q)
  PROVE /\ Turns(q, "save", job[q].op, job[q].row, None, job[q].later)
        /\ Loses("avatars", Some(job[q].file)) /\ storage' \in [Folders -> SUBSET Names]
        /\ UNCHANGED <<named, alive, doomed, faults, traffic>>
<1>1. job[q] \in Job /\ "save" \in Phases
  BY DEF Typed, TypeOK, Phases
<1>2. Turns(q, "save", job[q].op, job[q].row, None, job[q].later)
  BY <1>1, PhaseFileTurns DEF ViewDelete
<1> QED BY <1>2, WithoutLoses DEF ViewDelete, Folders

LEMMA ToStoreIs == \A q \in Requests :
  ToStore(q) = (IF Carries(q) THEN "choose" ELSE "write") /\ ToStore(q) \in Phases
  BY DEF ToStore, Phases

LEMMA SaveUserDoes ==
  ASSUME Typed, NEW q \in Requests, ReadOld(q), SaveUser(q)
  PROVE /\ Turns(q, ToStore(q), job[q].op, job[q].row, job[q].file, job[q].later)
        /\ Loses("avatars", Replaced(q)) /\ storage' \in [Folders -> SUBSET Names]
        /\ UNCHANGED <<named, alive, doomed, faults, traffic>>
  BY ToStoreIs, PhaseTurns, WithoutLoses DEF SaveUser, ReadOld, Folders

\* What is deleted later: the stored name, if it changes, and the one the endpoint
\* loaded.
LEMMA SaveCenterDoes ==
  ASSUME Typed, NEW q \in Requests, ReadOld(q), SaveCenter(q)
  PROVE \E later \in Lists :
        /\ Turns(q, ToStore(q), job[q].op, job[q].row, job[q].file, later)
        /\ \A n : InList(later, n)
             <=> n \in Replaced(q) \cup (IF job[q].op = "upload" THEN Some(job[q].file) ELSE {})
        /\ UNCHANGED <<storage, named, alive, doomed, faults, traffic>>
<1> DEFINE loaded == IF job[q].op = "upload" THEN Some(job[q].file) ELSE {}
           list(S) == IF S = {} THEN <<>> ELSE <<CHOOSE x \in S : TRUE>>
           later == list(Replaced(q)) \o list(loaded)
<1>0. job[q] \in Job /\ job[q].row \in Rows
  BY DEF Typed, TypeOK, ReadOld, SaveCenter, Rows
<1>1. /\ Replaced(q) = {} \/ \E n \in Names : Replaced(q) = {n}
      /\ loaded = {} \/ \E n \in Names : loaded = {n}
  BY <1>0 DEF Typed, TypeOK, Replaced, Some, Job
<1>4. job' = [job EXCEPT ![q].phase = ToStore(q), ![q].later = later]
  BY DEF SaveCenter
<1>7. loaded = IF job[q].op = "upload" THEN Some(job[q].file) ELSE {}
  OBVIOUS
<1> HIDE DEF loaded
<1>2. list({}) = <<>> /\ \A n \in Names : list({n}) = <<n>>
  <2>1. \A n : (CHOOSE x \in {n} : TRUE) = n
    OBVIOUS
  <2> QED BY <2>1
<1> HIDE DEF list
<1>3. later \in Lists /\ \A n : InList(later, n) <=> n \in Replaced(q) \cup loaded
  <2>1. CASE Replaced(q) = {} /\ loaded = {}
    <3>1. later = <<>>
      BY <1>2, <2>1
    <3> HIDE DEF later
    <3> QED BY <2>1, <3>1, ListsAreLists DEF InList
  <2>2. CASE \E n \in Names : Replaced(q) = {} /\ loaded = {n}
    <3>1. PICK n \in Names : Replaced(q) = {} /\ loaded = {n}
      BY <2>2
    <3>2. later = <<n>>
      <4>1. list(Replaced(q)) = <<>> /\ list(loaded) = <<n>>
        BY <1>2, <3>1
      <4> QED BY <4>1
    <3> HIDE DEF later
    <3> QED BY <3>1, <3>2, ListsAreLists DEF InList
  <2>3. CASE \E n \in Names : Replaced(q) = {n} /\ loaded = {}
    <3>1. PICK n \in Names : Replaced(q) = {n} /\ loaded = {}
      BY <2>3
    <3>2. later = <<n>>
      <4>1. list(Replaced(q)) = <<n>> /\ list(loaded) = <<>>
        BY <1>2, <3>1
      <4> QED BY <4>1
    <3> HIDE DEF later
    <3> QED BY <3>1, <3>2, ListsAreLists DEF InList
  <2>4. CASE \E m, n \in Names : Replaced(q) = {m} /\ loaded = {n}
    <3>1. PICK m \in Names, n \in Names : Replaced(q) = {m} /\ loaded = {n}
      BY <2>4
    <3>2. later = <<m, n>>
      <4>1. list(Replaced(q)) = <<m>> /\ list(loaded) = <<n>>
        BY <1>2, <3>1
      <4>2. <<m>> \in Seq(Names) /\ <<n>> \in Seq(Names) /\ <<m, n>> \in Seq(Names)
        OBVIOUS
      <4>3. /\ Len(<<m>>) = 1 /\ Len(<<n>>) = 1 /\ Len(<<m, n>>) = 2
            /\ <<m>>[1] = m /\ <<n>>[1] = n /\ <<m, n>>[1] = m /\ <<m, n>>[2] = n
        OBVIOUS
      <4> DEFINE s == <<m>> \o <<n>>
      <4>4. s \in Seq(Names) /\ Len(s) = 2 /\ s[1] = m /\ s[2] = n
        BY <4>2, <4>3, ConcatProperties
      <4>5. s = <<m, n>>
        <5> DEFINE t == <<m, n>>
        <5>1. t \in Seq(Names) /\ Len(t) = 2 /\ t[1] = m /\ t[2] = n
          BY <4>2, <4>3
        <5> HIDE DEF s, t
        <5>2. \A i \in 1..Len(s) : s[i] = t[i]
          BY <4>4, <5>1
        <5>3. s = t
          BY <4>4, <5>1, <5>2, SeqEqual
        <5> QED BY <5>3 DEF t
      <4> HIDE DEF list
      <4> QED BY <4>1, <4>5
    <3> HIDE DEF later
    <3>3. Len(later) = 2 /\ later[1] = m /\ later[2] = n /\ later \in Lists
      BY <3>2, ListsAreLists
    <3> QED BY <3>1, <3>3, OneOfTwo
  <2> QED BY <1>1, <2>1, <2>2, <2>3, <2>4
<1> HIDE DEF later
<1>6. Turns(q, ToStore(q), job[q].op, job[q].row, job[q].file, later)
  BY <1>0, <1>3, <1>4, ToStoreIs, PhaseLaterTurns
<1> QED BY <1>3, <1>6, <1>7 DEF SaveCenter, ReadOld

LEMMA SaveMaterialDoes ==
  ASSUME Typed, NEW q \in Requests, ReadOld(q), SaveMaterial(q)
  PROVE /\ Turns(q, ToStore(q), job[q].op, job[q].row, job[q].file, job[q].later)
        /\ UNCHANGED <<storage, named, alive, doomed, faults, traffic>>
  BY ToStoreIs, PhaseTurns DEF SaveMaterial, ReadOld

LEMMA ChooseDoes ==
  ASSUME Typed, NEW q \in Requests, Choose(q)
  PROVE \E n \in Names \ storage[FolderOf(job[q].row)] :
        /\ Turns(q, "put", job[q].op, job[q].row, n, job[q].later)
        /\ UNCHANGED <<storage, named, alive, doomed, faults, traffic>>
<1>1. PICK n \in Names \ storage[FolderOf(job[q].row)] :
        job' = [job EXCEPT ![q].phase = "put", ![q].file = n]
  BY DEF Choose
<1>2. job[q] \in Job /\ "put" \in Phases
  BY DEF Typed, TypeOK, Phases
<1>3. Turns(q, "put", job[q].op, job[q].row, n, job[q].later)
  BY <1>1, <1>2, PhaseFileTurns
<1> QED BY <1>3 DEF Choose

LEMMA PutDoes ==
  ASSUME Typed, NEW q \in Requests, Put(q)
  PROVE /\ Turns(q, "write", job[q].op, job[q].row, job[q].file, job[q].later)
        /\ \A f \in Folders :
             storage'[f] = IF f = FolderOf(job[q].row) THEN storage[f] \cup {job[q].file} ELSE storage[f]
        /\ storage' \in [Folders -> SUBSET Names]
        /\ UNCHANGED <<named, alive, doomed, faults, traffic>>
<1>1. Turns(q, "write", job[q].op, job[q].row, job[q].file, job[q].later)
  BY PhaseTurns DEF Put, Phases
<1>2. job[q].file \in Names
  BY DEF Put, Typed, Fits
<1> QED BY <1>1, <1>2 DEF Put, Typed, TypeOK

\* The row is written, and the job ends or goes on to what it deletes later.
Committed(q) ==
  /\ \A s \in Rows : named'[s] = IF s = job[q].row /\ job[q].op \notin {"touch", "dismiss"}
                               THEN job[q].file ELSE named[s]
  /\ named' \in [Rows -> Names \cup {None}]
  /\ alive' = IF WholeRow(q) THEN alive \cup {job[q].row}
              ELSE IF job[q].op = "dismiss" THEN alive \ {job[q].row} ELSE alive

LEMMA WriteDoes ==
  ASSUME Typed, NEW q \in Requests, Write(q)
  PROVE /\ IF job[q].later = <<>> THEN Ends(q)
           ELSE Turns(q, "after", job[q].op, job[q].row, job[q].file, job[q].later)
        /\ Committed(q)
        /\ UNCHANGED <<storage, doomed, faults, traffic>>
<1>0. job[q] \in Job /\ job[q].row \in Rows
  BY DEF Typed, TypeOK, Write, Fits
<1>1. IF job[q].later = <<>> THEN Ends(q)
      ELSE Turns(q, "after", job[q].op, job[q].row, job[q].file, job[q].later)
  <2>1. CASE job[q].later = <<>>
    BY <2>1, JobEnds DEF Write
  <2>2. CASE job[q].later # <<>>
    <3>1. "after" \in Phases
      BY DEF Phases
    <3> QED BY <1>0, <2>2, <3>1, PhaseTurns DEF Write
  <2> QED BY <2>1, <2>2
<1>2. Committed(q)
  BY <1>0 DEF Write, Committed, Typed, TypeOK, Job
<1> QED BY <1>1, <1>2 DEF Write

LEMMA DeleteLaterDoes ==
  ASSUME Typed, NEW q \in Requests, DeleteLater(q)
  PROVE /\ IF Len(job[q].later) = 1 THEN Ends(q)
           ELSE Turns(q, "after", job[q].op, job[q].row, job[q].file, Tail(job[q].later))
        /\ Loses("center_avatars", {Head(job[q].later)}) /\ storage' \in [Folders -> SUBSET Names]
        /\ UNCHANGED <<named, alive, doomed, faults, traffic>>
<1>0. job[q] \in Job /\ job[q].later \in Lists /\ job[q].later # <<>> /\ job[q].phase = "after"
  BY DEF Typed, TypeOK, DeleteLater, Fits, Job
<1>1. CASE Len(job[q].later) = 1
  BY <1>1, JobEnds, WithoutLoses DEF DeleteLater, Folders
<1>2. CASE Len(job[q].later) # 1
  <2>1. Tail(job[q].later) \in Lists
    BY <1>0, <1>2, ListsShrink
  <2>2. Turns(q, "after", job[q].op, job[q].row, job[q].file, Tail(job[q].later))
    BY <1>0, <1>2, <2>1, LaterTurns DEF DeleteLater
  <2> QED BY <1>2, <2>2, WithoutLoses DEF DeleteLater, Folders
<1> QED BY <1>1, <1>2

\* The next one is never the one that was deleted last.
LEMMA VictimsAreAccounts ==
  ASSUME Typed
  PROVE Victims \subseteq Users \cup Centers
  BY DEF Typed, TypeOK, Victims

LEMMA PurgeDoes ==
  ASSUME Typed, NEW q \in Requests, Purge(q)
  PROVE /\ \E r \in Victims : Turns(q, "file", "purge", r, named[r], <<>>)
        /\ doomed' = TRUE
        /\ UNCHANGED <<named, alive, storage, faults, traffic>>
<1>1. PICK r \in Victims : Begin(q, "purge", r, "file", named[r])
  BY DEF Purge
<1>2. Turns(q, "file", "purge", r, named[r], <<>>)
  BY <1>1, VictimsAreAccounts, BeginTurns DEF Typed, TypeOK, Phases, Ops, Rows
<1> QED BY <1>2 DEF Purge

LEMMA PurgeFileDoes ==
  ASSUME Typed, NEW q \in Requests, PurgeFile(q)
  PROVE /\ Turns(q, "row", job[q].op, job[q].row, job[q].file, job[q].later)
        /\ Loses(FolderOf(job[q].row), Some(job[q].file)) /\ storage' \in [Folders -> SUBSET Names]
        /\ UNCHANGED <<named, alive, doomed, faults, traffic>>
  BY PhaseTurns, WithoutLoses, FoldersOfRows DEF PurgeFile, Phases, Typed, Fits

LEMMA PurgeRowDoes ==
  ASSUME Typed, NEW q \in Requests, PurgeRow(q)
  PROVE /\ \/ Ends(q)
           \/ \E r \in Users \cup Centers :
                r # job[q].row /\ Turns(q, "file", "purge", r, named[r], <<>>)
        /\ \A s \in Rows : named'[s] = IF s = job[q].row THEN None ELSE named[s]
        /\ named' \in [Rows -> Names \cup {None}]
        /\ alive' = alive \ {job[q].row}
        /\ UNCHANGED <<storage, doomed, faults, traffic>>
<1>0. job[q] \in Job /\ job[q].row \in Users \cup Centers
  BY DEF Typed, TypeOK, PurgeRow, Fits
<1>1. /\ \A s \in Rows : named'[s] = IF s = job[q].row THEN None ELSE named[s]
      /\ named' \in [Rows -> Names \cup {None}]
      /\ alive' = alive \ {job[q].row}
      /\ UNCHANGED <<storage, doomed, faults, traffic>>
  BY <1>0 DEF PurgeRow, Typed, TypeOK, Rows
<1>2. CASE job[q].row \in Centers
  BY <1>1, <1>2, JobEnds DEF PurgeRow
<1>3. CASE job[q].row \notin Centers
  <2>1. PICK r \in Victims' : Begin(q, "purge", r, "file", named[r])
    BY <1>3 DEF PurgeRow
  <2>2. r \in Users \cup Centers /\ r # job[q].row
    BY <1>0, <1>1, <1>3 DEF Victims, Typed, TypeOK, Rows
  <2>3. Turns(q, "file", "purge", r, named[r], <<>>)
    BY <2>1, <2>2, BeginTurns DEF Typed, TypeOK, Phases, Ops, Rows
  <2> QED BY <1>1, <2>2, <2>3
<1> QED BY <1>2, <1>3

LEMMA FailDoes ==
  ASSUME Typed, NEW q \in Requests, Fail(q)
  PROVE Ends(q) /\ faults' = faults + 1 /\ UNCHANGED <<named, alive, storage, doomed, traffic>>
  BY JobEnds DEF Fail

-----------------------------------------------------------------------------
(* Types, and the files of the tenants.                                    *)

LEMMA TypedAtStart == Init => Typed
<1> SUFFICES ASSUME Init PROVE Typed
  OBVIOUS
<1>1. job \in [Requests -> Job] /\ \A q \in Requests : Fits(job[q])
  BY IdleIsTyped DEF Init
<1>2. named \in [Rows -> Names \cup {None}] /\ alive \subseteq Rows
  BY DEF Init, Rows
<1>3. storage \in [Folders -> SUBSET Names]
  BY DEF Init
<1>4. doomed \in BOOLEAN /\ faults \in 0..MaxFaults /\ traffic \in Traffic
  <2>1. doomed = FALSE /\ faults = 0 /\ traffic \in Traffic
    BY DEF Init
  <2>2. doomed \in BOOLEAN
    BY <2>1, Zenon
  <2>3. faults = 0
    BY <2>1, Zenon
  <2>4. faults \in 0..MaxFaults
    BY <2>3
  <2> QED BY <2>1, <2>2, <2>4, Zenon
<1> QED BY <1>1, <1>2, <1>3, <1>4 DEF Typed, TypeOK

LEMMA TypedKept == ASSUME Typed, [Next]_vars PROVE Typed'
<1>1. CASE UNCHANGED vars
  BY <1>1 DEF vars, Typed, TypeOK
<1>2. ASSUME NEW q \in Requests, RequestStep(q) PROVE Typed'
  <2>0. /\ job[q] \in Job /\ Fits(job[q])
        /\ \A p \in Requests : Fits(job[p])
    BY DEF Typed, TypeOK
  <2>1. ASSUME NEW r \in Rows, NEW op \in {"upload", "replace", "profile", "touch", "dismiss"},
               Load(q, op, r)
        PROVE  Typed'
    <3>1. Fits(job'[q])
      <4>1. /\ job'[q].phase \in {"view", "save"} /\ job'[q].row = r /\ job'[q].op = op
            /\ job'[q].later = <<>>
            /\ job'[q].phase = "view" => op \in {"upload", "dismiss"} /\ r \in Users
        BY <2>1, LoadDoes DEF Turns
      <4>2. op \in Ops /\ (op = "upload" => r \notin Materials) /\ (op = "dismiss" => r \in Users)
        BY <2>1 DEF Load, Ops
      <4> QED BY <4>1, <4>2 DEF Fits
    <3> QED BY <2>0, <2>1, <3>1, LoadDoes DEF Turns, Typed, TypeOK
  <2>2. ASSUME NEW r \in Materials, Create(q, r) PROVE Typed'
    <3>1. Fits(job'[q])
      BY <2>2, CreateDoes DEF Turns, Fits, Ops, Rows
    <3> QED BY <2>0, <2>2, <3>1, CreateDoes DEF Turns, Typed, TypeOK
  <2>3. ASSUME NEW r \in Materials, NEW s \in Materials, Clone(q, r, s) PROVE Typed'
    <3>1. Fits(job'[q])
      BY <2>3, CloneDoes DEF Turns, Fits, Ops, Rows
    <3> QED BY <2>0, <2>3, <3>1, CloneDoes DEF Turns, Typed, TypeOK
  <2>4. CASE ViewDelete(q)
    <3>1. Fits(job'[q])
      BY <2>0, <2>4, ViewDeleteDoes DEF ViewDelete, Turns, Fits
    <3> QED BY <2>0, <2>4, <3>1, ViewDeleteDoes DEF Turns, Typed, TypeOK
  <2>5. CASE ReadOld(q) /\ SaveUser(q)
    <3>1. Fits(job'[q])
      BY <2>0, <2>5, SaveUserDoes, ToStoreIs DEF ReadOld, Carries, Turns, Fits
    <3> QED BY <2>0, <2>5, <3>1, SaveUserDoes DEF Turns, Typed, TypeOK
  <2>6. CASE ReadOld(q) /\ SaveCenter(q)
    <3>1. Fits(job'[q])
      BY <2>0, <2>6, SaveCenterDoes, ToStoreIs DEF ReadOld, SaveCenter, Carries, Turns, Fits
    <3> QED BY <2>0, <2>6, <3>1, SaveCenterDoes DEF Turns, Typed, TypeOK
  <2>7. CASE ReadOld(q) /\ SaveMaterial(q)
    <3>1. Fits(job'[q])
      BY <2>0, <2>7, SaveMaterialDoes, ToStoreIs DEF ReadOld, Carries, Turns, Fits
    <3> QED BY <2>0, <2>7, <3>1, SaveMaterialDoes DEF Turns, Typed, TypeOK
  <2>8. CASE Choose(q)
    <3>1. Fits(job'[q])
      BY <2>0, <2>8, ChooseDoes DEF Choose, Turns, Fits
    <3> QED BY <2>0, <2>8, <3>1, ChooseDoes DEF Turns, Typed, TypeOK
  <2>9. CASE Put(q)
    <3>1. Fits(job'[q])
      BY <2>0, <2>9, PutDoes DEF Put, Turns, Fits
    <3> QED BY <2>0, <2>9, <3>1, PutDoes DEF Turns, Typed, TypeOK
  <2>10. CASE Write(q)
    <3>1. job[q].later # <<>> => Fits(job'[q])
      BY <2>0, <2>10, WriteDoes DEF Write, Turns, Fits
    <3>2. job[q].later = <<>> => Fits(job'[q])
      BY <2>10, WriteDoes, IdleIsTyped DEF Ends
    <3>3. job' \in [Requests -> Job] /\ \A p \in Requests : p # q => job'[p] = job[p]
      BY <2>10, WriteDoes DEF Turns, Ends
    <3>4. alive' \subseteq Rows
      BY <2>0, <2>10, WriteDoes DEF Write, Committed, Typed, TypeOK, Fits
    <3> QED BY <2>0, <2>10, <3>1, <3>2, <3>3, <3>4, WriteDoes DEF Committed, Typed, TypeOK
  <2>11. CASE DeleteLater(q)
    <3>1. Len(job[q].later) # 1 => Fits(job'[q])
      BY <2>0, <2>11, DeleteLaterDoes, ListsShrink, JobFields DEF DeleteLater, Turns, Fits
    <3>2. Len(job[q].later) = 1 => Fits(job'[q])
      BY <2>11, DeleteLaterDoes, IdleIsTyped DEF Ends
    <3>3. job' \in [Requests -> Job] /\ \A p \in Requests : p # q => job'[p] = job[p]
      BY <2>11, DeleteLaterDoes DEF Turns, Ends
    <3> QED BY <2>0, <2>11, <3>1, <3>2, <3>3, DeleteLaterDoes DEF Typed, TypeOK
  <2>12. CASE Purge(q)
    <3>1. Fits(job'[q])
      BY <2>12, PurgeDoes, VictimsAreAccounts DEF Turns, Fits, Ops, Rows
    <3> QED BY <2>0, <2>12, <3>1, PurgeDoes DEF Turns, Typed, TypeOK
  <2>13. CASE PurgeFile(q)
    <3>1. Fits(job'[q])
      BY <2>0, <2>13, PurgeFileDoes DEF PurgeFile, Turns, Fits
    <3> QED BY <2>0, <2>13, <3>1, PurgeFileDoes DEF Turns, Typed, TypeOK
  <2>14. CASE PurgeRow(q)
    <3>1. Fits(job'[q])
      BY <2>14, PurgeRowDoes, IdleIsTyped DEF Ends, Turns, Fits, Ops, Rows
    <3>3. job' \in [Requests -> Job] /\ \A p \in Requests : p # q => job'[p] = job[p]
      BY <2>14, PurgeRowDoes DEF Turns, Ends
    <3> QED BY <2>0, <2>14, <3>1, <3>3, PurgeRowDoes DEF Typed, TypeOK
  <2>15. CASE Fail(q)
    <3>1. Fits(job'[q])
      BY <2>15, FailDoes, IdleIsTyped DEF Ends
    <3>2. faults' \in 0..MaxFaults
      BY <2>15 DEF Fail, Typed, TypeOK
    <3> QED BY <2>0, <2>15, <3>1, <3>2, FailDoes DEF Ends, Turns, Typed, TypeOK
  <2> QED BY <1>2, <2>1, <2>2, <2>3, <2>4, <2>5, <2>6, <2>7, <2>8, <2>9, <2>10, <2>11, <2>12,
             <2>13, <2>14, <2>15 DEF RequestStep, ReadOld
<1>3. ASSUME NEW r \in Materials, Remove(r) PROVE Typed'
  BY <1>3 DEF Remove, Typed, TypeOK
<1> QED BY <1>1, <1>2, <1>3 DEF Next

\* The state and the jobs stay within their types, and what a job holds fits
\* the step it is at: the requests on files of centers/views.py,
\* authentication/views.py and materials/views.py, for any number of them.
THEOREM TypeCorrect == Spec => []TypeOK
<1>1. Typed => TypeOK
  BY DEF Typed
<1> QED BY <1>1, TypedAtStart, TypedKept, PTL DEF Spec

LEMMA TenantsArePlain ==
  /\ \A r \in Materials : FolderOf(r) = "tenants"
  /\ \A r \in Rows : FolderOf(r) = "tenants" => r \in Materials
  /\ \A r \in Users : FolderOf(r) = "avatars"
  /\ \A r \in Centers : FolderOf(r) = "center_avatars"
  /\ \A r \in Rows : r \in Users \/ r \in Centers \/ r \in Materials
  BY DEF FolderOf, Rows

LEMMA TenantFilesKept == ASSUME Typed, TenantFiles, [Next]_vars PROVE TenantFiles'
<1> USE TenantsArePlain DEF TenantFiles
<1>0. None \notin Materials /\ "tenants" \in Folders /\ "center_avatars" \in Folders /\ "avatars" \in Folders
      /\ Materials \subseteq Rows
  BY DEF Rows, Folders
<1>1. CASE UNCHANGED vars
  BY <1>1 DEF vars
<1>2. ASSUME NEW q \in Requests, RequestStep(q) PROVE TenantFiles'
  <2>0. Fits(job[q])
    BY DEF Typed
  <2>1. ASSUME NEW r \in Rows, NEW op \in {"upload", "replace", "profile", "touch", "dismiss"},
               Load(q, op, r)
        PROVE  TenantFiles'
    BY <2>1, LoadDoes DEF Turns
  <2>2. ASSUME NEW r \in Materials, Create(q, r) PROVE TenantFiles'
    BY <2>2, CreateDoes DEF Turns
  <2>3. ASSUME NEW r \in Materials, NEW s \in Materials, Clone(q, r, s) PROVE TenantFiles'
    BY <2>3, CloneDoes DEF Turns
  <2>4. CASE ViewDelete(q)
    BY <1>0, <2>4, ViewDeleteDoes DEF Turns, Loses
  <2>5. CASE ReadOld(q) /\ SaveUser(q)
    BY <1>0, <2>5, SaveUserDoes DEF Turns, Loses, SaveUser
  <2>6. CASE ReadOld(q) /\ SaveCenter(q)
    BY <1>0, <2>6, SaveCenterDoes DEF Turns, SaveCenter
  <2>7. CASE ReadOld(q) /\ SaveMaterial(q)
    BY <1>0, <2>7, SaveMaterialDoes DEF Turns, ReadOld
  <2>8. CASE Choose(q)
    BY <2>8, ChooseDoes DEF Turns
  <2>9. CASE Put(q)
    <3>1. job[q].row \in Rows /\ job[q].phase = "put"
      BY <2>0, <2>9 DEF Put, Fits
    <3>2. \A f \in Folders : storage[f] \subseteq storage'[f]
      BY <2>9, PutDoes
    <3>3. job[q].row \in Materials => job[q].file \in storage'["tenants"]
      <4>1. storage'["tenants"] = IF "tenants" = FolderOf(job[q].row) THEN storage["tenants"] \cup {job[q].file}
                                  ELSE storage["tenants"]
        BY <1>0, <2>9, PutDoes
      <4> QED BY <4>1
    <3>4. \A p \in Requests : job'[p].row = job[p].row /\ job'[p].file = job[p].file
      BY <2>9, PutDoes DEF Turns
    <3>5. \A p \in Requests : p # q => job'[p] = job[p]
      BY <2>9, PutDoes DEF Turns
    <3> QED BY <1>0, <2>9, <3>1, <3>2, <3>3, <3>4, <3>5, PutDoes
  <2>10. CASE Write(q)
    <3>1. \A s \in Materials : named'[s] = named[s] \/ (s = job[q].row /\ named'[s] = job[q].file)
      BY <1>0, <2>10, WriteDoes DEF Committed
    <3>2. \A p \in Requests : job'[p].row = None \/ (job'[p].row = job[p].row /\ job'[p].file = job[p].file)
      BY <2>10, WriteDoes DEF Turns, Ends
    <3>3. \A p \in Requests : p = q \/ job'[p] = job[p]
      BY <2>10, WriteDoes DEF Turns, Ends
    <3>4. job[q].phase = "write" /\ storage' = storage
      BY <2>10, WriteDoes DEF Write
    <3>5. \A s \in Materials : named'[s] # None => named'[s] \in storage'["tenants"]
      BY <1>0, <3>1, <3>4
    <3>6. \A p \in Requests : job'[p].row \in Materials /\ job'[p].phase # "put" /\ job'[p].file # None
             => job'[p].file \in storage'["tenants"]
      BY <1>0, <3>2, <3>3, <3>4
    <3> QED BY <3>5, <3>6
  <2>11. CASE DeleteLater(q)
    <3>1. \A p \in Requests : job'[p].row = None \/ (job'[p].row = job[p].row /\ job'[p].file = job[p].file)
      BY <2>11, DeleteLaterDoes DEF Turns, Ends
    <3>2. \A p \in Requests : p = q \/ job'[p] = job[p]
      BY <2>11, DeleteLaterDoes DEF Turns, Ends
    <3>3. job[q].phase = "after" /\ storage'["tenants"] = storage["tenants"] /\ named' = named
      BY <1>0, <2>11, DeleteLaterDoes DEF DeleteLater, Loses
    <3> QED BY <1>0, <3>1, <3>2, <3>3
  <2>12. CASE Purge(q)
    <3>1. job'[q].row \notin Materials /\ \A p \in Requests : p # q => job'[p] = job[p]
      BY <2>12, PurgeDoes, VictimsAreAccounts DEF Turns
    <3> QED BY <2>12, <3>1, PurgeDoes
  <2>13. CASE PurgeFile(q)
    <3>1. job[q].row \in Users \cup Centers
      BY <2>0, <2>13 DEF PurgeFile, Fits
    <3>2. job'[q].row \notin Materials /\ \A p \in Requests : p # q => job'[p] = job[p]
      BY <2>13, <3>1, PurgeFileDoes DEF Turns
    <3>3. storage'["tenants"] = storage["tenants"]
      BY <1>0, <2>13, <3>1, PurgeFileDoes DEF Loses
    <3> QED BY <2>13, <3>2, <3>3, PurgeFileDoes
  <2>14. CASE PurgeRow(q)
    <3>1. job[q].row \in Users \cup Centers
      BY <2>0, <2>14 DEF PurgeRow, Fits
    <3>2. job'[q].row \notin Materials /\ \A p \in Requests : p # q => job'[p] = job[p]
      BY <1>0, <2>14, PurgeRowDoes DEF Turns, Ends
    <3>3. \A s \in Materials : named'[s] = named[s]
      BY <1>0, <2>14, <3>1, PurgeRowDoes
    <3> QED BY <2>14, <3>2, <3>3, PurgeRowDoes
  <2>15. CASE Fail(q)
    BY <1>0, <2>15, FailDoes DEF Turns, Ends
  <2> QED BY <1>2, <2>1, <2>2, <2>3, <2>4, <2>5, <2>6, <2>7, <2>8, <2>9, <2>10, <2>11, <2>12,
             <2>13, <2>14, <2>15 DEF RequestStep, ReadOld
<1>3. ASSUME NEW r \in Materials, Remove(r) PROVE TenantFiles'
  BY <1>3 DEF Remove
<1> QED BY <1>1, <1>2, <1>3 DEF Next

-----------------------------------------------------------------------------
(* A folder whose requests come one by one.                                *)

LEMMA AdmissibleKept == ASSUME Typed, Admissible, [Next]_vars PROVE Admissible'
<1> USE DEF Admissible
<1>0. None \notin Ops /\ "purge" \in Ops
  BY DEF Ops
<1>1. CASE UNCHANGED vars
  BY <1>1 DEF vars
<1>2. ASSUME NEW q \in Requests, RequestStep(q) PROVE Admissible'
  <2>0. Fits(job[q])
    BY DEF Typed
  <2>1. ASSUME NEW r \in Rows, NEW op \in {"upload", "replace", "profile", "touch", "dismiss"},
               Load(q, op, r)
        PROVE  Admissible'
    BY <2>1, LoadDoes DEF Turns, Load, Admitted
  <2>2. ASSUME NEW r \in Materials, Create(q, r) PROVE Admissible'
    BY <2>2, CreateDoes DEF Turns, Create, Admitted
  <2>3. ASSUME NEW r \in Materials, NEW s \in Materials, Clone(q, r, s) PROVE Admissible'
    BY <2>3, CloneDoes DEF Turns, Clone, Admitted
  <2>4. CASE ViewDelete(q)
    BY <2>4, ViewDeleteDoes DEF Turns
  <2>5. CASE ReadOld(q) /\ SaveUser(q)
    BY <2>5, SaveUserDoes DEF Turns
  <2>6. CASE ReadOld(q) /\ SaveCenter(q)
    BY <2>6, SaveCenterDoes DEF Turns
  <2>7. CASE ReadOld(q) /\ SaveMaterial(q)
    BY <2>7, SaveMaterialDoes DEF Turns
  <2>8. CASE Choose(q)
    BY <2>8, ChooseDoes DEF Turns
  <2>9. CASE Put(q)
    BY <2>9, PutDoes DEF Turns
  <2>10. CASE Write(q)
    BY <1>0, <2>10, WriteDoes DEF Turns, Ends
  <2>11. CASE DeleteLater(q)
    <3>1. \A p \in Requests : job'[p].op \in {None, job[p].op}
      BY <2>11, DeleteLaterDoes DEF Turns, Ends
    <3>2. traffic' = traffic /\ doomed' = doomed
      BY <2>11, DeleteLaterDoes
    <3> QED BY <1>0, <3>1, <3>2
  <2>12. CASE Purge(q)
    BY <2>12, PurgeDoes DEF Turns, Purge, Admitted
  <2>13. CASE PurgeFile(q)
    BY <2>13, PurgeFileDoes DEF Turns
  <2>14. CASE PurgeRow(q)
    BY <1>0, <2>0, <2>14, PurgeRowDoes DEF PurgeRow, Turns, Ends, Fits
  <2>15. CASE Fail(q)
    BY <1>0, <2>15, FailDoes DEF Turns, Ends
  <2> QED BY <1>2, <2>1, <2>2, <2>3, <2>4, <2>5, <2>6, <2>7, <2>8, <2>9, <2>10, <2>11, <2>12,
             <2>13, <2>14, <2>15 DEF RequestStep, ReadOld
<1>3. ASSUME NEW r \in Materials, Remove(r) PROVE Admissible'
  BY <1>3 DEF Remove
<1> QED BY <1>1, <1>2, <1>3 DEF Next

\* A job that was not at work on a folder gets to work on it only when nobody is.
OnlyOwnWork == traffic' = traffic /\ \A q \in Requests, f \in Folders : At(q, f)' => At(q, f)

LEMMA OwnWorkIsOneByOne == ASSUME OneByOne, OnlyOwnWork PROVE OneByOne'
  BY DEF OneByOne, OnlyOwnWork, Avatars, Folders

LEMMA OneByOneKept == ASSUME Typed, OneByOne, [Next]_vars PROVE OneByOne'
<1> USE TenantsArePlain, OwnWorkIsOneByOne
<1>0. "purge" \in Ops /\ Materials \subseteq Rows
  BY DEF Ops, Rows
<1>1. CASE UNCHANGED vars
  BY <1>1 DEF vars, OneByOne, At
<1>2. ASSUME NEW q \in Requests, RequestStep(q) PROVE OneByOne'
  <2>0. Fits(job[q])
    BY DEF Typed
  <2>1. ASSUME NEW r \in Rows, NEW op \in {"upload", "replace", "profile", "touch", "dismiss"},
               Load(q, op, r)
        PROVE  OneByOne'
    <3>1. /\ \A p \in Requests, f \in Avatars : p # q => (At(p, f)' <=> At(p, f))
          /\ \A f \in Avatars : At(q, f)' => f = FolderOf(r)
          /\ traffic' = traffic
      BY <2>1, LoadDoes DEF Turns, At
    <3>2. \A f \in Avatars \cap traffic.alone : f = FolderOf(r) => \A p \in Requests : ~At(p, f)
      BY <2>1 DEF Load, Admitted, Quiet, At
    <3> QED BY <3>1, <3>2 DEF OneByOne
  <2>2. ASSUME NEW r \in Materials, Create(q, r) PROVE OneByOne'
    BY <1>0, <2>2, CreateDoes DEF Turns, At, OneByOne, Avatars
  <2>3. ASSUME NEW r \in Materials, NEW s \in Materials, Clone(q, r, s) PROVE OneByOne'
    BY <1>0, <2>3, CloneDoes DEF Turns, At, OneByOne, Avatars
  <2>4. CASE ViewDelete(q)
    BY <2>4, ViewDeleteDoes DEF Turns, OnlyOwnWork, At, ViewDelete
  <2>5. CASE ReadOld(q) /\ SaveUser(q)
    BY <2>5, SaveUserDoes DEF Turns, OnlyOwnWork, At, ReadOld
  <2>6. CASE ReadOld(q) /\ SaveCenter(q)
    BY <2>6, SaveCenterDoes DEF Turns, OnlyOwnWork, At, ReadOld
  <2>7. CASE ReadOld(q) /\ SaveMaterial(q)
    BY <2>7, SaveMaterialDoes DEF Turns, OnlyOwnWork, At, ReadOld
  <2>8. CASE Choose(q)
    BY <2>8, ChooseDoes DEF Turns, OnlyOwnWork, At, Choose
  <2>9. CASE Put(q)
    BY <2>9, PutDoes DEF Turns, OnlyOwnWork, At, Put
  <2>10. CASE Write(q)
    BY <2>10, WriteDoes DEF Turns, Ends, OnlyOwnWork, At, Write
  <2>11. CASE DeleteLater(q)
    BY <2>11, DeleteLaterDoes DEF Turns, Ends, OnlyOwnWork, At, DeleteLater
  <2>12. CASE Purge(q)
    <3>1. /\ \A p \in Requests, f \in Avatars : p # q => (At(p, f)' <=> At(p, f))
          /\ traffic' = traffic
      BY <2>12, PurgeDoes DEF Turns, At
    <3>2. \A f \in Avatars \cap traffic.alone : \A p \in Requests : ~At(p, f)
      BY <2>12 DEF Purge, Admitted, Quiet, At, Avatars
    <3> QED BY <3>1, <3>2 DEF OneByOne
  <2>13. CASE PurgeFile(q)
    BY <2>13, PurgeFileDoes DEF Turns, OnlyOwnWork, At, PurgeFile
  <2>14. CASE PurgeRow(q)
    <3>1. job[q].op = "purge" /\ job[q].phase # "idle"
      BY <2>0, <2>14 DEF PurgeRow, Fits
    <3>2. \A p \in Requests : p # q => job'[p] = job[p]
      BY <2>14, PurgeRowDoes DEF Turns, Ends
    <3> QED BY <2>14, <3>1, <3>2, PurgeRowDoes DEF OnlyOwnWork, At
  <2>15. CASE Fail(q)
    BY <2>15, FailDoes DEF Turns, Ends, OnlyOwnWork, At
  <2> QED BY <1>2, <2>1, <2>2, <2>3, <2>4, <2>5, <2>6, <2>7, <2>8, <2>9, <2>10, <2>11, <2>12,
             <2>13, <2>14, <2>15 DEF RequestStep, ReadOld
<1>3. ASSUME NEW r \in Materials, Remove(r) PROVE OneByOne'
  BY <1>3 DEF Remove, OneByOne, At
<1> QED BY <1>1, <1>2, <1>3 DEF Next

\* The step leaves folder f alone: its files, its rows and the jobs on it.
Untouched(f) ==
  /\ traffic' = traffic /\ (Guarded(f)' => Guarded(f)) /\ (faults' = 0 => faults = 0)
  /\ storage'[f] = storage[f]
  /\ \A r \in Rows : FolderOf(r) = f => named'[r] = named[r] /\ (r \in alive' <=> r \in alive)
  /\ \A p \in Requests : At(p, f) \/ At(p, f)' => job'[p] = job[p]

LEMMA UntouchedKeepsCurrent ==
  ASSUME Typed, Typed', NEW f \in Avatars, Untouched(f), CurrentIn(f)
  PROVE CurrentIn(f)'
<1> SUFFICES ASSUME NEW q \in Requests, Works(q, f)'
             PROVE  /\ job'[q].op # "purge" => job'[q].row \in alive'
                    /\ job'[q].op \in {"profile", "touch"} \/ job'[q].phase \in {"view", "file"}
                         => job'[q].file = named'[job'[q].row]
                    /\ job'[q].phase = "save" => job'[q].file \in {None, named'[job'[q].row]}
  BY DEF CurrentIn
<1>1. job'[q] = job[q]
  BY DEF Untouched, Works, At
<1>2. Works(q, f) /\ job[q].row \in Rows /\ FolderOf(job[q].row) = f
  BY <1>1 DEF Works, Typed, Fits
<1> QED BY <1>1, <1>2 DEF CurrentIn, Untouched

\* The jobs of the rows of f are the same.
LEMMA UntouchedJobs ==
  ASSUME Typed, Typed', NEW f \in Avatars, Untouched(f), NEW p \in Requests, NEW r \in Rows,
         FolderOf(r) = f, job[p].row = r \/ job'[p].row = r
  PROVE job'[p] = job[p]
<1>1. None \notin Rows /\ Idle.row = None
  BY DEF Idle
<1>2. At(p, f) \/ At(p, f)'
  BY <1>1 DEF At, Typed, Fits
<1> QED BY <1>2 DEF Untouched

LEMMA UntouchedKeepsFiles ==
  ASSUME Typed, Typed', NEW f \in Avatars, Untouched(f), FilesIn(f)
  PROVE FilesIn(f)'
<1>1. /\ \A r \in Rows : Has(r, f)' => Has(r, f) /\ named'[r] = named[r]
      /\ \A q \in Requests : Works(q, f)' => Works(q, f) /\ job'[q] = job[q]
  BY DEF Untouched, Has, Works, At
<1>2. Distinct(f)'
  BY <1>1 DEF Distinct, FilesIn
<1>3. Present(f)'
  <2> SUFFICES ASSUME NEW r \in Rows, Has(r, f)', named'[r] # None
               PROVE  named'[r] \in storage'[f] \/ \E q \in Requests : Rewrites(q, r)'
    BY DEF Present
  <2>1. CASE named[r] \in storage[f]
    BY <1>1, <2>1 DEF Untouched
  <2>2. ASSUME NEW q \in Requests, Rewrites(q, r) PROVE Rewrites(q, r)'
    <3>1. job'[q] = job[q]
      BY <1>1, <2>2, UntouchedJobs DEF Rewrites, Has
    <3> QED BY <2>2, <3>1 DEF Rewrites
  <2> QED BY <1>1, <2>1, <2>2 DEF Present, FilesIn
<1>4. NewFiles(f)'
  BY <1>1 DEF NewFiles, FilesIn, Carries, Untouched
<1>5. LateFiles(f)'
  <2>1. \A q \in Requests : Works(q, f)' => job[q].row \in Rows /\ named'[job[q].row] = named[job[q].row]
    BY <1>1 DEF Works, Typed, Fits, Untouched
  <2> QED BY <1>1, <2>1 DEF LateFiles, FilesIn, Listed, Carries
<1> QED BY <1>2, <1>3, <1>4, <1>5 DEF FilesIn

LEMMA UntouchedKeepsAccounts ==
  ASSUME Typed, Typed', NEW f \in Avatars, Untouched(f), AccountedIn(f)
  PROVE AccountedIn(f)'
<1> SUFFICES ASSUME NEW n \in storage[f] PROVE Needed(n, f)'
  BY DEF AccountedIn, Untouched
<1>1. CASE \E r \in Rows : Has(r, f) /\ named[r] = n /\ Kept(r)
  <2>1. PICK r \in Rows : Has(r, f) /\ named[r] = n /\ Kept(r)
    BY <1>1
  <2>2. Has(r, f)' /\ named'[r] = n
    BY <2>1 DEF Has, Untouched
  <2>3. ASSUME NEW q \in Requests, Freed(q)', job'[q].row = r PROVE FALSE
    <3>1. job'[q] = job[q]
      BY <2>1, <2>3, UntouchedJobs DEF Has
    <3> QED BY <2>1, <2>3, <3>1 DEF Freed, Kept, Carries
  <2>4. Kept(r)'
    BY <2>3 DEF Kept
  <2> QED BY <2>2, <2>4 DEF Needed
<1>2. CASE \E q \in Requests : Works(q, f) /\ Carries(q) /\ job[q].phase = "write" /\ job[q].file = n
  BY <1>2 DEF Needed, Untouched, Works, At, Carries
<1>3. CASE \E q \in Requests : Works(q, f) /\ Listed(q, n)
  BY <1>3 DEF Needed, Untouched, Works, At, Listed
<1> QED BY <1>1, <1>2, <1>3 DEF AccountedIn, Needed

\* A step of a job that is not at work on f, neither before nor after.
LEMMA StepsAside ==
  ASSUME Typed, NEW f \in Avatars, NEW q \in Requests, RequestStep(q), ~At(q, f), ~At(q, f)'
  PROVE Untouched(f)
<1> USE TenantsArePlain
<1>0. /\ Fits(job[q]) /\ f \in Folders /\ f # "tenants" /\ Materials \subseteq Rows /\ Users \subseteq Rows
      /\ Centers \subseteq Rows
      /\ "avatars" \in Folders /\ "center_avatars" \in Folders
      /\ faults \in Nat
  BY DEF Typed, TypeOK, Avatars, Folders, Rows
<1>1. ASSUME NEW r \in Rows, NEW op \in {"upload", "replace", "profile", "touch", "dismiss"},
             Load(q, op, r)
      PROVE  Untouched(f)
  BY <1>1, LoadDoes DEF Turns, Untouched, Guarded
<1>2. ASSUME NEW r \in Materials, Create(q, r) PROVE Untouched(f)
  BY <1>2, CreateDoes DEF Turns, Untouched, Guarded
<1>3. ASSUME NEW r \in Materials, NEW s \in Materials, Clone(q, r, s) PROVE Untouched(f)
  BY <1>3, CloneDoes DEF Turns, Untouched, Guarded
<1>4. CASE ViewDelete(q)
  <2>1. job[q].phase = "view" /\ job[q].row \in Users
    BY <1>0, <1>4 DEF ViewDelete, Fits
  <2>2. f # "avatars"
    BY <2>1 DEF At
  <2>3. storage'[f] = storage[f]
    BY <1>0, <1>4, <2>2, ViewDeleteDoes DEF Loses
  <2> QED BY <1>4, <2>3, ViewDeleteDoes DEF Turns, Untouched, Guarded
<1>5. CASE ReadOld(q) /\ SaveUser(q)
  <2>1. f # "avatars"
    BY <1>5 DEF ReadOld, SaveUser, At
  <2>2. storage'[f] = storage[f]
    BY <1>0, <1>5, <2>1, SaveUserDoes DEF Loses
  <2> QED BY <1>5, <2>2, SaveUserDoes DEF Turns, Untouched, Guarded
<1>6. CASE ReadOld(q) /\ SaveCenter(q)
  BY <1>6, SaveCenterDoes DEF Turns, Untouched, Guarded
<1>7. CASE ReadOld(q) /\ SaveMaterial(q)
  BY <1>7, SaveMaterialDoes DEF Turns, Untouched, Guarded
<1>8. CASE Choose(q)
  BY <1>8, ChooseDoes DEF Turns, Untouched, Guarded
<1>9. CASE Put(q)
  <2>1. f # FolderOf(job[q].row)
    BY <1>9 DEF Put, At
  <2>2. storage'[f] = storage[f]
    BY <1>0, <1>9, <2>1, PutDoes
  <2> QED BY <1>9, <2>2, PutDoes DEF Turns, Untouched, Guarded
<1>10. CASE Write(q)
  <2>1. f # FolderOf(job[q].row) /\ job[q].row \in Rows
    BY <1>0, <1>10 DEF Write, At, Fits
  <2>2. \A r \in Rows : FolderOf(r) = f => named'[r] = named[r] /\ (r \in alive' <=> r \in alive)
    BY <1>10, <2>1, WriteDoes DEF Committed
  <2>3. \A p \in Requests : p # q => job'[p] = job[p]
    BY <1>10, WriteDoes DEF Turns, Ends
  <2>4. UNCHANGED <<storage, doomed, faults, traffic>>
    BY <1>10, WriteDoes
  <2> QED BY <2>2, <2>3, <2>4 DEF Untouched, Guarded
<1>11. CASE DeleteLater(q)
  <2>1. f # "center_avatars"
    BY <1>0, <1>11 DEF DeleteLater, At, Fits
  <2>2. storage'[f] = storage[f]
    BY <1>0, <1>11, <2>1, DeleteLaterDoes DEF Loses
  <2>3. \A p \in Requests : p # q => job'[p] = job[p]
    BY <1>11, DeleteLaterDoes DEF Turns, Ends
  <2>4. UNCHANGED <<named, alive, doomed, faults, traffic>>
    BY <1>11, DeleteLaterDoes
  <2> QED BY <2>2, <2>3, <2>4 DEF Untouched, Guarded
<1>12. CASE Purge(q)
  BY <1>12, PurgeDoes DEF Turns, At
<1>13. CASE PurgeFile(q)
  BY <1>0, <1>13 DEF PurgeFile, At, Fits
<1>14. CASE PurgeRow(q)
  BY <1>0, <1>14 DEF PurgeRow, At, Fits
<1>15. CASE Fail(q)
  BY <1>0, <1>15, FailDoes DEF Turns, Ends, Untouched, Guarded
<1> QED BY <1>1, <1>2, <1>3, <1>4, <1>5, <1>6, <1>7, <1>8, <1>9, <1>10, <1>11, <1>12,
           <1>13, <1>14, <1>15 DEF RequestStep, ReadOld

LEMMA RemoveIsAside == ASSUME Typed, NEW f \in Avatars, NEW r \in Materials, Remove(r) PROVE Untouched(f)
  BY TenantsArePlain DEF Remove, Untouched, Guarded, Avatars, Typed, TypeOK

LEMMA StutterIsAside == ASSUME NEW f \in Avatars, UNCHANGED vars PROVE Untouched(f)
  BY DEF vars, Untouched, Guarded

\* A step of the one job that is at work on f, before or after.
Alone(q, f) == \A p \in Requests : p # q => ~At(p, f)

LEMMA AtWorkIsAlone ==
  ASSUME Typed, Typed', OneByOne, OneByOne', NEW q \in Requests, RequestStep(q),
         NEW f \in traffic.alone \cap Avatars, At(q, f) \/ At(q, f)'
  PROVE Alone(q, f) /\ Alone(q, f)' /\ \A p \in Requests : p # q => job'[p] = job[p]
<1>1. traffic' = traffic /\ \A p \in Requests : p # q => job'[p] = job[p]
  <2>1. job \in [Requests -> Job]
    BY DEF Typed, TypeOK
  <2>2. ASSUME NEW r \in Rows, NEW op \in {"upload", "replace", "profile", "touch", "dismiss"},
               Load(q, op, r)
        PROVE  <1>1!1 /\ <1>1!2
    BY <2>2, LoadDoes DEF Turns
  <2>3. ASSUME NEW r \in Materials, Create(q, r) PROVE <1>1!1 /\ <1>1!2
    BY <2>3, CreateDoes DEF Turns
  <2>4. ASSUME NEW r \in Materials, NEW s \in Materials, Clone(q, r, s) PROVE <1>1!1 /\ <1>1!2
    BY <2>4, CloneDoes DEF Turns
  <2>5. CASE Purge(q)
    BY <2>5, PurgeDoes DEF Turns
  <2>6. CASE PurgeRow(q)
    BY <2>6, PurgeRowDoes DEF Turns, Ends
  <2>7. CASE Write(q)
    BY <2>7, WriteDoes DEF Turns, Ends
  <2>8. CASE DeleteLater(q)
    BY <2>8, DeleteLaterDoes DEF Turns, Ends
  <2>9. CASE Fail(q)
    BY <2>9, FailDoes DEF Turns, Ends
  <2>10. CASE ViewDelete(q)
    BY <2>10, ViewDeleteDoes DEF Turns
  <2>11. CASE ReadOld(q)
    BY <2>11, SaveUserDoes, SaveCenterDoes, SaveMaterialDoes DEF Turns, ReadOld
  <2>12. CASE Choose(q)
    BY <2>12, ChooseDoes DEF Turns
  <2>13. CASE Put(q)
    BY <2>13, PutDoes DEF Turns
  <2>14. CASE PurgeFile(q)
    BY <2>14, PurgeFileDoes DEF Turns
  <2> QED BY <2>2, <2>3, <2>4, <2>5, <2>6, <2>7, <2>8, <2>9, <2>10, <2>11, <2>12, <2>13, <2>14
          DEF RequestStep
<1>2. \A p \in Requests : p # q => (At(p, f) <=> At(p, f)')
  BY <1>1 DEF At
<1> QED BY <1>1, <1>2 DEF OneByOne, Alone

-----------------------------------------------------------------------------
(* The invariants of such a folder, step by step.                          *)

LEMMA CurrentKept ==
  ASSUME Typed, Typed', OneByOne, OneByOne', Current, [Next]_vars
  PROVE Current'
<1> USE TenantsArePlain
<1>1. SUFFICES ASSUME NEW f \in traffic.alone \cap Avatars PROVE CurrentIn(f)'
  <2>1. traffic' = traffic
    BY DEF Next, vars, RequestStep, Load, Create, Clone, ViewDelete, ReadOld, Choose, Put, Write,
           DeleteLater, Purge, PurgeFile, PurgeRow, Fail, Remove
  <2> QED BY <2>1 DEF Current, CurrentIn
<1>2. CurrentIn(f)
  BY DEF Current
<1>3. CASE UNCHANGED vars \/ \E r \in Materials : Remove(r)
  BY <1>2, <1>3, StutterIsAside, RemoveIsAside, UntouchedKeepsCurrent
<1>4. ASSUME NEW q \in Requests, RequestStep(q) PROVE CurrentIn(f)'
  <2>1. CASE ~At(q, f) /\ ~At(q, f)'
    BY <1>2, <1>4, <2>1, StepsAside, UntouchedKeepsCurrent
  <2>2. CASE At(q, f) \/ At(q, f)'
    <3>1. Alone(q, f)' /\ Fits(job[q]) /\ f \in Avatars
      BY <1>4, <2>2, AtWorkIsAlone DEF Typed
    <3> DEFINE Good == Works(q, f)' =>
                  /\ job'[q].op # "purge" => job'[q].row \in alive'
                  /\ job'[q].op \in {"profile", "touch"} \/ job'[q].phase \in {"view", "file"}
                       => job'[q].file = named'[job'[q].row]
                  /\ job'[q].phase = "save" => job'[q].file \in {None, named'[job'[q].row]}
    <3>2. SUFFICES Good
      BY <3>1 DEF CurrentIn, Alone, Works, At
    <3>3. ASSUME NEW r \in Rows, NEW op \in {"upload", "replace", "profile", "touch", "dismiss"},
                 Load(q, op, r)
          PROVE  Good
      <4>1. job'[q].row = r /\ job'[q].file = named[r] /\ named' = named /\ alive' = alive
        BY <3>3, LoadDoes DEF Turns
      <4>2. r \in alive
        BY <3>3 DEF Load
      <4> QED BY <4>1, <4>2
    <3>4. ASSUME NEW r \in Materials, Create(q, r) PROVE Good
      BY <3>1, <3>4, CreateDoes DEF Turns, Works, Avatars
    <3>5. ASSUME NEW r \in Materials, NEW s \in Materials, Clone(q, r, s) PROVE Good
      BY <3>1, <3>5, CloneDoes DEF Turns, Works, Avatars
    <3>6. CASE ViewDelete(q)
      BY <1>2, <3>1, <3>6, ViewDeleteDoes DEF Turns, CurrentIn, Works, ViewDelete, Fits
    <3>7. CASE ReadOld(q) /\ SaveUser(q)
      BY <1>2, <3>7, ToStoreIs, SaveUserDoes DEF Turns, CurrentIn, Works, ReadOld
    <3>8. CASE ReadOld(q) /\ SaveCenter(q)
      BY <1>2, <3>8, ToStoreIs, SaveCenterDoes DEF Turns, CurrentIn, Works, ReadOld
    <3>9. CASE ReadOld(q) /\ SaveMaterial(q)
      BY <3>1, <3>9, SaveMaterialDoes DEF Turns, Works, SaveMaterial, Avatars
    <3>10. CASE Choose(q)
      BY <1>2, <3>1, <3>10, ChooseDoes DEF Turns, CurrentIn, Works, Choose, Fits
    <3>11. CASE Put(q)
      BY <1>2, <3>1, <3>11, PutDoes DEF Turns, CurrentIn, Works, Put
    <3>12. CASE Write(q)
      <4>1. CASE job[q].later = <<>>
        BY <3>12, <4>1, WriteDoes DEF Ends, Turns, Works
      <4>2. CASE job[q].later # <<>>
        <5>1. /\ job'[q].phase = "after" /\ job'[q].op = job[q].op /\ job'[q].row = job[q].row
              /\ job'[q].file = job[q].file
          BY <3>12, <4>2, WriteDoes DEF Turns
        <5>2. job[q].row \in Rows /\ job[q].op \notin {"purge", "dismiss"}
          BY <3>1, <3>12, <4>2 DEF Write, Fits, Rows
        <5>3. Works(q, f)' => Works(q, f)
          BY <3>12, <5>1 DEF Works, Write
        <5>4. Works(q, f)' => job'[q].row \in alive'
          BY <1>2, <3>12, <5>1, <5>2, <5>3, WriteDoes DEF CurrentIn, Committed
        <5>5. Works(q, f)' /\ job'[q].op \in {"profile", "touch"} => job'[q].file = named'[job'[q].row]
          BY <1>2, <3>12, <5>1, <5>2, <5>3, WriteDoes DEF CurrentIn, Committed
        <5> QED BY <5>1, <5>4, <5>5
      <4> QED BY <4>1, <4>2
    <3>13. CASE DeleteLater(q)
      <4>1. CASE Len(job[q].later) = 1
        BY <3>13, <4>1, DeleteLaterDoes DEF Ends, Turns, Works
      <4>2. CASE Len(job[q].later) # 1
        BY <1>2, <3>13, <4>2, DeleteLaterDoes DEF Turns, CurrentIn, Works, DeleteLater
      <4> QED BY <4>1, <4>2
    <3>14. CASE Purge(q)
      BY <3>14, PurgeDoes DEF Turns
    <3>15. CASE PurgeFile(q)
      BY <3>1, <3>15, PurgeFileDoes DEF Turns, PurgeFile, Fits
    <3>16. CASE PurgeRow(q)
      <4>1. CASE Ends(q)
        BY <4>1 DEF Ends, Turns, Works
      <4>2. CASE ~Ends(q)
        <5>1. PICK r \in Users \cup Centers : r # job[q].row /\ Turns(q, "file", "purge", r, named[r], <<>>)
          BY <3>16, <4>2, PurgeRowDoes
        <5>2. named'[r] = named[r]
          BY <3>16, <5>1, PurgeRowDoes DEF Rows
        <5> QED BY <5>1, <5>2 DEF Turns
      <4> QED BY <4>1, <4>2
    <3>17. CASE Fail(q)
      BY <3>17, FailDoes DEF Ends, Turns, Works
    <3> HIDE DEF Good
    <3> QED BY <1>4, <3>3, <3>4, <3>5, <3>6, <3>7, <3>8, <3>9, <3>10, <3>11, <3>12, <3>13, <3>14,
               <3>15, <3>16, <3>17 DEF RequestStep, ReadOld
  <2> QED BY <2>1, <2>2
<1> QED BY <1>3, <1>4 DEF Next

LEMMA GoneAreNamelessKept ==
  ASSUME Typed, Admissible, Current, GoneAreNameless, [Next]_vars
  PROVE GoneAreNameless'
<1> USE TenantsArePlain
<1>0. traffic' = traffic /\ Users \subseteq Rows
  BY DEF Next, vars, RequestStep, Load, Create, Clone, ViewDelete, ReadOld, Choose, Put, Write,
         DeleteLater, Purge, PurgeFile, PurgeRow, Fail, Remove, Rows
<1>1. CASE UNCHANGED <<named, alive>>
  BY <1>0, <1>1 DEF GoneAreNameless
<1>2. ASSUME NEW r \in Materials, Remove(r) PROVE GoneAreNameless'
  BY <1>0, <1>2 DEF GoneAreNameless, Remove
<1>3. ASSUME NEW q \in Requests, Write(q) PROVE GoneAreNameless'
  <2> SUFFICES ASSUME "avatars" \in traffic.alone, "dismiss" \notin traffic.ops,
                      NEW r \in Users \ alive'
               PROVE  named'[r] = None
    BY <1>0 DEF GoneAreNameless
  <2>1. job[q].op \in Ops /\ job[q].op # "dismiss" /\ job[q].op # "purge" /\ job[q].phase = "write"
    BY <1>3 DEF Write, Admissible, Typed, Fits, Ops
  <2>2. alive \subseteq alive'
    BY <1>3, <2>1, WriteDoes DEF Committed
  <2>3. CASE job[q].row \in Users
    <3>1. Works(q, "avatars")
      BY <2>1, <2>3 DEF Works
    <3>2. job[q].row \in alive
      BY <2>1, <3>1 DEF Current, CurrentIn, Avatars
    <3> QED BY <1>0, <1>3, <2>2, <3>2, WriteDoes DEF Committed, GoneAreNameless
  <2>4. CASE job[q].row \notin Users
    BY <1>0, <1>3, <2>2, <2>4, WriteDoes DEF Committed, GoneAreNameless
  <2> QED BY <2>3, <2>4
<1>4. ASSUME NEW q \in Requests, PurgeRow(q) PROVE GoneAreNameless'
  BY <1>0, <1>4, PurgeRowDoes DEF GoneAreNameless
<1> QED BY <1>1, <1>2, <1>3, <1>4 DEF Next, vars, RequestStep, Load, Create, Clone, ViewDelete, ReadOld,
           Choose, Put, DeleteLater, Purge, PurgeFile, Fail

\* The state of a folder whose one job is q.
OneJob(q, f) ==
  /\ Typed /\ Typed' /\ q \in Requests /\ f \in Avatars /\ Alone(q, f) /\ Alone(q, f)'
  /\ \A p \in Requests : p # q => job'[p] = job[p]
  /\ CurrentIn(f)

\* Only q rewrites a row of f.
LEMMA OnlyOneRewrites ==
  ASSUME NEW f, NEW q, OneJob(q, f)
  PROVE /\ \A p \in Requests, r \in Rows : Has(r, f) /\ Rewrites(p, r) => p = q
        /\ \A p \in Requests, r \in Rows : Has(r, f)' /\ Rewrites(p, r)' => p = q
<1>1. None \notin Rows /\ Idle.row = None
  BY DEF Idle
<1>2. \A p \in Requests, r \in Rows : FolderOf(r) = f /\ job[p].row = r => At(p, f)
  BY <1>1 DEF OneJob, Typed, Fits, At
<1>3. \A p \in Requests, r \in Rows : FolderOf(r) = f /\ job'[p].row = r => At(p, f)'
  BY <1>1 DEF OneJob, Typed, Fits, At
<1> QED BY <1>2, <1>3 DEF Rewrites, Has, OneJob, Alone

\* A new file and a list of q's only.
LEMMA OnlyOneWorks ==
  ASSUME NEW f, NEW q, OneJob(q, f)
  PROVE /\ \A p \in Requests : Works(p, f) => p = q
        /\ \A p \in Requests : Works(p, f)' => p = q
  BY DEF OneJob, Alone, Works, At

\* The list of q stays as it is, or is empty.
LEMMA LateStay ==
  ASSUME NEW f, NEW q, OneJob(q, f), FilesIn(f), named' = named, alive' = alive,
         job'[q].later = <<>> \/ /\ job'[q].later = job[q].later
                                 /\ Works(q, f)' => Works(q, f) /\ job'[q].op = job[q].op
                                 /\ job'[q].row = job[q].row
                                 /\ job'[q].phase = "after" <=> job[q].phase = "after"
  PROVE LateFiles(f)'
<1> SUFFICES ASSUME NEW n \in Names, Works(q, f)', Listed(q, n)'
             PROVE  /\ job'[q].phase # "after" => Carries(q)' /\ n = named'[job'[q].row]
                    /\ job'[q].phase = "after" => \A s \in Rows : Has(s, f)' => named'[s] # n
  BY OnlyOneWorks DEF LateFiles
<1>1. job'[q].later # <<>>
  BY DEF Listed, InList
<1> QED BY <1>1 DEF LateFiles, FilesIn, Listed, Carries, Has, OneJob

LEMMA LoadKeepsFiles ==
  ASSUME NEW f, NEW q, OneJob(q, f), FilesIn(f), NEW r \in Rows,
         NEW op \in {"upload", "replace", "profile", "touch", "dismiss"}, Load(q, op, r)
  PROVE FilesIn(f)'
<1>1. /\ job'[q].phase \in {"view", "save"} /\ job'[q].later = <<>>
      /\ UNCHANGED <<named, alive, storage>> /\ job[q] = Idle
  <2>1. Typed /\ q \in Requests
    BY DEF OneJob
  <2>2. /\ \E phase \in {"view", "save"} : Turns(q, phase, op, r, named[r], <<>>)
        /\ UNCHANGED <<named, alive, storage>>
    BY <2>1, LoadDoes
  <2>3. job[q] = Idle
    BY <2>1 DEF Load, Typed, Fits
  <2> QED BY <2>1, <2>2, <2>3 DEF Turns
<1>2. \A s \in Rows : ~Rewrites(q, s)
  BY <1>1 DEF Rewrites, Idle
<1>3. Present(f)'
  BY <1>1, <1>2, OnlyOneRewrites DEF Present, FilesIn, Has
<1>4. NewFiles(f)'
  BY <1>1, OnlyOneWorks DEF NewFiles
<1> QED BY <1>1, <1>3, <1>4, LateStay DEF FilesIn, Distinct, Has

LEMMA ViewDeleteKeepsFiles ==
  ASSUME NEW f, NEW q, OneJob(q, f), Works(q, f), FilesIn(f), ViewDelete(q)
  PROVE FilesIn(f)'
<1>1. /\ job[q].phase = "view" /\ job[q].row \in Users /\ job[q].op \in {"upload", "dismiss"}
      /\ job[q].row \in Rows /\ job[q].later = <<>>
  BY DEF ViewDelete, OneJob, Typed, Fits
<1>2. f = "avatars" /\ job[q].file = named[job[q].row] /\ job[q].row \in alive
  BY <1>1, TenantsArePlain DEF Works, OneJob, CurrentIn
<1>3. /\ job'[q].phase = "save" /\ job'[q].later = <<>> /\ job'[q].row = job[q].row
      /\ job'[q].op = job[q].op /\ named' = named /\ alive' = alive
      /\ storage'[f] = storage[f] \ Some(named[job[q].row])
  BY <1>1, <1>2, ViewDeleteDoes DEF Turns, Loses, OneJob, Folders
<1>4. Present(f)'
  <2> SUFFICES ASSUME NEW s \in Rows, Has(s, f), named[s] # None
               PROVE  named[s] \in storage'[f] \/ Rewrites(q, s)'
    BY <1>3 DEF Present, Has, OneJob
  <2>1. CASE s = job[q].row
    BY <1>1, <1>3, <2>1 DEF Rewrites
  <2>2. CASE s # job[q].row
    <3>1. named[s] \in storage[f]
      BY <2>2, OnlyOneRewrites DEF FilesIn, Present, Rewrites
    <3>2. named[s] # named[job[q].row]
      BY <1>1, <1>2, <2>2, TenantsArePlain DEF FilesIn, Distinct, Has
    <3> QED BY <1>3, <3>1, <3>2 DEF Some
  <2> QED BY <2>1, <2>2
<1>5. NewFiles(f)'
  BY <1>3, OnlyOneWorks DEF NewFiles
<1> QED BY <1>3, <1>4, <1>5, LateStay DEF FilesIn, Distinct, Has

LEMMA SaveUserKeepsFiles ==
  ASSUME NEW f, NEW q, OneJob(q, f), Works(q, f), FilesIn(f), ReadOld(q), SaveUser(q)
  PROVE FilesIn(f)'
<1>1. /\ job[q].phase = "save" /\ job[q].row \in Users /\ job[q].row \in Rows
      /\ job[q].op \in {"upload", "replace", "profile", "touch", "dismiss"} /\ job[q].later = <<>>
  BY DEF ReadOld, SaveUser, OneJob, Typed, Fits, Ops, Rows
<1>2. f = "avatars" /\ job[q].row \in alive
      /\ (job[q].op \in {"profile", "touch"} => job[q].file = named[job[q].row])
  BY <1>1, TenantsArePlain DEF Works, OneJob, CurrentIn
<1>3. /\ job'[q].phase = ToStore(q) /\ job'[q].later = <<>> /\ job'[q].row = job[q].row
      /\ job'[q].op = job[q].op /\ named' = named /\ alive' = alive
      /\ storage'[f] = storage[f] \ Replaced(q)
  BY <1>1, <1>2, SaveUserDoes DEF Turns, Loses, OneJob, Folders
<1>4. Present(f)'
  <2> SUFFICES ASSUME NEW s \in Rows, Has(s, f), named[s] # None
               PROVE  named[s] \in storage'[f] \/ Rewrites(q, s)'
    BY <1>3 DEF Present, Has, OneJob
  <2>1. CASE s = job[q].row /\ job[q].op \in {"upload", "replace", "dismiss"}
    BY <1>1, <1>3, <2>1 DEF Rewrites
  <2>2. CASE s = job[q].row /\ job[q].op \in {"profile", "touch"}
    <3>1. named[s] \in storage[f]
      BY <2>2, OnlyOneRewrites DEF FilesIn, Present, Rewrites
    <3>2. Replaced(q) = {}
      BY <1>2, <2>2 DEF Replaced, Some, Carries
    <3> QED BY <1>3, <3>1, <3>2
  <2>3. CASE s # job[q].row
    <3>1. named[s] \in storage[f]
      BY <2>3, OnlyOneRewrites DEF FilesIn, Present, Rewrites
    <3>2. named[s] # named[job[q].row]
      BY <1>1, <1>2, <2>3, TenantsArePlain DEF FilesIn, Distinct, Has
    <3> QED BY <1>3, <3>1, <3>2 DEF Some, Replaced
  <2> QED BY <1>1, <2>1, <2>2, <2>3
<1>5. NewFiles(f)'
  <2>1. ToStore(q) = "write" => ~Carries(q)'
    BY <1>3, ToStoreIs DEF Carries, OneJob
  <2>2. ToStore(q) # "put"
    BY ToStoreIs DEF OneJob
  <2> QED BY <1>3, <2>1, <2>2, OnlyOneWorks DEF NewFiles
<1> QED BY <1>3, <1>4, <1>5, LateStay DEF FilesIn, Distinct, Has

LEMMA SaveCenterKeepsFiles ==
  ASSUME NEW f, NEW q, OneJob(q, f), Works(q, f), FilesIn(f), ReadOld(q), SaveCenter(q)
  PROVE FilesIn(f)'
<1>1. /\ job[q].phase = "save" /\ job[q].row \in Centers /\ job[q].row \notin Users /\ job[q].row \in Rows
      /\ job[q].op \in {"upload", "replace", "profile", "touch"}
  BY DEF ReadOld, SaveCenter, OneJob, Typed, Fits, Ops, Rows
<1>2. /\ job[q].file \in {None, named[job[q].row]}
      /\ job[q].op \in {"profile", "touch"} => job[q].file = named[job[q].row]
  BY <1>1 DEF OneJob, CurrentIn, Works
<1>3. PICK later \in Lists :
        /\ Turns(q, ToStore(q), job[q].op, job[q].row, job[q].file, later)
        /\ \A n : InList(later, n)
             <=> n \in Replaced(q) \cup (IF job[q].op = "upload" THEN Some(job[q].file) ELSE {})
  BY SaveCenterDoes DEF OneJob
<1>4. /\ job'[q].phase = ToStore(q) /\ job'[q].later = later /\ job'[q].row = job[q].row
      /\ job'[q].op = job[q].op /\ named' = named /\ alive' = alive /\ storage' = storage
  BY <1>3, SaveCenterDoes DEF Turns, OneJob
<1>5. Present(f)'
  <2>1. \A s \in Rows, p \in Requests : Has(s, f) => (Rewrites(p, s)' <=> Rewrites(p, s))
    BY <1>4 DEF Rewrites, OneJob
  <2> QED BY <1>4, <2>1 DEF FilesIn, Present, Has
<1>6. NewFiles(f)'
  <2>1. ToStore(q) = "write" => ~Carries(q)'
    BY <1>4, ToStoreIs DEF Carries, OneJob
  <2>2. ToStore(q) # "put"
    BY ToStoreIs DEF OneJob
  <2> QED BY <1>4, <2>1, <2>2, OnlyOneWorks DEF NewFiles
<1>7. LateFiles(f)'
  <2> SUFFICES ASSUME NEW n \in Names, Works(q, f)', Listed(q, n)'
               PROVE  job'[q].phase # "after" /\ Carries(q)' /\ n = named'[job'[q].row]
    BY OnlyOneWorks DEF LateFiles
  <2>1. n \in Replaced(q) \cup (IF job[q].op = "upload" THEN Some(job[q].file) ELSE {})
    BY <1>3, <1>4 DEF Listed
  <2>2. n = named[job[q].row]
    BY <1>2, <2>1 DEF Replaced, Some
  <2>3. job[q].op \notin {"profile", "touch"}
    BY <1>2, <2>1 DEF Replaced, Some, Carries
  <2>4. Carries(q)'
    BY <1>1, <1>4, <2>3 DEF Carries
  <2> QED BY <1>4, <2>2, <2>4, ToStoreIs DEF OneJob
<1> QED BY <1>4, <1>5, <1>6, <1>7 DEF FilesIn, Distinct, Has

LEMMA ChooseKeepsFiles ==
  ASSUME NEW f, NEW q, OneJob(q, f), Works(q, f), FilesIn(f), Choose(q)
  PROVE FilesIn(f)'
<1>1. PICK n \in Names \ storage[f] : Turns(q, "put", job[q].op, job[q].row, n, job[q].later)
  BY ChooseDoes DEF OneJob, Works
<1>2. /\ job[q].phase = "choose" /\ job'[q].phase = "put" /\ job'[q].later = job[q].later /\ job'[q].file = n
      /\ job'[q].row = job[q].row /\ job'[q].op = job[q].op
      /\ named' = named /\ alive' = alive /\ storage' = storage
  BY <1>1, ChooseDoes DEF Turns, OneJob, Choose
<1>3. Present(f)'
  <2>1. \A s \in Rows, p \in Requests : Has(s, f) => (Rewrites(p, s)' <=> Rewrites(p, s))
    BY <1>2 DEF Rewrites, OneJob
  <2> QED BY <1>2, <2>1 DEF FilesIn, Present, Has
<1>4. NewFiles(f)'
  BY <1>2, OnlyOneWorks DEF NewFiles
<1> QED BY <1>2, <1>3, <1>4, LateStay DEF FilesIn, Distinct, Has

LEMMA PutKeepsFiles ==
  ASSUME NEW f, NEW q, OneJob(q, f), Works(q, f), FilesIn(f), Put(q)
  PROVE FilesIn(f)'
<1>1. /\ job[q].phase = "put" /\ job[q].file \in Names /\ job[q].file \notin storage[f] /\ job[q].row \in Rows
      /\ f = FolderOf(job[q].row) /\ f \in Folders
  BY FoldersOfRows DEF Put, OneJob, Typed, Fits, FilesIn, NewFiles, Works
<1>2. /\ job'[q].phase = "write" /\ job'[q].later = job[q].later /\ job'[q].file = job[q].file
      /\ job'[q].row = job[q].row /\ job'[q].op = job[q].op
      /\ named' = named /\ alive' = alive
  BY PutDoes DEF Turns, OneJob
<1>3. storage'[f] = storage[f] \cup {job[q].file}
  BY <1>1, PutDoes DEF OneJob
<1>4. Present(f)'
  <2>1. \A s \in Rows, p \in Requests : Has(s, f) => (Rewrites(p, s)' <=> Rewrites(p, s))
    BY <1>2 DEF Rewrites, OneJob
  <2> QED BY <1>2, <1>3, <2>1 DEF FilesIn, Present, Has
<1>5. NewFiles(f)'
  <2> SUFFICES ASSUME Works(q, f)'
               PROVE  /\ job'[q].file \in storage'[f]
                      /\ \A s \in Rows : Has(s, f)' /\ named'[s] = job'[q].file
                           => s = job'[q].row /\ s \in Users
    BY <1>2, OnlyOneWorks DEF NewFiles
  <2>1. ASSUME NEW s \in Rows, Has(s, f), named[s] = job[q].file PROVE s = job[q].row /\ s \in Users
    <3>1. PICK p \in Requests : Rewrites(p, s)
      BY <1>1, <2>1 DEF FilesIn, Present
    <3> QED BY <2>1, <3>1, OnlyOneRewrites DEF Rewrites
  <2> QED BY <1>2, <1>3, <2>1 DEF Has
<1>6. LateFiles(f)'
  <2>1. /\ job'[q].phase = "after" <=> job[q].phase = "after"
        /\ Works(q, f)' => Works(q, f) /\ job'[q].op = job[q].op
    BY <1>1, <1>2
  <2> QED BY <1>2, <2>1, LateStay
<1> QED BY <1>2, <1>4, <1>5, <1>6 DEF FilesIn, Distinct, Has

LEMMA WriteKeepsFiles ==
  ASSUME NEW f, NEW q, OneJob(q, f), Works(q, f), FilesIn(f), Write(q)
  PROVE FilesIn(f)'
<1> DEFINE r == job[q].row
<1>1. /\ job[q].phase = "write" /\ r \in Rows /\ r \in alive /\ FolderOf(r) = f /\ r \notin Materials
      /\ job[q].op \in {"upload", "replace", "profile", "touch", "dismiss"}
      /\ job[q].op = "dismiss" => r \in Users
      /\ job[q].op \in {"profile", "touch"} => job[q].file = named[r]
      /\ job[q].later # <<>> => r \in Centers /\ r \notin Users
  BY TenantsArePlain DEF Write, OneJob, Works, Typed, Fits, Ops, CurrentIn, Avatars
<1>2. \A s \in Rows : named'[s] = IF s = r /\ job[q].op \in {"upload", "replace", "profile"}
                                  THEN job[q].file ELSE named[s]
  BY <1>1, WriteDoes DEF Committed, OneJob
<1>3. alive' = IF job[q].op = "dismiss" THEN alive \ {r} ELSE alive
  <2>1. alive' = IF WholeRow(q) THEN alive \cup {r}
                 ELSE IF job[q].op = "dismiss" THEN alive \ {r} ELSE alive
    BY WriteDoes DEF Committed, OneJob
  <2>2. alive \cup {r} = alive
    BY <1>1
  <2>3. WholeRow(q) => job[q].op # "dismiss"
    BY DEF WholeRow
  <2> QED BY <2>1, <2>2, <2>3
<1>4. storage' = storage
  BY WriteDoes DEF OneJob
<1>5. Works(q, f)' => /\ job'[q].phase = "after" /\ job'[q].op = job[q].op /\ job'[q].row = r
                      /\ job'[q].later = job[q].later /\ job[q].later # <<>>
  BY WriteDoes DEF OneJob, Turns, Ends, Works
<1>6. \A s \in Rows : Has(s, f)' => Has(s, f) /\ (s = r => job[q].op # "dismiss")
  BY <1>3 DEF Has
<1>7. job[q].op \in {"upload", "replace"} =>
        /\ job[q].file \in storage[f]
        /\ \A s \in Rows : Has(s, f) /\ named[s] = job[q].file => s = r /\ s \in Users
  BY <1>1 DEF FilesIn, NewFiles, Carries, OneJob
<1> HIDE DEF r
<1>8. \A s \in Rows : s # r => named'[s] = named[s]
  BY <1>2
<1>9. job[q].op \in {"profile", "touch", "dismiss"} => \A s \in Rows : named'[s] = named[s]
  BY <1>1, <1>2
<1>10. job[q].op \in {"upload", "replace"} => named'[r] = job[q].file
  BY <1>1, <1>2
<1>11. Distinct(f)'
  <2> SUFFICES ASSUME NEW s \in Rows, NEW t \in Rows, Has(s, f)', Has(t, f)', named'[s] # None,
                      named'[s] = named'[t]
               PROVE  s = t
    BY DEF Distinct
  <2>1. Has(s, f) /\ Has(t, f)
    BY <1>6
  <2>2. CASE job[q].op \in {"profile", "touch", "dismiss"}
    BY <1>9, <2>1, <2>2 DEF FilesIn, Distinct
  <2>3. CASE job[q].op \in {"upload", "replace"}
    BY <1>7, <1>8, <1>10, <2>1, <2>3 DEF FilesIn, Distinct
  <2> QED BY <1>1, <2>2, <2>3
<1>12. Present(f)'
  <2> SUFFICES ASSUME NEW s \in Rows, Has(s, f)', named'[s] # None PROVE named'[s] \in storage[f]
    BY <1>4 DEF Present
  <2>1. CASE s # r
    <3>1. \A p \in Requests : ~Rewrites(p, s)
      BY <1>6, <2>1, OnlyOneRewrites DEF Rewrites, r
    <3> QED BY <1>6, <1>8, <2>1, <3>1 DEF FilesIn, Present
  <2>2. CASE s = r /\ job[q].op \in {"upload", "replace"}
    BY <1>7, <1>10, <2>2
  <2>3. CASE s = r /\ job[q].op \in {"profile", "touch"}
    <3>1. \A p \in Requests : ~Rewrites(p, s)
      BY <1>6, <2>3, OnlyOneRewrites DEF Rewrites
    <3> QED BY <1>6, <1>9, <2>3, <3>1 DEF FilesIn, Present
  <2> QED BY <1>1, <1>6, <2>1, <2>2, <2>3
<1>13. NewFiles(f)'
  BY <1>5, OnlyOneWorks DEF NewFiles
<1>14. LateFiles(f)'
  <2> SUFFICES ASSUME NEW n \in Names, Works(q, f)', Listed(q, n)'
               PROVE  \A s \in Rows : Has(s, f)' => named'[s] # n
    BY <1>5, OnlyOneWorks DEF LateFiles
  <2>1. Listed(q, n) /\ r \in Centers /\ r \notin Users
    BY <1>1, <1>5 DEF Listed, r
  <2>2. Carries(q) /\ n = named[r]
    BY <1>1, <2>1 DEF FilesIn, LateFiles, OneJob, r
  <2>3. job[q].op \in {"upload", "replace"}
    BY <1>1, <2>2 DEF Carries
  <2>4. Has(r, f) /\ n # None
    BY <1>1 DEF Has
  <2>5. named'[r] # n
    BY <1>1, <1>7, <1>10, <2>1, <2>2, <2>3, <2>4
  <2>6. ASSUME NEW s \in Rows, Has(s, f)', s # r PROVE named'[s] # n
    <3>1. Has(s, f) /\ named'[s] = named[s]
      BY <1>6, <1>8, <2>6
    <3> QED BY <1>1, <2>2, <2>4, <2>6, <3>1 DEF FilesIn, Distinct
  <2> QED BY <2>5, <2>6
<1> QED BY <1>11, <1>12, <1>13, <1>14 DEF FilesIn

LEMMA DeleteLaterKeepsFiles ==
  ASSUME NEW f, NEW q, OneJob(q, f), Works(q, f), FilesIn(f), DeleteLater(q)
  PROVE FilesIn(f)'
<1>1. /\ job[q].phase = "after" /\ job[q].row \in Centers /\ job[q].later # <<>> /\ job[q].later \in Lists
      /\ f = "center_avatars"
  BY TenantsArePlain, JobFields DEF DeleteLater, OneJob, Works, Typed, TypeOK, Fits
<1>2. /\ named' = named /\ alive' = alive /\ storage'[f] = storage[f] \ {Head(job[q].later)}
  BY <1>1, DeleteLaterDoes DEF Loses, OneJob, Folders
<1>3. Works(q, f)' =>
        /\ job'[q].phase = "after" /\ job'[q].op = job[q].op /\ job'[q].row = job[q].row
        /\ job'[q].later = Tail(job[q].later) /\ Len(job[q].later) # 1
  BY DeleteLaterDoes DEF OneJob, Turns, Ends, Works
<1>4. \A s \in Rows : Has(s, f) => named[s] # Head(job[q].later)
  <2>1. Head(job[q].later) \in Names /\ Listed(q, Head(job[q].later))
    BY <1>1, ListsShrink DEF Listed
  <2> QED BY <1>1, <2>1 DEF FilesIn, LateFiles, OneJob
<1>5. Present(f)'
  <2> SUFFICES ASSUME NEW s \in Rows, Has(s, f), named[s] # None PROVE named[s] \in storage'[f]
    BY <1>2 DEF Present, Has
  <2>1. \A p \in Requests : ~Rewrites(p, s)
    BY <1>1 DEF Rewrites, Has, FolderOf
  <2> QED BY <1>2, <1>4, <2>1 DEF FilesIn, Present
<1>6. NewFiles(f)'
  BY <1>3, OnlyOneWorks DEF NewFiles
<1>7. LateFiles(f)'
  <2> SUFFICES ASSUME NEW n \in Names, Works(q, f)', Listed(q, n)'
               PROVE  \A s \in Rows : Has(s, f) => named[s] # n
    BY <1>2, <1>3, OnlyOneWorks DEF LateFiles, Has
  <2>1. Listed(q, n)
    BY <1>1, <1>3, ListsShrink DEF Listed
  <2> QED BY <1>1, <2>1 DEF FilesIn, LateFiles, OneJob
<1> QED BY <1>2, <1>5, <1>6, <1>7 DEF FilesIn, Distinct, Has

\* Deleting a center touches the avatars of users only where no user was deleted
\* softly.
LEMMA PurgeKeepsFiles ==
  ASSUME NEW f, NEW q, OneJob(q, f), FilesIn(f), Purge(q)
  PROVE FilesIn(f)'
<1>1. /\ job'[q].phase = "file" /\ job'[q].later = <<>> /\ UNCHANGED <<named, alive, storage>>
      /\ job[q] = Idle
  BY PurgeDoes DEF Turns, OneJob, Purge, Typed, Fits
<1>2. \A s \in Rows : ~Rewrites(q, s)
  BY <1>1 DEF Rewrites, Idle
<1>3. Present(f)'
  BY <1>1, <1>2, OnlyOneRewrites DEF Present, FilesIn, Has
<1>4. NewFiles(f)'
  BY <1>1, OnlyOneWorks DEF NewFiles
<1> QED BY <1>1, <1>3, <1>4, LateStay DEF FilesIn, Distinct, Has

LEMMA PurgeFileKeepsFiles ==
  ASSUME NEW f, NEW q, OneJob(q, f), FilesIn(f), PurgeFile(q), GoneAreNameless, f = "avatars",
         f \in traffic.alone, "dismiss" \notin traffic.ops
  PROVE FilesIn(f)'
<1> DEFINE r == job[q].row
<1>1. /\ job[q].phase = "file" /\ job[q].op = "purge" /\ r \in Users \cup Centers /\ r \in Rows
      /\ FolderOf(r) \in Folders /\ job[q].later = <<>>
  BY FoldersOfRows DEF PurgeFile, OneJob, Typed, Fits
<1>2. /\ job'[q].phase = "row" /\ job'[q].later = <<>> /\ job'[q].row = r
      /\ job'[q].op = job[q].op /\ named' = named /\ alive' = alive
  BY <1>1, PurgeFileDoes DEF Turns, OneJob
<1>3. storage'[f] = IF f = FolderOf(r) THEN storage[f] \ Some(job[q].file) ELSE storage[f]
  BY PurgeFileDoes DEF Loses, OneJob, Folders
<1>4. f = FolderOf(r) => job[q].file = named[r]
  BY <1>1 DEF OneJob, CurrentIn, Works
<1>5. Present(f)'
  <2> SUFFICES ASSUME NEW s \in Rows, Has(s, f), named[s] # None
               PROVE  named[s] \in storage'[f] \/ Rewrites(q, s)'
    BY <1>2 DEF Present, Has, OneJob
  <2>1. CASE s = r
    <3>1. s \in Users
      BY <1>1, <2>1 DEF Has, FolderOf
    <3> QED BY <1>1, <1>2, <2>1, <3>1 DEF Rewrites
  <2>2. CASE s # r
    <3>1. named[s] \in storage[f]
      BY <2>2, OnlyOneRewrites DEF FilesIn, Present, Rewrites
    <3>2. CASE f # FolderOf(r)
      BY <1>3, <3>1, <3>2
    <3>3. CASE f = FolderOf(r)
      <4>1. r \in Users
        BY <1>1, <3>3, TenantsArePlain
      <4>2. r \notin alive => named[r] = None
        BY <4>1 DEF GoneAreNameless
      <4>3. r \in alive => named[s] # named[r]
        BY <1>1, <2>2, <3>3 DEF FilesIn, Distinct, Has
      <4> QED BY <1>3, <1>4, <3>1, <3>3, <4>2, <4>3 DEF Some
    <3> QED BY <3>2, <3>3
  <2> QED BY <2>1, <2>2
<1>6. NewFiles(f)'
  BY <1>2, OnlyOneWorks DEF NewFiles
<1> QED BY <1>2, <1>5, <1>6, LateStay DEF FilesIn, Distinct, Has

LEMMA PurgeRowKeepsFiles ==
  ASSUME NEW f, NEW q, OneJob(q, f), FilesIn(f), PurgeRow(q)
  PROVE FilesIn(f)'
<1> DEFINE r == job[q].row
<1>1. /\ \A s \in Rows : named'[s] = IF s = r THEN None ELSE named[s]
      /\ alive' = alive \ {r} /\ storage' = storage
  BY PurgeRowDoes DEF OneJob
<1>2. job'[q].phase \in {"idle", "file"} /\ job'[q].later = <<>>
  BY PurgeRowDoes DEF OneJob, Turns, Ends
<1>3. \A s \in Rows : Has(s, f)' => Has(s, f) /\ s # r /\ named'[s] = named[s]
  BY <1>1 DEF Has
<1>4. Present(f)'
  <2>1. \A p \in Requests, s \in Rows : Has(s, f) /\ s # r => ~Rewrites(p, s)
    BY OnlyOneRewrites DEF Rewrites
  <2> QED BY <1>1, <1>3, <2>1 DEF FilesIn, Present
<1>5. NewFiles(f)'
  BY <1>2, OnlyOneWorks DEF NewFiles
<1>6. LateFiles(f)'
  BY <1>2, OnlyOneWorks DEF LateFiles, Listed, InList
<1> QED BY <1>3, <1>4, <1>5, <1>6 DEF FilesIn, Distinct

\* A failure leaves the avatars of centers whole.
LEMMA FailKeepsFiles ==
  ASSUME NEW f, NEW q, OneJob(q, f), FilesIn(f), Fail(q), f = "center_avatars"
  PROVE FilesIn(f)'
<1>1. job'[q].phase = "idle" /\ job'[q].later = <<>> /\ UNCHANGED <<named, alive, storage>>
  BY FailDoes DEF Turns, Ends, OneJob
<1>2. Present(f)'
  <2>1. \A p \in Requests, s \in Rows : Has(s, f) => ~Rewrites(p, s)
    BY DEF Rewrites, Has, FolderOf
  <2> QED BY <1>1, <2>1 DEF FilesIn, Present, Has
<1>3. NewFiles(f)'
  BY <1>1, OnlyOneWorks DEF NewFiles
<1> QED BY <1>1, <1>2, <1>3, LateStay DEF FilesIn, Distinct, Has

\* A job that is at work on f before or after works on a row of f.
LEMMA AtWorks ==
  ASSUME Typed, NEW q \in Requests, RequestStep(q), NEW f, At(q, f) \/ At(q, f)',
         job[q].phase # "idle", job[q].op # "purge"
  PROVE Works(q, f)
<1>1. CASE At(q, f)
  BY <1>1 DEF At, Works
<1>2. CASE ~At(q, f) /\ At(q, f)'
  <2>1. Fits(job[q])
    BY DEF Typed
  <2>2. job'[q].phase # "idle" => job'[q].op = job[q].op /\ job'[q].row = job[q].row
    BY <2>1, ViewDeleteDoes, SaveUserDoes, SaveCenterDoes, SaveMaterialDoes,
       ChooseDoes, PutDoes, WriteDoes, DeleteLaterDoes, FailDoes
       DEF RequestStep, Load, Create, Clone, Purge, PurgeFile, PurgeRow, ReadOld, Fits, Turns, Ends
  <2> QED BY <1>2, <2>2 DEF At
<1> QED BY <1>1, <1>2

LEMMA FilesKept ==
  ASSUME Typed, Typed', OneByOne, OneByOne', Admissible, Current, GoneAreNameless, Files, [Next]_vars
  PROVE Files'
<1> USE TenantsArePlain
<1> SUFFICES ASSUME NEW f \in Avatars, Guarded(f)' PROVE FilesIn(f)'
  BY DEF Files
<1>1. traffic' = traffic /\ f \in traffic.alone \cap Avatars
  BY DEF Next, vars, RequestStep, Load, Create, Clone, ViewDelete, ReadOld, Choose, Put, Write,
         DeleteLater, Purge, PurgeFile, PurgeRow, Fail, Remove, Guarded
<1>2. CASE UNCHANGED vars \/ \E r \in Materials : Remove(r)
  <2>1. Untouched(f)
    BY <1>2, StutterIsAside, RemoveIsAside
  <2> QED BY <2>1, UntouchedKeepsFiles DEF Files, Untouched
<1>3. ASSUME NEW q \in Requests, RequestStep(q) PROVE FilesIn(f)'
  <2>1. CASE ~At(q, f) /\ ~At(q, f)'
    <3>1. Untouched(f)
      BY <1>3, <2>1, StepsAside
    <3> QED BY <3>1, UntouchedKeepsFiles DEF Files, Untouched
  <2>2. CASE At(q, f) \/ At(q, f)'
    <3>1. OneJob(q, f)
      BY <1>1, <1>3, <2>2, AtWorkIsAlone DEF OneJob, Current
    <3>2. Guarded(f)
      <4>1. doomed => doomed'
        BY <1>3, LoadDoes DEF RequestStep, Load, Create, Clone, ViewDelete, ReadOld, Choose, Put, Write,
           DeleteLater, Purge, PurgeFile, PurgeRow, Fail
      <4>2. faults' = 0 => faults = 0
        <5>1. faults \in Nat
          BY DEF Typed, TypeOK
        <5>2. faults' = faults \/ faults' = faults + 1
          BY <1>3 DEF RequestStep, Load, Create, Clone, ViewDelete, ReadOld, Choose, Put, Write,
             DeleteLater, Purge, PurgeFile, PurgeRow, Fail
        <5> QED BY <5>1, <5>2
      <4> QED BY <1>1, <4>1, <4>2 DEF Guarded
    <3>3. FilesIn(f) /\ Fits(job[q])
      BY <3>2 DEF Files, Typed
    <3>4. job[q].phase # "idle" /\ job[q].op # "purge" => Works(q, f)
      BY <1>3, <2>2, <3>3, AtWorks
    <3>5. ASSUME NEW r \in Rows, NEW op \in {"upload", "replace", "profile", "touch", "dismiss"},
                 Load(q, op, r)
          PROVE  FilesIn(f)'
      BY <3>1, <3>3, <3>5, LoadKeepsFiles
    <3>6. ASSUME NEW r \in Materials, Create(q, r) PROVE FilesIn(f)'
      BY <2>2, <3>6, CreateDoes DEF Turns, At, Create, Avatars
    <3>7. ASSUME NEW r \in Materials, NEW s \in Materials, Clone(q, r, s) PROVE FilesIn(f)'
      BY <2>2, <3>7, CloneDoes DEF Turns, At, Clone, Avatars
    <3>8. CASE ViewDelete(q)
      BY <3>1, <3>3, <3>4, <3>8, ViewDeleteKeepsFiles DEF ViewDelete, Fits
    <3>9. CASE ReadOld(q) /\ SaveUser(q)
      BY <3>1, <3>3, <3>4, <3>9, SaveUserKeepsFiles DEF ReadOld, Fits
    <3>10. CASE ReadOld(q) /\ SaveCenter(q)
      BY <3>1, <3>3, <3>4, <3>10, SaveCenterKeepsFiles DEF ReadOld, Fits
    <3>11. CASE ReadOld(q) /\ SaveMaterial(q)
      BY <3>3, <3>4, <3>11 DEF ReadOld, SaveMaterial, Fits, Works, Avatars
    <3>12. CASE Choose(q)
      BY <3>1, <3>3, <3>4, <3>12, ChooseKeepsFiles DEF Choose, Fits
    <3>13. CASE Put(q)
      BY <3>1, <3>3, <3>4, <3>13, PutKeepsFiles DEF Put, Fits
    <3>14. CASE Write(q)
      BY <3>1, <3>3, <3>4, <3>14, WriteKeepsFiles DEF Write, Fits
    <3>15. CASE DeleteLater(q)
      BY <3>1, <3>3, <3>4, <3>15, DeleteLaterKeepsFiles DEF DeleteLater, Fits
    <3>16. CASE Purge(q)
      BY <3>1, <3>3, <3>16, PurgeKeepsFiles
    <3>17. CASE PurgeFile(q)
      <4>1. doomed
        BY <3>3, <3>17 DEF PurgeFile, Fits, Admissible
      <4>2. f = "avatars" /\ "dismiss" \notin traffic.ops
        BY <3>2, <4>1 DEF Guarded, Avatars
      <4> QED BY <1>1, <3>1, <3>3, <3>17, <4>2, PurgeFileKeepsFiles
    <3>18. CASE PurgeRow(q)
      BY <3>1, <3>3, <3>18, PurgeRowKeepsFiles
    <3>19. CASE Fail(q)
      <4>1. faults' # 0
        BY <3>19 DEF Fail, Typed, TypeOK
      <4>2. f = "center_avatars"
        BY <4>1 DEF Guarded, Avatars
      <4> QED BY <3>1, <3>3, <3>19, <4>2, FailKeepsFiles
    <3> QED BY <1>3, <3>5, <3>6, <3>7, <3>8, <3>9, <3>10, <3>11, <3>12, <3>13, <3>14, <3>15, <3>16,
               <3>17, <3>18, <3>19 DEF RequestStep, ReadOld
  <2> QED BY <2>1, <2>2
<1> QED BY <1>2, <1>3 DEF Next

-----------------------------------------------------------------------------
(* Nothing is left behind.                                                 *)

\* A file that a row keeps, which the step does not take from it.
LEMMA StillKept ==
  ASSUME NEW f, NEW q, OneJob(q, f), NEW r \in Rows, Has(r, f), Kept(r), Has(r, f)', named'[r] = named[r],
         ~Freed(q)' \/ job'[q].row # r
  PROVE Needed(named[r], f)'
<1>1. \A p \in Requests : p # q => (Freed(p)' <=> Freed(p)) /\ job'[p].row = job[p].row
  BY DEF OneJob, Freed, Carries
<1>2. Kept(r)'
  BY <1>1 DEF Kept, OneJob
<1> QED BY <1>2 DEF Needed

\* What needs a file, in a folder with one job.
LEMMA WhoNeeds ==
  ASSUME NEW f, NEW q, OneJob(q, f), NEW n, Needed(n, f)
  PROVE \/ \E r \in Rows : Has(r, f) /\ named[r] = n /\ Kept(r)
        \/ Works(q, f) /\ Carries(q) /\ job[q].phase = "write" /\ job[q].file = n
        \/ Works(q, f) /\ Listed(q, n) /\ job[q].later # <<>>
<1>1. \A p \in Requests : Listed(p, n) => job[p].later # <<>>
  BY DEF Listed, InList
<1> QED BY <1>1, OnlyOneWorks DEF Needed

\* Rows and files are as before, q neither frees a name nor holds a new file.
LEMMA SameAccounts ==
  ASSUME NEW f, NEW q, OneJob(q, f), AccountedIn(f),
         \A r \in Rows : Has(r, f) => Has(r, f)' /\ named'[r] = named[r],
         \A n \in storage'[f] : n \in storage[f] /\ \A r \in Rows : Freed(q)' /\ job'[q].row = r
                                  => named[r] # n \/ ~Kept(r) \/ ~Has(r, f),
         ~(Carries(q) /\ job[q].phase = "write"), job[q].later = <<>> \/ ~Works(q, f)
  PROVE AccountedIn(f)'
<1> SUFFICES ASSUME NEW n \in storage'[f] PROVE Needed(n, f)'
  BY DEF AccountedIn
<1>1. PICK r \in Rows : Has(r, f) /\ named[r] = n /\ Kept(r)
  BY WhoNeeds DEF AccountedIn
<1> QED BY <1>1, StillKept

LEMMA LoadKeepsAccounts ==
  ASSUME NEW f, NEW q, OneJob(q, f), AccountedIn(f), NEW r \in Rows,
         NEW op \in {"upload", "replace", "profile", "touch", "dismiss"}, Load(q, op, r)
  PROVE AccountedIn(f)'
<1>1. /\ UNCHANGED <<named, alive, storage>> /\ job[q] = Idle
      /\ job'[q].phase \in {"view", "save"} /\ job'[q].op = op
      /\ op = "dismiss" => job'[q].phase = "view"
  <2>1. op = "dismiss" => r \in Users
    BY DEF Load
  <2>2. Turns(q, IF op \in {"upload", "dismiss"} /\ r \in Users THEN "view" ELSE "save", op, r, named[r], <<>>)
    BY LoadDoes DEF OneJob
  <2>3. job[q] = Idle /\ UNCHANGED <<named, alive, storage>>
    BY DEF Load, OneJob, Typed, Fits
  <2> QED BY <2>1, <2>2, <2>3 DEF Turns
<1>2. ~Freed(q)'
  BY <1>1 DEF Freed
<1>3. ~Works(q, f)
  BY <1>1 DEF Works, Idle
<1>4. job[q].phase # "write"
  BY <1>1 DEF Idle
<1> QED BY <1>1, <1>2, <1>3, <1>4, SameAccounts DEF Has

LEMMA ViewDeleteKeepsAccounts ==
  ASSUME NEW f, NEW q, OneJob(q, f), Works(q, f), AccountedIn(f), ViewDelete(q)
  PROVE AccountedIn(f)'
<1>1. /\ job[q].phase = "view" /\ job[q].row \in Users /\ job[q].row \in Rows /\ job[q].later = <<>>
  BY DEF ViewDelete, OneJob, Typed, Fits
<1>2. f = "avatars" /\ job[q].file = named[job[q].row]
  BY <1>1, TenantsArePlain DEF Works, OneJob, CurrentIn
<1>3. /\ job'[q].row = job[q].row /\ named' = named /\ alive' = alive
      /\ storage'[f] = storage[f] \ Some(named[job[q].row])
  BY <1>1, <1>2, ViewDeleteDoes DEF Turns, Loses, OneJob, Folders
<1>4. storage[f] \subseteq Names
  BY <1>2 DEF OneJob, Typed, TypeOK, Folders
<1>5. \A n \in storage'[f] : n \in storage[f] /\ named[job[q].row] # n
  BY <1>3, <1>4 DEF Some
<1> QED BY <1>1, <1>3, <1>5, SameAccounts DEF Has

LEMMA SaveUserKeepsAccounts ==
  ASSUME NEW f, NEW q, OneJob(q, f), Works(q, f), AccountedIn(f), ReadOld(q), SaveUser(q)
  PROVE AccountedIn(f)'
<1>1. /\ job[q].phase = "save" /\ job[q].row \in Users /\ job[q].row \in Rows /\ job[q].later = <<>>
  BY DEF ReadOld, SaveUser, OneJob, Typed, Fits, Rows
<1>2. f = "avatars"
  BY <1>1, TenantsArePlain DEF Works
<1>3. /\ job'[q].row = job[q].row /\ job'[q].op = job[q].op /\ job'[q].phase = ToStore(q)
      /\ named' = named /\ alive' = alive /\ storage'[f] = storage[f] \ Replaced(q)
  BY <1>1, <1>2, SaveUserDoes DEF Turns, Loses, OneJob, Folders
<1>4. storage[f] \subseteq Names
  BY <1>2 DEF OneJob, Typed, TypeOK, Folders
<1>5. Freed(q)' => Carries(q) \/ Freed(q)
  <2>1. job'[q].phase \in {"choose", "write"}
    BY <1>3, ToStoreIs DEF OneJob
  <2> QED BY <1>1, <1>3, <2>1 DEF Freed, Carries
<1>6. ASSUME NEW n \in storage'[f], NEW r \in Rows, Freed(q)', job'[q].row = r
      PROVE  named[r] # n \/ ~Kept(r)
  <2>1. CASE Carries(q)
    BY <1>3, <1>4, <1>6, <2>1 DEF Replaced, Some
  <2>2. CASE Freed(q)
    BY <1>3, <1>6, <2>2 DEF Kept, OneJob
  <2> QED BY <1>5, <1>6, <2>1, <2>2
<1> QED BY <1>1, <1>3, <1>6, SameAccounts DEF Has

LEMMA SaveCenterKeepsAccounts ==
  ASSUME NEW f, NEW q, OneJob(q, f), Works(q, f), AccountedIn(f), ReadOld(q), SaveCenter(q)
  PROVE AccountedIn(f)'
<1>1. /\ job[q].phase = "save" /\ job[q].row \in Centers /\ job[q].row \in Rows /\ job[q].op # "dismiss"
      /\ job[q].op # "purge" /\ job[q].later = <<>> /\ f \in Folders
  BY DEF ReadOld, SaveCenter, OneJob, Typed, Fits, Rows, Avatars, Folders
<1>2. PICK later \in Lists :
        /\ Turns(q, ToStore(q), job[q].op, job[q].row, job[q].file, later)
        /\ \A n : InList(later, n)
             <=> n \in Replaced(q) \cup (IF job[q].op = "upload" THEN Some(job[q].file) ELSE {})
  BY SaveCenterDoes DEF OneJob
<1>3. /\ job'[q].phase = ToStore(q) /\ job'[q].later = later /\ job'[q].row = job[q].row
      /\ job'[q].op = job[q].op /\ named' = named /\ alive' = alive /\ storage' = storage
  BY <1>2, SaveCenterDoes DEF Turns, OneJob
<1> SUFFICES ASSUME NEW n \in storage[f] PROVE Needed(n, f)'
  BY <1>3 DEF AccountedIn
<1>4. PICK r \in Rows : Has(r, f) /\ named[r] = n /\ Kept(r)
  BY <1>1, WhoNeeds DEF AccountedIn
<1>5. CASE Freed(q)' /\ job'[q].row = r
  <2>1. Carries(q)
    BY <1>1, <1>3, <1>5 DEF Freed, Carries
  <2>2. n # None
    BY <1>1 DEF OneJob, Typed, TypeOK
  <2>3. n \in Replaced(q)
    BY <1>3, <1>4, <1>5, <2>1, <2>2 DEF Replaced, Some
  <2>4. Listed(q, n)'
    BY <1>2, <1>3, <2>3 DEF Listed
  <2>5. Works(q, f)'
    BY <1>3, ToStoreIs DEF Works, OneJob
  <2> QED BY <2>4, <2>5 DEF Needed, OneJob
<1>6. CASE ~(Freed(q)' /\ job'[q].row = r)
  BY <1>3, <1>4, <1>6, StillKept DEF Has
<1> QED BY <1>5, <1>6

LEMMA ChooseKeepsAccounts ==
  ASSUME NEW f, NEW q, OneJob(q, f), Works(q, f), AccountedIn(f), Choose(q)
  PROVE AccountedIn(f)'
<1>1. /\ job[q].phase = "choose" /\ job'[q].phase = "put" /\ job'[q].later = job[q].later
      /\ job'[q].row = job[q].row /\ job'[q].op = job[q].op
      /\ named' = named /\ alive' = alive /\ storage' = storage
  BY ChooseDoes DEF Turns, OneJob, Choose
<1>2. Freed(q)' <=> Freed(q)
  BY <1>1 DEF Freed, Carries
<1> SUFFICES ASSUME NEW n \in storage[f] PROVE Needed(n, f)'
  BY <1>1 DEF AccountedIn
<1>3. CASE \E r \in Rows : Has(r, f) /\ named[r] = n /\ Kept(r)
  BY <1>1, <1>2, <1>3, StillKept DEF Has, Kept, OneJob
<1>4. CASE Works(q, f) /\ Listed(q, n)
  BY <1>1, <1>4 DEF Needed, Works, Listed, OneJob
<1> QED BY <1>1, <1>3, <1>4, WhoNeeds DEF AccountedIn

LEMMA PutKeepsAccounts ==
  ASSUME NEW f, NEW q, OneJob(q, f), Works(q, f), AccountedIn(f), Put(q)
  PROVE AccountedIn(f)'
<1>1. /\ job[q].phase = "put" /\ f = FolderOf(job[q].row) /\ f \in Folders
      /\ job[q].op \in {"upload", "replace", "create"}
  BY DEF Put, OneJob, Typed, Fits, Works, Avatars, Folders
<1>2. /\ job'[q].phase = "write" /\ job'[q].later = job[q].later /\ job'[q].file = job[q].file
      /\ job'[q].row = job[q].row /\ job'[q].op = job[q].op
      /\ named' = named /\ alive' = alive
  BY PutDoes DEF Turns, OneJob
<1>3. storage'[f] = storage[f] \cup {job[q].file}
  BY <1>1, PutDoes DEF OneJob
<1>4. (Freed(q)' <=> Freed(q)) /\ Works(q, f)' /\ Carries(q)'
  BY <1>1, <1>2 DEF Freed, Carries, Works
<1> SUFFICES ASSUME NEW n \in storage'[f] PROVE Needed(n, f)'
  BY DEF AccountedIn
<1>5. CASE n = job[q].file
  BY <1>2, <1>4, <1>5 DEF Needed, OneJob
<1>6. CASE \E r \in Rows : Has(r, f) /\ named[r] = n /\ Kept(r)
  BY <1>2, <1>4, <1>6, StillKept DEF Has, Kept, OneJob
<1>7. CASE Works(q, f) /\ Listed(q, n)
  BY <1>2, <1>4, <1>7 DEF Needed, Listed, OneJob
<1> QED BY <1>1, <1>3, <1>5, <1>6, <1>7, WhoNeeds DEF AccountedIn

LEMMA WriteKeepsAccounts ==
  ASSUME NEW f, NEW q, OneJob(q, f), Works(q, f), AccountedIn(f), Write(q)
  PROVE AccountedIn(f)'
<1>0. job[q].row \in Rows
  BY DEF Write, OneJob, Typed, Fits
<1> SUFFICES ASSUME NEW r \in Rows, r = job[q].row PROVE AccountedIn(f)'
  BY <1>0
<1>1. /\ job[q].phase = "write" /\ r \in Rows /\ r \in alive /\ FolderOf(r) = f
      /\ job[q].op \in {"upload", "replace", "profile", "touch", "dismiss"}
      /\ job[q].op \in {"profile", "touch"} => job[q].file = named[r]
  BY TenantsArePlain DEF Write, OneJob, Works, Typed, Fits, Ops, CurrentIn, Avatars
<1>2. \A s \in Rows : named'[s] = IF s = r /\ job[q].op \in {"upload", "replace", "profile"}
                                  THEN job[q].file ELSE named[s]
  BY <1>1, WriteDoes DEF Committed, OneJob
<1>3. \A s \in Rows : Has(s, f) /\ (s # r \/ job[q].op # "dismiss") => Has(s, f)'
  BY WriteDoes DEF Committed, OneJob, Has
<1>4. storage' = storage
  BY WriteDoes DEF OneJob
<1>5. job[q].later = <<>> => job'[q] = Idle
  BY WriteDoes DEF OneJob, Ends
<1>6. job[q].later # <<>> =>
        /\ job'[q].phase = "after" /\ job'[q].op = job[q].op /\ job'[q].row = r
        /\ job'[q].later = job[q].later
  BY WriteDoes DEF OneJob, Turns
<1>7. ~Freed(q)'
  BY <1>1, <1>5, <1>6 DEF Freed, Carries, Idle
<1> SUFFICES ASSUME NEW n \in storage[f] PROVE Needed(n, f)'
  BY <1>4 DEF AccountedIn
<1>8. ASSUME NEW s \in Rows, Has(s, f), named[s] = n, Kept(s) PROVE Needed(n, f)'
  <2>1. s = r => job[q].op \in {"profile", "touch"}
    BY <1>1, <1>8 DEF Kept, Freed, Carries, OneJob
  <2>2. Has(s, f)' /\ named'[s] = named[s]
    BY <1>1, <1>2, <1>3, <1>8, <2>1
  <2> QED BY <1>7, <1>8, <2>2, StillKept
<1>9. CASE Carries(q) /\ job[q].file = n
  <2>1. job[q].op \in {"upload", "replace"}
    BY <1>1, <1>9 DEF Carries
  <2>2. named'[r] = n
    BY <1>1, <1>2, <1>9, <2>1
  <2>3. Has(r, f)'
    <3>1. Has(r, f) /\ job[q].op # "dismiss"
      BY <1>1, <2>1 DEF Has
    <3> QED BY <1>1, <1>3, <3>1
  <2>4. \A p \in Requests : Freed(p)' => job'[p].row # r
    <3>1. \A p \in Requests : p # q => job'[p].row # r \/ job'[p].phase = "idle"
      BY <1>1 DEF OneJob, Alone, At
    <3>2. \A p \in Requests : job'[p].phase = "idle" => ~Freed(p)'
      BY DEF OneJob, Typed, Fits, Freed, Carries, Idle
    <3> QED BY <1>7, <3>1, <3>2
  <2>5. Kept(r)'
    BY <2>4 DEF Kept
  <2> QED BY <1>1, <2>2, <2>3, <2>5 DEF Needed
<1>10. CASE Listed(q, n) /\ job[q].later # <<>>
  <2>1. Listed(q, n)' /\ Works(q, f)'
    BY <1>1, <1>6, <1>10 DEF Listed, Works
  <2> QED BY <2>1 DEF Needed, OneJob
<1> QED BY <1>8, <1>9, <1>10, WhoNeeds DEF AccountedIn

LEMMA DeleteLaterKeepsAccounts ==
  ASSUME NEW f, NEW q, OneJob(q, f), Works(q, f), AccountedIn(f), DeleteLater(q)
  PROVE AccountedIn(f)'
<1>1. /\ job[q].phase = "after" /\ job[q].row \in Centers /\ job[q].later # <<>> /\ job[q].later \in Lists
      /\ f = "center_avatars" /\ job[q].op # "dismiss" /\ job[q].op # "purge"
  BY TenantsArePlain, JobFields DEF DeleteLater, OneJob, Works, Typed, TypeOK, Fits
<1>2. /\ named' = named /\ alive' = alive /\ storage'[f] = storage[f] \ {Head(job[q].later)}
  BY <1>1, DeleteLaterDoes DEF Loses, OneJob, Folders
<1>3. Len(job[q].later) = 1 => job'[q] = Idle
  BY DeleteLaterDoes DEF OneJob, Ends
<1>4. Len(job[q].later) # 1 =>
        /\ job'[q].phase = "after" /\ job'[q].op = job[q].op /\ job'[q].row = job[q].row
        /\ job'[q].later = Tail(job[q].later)
  BY DeleteLaterDoes DEF OneJob, Turns
<1>5. ~Freed(q)'
  BY <1>1, <1>3, <1>4 DEF Freed, Carries, Idle
<1> SUFFICES ASSUME NEW n \in storage'[f] PROVE Needed(n, f)'
  BY DEF AccountedIn
<1>6. n \in storage[f] /\ n # Head(job[q].later)
  BY <1>2
<1>7. ASSUME NEW s \in Rows, Has(s, f), named[s] = n, Kept(s) PROVE Needed(n, f)'
  BY <1>2, <1>5, <1>7, StillKept DEF Has
<1>8. CASE Listed(q, n)
  <2>1. Len(job[q].later) # 1 /\ InList(Tail(job[q].later), n)
    BY <1>1, <1>6, <1>8, ListsShrink DEF Listed
  <2>2. Listed(q, n)' /\ Works(q, f)'
    BY <1>4, <2>1 DEF Listed, Works
  <2> QED BY <2>2 DEF Needed, OneJob
<1> QED BY <1>1, <1>6, <1>7, <1>8, WhoNeeds DEF AccountedIn

LEMMA PurgeKeepsAccounts ==
  ASSUME NEW f, NEW q, OneJob(q, f), AccountedIn(f), Purge(q)
  PROVE AccountedIn(f)'
<1>1. /\ job'[q].phase = "file" /\ job'[q].op = "purge" /\ UNCHANGED <<named, alive, storage>>
      /\ job[q] = Idle
  BY PurgeDoes DEF Turns, OneJob, Purge, Typed, Fits
<1>2. ~Freed(q)'
  BY <1>1 DEF Freed, Carries
<1>3. ~Works(q, f) /\ job[q].phase # "write"
  BY <1>1 DEF Works, Idle
<1> QED BY <1>1, <1>2, <1>3, SameAccounts DEF Has

LEMMA PurgeFileKeepsAccounts ==
  ASSUME NEW f, NEW q, OneJob(q, f), AccountedIn(f), PurgeFile(q)
  PROVE AccountedIn(f)'
<1> DEFINE r == job[q].row
<1>1. /\ job[q].phase = "file" /\ job[q].op = "purge" /\ r \in Rows
      /\ job[q].later = <<>> /\ f \in Folders
  BY DEF PurgeFile, OneJob, Typed, Fits, Avatars, Folders
<1>2. job'[q].row = r /\ named' = named /\ alive' = alive
  BY <1>1, PurgeFileDoes DEF Turns, OneJob
<1>3. storage'[f] = IF f = FolderOf(r) THEN storage[f] \ Some(job[q].file) ELSE storage[f]
  BY <1>1, PurgeFileDoes DEF Loses, OneJob
<1>4. f = FolderOf(r) => job[q].file = named[r]
  BY <1>1 DEF OneJob, CurrentIn, Works
<1>5. storage[f] \subseteq Names
  BY <1>1 DEF OneJob, Typed, TypeOK
<1>6. \A n \in storage'[f] : n \in storage[f] /\ (f = FolderOf(r) => named[r] # n)
  BY <1>3, <1>4, <1>5 DEF Some
<1> QED BY <1>1, <1>2, <1>6, SameAccounts DEF Has

LEMMA PurgeRowKeepsAccounts ==
  ASSUME NEW f, NEW q, OneJob(q, f), AccountedIn(f), PurgeRow(q)
  PROVE AccountedIn(f)'
<1> DEFINE r == job[q].row
<1>1. /\ \A s \in Rows : named'[s] = IF s = r THEN None ELSE named[s]
      /\ alive' = alive \ {r} /\ storage' = storage
  BY PurgeRowDoes DEF OneJob
<1>2. job'[q].phase = "idle" \/ (job'[q].phase = "file" /\ job'[q].op = "purge")
  BY PurgeRowDoes DEF OneJob, Turns, Ends
<1>3. ~Freed(q)'
  <2>1. Fits(job'[q])
    BY DEF OneJob, Typed
  <2> QED BY <1>2, <2>1 DEF Freed, Carries, Fits, Idle
<1>4. job[q].phase = "row" /\ job[q].op = "purge" /\ job[q].later = <<>>
  BY DEF PurgeRow, OneJob, Typed, Fits
<1> SUFFICES ASSUME NEW n \in storage[f] PROVE Needed(n, f)'
  BY <1>1 DEF AccountedIn
<1>5. PICK s \in Rows : Has(s, f) /\ named[s] = n /\ Kept(s)
  BY <1>4, WhoNeeds DEF AccountedIn
<1>6. s # r
  BY <1>4, <1>5 DEF Kept, Freed, OneJob
<1> QED BY <1>1, <1>3, <1>5, <1>6, StillKept DEF Has

LEMMA AccountedKept ==
  ASSUME Typed, Typed', OneByOne, OneByOne', Current, Accounted, [Next]_vars
  PROVE Accounted'
<1> USE TenantsArePlain
<1> SUFFICES ASSUME faults' = 0, NEW f \in traffic'.alone \cap Avatars PROVE AccountedIn(f)'
  BY DEF Accounted, AccountedIn
<1>0. f \in Avatars /\ f \in traffic.alone
  <2>1. traffic' = traffic
    BY DEF Next, vars, RequestStep, Load, Create, Clone, ViewDelete, ReadOld, Choose, Put, Write,
           DeleteLater, Purge, PurgeFile, PurgeRow, Fail, Remove
  <2> QED BY <2>1
<1>1. faults = 0
  <2>1. faults \in Nat
    BY DEF Typed, TypeOK
  <2>2. faults' = faults \/ faults' = faults + 1
    BY DEF Next, vars, RequestStep, Load, Create, Clone, ViewDelete, ReadOld, Choose, Put, Write,
           DeleteLater, Purge, PurgeFile, PurgeRow, Fail, Remove
  <2> QED BY <2>1, <2>2
<1>2. AccountedIn(f)
  BY <1>0, <1>1 DEF Accounted
<1>3. CASE UNCHANGED vars \/ \E r \in Materials : Remove(r)
  BY <1>0, <1>2, <1>3, StutterIsAside, RemoveIsAside, UntouchedKeepsAccounts
<1>4. ASSUME NEW q \in Requests, RequestStep(q) PROVE AccountedIn(f)'
  <2>1. CASE ~At(q, f) /\ ~At(q, f)'
    BY <1>0, <1>2, <1>4, <2>1, StepsAside, UntouchedKeepsAccounts
  <2>2. CASE At(q, f) \/ At(q, f)'
    <3>1. OneJob(q, f) /\ Fits(job[q])
      BY <1>0, <1>4, <2>2, AtWorkIsAlone DEF OneJob, Current, Typed
    <3>4. job[q].phase # "idle" /\ job[q].op # "purge" => Works(q, f)
      BY <1>4, <2>2, <3>1, AtWorks
    <3>5. ASSUME NEW r \in Rows, NEW op \in {"upload", "replace", "profile", "touch", "dismiss"},
                 Load(q, op, r)
          PROVE  AccountedIn(f)'
      BY <1>2, <3>1, <3>5, LoadKeepsAccounts
    <3>6. ASSUME NEW r \in Materials, Create(q, r) PROVE AccountedIn(f)'
      BY <1>0, <2>2, <3>6, CreateDoes DEF Turns, At, Create, Avatars
    <3>7. ASSUME NEW r \in Materials, NEW s \in Materials, Clone(q, r, s) PROVE AccountedIn(f)'
      BY <1>0, <2>2, <3>7, CloneDoes DEF Turns, At, Clone, Avatars
    <3>8. CASE ViewDelete(q)
      BY <1>2, <3>1, <3>4, <3>8, ViewDeleteKeepsAccounts DEF ViewDelete, Fits
    <3>9. CASE ReadOld(q) /\ SaveUser(q)
      BY <1>2, <3>1, <3>4, <3>9, SaveUserKeepsAccounts DEF ReadOld, Fits
    <3>10. CASE ReadOld(q) /\ SaveCenter(q)
      BY <1>2, <3>1, <3>4, <3>10, SaveCenterKeepsAccounts DEF ReadOld, Fits
    <3>11. CASE ReadOld(q) /\ SaveMaterial(q)
      BY <1>0, <3>1, <3>4, <3>11 DEF ReadOld, SaveMaterial, Fits, Works, Avatars
    <3>12. CASE Choose(q)
      BY <1>2, <3>1, <3>4, <3>12, ChooseKeepsAccounts DEF Choose, Fits
    <3>13. CASE Put(q)
      BY <1>2, <3>1, <3>4, <3>13, PutKeepsAccounts DEF Put, Fits
    <3>14. CASE Write(q)
      BY <1>2, <3>1, <3>4, <3>14, WriteKeepsAccounts DEF Write, Fits
    <3>15. CASE DeleteLater(q)
      BY <1>2, <3>1, <3>4, <3>15, DeleteLaterKeepsAccounts DEF DeleteLater, Fits
    <3>16. CASE Purge(q)
      BY <1>2, <3>1, <3>16, PurgeKeepsAccounts
    <3>17. CASE PurgeFile(q)
      BY <1>2, <3>1, <3>17, PurgeFileKeepsAccounts
    <3>18. CASE PurgeRow(q)
      BY <1>2, <3>1, <3>18, PurgeRowKeepsAccounts
    <3>19. CASE Fail(q)
      BY <1>1, <3>19 DEF Fail
    <3> QED BY <1>4, <3>5, <3>6, <3>7, <3>8, <3>9, <3>10, <3>11, <3>12, <3>13, <3>14, <3>15, <3>16,
               <3>17, <3>18, <3>19 DEF RequestStep, ReadOld
  <2> QED BY <2>1, <2>2
<1> QED BY <1>3, <1>4 DEF Next

-----------------------------------------------------------------------------
(* The theorems.                                                           *)

IInv == Typed /\ Admissible /\ OneByOne /\ Current /\ GoneAreNameless

LEMMA IInvAtStart == Init => IInv /\ TenantFiles /\ Files /\ Accounted
<1> SUFFICES ASSUME Init PROVE IInv /\ TenantFiles /\ Files /\ Accounted
  OBVIOUS
<1> USE TenantsArePlain
<1>1. Typed
  BY TypedAtStart
<1>2. /\ \A q \in Requests : job[q] = Idle
      /\ Idle.phase = "idle" /\ Idle.op = None /\ Idle.row = None /\ Idle.file = None /\ Idle.later = <<>>
      /\ None \notin Ops /\ None \notin Rows /\ "purge" \in Ops /\ "dismiss" \in Ops
  BY DEF Init, Idle, Ops
<1>3. \A f \in Folders, q \in Requests : ~At(q, f) /\ ~Works(q, f)
  BY <1>2 DEF At, Works
<1>4. IInv
  <2>1. Admissible
    BY <1>2 DEF Admissible
  <2>2. OneByOne /\ Current
    BY <1>3 DEF OneByOne, Current, CurrentIn, Avatars, Folders
  <2>3. GoneAreNameless
    BY DEF Init, GoneAreNameless
  <2> QED BY <1>1, <2>1, <2>2, <2>3 DEF IInv
<1>5. TenantFiles
  <2>1. \A r \in Materials : named[r] = None
    BY DEF Init, Rows
  <2> QED BY <1>2, <2>1 DEF TenantFiles, Rows
<1>6. /\ \A r \in Users \cup Centers : named[r] = FirstFile[r]
      /\ alive = Users \cup Centers
  BY DEF Init, Rows
<1>7. \A f \in Folders : storage[f] = {FirstFile[r] : r \in {s \in Users \cup Centers : FolderOf(s) = f}} \ {None}
  BY DEF Init
<1>8. Files
  <2> SUFFICES ASSUME NEW f \in Avatars PROVE FilesIn(f)
    BY DEF Files
  <2>1. f \in Folders
    BY DEF Avatars, Folders
  <2>2. Distinct(f)
    <3>1. \A r, s \in Users \cup Centers : FolderOf(r) = FolderOf(s) => (r \in Users <=> s \in Users)
      BY DEF FolderOf
    <3> QED BY <1>6, <3>1 DEF Distinct, Has
  <2>3. Present(f)
    BY <1>6, <1>7, <2>1 DEF Present, Has
  <2>4. NewFiles(f) /\ LateFiles(f)
    BY <1>3, <2>1 DEF NewFiles, LateFiles
  <2> QED BY <2>2, <2>3, <2>4 DEF FilesIn
<1>9. Accounted
  <2> SUFFICES ASSUME NEW f \in Avatars, NEW n \in storage[f] PROVE Needed(n, f)
    BY DEF Accounted, AccountedIn
  <2>1. f \in Folders
    BY DEF Avatars, Folders
  <2>2. PICK r \in Users \cup Centers : FolderOf(r) = f /\ n = FirstFile[r]
    BY <1>7, <2>1
  <2>3. Has(r, f) /\ named[r] = n /\ r \in Rows
    BY <1>6, <2>2 DEF Has, Rows
  <2>4. Kept(r)
    BY <1>2, <2>3 DEF Kept
  <2> QED BY <2>3, <2>4 DEF Needed
<1> QED BY <1>4, <1>5, <1>8, <1>9

LEMMA IInvKept == IInv /\ [Next]_vars => IInv'
  BY TypedKept, AdmissibleKept, OneByOneKept, CurrentKept, GoneAreNamelessKept DEF IInv

\* In a quiet folder nobody is at work.
LEMMA QuietIsIdle ==
  ASSUME Typed, NEW f, Quiet(f)
  PROVE \A q \in Requests : ~At(q, f) /\ ~Works(q, f)
  BY DEF Quiet, At, Works

LEMMA FilesAreThere == ASSUME IInv, TenantFiles, Files PROVE FilesExist
<1> USE TenantsArePlain
<1>0. Typed /\ alive \subseteq Rows
  BY DEF IInv, Typed, TypeOK
<1>1. Whole("tenants")
  BY <1>0 DEF TenantFiles, Whole, In
<1>2. ASSUME "center_avatars" \in traffic.alone, ~doomed PROVE Whole("center_avatars")
  <2>1. Present("center_avatars")
    BY <1>2 DEF Files, Guarded, Avatars, FilesIn
  <2>2. \A r \in Users : FolderOf(r) # "center_avatars"
    BY DEF FolderOf
  <2> QED BY <1>0, <2>1, <2>2 DEF Present, Whole, In, Has, Rewrites
<1>3. ASSUME "avatars" \in traffic.alone, Quiet("avatars"), faults = 0,
             doomed => "dismiss" \notin traffic.ops
      PROVE  Whole("avatars")
  <2>1. Present("avatars")
    BY <1>3 DEF Files, Guarded, Avatars, FilesIn
  <2>2. \A q \in Requests : ~At(q, "avatars")
    BY <1>0, <1>3, QuietIsIdle
  <2>3. None \notin Rows /\ Idle.row = None
    BY DEF Idle
  <2>4. \A q \in Requests, r \in Rows : FolderOf(r) = "avatars" => job[q].row # r
    BY <1>0, <2>2, <2>3 DEF At, Typed, Fits
  <2> QED BY <1>0, <2>1, <2>4 DEF Present, Whole, In, Has, Rewrites
<1> QED BY <1>1, <1>2, <1>3 DEF FilesExist

LEMMA NobodyLeavesFiles == ASSUME IInv, Accounted PROVE NoOrphans
<1> SUFFICES ASSUME NEW f \in traffic.alone \ {"tenants"}, Quiet(f), faults = 0, NEW n \in storage[f]
             PROVE  \E r \in In(f) : named[r] = n
  BY DEF NoOrphans
<1>0. Typed /\ alive \subseteq Rows
  BY DEF IInv, Typed, TypeOK
<1>1. f \in Avatars
  BY <1>0 DEF Typed, TypeOK, Avatars, Folders
<1>2. \A q \in Requests : ~Works(q, f)
  BY <1>0, QuietIsIdle
<1>3. PICK r \in Rows : Has(r, f) /\ named[r] = n
  BY <1>1, <1>2 DEF Accounted, AccountedIn, Needed
<1>4. n # None
  BY <1>0, <1>1 DEF Typed, TypeOK, Avatars, Folders
<1> QED BY <1>3, <1>4 DEF In, Has

\* The file a row names exists: for the rows of a tenant always, for a center
\* while its requests come one by one and nobody deletes it, whatever fails, for
\* a user whenever nothing is on its way and nothing has failed.  (User.save and
\* the avatar endpoints, Center.save with its deletion after the commit.)
THEOREM FilesStayThere == Spec => []FilesExist
<1> DEFINE Inv == IInv /\ TenantFiles /\ Files
<1>1. Init => Inv
  BY IInvAtStart
<1>2. Inv /\ [Next]_vars => Inv'
  BY IInvKept, TenantFilesKept, FilesKept DEF IInv
<1>3. Inv => FilesExist
  BY FilesAreThere
<1> QED BY <1>1, <1>2, <1>3, PTL DEF Spec

\* No avatar is left behind, even after a center is deleted with its users,
\* where the requests come one by one and none fails.
THEOREM NoFileIsLeftBehind == Spec => []NoOrphans
<1> DEFINE Inv == IInv /\ Accounted
<1>1. Init => Inv
  BY IInvAtStart
<1>2. Inv /\ [Next]_vars => Inv'
  BY IInvKept, AccountedKept DEF IInv
<1>3. Inv => NoOrphans
  BY NobodyLeavesFiles
<1> QED BY <1>1, <1>2, <1>3, PTL DEF Spec
=============================================================================
