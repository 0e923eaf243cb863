---------------------------- MODULE AccessProofs ----------------------------
(***************************************************************************)
(* Theorems about who works where and as whom: about TenantSchema without  *)
(* a pooler, for every number of threads, tasks and tenants and every      *)
(* depth of nesting, and about Accounts, for any accounts, requests, mails *)
(* and loads.                                                              *)
(***************************************************************************)
EXTENDS TenantSchema, Accounts, SequenceTheorems, TLAPS

-----------------------------------------------------------------------------
(* The invariant of one handler, over the values of its context variable   *)
(* c, the schema wanted w, its blocks b, its abort flag a and the          *)
(* search_path p of its own session.                                       *)

Atomic(b, i) == b[i].kind = "atomic"

\* Every block saved the schema wanted around it, or public.
SavedWell(b) == \A i \in 1..Len(b) : b[i].saved \in {b[i].outer, Public}

\* An atomic block does not change the schema wanted.
AtomicKeepsWant(w, b) ==
  \A i \in 1..Len(b) :
    Atomic(b, i) => b[i].outer = IF i = Len(b) THEN w ELSE b[i + 1].outer

\* A rollback brings back the tenant the context variable names: now, ...
RollbackFits(c, b) ==
  \A i \in 1..Len(b) :
    /\ Atomic(b, i) /\ c \in Tenants
    /\ \A k \in (i + 1)..Len(b) : Atomic(b, k)
    => b[i].saved = c

\* ... and once the schema block around it has restored it.
RestoreFits(b) ==
  \A i, j \in 1..Len(b) :
    /\ i < j /\ Atomic(b, i) /\ ~Atomic(b, j) /\ b[j].saved \in Tenants
    /\ \A k \in (i + 1)..(j - 1) : Atomic(b, k)
    => b[i].saved = b[j].saved

Local(c, w, b, a, p) ==
  /\ SavedWell(b) /\ AtomicKeepsWant(w, b)
  /\ RollbackFits(c, b) /\ RestoreFits(b)
  /\ c \in {w, Public}
  /\ a => \E i \in 1..Len(b) : Atomic(b, i)
  /\ ~a => p \in {w, Public}
  /\ ~a /\ c \in Tenants => p = c

\* The schema wanted outside all blocks.
Base(w, b) == IF Len(b) = 0 THEN w ELSE b[1].outer

Safe(h) ==
  /\ Local(ctx[h], want[h], blocks[h], aborted[h], path[Own[h]])
  /\ h \in Tasks => Base(want[h], blocks[h]) = Public
  /\ phase[h] # "body" => blocks[h] = <<>> /\ want[h] = Public

IInv == TenantTypeOK /\ conn = Own /\ \A h \in Handlers : Safe(h)

Direct == ~Pooled

-----------------------------------------------------------------------------
(* Sequences of blocks.                                                    *)

\* Entering a block adds it at the end.
LEMMA PushFacts ==
  ASSUME NEW b \in Seq(Block), NEW x \in Block
  PROVE  /\ Append(b, x) \in Seq(Block)
         /\ Len(Append(b, x)) = Len(b) + 1
         /\ Append(b, x)[Len(b) + 1] = x
         /\ \A i \in 1..Len(b) : Append(b, x)[i] = b[i]
OBVIOUS

\* Leaving one takes the last away.
LEMMA PopFacts ==
  ASSUME NEW b \in Seq(Block), Len(b) > 0
  PROVE  /\ SubSeq(b, 1, Len(b) - 1) \in Seq(Block)
         /\ Len(SubSeq(b, 1, Len(b) - 1)) = Len(b) - 1
         /\ \A i \in 1..(Len(b) - 1) : SubSeq(b, 1, Len(b) - 1)[i] = b[i]
         /\ b[Len(b)] \in Block
<1>1. Len(b) \in Nat /\ \A i \in 1..(Len(b) - 1) : b[i] \in Block
  OBVIOUS
<1> DEFINE n == Len(b) - 1
           d == SubSeq(b, 1, n)
<1>2. 1 \in Int /\ n \in Int /\ \A i \in 1..n : b[i] \in Block
  BY <1>1
<1>3. /\ d \in Seq(Block) /\ Len(d) = IF 1 <= n THEN n - 1 + 1 ELSE 0
      /\ \A i \in 1..(n - 1 + 1) : d[i] = b[1 + i - 1]
  <2> HIDE DEF n
  <2>1. QED
    BY <1>2, SubSeqProperties
<1>4. n \in Nat /\ b[Len(b)] \in Block
  BY <1>1
<1>5. Len(d) = n /\ \A i \in 1..n : d[i] = b[i]
  <2> HIDE DEF d, n
  <2>1. QED
    BY <1>3, <1>4
<1>6. QED
  BY <1>3, <1>4, <1>5

-----------------------------------------------------------------------------
(* What each operation does to the invariant of its handler.               *)

\* Outside all blocks, on a session that was just set to the schema wanted.
LEMMA FreshLocal ==
  ASSUME NEW w \in Schemas, NEW c \in {w, Public}, NEW p \in {w, Public},
         c \in Tenants => p = c
  PROVE  Local(c, w, <<>>, FALSE, p)
BY DEF Local, SavedWell, AtomicKeepsWant, RollbackFits, RestoreFits

\* A schema block is entered: the context, and outside an aborted transaction
\* the session, follow.
LEMMA EnterLocal ==
  ASSUME NEW c \in Schemas, NEW w \in Schemas, NEW b \in Seq(Block),
         NEW a \in BOOLEAN, NEW p \in Schemas, NEW x \in Schemas,
         NEW q \in Schemas, Local(c, w, b, a, p),
         a => x = Public, ~a => q = x
  PROVE  Local(x, x, Append(b, [kind |-> "schema", saved |-> c, outer |-> w]), a, q)
<1> DEFINE n == [kind |-> "schema", saved |-> c, outer |-> w]
           d == Append(b, n)
<1>1. n \in Block
  BY DEF Block
<1>2. /\ Len(d) = Len(b) + 1 /\ d[Len(b) + 1] = n /\ Len(b) \in Nat
      /\ \A i \in 1..Len(b) : d[i] = b[i]
  BY <1>1, PushFacts
<1>3. ~Atomic(d, Len(d)) /\ \A i \in 1..Len(b) : Atomic(d, i) <=> Atomic(b, i)
  BY <1>2 DEF Atomic
<1> HIDE DEF d
<1>4. SavedWell(d)
  BY <1>2 DEF Local, SavedWell
<1>5. AtomicKeepsWant(x, d)
  <2> SUFFICES ASSUME NEW i \in 1..Len(d), Atomic(d, i)
               PROVE  d[i].outer = IF i = Len(d) THEN x ELSE d[i + 1].outer
    BY DEF AtomicKeepsWant
  <2>1. i \in 1..Len(b) /\ Atomic(b, i)
    BY <1>2, <1>3
  <2>2. b[i].outer = IF i = Len(b) THEN w ELSE b[i + 1].outer
    BY <2>1 DEF Local, AtomicKeepsWant
  <2>3. QED
    BY <1>2, <2>1, <2>2
<1>6. RollbackFits(x, d)
  BY <1>2, <1>3 DEF RollbackFits
<1>7. RestoreFits(d)
  <2> SUFFICES ASSUME NEW i \in 1..Len(d), NEW j \in 1..Len(d), i < j,
                      Atomic(d, i), ~Atomic(d, j), d[j].saved \in Tenants,
                      \A k \in (i + 1)..(j - 1) : Atomic(d, k)
               PROVE  d[i].saved = d[j].saved
    BY DEF RestoreFits
  <2>1. i \in 1..Len(b) /\ Atomic(b, i) /\ d[i] = b[i]
    BY <1>2, <1>3
  <2>2. CASE j = Len(d)
    <3>1. \A k \in (i + 1)..Len(b) : Atomic(b, k)
      BY <1>2, <1>3, <2>1, <2>2
    <3>2. QED
      BY <1>2, <2>1, <2>2, <3>1 DEF Local, RollbackFits
  <2>3. CASE j # Len(d)
    <3>1. j \in 1..Len(b) /\ ~Atomic(b, j) /\ d[j] = b[j]
      BY <1>2, <1>3, <2>3
    <3>2. \A k \in (i + 1)..(j - 1) : Atomic(b, k)
      BY <1>2, <1>3, <2>1, <3>1
    <3>3. QED
      BY <2>1, <3>1, <3>2 DEF Local, RestoreFits
  <2>4. QED
    BY <2>2, <2>3
<1>8. a => \E i \in 1..Len(d) : Atomic(d, i)
  BY <1>2, <1>3 DEF Local
<1>9. QED
  BY <1>4, <1>5, <1>6, <1>7, <1>8 DEF Local, d, n

\* BEGIN or SAVEPOINT: the session's search_path is what a rollback restores.
LEMMA BeginLocal ==
  ASSUME NEW c \in Schemas, NEW w \in Schemas, NEW b \in Seq(Block),
         NEW p \in Schemas, Local(c, w, b, FALSE, p)
  PROVE  Local(c, w, Append(b, [kind |-> "atomic", saved |-> p, outer |-> w]), FALSE, p)
<1> DEFINE n == [kind |-> "atomic", saved |-> p, outer |-> w]
           d == Append(b, n)
<1>1. n \in Block
  BY DEF Block
<1>2. /\ Len(d) = Len(b) + 1 /\ d[Len(b) + 1] = n /\ Len(b) \in Nat
      /\ \A i \in 1..Len(b) : d[i] = b[i]
  BY <1>1, PushFacts
<1>3. Atomic(d, Len(d)) /\ \A i \in 1..Len(b) : Atomic(d, i) <=> Atomic(b, i)
  BY <1>2 DEF Atomic
<1> HIDE DEF d
<1>4. SavedWell(d)
  BY <1>2 DEF Local, SavedWell
<1>5. AtomicKeepsWant(w, d)
  <2> SUFFICES ASSUME NEW i \in 1..Len(d), Atomic(d, i)
               PROVE  d[i].outer = IF i = Len(d) THEN w ELSE d[i + 1].outer
    BY DEF AtomicKeepsWant
  <2>1. CASE i = Len(d)
    BY <1>2, <2>1
  <2>2. CASE i # Len(d)
    <3>1. i \in 1..Len(b) /\ Atomic(b, i)
      BY <1>2, <1>3, <2>2
    <3>2. b[i].outer = IF i = Len(b) THEN w ELSE b[i + 1].outer
      BY <3>1 DEF Local, AtomicKeepsWant
    <3>3. QED
      BY <1>2, <2>2, <3>1, <3>2
  <2>3. QED
    BY <2>1, <2>2
<1>6. RollbackFits(c, d)
  <2> SUFFICES ASSUME NEW i \in 1..Len(d), Atomic(d, i), c \in Tenants,
                      \A k \in (i + 1)..Len(d) : Atomic(d, k)
               PROVE  d[i].saved = c
    BY DEF RollbackFits
  <2>1. CASE i = Len(d)
    BY <1>2, <2>1 DEF Local
  <2>2. CASE i # Len(d)
    <3>1. i \in 1..Len(b) /\ Atomic(b, i) /\ \A k \in (i + 1)..Len(b) : Atomic(b, k)
      BY <1>2, <1>3, <2>2
    <3>2. QED
      BY <1>2, <3>1 DEF Local, RollbackFits
  <2>3. QED
    BY <2>1, <2>2
<1>7. RestoreFits(d)
  <2> SUFFICES ASSUME NEW i \in 1..Len(d), NEW j \in 1..Len(d), i < j,
                      Atomic(d, i), ~Atomic(d, j), d[j].saved \in Tenants,
                      \A k \in (i + 1)..(j - 1) : Atomic(d, k)
               PROVE  d[i].saved = d[j].saved
    BY DEF RestoreFits
  <2>1. j \in 1..Len(b) /\ i \in 1..Len(b)
    BY <1>2, <1>3
  <2>2. /\ Atomic(b, i) /\ ~Atomic(b, j) /\ b[i] = d[i] /\ b[j] = d[j]
        /\ \A k \in (i + 1)..(j - 1) : Atomic(b, k)
    BY <1>2, <1>3, <2>1
  <2>3. QED
    BY <2>1, <2>2 DEF Local, RestoreFits
<1>8. QED
  BY <1>4, <1>5, <1>6, <1>7 DEF Local, d, n

\* Leaving a block, the part of the invariant that is about the blocks left.
LEMMA PopLocal ==
  ASSUME NEW c \in Schemas, NEW w \in Schemas, NEW b \in Seq(Block), Len(b) > 0,
         NEW a \in BOOLEAN, NEW p \in Schemas, Local(c, w, b, a, p),
         NEW e \in Schemas, e \in {Public, IF Atomic(b, Len(b)) THEN c ELSE b[Len(b)].saved}
  PROVE  LET d == SubSeq(b, 1, Len(b) - 1)
             v == b[Len(b)].outer
         IN  /\ SavedWell(d) /\ AtomicKeepsWant(v, d)
             /\ RollbackFits(e, d) /\ RestoreFits(d)
             /\ v \in Schemas /\ Base(v, d) = Base(w, b)
             /\ Atomic(b, Len(b)) => v = w
             /\ b[Len(b)].saved \in {v, Public}
<1> DEFINE d == SubSeq(b, 1, Len(b) - 1)
           v == b[Len(b)].outer
<1>1. /\ Len(d) = Len(b) - 1 /\ Len(b) \in Nat \ {0} /\ Len(b) \in 1..Len(b)
      /\ \A i \in 1..Len(d) : d[i] = b[i] /\ i \in 1..Len(b)
      /\ b[Len(b)] \in Block
  BY PopFacts
<1>2. \A i \in 1..Len(d) : Atomic(d, i) <=> Atomic(b, i)
  BY <1>1 DEF Atomic
<1> HIDE DEF d
<1>3. SavedWell(d)
  BY <1>1 DEF Local, SavedWell
<1>4. AtomicKeepsWant(v, d)
  <2> SUFFICES ASSUME NEW i \in 1..Len(d), Atomic(d, i)
               PROVE  d[i].outer = IF i = Len(d) THEN v ELSE d[i + 1].outer
    BY DEF AtomicKeepsWant
  <2>1. Atomic(b, i) /\ i \in 1..Len(b) /\ i # Len(b)
    BY <1>1, <1>2
  <2>2. b[i].outer = b[i + 1].outer
    BY <2>1 DEF Local, AtomicKeepsWant
  <2>3. i # Len(d) => d[i + 1] = b[i + 1]
    BY <1>1
  <2>4. i = Len(d) => i + 1 = Len(b)
    BY <1>1
  <2>5. QED
    BY <1>1, <2>2, <2>3, <2>4
<1>5. RollbackFits(e, d)
  <2> SUFFICES ASSUME NEW i \in 1..Len(d), Atomic(d, i), e \in Tenants,
                      \A k \in (i + 1)..Len(d) : Atomic(d, k)
               PROVE  d[i].saved = e
    BY DEF RollbackFits
  <2>1. /\ i \in 1..Len(b) /\ i < Len(b) /\ Atomic(b, i) /\ d[i] = b[i]
        /\ \A k \in (i + 1)..(Len(b) - 1) : Atomic(b, k)
    BY <1>1, <1>2
  <2>2. e # Public
    BY SchemasAssumption
  <2>3. CASE Atomic(b, Len(b))
    <3>1. \A k \in (i + 1)..Len(b) : Atomic(b, k)
      BY <1>1, <2>1, <2>3
    <3>2. QED
      BY <2>1, <2>2, <2>3, <3>1 DEF Local, RollbackFits
  <2>4. CASE ~Atomic(b, Len(b))
    BY <1>1, <2>1, <2>2, <2>4 DEF Local, RestoreFits
  <2>5. QED
    BY <2>3, <2>4
<1>6. RestoreFits(d)
  <2> SUFFICES ASSUME NEW i \in 1..Len(d), NEW j \in 1..Len(d), i < j,
                      Atomic(d, i), ~Atomic(d, j), d[j].saved \in Tenants,
                      \A k \in (i + 1)..(j - 1) : Atomic(d, k)
               PROVE  d[i].saved = d[j].saved
    BY DEF RestoreFits
  <2>1. /\ i \in 1..Len(b) /\ j \in 1..Len(b) /\ d[i] = b[i] /\ d[j] = b[j]
        /\ Atomic(b, i) /\ ~Atomic(b, j)
        /\ \A k \in (i + 1)..(j - 1) : Atomic(b, k)
    BY <1>1, <1>2
  <2>2. QED
    BY <2>1 DEF Local, RestoreFits
<1>7. v \in Schemas /\ b[Len(b)].saved \in {v, Public}
  BY <1>1 DEF Block, Local, SavedWell
<1>8. Atomic(b, Len(b)) => v = w
  BY <1>1 DEF Local, AtomicKeepsWant
<1>9. Base(v, d) = Base(w, b)
  BY <1>1 DEF Base
<1>10. QED
  BY <1>3, <1>4, <1>5, <1>6, <1>7, <1>8, <1>9 DEF d

\* The finally clause of a schema block restores what is wanted outside, or
\* on an aborted transaction leaves the context at public.
LEMMA ExitLocal ==
  ASSUME NEW c \in Schemas, NEW w \in Schemas, NEW b \in Seq(Block), Len(b) > 0,
         NEW a \in BOOLEAN, NEW p \in Schemas, Local(c, w, b, a, p),
         ~Atomic(b, Len(b))
  PROVE  LET d == SubSeq(b, 1, Len(b) - 1)
             v == b[Len(b)].outer
             s == b[Len(b)].saved
         IN  (~a => Local(s, v, d, a, s)) /\ (a => Local(Public, v, d, a, p))
<1> DEFINE d == SubSeq(b, 1, Len(b) - 1)
           v == b[Len(b)].outer
           s == b[Len(b)].saved
<1>1. s \in Schemas /\ Public \in Schemas /\ Public \notin Tenants
  BY PopFacts, SchemasAssumption DEF Block, Schemas
<1>2. /\ SavedWell(d) /\ AtomicKeepsWant(v, d) /\ RestoreFits(d)
      /\ RollbackFits(s, d) /\ s \in {v, Public}
  <2>1. s \in {Public, IF Atomic(b, Len(b)) THEN c ELSE b[Len(b)].saved}
    OBVIOUS
  <2>2. QED
    BY <1>1, <2>1, PopLocal
<1>3. RollbackFits(Public, d)
  BY <1>1 DEF RollbackFits
<1>4. a => \E i \in 1..Len(d) : Atomic(d, i)
  <2> SUFFICES ASSUME a PROVE \E i \in 1..Len(d) : Atomic(d, i)
    OBVIOUS
  <2>1. PICK i \in 1..Len(b) : Atomic(b, i)
    BY DEF Local
  <2>2. i \in 1..(Len(b) - 1) /\ d[i] = b[i] /\ Len(d) = Len(b) - 1
    <3>1. Len(b) \in Nat /\ i # Len(b)
      BY <2>1
    <3>2. QED
      BY <2>1, <3>1, PopFacts
  <2>3. QED
    BY <2>1, <2>2 DEF Atomic
<1>5. CASE ~a
  BY <1>2, <1>5 DEF Local
<1>6. CASE a
  BY <1>2, <1>3, <1>4, <1>6 DEF Local
<1>7. QED
  BY <1>5, <1>6

\* COMMIT keeps the session where it is; ROLLBACK takes it to a schema that
\* fits the context.
LEMMA EndAtomicLocal ==
  ASSUME NEW c \in Schemas, NEW w \in Schemas, NEW b \in Seq(Block), Len(b) > 0,
         NEW a \in BOOLEAN, NEW p \in Schemas, Local(c, w, b, a, p),
         Atomic(b, Len(b))
  PROVE  LET d == SubSeq(b, 1, Len(b) - 1)
             v == b[Len(b)].outer
             s == b[Len(b)].saved
         IN  (~a => Local(c, v, d, FALSE, p)) /\ Local(c, v, d, FALSE, s)
<1> DEFINE d == SubSeq(b, 1, Len(b) - 1)
           v == b[Len(b)].outer
           s == b[Len(b)].saved
<1>1. /\ SavedWell(d) /\ AtomicKeepsWant(v, d) /\ RestoreFits(d)
      /\ RollbackFits(c, d) /\ v = w /\ s \in {v, Public}
  <2>1. c \in {Public, IF Atomic(b, Len(b)) THEN c ELSE b[Len(b)].saved}
    OBVIOUS
  <2>2. QED
    BY <2>1, PopLocal
<1>2. c \in Tenants => s = c
  <2>1. Len(b) \in 1..Len(b) /\ \A k \in (Len(b) + 1)..Len(b) : Atomic(b, k)
    OBVIOUS
  <2>2. QED
    BY <2>1 DEF Local, RollbackFits
<1>3. QED
  BY <1>1, <1>2 DEF Local

-----------------------------------------------------------------------------
(* Steps.                                                                  *)

\* Without a pooler a statement of h runs on h's own session.
LEMMA UsableOwn ==
  ASSUME IInv, NEW h \in Handlers
  PROVE  Usable(h) = {Own[h]} /\ Own[h] \in Servers /\ path[Own[h]] \in Schemas
BY OwnAssumption, SchemasAssumption DEF IInv, TenantTypeOK, Usable

\* A step of h gives its variables and its own session these values.
Moves(h, c, w, b, a, p, f) ==
  /\ conn' = conn
  /\ path' = [path EXCEPT ![Own[h]] = p]
  /\ ctx' = [ctx EXCEPT ![h] = c]
  /\ want' = [want EXCEPT ![h] = w]
  /\ blocks' = [blocks EXCEPT ![h] = b]
  /\ aborted' = [aborted EXCEPT ![h] = a]
  /\ phase' = [phase EXCEPT ![h] = f]

\* Such a step keeps the invariant if the values do.
LEMMA HandlerStep ==
  ASSUME IInv, NEW h \in Handlers, NEW c \in Schemas, NEW w \in Schemas,
         NEW b \in Seq(Block), NEW a \in BOOLEAN, NEW p \in Schemas,
         NEW f \in {"idle", "auth", "body"},
         Len(b) <= MaxDepth, Local(c, w, b, a, p),
         h \in Tasks => Base(w, b) = Public,
         f # "body" => b = <<>> /\ w = Public,
         Moves(h, c, w, b, a, p, f)
  PROVE  IInv'
<1>1. Own \in [Handlers -> Servers] /\ \A g \in Handlers : Own[g] = Own[h] => g = h
  BY OwnAssumption
<1>2. TenantTypeOK'
  BY <1>1 DEF IInv, TenantTypeOK, Depth, Moves
<1>3. ASSUME NEW g \in Handlers PROVE Safe(g)'
  <2>1. CASE g = h
    <3>1. /\ path'[Own[h]] = p /\ ctx'[h] = c /\ want'[h] = w /\ blocks'[h] = b
          /\ aborted'[h] = a /\ phase'[h] = f
      BY <1>1 DEF IInv, TenantTypeOK, Moves
    <3>2. QED
      BY <2>1, <3>1 DEF Safe, Moves
  <2>2. CASE g # h
    <3>1. /\ path'[Own[g]] = path[Own[g]] /\ ctx'[g] = ctx[g] /\ want'[g] = want[g]
          /\ blocks'[g] = blocks[g] /\ aborted'[g] = aborted[g] /\ phase'[g] = phase[g]
      BY <1>1, <2>2 DEF IInv, TenantTypeOK, Moves
    <3>2. QED
      BY <3>1 DEF Safe, IInv, Moves
  <2>3. QED
    BY <2>1, <2>2
<1>4. QED
  BY <1>2, <1>3 DEF IInv, Moves

\* What the invariant says of the handler that takes a step.
LEMMA HandlerFacts ==
  ASSUME IInv, NEW h \in Handlers
  PROVE  /\ ctx[h] \in Schemas /\ want[h] \in Schemas /\ blocks[h] \in Seq(Block)
         /\ aborted[h] \in BOOLEAN /\ phase[h] \in {"idle", "auth", "body"}
         /\ Depth(h) <= MaxDepth /\ Depth(h) \in Nat
         /\ Local(ctx[h], want[h], blocks[h], aborted[h], path[Own[h]])
         /\ h \in Tasks => Base(want[h], blocks[h]) = Public
         /\ phase[h] # "body" => blocks[h] = <<>> /\ want[h] = Public
         /\ blocks[h] = <<>> => aborted[h] = FALSE
BY DEF IInv, TenantTypeOK, Safe, Depth, Local

\* Outside all blocks a step that ends on public, or on the tenant of the user,
\* with nothing left of the blocks, is safe.
LEMMA FreshStep ==
  ASSUME IInv, NEW h \in Handlers, NEW x \in Schemas,
         NEW f \in {"idle", "auth", "body"},
         h \in Tasks => x = Public, f # "body" => x = Public,
         Moves(h, x, x, <<>>, FALSE, x, f)
  PROVE  IInv'
<1>1. Local(x, x, <<>>, FALSE, x) /\ Base(x, <<>>) = x
  BY FreshLocal DEF Base
<1>2. <<>> \in Seq(Block) /\ Len(<<>>) <= MaxDepth
  BY DepthAssumption
<1>3. QED
  BY <1>1, <1>2, HandlerStep

\* The steps of a request outside its blocks.
LEMMA RequestSafe ==
  ASSUME IInv, NEW h \in WebThreads, RequestStep(h)
  PROVE  IInv'
<1>1. /\ h \in Handlers /\ h \notin Tasks /\ Public \in Schemas
      /\ \A t \in Tenants : t \in Schemas
  BY HandlersAssumption DEF Handlers, Schemas
<1>2. Usable(h) = {Own[h]}
  BY <1>1, UsableOwn
<1>3. blocks[h] = <<>> => aborted[h] = FALSE
  BY <1>1, HandlerFacts
<1>4. phase[h] # "body" => blocks[h] = <<>> /\ want[h] = Public
  BY <1>1, HandlerFacts
<1>5. CASE BeginRequest(h)
  <2>1. Moves(h, Public, Public, <<>>, FALSE, Public, "auth")
    BY <1>1, <1>2, <1>3, <1>4, <1>5
    DEF BeginRequest, Moves, Set, Ctx, Phase, IInv, TenantTypeOK
  <2>2. QED
    BY <1>1, <2>1, FreshStep
<1>6. CASE StayPublic(h)
  <2>1. Moves(h, Public, Public, <<>>, FALSE, Public, "body")
    BY <1>1, <1>2, <1>3, <1>4, <1>6
    DEF StayPublic, Moves, Set, Ctx, Phase, IInv, TenantTypeOK
  <2>2. QED
    BY <1>1, <2>1, FreshStep
<1>7. CASE EndRequest(h)
  <2>1. Moves(h, Public, Public, <<>>, FALSE, Public, "idle")
    BY <1>1, <1>2, <1>3, <1>7
    DEF EndRequest, Moves, PathReset, Ctx, Want, Phase, IInv, TenantTypeOK
  <2>2. QED
    BY <1>1, <2>1, FreshStep
<1>8. CASE GoPublic(h)
  <2>1. Moves(h, Public, Public, <<>>, FALSE, Public, "body")
    BY <1>1, <1>2, <1>3, <1>8
    DEF GoPublic, Moves, Set, Ctx, Want, IInv, TenantTypeOK
  <2>2. QED
    BY <1>1, <2>1, FreshStep
<1>9. ASSUME NEW t \in Tenants, Authenticate(h, t) PROVE IInv'
  <2>1. path' = [path EXCEPT ![Own[h]] = t]
    BY <1>1, <1>2, <1>9 DEF Authenticate, IInv, TenantTypeOK
  <2>2. Moves(h, t, t, <<>>, FALSE, t, "body")
    BY <1>1, <1>3, <1>4, <1>9, <2>1
    DEF Authenticate, Moves, Ctx, Want, Phase, IInv, TenantTypeOK
  <2>3. QED
    BY <1>1, <2>2, FreshStep
<1>10. QED
  BY <1>5, <1>6, <1>7, <1>8, <1>9 DEF RequestStep

\* A task starts and ends without touching its session, or resets it.
LEMMA TaskSafe ==
  ASSUME IInv, NEW h \in Tasks, TaskStep(h)
  PROVE  IInv'
<1>1. h \in Handlers /\ Public \in Schemas
  BY DEF Handlers, Schemas
<1>2. /\ ctx[h] \in Schemas /\ want[h] \in Schemas /\ blocks[h] \in Seq(Block)
      /\ aborted[h] \in BOOLEAN /\ path[Own[h]] \in Schemas
      /\ Len(blocks[h]) <= MaxDepth
      /\ Local(ctx[h], want[h], blocks[h], aborted[h], path[Own[h]])
      /\ Base(want[h], blocks[h]) = Public
  BY <1>1, HandlerFacts, UsableOwn DEF Depth
<1>3. ASSUME NEW f \in {"idle", "body"}, f = "idle" => blocks[h] = <<>>,
             phase' = [phase EXCEPT ![h] = f],
             UNCHANGED <<path, conn, ctx, want, blocks, aborted>>
      PROVE  IInv'
  <2>1. Moves(h, ctx[h], want[h], blocks[h], aborted[h], path[Own[h]], f)
    BY <1>1, <1>3, OwnAssumption DEF Moves, IInv, TenantTypeOK
  <2>2. f # "body" => blocks[h] = <<>> /\ want[h] = Public
    BY <1>2, <1>3 DEF Base
  <2>3. f \in {"idle", "auth", "body"}
    BY <1>3
  <2>4. QED
    BY <1>1, <1>2, <2>1, <2>2, <2>3, HandlerStep
<1>4. CASE BeginTask(h)
  BY <1>3, <1>4 DEF BeginTask, Phase
<1>5. CASE EndTask(h)
  BY <1>3, <1>5 DEF EndTask, Phase
<1>6. CASE GoPublic(h)
  <2>1. blocks[h] = <<>> /\ aborted[h] = FALSE /\ Usable(h) = {Own[h]}
    BY <1>1, <1>6, HandlerFacts, UsableOwn DEF GoPublic
  <2>2. Moves(h, Public, Public, <<>>, FALSE, Public, "body")
    BY <1>1, <1>6, <2>1 DEF GoPublic, Moves, Set, Ctx, Want, IInv, TenantTypeOK
  <2>3. QED
    BY <1>1, <2>2, FreshStep
<1>7. QED
  BY <1>4, <1>5, <1>6 DEF TaskStep

\* Entering and leaving schema blocks.
LEMMA BlockSafe ==
  ASSUME IInv, NEW h \in Handlers, BlockStep(h)
  PROVE  IInv'
<1> DEFINE c == ctx[h]
           w == want[h]
           b == blocks[h]
           a == aborted[h]
           p == path[Own[h]]
<1>1. /\ c \in Schemas /\ w \in Schemas /\ b \in Seq(Block) /\ a \in BOOLEAN
      /\ p \in Schemas /\ Public \in Schemas /\ Len(b) \in Nat /\ Len(b) <= MaxDepth
      /\ Local(c, w, b, a, p) /\ (h \in Tasks => Base(w, b) = Public)
      /\ phase[h] \in {"idle", "auth", "body"}
      /\ phase[h] # "body" => b = <<>> /\ w = Public
  BY HandlerFacts, UsableOwn DEF Depth, Schemas
<1>2. Usable(h) = {Own[h]} /\ path = [path EXCEPT ![Own[h]] = p]
      /\ phase = [phase EXCEPT ![h] = phase[h]] /\ aborted = [aborted EXCEPT ![h] = a]
      /\ want = [want EXCEPT ![h] = w] /\ blocks = [blocks EXCEPT ![h] = b]
  BY UsableOwn DEF IInv, TenantTypeOK
<1>3. ASSUME NEW x \in Schemas, NEW q \in Schemas, CanEnter(h),
             a => x = Public, ~a => q = x,
             Moves(h, x, x, Append(b, [kind |-> "schema", saved |-> c, outer |-> w]),
                   a, q, "body")
      PROVE  IInv'
  <2> DEFINE n == [kind |-> "schema", saved |-> c, outer |-> w]
             d == Append(b, n)
  <2>1. Local(x, x, d, a, q)
    BY <1>1, <1>3, EnterLocal
  <2>2. n \in Block /\ n.outer = w
    BY <1>1 DEF Block
  <2>3. d \in Seq(Block) /\ Len(d) = Len(b) + 1 /\ d[Len(b) + 1] = n
        /\ \A i \in 1..Len(b) : d[i] = b[i]
    BY <1>1, <2>2, PushFacts
  <2>4. Len(d) <= MaxDepth
    BY <1>1, <1>3, <2>3, DepthAssumption DEF CanEnter, Depth
  <2>5. Base(x, d) = Base(w, b)
    BY <1>1, <2>2, <2>3 DEF Base
  <2> HIDE DEF d
  <2>6. Moves(h, x, x, d, a, q, "body")
    BY <1>3 DEF d
  <2>7. QED
    BY <1>1, <1>3, <2>1, <2>3, <2>4, <2>5, <2>6, HandlerStep
<1>4. ASSUME NEW x \in Schemas, Enter(h, x) PROVE IInv'
  <2>1. Moves(h, x, x, Append(b, [kind |-> "schema", saved |-> c, outer |-> w]),
              a, x, "body")
    BY <1>2, <1>4 DEF Enter, CanEnter, Moves, Set, Push, Ctx, Want
  <2>2. QED
    BY <1>3, <1>4, <2>1 DEF Enter
<1>5. CASE EnterPublicAborted(h)
  <2>1. Moves(h, Public, Public,
              Append(b, [kind |-> "schema", saved |-> c, outer |-> w]), a, p, "body")
    BY <1>2, <1>5 DEF EnterPublicAborted, CanEnter, Moves, Push, Ctx, Want
  <2>2. QED
    BY <1>1, <1>3, <1>5, <2>1 DEF EnterPublicAborted
<1>6. CASE EnterTenantAborted(h)
  <2>1. Moves(h, Public, w, b, a, p, phase[h])
    BY <1>2, <1>6 DEF EnterTenantAborted, Moves, Ctx
  <2>2. Local(Public, w, b, a, p)
    BY <1>1, <1>6, SchemasAssumption
    DEF EnterTenantAborted, Local, RollbackFits
  <2>3. QED
    BY <1>1, <2>1, <2>2, HandlerStep
<1>7. CASE Exit(h)
  <2> DEFINE d == SubSeq(b, 1, Len(b) - 1)
             v == b[Len(b)].outer
             s == b[Len(b)].saved
  <2>1. Len(b) > 0 /\ ~Atomic(b, Len(b))
    BY <1>7 DEF Exit, In, Top, Depth, Atomic
  <2>2. d \in Seq(Block) /\ Len(d) <= MaxDepth /\ s \in Schemas
    <3>1. d \in Seq(Block) /\ Len(d) = Len(b) - 1 /\ b[Len(b)] \in Block
      BY <1>1, <2>1, PopFacts
    <3>2. s \in Schemas
      BY <3>1 DEF Block
    <3> HIDE DEF d, s
    <3>3. QED
      BY <1>1, <3>1, <3>2, DepthAssumption
  <2>3. v \in Schemas /\ Base(v, d) = Base(w, b)
    <3>1. Public \in {Public, IF Atomic(b, Len(b)) THEN c ELSE b[Len(b)].saved}
      OBVIOUS
    <3>2. QED
      BY <1>1, <2>1, <3>1, PopLocal
  <2>4. (~a => Local(s, v, d, a, s)) /\ (a => Local(Public, v, d, a, p))
    BY <1>1, <2>1, ExitLocal
  <2>5. phase[h] = "body"
    BY <1>1, <2>1
  <2>6. blocks' = [blocks EXCEPT ![h] = d] /\ want' = [want EXCEPT ![h] = v]
    BY <1>7 DEF Exit, Pop, Want, Top, Outer, Depth
  <2>7. CASE a
    <3>1. Moves(h, Public, v, d, a, p, phase[h])
      BY <1>2, <1>7, <2>6, <2>7 DEF Exit, Moves, Ctx, CtxAfterError
    <3>2. Local(Public, v, d, a, p)
      BY <2>4, <2>7
    <3> HIDE DEF d, v
    <3>3. QED
      BY <1>1, <2>2, <2>3, <2>5, <3>1, <3>2, HandlerStep
  <2>8. CASE ~a
    <3>1. Moves(h, s, v, d, a, s, phase[h])
      BY <1>2, <1>7, <2>6, <2>8
      DEF Exit, Moves, Ctx, Set, Restored, Top, Depth
    <3> HIDE DEF d, v, s
    <3>2. QED
      BY <1>1, <2>2, <2>3, <2>4, <2>5, <2>8, <3>1, HandlerStep
  <2>9. QED
    BY <2>7, <2>8
<1>8. QED
  BY <1>4, <1>5, <1>6, <1>7 DEF BlockStep

\* Transactions, and the death of a process.
LEMMA TransactionSafe ==
  ASSUME Direct, IInv, NEW h \in Handlers, TransactionStep(h) \/ Kill(h)
  PROVE  IInv'
<1> DEFINE c == ctx[h]
           w == want[h]
           b == blocks[h]
           a == aborted[h]
           p == path[Own[h]]
<1>1. /\ c \in Schemas /\ w \in Schemas /\ b \in Seq(Block) /\ a \in BOOLEAN
      /\ p \in Schemas /\ Public \in Schemas /\ Len(b) \in Nat /\ Len(b) <= MaxDepth
      /\ Local(c, w, b, a, p) /\ (h \in Tasks => Base(w, b) = Public)
      /\ phase[h] \in {"idle", "auth", "body"}
      /\ phase[h] # "body" => b = <<>> /\ w = Public
  BY HandlerFacts, UsableOwn DEF Depth, Schemas
<1>2. /\ Usable(h) = {Own[h]} /\ path = [path EXCEPT ![Own[h]] = p]
      /\ ctx = [ctx EXCEPT ![h] = c] /\ phase = [phase EXCEPT ![h] = phase[h]]
      /\ aborted = [aborted EXCEPT ![h] = a] /\ want = [want EXCEPT ![h] = w]
      /\ blocks = [blocks EXCEPT ![h] = b]
  BY UsableOwn DEF IInv, TenantTypeOK
<1>3. conn[h] = Own[h] /\ conn = [conn EXCEPT ![h] = conn[h]] /\ conn = Own
  BY DEF IInv, TenantTypeOK
<1>4. CASE BeginAtomic(h)
  <2> DEFINE n == [kind |-> "atomic", saved |-> p, outer |-> w]
             d == Append(b, n)
  <2>1. a = FALSE /\ phase[h] = "body" /\ Len(b) < MaxDepth
    BY <1>1, <1>4 DEF BeginAtomic, CanEnter, Depth
  <2>2. Local(c, w, d, a, p)
    BY <1>1, <2>1, BeginLocal
  <2>3. n \in Block /\ n.outer = w
    BY <1>1 DEF Block
  <2>4. d \in Seq(Block) /\ Len(d) = Len(b) + 1 /\ d[Len(b) + 1] = n
        /\ \A i \in 1..Len(b) : d[i] = b[i]
    BY <1>1, <2>3, PushFacts
  <2>5. Base(w, d) = Base(w, b) /\ Len(d) <= MaxDepth
    BY <1>1, <2>1, <2>3, <2>4, DepthAssumption DEF Base
  <2>6. Moves(h, c, w, d, a, p, phase[h])
    BY <1>2, <1>3, <1>4 DEF BeginAtomic, Moves, Push
  <2> HIDE DEF d
  <2>7. QED
    BY <1>1, <2>1, <2>2, <2>4, <2>5, <2>6, HandlerStep
<1>5. CASE StatementFails(h)
  <2>1. Moves(h, c, w, b, TRUE, p, phase[h])
    BY <1>2, <1>5 DEF StatementFails, Moves
  <2>2. Local(c, w, b, TRUE, p)
    BY <1>1, <1>5 DEF StatementFails, InAtomic, Atomic, Depth, Local
  <2>3. QED
    BY <1>1, <2>1, <2>2, HandlerStep
<1>6. ASSUME Commit(h) \/ Rollback(h) PROVE IInv'
  <2> DEFINE d == SubSeq(b, 1, Len(b) - 1)
             v == b[Len(b)].outer
             s == b[Len(b)].saved
  <2>1. Len(b) > 0 /\ Atomic(b, Len(b))
    BY <1>6 DEF Commit, Rollback, In, Top, Depth, Atomic
  <2>2. d \in Seq(Block) /\ Len(d) <= MaxDepth /\ s \in Schemas
    <3>1. d \in Seq(Block) /\ Len(d) = Len(b) - 1 /\ b[Len(b)] \in Block
      BY <1>1, <2>1, PopFacts
    <3>2. s \in Schemas
      BY <3>1 DEF Block
    <3> HIDE DEF d, s
    <3>3. QED
      BY <1>1, <3>1, <3>2, DepthAssumption
  <2>3. v \in Schemas /\ Base(v, d) = Base(w, b)
    <3>1. Public \in {Public, IF Atomic(b, Len(b)) THEN c ELSE b[Len(b)].saved}
      OBVIOUS
    <3>2. QED
      BY <1>1, <2>1, <3>1, PopLocal
  <2>4. (~a => Local(c, v, d, FALSE, p)) /\ Local(c, v, d, FALSE, s)
    BY <1>1, <2>1, EndAtomicLocal
  <2>5. phase[h] = "body"
    BY <1>1, <2>1
  <2>6. /\ blocks' = [blocks EXCEPT ![h] = d] /\ want' = [want EXCEPT ![h] = v]
        /\ conn' = conn /\ ctx' = ctx /\ phase' = phase
    BY <1>3, <1>6 DEF Commit, Rollback, Pop, Want, Top, Outer, Depth, Released, Direct
  <2>7. CASE Commit(h)
    <3>1. Moves(h, c, v, d, FALSE, p, phase[h]) /\ ~a
      BY <1>1, <1>2, <2>6, <2>7 DEF Commit, Moves
    <3> HIDE DEF d, v
    <3>2. QED
      BY <1>1, <2>2, <2>3, <2>4, <2>5, <3>1, HandlerStep
  <2>8. CASE Rollback(h)
    <3>1. Moves(h, c, v, d, FALSE, s, phase[h])
      BY <1>2, <1>3, <2>6, <2>8 DEF Rollback, Moves, Set, Top, Depth
    <3> HIDE DEF d, v, s
    <3>2. QED
      BY <1>1, <2>2, <2>3, <2>4, <2>5, <3>1, HandlerStep
  <2>9. QED
    BY <1>6, <2>7, <2>8
<1>7. CASE Kill(h)
  <2>1. Moves(h, Public, Public, <<>>, FALSE, Public, "idle")
    BY <1>3, <1>7 DEF Kill, Moves, Direct, DefaultSchema, Want, Phase
  <2>2. QED
    BY <1>1, <2>1, FreshStep
<1>8. QED
  BY <1>4, <1>5, <1>6, <1>7 DEF TransactionStep

-----------------------------------------------------------------------------
(* Theorems.                                                               *)

\* The program starts with every session and context on public.
LEMMA InitSafe == Direct /\ TenantInit => IInv
<1> SUFFICES ASSUME Direct, TenantInit PROVE IInv
  OBVIOUS
<1>1. TenantTypeOK /\ conn = Own
  BY OwnAssumption, DepthAssumption
  DEF TenantInit, Direct, TenantTypeOK, DefaultSchema, Schemas, Depth
<1>2. ASSUME NEW h \in Handlers PROVE Safe(h)
  <2>1. Local(Public, Public, <<>>, FALSE, Public)
    BY FreshLocal DEF Schemas
  <2>2. path[Own[h]] = Public
    BY OwnAssumption DEF TenantInit
  <2>3. QED
    BY <2>1, <2>2 DEF TenantInit, Safe, DefaultSchema, Base
<1>3. QED
  BY <1>1, <1>2 DEF IInv

\* Every step keeps the invariant.
LEMMA NextSafe == Direct /\ IInv /\ [TenantNext]_tenantVars => IInv'
<1> SUFFICES ASSUME Direct, IInv, [TenantNext]_tenantVars PROVE IInv'
  OBVIOUS
<1>1. CASE UNCHANGED tenantVars
  BY <1>1 DEF tenantVars, IInv, TenantTypeOK, Safe, Depth
<1>2. ASSUME NEW h \in WebThreads, RequestStep(h) PROVE IInv'
  BY <1>2, RequestSafe
<1>3. ASSUME NEW h \in Tasks, TaskStep(h) PROVE IInv'
  BY <1>3, TaskSafe
<1>4. ASSUME NEW h \in Handlers, BlockStep(h) PROVE IInv'
  BY <1>4, BlockSafe
<1>5. ASSUME NEW h \in Handlers, TransactionStep(h) \/ Kill(h) PROVE IInv'
  BY <1>5, TransactionSafe
<1>6. QED
  BY <1>1, <1>2, <1>3, <1>4, <1>5 DEF TenantNext

\* The invariant holds in every reachable state.
LEMMA AlwaysSafe == ASSUME Direct PROVE TenantSpec => []IInv
<1>1. TenantInit => IInv
  BY InitSafe
<1>2. IInv /\ [TenantNext]_tenantVars => IInv'
  BY NextSafe
<1>3. QED
  BY <1>1, <1>2, PTL DEF TenantSpec

\* Without a pooler the variables keep their types.
THEOREM SessionsAreTyped == ASSUME Direct PROVE TenantSpec => []TenantTypeOK
<1>1. IInv => TenantTypeOK
  BY DEF IInv
<1>2. QED
  BY <1>1, AlwaysSafe, PTL

\* Without a pooler no statement ever works on the wrong tenant: a session is
\* on the schema the program asks for or, after a failed transaction, public.
THEOREM DirectIsolation == ASSUME Direct PROVE TenantSpec => []TenantIsolation
<1>1. IInv => TenantIsolation
  BY UsableOwn, HandlerFacts DEF TenantIsolation, Local
<1>2. QED
  BY <1>1, AlwaysSafe, PTL

\* Without a pooler get_current_schema() never names a tenant other than the
\* one the session is in.
THEOREM DirectContext == ASSUME Direct PROVE TenantSpec => []ContextIsTruthful
<1>1. IInv => ContextIsTruthful
  BY UsableOwn, HandlerFacts DEF ContextIsTruthful, Local
<1>2. QED
  BY <1>1, AlwaysSafe, PTL

\* Without a pooler every session is back on public between requests and tasks.
THEOREM DirectClean == ASSUME Direct PROVE TenantSpec => []CleanBetweenRequests
<1>1. ASSUME IInv, NEW h \in Handlers, phase[h] = "idle"
      PROVE  ctx[h] = Public /\ \A s \in Usable(h) : path[s] = Public
  <2>1. want[h] = Public /\ aborted[h] = FALSE
    BY <1>1, HandlerFacts
  <2>2. QED
    BY <1>1, <2>1, UsableOwn, HandlerFacts DEF Local
<1>2. IInv => CleanBetweenRequests
  BY <1>1 DEF CleanBetweenRequests
<1>3. QED
  BY <1>2, AlwaysSafe, PTL

-----------------------------------------------------------------------------
(* Where the program loses the schema it is in.                            *)

StepOf(h) == RequestStep(h) \/ TaskStep(h) \/ BlockStep(h) \/ TransactionStep(h) \/ Kill(h)

\* Every schema block entered saved what is wanted around it.
SavesOuter(b) == \A i \in 1..Len(b) : b[i].kind = "schema" => b[i].saved = b[i].outer

LEMMA NothingLost == \A h : ~Lost(h) <=> ctx[h] = want[h] /\ SavesOuter(blocks[h])
BY DEF Lost, SavesOuter, Depth

\* A step of g leaves the others where they are.
LEMMA OthersStay ==
  ASSUME IInv, NEW g \in Handlers, StepOf(g), NEW h \in Handlers, h # g
  PROVE  ctx'[h] = ctx[h] /\ want'[h] = want[h] /\ blocks'[h] = blocks[h]
<1>1. /\ ctx = [k \in Handlers |-> ctx[k]] /\ want = [k \in Handlers |-> want[k]]
      /\ blocks = [k \in Handlers |-> blocks[k]]
  BY DEF IInv, TenantTypeOK
<1>2. ctx' = ctx \/ \E x : ctx' = [ctx EXCEPT ![g] = x]
  BY DEF StepOf, RequestStep, TaskStep, BlockStep, TransactionStep, BeginRequest, StayPublic,
    EndRequest, GoPublic, Authenticate, BeginTask, EndTask, Enter, EnterPublicAborted,
    EnterTenantAborted, Exit, BeginAtomic, StatementFails, Commit, Rollback, Kill, Ctx
<1>3. want' = want \/ \E x : want' = [want EXCEPT ![g] = x]
  BY DEF StepOf, RequestStep, TaskStep, BlockStep, TransactionStep, BeginRequest, StayPublic,
    EndRequest, GoPublic, Authenticate, BeginTask, EndTask, Enter, EnterPublicAborted,
    EnterTenantAborted, Exit, BeginAtomic, StatementFails, Commit, Rollback, Kill, Want, Pop
<1>4. blocks' = blocks \/ \E x : blocks' = [blocks EXCEPT ![g] = x]
  BY DEF StepOf, RequestStep, TaskStep, BlockStep, TransactionStep, BeginRequest, StayPublic,
    EndRequest, GoPublic, Authenticate, BeginTask, EndTask, Enter, EnterPublicAborted,
    EnterTenantAborted, Exit, BeginAtomic, StatementFails, Commit, Rollback, Kill, Push, Pop
<1>5. QED
  BY <1>1, <1>2, <1>3, <1>4

\* Unless its transaction is aborted, a step of h keeps h where it should be.
LEMMA KeepsItsPlace ==
  ASSUME Direct, IInv, NEW h \in Handlers, StepOf(h), ~Lost(h), ~aborted[h]
  PROVE  ~Lost(h)'
<1> DEFINE w == want[h]
           b == blocks[h]
           d == SubSeq(b, 1, Len(b) - 1)
<1>1. /\ ctx = [k \in Handlers |-> ctx[k]] /\ want = [k \in Handlers |-> want[k]]
      /\ blocks = [k \in Handlers |-> blocks[k]] /\ b \in Seq(Block) /\ w \in Schemas
      /\ ctx[h] = w /\ SavesOuter(b)
      /\ phase[h] # "body" => b = <<>> /\ w = Public
      /\ AtomicKeepsWant(w, b)
  BY NothingLost, HandlerFacts DEF IInv, TenantTypeOK, Local
<1>2. SUFFICES ctx'[h] = want'[h] /\ SavesOuter(blocks'[h])
  BY DEF Lost, SavesOuter, Depth
<1>3. CASE BeginRequest(h) \/ StayPublic(h)
  BY <1>1, <1>3 DEF BeginRequest, StayPublic, Ctx
<1>4. CASE EndRequest(h) \/ GoPublic(h) \/ \E t \in Tenants : Authenticate(h, t)
  BY <1>1, <1>4 DEF EndRequest, GoPublic, Authenticate, Ctx, Want
<1>5. CASE BeginTask(h) \/ EndTask(h) \/ StatementFails(h)
  BY <1>1, <1>5 DEF BeginTask, EndTask, StatementFails
<1>6. ASSUME NEW n \in Block, n.kind = "schema" => n.saved = n.outer
      PROVE  SavesOuter(Append(b, n))
  BY <1>1, <1>6, PushFacts DEF SavesOuter
<1>7. Len(b) > 0 => SavesOuter(d)
  <2>1. SUFFICES ASSUME Len(b) > 0 PROVE SavesOuter(d)
    OBVIOUS
  <2>2. /\ Len(d) = Len(b) - 1 /\ Len(b) \in Nat
        /\ \A i \in 1..(Len(b) - 1) : d[i] = b[i]
    BY <1>1, <2>1, PopFacts
  <2> HIDE DEF d
  <2>3. QED
    BY <1>1, <2>2 DEF SavesOuter
<1>8. CASE \E x \in Schemas : Enter(h, x)
  <2>1. PICK x \in Schemas : Enter(h, x)
    BY <1>8
  <2> DEFINE n == [kind |-> "schema", saved |-> ctx[h], outer |-> w]
  <2>2. n \in Block /\ n.saved = n.outer
    BY <1>1 DEF Block
  <2>3. blocks'[h] = Append(b, n) /\ ctx'[h] = x /\ want'[h] = x
    BY <1>1, <2>1 DEF Enter, Push, Ctx, Want
  <2> HIDE DEF n
  <2>4. QED
    BY <1>6, <2>2, <2>3
<1>9. CASE BeginAtomic(h)
  <2>1. PICK s \in Usable(h) : Push(h, "atomic", path[s])
    BY <1>9 DEF BeginAtomic
  <2> DEFINE n == [kind |-> "atomic", saved |-> path[s], outer |-> w]
  <2>2. n \in Block /\ n.kind = "atomic"
    BY <1>1, <2>1, UsableOwn, OwnAssumption DEF Block, IInv, TenantTypeOK
  <2>3. blocks'[h] = Append(b, n) /\ ctx'[h] = w /\ want'[h] = w
    BY <1>1, <1>9, <2>1 DEF BeginAtomic, Push
  <2> HIDE DEF n
  <2>4. QED
    BY <1>6, <2>2, <2>3
<1>10. CASE Exit(h)
  <2>1. Len(b) > 0 /\ b[Len(b)].kind = "schema" /\ Len(b) \in Nat
    BY <1>1, <1>10 DEF Exit, In, Top, Depth
  <2>2. /\ blocks'[h] = d /\ want'[h] = b[Len(b)].outer /\ ctx'[h] = b[Len(b)].saved
    BY <1>1, <1>10 DEF Exit, Pop, Ctx, Want, Outer, Top, Depth, Restored
  <2>3. b[Len(b)].saved = b[Len(b)].outer
    BY <1>1, <2>1 DEF SavesOuter
  <2>4. QED
    BY <1>7, <2>1, <2>2, <2>3
<1>11. CASE Commit(h) \/ Rollback(h)
  <2>1. Len(b) > 0 /\ Atomic(b, Len(b)) /\ Len(b) \in Nat
    BY <1>1, <1>11 DEF Commit, Rollback, In, Top, Depth, Atomic
  <2>2. /\ blocks'[h] = d /\ want'[h] = b[Len(b)].outer /\ ctx'[h] = w
    BY <1>1, <1>11 DEF Commit, Rollback, Pop, Want, Outer, Top, Depth
  <2>3. b[Len(b)].outer = w
    BY <1>1, <2>1 DEF AtomicKeepsWant
  <2>4. QED
    BY <1>7, <2>1, <2>2, <2>3
<1>12. CASE Kill(h)
  BY <1>1, <1>12 DEF Kill, Want, DefaultSchema, SavesOuter
<1>13. ~EnterPublicAborted(h) /\ ~EnterTenantAborted(h)
  BY DEF EnterPublicAborted, EnterTenantAborted
<1>14. QED
  BY <1>3, <1>4, <1>5, <1>8, <1>9, <1>10, <1>11, <1>12, <1>13
  DEF StepOf, RequestStep, TaskStep, BlockStep, TransactionStep

\* Without a pooler the program loses the schema it is in only by opening or
\* closing a block on an aborted transaction.
THEOREM DirectLosses == ASSUME Direct PROVE TenantSpec => LostOnlyByAbort
<1> DEFINE Found == \A h \in Handlers : ~Lost(h) /\ Lost(h)' => aborted[h]
<1>1. IInv /\ [TenantNext]_tenantVars => [Found]_tenantVars
  <2>1. SUFFICES ASSUME IInv, TenantNext, NEW h \in Handlers, ~Lost(h), ~aborted[h]
                 PROVE  ~Lost(h)'
    OBVIOUS
  <2>2. PICK g \in Handlers : StepOf(g)
    BY <2>1 DEF TenantNext, StepOf, Handlers
  <2>3. CASE g = h
    BY <2>1, <2>2, <2>3, KeepsItsPlace
  <2>4. CASE g # h
    <3>1. ctx'[h] = ctx[h] /\ want'[h] = want[h] /\ blocks'[h] = blocks[h]
      BY <2>1, <2>2, <2>4, OthersStay
    <3>2. QED
      BY <2>1, <3>1 DEF Lost, Depth
  <2>5. QED
    BY <2>3, <2>4
<1>2. QED
  BY <1>1, AlwaysSafe, PTL DEF LostOnlyByAbort, TenantSpec

-----------------------------------------------------------------------------
(* Accounts.                                                               *)

Busy(q) == job[q] # Idle

\* A request works on an account that is stored, and keeps a copy of it; a
\* confirmation has its link.
Working ==
  \A q \in Requests : Busy(q) =>
    /\ job[q].op # "create" => job[q].copy # None /\ row[job[q].who] # None
    /\ job[q].op = "confirm" => job[q].link \in Links /\ link[job[q].link] # None

\* Passwords are numbered as they are made.
Numbered == \A u \in Users : row[u] # None => row[u].password <= sets

CopiesNumbered ==
  \A q \in Requests : Busy(q) /\ job[q].copy # None => job[q].copy.password <= sets

Inv == TypeOK /\ Working /\ Numbered /\ CopiesNumbered

USE AccountsAssumption, TrafficAssumption, NoneAssumption

LEMMA IdleIsNoJob == Idle \notin Job
  BY DEF Idle, Job, Ops, WholeRow

-----------------------------------------------------------------------------
(* Every step keeps the types.                                             *)

LEMMA BusyJob ==
  ASSUME TypeOK, NEW q \in Requests, Busy(q)
  PROVE  job[q] \in Job
  BY DEF TypeOK, Busy

LEMMA DoneIsBusy ==
  ASSUME NEW q \in Requests, NEW op \in Ops, Done(q, op)
  PROVE  Busy(q) /\ job[q].op = op
  BY DEF Done, Busy, Idle, Ops, WholeRow

LEMMA Loading ==
  ASSUME Inv, NEW q \in Requests, NEW op \in Ops, NEW u \in Users,
         NEW l \in Links \cup {None}, NEW sent \in SUBSET Decisions,
         Begin(q, op, u, l, sent),
         op # "create" => row[u] # None,
         op = "confirm" => l \in Links /\ link[l] # None
  PROVE  Inv'
<1> DEFINE j == [op |-> op, who |-> u, copy |-> row[u], link |-> l, sent |-> sent]
<1>1. job' = [job EXCEPT ![q] = j]
  BY DEF Begin
<1>2. UNCHANGED <<row, session, open, link, sets, traffic>>
  BY DEF Begin
<1>3. row[u] \in Account \cup {None}
  BY DEF Inv, TypeOK
<1>4. j \in Job
  BY <1>3 DEF Job
<1>5. TypeOK'
  BY <1>1, <1>2, <1>4 DEF Inv, TypeOK
<1>6. Working'
  <2> SUFFICES ASSUME NEW p \in Requests, Busy(p)'
               PROVE  /\ job'[p].op # "create" =>
                           job'[p].copy # None /\ row'[job'[p].who] # None
                      /\ job'[p].op = "confirm" =>
                           job'[p].link \in Links /\ link'[job'[p].link] # None
    BY DEF Working
  <2>1. CASE p = q
    <3>1. job'[p] = j
      BY <1>1, <2>1 DEF Inv, TypeOK
    <3>2. QED BY <3>1, <1>2
  <2>2. CASE p # q
    <3>1. job'[p] = job[p]
      BY <1>1, <2>2 DEF Inv, TypeOK
    <3>2. QED BY <3>1, <1>2 DEF Inv, Working, Busy
  <2>3. QED BY <2>1, <2>2
<1>7. Numbered'
  BY <1>2 DEF Inv, Numbered
<1>8. CopiesNumbered'
  <2> SUFFICES ASSUME NEW p \in Requests, Busy(p)', job'[p].copy # None
               PROVE  job'[p].copy.password <= sets'
    BY DEF CopiesNumbered
  <2>1. CASE p = q
    <3>1. job'[p] = j
      BY <1>1, <2>1 DEF Inv, TypeOK
    <3>2. QED BY <3>1, <1>2 DEF Inv, Numbered
  <2>2. CASE p # q
    <3>1. job'[p] = job[p]
      BY <1>1, <2>2 DEF Inv, TypeOK
    <3>2. QED BY <3>1, <1>2 DEF Inv, CopiesNumbered, Busy
  <2>3. QED BY <2>1, <2>2
<1>9. QED BY <1>5, <1>6, <1>7, <1>8 DEF Inv

\* What a save leaves of the invariant to show: the account it writes and the
\* links, when the request is done.
LEMMA Saving ==
  ASSUME Inv, NEW q \in Requests, Busy(q),
         job' = [job EXCEPT ![q] = Idle],
         NEW account \in Account, SaveRow(q, account),
         sets' \in 0..MaxSets, sets <= sets', account.password <= sets',
         link' \in [Links -> Link \cup {None}],
         \A l \in Links : link[l] # None => link'[l] # None
  PROVE  Inv'
<1>1. job[q].who \in Users
  BY BusyJob DEF Inv, Job
<1>2. /\ row' = [row EXCEPT ![job[q].who] = account]
      /\ UNCHANGED <<session, open, traffic>>
  BY DEF SaveRow
<1>3. TypeOK'
  BY <1>1, <1>2 DEF Inv, TypeOK
<1>4. account # None
  OBVIOUS
<1>5. \A u \in Users : row[u] # None => row'[u] # None
  BY <1>1, <1>2, <1>4 DEF Inv, TypeOK
<1>6. Working'
  <2> SUFFICES ASSUME NEW p \in Requests, Busy(p)'
               PROVE  /\ job'[p].op # "create" =>
                           job'[p].copy # None /\ row'[job'[p].who] # None
                      /\ job'[p].op = "confirm" =>
                           job'[p].link \in Links /\ link'[job'[p].link] # None
    BY DEF Working
  <2>1. p # q
    BY DEF Busy, Inv, TypeOK
  <2>2. job'[p] = job[p] /\ Busy(p)
    BY <2>1 DEF Busy, Inv, TypeOK
  <2>3. job[p].who \in Users
    BY <2>2, BusyJob DEF Inv, Job
  <2>4. QED BY <2>2, <2>3, <1>5 DEF Inv, Working
<1>7. Numbered'
  <2> SUFFICES ASSUME NEW u \in Users, row'[u] # None
               PROVE  row'[u].password <= sets'
    BY DEF Numbered
  <2>1. CASE u = job[q].who
    BY <2>1, <1>2 DEF Inv, TypeOK
  <2>2. CASE u # job[q].who
    <3>1. row'[u] = row[u] /\ row[u] \in Account
      BY <2>2, <1>2 DEF Inv, TypeOK
    <3>2. row[u].password <= sets /\ row[u].password \in Int /\ sets \in Int /\ sets' \in Int
      BY <3>1 DEF Inv, Numbered, TypeOK, Account, Passwords
    <3>3. QED BY <3>1, <3>2
  <2>3. QED BY <2>1, <2>2
<1>8. CopiesNumbered'
  <2> SUFFICES ASSUME NEW p \in Requests, Busy(p)', job'[p].copy # None
               PROVE  job'[p].copy.password <= sets'
    BY DEF CopiesNumbered
  <2>1. p # q
    BY DEF Busy, Inv, TypeOK
  <2>2. job'[p] = job[p] /\ Busy(p)
    BY <2>1 DEF Busy, Inv, TypeOK
  <2>3. job[p].copy \in Account /\ job[p].copy.password <= sets
    BY <2>2, BusyJob DEF Inv, Job, CopiesNumbered
  <2>4. job[p].copy.password \in Int /\ sets \in Int /\ sets' \in Int
    BY <2>3 DEF Account, Passwords, Inv, TypeOK
  <2>5. QED BY <2>2, <2>3, <2>4
<1>9. QED BY <1>3, <1>6, <1>7, <1>8 DEF Inv

\* What a request that has loaded an account can rely on when it saves.
LEMMA Loaded ==
  ASSUME Inv, NEW q \in Requests, NEW op \in Ops \ {"create"}, Done(q, op)
  PROVE  /\ Busy(q) /\ job[q].op = op /\ job' = [job EXCEPT ![q] = Idle]
         /\ job[q].who \in Users /\ job[q].sent \in SUBSET Decisions
         /\ job[q].copy \in Account /\ row[job[q].who] \in Account
         /\ row[job[q].who].password \in 0..sets /\ job[q].copy.password \in 0..sets
<1>1. Busy(q) /\ job[q].op = op
  BY DoneIsBusy
<1>2. job[q] \in Job
  BY <1>1, BusyJob DEF Inv
<1>3. job[q].who \in Users /\ job[q].sent \in SUBSET Decisions
      /\ job[q].copy \in Account \cup {None}
  BY <1>2 DEF Job
<1>4. job[q].copy # None /\ row[job[q].who] # None
  BY <1>1 DEF Inv, Working
<1>5. row[job[q].who] \in Account
  BY <1>3, <1>4 DEF Inv, TypeOK
<1>6. row[job[q].who].password \in 0..sets
  BY <1>3, <1>4, <1>5 DEF Inv, Numbered, TypeOK, Account, Passwords
<1>7. job[q].copy.password \in 0..sets
  BY <1>1, <1>3, <1>4 DEF Inv, CopiesNumbered, TypeOK, Account, Passwords
<1>8. QED BY <1>1, <1>3, <1>4, <1>5, <1>6, <1>7 DEF Done

LEMMA PasswordSaved ==
  ASSUME Inv, NEW q \in Requests, NEW op \in {"change", "confirm"},
         Done(q, op), SavePassword(q)
  PROVE  /\ row' = [row EXCEPT ![job[q].who].password = sets + 1]
         /\ WithPassword(q) \in Account /\ WithPassword(q).password = sets + 1
         /\ sets' = sets + 1 /\ sets' \in 0..MaxSets /\ sets <= sets'
<1>1. row[job[q].who] \in Account /\ job[q].who \in Users
  BY Loaded DEF Ops
<1>2. sets < MaxSets /\ sets \in Nat /\ sets' = sets + 1
  BY DEF SavePassword, Inv, TypeOK
<1>3. sets + 1 \in Passwords
  BY <1>2 DEF Passwords
<1>4. WithPassword(q) \in Account /\ WithPassword(q).password = sets + 1
  BY <1>1, <1>3 DEF WithPassword, Account
<1>5. row' = [row EXCEPT ![job[q].who].password = sets + 1]
  BY DEF SavePassword, SaveRow, WithPassword
<1>6. QED BY <1>2, <1>3, <1>4, <1>5 DEF Passwords

LEMMA LinksStay ==
  ASSUME Inv, UNCHANGED link
  PROVE  /\ link' \in [Links -> Link \cup {None}]
         /\ \A l \in Links : link[l] # None => link'[l] # None
  BY DEF Inv, TypeOK

LEMMA SaveKeepsInv ==
  ASSUME Inv, NEW q \in Requests, SaveStep(q)
  PROVE  Inv'
<1>1. CASE SaveProfile(q)
  <2>1. Done(q, "profile") /\ SaveRow(q, job[q].copy) /\ UNCHANGED <<link, sets>>
    BY <1>1 DEF SaveProfile
  <2>2. Busy(q) /\ job' = [job EXCEPT ![q] = Idle] /\ job[q].copy \in Account
        /\ job[q].copy.password \in 0..sets
    BY <2>1, Loaded DEF Ops, WholeRow
  <2>3. sets' \in 0..MaxSets /\ sets <= sets' /\ job[q].copy.password <= sets'
    BY <2>1, <2>2 DEF Inv, TypeOK
  <2>4. QED BY <2>1, <2>2, <2>3, LinksStay, Saving
<1>2. CASE SaveDelete(q)
  <2> DEFINE account == [row[job[q].who] EXCEPT !.alive = FALSE]
  <2>1. Done(q, "delete") /\ SaveRow(q, account) /\ UNCHANGED <<link, sets>>
    BY <1>2 DEF SaveDelete
  <2>2. Busy(q) /\ job' = [job EXCEPT ![q] = Idle] /\ row[job[q].who] \in Account
        /\ row[job[q].who].password \in 0..sets
    BY <2>1, Loaded DEF Ops, WholeRow
  <2>3. account \in Account /\ account.password = row[job[q].who].password
    BY <2>2 DEF Account
  <2>4. sets' \in 0..MaxSets /\ sets <= sets' /\ account.password <= sets'
    BY <2>1, <2>2, <2>3 DEF Inv, TypeOK
  <2> HIDE DEF account
  <2>5. QED BY <2>1, <2>2, <2>3, <2>4, LinksStay, Saving
<1>3. CASE SaveChange(q)
  <2>1. Done(q, "change") /\ SavePassword(q) /\ UNCHANGED link
    BY <1>3 DEF SaveChange
  <2>2. Busy(q) /\ job' = [job EXCEPT ![q] = Idle]
    BY <2>1, Loaded DEF Ops, WholeRow
  <2>3. /\ WithPassword(q) \in Account /\ WithPassword(q).password = sets + 1
        /\ sets' = sets + 1 /\ sets' \in 0..MaxSets /\ sets <= sets'
    BY <2>1, PasswordSaved
  <2>4. SaveRow(q, WithPassword(q)) /\ WithPassword(q).password <= sets'
    BY <2>1, <2>3 DEF SavePassword
  <2>5. QED BY <2>1, <2>2, <2>3, <2>4, LinksStay, Saving
<1>4. CASE SaveConfirm(q)
  <2>1. /\ Done(q, "confirm") /\ SavePassword(q)
        /\ link' = [link EXCEPT ![job[q].link].used = TRUE]
    BY <1>4 DEF SaveConfirm
  <2>2. Busy(q) /\ job' = [job EXCEPT ![q] = Idle] /\ job[q].op = "confirm"
    BY <2>1, Loaded DEF Ops, WholeRow
  <2>3. /\ WithPassword(q) \in Account /\ WithPassword(q).password = sets + 1
        /\ sets' = sets + 1 /\ sets' \in 0..MaxSets /\ sets <= sets'
    BY <2>1, PasswordSaved
  <2>4. SaveRow(q, WithPassword(q)) /\ WithPassword(q).password <= sets'
    BY <2>1, <2>3 DEF SavePassword
  <2>5. job[q].link \in Links /\ link[job[q].link] \in Link
    BY <2>2 DEF Inv, Working, TypeOK
  <2>6. [link[job[q].link] EXCEPT !.used = TRUE] \in Link
    BY <2>5 DEF Link
  <2>7. /\ link' \in [Links -> Link \cup {None}]
        /\ \A l \in Links : link[l] # None => link'[l] # None
    BY <2>1, <2>5, <2>6 DEF Inv, TypeOK
  <2>8. QED BY <2>2, <2>3, <2>4, <2>7, Saving
<1>5. CASE Fail(q)
  <2>1. job' = [job EXCEPT ![q] = Idle] /\ UNCHANGED <<row, session, open, link, sets, traffic>>
    BY <1>5 DEF Fail
  <2>2. TypeOK' /\ Numbered'
    BY <2>1 DEF Inv, TypeOK, Numbered
  <2>3. \A p \in Requests : Busy(p)' => Busy(p) /\ job'[p] = job[p]
    BY <2>1 DEF Busy, Inv, TypeOK
  <2>4. Working' /\ CopiesNumbered'
    BY <2>1, <2>3 DEF Inv, Working, CopiesNumbered
  <2>5. QED BY <2>2, <2>4 DEF Inv
<1>6. ASSUME NEW flags \in [Decisions -> BOOLEAN], SaveAdmin(q, flags)
      PROVE  Inv'
  <2> DEFINE account == [job[q].copy EXCEPT !.active = flags.active, !.approved = flags.approved]
  <2>1. Done(q, "admin") /\ SaveRow(q, account) /\ UNCHANGED <<link, sets>>
    BY <1>6 DEF SaveAdmin
  <2>2. Busy(q) /\ job' = [job EXCEPT ![q] = Idle] /\ job[q].copy \in Account
        /\ job[q].copy.password \in 0..sets
    BY <2>1, Loaded DEF Ops, WholeRow
  <2>3. flags.active \in BOOLEAN /\ flags.approved \in BOOLEAN
    BY DEF Decisions
  <2>4. account \in Account /\ account.password = job[q].copy.password
    BY <2>2, <2>3 DEF Account
  <2>5. sets' \in 0..MaxSets /\ sets <= sets' /\ account.password <= sets'
    BY <2>1, <2>2, <2>4 DEF Inv, TypeOK
  <2> HIDE DEF account
  <2>6. QED BY <2>1, <2>2, <2>4, <2>5, LinksStay, Saving
<1>7. ASSUME NEW flags \in [Decisions -> BOOLEAN], Insert(q, flags)
      PROVE  Inv'
  <2>1. /\ Done(q, "create") /\ SaveRow(q, NewAccount(flags))
        /\ sets < MaxSets /\ sets' = sets + 1 /\ UNCHANGED link
    BY <1>7 DEF Insert
  <2>2. Busy(q) /\ job' = [job EXCEPT ![q] = Idle]
    BY <2>1, DoneIsBusy DEF Done, Ops
  <2>3. flags.active \in BOOLEAN /\ flags.approved \in BOOLEAN
    BY DEF Decisions
  <2>4. sets \in Nat /\ sets + 1 \in Passwords
    BY <2>1 DEF Inv, TypeOK, Passwords
  <2>5. NewAccount(flags) \in Account /\ NewAccount(flags).password = sets + 1
    BY <2>3, <2>4 DEF NewAccount, Account
  <2>6. sets' \in 0..MaxSets /\ sets <= sets' /\ NewAccount(flags).password <= sets'
    BY <2>1, <2>4, <2>5 DEF Passwords
  <2>7. QED BY <2>1, <2>2, <2>5, <2>6, LinksStay, Saving
<1>8. QED BY <1>1, <1>2, <1>3, <1>4, <1>5, <1>6, <1>7 DEF SaveStep

LEMMA LoadKeepsInv ==
  ASSUME Inv, NEW q \in Requests, LoadStep(q)
  PROVE  Inv'
<1>1. \A u \in Users : Alive(u) => row[u] # None
  BY DEF Alive
<1>2. ASSUME NEW u \in Users, LoadProfile(q, u) \/ LoadChange(q, u)
      PROVE  Inv'
  <2>1. row[u] # None
    BY <1>1, <1>2 DEF LoadProfile, LoadChange, Serves
  <2>2. CASE LoadProfile(q, u)
    BY <2>1, <2>2, Loading DEF LoadProfile, Ops, WholeRow
  <2>3. CASE LoadChange(q, u)
    BY <2>1, <2>3, Loading DEF LoadChange, Ops
  <2>4. QED BY <1>2, <2>2, <2>3
<1>3. ASSUME NEW u \in Users, ValidateCreate(q, u)
      PROVE  Inv'
  BY <1>3, Loading DEF ValidateCreate, Ops
<1>4. ASSUME NEW u \in Admins, LoadDelete(q, u)
      PROVE  Inv'
  BY <1>1, <1>4, Loading DEF LoadDelete, Ops, Users
<1>5. ASSUME NEW u \in Admins, NEW sent \in SUBSET Decisions, LoadAdmin(q, u, sent)
      PROVE  Inv'
  BY <1>1, <1>5, Loading DEF LoadAdmin, Ops, WholeRow, Users
<1>6. ASSUME NEW l \in Links, LoadConfirm(q, l)
      PROVE  Inv'
  <2>1. link[l] # None /\ LinkFits(l) /\ Begin(q, "confirm", link[l].who, l, {})
    BY <1>6 DEF LoadConfirm
  <2>2. link[l].who \in Users
    BY <2>1 DEF Inv, TypeOK, Link
  <2>3. row[link[l].who] # None
    BY <2>1 DEF LinkFits, Alive
  <2>4. QED BY <2>1, <2>2, <2>3, Loading DEF Ops
<1>7. QED BY <1>2, <1>3, <1>4, <1>5, <1>6 DEF LoadStep

LEMMA WorldKeepsInv ==
  ASSUME Inv, WorldStep
  PROVE  Inv'
<1> USE DEF Inv
<1>1. CASE UNCHANGED <<row, link, sets, job, traffic>> /\ session' \in [Users -> BOOLEAN]
           /\ open' \in BOOLEAN
  BY <1>1 DEF TypeOK, Working, Numbered, CopiesNumbered, Busy
<1>2. ASSUME NEW u \in Users, Login(u) \/ SessionEnds(u)
      PROVE  Inv'
  BY <1>1, <1>2 DEF Login, SessionEnds, TypeOK
<1>3. CASE ToggleCenter
  BY <1>1, <1>3 DEF ToggleCenter, TypeOK
<1>4. ASSUME NEW u \in Users, NEW l \in Links, RequestReset(l, u)
      PROVE  Inv'
  <2> DEFINE new == [who |-> u, password |-> row[u].password, used |-> FALSE]
  <2>1. link' = [link EXCEPT ![l] = new] /\ UNCHANGED <<row, session, open, sets, job, traffic>>
    BY <1>4 DEF RequestReset
  <2>2. row[u] \in Account
    BY <1>4 DEF RequestReset, Alive, TypeOK
  <2>3. new \in Link
    BY <2>2 DEF Link, Account
  <2>4. new # None
    BY <2>3
  <2> HIDE DEF new
  <2>5. TypeOK'
    BY <2>1, <2>3 DEF TypeOK
  <2>6. Working'
    BY <2>1, <2>4 DEF TypeOK, Working, Busy
  <2>7. QED BY <2>1, <2>5, <2>6 DEF Numbered, CopiesNumbered, Busy
<1>5. ASSUME NEW u \in Members, Approve(u)
      PROVE  Inv'
  <2> DEFINE new == [row[u] EXCEPT !.approved = TRUE]
  <2>1. row' = [row EXCEPT ![u] = new] /\ UNCHANGED <<session, open, link, sets, job, traffic>>
    BY <1>5 DEF Approve
  <2>2. u \in Users /\ row[u] \in Account
    BY <1>5 DEF Approve, Alive, TypeOK, Users
  <2>3. new \in Account /\ new # None /\ new.password = row[u].password
    BY <2>2 DEF Account
  <2> HIDE DEF new
  <2>4. TypeOK'
    BY <2>1, <2>3 DEF TypeOK
  <2>5. Working' /\ CopiesNumbered'
    BY <2>1, <2>3 DEF TypeOK, Working, CopiesNumbered, Busy
  <2>6. Numbered'
    BY <2>1, <2>2, <2>3 DEF TypeOK, Numbered
  <2>7. QED BY <2>4, <2>5, <2>6
<1>6. QED BY <1>2, <1>3, <1>4, <1>5 DEF WorldStep

LEMMA InvSafe == Spec => []Inv
<1>1. Init => Inv
  <2> SUFFICES ASSUME Init
               PROVE  Inv
    OBVIOUS
  <2>1. TypeOK
    BY DEF Init, TypeOK, Account, Passwords, Users
  <2>2. QED BY <2>1 DEF Init, Inv, Working, Numbered, CopiesNumbered, Busy
<1>2. Inv /\ [Next]_vars => Inv'
  <2> SUFFICES ASSUME Inv, [Next]_vars
               PROVE  Inv'
    OBVIOUS
  <2>1. CASE UNCHANGED vars
    BY <2>1 DEF vars, Inv, TypeOK, Working, Numbered, CopiesNumbered, Busy
  <2>2. ASSUME NEW q \in Requests, LoadStep(q) \/ SaveStep(q)
        PROVE  Inv'
    BY <2>2, LoadKeepsInv, SaveKeepsInv
  <2>3. QED BY <2>1, <2>2, WorldKeepsInv DEF Next
<1>3. QED BY <1>1, <1>2, PTL DEF Spec

\* Accounts, links and the copies that requests hold keep their types.
THEOREM AccountsAreTyped == Spec => []TypeOK
<1>1. Inv => TypeOK
  BY DEF Inv
<1>2. QED BY <1>1, InvSafe, PTL

-----------------------------------------------------------------------------
(* Nothing is undone but by a stale copy.                                  *)

Stale(q, u) == Ends(q, WholeRow) /\ job[q].who = u /\ job[q].copy # row[u]

\* The account a save writes, the others untouched.
LEMMA Written ==
  ASSUME Inv, NEW q \in Requests, Busy(q), NEW account, SaveRow(q, account)
  PROVE  /\ row'[job[q].who] = account
         /\ \A u \in Users : u # job[q].who => row'[u] = row[u]
<1>1. job[q].who \in Users
  BY BusyJob DEF Inv, Job
<1>2. QED BY <1>1 DEF SaveRow, Inv, TypeOK

LEMMA UnchangedNotUndone ==
  ASSUME Inv, NEW u \in Users, row'[u] = row[u]
  PROVE  ~Undone(u)
<1>1. row[u] # None => row[u].password \in Int
  BY DEF Inv, TypeOK, Account, Passwords
<1>2. QED BY <1>1 DEF Undone

LEMMA SaveUndoes ==
  ASSUME Inv, NEW q \in Requests, SaveStep(q), NEW u \in Users, Undone(u)
  PROVE  \E p \in Requests : Stale(p, u)
<1>1. row[u] # None /\ row'[u] # row[u]
  BY UnchangedNotUndone DEF Undone
<1>2. CASE SaveProfile(q)
  <2>1. Done(q, "profile") /\ SaveRow(q, job[q].copy)
    BY <1>2 DEF SaveProfile
  <2>2. Busy(q) /\ job[q].op = "profile" /\ job'[q] = Idle
    BY <2>1, Loaded DEF Ops, WholeRow, Inv, TypeOK
  <2>3. job[q].who = u /\ job[q].copy # row[u]
    BY <1>1, <2>1, <2>2, Written
  <2>4. QED BY <2>2, <2>3 DEF Stale, Ends, Busy, WholeRow
<1>3. CASE SaveDelete(q)
  <2>1. Done(q, "delete") /\ SaveRow(q, [row[job[q].who] EXCEPT !.alive = FALSE])
    BY <1>3 DEF SaveDelete
  <2>2. Busy(q) /\ job[q].who \in Users /\ row[job[q].who] \in Account
    BY <2>1, Loaded DEF Ops, WholeRow
  <2>3. job[q].who = u /\ row'[u] = [row[u] EXCEPT !.alive = FALSE]
    BY <1>1, <2>1, <2>2, Written
  <2>4. ~Undone(u)
    BY <2>2, <2>3 DEF Undone, Account, Passwords, Decisions
  <2>5. QED BY <2>4
<1>4. CASE SaveChange(q) \/ SaveConfirm(q)
  <2>1. PICK op \in {"change", "confirm"} : Done(q, op) /\ SavePassword(q)
    BY <1>4 DEF SaveChange, SaveConfirm
  <2>2. Busy(q) /\ job[q].who \in Users /\ row[job[q].who] \in Account
        /\ row[job[q].who].password \in 0..sets
    BY <2>1, Loaded DEF Ops, WholeRow
  <2>3. row' = [row EXCEPT ![job[q].who].password = sets + 1]
    BY <2>1, PasswordSaved
  <2>4. job[q].who = u /\ row'[u] = [row[u] EXCEPT !.password = sets + 1]
    BY <1>1, <2>2, <2>3 DEF Inv, TypeOK
  <2>5. ~Undone(u)
    BY <2>2, <2>4 DEF Undone, Account, Passwords, Decisions, Inv, TypeOK
  <2>6. QED BY <2>5
<1>5. CASE Fail(q)
  BY <1>1, <1>5 DEF Fail
<1>6. ASSUME NEW flags \in [Decisions -> BOOLEAN], SaveAdmin(q, flags)
      PROVE  \E p \in Requests : Stale(p, u)
  <2> DEFINE account == [job[q].copy EXCEPT !.active = flags.active, !.approved = flags.approved]
  <2>1. Done(q, "admin") /\ SaveRow(q, account)
        /\ \A f \in Decisions \ job[q].sent : flags[f] = job[q].copy[f]
    BY <1>6 DEF SaveAdmin
  <2>2. Busy(q) /\ job[q].op = "admin" /\ job'[q] = Idle /\ job[q].copy \in Account
    BY <2>1, Loaded DEF Ops, WholeRow, Inv, TypeOK
  <2>3. job[q].who = u /\ row'[u] = account
    BY <1>1, <2>1, <2>2, Written
  <2>4. CASE job[q].copy # row[u]
    BY <2>2, <2>3, <2>4 DEF Stale, Ends, Busy, WholeRow
  <2>5. CASE job[q].copy = row[u]
    <3>1. row'[u].password = row[u].password /\ row'[u].alive = row[u].alive
          /\ row[u].password \in Int
      BY <2>2, <2>3, <2>5 DEF Account, Passwords
    <3>2. PICK f \in Decisions : row'[u][f] # row[u][f] /\ ~Decided(u, f)
      BY <3>1 DEF Undone
    <3>3. row'[u][f] = flags[f]
      BY <2>2, <2>3 DEF Account, Decisions
    <3>4. f \in job[q].sent
      BY <2>1, <2>5, <3>2, <3>3
    <3>5. Decided(u, f)
      BY <2>2, <2>3, <3>4 DEF Decided, Ends, Busy
    <3>6. QED BY <3>2, <3>5
  <2>6. QED BY <2>4, <2>5
<1>7. ASSUME NEW flags \in [Decisions -> BOOLEAN], Insert(q, flags)
      PROVE  FALSE
  <2>1. Done(q, "create") /\ SaveRow(q, NewAccount(flags)) /\ row[job[q].who] = None
    BY <1>7 DEF Insert
  <2>2. Busy(q)
    BY <2>1, DoneIsBusy DEF Ops
  <2>3. job[q].who = u
    BY <1>1, <2>1, <2>2, Written
  <2>4. QED BY <1>1, <2>1, <2>3
<1>8. QED BY <1>2, <1>3, <1>4, <1>5, <1>6, <1>7 DEF SaveStep

\* For any number of accounts and requests: a password, a deletion, a
\* deactivation or an approval is lost only to a profile or an owner's PATCH
\* that saves the whole row as it was before.
THEOREM OnlyStaleSaves == Spec => OnlyStaleSavesUndo
<1>1. ASSUME Inv, [Next]_vars, NEW u \in Users, Undone(u)
      PROVE  \E q \in Requests : Stale(q, u)
  <2>1. row'[u] # row[u]
    BY <1>1, UnchangedNotUndone
  <2>2. ASSUME NEW q \in Requests, LoadStep(q)
        PROVE  FALSE
    BY <2>1, <2>2 DEF LoadStep, LoadProfile, LoadChange, ValidateCreate, LoadDelete,
                      LoadAdmin, LoadConfirm, Begin
  <2>3. CASE WorldStep
    <3>1. PICK v \in Members : Approve(v)
      BY <2>1, <2>3 DEF WorldStep, Login, SessionEnds, RequestReset, ToggleCenter
    <3>2. v = u /\ row[u] \in Account /\ row'[u] = [row[u] EXCEPT !.approved = TRUE]
      BY <1>1, <2>1, <3>1 DEF Approve, Inv, TypeOK, Undone
    <3>3. /\ row'[u].password = row[u].password /\ row[u].password \in Int
          /\ row'[u].alive = row[u].alive /\ row'[u].active = row[u].active
      BY <3>2 DEF Account, Passwords
    <3>4. row'[u].approved
      BY <3>2 DEF Account
    <3>5. Decided(u, "approved")
      BY <3>1, <3>2, <3>4 DEF Decided
    <3>6. ~Undone(u)
      BY <3>3, <3>5 DEF Undone, Decisions
    <3>7. QED BY <1>1, <3>6
  <2>4. CASE UNCHANGED vars
    BY <2>1, <2>4 DEF vars
  <2>5. QED BY <1>1, <2>2, <2>3, <2>4, SaveUndoes DEF Next
<1>2. Inv /\ [Next]_vars =>
        (\A u \in Users : Undone(u) =>
           \E q \in Requests : Ends(q, WholeRow) /\ job[q].who = u /\ job[q].copy # row[u])
  BY <1>1 DEF Stale
<1>3. QED BY <1>2, InvSafe, PTL DEF Spec, OnlyStaleSavesUndo

-----------------------------------------------------------------------------
(* Links work once, where passwords are written by one request at a time.  *)

Writes(q) == Busy(q) /\ job[q].op \in Setters

\* One request at a time is to write a password, and nothing has changed the
\* password since it loaded the account.
OneWriter ==
  /\ \A p, q \in Requests : Writes(p) /\ Writes(q) => p = q
  /\ \A q \in Requests : Writes(q) => row[job[q].who].password = job[q].copy.password

\* The link of a confirmation is for the account and the password it loaded.
LinkInHand ==
  \A q \in Requests : Busy(q) /\ job[q].op = "confirm" =>
    LET l == link[job[q].link] IN l.who = job[q].who /\ l.password = job[q].copy.password

\* A link that was used is for an older password.
UsedUp ==
  \A l \in Links : link[l] # None =>
    /\ row[link[l].who] # None
    /\ link[l].used => link[l].password < row[link[l].who].password

Sole == Setters \subseteq traffic.alone
SoleInv == Inv /\ (Sole => OneWriter /\ LinkInHand /\ UsedUp)

LEMMA SoleLoading ==
  ASSUME SoleInv, Sole, NEW q \in Requests, NEW op \in Ops, NEW u \in Users,
         NEW l \in Links \cup {None}, NEW sent \in SUBSET Decisions,
         Begin(q, op, u, l, sent),
         op = "confirm" => link[l].who = u /\ link[l].password = row[u].password
  PROVE  OneWriter' /\ LinkInHand' /\ UsedUp'
<1> DEFINE j == [op |-> op, who |-> u, copy |-> row[u], link |-> l, sent |-> sent]
<1>1. job' = [job EXCEPT ![q] = j] /\ job[q] = Idle /\ Admitted(op)
  BY DEF Begin
<1>2. UNCHANGED <<row, session, open, link, sets, traffic>>
  BY DEF Begin
<1>3. job'[q] = j /\ \A p \in Requests : p # q => job'[p] = job[p]
  BY <1>1 DEF SoleInv, Inv, TypeOK
<1>4. op \in Setters => \A p \in Requests : ~Writes(p)
  BY <1>1 DEF Admitted, Sole, Writes, Busy
<1>5. \A p \in Requests : p # q /\ Writes(p)' => Writes(p)
  BY <1>3 DEF Writes, Busy
<1>6. Writes(q)' => op \in Setters
  BY <1>3 DEF Writes
<1>7. OneWriter'
  <2>1. \A p, r \in Requests : Writes(p)' /\ Writes(r)' => p = r
    BY <1>4, <1>5, <1>6 DEF SoleInv, OneWriter
  <2>2. ASSUME NEW p \in Requests, Writes(p)'
        PROVE  row'[job'[p].who].password = job'[p].copy.password
    <3>1. CASE p = q
      BY <1>2, <1>3, <3>1
    <3>2. CASE p # q
      BY <1>2, <1>3, <1>5, <2>2, <3>2 DEF SoleInv, OneWriter
    <3>3. QED BY <3>1, <3>2
  <2>3. QED BY <2>1, <2>2 DEF OneWriter
<1>8. LinkInHand'
  BY <1>2, <1>3 DEF SoleInv, LinkInHand, Busy
<1>9. UsedUp'
  BY <1>2 DEF SoleInv, UsedUp
<1>10. QED BY <1>7, <1>8, <1>9

LEMMA SoleSaving ==
  ASSUME SoleInv, Sole, NEW q \in Requests, Busy(q),
         job' = [job EXCEPT ![q] = Idle],
         NEW account \in Account, SaveRow(q, account),
         row[job[q].who] # None => row[job[q].who].password <= account.password,
         Writes(q) \/ row[job[q].who] = None
           \/ row[job[q].who].password = account.password,
         \/ UNCHANGED link
         \/ /\ job[q].op = "confirm" /\ link' = [link EXCEPT ![job[q].link].used = TRUE]
            /\ row[job[q].who].password < account.password
  PROVE  OneWriter' /\ LinkInHand' /\ UsedUp'
<1>1. job[q].who \in Users /\ account # None
  BY BusyJob DEF SoleInv, Inv, Job
<1>2. row'[job[q].who] = account /\ \A u \in Users : u # job[q].who => row'[u] = row[u]
  BY Written DEF SoleInv
<1>3. \A p \in Requests : Busy(p)' => p # q /\ Busy(p) /\ job'[p] = job[p] /\ job[p].who \in Users
  <2> SUFFICES ASSUME NEW p \in Requests, Busy(p)'
               PROVE  p # q /\ Busy(p) /\ job'[p] = job[p] /\ job[p].who \in Users
    OBVIOUS
  <2>1. p # q
    BY DEF Busy, SoleInv, Inv, TypeOK
  <2>2. job'[p] = job[p] /\ Busy(p)
    BY <2>1 DEF Busy, SoleInv, Inv, TypeOK
  <2>3. job[p].who \in Users
    BY <2>2, BusyJob DEF SoleInv, Inv, Job
  <2>4. QED BY <2>1, <2>2, <2>3
<1>4. \A l \in Links : /\ link'[l] # None => link[l] # None
                       /\ link[l] # None => /\ link'[l].who = link[l].who
                                            /\ link'[l].password = link[l].password
  <2>1. CASE UNCHANGED link
    BY <2>1
  <2>2. CASE job[q].op = "confirm" /\ link' = [link EXCEPT ![job[q].link].used = TRUE]
    <3>1. job[q].link \in Links /\ link[job[q].link] # None /\ link[job[q].link] \in Link
      BY <2>2 DEF SoleInv, Inv, Working, TypeOK
    <3>2. QED BY <2>2, <3>1 DEF SoleInv, Inv, TypeOK, Link
  <2>3. QED BY <2>1, <2>2
<1>5. OneWriter'
  <2>1. ASSUME NEW p \in Requests, NEW r \in Requests, Writes(p)', Writes(r)'
        PROVE  p = r
    BY <1>3, <2>1 DEF SoleInv, OneWriter, Writes
  <2>2. ASSUME NEW p \in Requests, Writes(p)'
        PROVE  row'[job'[p].who].password = job'[p].copy.password
    <3>1. Writes(p) /\ p # q /\ job'[p] = job[p] /\ job[p].who \in Users
      BY <1>3, <2>2 DEF Writes
    <3>2. row[job[p].who].password = job[p].copy.password /\ ~Writes(q)
      BY <3>1 DEF SoleInv, OneWriter
    <3>3. row[job[p].who] # None
      BY <3>1 DEF Writes, Setters, WholeRow, SoleInv, Inv, Working
    <3>4. row'[job[p].who].password = row[job[p].who].password
      BY <1>2, <3>1, <3>2, <3>3
    <3>5. QED BY <3>1, <3>2, <3>4
  <2>3. QED BY <2>1, <2>2 DEF OneWriter
<1>6. LinkInHand'
  <2> SUFFICES ASSUME NEW p \in Requests, Busy(p)', job'[p].op = "confirm"
               PROVE  /\ link'[job'[p].link].who = job'[p].who
                      /\ link'[job'[p].link].password = job'[p].copy.password
    BY DEF LinkInHand
  <2>1. Busy(p) /\ job'[p] = job[p]
    BY <1>3
  <2>2. job[p].link \in Links /\ link[job[p].link] # None
    BY <2>1 DEF SoleInv, Inv, Working
  <2>3. QED BY <1>4, <2>1, <2>2 DEF SoleInv, LinkInHand
<1>7. UsedUp'
  <2> SUFFICES ASSUME NEW l \in Links, link'[l] # None
               PROVE  /\ row'[link'[l].who] # None
                      /\ link'[l].used => link'[l].password < row'[link'[l].who].password
    BY DEF UsedUp
  <2> DEFINE u == link[l].who
  <2>1. link[l] # None /\ link[l] \in Link /\ u \in Users
        /\ link'[l].who = u /\ link'[l].password = link[l].password
    BY <1>4 DEF SoleInv, Inv, TypeOK, Link
  <2>2. row[u] # None /\ row[u] \in Account
    BY <2>1 DEF SoleInv, Inv, TypeOK, UsedUp
  <2>3. row'[u] # None /\ row[u].password <= row'[u].password
    BY <1>1, <1>2, <2>1, <2>2 DEF Account, Passwords
  <2>4. row'[u] \in Account
    BY <1>2, <2>1, <2>2
  <2>5. row[u].password \in Int /\ row'[u].password \in Int /\ link[l].password \in Int
    BY <2>1, <2>2, <2>4 DEF Account, Link, Passwords
  <2>6. CASE link'[l].used = link[l].used
    BY <2>1, <2>3, <2>5, <2>6 DEF SoleInv, UsedUp
  <2>7. CASE link'[l].used # link[l].used
    <3>1. /\ job[q].op = "confirm" /\ link' = [link EXCEPT ![job[q].link].used = TRUE]
          /\ row[job[q].who].password < account.password
      BY <2>7
    <3>2. l = job[q].link
      BY <2>1, <2>7, <3>1 DEF SoleInv, Inv, TypeOK
    <3>3. u = job[q].who /\ link[l].password = job[q].copy.password
      BY <3>1, <3>2 DEF SoleInv, LinkInHand
    <3>4. row[u].password = job[q].copy.password
      BY <3>1, <3>3 DEF SoleInv, OneWriter, Writes, Setters
    <3>5. QED BY <1>2, <2>1, <2>3, <3>1, <3>3, <3>4
  <2>8. QED BY <2>6, <2>7
<1>8. QED BY <1>5, <1>6, <1>7

LEMMA SoleLoad ==
  ASSUME SoleInv, Sole, NEW q \in Requests, LoadStep(q)
  PROVE  OneWriter' /\ LinkInHand' /\ UsedUp'
<1>1. ASSUME NEW op \in Ops \ {"confirm"}, NEW u \in Users, NEW sent \in SUBSET Decisions,
             Begin(q, op, u, None, sent)
      PROVE  OneWriter' /\ LinkInHand' /\ UsedUp'
  BY <1>1, SoleLoading
<1>2. ASSUME NEW l \in Links, LoadConfirm(q, l)
      PROVE  OneWriter' /\ LinkInHand' /\ UsedUp'
  <2>1. link[l] # None /\ LinkFits(l) /\ Begin(q, "confirm", link[l].who, l, {})
    BY <1>2 DEF LoadConfirm
  <2>2. link[l].who \in Users
    BY <2>1 DEF SoleInv, Inv, TypeOK, Link
  <2>3. link[l].password = row[link[l].who].password
    BY <2>1 DEF LinkFits
  <2>4. QED BY <2>1, <2>2, <2>3, SoleLoading DEF Ops
<1>3. CASE \E u \in Users : LoadProfile(q, u)
  BY <1>1, <1>3 DEF LoadProfile, Ops, WholeRow
<1>4. CASE \E u \in Users : LoadChange(q, u)
  BY <1>1, <1>4 DEF LoadChange, Ops, WholeRow
<1>5. CASE \E u \in Users : ValidateCreate(q, u)
  BY <1>1, <1>5 DEF ValidateCreate, Ops, WholeRow
<1>6. CASE \E u \in Admins : LoadDelete(q, u)
  BY <1>1, <1>6 DEF LoadDelete, Ops, WholeRow, Users
<1>7. CASE \E u \in Admins, sent \in SUBSET Decisions : LoadAdmin(q, u, sent)
  BY <1>1, <1>7 DEF LoadAdmin, Ops, WholeRow, Users
<1>8. QED BY <1>2, <1>3, <1>4, <1>5, <1>6, <1>7 DEF LoadStep

LEMMA SoleSave ==
  ASSUME SoleInv, Sole, NEW q \in Requests, SaveStep(q)
  PROVE  OneWriter' /\ LinkInHand' /\ UsedUp'
<1>0. Inv
  BY DEF SoleInv
<1>1. CASE SaveProfile(q)
  <2>1. Done(q, "profile") /\ SaveRow(q, job[q].copy) /\ UNCHANGED link
    BY <1>1 DEF SaveProfile
  <2>2. Busy(q) /\ job[q].op = "profile" /\ job' = [job EXCEPT ![q] = Idle]
        /\ job[q].copy \in Account /\ job[q].copy.password \in 0..sets
    BY <1>0, <2>1, Loaded DEF Ops, WholeRow
  <2>3. Writes(q) /\ row[job[q].who].password = job[q].copy.password
    BY <2>2 DEF Writes, Setters, WholeRow, SoleInv, OneWriter
  <2>4. row[job[q].who].password <= job[q].copy.password
    BY <2>2, <2>3 DEF Account, Passwords
  <2>5. QED BY <2>1, <2>2, <2>3, <2>4, SoleSaving
<1>2. CASE SaveDelete(q)
  <2> DEFINE account == [row[job[q].who] EXCEPT !.alive = FALSE]
  <2>1. Done(q, "delete") /\ SaveRow(q, account) /\ UNCHANGED link
    BY <1>2 DEF SaveDelete
  <2>2. Busy(q) /\ job' = [job EXCEPT ![q] = Idle] /\ row[job[q].who] \in Account
    BY <1>0, <2>1, Loaded DEF Ops, WholeRow
  <2>3. account \in Account /\ account.password = row[job[q].who].password
    BY <2>2 DEF Account
  <2> HIDE DEF account
  <2>4. account.password \in Int
    BY <2>3 DEF Account, Passwords
  <2>5. row[job[q].who].password <= account.password
    BY <2>3, <2>4
  <2>6. QED BY <2>1, <2>2, <2>3, <2>5, SoleSaving
<1>3. CASE SaveChange(q) \/ SaveConfirm(q)
  <2>1. PICK op \in {"change", "confirm"} :
          /\ Done(q, op) /\ SavePassword(q)
          /\ \/ UNCHANGED link
             \/ op = "confirm" /\ link' = [link EXCEPT ![job[q].link].used = TRUE]
    BY <1>3 DEF SaveChange, SaveConfirm
  <2>2. Busy(q) /\ job[q].op = op /\ job' = [job EXCEPT ![q] = Idle]
        /\ row[job[q].who].password \in 0..sets
    BY <1>0, <2>1, Loaded DEF Ops, WholeRow
  <2>3. WithPassword(q) \in Account /\ WithPassword(q).password = sets + 1
    BY <1>0, <2>1, PasswordSaved
  <2>4. row[job[q].who].password < WithPassword(q).password
    <3>1. sets \in Int
      BY <1>0 DEF Inv, TypeOK
    <3>2. QED BY <2>2, <2>3, <3>1
  <2>5. row[job[q].who].password <= WithPassword(q).password
    <3>1. sets \in Int
      BY <1>0 DEF Inv, TypeOK
    <3>2. QED BY <2>2, <2>3, <3>1
  <2>6. SaveRow(q, WithPassword(q))
    BY <2>1 DEF SavePassword
  <2>7. Writes(q)
    BY <2>2 DEF Writes, Setters
  <2>8. QED BY <2>1, <2>2, <2>3, <2>4, <2>5, <2>6, <2>7, SoleSaving
<1>4. CASE Fail(q)
  <2>1. job' = [job EXCEPT ![q] = Idle] /\ UNCHANGED <<row, session, open, link, sets, traffic>>
    BY <1>4 DEF Fail
  <2>2. \A p \in Requests : Busy(p)' => Busy(p) /\ job'[p] = job[p]
    BY <2>1 DEF Busy, SoleInv, Inv, TypeOK
  <2>3. \A p \in Requests : Writes(p)' => Writes(p)
    BY <2>2 DEF Writes
  <2>4. OneWriter'
    BY <2>1, <2>2, <2>3 DEF SoleInv, OneWriter, Writes
  <2>5. LinkInHand'
    BY <2>1, <2>2 DEF SoleInv, LinkInHand
  <2>6. UsedUp'
    BY <2>1 DEF SoleInv, UsedUp
  <2>7. QED BY <2>4, <2>5, <2>6
<1>5. ASSUME NEW flags \in [Decisions -> BOOLEAN], SaveAdmin(q, flags)
      PROVE  OneWriter' /\ LinkInHand' /\ UsedUp'
  <2> DEFINE account == [job[q].copy EXCEPT !.active = flags.active, !.approved = flags.approved]
  <2>1. Done(q, "admin") /\ SaveRow(q, account) /\ UNCHANGED link
    BY <1>5 DEF SaveAdmin
  <2>2. Busy(q) /\ job[q].op = "admin" /\ job' = [job EXCEPT ![q] = Idle]
        /\ job[q].copy \in Account
    BY <1>0, <2>1, Loaded DEF Ops, WholeRow
  <2>3. flags.active \in BOOLEAN /\ flags.approved \in BOOLEAN
    BY DEF Decisions
  <2>4. account \in Account /\ account.password = job[q].copy.password
    BY <2>2, <2>3 DEF Account
  <2>5. Writes(q) /\ row[job[q].who].password = job[q].copy.password
    BY <2>2 DEF Writes, Setters, WholeRow, SoleInv, OneWriter
  <2> HIDE DEF account
  <2>6. row[job[q].who].password <= account.password
    <3>1. account.password \in Int
      BY <2>4 DEF Account, Passwords
    <3>2. QED BY <2>4, <2>5, <3>1
  <2>7. QED BY <2>1, <2>2, <2>4, <2>5, <2>6, SoleSaving
<1>6. ASSUME NEW flags \in [Decisions -> BOOLEAN], Insert(q, flags)
      PROVE  OneWriter' /\ LinkInHand' /\ UsedUp'
  <2>1. /\ Done(q, "create") /\ SaveRow(q, NewAccount(flags)) /\ row[job[q].who] = None
        /\ sets < MaxSets /\ UNCHANGED link
    BY <1>6 DEF Insert
  <2>2. Busy(q) /\ job' = [job EXCEPT ![q] = Idle]
    BY <2>1, DoneIsBusy DEF Done, Ops
  <2>3. flags.active \in BOOLEAN /\ flags.approved \in BOOLEAN
    BY DEF Decisions
  <2>4. sets + 1 \in Passwords
    BY <1>0, <2>1 DEF Inv, TypeOK, Passwords
  <2>5. NewAccount(flags) \in Account
    BY <2>3, <2>4 DEF NewAccount, Account
  <2>6. QED BY <2>1, <2>2, <2>5, SoleSaving
<1>7. QED BY <1>1, <1>2, <1>3, <1>4, <1>5, <1>6 DEF SaveStep

LEMMA SoleWorld ==
  ASSUME SoleInv, Sole, WorldStep
  PROVE  OneWriter' /\ LinkInHand' /\ UsedUp'
<1> USE DEF SoleInv
<1>1. CASE UNCHANGED <<row, link, job>>
  BY <1>1 DEF OneWriter, LinkInHand, UsedUp, Writes, Busy
<1>2. ASSUME NEW u \in Users, NEW l \in Links, RequestReset(l, u)
      PROVE  OneWriter' /\ LinkInHand' /\ UsedUp'
  <2>1. /\ link' = [link EXCEPT ![l] =
               [who |-> u, password |-> row[u].password, used |-> FALSE]]
        /\ UNCHANGED <<row, job>> /\ link[l] = None /\ row[u] # None
    BY <1>2 DEF RequestReset, Alive
  <2>2. UsedUp'
    BY <2>1 DEF UsedUp, Inv, TypeOK
  <2>3. LinkInHand'
    BY <2>1 DEF LinkInHand, Busy, Inv, TypeOK, Working
  <2>4. QED BY <2>1, <2>2, <2>3 DEF OneWriter, Writes, Busy
<1>3. ASSUME NEW u \in Members, Approve(u)
      PROVE  OneWriter' /\ LinkInHand' /\ UsedUp'
  <2>1. /\ row' = [row EXCEPT ![u].approved = TRUE] /\ UNCHANGED <<link, job>>
        /\ u \in Users /\ row[u] \in Account
    BY <1>3 DEF Approve, Alive, Inv, TypeOK, Users
  <2>2. row'[u] \in Account /\ row'[u].password = row[u].password
    BY <2>1 DEF Inv, TypeOK, Account
  <2>3. \A v \in Users : row[v] # None =>
          row'[v] # None /\ row'[v].password = row[v].password
    BY <2>1, <2>2 DEF Inv, TypeOK
  <2>4. UsedUp'
    <3> SUFFICES ASSUME NEW l \in Links, link[l] # None
                 PROVE  /\ row'[link[l].who] # None
                        /\ link[l].used => link[l].password < row'[link[l].who].password
      BY <2>1 DEF UsedUp
    <3>1. link[l].who \in Users
      BY DEF Inv, TypeOK, Link
    <3>2. QED BY <2>3, <3>1 DEF UsedUp
  <2>5. OneWriter'
    <3> SUFFICES ASSUME NEW q \in Requests, Writes(q)
                 PROVE  row'[job[q].who].password = job[q].copy.password
      BY <2>1 DEF OneWriter, Writes, Busy
    <3>1. job[q].who \in Users /\ row[job[q].who] # None
      BY BusyJob DEF Writes, Setters, WholeRow, Inv, Working, Job
    <3>2. QED BY <2>3, <3>1 DEF OneWriter
  <2>6. LinkInHand'
    BY <2>1 DEF LinkInHand, Busy
  <2>7. QED BY <2>4, <2>5, <2>6
<1>4. QED BY <1>1, <1>2, <1>3 DEF WorldStep, Login, SessionEnds, ToggleCenter

LEMMA SoleSafe == Spec => []SoleInv
<1>1. Init => OneWriter /\ LinkInHand /\ UsedUp
  BY DEF Init, OneWriter, LinkInHand, UsedUp, Writes, Busy
<1>2. SoleInv /\ Inv' /\ [Next]_vars => SoleInv'
  <2> SUFFICES ASSUME SoleInv, Inv', [Next]_vars, Sole'
               PROVE  OneWriter' /\ LinkInHand' /\ UsedUp'
    BY DEF SoleInv
  <2>1. traffic' = traffic
    BY DEF Next, LoadStep, LoadProfile, LoadChange, ValidateCreate, LoadDelete, LoadAdmin,
           LoadConfirm, Begin, SaveStep, SaveProfile, SaveDelete, SaveChange, SaveConfirm,
           SavePassword, SaveAdmin, Insert, SaveRow, Fail, WorldStep, Login, SessionEnds,
           RequestReset, Approve, ToggleCenter, vars
  <2>2. Sole
    BY <2>1 DEF Sole
  <2>3. CASE UNCHANGED vars
    BY <2>2, <2>3 DEF vars, SoleInv, OneWriter, LinkInHand, UsedUp, Writes, Busy
  <2>4. QED BY <2>2, <2>3, SoleLoad, SoleSave, SoleWorld DEF Next
<1>3. Inv /\ OneWriter /\ LinkInHand /\ UsedUp => SoleInv
  BY DEF SoleInv
<1>4. QED BY <1>1, <1>2, <1>3, InvSafe, PTL DEF Spec

\* Where passwords are written by one request at a time, a reset link works
\* once and only on the password it was mailed for, whatever fails, however
\* many mails are out, and next to deletions and new accounts that overlap.
THEOREM LinksAreOneTime == Spec => LinksWorkOnce
<1>1. ASSUME SoleInv, Sole, [Next]_vars, NEW q \in Requests, Confirms(q)
      PROVE  FirstUse(job[q].link)
  <2>1. Busy(q) /\ job[q].op = "confirm"
    BY <1>1 DEF Confirms, Ends, Busy
  <2>2. job[q].link \in Links /\ link[job[q].link] # None
    BY <1>1, <2>1 DEF SoleInv, Inv, Working
  <2>3. link[job[q].link] \in Link
    BY <1>1, <2>2 DEF SoleInv, Inv, TypeOK
  <2>4. link[job[q].link].password = row[link[job[q].link].who].password
    BY <1>1, <2>1 DEF SoleInv, OneWriter, LinkInHand, Writes, Setters
  <2>5. link[job[q].link].password \in Int /\ link[job[q].link].used \in BOOLEAN
    BY <2>3 DEF Link, Passwords
  <2>6. ~link[job[q].link].used
    BY <1>1, <2>2, <2>4, <2>5 DEF SoleInv, UsedUp
  <2>7. QED BY <2>4, <2>6 DEF FirstUse
<1>2. SoleInv /\ [Next]_vars =>
        (Setters \subseteq traffic.alone =>
           \A q \in Requests : Confirms(q) => FirstUse(job[q].link))
  BY <1>1 DEF Sole
<1>3. QED BY <1>2, SoleSafe, PTL DEF Spec, LinksWorkOnce
=============================================================================
