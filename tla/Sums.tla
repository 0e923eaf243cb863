-------------------------------- MODULE Sums --------------------------------
(***************************************************************************)
(* Lemmas about the sums the models take, SumFunction and SumFunctionOnSet *)
(* of the community modules, over finite sets of numbers.  What these      *)
(* compute by recursion over subsets is determined by the smallest subset  *)
(* for which a claim would fail.                                           *)
(***************************************************************************)
EXTENDS Functions, FiniteSetTheorems, WellFoundedInduction, TLAPS

Chosen(s) == CHOOSE x \in s : TRUE

\* g gives the sum of f over every subset of D, as SumFunctionOnSet computes it.
IsSum(f, D, g) ==
  g = [s \in SUBSET D |-> IF s = {} THEN 0 ELSE f[Chosen(s)] + g[s \ {Chosen(s)}]]

\* The sum is taken by a function on subsets, chosen among those that fit.
LEMMA SumIsChosen ==
  ASSUME NEW f, NEW S
  PROVE  SumFunctionOnSet(f, S) = (CHOOSE g : IsSum(f, S, g))[S]
BY DEF IsSum, Chosen, SumFunctionOnSet, FoldFunctionOnSet, MapThenFoldSet

\* What is chosen of a set is in it.
LEMMA ChosenIsIn == \A s : s # {} => Chosen(s) \in s
BY DEF Chosen

\* A family of subsets of a finite set has a smallest member.
LEMMA SmallestSubset ==
  ASSUME NEW D, IsFiniteSet(D), NEW family \in SUBSET (SUBSET D), family # {}
  PROVE  \E m \in family : \A s \in SUBSET m : s # m => s \notin family
<1>1. IsWellFoundedOn(StrictSubsetOrdering(D), SUBSET D)
  BY FS_StrictSubsetOrderingWellFounded, FS_FiniteSubsetsOfFinite
<1>2. PICK m \in family : \A s \in family : <<s, m>> \notin StrictSubsetOrdering(D)
  BY <1>1, WFMin
<1>3. ASSUME NEW s \in SUBSET m, s # m PROVE s \notin family
  <2>1. m \in SUBSET D /\ s \in SUBSET D
    BY <1>3
  <2>2. <<s, m>> \in StrictSubsetOrdering(D)
    BY <1>3, <2>1 DEF StrictSubsetOrdering
  <2> QED BY <1>2, <2>2
<1> QED BY <1>3

\* Two functions that sum f over the subsets of a set agree.
LEMMA SumsAgree ==
  ASSUME NEW f, NEW D, IsFiniteSet(D), NEW g, IsSum(f, D, g),
         NEW T \in SUBSET D, NEW h, IsSum(f, T, h), NEW s \in SUBSET T
  PROVE  h[s] = g[s]
<1> DEFINE family == {u \in SUBSET T : h[u] # g[u]}
<1>1. SUFFICES ASSUME family # {} PROVE FALSE
  OBVIOUS
<1>2. family \in SUBSET (SUBSET D)
  OBVIOUS
<1>3. PICK m \in family : \A u \in SUBSET m : u # m => u \notin family
  BY <1>1, <1>2, SmallestSubset
<1>4. /\ h[m] = IF m = {} THEN 0 ELSE f[Chosen(m)] + h[m \ {Chosen(m)}]
      /\ g[m] = IF m = {} THEN 0 ELSE f[Chosen(m)] + g[m \ {Chosen(m)}]
  BY <1>3 DEF IsSum
<1>5. m # {} => h[m \ {Chosen(m)}] = g[m \ {Chosen(m)}]
  BY <1>3, ChosenIsIn
<1> QED BY <1>3, <1>4, <1>5

\* There is one, and its values are numbers.
LEMMA SumsExist ==
  ASSUME NEW D, IsFiniteSet(D), NEW f \in [D -> Nat], NEW S \in SUBSET D
  PROVE  \E g \in [SUBSET S -> Nat] : IsSum(f, S, g)
<1> DEFINE Good(T) == \E g \in [SUBSET T -> Nat] : IsSum(f, T, g)
           Best(T) == CHOOSE g : g \in [SUBSET T -> Nat] /\ IsSum(f, T, g)
           family == {T \in SUBSET D : ~Good(T)}
<1>1. SUFFICES ASSUME family # {} PROVE FALSE
  OBVIOUS
<1>2. PICK m \in family : \A u \in SUBSET m : u # m => u \notin family
  BY <1>1, SmallestSubset
<1>3. ASSUME NEW u \in SUBSET m, u # m
      PROVE  Best(u) \in [SUBSET u -> Nat] /\ IsSum(f, u, Best(u)) /\ u \in SUBSET D
  BY <1>2, <1>3
<1> HIDE DEF Best
<1>4. ASSUME NEW u \in SUBSET m, u # m
      PROVE  /\ Best(u)[u] \in Nat
             /\ Best(u)[u] = IF u = {} THEN 0
                             ELSE f[Chosen(u)] + Best(u \ {Chosen(u)})[u \ {Chosen(u)}]
  <2>1. Best(u) \in [SUBSET u -> Nat] /\ IsSum(f, u, Best(u)) /\ IsFiniteSet(u)
    BY <1>3, <1>4, FS_Subset
  <2>2. Best(u)[u] = IF u = {} THEN 0 ELSE f[Chosen(u)] + Best(u)[u \ {Chosen(u)}]
    BY <2>1 DEF IsSum
  <2>3. CASE u # {}
    <3> DEFINE w == u \ {Chosen(u)}
    <3>1. w \in SUBSET m /\ w # m /\ w \in SUBSET u
      BY <1>4
    <3>2. IsSum(f, w, Best(w))
      BY <1>3, <3>1
    <3> HIDE DEF w
    <3>3. Best(w)[w] = Best(u)[w]
      BY <2>1, <3>1, <3>2, SumsAgree
    <3> QED BY <2>1, <2>2, <3>3 DEF w
  <2> QED BY <2>1, <2>2, <2>3
<1> DEFINE g == [s \in SUBSET m |->
                   IF s # m THEN Best(s)[s]
                   ELSE IF m = {} THEN 0 ELSE f[Chosen(m)] + Best(m \ {Chosen(m)})[m \ {Chosen(m)}]]
<1>5. m # {} => /\ Chosen(m) \in D /\ m \ {Chosen(m)} \in SUBSET m /\ m \ {Chosen(m)} # m
                /\ f[Chosen(m)] \in Nat
  BY <1>2, ChosenIsIn
<1>6. g \in [SUBSET m -> Nat]
  <2>1. \A s \in SUBSET m : s # m => Best(s)[s] \in Nat
    BY <1>4
  <2>2. m # {} => f[Chosen(m)] + Best(m \ {Chosen(m)})[m \ {Chosen(m)}] \in Nat
    BY <1>5, <2>1
  <2> QED BY <2>1, <2>2
<1>7. ASSUME NEW s \in SUBSET m
      PROVE  g[s] = IF s = {} THEN 0 ELSE f[Chosen(s)] + g[s \ {Chosen(s)}]
  <2>1. s # {} => s \ {Chosen(s)} \in SUBSET m /\ s \ {Chosen(s)} # m
    BY ChosenIsIn
  <2>2. s # {} => g[s \ {Chosen(s)}] = Best(s \ {Chosen(s)})[s \ {Chosen(s)}]
    BY <2>1
  <2>3. CASE s # m
    BY <1>4, <2>2, <2>3
  <2>4. CASE s = m
    BY <2>2, <2>4
  <2> QED BY <2>3, <2>4
<1> HIDE DEF g
<1>8. IsSum(f, m, g)
  BY <1>6, <1>7 DEF IsSum
<1> QED BY <1>2, <1>6, <1>8

\* So the sum over a subset is what any of them says.
LEMMA SumIsThatOf ==
  ASSUME NEW D, IsFiniteSet(D), NEW f \in [D -> Nat], NEW g, IsSum(f, D, g),
         NEW S \in SUBSET D
  PROVE  SumFunctionOnSet(f, S) = g[S]
<1> DEFINE h == CHOOSE i : IsSum(f, S, i)
<1>1. IsSum(f, S, h)
  BY SumsExist
<1> HIDE DEF h
<1>2. h[S] = g[S]
  BY <1>1, SumsAgree
<1> QED BY <1>2, SumIsChosen DEF h

\* The sum of numbers is a number.
LEMMA SumType ==
  ASSUME NEW D, IsFiniteSet(D), NEW f \in [D -> Nat], NEW S \in SUBSET D
  PROVE  SumFunctionOnSet(f, S) \in Nat
<1>1. PICK g \in [SUBSET D -> Nat] : IsSum(f, D, g)
  BY SumsExist
<1>2. g[S] \in Nat
  BY <1>1
<1> QED BY <1>1, <1>2, SumIsThatOf

\* The sum of nothing is 0.
LEMMA SumOfNone ==
  ASSUME NEW D, IsFiniteSet(D), NEW f \in [D -> Nat]
  PROVE  SumFunctionOnSet(f, {}) = 0
<1>1. PICK g \in [SUBSET D -> Nat] : IsSum(f, D, g)
  BY SumsExist
<1>2. g[{}] = 0
  BY <1>1 DEF IsSum
<1> QED BY <1>1, <1>2, SumIsThatOf

\* A sum goes by one of the elements, whichever it is.
LEMMA SumWithout ==
  ASSUME NEW D, IsFiniteSet(D), NEW f \in [D -> Nat], NEW S \in SUBSET D, NEW x \in S
  PROVE  SumFunctionOnSet(f, S) = f[x] + SumFunctionOnSet(f, S \ {x})
<1>1. PICK g \in [SUBSET D -> Nat] : IsSum(f, D, g)
  BY SumsExist
<1>2. \A s \in SUBSET D : s # {} => g[s] = f[Chosen(s)] + g[s \ {Chosen(s)}]
  BY <1>1 DEF IsSum
<1> DEFINE family == {s \in SUBSET D : \E y \in s : g[s] # f[y] + g[s \ {y}]}
<1>3. family = {}
  <2>1. SUFFICES ASSUME family # {} PROVE FALSE
    OBVIOUS
  <2>2. PICK m \in family : \A u \in SUBSET m : u # m => u \notin family
    <3>1. family \in SUBSET (SUBSET D)
      OBVIOUS
    <3> HIDE DEF family
    <3> QED BY <2>1, <3>1, SmallestSubset
  <2>3. PICK y \in m : g[m] # f[y] + g[m \ {y}]
    BY <2>2
  <2> DEFINE e == Chosen(m)
             rest == m \ {e, y}
  <2>4. e \in m /\ m \in SUBSET D /\ g[m] = f[e] + g[m \ {e}]
    BY <1>2, <2>2, <2>3, ChosenIsIn
  <2>5. e # y
    BY <2>3, <2>4
  <2>6. g[m \ {e}] = f[y] + g[rest]
    <3>1. m \ {e} \notin family /\ y \in m \ {e} /\ (m \ {e}) \ {y} = rest
          /\ m \ {e} \in SUBSET D
      BY <2>2, <2>4, <2>5
    <3> QED BY <3>1
  <2>7. g[m \ {y}] = f[e] + g[rest]
    <3>1. m \ {y} \notin family /\ e \in m \ {y} /\ (m \ {y}) \ {e} = rest
          /\ m \ {y} \in SUBSET D
      BY <2>2, <2>4, <2>5
    <3> QED BY <3>1
  <2>8. f[e] \in Nat /\ f[y] \in Nat /\ g[rest] \in Nat
    BY <1>1, <2>4
  <2> HIDE DEF e, rest
  <2> QED BY <2>3, <2>4, <2>6, <2>7, <2>8
<1>4. g[S] = f[x] + g[S \ {x}]
  BY <1>3
<1>5. S \ {x} \in SUBSET D
  OBVIOUS
<1> QED BY <1>1, <1>4, <1>5, SumIsThatOf

\* The sum over two sets that share nothing is the sum of theirs.
LEMMA SumOfUnion ==
  ASSUME NEW D, IsFiniteSet(D), NEW f \in [D -> Nat],
         NEW S \in SUBSET D, NEW T \in SUBSET D, S \cap T = {}
  PROVE  SumFunctionOnSet(f, S \cup T) = SumFunctionOnSet(f, S) + SumFunctionOnSet(f, T)
<1> DEFINE Sum(s) == SumFunctionOnSet(f, s)
           family == {s \in SUBSET S : Sum(s \cup T) # Sum(s) + Sum(T)}
<1>1. SUFFICES ASSUME family # {} PROVE FALSE
  OBVIOUS
<1>2. family \in SUBSET (SUBSET D)
  OBVIOUS
<1>3. PICK m \in family : \A u \in SUBSET m : u # m => u \notin family
  <2> HIDE DEF family
  <2> QED BY <1>1, <1>2, SmallestSubset
<1>4. CASE m = {}
  <2>1. Sum(m) = 0 /\ m \cup T = T /\ Sum(T) \in Nat
    BY <1>4, SumOfNone, SumType
  <2>2. Sum(m \cup T) # Sum(m) + Sum(T)
    BY <1>3
  <2>3. Sum(m \cup T) = Sum(T)
    BY <2>1, Zenon
  <2> HIDE DEF Sum
  <2> QED BY <2>1, <2>2, <2>3
<1>5. CASE m # {}
  <2>1. PICK x \in m : TRUE
    BY <1>5
  <2> DEFINE u == m \ {x}
  <2>2. /\ u \notin family /\ u \in SUBSET S /\ m \in SUBSET S
        /\ (m \cup T) \ {x} = u \cup T /\ u \cup T \in SUBSET D /\ m \cup T \in SUBSET D
        /\ x \in m \cup T /\ x \in D
    BY <1>3, <2>1
  <2>3. Sum(u \cup T) = Sum(u) + Sum(T)
    BY <2>2
  <2>4. Sum(m \cup T) = f[x] + Sum(u \cup T)
    BY <2>2, SumWithout
  <2>5. Sum(m) = f[x] + Sum(u)
    BY <2>1, <2>2, SumWithout
  <2>6. f[x] \in Nat /\ Sum(u) \in Nat /\ Sum(T) \in Nat
    BY <2>2, SumType
  <2> HIDE DEF u, Sum
  <2>7. Sum(m \cup T) = Sum(m) + Sum(T)
    BY <2>3, <2>4, <2>5, <2>6
  <2>8. Sum(m \cup T) # Sum(m) + Sum(T)
    BY <1>3 DEF Sum
  <2> QED BY <2>7, <2>8
<1> QED BY <1>4, <1>5

\* A sum over more is more.
LEMMA SumGrows ==
  ASSUME NEW D, IsFiniteSet(D), NEW f \in [D -> Nat],
         NEW S \in SUBSET D, NEW T \in SUBSET S
  PROVE  SumFunctionOnSet(f, T) =< SumFunctionOnSet(f, S)
<1>1. SumFunctionOnSet(f, T \cup (S \ T))
        = SumFunctionOnSet(f, T) + SumFunctionOnSet(f, S \ T)
  BY SumOfUnion
<1>2. T \cup (S \ T) = S
  OBVIOUS
<1>3. SumFunctionOnSet(f, T) \in Nat /\ SumFunctionOnSet(f, S \ T) \in Nat
  BY SumType
<1>4. SumFunctionOnSet(f, T \cup (S \ T)) = SumFunctionOnSet(f, S)
  BY <1>2, Zenon
<1> QED BY <1>1, <1>3, <1>4

\* The sum over one element.
LEMMA SumOfOne ==
  ASSUME NEW x, NEW f \in [{x} -> Nat] PROVE SumFunctionOnSet(f, {x}) = f[x]
<1>1. IsFiniteSet({x}) /\ {x} \ {x} = {}
  BY FS_Singleton
<1>2. SumFunctionOnSet(f, {x}) = f[x] + SumFunctionOnSet(f, {x} \ {x})
  BY <1>1, SumWithout
<1>3. SumFunctionOnSet(f, {x} \ {x}) = 0
  BY <1>1, SumOfNone
<1> QED BY <1>2, <1>3

\* A sum over copies is the sum over what they are copies of.
LEMMA SumOfCopies ==
  ASSUME NEW D, IsFiniteSet(D), NEW f \in [D -> Nat],
         NEW E, IsFiniteSet(E), NEW g \in [E -> Nat],
         NEW key \in [D -> E], \A x, y \in D : key[x] = key[y] => x = y,
         \A y \in E : \E x \in D : key[x] = y, \A x \in D : g[key[x]] = f[x]
  PROVE  SumFunctionOnSet(g, E) = SumFunctionOnSet(f, D)
<1> DEFINE Image(S) == {key[x] : x \in S}
           family == {S \in SUBSET D : SumFunctionOnSet(g, Image(S)) # SumFunctionOnSet(f, S)}
<1>1. Image(D) = E
  OBVIOUS
<1>2. SUFFICES ASSUME family # {} PROVE FALSE
  BY <1>1
<1>3. family \in SUBSET (SUBSET D)
  OBVIOUS
<1>4. PICK m \in family : \A u \in SUBSET m : u # m => u \notin family
  <2> HIDE DEF family
  <2> QED BY <1>2, <1>3, SmallestSubset
<1>5. m \in SUBSET D /\ SumFunctionOnSet(g, Image(m)) # SumFunctionOnSet(f, m)
  OBVIOUS
<1>6. CASE m = {}
  <2>1. Image(m) = {}
    BY <1>6
  <2> HIDE DEF Image
  <2> QED BY <1>5, <1>6, <2>1, SumOfNone
<1>7. CASE m # {}
  <2>1. PICK x \in m : TRUE
    BY <1>7
  <2> DEFINE u == m \ {x}
  <2>2. u \in SUBSET m /\ u # m /\ u \in SUBSET D /\ x \in D
    BY <1>5, <2>1
  <2>3. SumFunctionOnSet(g, Image(u)) = SumFunctionOnSet(f, u)
    BY <1>4, <2>2
  <2>4. /\ Image(m) \in SUBSET E /\ key[x] \in Image(m) /\ Image(m) \ {key[x]} = Image(u)
    BY <1>5, <2>1
  <2>5. SumFunctionOnSet(f, m) = f[x] + SumFunctionOnSet(f, u)
    BY <1>5, <2>1, SumWithout
  <2> HIDE DEF u, Image
  <2>6. SumFunctionOnSet(g, Image(m)) = g[key[x]] + SumFunctionOnSet(g, Image(m) \ {key[x]})
    BY <2>4, SumWithout
  <2> QED BY <1>5, <2>2, <2>3, <2>4, <2>5, <2>6
<1> QED BY <1>6, <1>7

\* The same of a function's values.
LEMMA SumFunctionType ==
  ASSUME NEW D, IsFiniteSet(D), NEW f \in [D -> Nat] PROVE SumFunction(f) \in Nat
<1>1. DOMAIN f = D
  OBVIOUS
<1>2. SumFunctionOnSet(f, D) \in Nat
  BY SumType
<1> QED BY <1>1, <1>2 DEF SumFunction
=============================================================================
