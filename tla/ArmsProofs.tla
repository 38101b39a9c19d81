----------------------------- MODULE ArmsProofs -----------------------------
(***************************************************************************)
(* For any buildings, prices, requests and arms that fail: the tables of   *)
(* the report add up to its headline, the savings of a finished comparison *)
(* are those that were made, and the hours of its comfort tables those     *)
(* that were.                                                              *)
(***************************************************************************)
EXTENDS Arms, FiniteSetTheorems, WellFoundedInduction, TLAPS

-----------------------------------------------------------------------------
(* Sums over finite sets.                                                  *)

LEMMA LeastExists ==
  ASSUME NEW S, S \subseteq Nat, S # {}
  PROVE  \E x \in S : \A y \in S : x <= y
<1> DEFINE Below == {p \in Nat \X Nat : p[1] < p[2]}
<1>1. IsWellFoundedOn(Below, Nat)
  BY NatLessThanWellFounded DEF OpToRel
<1>2. PICK x \in S : \A y \in S : <<y, x>> \notin Below
  <2> HIDE DEF Below
  <2> QED
    BY <1>1, WFMin
<1>3. \A y \in S : x <= y
  <2> TAKE y \in S
  <2>1. <<y, x>> \in Nat \X Nat /\ <<y, x>> \notin Below
    BY <1>2
  <2>2. ~(y < x) /\ x \in Nat /\ y \in Nat
    BY <2>1
  <2> QED
    BY <2>2
<1> QED
  BY <1>3

\* Induction over finite sets: of some subsets of one, a smallest.
LEMMA SmallestExists ==
  ASSUME NEW S, IsFiniteSet(S), NEW Some, Some \subseteq SUBSET S, Some # {}
  PROVE  \E T \in Some : \A U \in Some : U \subseteq T => U = T
<1> DEFINE sizes == {Cardinality(T) : T \in Some}
<1>1. \A T \in Some : IsFiniteSet(T) /\ Cardinality(T) \in Nat
  BY FS_Subset, FS_CardinalityType
<1>2. sizes \subseteq Nat /\ sizes # {}
  BY <1>1
<1>3. PICK n \in sizes : \A m \in sizes : n <= m
  <2> HIDE DEF sizes
  <2> QED
    BY <1>2, LeastExists
<1>4. PICK T \in Some : n = Cardinality(T)
  BY <1>3
<1>5. \A U \in Some : Cardinality(T) <= Cardinality(U)
  BY <1>3, <1>4
<1>6. ASSUME NEW U \in Some, U \subseteq T PROVE U = T
  <2>1. U # T => Cardinality(U) < Cardinality(T)
    BY <1>1, <1>6, FS_Subset
  <2>2. Cardinality(U) \in Nat /\ Cardinality(T) \in Nat
    BY <1>1
  <2> QED
    BY <1>5, <2>1, <2>2
<1> QED
  BY <1>6

Any(s) == CHOOSE x \in s : TRUE

\* g has the sums of f over the subsets of S, each from one of its elements and
\* the sum over the others.
SumsOf(g, f, S) ==
  g = [s \in SUBSET S |-> IF s = {} THEN 0
                          ELSE f[CHOOSE x \in s : TRUE] + g[s \ {CHOOSE x \in s : TRUE}]]

LEMMA RemoveOne ==
  ASSUME NEW S, IsFiniteSet(S), NEW x \in S
  PROVE  /\ IsFiniteSet(S \ {x}) /\ Cardinality(S \ {x}) = Cardinality(S) - 1
         /\ Cardinality(S) \in Nat
BY FS_RemoveElement, FS_CardinalityType

\* The function that the sum is defined by exists: by the least size of subsets
\* for which it does not.
LEMMA SumsExist ==
  ASSUME NEW S, IsFiniteSet(S), NEW f
  PROVE  \E g : SumsOf(g, f, S)
<1> DEFINE one(s) == CHOOSE x \in s : TRUE
           UpTo(n) == {s \in SUBSET S : Cardinality(s) <= n}
           Sums(g, n) == g = [s \in UpTo(n) |-> IF s = {} THEN 0
                                                ELSE f[one(s)] + g[s \ {one(s)}]]
           Missing == {n \in Nat : ~\E g : Sums(g, n)}
<1>1. \A s \in SUBSET S : IsFiniteSet(s) /\ Cardinality(s) \in Nat
  BY FS_Subset, FS_CardinalityType
<1>2. Missing = {}
  <2> SUFFICES ASSUME Missing # {} PROVE FALSE
    OBVIOUS
  <2>1. Missing \subseteq Nat
    OBVIOUS
  <2>2. PICK n \in Missing : \A m \in Missing : n <= m
    <3> HIDE DEF Missing
    <3> QED
      BY <2>1, LeastExists
  <2>3. CASE n = 0
    <3> DEFINE g == [s \in UpTo(0) |-> 0]
    <3>1. \A s \in UpTo(0) : s = {}
      <4> SUFFICES ASSUME NEW s \in UpTo(0) PROVE s = {}
        OBVIOUS
      <4>1. Cardinality(s) = 0 /\ IsFiniteSet(s)
        BY <1>1
      <4> QED
        BY <4>1, FS_EmptySet
    <3>2. Sums(g, 0)
      <4> HIDE DEF UpTo
      <4> QED
        BY <3>1
    <3> HIDE DEF g, Sums
    <3> QED
      BY <2>2, <2>3, <3>2
  <2>4. CASE n # 0
    <3>1. n - 1 \in Nat /\ ~(n <= n - 1)
      BY <2>2, <2>4
    <3>2. n - 1 \notin Missing
      BY <2>2, <3>1
    <3>3. PICK g : Sums(g, n - 1)
      BY <3>1, <3>2
    <3> DEFINE h == [s \in UpTo(n) |-> IF s = {} THEN 0 ELSE f[one(s)] + g[s \ {one(s)}]]
    <3>4. ASSUME NEW s \in UpTo(n), s # {}
          PROVE  s \ {one(s)} \in UpTo(n - 1) /\ s \ {one(s)} \in UpTo(n)
      <4>1. one(s) \in s
        BY <3>4
      <4> HIDE DEF one
      <4>2. IsFiniteSet(s) /\ Cardinality(s) \in Nat /\ Cardinality(s) <= n
        BY <1>1
      <4>3. Cardinality(s \ {one(s)}) = Cardinality(s) - 1
        BY <4>1, <4>2, RemoveOne
      <4>4. Cardinality(s \ {one(s)}) <= n - 1 /\ Cardinality(s \ {one(s)}) <= n
        BY <3>1, <4>2, <4>3
      <4>5. s \ {one(s)} \in SUBSET S
        OBVIOUS
      <4> QED
        BY <4>4, <4>5
    <3>5. \A s \in UpTo(n - 1) : g[s] = IF s = {} THEN 0 ELSE f[one(s)] + g[s \ {one(s)}]
      <4> HIDE DEF one, UpTo
      <4> QED
        BY <3>3
    <3> HIDE DEF one, UpTo
    <3>6. ASSUME NEW s \in UpTo(n), s # {} PROVE h[s \ {one(s)}] = g[s \ {one(s)}]
      <4> DEFINE r == s \ {one(s)}
      <4>1. r \in UpTo(n - 1) /\ r \in UpTo(n)
        BY <3>4, <3>6
      <4>2. h[r] = IF r = {} THEN 0 ELSE f[one(r)] + g[r \ {one(r)}]
        BY <4>1
      <4> HIDE DEF r, h
      <4>3. h[r] = g[r]
        BY <3>5, <4>1, <4>2
      <4> QED
        BY <4>3 DEF r
    <3>7. \A s \in UpTo(n) : h[s] = IF s = {} THEN 0 ELSE f[one(s)] + h[s \ {one(s)}]
      <4> SUFFICES ASSUME NEW s \in UpTo(n)
                   PROVE  h[s] = IF s = {} THEN 0 ELSE f[one(s)] + h[s \ {one(s)}]
        OBVIOUS
      <4>1. h[s] = IF s = {} THEN 0 ELSE f[one(s)] + g[s \ {one(s)}]
        OBVIOUS
      <4> HIDE DEF h
      <4> QED
        BY <3>6, <4>1
    <3>8. h = [s \in UpTo(n) |-> h[s]]
      OBVIOUS
    <3>9. Sums(h, n)
      <4> HIDE DEF h
      <4> QED
        BY <3>7, <3>8
    <3> HIDE DEF Sums, h
    <3> QED
      BY <2>2, <3>9
  <2> QED
    BY <2>3, <2>4
<1> DEFINE n == Cardinality(S)
<1>3. UpTo(n) = SUBSET S
  <2>1. \A s \in SUBSET S : Cardinality(s) <= n
    BY FS_Subset
  <2> QED
    BY <2>1
<1>4. n \in Nat
  BY FS_CardinalityType
<1>5. PICK g : Sums(g, n)
  <2> HIDE DEF Sums, n
  <2> QED
    BY <1>2, <1>4
<1>6. SumsOf(g, f, S)
  <2> HIDE DEF UpTo
  <2> QED
    BY <1>3, <1>5 DEF SumsOf
<1> QED
  BY <1>6

LEMMA SumIsLast ==
  ASSUME NEW S, IsFiniteSet(S), NEW f
  PROVE  \E g : SumsOf(g, f, S) /\ SumFunctionOnSet(f, S) = g[S]
<1> DEFINE g == CHOOSE g : SumsOf(g, f, S)
<1>1. SumsOf(g, f, S)
  BY SumsExist
<1>2. SumFunctionOnSet(f, S) = g[S]
  BY DEF SumFunctionOnSet, FoldFunctionOnSet, MapThenFoldSet, SumsOf
<1> HIDE DEF g
<1> QED
  BY <1>1, <1>2

LEMMA SumsAre ==
  ASSUME NEW S, NEW f, NEW g, SumsOf(g, f, S)
  PROVE  \A s \in SUBSET S : /\ s = {} => g[s] = 0
                             /\ s # {} => /\ Any(s) \in s
                                         /\ g[s] = f[Any(s)] + g[s \ {Any(s)}]
<1> SUFFICES ASSUME NEW s \in SUBSET S
             PROVE  /\ s = {} => g[s] = 0
                    /\ s # {} => Any(s) \in s /\ g[s] = f[Any(s)] + g[s \ {Any(s)}]
  OBVIOUS
<1>1. g[s] = IF s = {} THEN 0 ELSE f[Any(s)] + g[s \ {Any(s)}]
  BY DEF SumsOf, Any
<1>2. s # {} => Any(s) \in s
  BY DEF Any
<1> QED
  BY <1>1, <1>2

\* Sums over a set are of the values of its elements alone.
LEMMA SumsAgree ==
  ASSUME NEW S, NEW T, IsFiniteSet(T), T \subseteq S, NEW f, NEW e, NEW g, NEW h,
         \A x \in T : e[x] = f[x], SumsOf(g, f, S), SumsOf(h, e, T)
  PROVE  \A s \in SUBSET T : h[s] = g[s]
<1> DEFINE Wrong == {s \in SUBSET T : h[s] # g[s]}
<1> SUFFICES ASSUME Wrong # {} PROVE FALSE
  OBVIOUS
<1>1. Wrong \subseteq SUBSET T
  OBVIOUS
<1>2. PICK s \in Wrong : \A u \in Wrong : u \subseteq s => u = s
  <2> HIDE DEF Wrong
  <2> QED
    BY <1>1, SmallestExists
<1>3. s \in SUBSET T /\ s \in SUBSET S /\ h[s] # g[s]
  OBVIOUS
<1>4. s # {}
  BY <1>3, SumsAre
<1> HIDE DEF Wrong
<1> DEFINE x == Any(s)
<1>5. x \in s /\ h[s] = e[x] + h[s \ {x}]
  BY <1>3, <1>4, SumsAre
<1>6. g[s] = f[x] + g[s \ {x}]
  <2>1. \A u \in SUBSET S : u # {} => g[u] = f[Any(u)] + g[u \ {Any(u)}]
    BY SumsAre
  <2> QED
    BY <1>3, <1>4, <2>1
<1> HIDE DEF x
<1>7. s \ {x} \subseteq s /\ s \ {x} # s /\ s \ {x} \in SUBSET T
  BY <1>3, <1>5
<1>8. h[s \ {x}] = g[s \ {x}]
  BY <1>2, <1>7 DEF Wrong
<1>9. e[x] = f[x]
  BY <1>3, <1>5
<1> QED
  BY <1>3, <1>5, <1>6, <1>8, <1>9

LEMMA SumsType ==
  ASSUME NEW S, IsFiniteSet(S), NEW f, \A x \in S : f[x] \in Int, NEW g, SumsOf(g, f, S)
  PROVE  \A s \in SUBSET S : g[s] \in Int
<1>0. \A s \in SUBSET S : /\ s = {} => g[s] = 0
                          /\ s # {} => Any(s) \in s /\ g[s] = f[Any(s)] + g[s \ {Any(s)}]
  BY SumsAre
<1> DEFINE Wrong == {s \in SUBSET S : g[s] \notin Int}
<1> SUFFICES ASSUME Wrong # {} PROVE FALSE
  OBVIOUS
<1>1. Wrong \subseteq SUBSET S
  OBVIOUS
<1>2. PICK s \in Wrong : \A u \in Wrong : u \subseteq s => u = s
  <2> HIDE DEF Wrong
  <2> QED
    BY <1>1, SmallestExists
<1>3. s \in SUBSET S /\ g[s] \notin Int
  OBVIOUS
<1> HIDE DEF Wrong
<1>4. s # {}
  <2>1. s = {} => g[s] = 0
    BY <1>0, <1>3
  <2> QED
    BY <1>3, <2>1
<1> DEFINE x == Any(s)
<1>5. x \in s /\ g[s] = f[x] + g[s \ {x}]
  BY <1>0, <1>3, <1>4
<1> HIDE DEF x
<1>6. s \ {x} \subseteq s /\ s \ {x} # s /\ s \ {x} \in SUBSET S
  BY <1>3, <1>5
<1>7. g[s \ {x}] \in Int
  BY <1>2, <1>6 DEF Wrong
<1>8. f[x] \in Int
  BY <1>3, <1>5
<1> QED
  BY <1>3, <1>5, <1>7, <1>8

\* Whichever element is added last.
LEMMA SumsCommute ==
  ASSUME NEW S, IsFiniteSet(S), NEW f, \A x \in S : f[x] \in Int, NEW g, SumsOf(g, f, S)
  PROVE  \A s \in SUBSET S : \A x \in s : g[s] = f[x] + g[s \ {x}]
<1>0. \A s \in SUBSET S : /\ s = {} => g[s] = 0
                          /\ s # {} => Any(s) \in s /\ g[s] = f[Any(s)] + g[s \ {Any(s)}]
  BY SumsAre
<1> DEFINE Wrong == {s \in SUBSET S : \E x \in s : g[s] # f[x] + g[s \ {x}]}
<1> SUFFICES ASSUME Wrong # {} PROVE FALSE
  OBVIOUS
<1>1. Wrong \subseteq SUBSET S
  OBVIOUS
<1>2. PICK s \in Wrong : \A u \in Wrong : u \subseteq s => u = s
  <2> HIDE DEF Wrong
  <2> QED
    BY <1>1, SmallestExists
<1>3. PICK x \in s : g[s] # f[x] + g[s \ {x}]
  OBVIOUS
<1>4. s \in SUBSET S /\ s # {}
  BY <1>3
<1> HIDE DEF Wrong
<1> DEFINE c == Any(s)
<1>5. c \in s /\ g[s] = f[c] + g[s \ {c}]
  BY <1>0, <1>4
<1> HIDE DEF c
<1>6. c # x
  BY <1>3, <1>5
<1> DEFINE sx == s \ {x}
           sc == s \ {c}
           sxc == s \ {x, c}
<1>7. /\ sx \subseteq s /\ sx # s /\ sx \in SUBSET S /\ c \in sx
      /\ sc \subseteq s /\ sc # s /\ sc \in SUBSET S /\ x \in sc
      /\ sxc \in SUBSET S /\ sx \ {c} = sxc /\ sc \ {x} = sxc
  BY <1>4, <1>5, <1>6
<1>8. sx \notin Wrong /\ sc \notin Wrong
  <2> HIDE DEF sx, sc
  <2> QED
    BY <1>2, <1>7
<1>9. g[sx] = f[c] + g[sxc] /\ g[sc] = f[x] + g[sxc]
  <2> HIDE DEF sx, sc, sxc
  <2> QED
    BY <1>7, <1>8 DEF Wrong
<1>10. f[x] \in Int /\ f[c] \in Int /\ g[sxc] \in Int
  <2> HIDE DEF sxc
  <2> QED
    BY <1>4, <1>7, SumsType
<1>11. g[s] = f[c] + g[sc]
  BY <1>5
<1>12. g[s] = f[x] + g[sx]
  <2> HIDE DEF sx, sc, sxc
  <2> QED
    BY <1>9, <1>10, <1>11
<1> QED
  BY <1>3, <1>12

\* The sum of a function over a finite set, in any order.
LEMMA SumEmpty ==
  ASSUME NEW f, DOMAIN f = {}
  PROVE  SumFunction(f) = 0
<1>1. IsFiniteSet({})
  BY FS_EmptySet
<1>2. PICK g : SumsOf(g, f, {}) /\ SumFunctionOnSet(f, {}) = g[{}]
  BY <1>1, SumIsLast
<1>3. g[{}] = 0
  BY <1>2, SumsAre
<1> QED
  BY <1>2, <1>3 DEF SumFunction

LEMMA SumWithout ==
  ASSUME NEW S, IsFiniteSet(S), NEW f \in [S -> Int]
  PROVE  /\ SumFunction(f) \in Int
         /\ \A x \in S : /\ SumFunction([y \in S \ {x} |-> f[y]]) \in Int
                         /\ SumFunction(f) = f[x] + SumFunction([y \in S \ {x} |-> f[y]])
<1>1. PICK g : SumsOf(g, f, S) /\ SumFunctionOnSet(f, S) = g[S]
  BY SumIsLast
<1>2. SumFunction(f) = g[S]
  BY <1>1 DEF SumFunction
<1>3. \A x \in S : f[x] \in Int
  OBVIOUS
<1>4. \A s \in SUBSET S : g[s] \in Int
  BY <1>1, <1>3, SumsType
<1>5. ASSUME NEW x \in S
      PROVE  SumFunction([y \in S \ {x} |-> f[y]]) = g[S \ {x}]
  <2> DEFINE T == S \ {x}
             e == [y \in T |-> f[y]]
  <2>1. IsFiniteSet(T) /\ T \subseteq S
    BY FS_Subset
  <2>2. DOMAIN e = T /\ \A y \in T : e[y] = f[y]
    OBVIOUS
  <2> HIDE DEF e, T
  <2>3. PICK h : SumsOf(h, e, T) /\ SumFunctionOnSet(e, T) = h[T]
    BY <2>1, SumIsLast
  <2>4. h[T] = g[T]
    BY <1>1, <2>1, <2>2, <2>3, SumsAgree
  <2>5. SumFunction(e) = g[T]
    BY <2>2, <2>3, <2>4 DEF SumFunction
  <2> QED
    BY <2>5 DEF e, T
<1>6. \A x \in S : g[S] = f[x] + g[S \ {x}]
  BY <1>1, <1>3, SumsCommute
<1> QED
  BY <1>2, <1>4, <1>5, <1>6

\* The sum is that of the sums of its parts, by the key they have.
Part(S, key, k) == {x \in S : key[x] = k}
PartSum(S, key, f, k) == SumFunction([x \in Part(S, key, k) |-> f[x]])
SumOfParts(S, key, f) == SumFunction([k \in {key[x] : x \in S} |-> PartSum(S, key, f, k)])

LEMMA KeysFinite ==
  ASSUME NEW S, IsFiniteSet(S), NEW key
  PROVE  IsFiniteSet({key[x] : x \in S})
<1> DEFINE T == {key[x] : x \in S}
           g == [x \in S |-> key[x]]
<1>1. g \in Surjection(S, T)
  BY DEF Surjection
<1> HIDE DEF g, T
<1>2. IsFiniteSet(T)
  BY <1>1, FS_Surjection
<1> QED
  BY <1>2 DEF T

LEMMA KeysAtMost ==
  ASSUME NEW S, IsFiniteSet(S), NEW key
  PROVE  Cardinality({key[x] : x \in S}) <= Cardinality(S)
<1> DEFINE T == {key[x] : x \in S}
           g == [x \in S |-> key[x]]
<1>1. g \in Surjection(S, T)
  BY DEF Surjection
<1> HIDE DEF g, T
<1>2. Cardinality(T) <= Cardinality(S)
  BY <1>1, FS_Surjection
<1> QED
  BY <1>2 DEF T

LEMMA PartSumType ==
  ASSUME NEW S, IsFiniteSet(S), NEW key, NEW f \in [S -> Int], NEW k
  PROVE  PartSum(S, key, f, k) \in Int
<1> DEFINE T == Part(S, key, k)
           e == [x \in T |-> f[x]]
<1>1. IsFiniteSet(T) /\ T \subseteq S
  BY FS_Subset DEF Part
<1>2. e \in [T -> Int]
  <2> HIDE DEF T
  <2> QED
    BY <1>1
<1> HIDE DEF T, e
<1>3. SumFunction(e) \in Int
  BY <1>1, <1>2, SumWithout
<1> QED
  BY <1>3 DEF PartSum, T, e

\* An element more, in its part.
LEMMA PartSumWithout ==
  ASSUME NEW S, IsFiniteSet(S), NEW key, NEW f \in [S -> Int], NEW x \in S, NEW k
  PROVE  /\ key[x] # k => PartSum(S, key, f, k) = PartSum(S \ {x}, key, [y \in S \ {x} |-> f[y]], k)
         /\ key[x] = k => PartSum(S, key, f, k)
                            = f[x] + PartSum(S \ {x}, key, [y \in S \ {x} |-> f[y]], k)
<1> DEFINE T == Part(S, key, k)
           U == Part(S \ {x}, key, k)
           R == S \ {x}
           e == [y \in T |-> f[y]]
           r == [y \in R |-> f[y]]
           d == [y \in U |-> r[y]]
<1>1. /\ IsFiniteSet(T) /\ T \subseteq S /\ U \subseteq R /\ R \subseteq S
      /\ key[x] # k => T = U
      /\ key[x] = k => x \in T /\ U = T \ {x}
  BY FS_Subset DEF Part
<1>2. e \in [T -> Int] /\ PartSum(S, key, f, k) = SumFunction(e)
  <2>1. PartSum(S, key, f, k) = SumFunction(e)
    BY DEF PartSum
  <2>2. e \in [T -> Int]
    <3> HIDE DEF T
    <3> QED
      BY <1>1
  <2> QED
    BY <2>1, <2>2
<1>3. PartSum(R, key, r, k) = SumFunction(d)
  BY DEF PartSum
<1>4. d = [y \in U |-> f[y]]
  <2> HIDE DEF U, R
  <2> QED
    BY <1>1
<1>5. key[x] # k => d = e
  <2> HIDE DEF U, T, d
  <2> QED
    BY <1>1, <1>4
<1>6. key[x] = k => SumFunction(e) = f[x] + SumFunction(d)
  <2> SUFFICES ASSUME key[x] = k PROVE SumFunction(e) = f[x] + SumFunction(d)
    OBVIOUS
  <2>1. x \in T /\ U = T \ {x}
    BY <1>1
  <2>2. e[x] = f[x]
    BY <2>1
  <2>3. d = [y \in T \ {x} |-> e[y]]
    <3> HIDE DEF U, T, d
    <3> QED
      BY <1>4, <2>1
  <2>4. IsFiniteSet(T) /\ e \in [T -> Int]
    BY <1>1, <1>2
  <2> HIDE DEF U, T, d, e
  <2> HIDE DEF R, r
  <2>5. \A w \in T : /\ SumFunction([y \in T \ {w} |-> e[y]]) \in Int
                   /\ SumFunction(e) = e[w] + SumFunction([y \in T \ {w} |-> e[y]])
    BY <2>4, SumWithout, Zenon
  <2>6. SumFunction(e) = e[x] + SumFunction([y \in T \ {x} |-> e[y]])
    BY <2>1, <2>5
  <2> QED
    BY <2>2, <2>3, <2>6
<1> HIDE DEF T, U, e, d
<1>7. /\ key[x] # k => PartSum(S, key, f, k) = PartSum(R, key, r, k)
      /\ key[x] = k => PartSum(S, key, f, k) = f[x] + PartSum(R, key, r, k)
  <2> HIDE DEF R, r
  <2> QED
    BY <1>2, <1>3, <1>5, <1>6
<1> QED
  BY <1>7

\* An element more: its part's sum and the sum of the parts are more by it.
LEMMA SumOfPartsWithout ==
  ASSUME NEW S, IsFiniteSet(S), NEW key, NEW f \in [S -> Int], NEW x \in S
  PROVE  SumOfParts(S, key, f)
           = f[x] + SumOfParts(S \ {x}, key, [y \in S \ {x} |-> f[y]])
<1> DEFINE R == S \ {x}
           r == [y \in R |-> f[y]]
           c == key[x]
           K == {key[y] : y \in S}
           L == {key[y] : y \in R}
           e == [k \in K |-> PartSum(S, key, f, k)]
           d == [k \in L |-> PartSum(R, key, r, k)]
           rest == [k \in K \ {c} |-> e[k]]
<1>1. /\ IsFiniteSet(R) /\ r \in [R -> Int] /\ f[x] \in Int
      /\ IsFiniteSet(K) /\ IsFiniteSet(L)
  <2>1. IsFiniteSet(R)
    BY RemoveOne
  <2>2. IsFiniteSet(K)
    BY KeysFinite
  <2>3. IsFiniteSet(L)
    <3> HIDE DEF R
    <3> QED
      BY <2>1, KeysFinite
  <2> QED
    BY <2>1, <2>2, <2>3
<1>2. c \in K /\ K = L \cup {c}
  OBVIOUS
<1>3. SumOfParts(S, key, f) = SumFunction(e)
  BY DEF SumOfParts
<1>4. SumOfParts(R, key, r) = SumFunction(d)
  BY DEF SumOfParts
<1>5. \A k \in L : k # c => PartSum(S, key, f, k) = PartSum(R, key, r, k)
  <2> SUFFICES ASSUME NEW k \in L, c # k PROVE PartSum(S, key, f, k) = PartSum(R, key, r, k)
    OBVIOUS
  <2> HIDE DEF L
  <2> QED
    BY PartSumWithout
<1>6. PartSum(S, key, f, c) = f[x] + PartSum(R, key, r, c)
  BY PartSumWithout
<1>7. \A k : PartSum(S, key, f, k) \in Int /\ PartSum(R, key, r, k) \in Int
  <2>1. \A k : PartSum(S, key, f, k) \in Int
    BY PartSumType
  <2>2. \A k : PartSum(R, key, r, k) \in Int
    <3> HIDE DEF R, r
    <3> QED
      BY <1>1, PartSumType
  <2> QED
    BY <2>1, <2>2
<1> HIDE DEF K, L, R, r, c
<1>8. e \in [K -> Int] /\ d \in [L -> Int] /\ e[c] = PartSum(S, key, f, c)
  BY <1>2, <1>7
<1>9. SumFunction(e) = e[c] + SumFunction(rest) /\ SumFunction(rest) \in Int
  <2>1. c \in K /\ IsFiniteSet(K) /\ e \in [K -> Int]
    BY <1>1, <1>2, <1>8
  <2> HIDE DEF e
  <2>2. /\ SumFunction([k \in K \ {c} |-> e[k]]) \in Int
        /\ SumFunction(e) = e[c] + SumFunction([k \in K \ {c} |-> e[k]])
    BY <2>1, SumWithout
  <2> QED
    BY <2>2
<1>10. rest = [k \in K \ {c} |-> PartSum(S, key, f, k)]
  OBVIOUS
<1> HIDE DEF e, rest
<1>11. CASE c \in L
  <2> DEFINE less == [k \in L \ {c} |-> d[k]]
  <2>1. less = [k \in L \ {c} |-> PartSum(R, key, r, k)] /\ d[c] = PartSum(R, key, r, c)
    BY <1>11
  <2>2. K = L
    BY <1>2, <1>11
  <2>3. less = rest
    <3> HIDE DEF less
    <3> QED
      BY <1>5, <1>10, <2>1, <2>2
  <2>4. SumFunction(d) = d[c] + SumFunction(less)
    <3> HIDE DEF d
    <3> QED
      BY <1>1, <1>8, <1>11, SumWithout
  <2> HIDE DEF less, d
  <2>5. d[c] \in Int
    BY <1>7, <2>1
  <2> QED
    BY <1>1, <1>3, <1>4, <1>6, <1>8, <1>9, <2>1, <2>3, <2>4, <2>5 DEF R, r
<1>12. CASE c \notin L
  <2>1. K \ {c} = L
    BY <1>2, <1>12
  <2>2. rest = d
    BY <1>5, <1>10, <1>12, <2>1
  <2>3. PartSum(R, key, r, c) = 0
    <3>1. Part(R, key, c) = {}
      BY <1>12 DEF Part, L
    <3> DEFINE p == [y \in Part(R, key, c) |-> r[y]]
    <3>2. DOMAIN p = {}
      BY <3>1
    <3> HIDE DEF p
    <3>3. SumFunction(p) = 0
      BY <3>2, SumEmpty
    <3> QED
      BY <3>3 DEF PartSum, p
  <2> HIDE DEF d
  <2>4. SumFunction(e) = f[x] + SumFunction(d)
    BY <1>1, <1>6, <1>8, <1>9, <2>2, <2>3
  <2> QED
    BY <1>3, <1>4, <2>4 DEF R, r
<1> QED
  BY <1>11, <1>12

LEMMA SumByPartsStep ==
  ASSUME NEW T, IsFiniteSet(T), NEW key, NEW g \in [T -> Int], NEW x \in T,
         LET rest == [y \in T \ {x} |-> g[y]]
         IN  SumFunction(rest) = SumOfParts(T \ {x}, key, rest)
  PROVE  SumFunction(g) = SumOfParts(T, key, g)
<1> DEFINE rest == [y \in T \ {x} |-> g[y]]
<1>1. SumFunction(rest) = SumOfParts(T \ {x}, key, rest)
  OBVIOUS
<1>2. SumFunction(g) = g[x] + SumFunction(rest)
  BY SumWithout
<1>3. SumOfParts(T, key, g) = g[x] + SumOfParts(T \ {x}, key, rest)
  BY SumOfPartsWithout
<1> HIDE DEF rest
<1> QED
  BY <1>1, <1>2, <1>3

\* By a smallest set for which it is not.
LEMMA SumByParts ==
  ASSUME NEW S, IsFiniteSet(S), NEW key, NEW f \in [S -> Int]
  PROVE  SumFunction(f) = SumOfParts(S, key, f)
<1> DEFINE part(T) == [x \in T |-> f[x]]
           Wrong == {T \in SUBSET S : SumFunction(part(T)) # SumOfParts(T, key, part(T))}
<1>1. Wrong = {}
  <2> SUFFICES ASSUME Wrong # {} PROVE FALSE
    OBVIOUS
  <2>1. Wrong \subseteq SUBSET S
    OBVIOUS
  <2>2. PICK T \in Wrong : \A U \in Wrong : U \subseteq T => U = T
    <3> HIDE DEF Wrong
    <3> QED
      BY <2>1, SmallestExists
  <2>3. /\ T \in SUBSET S /\ IsFiniteSet(T) /\ part(T) \in [T -> Int]
        /\ SumFunction(part(T)) # SumOfParts(T, key, part(T))
    BY FS_Subset
  <2>4. CASE T = {}
    <3> DEFINE g == part(T)
               h == [k \in {key[x] : x \in T} |-> PartSum(T, key, g, k)]
    <3>1. DOMAIN g = {} /\ DOMAIN h = {}
      BY <2>4
    <3>2. SumOfParts(T, key, g) = SumFunction(h)
      BY DEF SumOfParts
    <3> HIDE DEF g, h
    <3>3. SumFunction(g) = 0 /\ SumFunction(h) = 0
      BY <3>1, SumEmpty
    <3> QED
      BY <2>3, <3>2, <3>3 DEF g
  <2>5. CASE T # {}
    <3>1. PICK x \in T : TRUE
      BY <2>5
    <3> DEFINE U == T \ {x}
               g == part(T)
    <3>2. U \subseteq T /\ U # T /\ U \in SUBSET S
      BY <2>3
    <3>3. SumFunction(part(U)) = SumOfParts(U, key, part(U))
      <4> HIDE DEF U, part
      <4> QED
        BY <2>2, <3>2
    <3>4. part(U) = [y \in T \ {x} |-> g[y]]
      OBVIOUS
    <3>5. g \in [T -> Int] /\ IsFiniteSet(T) /\ x \in T
      BY <2>3, <3>1
    <3>6. SumFunction([y \in T \ {x} |-> g[y]])
            = SumOfParts(T \ {x}, key, [y \in T \ {x} |-> g[y]])
      <4> HIDE DEF part
      <4> QED
        BY <3>3, <3>4
    <3> HIDE DEF part, U, g, Wrong
    <3>7. SumFunction(g) = SumOfParts(T, key, g)
      BY <3>5, <3>6, SumByPartsStep
    <3> QED
      BY <2>3, <3>7 DEF g
  <2> QED
    BY <2>4, <2>5
<1>2. f = part(S)
  OBVIOUS
<1> QED
  BY <1>1, <1>2
-----------------------------------------------------------------------------
(* The tables of a report.                                                 *)

\* By the least cardinality of a subset that has no greatest element.
LEMMA GreatestExists ==
  ASSUME NEW S, IsFiniteSet(S), S \subseteq Int, S # {}
  PROVE  \E x \in S : \A y \in S : y <= x
<1> DEFINE Without == {T \in SUBSET S : T # {} /\ ~\E x \in T : \A y \in T : y <= x}
           sizes == {Cardinality(T) : T \in Without}
<1>1. \A T \in SUBSET S : IsFiniteSet(T) /\ Cardinality(T) \in Nat
  BY FS_Subset, FS_CardinalityType
<1> SUFFICES ASSUME Without # {} PROVE FALSE
  OBVIOUS
<1>2. sizes \subseteq Nat /\ sizes # {}
  BY <1>1
<1>3. PICK T \in Without : \A U \in Without : Cardinality(T) <= Cardinality(U)
  <2>1. \E n \in sizes : \A m \in sizes : n <= m
    <3> HIDE DEF sizes
    <3> QED
      BY <1>2, LeastExists
  <2> QED
    BY <2>1
<1>4. PICK x \in T : TRUE
  OBVIOUS
<1> DEFINE U == T \ {x}
<1>5. U \in SUBSET S /\ IsFiniteSet(T) /\ Cardinality(U) \in Nat /\ Cardinality(T) \in Nat
  BY <1>1
<1>6. Cardinality(U) = Cardinality(T) - 1
  BY <1>4, <1>5, FS_RemoveElement
<1>7. U \notin Without
  <2> HIDE DEF U, Without
  <2> QED
    BY <1>3, <1>5, <1>6
<1>8. CASE U = {}
  BY <1>4, <1>8
<1>9. CASE U # {}
  <2>1. PICK y \in U : \A z \in U : z <= y
    BY <1>5, <1>7, <1>9
  <2>2. x \in Int /\ y \in Int /\ \A z \in T : z \in U \/ z = x
    OBVIOUS
  <2>3. CASE x <= y
    <3>1. \A z \in T : z <= y
      BY <2>1, <2>2, <2>3
    <3> QED
      BY <3>1
  <2>4. CASE y <= x
    <3>1. \A z \in T : z <= x
      BY <2>1, <2>2, <2>4
    <3> QED
      BY <3>1
  <2> QED
    BY <2>2, <2>3, <2>4
<1> QED
  BY <1>8, <1>9

LEMMA MaxInt ==
  ASSUME NEW S, IsFiniteSet(S), S \subseteq Int, S # {}
  PROVE  Max(S) \in S /\ \A y \in S : y <= Max(S)
<1>1. \E x \in S : \A y \in S : x >= y
  BY GreatestExists
<1> QED
  BY <1>1 DEF Max

\* The readings of a database, as far as the tables depend on them.
Readings(rows) ==
  /\ IsFiniteSet(rows)
  /\ \A r \in rows : /\ r.value \in Int /\ r.interval \in Nat \ {0}
                     /\ r.day \in Int /\ r.hour \in Int /\ r.minute \in Int

LEMMA ReadingTypes ==
  ASSUME NEW rows, Readings(rows), NEW r \in rows
  PROVE  /\ Midpoint(r) \in Int /\ HourOf(r) \in Hours /\ Power(r) \in Int
         /\ r.value * Tariff[HourOf(r)] \in Int /\ r.value * Carbon[HourOf(r)] \in Int
<1>1. /\ r.value \in Int /\ r.interval \in Nat \ {0}
      /\ r.day \in Int /\ r.hour \in Int /\ r.minute \in Int
  BY DEF Readings
<1>2. HoursPerDay \in Nat \ {0} /\ PeriodMinutes \in Nat
  BY CurveAssumption
<1>3. Midpoint(r) \in Int
  <2>1. HoursPerDay * r.day \in Int
    BY <1>1, <1>2
  <2> QED
    BY <1>1, <2>1 DEF Midpoint
<1>4. HourOf(r) \in Hours
  <2> DEFINE m == Midpoint(r) \div 120
  <2>1. m \in Int
    BY <1>3
  <2> HIDE DEF m
  <2>2. m % HoursPerDay \in 0 .. HoursPerDay - 1
    BY <1>2, <2>1
  <2> QED
    BY <2>2 DEF HourOf, Hours, m
<1>5. Power(r) \in Int
  <2>1. PeriodMinutes \div r.interval \in Int
    BY <1>1, <1>2
  <2> QED
    BY <1>1, <2>1 DEF Power
<1>6. Tariff[HourOf(r)] \in Int /\ Carbon[HourOf(r)] \in Int
  BY <1>4, CurveAssumption
<1> QED
  BY <1>1, <1>3, <1>4, <1>5, <1>6

\* What a column of the daily table is the sum of: the value, the value by the
\* price or the carbon of its hour.
LEMMA DaysAddUp ==
  ASSUME NEW S, IsFiniteSet(S), NEW f \in [S -> Int]
  PROVE  SumFunction(f) =
           SumFunction([d \in {DayOf(r) : r \in S} |->
                          SumFunction([r \in {q \in S : DayOf(q) = d} |-> f[r]])])
<1> DEFINE key == [r \in S |-> DayOf(r)]
           K == {key[r] : r \in S}
           parts == [d \in K |-> PartSum(S, key, f, d)]
           D == {DayOf(r) : r \in S}
           part(d) == {q \in S : DayOf(q) = d}
           days == [d \in D |-> SumFunction([r \in part(d) |-> f[r]])]
<1>1. SumFunction(f) = SumFunction(parts)
  <2>1. SumFunction(f) = SumOfParts(S, key, f)
    <3> HIDE DEF key
    <3> QED
      BY SumByParts
  <2> QED
    BY <2>1 DEF SumOfParts
<1>2. K = D
  OBVIOUS
<1>3. \A d : Part(S, key, d) = part(d)
  BY DEF Part
<1>4. \A d : PartSum(S, key, f, d) = SumFunction([r \in part(d) |-> f[r]])
  <2> HIDE DEF key, part
  <2> QED
    BY <1>3 DEF PartSum
<1>5. parts = days
  <2> HIDE DEF K, D, key, part
  <2> QED
    BY <1>2, <1>4
<1> HIDE DEF parts
<1> QED
  BY <1>1, <1>5

LEMMA PeakIs ==
  ASSUME NEW rows, Readings(rows)
  PROVE  /\ Peak(rows) \in Int /\ Peak(rows) >= 0 /\ \A r \in rows : Power(r) <= Peak(rows)
         /\ Peak(rows) = 0 \/ \E r \in rows : Peak(rows) = Power(r)
<1> DEFINE P == [r \in rows |-> Power(r)]
           V == {0} \cup {P[r] : r \in rows}
<1>1. IsFiniteSet({P[r] : r \in rows})
  <2> HIDE DEF P
  <2> QED
    BY KeysFinite DEF Readings
<1>2. IsFiniteSet(V)
  <2>1. IsFiniteSet({0})
    BY FS_Singleton
  <2> QED
    BY <1>1, <2>1, FS_Union
<1>3. V \subseteq Int
  <2>1. \A r \in rows : Power(r) \in Int
    BY ReadingTypes
  <2> QED
    BY <2>1
<1>4. V = {0} \cup {Power(r) : r \in rows}
  OBVIOUS
<1>5. Peak(rows) = Max(V)
  <2> HIDE DEF V
  <2> QED
    BY <1>4 DEF Peak
<1>6. Max(V) \in V /\ \A v \in V : v <= Max(V)
  <2>1. V # {}
    OBVIOUS
  <2> HIDE DEF V
  <2> QED
    BY <1>2, <1>3, <2>1, MaxInt
<1> HIDE DEF V
<1>7. 0 \in V /\ \A r \in rows : Power(r) \in V
  BY <1>4
<1>8. Max(V) = 0 \/ \E r \in rows : Max(V) = Power(r)
  BY <1>4, <1>6
<1> QED
  BY <1>3, <1>5, <1>6, <1>7, <1>8

\* The greatest of the days' peaks is the peak.
LEMMA DaysPeak ==
  ASSUME NEW rows, Readings(rows)
  PROVE  Max({0} \cup {Peak({r \in rows : DayOf(r) = d}) : d \in {DayOf(r) : r \in rows}})
           = Peak(rows)
<1> DEFINE part(d) == {r \in rows : DayOf(r) = d}
           D == {DayOf(r) : r \in rows}
           P == {0} \cup {Peak(part(d)) : d \in D}
<1>1. \A d : Readings(part(d))
  BY FS_Subset DEF Readings
<1>2. \A d : /\ Peak(part(d)) \in Int /\ Peak(part(d)) >= 0
             /\ \A r \in part(d) : Power(r) <= Peak(part(d))
             /\ Peak(part(d)) = 0 \/ \E r \in part(d) : Peak(part(d)) = Power(r)
  <2> HIDE DEF part
  <2> QED
    BY <1>1, PeakIs
<1>3. /\ Peak(rows) \in Int /\ Peak(rows) >= 0 /\ \A r \in rows : Power(r) <= Peak(rows)
      /\ Peak(rows) = 0 \/ \E r \in rows : Peak(rows) = Power(r)
  BY PeakIs
<1>4. Peak(rows) \in P
  <2>1. CASE Peak(rows) = 0
    BY <2>1
  <2>2. CASE \E r \in rows : Peak(rows) = Power(r)
    <3>1. PICK r \in rows : Peak(rows) = Power(r)
      BY <2>2
    <3> DEFINE d == DayOf(r)
    <3>2. r \in part(d) /\ d \in D
      OBVIOUS
    <3>3. Power(r) <= Peak(part(d))
      BY <1>2, <3>2
    <3>4. \A q \in part(d) : Power(q) <= Peak(rows)
      BY <1>3
    <3> HIDE DEF part, D, d
    <3>5. Peak(part(d)) <= Peak(rows)
      BY <1>2, <1>3, <3>4
    <3>6. Peak(part(d)) = Peak(rows)
      BY <1>2, <1>3, <3>1, <3>3, <3>5
    <3> QED
      BY <3>2, <3>6
  <2> QED
    BY <1>3, <2>1, <2>2
<1>5. \A p \in P : p \in Int /\ p <= Peak(rows)
  <2>1. \A d : \A q \in part(d) : Power(q) <= Peak(rows)
    BY <1>3
  <2> HIDE DEF part, D
  <2>2. \A d \in D : Peak(part(d)) \in Int /\ Peak(part(d)) <= Peak(rows)
    BY <1>2, <1>3, <2>1
  <2>3. \A p \in P : p = 0 \/ \E d \in D : p = Peak(part(d))
    OBVIOUS
  <2> HIDE DEF P
  <2> QED
    BY <1>3, <2>2, <2>3
<1> HIDE DEF P
<1>6. Max(P) \in P /\ \A p \in P : p <= Max(P)
  <2>1. \E x \in P : \A y \in P : x >= y
    BY <1>3, <1>4, <1>5
  <2>2. (CHOOSE x \in P : \A y \in P : x >= y) = Max(P)
    BY DEF Max
  <2> DEFINE m == CHOOSE x \in P : \A y \in P : x >= y
  <2>3. m \in P /\ \A y \in P : m >= y
    BY <2>1
  <2> HIDE DEF m
  <2>4. m = Max(P)
    BY <2>2 DEF m
  <2> QED
    BY <1>5, <2>3, <2>4
<1>7. Max(P) = Peak(rows)
  <2>1. Max(P) \in Int /\ Max(P) <= Peak(rows) /\ Peak(rows) <= Max(P)
    BY <1>4, <1>5, <1>6
  <2> QED
    BY <1>3, <2>1
<1> QED
  BY <1>7 DEF P

LEMMA AggregateIs ==
  ASSUME NEW rows
  PROVE  /\ Aggregate(rows).kwh = SumFunction([r \in rows |-> r.value])
         /\ Aggregate(rows).cost = SumFunction([r \in rows |-> r.value * Tariff[HourOf(r)]])
         /\ Aggregate(rows).carbon = SumFunction([r \in rows |-> r.value * Carbon[HourOf(r)]])
         /\ Aggregate(rows).peak = Peak(rows)
BY DEF Aggregate, Energy, Weighted

\* The tables of a report on any readings add up.
LEMMA TablesAddUp ==
  ASSUME NEW sql, Readings(sql.rows), NEW zones
  PROVE  AddsUp(ArmReport(sql, zones))
<1> DEFINE S == MeterSeries(sql)
           D == {DayOf(r) : r \in S}
           part(d) == {r \in S : DayOf(r) = d}
           arm == ArmReport(sql, zones)
           value == [r \in S |-> r.value]
           weight(curve) == [r \in S |-> r.value * curve[HourOf(r)]]
<1>1. Readings(S)
  <2>1. S \subseteq sql.rows
    BY DEF MeterSeries, Counted
  <2> HIDE DEF S
  <2> QED
    BY <2>1, FS_Subset DEF Readings
<1>2. Intervals(sql, {FacilityMeter}) = S
  BY DEF Intervals, MeterSeries
<1>3. /\ arm.kpis.site = Aggregate(S)
      /\ arm.daily = Daily(sql) /\ arm.cumulative = Cumulative(sql)
  <2> HIDE DEF S
  <2> QED
    BY <1>2 DEF ArmReport, Kpis
<1>4. /\ DOMAIN arm.daily = D
      /\ \A d \in D : arm.daily[d] = Aggregate(part(d))
  <2> HIDE DEF arm
  <2> QED
    BY <1>3 DEF Daily
<1>5. /\ DOMAIN arm.cumulative = {Midpoint(r) : r \in S}
      /\ \A t \in DOMAIN arm.cumulative :
           arm.cumulative[t] = Energy({r \in S : Midpoint(r) <= t})
  <2> HIDE DEF arm
  <2> QED
    BY <1>3 DEF Cumulative
<1>6. /\ IsFiniteSet(S) /\ value \in [S -> Int]
      /\ weight(Tariff) \in [S -> Int] /\ weight(Carbon) \in [S -> Int]
  <2> HIDE DEF S
  <2>1. \A r \in S : r.value \in Int
    BY <1>1 DEF Readings
  <2>2. \A r \in S : /\ r.value * Tariff[HourOf(r)] \in Int
                     /\ r.value * Carbon[HourOf(r)] \in Int
    BY <1>1, ReadingTypes
  <2> QED
    BY <1>1, <2>1, <2>2 DEF Readings
<1> HIDE DEF arm
<1>7. SumFunction([d \in D |-> arm.daily[d].kwh]) = arm.kpis.site.kwh
  <2> DEFINE f == value
             e == [d \in D |-> SumFunction([r \in part(d) |-> f[r]])]
  <2>1. SumFunction(f) = SumFunction(e)
    <3> HIDE DEF f, S
    <3> QED
      BY <1>6, DaysAddUp DEF f
  <2>2. arm.kpis.site.kwh = SumFunction(f)
    <3> HIDE DEF S
    <3> QED
      BY <1>3 DEF Aggregate, Energy
  <2>3. \A d \in D : arm.daily[d].kwh = SumFunction([r \in part(d) |-> r.value])
    <3> HIDE DEF D, part
    <3> QED
      BY <1>4, AggregateIs
  <2>4. \A d \in D : [r \in part(d) |-> r.value] = [r \in part(d) |-> f[r]]
    <3> HIDE DEF S, D
    <3> QED
      OBVIOUS
  <2>5. [d \in D |-> arm.daily[d].kwh] = e
    <3> HIDE DEF D, part, f
    <3> QED
      BY <2>3, <2>4
  <2> HIDE DEF e, f, D
  <2> QED
    BY <2>1, <2>2, <2>5
<1>8. SumFunction([d \in D |-> arm.daily[d].cost]) = arm.kpis.site.cost
  <2> DEFINE f == weight(Tariff)
             e == [d \in D |-> SumFunction([r \in part(d) |-> f[r]])]
  <2>1. SumFunction(f) = SumFunction(e)
    <3> HIDE DEF f, S
    <3> QED
      BY <1>6, DaysAddUp DEF f
  <2>2. arm.kpis.site.cost = SumFunction(f)
    <3> HIDE DEF S
    <3> QED
      BY <1>3 DEF Aggregate, Weighted
  <2>3. \A d \in D : arm.daily[d].cost = SumFunction([r \in part(d) |-> r.value * Tariff[HourOf(r)]])
    <3> HIDE DEF D, part
    <3> QED
      BY <1>4, AggregateIs
  <2>4. \A d \in D : [r \in part(d) |-> r.value * Tariff[HourOf(r)]] = [r \in part(d) |-> f[r]]
    <3> HIDE DEF S, D
    <3> QED
      OBVIOUS
  <2>5. [d \in D |-> arm.daily[d].cost] = e
    <3> HIDE DEF D, part, f
    <3> QED
      BY <2>3, <2>4
  <2> HIDE DEF e, f, D
  <2> QED
    BY <2>1, <2>2, <2>5
<1>9. SumFunction([d \in D |-> arm.daily[d].carbon]) = arm.kpis.site.carbon
  <2> DEFINE f == weight(Carbon)
             e == [d \in D |-> SumFunction([r \in part(d) |-> f[r]])]
  <2>1. SumFunction(f) = SumFunction(e)
    <3> HIDE DEF f, S
    <3> QED
      BY <1>6, DaysAddUp DEF f
  <2>2. arm.kpis.site.carbon = SumFunction(f)
    <3> HIDE DEF S
    <3> QED
      BY <1>3 DEF Aggregate, Weighted
  <2>3. \A d \in D : arm.daily[d].carbon = SumFunction([r \in part(d) |-> r.value * Carbon[HourOf(r)]])
    <3> HIDE DEF D, part
    <3> QED
      BY <1>4, AggregateIs
  <2>4. \A d \in D : [r \in part(d) |-> r.value * Carbon[HourOf(r)]] = [r \in part(d) |-> f[r]]
    <3> HIDE DEF S, D
    <3> QED
      OBVIOUS
  <2>5. [d \in D |-> arm.daily[d].carbon] = e
    <3> HIDE DEF D, part, f
    <3> QED
      BY <2>3, <2>4
  <2> HIDE DEF e, f, D
  <2> QED
    BY <2>1, <2>2, <2>5
<1>10. Max({0} \cup {arm.daily[d].peak : d \in D}) = arm.kpis.site.peak
  <2>1. arm.kpis.site.peak = Peak(S)
    <3> HIDE DEF S
    <3> QED
      BY <1>3 DEF Aggregate
  <2>2. \A d \in D : arm.daily[d].peak = Peak(part(d))
    <3> HIDE DEF D, part
    <3> QED
      BY <1>4, AggregateIs
  <2>3. {arm.daily[d].peak : d \in D} = {Peak(part(d)) : d \in D}
    <3> HIDE DEF D, part
    <3> QED
      BY <2>2
  <2>4. Max({0} \cup {Peak(part(d)) : d \in D}) = Peak(S)
    <3> HIDE DEF S
    <3> QED
      BY <1>1, DaysPeak
  <2> HIDE DEF D, part
  <2> QED
    BY <2>1, <2>3, <2>4
<1>11. ASSUME NEW t \in DOMAIN arm.cumulative, \A u \in DOMAIN arm.cumulative : u <= t
       PROVE  arm.cumulative[t] = arm.kpis.site.kwh
  <2>1. {r \in S : Midpoint(r) <= t} = S
    <3> HIDE DEF S
    <3> QED
      BY <1>5, <1>11
  <2>2. arm.kpis.site.kwh = Energy(S)
    <3> HIDE DEF S
    <3> QED
      BY <1>3 DEF Aggregate
  <2> HIDE DEF S
  <2> QED
    BY <1>5, <2>1, <2>2
<1> HIDE DEF D
<1>12. AddsUp(arm)
  BY <1>4, <1>7, <1>8, <1>9, <1>10, <1>11 DEF AddsUp
<1> QED
  BY <1>12 DEF arm

-----------------------------------------------------------------------------
(* The files that are simulated are input files.                           *)

LEMMA ComfortFile ==
  ASSUME NEW idf, InputFile(idf)
  PROVE  LET file == FangerComfort(idf)
         IN  InputFile(file) /\ file.period = idf.period /\ file.steps = idf.steps
BY DEF InputFile, FangerComfort

LEMMA MetersFile ==
  ASSUME NEW idf, InputFile(idf)
  PROVE  LET file == EnsureMeters(idf)
         IN  InputFile(file) /\ file.period = idf.period /\ file.steps = idf.steps
<1> DEFINE present == {m.name : m \in idf.meters}
           missing == RequiredMeters \ present
           f == [m \in missing |-> [name |-> m, every |-> "step"]]
           added == {f[m] : m \in missing}
<1>1. IsFiniteSet(missing)
  BY OutputAssumption, FS_Subset
<1>2. IsFiniteSet(added)
  <2> HIDE DEF missing, f
  <2> QED
    BY <1>1, KeysFinite
<1>3. IsFiniteSet(idf.meters \cup added)
  <2> HIDE DEF added
  <2> QED
    BY <1>2, FS_Union DEF InputFile
<1>4. EnsureMeters(idf) = [idf EXCEPT !.meters = @ \cup added]
  BY DEF EnsureMeters
<1> HIDE DEF added
<1> QED
  BY <1>3, <1>4 DEF InputFile

LEMMA PatchedFile ==
  ASSUME NEW idf, InputFile(idf), NEW spec, NEW steps
  PROVE  LET file == PatchIdf(idf, spec, steps)
         IN  InputFile(file) /\ file.period = spec /\ file.steps = steps
<1> DEFINE file == [idf EXCEPT !.weather = TRUE, !.period = spec, !.steps = steps,
                               !.sqlite = TRUE]
<1>1. InputFile(file) /\ file.period = spec /\ file.steps = steps
  BY DEF InputFile
<1> HIDE DEF file
<1>2. PatchIdf(idf, spec, steps) = EnsureMeters(file)
  BY DEF PatchIdf, file
<1> QED
  BY <1>1, <1>2, MetersFile

LEMMA OutputsFile ==
  ASSUME NEW idf, InputFile(idf),
         NEW zones, IsFiniteSet(zones), NEW people, IsFiniteSet(people)
  PROVE  LET file == EnsureOutputs(idf, zones, people)
         IN  InputFile(file) /\ file.period = idf.period /\ file.steps = idf.steps
<1> DEFINE asked == {<<v.key, v.variable>> : v \in idf.variables}
           wanted == (zones \X ZoneVariables) \cup (people \X PeopleVariables)
           missing == wanted \ asked
           f == [w \in missing |-> [key |-> w[1], variable |-> w[2], every |-> "step"]]
           added == {f[w] : w \in missing}
           meter == {[name |-> SiteMeter, every |-> "step"]}
<1>1. IsFiniteSet(missing)
  <2>1. IsFiniteSet(zones \X ZoneVariables) /\ IsFiniteSet(people \X PeopleVariables)
    BY OutputAssumption, FS_Product
  <2>2. IsFiniteSet(wanted)
    BY <2>1, FS_Union
  <2> HIDE DEF wanted, asked
  <2> QED
    BY <2>2, FS_Subset
<1>2. IsFiniteSet(added)
  <2> HIDE DEF missing, f
  <2> QED
    BY <1>1, KeysFinite
<1>3. IsFiniteSet(idf.variables \cup added)
  <2> HIDE DEF added
  <2> QED
    BY <1>2, FS_Union DEF InputFile
<1>4. IsFiniteSet(idf.meters \cup meter)
  <2>1. IsFiniteSet(meter)
    BY FS_Singleton
  <2> HIDE DEF meter
  <2> QED
    BY <2>1, FS_Union DEF InputFile
<1>5. EnsureOutputs(idf, zones, people)
        = [idf EXCEPT !.variables = @ \cup added, !.meters = @ \cup meter, !.sqlite = TRUE]
  BY DEF EnsureOutputs
<1> HIDE DEF added, meter
<1> QED
  BY <1>3, <1>4, <1>5 DEF InputFile

LEMMA ConvertedFile ==
  ASSUME NEW idf, InputFile(idf), NEW zoneMap
  PROVE  InputFile(ConvertSchedules(idf, zoneMap))
<1>1. PICK schedules : ConvertSchedules(idf, zoneMap) = [idf EXCEPT !.schedules = schedules]
  BY DEF ConvertSchedules
<1> QED
  BY <1>1 DEF InputFile

\* The zones that some of the objects name.
LEMMA NamedFinite ==
  ASSUME NEW idf, InputFile(idf), NEW I, IsFiniteSet(I), NEW reference
  PROVE  IsFiniteSet(UNION {Expand(idf, reference[i]) : i \in I})
<1> DEFINE f == [i \in I |-> Expand(idf, reference[i])]
           T == {f[i] : i \in I}
<1>1. \A i \in I : IsFiniteSet(Expand(idf, reference[i]))
  <2> TAKE i \in I
  <2>1. IsFiniteSet({reference[i]})
    BY FS_Singleton
  <2> QED
    BY <2>1 DEF Expand, InputFile
<1>2. IsFiniteSet(T)
  <2> HIDE DEF f
  <2> QED
    BY KeysFinite
<1>3. \A s \in T : IsFiniteSet(s)
  BY <1>1
<1>4. T = {Expand(idf, reference[i]) : i \in I}
  OBVIOUS
<1> HIDE DEF T
<1>5. IsFiniteSet(UNION T)
  BY <1>2, <1>3, FS_UNION
<1> QED
  BY <1>4, <1>5

LEMMA ZonesFinite ==
  ASSUME NEW idf, InputFile(idf)
  PROVE  /\ IsFiniteSet(DOMAIN ThermostatSchedules(idf))
         /\ IsFiniteSet({ZonePeople(idf)[z] : z \in DOMAIN ZonePeople(idf)})
<1> DEFINE known == {i \in DOMAIN idf.controls :
                       idf.controls[i].thermostat \in DOMAIN idf.thermostats}
           control == [i \in known |-> idf.controls[i].reference]
           person == [i \in DOMAIN idf.people |-> idf.people[i].reference]
<1>1. IsFiniteSet(known) /\ IsFiniteSet(DOMAIN idf.people)
  BY FS_Subset DEF InputFile
<1>2. DOMAIN ThermostatSchedules(idf) = UNION {Expand(idf, control[i]) : i \in known}
  <2>1. DOMAIN ThermostatSchedules(idf)
          = UNION {Expand(idf, idf.controls[i].reference) : i \in known}
    BY DEF ThermostatSchedules
  <2>2. {Expand(idf, idf.controls[i].reference) : i \in known}
          = {Expand(idf, control[i]) : i \in known}
    OBVIOUS
  <2> QED
    BY <2>1, <2>2
<1>3. DOMAIN ZonePeople(idf) = UNION {Expand(idf, person[i]) : i \in DOMAIN idf.people}
  <2>1. DOMAIN ZonePeople(idf)
          = UNION {Expand(idf, idf.people[i].reference) : i \in DOMAIN idf.people}
    BY DEF ZonePeople
  <2>2. {Expand(idf, idf.people[i].reference) : i \in DOMAIN idf.people}
          = {Expand(idf, person[i]) : i \in DOMAIN idf.people}
    OBVIOUS
  <2> QED
    BY <2>1, <2>2
<1> HIDE DEF known, control, person
<1>4. IsFiniteSet(DOMAIN ThermostatSchedules(idf)) /\ IsFiniteSet(DOMAIN ZonePeople(idf))
  BY <1>1, <1>2, <1>3, NamedFinite
<1> QED
  BY <1>4, KeysFinite

LEMMA PreparedFile ==
  ASSUME NEW idf, InputFile(idf)
  PROVE  InputFile(Prepared(idf).idf) /\ IsFiniteSet(DOMAIN Prepared(idf).zones)
<1> DEFINE zoneMap == ThermostatSchedules(idf)
           zones == DOMAIN zoneMap
           people == ZonePeople(idf)
           named == {people[z] : z \in DOMAIN people}
           file == FangerComfort(ConvertSchedules(idf, zoneMap))
<1>1. IsFiniteSet(zones) /\ IsFiniteSet(named)
  BY ZonesFinite
<1>2. InputFile(file)
  <2> HIDE DEF zoneMap
  <2> QED
    BY ConvertedFile, ComfortFile
<1>3. Prepared(idf).idf = EnsureOutputs(file, zones, named)
  BY DEF Prepared
<1>4. DOMAIN Prepared(idf).zones = zones
  BY DEF Prepared
<1> HIDE DEF zones, named, file
<1> QED
  BY <1>1, <1>2, <1>3, <1>4, OutputsFile

LEMMA ArmFile ==
  ASSUME NEW idf, InputFile(idf), NEW spec, NEW steps
  PROVE  LET file == PrepareArm(idf, spec, steps)
         IN  InputFile(file) /\ file.period = spec /\ file.steps = steps
<1> DEFINE patched == PatchIdf(idf, spec, steps)
           zones == DOMAIN ThermostatSchedules(patched)
           named == {ZonePeople(patched)[z] : z \in DOMAIN ZonePeople(patched)}
<1>1. InputFile(patched) /\ patched.period = spec /\ patched.steps = steps
  BY PatchedFile
<1>2. PrepareArm(idf, spec, steps) = EnsureOutputs(FangerComfort(patched), zones, named)
  BY DEF PrepareArm
<1> HIDE DEF patched
<1>3. IsFiniteSet(zones) /\ IsFiniteSet(named)
  BY <1>1, ZonesFinite
<1> HIDE DEF zones, named
<1> QED
  BY <1>1, <1>2, <1>3, ComfortFile, OutputsFile

-----------------------------------------------------------------------------
(* What a run reports is readings.                                         *)

LEMMA Product ==
  ASSUME NEW a \in Int, NEW b \in Int, NEW c \in Nat, a <= b
  PROVE  a * c <= b * c /\ a * c \in Int /\ b * c \in Int
OBVIOUS

LEMMA Quotient ==
  ASSUME NEW t \in Nat, NEW h \in Nat \ {0}
  PROVE  t \div h \in Nat /\ (t \div h) * h <= t
<1>1. t = h * (t \div h) + (t % h) /\ t % h \in 0 .. h - 1 /\ t \div h \in Int
  OBVIOUS
<1> DEFINE q == t \div h
           r == t % h
<1>2. t = h * q + r /\ r \in Int /\ 0 <= r /\ r < h /\ q \in Int
  BY <1>1
<1> HIDE DEF q, r
<1>3. t = q * h + r
  BY <1>2
<1>4. CASE q <= 0 - 1
  <2>1. q * h <= (0 - 1) * h /\ q * h \in Int
    BY <1>2, <1>4, Product
  <2>2. (0 - 1) * h = 0 - h
    OBVIOUS
  <2> DEFINE p == q * h
  <2> HIDE DEF p
  <2>3. p <= 0 - h /\ t = p + r /\ p \in Int
    BY <1>3, <2>1, <2>2 DEF p
  <2> QED
    BY <1>2, <2>3
<1>5. CASE q >= 0
  BY <1>2, <1>3, <1>5 DEF q
<1> QED
  BY <1>2, <1>4, <1>5

LEMMA Divided ==
  ASSUME NEW a \in Nat, NEW k \in Nat \ {0}, NEW j \in Nat
  PROVE  a \div k = j <=> j * k <= a /\ a < (j + 1) * k
<1> DEFINE q == a \div k
           r == a % k
<1>1. a = k * q + r /\ r \in Int /\ 0 <= r /\ r < k /\ q \in Nat
  BY Quotient
<1> HIDE DEF q, r
<1>2. a = q * k + r /\ (q + 1) * k = q * k + k /\ (j + 1) * k = j * k + k
  BY <1>1
<1>3. q = j => j * k <= a /\ a < (j + 1) * k
  <2> DEFINE p == q * k
  <2>1. p \in Int
    BY <1>1
  <2> HIDE DEF p
  <2>2. a = p + r /\ (q = j => j * k = p)
    BY <1>2 DEF p
  <2> DEFINE s == j * k
  <2> HIDE DEF s
  <2>3. a = p + r /\ (q = j => s = p) /\ (j + 1) * k = s + k
    BY <1>2, <2>2 DEF s
  <2> QED
    BY <1>1, <2>1, <2>3 DEF s
<1>4. ASSUME q < j PROVE ~(j * k <= a)
  <2>1. (q + 1) * k <= j * k /\ (q + 1) * k \in Int /\ j * k \in Int /\ q * k \in Int
    BY <1>1, <1>4, Product
  <2> DEFINE p == q * k
             s == j * k
  <2> HIDE DEF p, s
  <2>2. p + k <= s /\ a = p + r /\ p \in Int /\ s \in Int
    BY <1>2, <2>1 DEF p, s
  <2>3. ~(s <= a)
    BY <1>1, <2>2
  <2> QED
    BY <2>3 DEF s
<1>5. ASSUME j < q PROVE ~(a < (j + 1) * k)
  <2>1. (j + 1) * k <= q * k /\ (j + 1) * k \in Int /\ q * k \in Int
    BY <1>1, <1>5, Product
  <2> DEFINE p == q * k
             s == (j + 1) * k
  <2> HIDE DEF p, s
  <2>2. s <= p /\ a = p + r /\ p \in Int /\ s \in Int
    BY <1>2, <2>1 DEF p, s
  <2>3. ~(a < s)
    BY <1>1, <2>2
  <2> QED
    BY <2>3 DEF s
<1>6. q < j \/ q = j \/ j < q
  BY <1>1
<1> QED
  BY <1>3, <1>4, <1>5, <1>6 DEF q

\* The minutes of so many days.
Minutes(days) == days * 60 * HoursPerDay

LEMMA MinutesType ==
  ASSUME NEW days \in Nat \ {0}
  PROVE  Minutes(days) \in Nat \ {0}
<1>1. HoursPerDay \in Nat \ {0} /\ days * 60 \in Nat \ {0}
  BY CurveAssumption
<1> DEFINE d == days * 60
<1> HIDE DEF d
<1>2. d \in Nat \ {0}
  BY <1>1 DEF d
<1>3. d * HoursPerDay \in Nat \ {0}
  BY <1>1, <1>2
<1> QED
  BY <1>3 DEF d, Minutes

LEMMA LengthType ==
  ASSUME NEW every, NEW steps \in 1 .. 60
  PROVE  Length(every, steps) \in Nat \ {0}
<1> DEFINE q == 60 \div steps
           r == 60 % steps
<1>1. 60 = steps * q + r /\ r \in 0 .. steps - 1 /\ q \in Nat
  BY Quotient
<1>2. q # 0
  <2>1. SUFFICES ASSUME q = 0 PROVE FALSE
    OBVIOUS
  <2>2. 60 = r
    <3> HIDE DEF q, r
    <3> QED
      BY <1>1, <2>1
  <2> QED
    BY <1>1, <2>2
<1>3. Length(every, steps) \in {q, 60}
  BY DEF Length
<1> QED
  BY <1>1, <1>2, <1>3

LEMMA EndsWithin ==
  ASSUME NEW interval \in Nat \ {0}, NEW days \in Nat
  PROVE  /\ IsFiniteSet(Ends(interval, days))
         /\ \A e \in Ends(interval, days) : e \in Nat /\ e <= Minutes(days)
<1> DEFINE n == Minutes(days) \div interval
           f == [i \in 1 .. n |-> i * interval]
<1>1. Minutes(days) \in Nat
  BY CurveAssumption DEF Minutes
<1>2. n \in Nat /\ n * interval <= Minutes(days)
  BY <1>1, Quotient
<1>3. Ends(interval, days) = {f[i] : i \in 1 .. n}
  BY DEF Ends, Minutes
<1> HIDE DEF n
<1>4. IsFiniteSet(Ends(interval, days))
  <2> DEFINE I == 1 .. n
  <2>1. IsFiniteSet(I)
    BY <1>2, FS_Interval
  <2>2. Ends(interval, days) = {f[i] : i \in I}
    BY <1>3
  <2> HIDE DEF f, I
  <2>3. IsFiniteSet({f[i] : i \in I})
    BY <2>1, KeysFinite
  <2> QED
    BY <2>2, <2>3
<1>5. ASSUME NEW e \in Ends(interval, days) PROVE e \in Nat /\ e <= Minutes(days)
  <2>1. PICK i \in 1 .. n : e = i * interval
    BY <1>3
  <2>2. i * interval <= n * interval /\ i * interval \in Int /\ n * interval \in Int
    BY <1>2, <2>1, Product
  <2>3. i * interval \in Nat
    BY <2>1
  <2> DEFINE a == i * interval
             b == n * interval
  <2> HIDE DEF a, b
  <2>4. e = a /\ a <= b /\ a \in Nat /\ b \in Int /\ b <= Minutes(days)
    BY <1>2, <2>1, <2>2, <2>3 DEF a, b
  <2> QED
    BY <1>1, <2>4
<1> QED
  BY <1>4, <1>5

LEMMA SeriesReadings ==
  ASSUME NEW name, NEW key, NEW every, NEW interval \in Nat \ {0},
         NEW E, IsFiniteSet(E), E \subseteq Nat, NEW reading, DOMAIN reading = E,
         \A e \in E : reading[e] \in Int
  PROVE  Readings(Series(name, key, every, interval, reading))
<1> DEFINE perDay == 60 * HoursPerDay
           day(e) == (e - 1) \div perDay
           hour(e) == (e - day(e) * perDay) \div 60
           row(e) == [name |-> name, key |-> key, every |-> every, env |-> 2, warmup |-> FALSE,
                      interval |-> interval, day |-> day(e), hour |-> hour(e),
                      minute |-> (e - day(e) * perDay) % 60, value |-> reading[e]]
           f == [e \in E |-> row(e)]
           rows == {f[e] : e \in E}
<1>1. Series(name, key, every, interval, reading) = {row(e) : e \in E}
  BY DEF Series
<1>2. {row(e) : e \in E} = rows
  <2> HIDE DEF row
  <2> QED
    OBVIOUS
<1>3. IsFiniteSet(rows)
  <2> HIDE DEF f
  <2> QED
    BY KeysFinite
<1>4. ASSUME NEW e \in E
      PROVE  /\ day(e) \in Int /\ hour(e) \in Int
             /\ (e - day(e) * perDay) % 60 \in Int
  <2>1. perDay \in Nat \ {0}
    BY CurveAssumption
  <2>2. e - 1 \in Int
    OBVIOUS
  <2> HIDE DEF perDay
  <2>3. day(e) \in Int
    BY <2>1, <2>2
  <2> HIDE DEF day
  <2>4. e - day(e) * perDay \in Int
    BY <2>1, <2>2, <2>3
  <2> QED
    BY <2>3, <2>4
<1>5. ASSUME NEW r \in rows
      PROVE  /\ r.value \in Int /\ r.interval \in Nat \ {0}
             /\ r.day \in Int /\ r.hour \in Int /\ r.minute \in Int
  <2> HIDE DEF perDay, day, hour
  <2>1. PICK e \in E : r = row(e)
    BY <1>2
  <2> QED
    BY <1>4, <2>1
<1> HIDE DEF rows
<1> QED
  BY <1>1, <1>2, <1>3, <1>5 DEF Readings

LEMMA ReadingsUnion ==
  ASSUME NEW a, Readings(a), NEW b, Readings(b)
  PROVE  Readings(a \cup b)
BY FS_Union DEF Readings

LEMMA ReadingsSubset ==
  ASSUME NEW a, Readings(a), NEW b, b \subseteq a
  PROVE  Readings(b)
BY FS_Subset DEF Readings

LEMMA ReadingsOf ==
  ASSUME NEW S, IsFiniteSet(S), NEW f, \A x \in S : Readings(f[x])
  PROVE  Readings(UNION {f[x] : x \in S})
<1> DEFINE T == {f[x] : x \in S}
<1>1. IsFiniteSet(T) /\ \A rows \in T : Readings(rows)
  BY KeysFinite
<1> HIDE DEF T
<1>2. IsFiniteSet(UNION T)
  BY <1>1, FS_UNION DEF Readings
<1>3. Readings(UNION T)
  BY <1>1, <1>2 DEF Readings
<1> QED
  BY <1>3 DEF T

\* The timesteps of a period, and what a meter used in them.
StepsIn(days, steps) == 1 .. days * HoursPerDay * steps
Total(profile, m, days, steps) == SumFunction([i \in StepsIn(days, steps) |-> profile[m][i]])

LEMMA StepsInFinite ==
  ASSUME NEW days \in Nat \ {0}, NEW steps \in 1 .. 60
  PROVE  IsFiniteSet(StepsIn(days, steps))
<1> DEFINE top == days * HoursPerDay * steps
<1>1. top \in Int
  BY CurveAssumption
<1> HIDE DEF top
<1>2. IsFiniteSet(1 .. top)
  BY <1>1, FS_Interval
<1> QED
  BY <1>2 DEF StepsIn, top

\* What a file of that period and so many timesteps an hour needs of a profile.
Covers(profile, days, steps) ==
  \A i \in 1 .. days * HoursPerDay * steps : \A m \in Meters : profile[m][i] \in Nat

LEMMA StepsWithin ==
  ASSUME NEW days \in Nat, NEW steps \in 1 .. 60, NEW a, NEW b \in Nat, b <= Minutes(days)
  PROVE  Steps(a, b, steps) \subseteq 1 .. days * HoursPerDay * steps
<1> DEFINE n == days * HoursPerDay * steps
           q == (b * steps) \div 60
<1>1. HoursPerDay \in Nat /\ n \in Nat /\ b * steps \in Nat /\ Minutes(days) \in Nat
  <2>1. HoursPerDay \in Nat
    BY CurveAssumption
  <2>2. days * HoursPerDay \in Nat /\ days * 60 \in Nat
    BY <2>1
  <2> QED
    BY <2>1, <2>2 DEF Minutes
<1>2. q \in Nat /\ q * 60 <= b * steps
  BY <1>1, Quotient
<1>3. b * steps <= Minutes(days) * steps
  BY <1>1, Product
<1>4. Minutes(days) * steps = n * 60
  <2>1. Minutes(days) = (days * HoursPerDay) * 60
    BY <1>1 DEF Minutes
  <2> DEFINE d == days * HoursPerDay
  <2>2. d \in Nat
    BY <1>1
  <2> HIDE DEF d
  <2>3. (d * 60) * steps = (d * steps) * 60
    BY <2>2
  <2> QED
    BY <2>1, <2>3 DEF d
<1>5. q <= n
  <2> DEFINE c == b * steps
             m == Minutes(days) * steps
  <2>1. q * 60 <= c /\ c <= m /\ m = n * 60 /\ c \in Nat /\ q \in Nat /\ n \in Nat
    BY <1>1, <1>2, <1>3, <1>4
  <2> HIDE DEF c, m, q, n
  <2> QED
    BY <2>1
<1>6. Steps(a, b, steps) \subseteq 1 .. q
  BY DEF Steps
<1> HIDE DEF q, n
<1>7. 1 .. q \subseteq 1 .. n
  BY <1>1, <1>2, <1>5
<1> QED
  BY <1>6, <1>7 DEF n

LEMMA StepsFinite ==
  ASSUME NEW days \in Nat, NEW steps \in 1 .. 60, NEW a, NEW b \in Nat, b <= Minutes(days)
  PROVE  IsFiniteSet(Steps(a, b, steps))
<1> DEFINE n == days * HoursPerDay * steps
           I == 1 .. n
<1>1. n \in Int
  <2>1. HoursPerDay \in Nat
    BY CurveAssumption
  <2> QED
    BY <2>1
<1>2. Steps(a, b, steps) \subseteq I
  BY StepsWithin
<1> HIDE DEF n
<1>3. IsFiniteSet(I)
  BY <1>1, FS_Interval
<1> HIDE DEF I
<1> QED
  BY <1>2, <1>3, FS_Subset

LEMMA ExtraReadings ==
  ASSUME NEW idf, InputFile(idf)
  PROVE  Readings(Extra(idf))
<1> DEFINE names == [q \in idf.meters |-> q.name]
           read == {names[q] : q \in idf.meters} \cap Meters
           row(m, e) == [name |-> m, key |-> "", every |-> "hour", env |-> e, warmup |-> e = 2,
                         interval |-> 60, day |-> 0, hour |-> 1, minute |-> 0, value |-> 9]
           f == [m \in read |-> {row(m, 1), row(m, 2)}]
<1>1. IsFiniteSet(read)
  <2>1. IsFiniteSet({names[q] : q \in idf.meters})
    <3> HIDE DEF names
    <3> QED
      BY KeysFinite DEF InputFile
  <2> QED
    BY <2>1, FS_Subset
<1>2. Extra(idf) = UNION {f[m] : m \in read}
  <2>1. read = {q.name : q \in idf.meters} \cap Meters
    OBVIOUS
  <2>2. Extra(idf) = {row(m, e) : m \in {q.name : q \in idf.meters} \cap Meters, e \in {1, 2}}
    BY DEF Extra
  <2> HIDE DEF read, row
  <2>3. Extra(idf) = {row(m, e) : m \in read, e \in {1, 2}}
    BY <2>1, <2>2
  <2> QED
    BY <2>3
<1>3. ASSUME NEW m \in read PROVE Readings(f[m])
  <2>1. IsFiniteSet({row(m, 1)}) /\ IsFiniteSet({row(m, 2)})
    BY FS_Singleton
  <2>2. \A e : /\ row(m, e).value = 9 /\ row(m, e).interval = 60
               /\ row(m, e).day = 0 /\ row(m, e).hour = 1 /\ row(m, e).minute = 0
    BY Zenon
  <2>3. f[m] = {row(m, 1)} \cup {row(m, 2)}
    <3> HIDE DEF row, read
    <3> QED
      OBVIOUS
  <2> HIDE DEF row
  <2>4. Readings({row(m, 1)}) /\ Readings({row(m, 2)})
    BY <2>1, <2>2 DEF Readings
  <2> QED
    BY <2>3, <2>4, ReadingsUnion
<1> HIDE DEF read, f
<1> QED
  BY <1>1, <1>2, <1>3, ReadingsOf

\* What a meter reads in an interval.
Used(profile, m, interval, e, steps) ==
  SumFunction([i \in Steps(e - interval, e, steps) |-> profile[m][i]])

LEMMA UsedType ==
  ASSUME NEW days \in Nat, NEW steps \in 1 .. 60, NEW profile, Covers(profile, days, steps),
         NEW m \in Meters, NEW interval \in Nat \ {0}, NEW e \in Ends(interval, days)
  PROVE  Used(profile, m, interval, e, steps) \in Int
<1> DEFINE S == Steps(e - interval, e, steps)
           f == [i \in S |-> profile[m][i]]
<1>1. e \in Nat /\ e <= Minutes(days)
  BY EndsWithin
<1>2. IsFiniteSet(S) /\ S \subseteq 1 .. days * HoursPerDay * steps
  BY <1>1, StepsFinite, StepsWithin
<1>3. f \in [S -> Int]
  <2> HIDE DEF S
  <2> QED
    BY <1>2 DEF Covers
<1> HIDE DEF S, f
<1>4. SumFunction(f) \in Int
  BY <1>2, <1>3, SumWithout
<1> QED
  BY <1>4 DEF Used, S, f

LEMMA MeterReadType ==
  ASSUME NEW days \in Nat \ {0}, NEW steps \in 1 .. 60, NEW profile,
         Covers(profile, days, steps), NEW m \in Meters, NEW every
  PROVE  Readings(MeterRead(m, every, days, steps, profile))
<1> DEFINE interval == Length(every, steps)
           reading == [e \in Ends(interval, days) |-> Used(profile, m, interval, e, steps)]
<1>1. interval \in Nat \ {0}
  BY LengthType
<1>2. MeterRead(m, every, days, steps, profile) = Series(m, "", every, interval, reading)
  BY DEF MeterRead, Used
<1> HIDE DEF interval
<1>3. \A e \in Ends(interval, days) : reading[e] \in Int
  BY <1>1, UsedType
<1>4. DOMAIN reading = Ends(interval, days)
  OBVIOUS
<1>5. IsFiniteSet(Ends(interval, days)) /\ Ends(interval, days) \subseteq Nat
  BY <1>1, EndsWithin
<1> HIDE DEF reading
<1> QED
  BY <1>1, <1>2, <1>3, <1>4, <1>5, SeriesReadings

\* A period that can be simulated.
Period(period) == period.first \in Nat /\ period.days \in Nat \ {0}

\* The day of the run a timestep is in.
DayOfStep(i, steps) == (i - 1) \div (HoursPerDay * steps)

LEMMA DayOfStepWithin ==
  ASSUME NEW days \in Nat \ {0}, NEW steps \in 1 .. 60, NEW i \in StepsIn(days, steps)
  PROVE  /\ i \in Nat \ {0} /\ DayOfStep(i, steps) \in 0 .. days - 1
         /\ HoursPerDay * steps \in Nat \ {0}
         /\ DayOfStep(i, steps) * (HoursPerDay * steps) < i
         /\ i <= (DayOfStep(i, steps) + 1) * (HoursPerDay * steps)
<1> DEFINE w == HoursPerDay * steps
           q == DayOfStep(i, steps)
           n == days * w
<1>1. w \in Nat \ {0} /\ days * HoursPerDay * steps = n /\ n \in Nat
  <2>1. HoursPerDay \in Nat \ {0} /\ steps \in Nat \ {0}
    BY CurveAssumption
  <2>2. w \in Nat \ {0}
    BY <2>1
  <2>3. days * HoursPerDay * steps = n
    BY <2>1
  <2> QED
    BY <2>2, <2>3
<1>2. i \in 1 .. n
  BY <1>1 DEF StepsIn
<1>3. q = (i - 1) \div w
  BY DEF DayOfStep
<1> HIDE DEF w, q
<1>4. i - 1 \in Nat /\ i \in Nat \ {0} /\ i <= n
  BY <1>1, <1>2
<1>5. q \in Nat
  BY <1>1, <1>3, <1>4, Quotient
<1>6. q * w <= i - 1 /\ i - 1 < (q + 1) * w
  BY <1>1, <1>3, <1>4, <1>5, Divided
<1>7. q < days
  <2> SUFFICES ASSUME days <= q PROVE FALSE
    BY <1>5
  <2>1. days * w <= q * w /\ q * w \in Int
    BY <1>1, <1>5, Product
  <2> DEFINE p == q * w
  <2>2. n <= p /\ p <= i - 1 /\ p \in Int
    BY <1>6, <2>1
  <2> HIDE DEF p, n
  <2> QED
    BY <1>1, <1>4, <2>2
<1> DEFINE a == q * w
           b == (q + 1) * w
<1>8. a \in Int /\ b \in Int
  BY <1>1, <1>5
<1>9. a < i /\ i <= b
  <2> HIDE DEF a, b, n
  <2>1. a <= i - 1 /\ i - 1 < b
    BY <1>6 DEF a, b
  <2> QED
    BY <1>4, <1>8, <2>1
<1> QED
  BY <1>1, <1>4, <1>5, <1>7, <1>9 DEF w, q

\* The month of a day ends after it, within a month, and within the run.
LEMMA MonthEndWithin ==
  ASSUME NEW period, Period(period), NEW day \in 0 .. period.days - 1
  PROVE  \E d \in Nat \ {0} :
           /\ MonthEnd(period, day) = d * (60 * HoursPerDay)
           /\ day < d /\ d <= day + MonthDays
<1> DEFINE first == period.first
           q == (first + day) \div MonthDays
           d == (q + 1) * MonthDays - first
<1>1. first \in Nat /\ period.days \in Nat /\ day \in Nat /\ MonthDays \in Nat \ {0}
  BY RequestAssumption DEF Period
<1>2. MonthEnd(period, day) = d * 60 * HoursPerDay
  BY DEF MonthEnd
<1> HIDE DEF first
<1>3. first + day \in Nat
  BY <1>1
<1>4. q \in Nat
  BY <1>1, <1>3, Quotient
<1>5. q * MonthDays <= first + day /\ first + day < (q + 1) * MonthDays
  BY <1>1, <1>3, <1>4, Divided
<1>6. (q + 1) * MonthDays = q * MonthDays + MonthDays /\ q * MonthDays \in Int
  BY <1>1, <1>4
<1> DEFINE p == q * MonthDays
<1>7. d = (p + MonthDays) - first /\ p \in Int /\ p <= first + day
      /\ first + day < p + MonthDays
  BY <1>5, <1>6
<1> HIDE DEF p, d, q
<1>8. d \in Nat \ {0} /\ day < d /\ d <= day + MonthDays
  BY <1>1, <1>7
<1>9. d * 60 * HoursPerDay = d * (60 * HoursPerDay)
  <2>1. d \in Nat /\ HoursPerDay \in Nat
    BY <1>8, CurveAssumption
  <2> QED
    BY <2>1
<1> QED
  BY <1>2, <1>8, <1>9

\* The end of the month of each timestep.
MonthEnds(period, steps) ==
  [i \in StepsIn(period.days, steps) |-> MonthEnd(period, DayOfStep(i, steps))]
Months(period, steps) == {MonthEnds(period, steps)[i] : i \in StepsIn(period.days, steps)}
UsedInMonth(profile, m, period, steps, e) ==
  SumFunction([i \in Part(StepsIn(period.days, steps), MonthEnds(period, steps), e)
               |-> profile[m][i]])

LEMMA MonthReadIs ==
  ASSUME NEW m, NEW every, NEW period, NEW steps, NEW profile
  PROVE  MonthRead(m, every, period, steps, profile)
           = Series(m, "", every, MonthDays * 60 * HoursPerDay,
                    [e \in Months(period, steps) |-> UsedInMonth(profile, m, period, steps, e)])
BY DEF MonthRead, Months, MonthEnds, UsedInMonth, Part, StepsIn, DayOfStep

LEMMA MultipleOf ==
  ASSUME NEW c \in Nat, NEW w \in Nat \ {0}
  PROVE  (c * w) \div w = c
<1> DEFINE p == c * w
<1>1. p \in Nat /\ (c + 1) * w = p + w
  OBVIOUS
<1>2. c * w <= p /\ p < (c + 1) * w
  <2> DEFINE s == (c + 1) * w
  <2>1. s = p + w
    BY <1>1
  <2>2. p <= p /\ p < s
    <3> HIDE DEF p, s
    <3> QED
      BY <1>1, <2>1
  <2> QED
    BY <2>2
<1>3. p \div w = c
  <2> DEFINE a == p
  <2>1. a \in Nat /\ c * w <= a /\ a < (c + 1) * w
    BY <1>1, <1>2
  <2> HIDE DEF a, p
  <2>2. a \div w = c
    BY <2>1, Divided
  <2> QED
    BY <2>2 DEF a
<1> QED
  BY <1>3

\* The timesteps read in one month: no more than the month has, all of the run.
LEMMA MonthSteps ==
  ASSUME NEW period, Period(period), NEW steps \in 1 .. 60, NEW e \in Months(period, steps)
  PROVE  LET P == Part(StepsIn(period.days, steps), MonthEnds(period, steps), e)
         IN  /\ IsFiniteSet(P) /\ P \subseteq StepsIn(period.days, steps)
             /\ Cardinality(P) \in Nat
             /\ Cardinality(P) <= MonthDays * (HoursPerDay * steps)
             /\ \E d \in Nat \ {0} : e = d * (60 * HoursPerDay)
<1> DEFINE days == period.days
           S == StepsIn(days, steps)
           ends == MonthEnds(period, steps)
           P == Part(S, ends, e)
           w == HoursPerDay * steps
           perDay == 60 * HoursPerDay
<1>1. /\ days \in Nat \ {0} /\ MonthDays \in Nat \ {0} /\ w \in Nat \ {0}
      /\ perDay \in Nat \ {0}
  BY RequestAssumption, CurveAssumption DEF Period
<1>2. \A i \in S : ends[i] = MonthEnd(period, DayOfStep(i, steps))
  BY DEF MonthEnds
<1>3. PICK i0 \in S : e = ends[i0]
  BY DEF Months
<1>4. ASSUME NEW i \in S
      PROVE  /\ i \in Nat \ {0} /\ DayOfStep(i, steps) \in 0 .. days - 1
             /\ DayOfStep(i, steps) * w < i /\ i <= (DayOfStep(i, steps) + 1) * w
  BY <1>1, DayOfStepWithin
<1>5. ASSUME NEW i \in S
      PROVE  \E d \in Nat \ {0} : /\ ends[i] = d * perDay /\ DayOfStep(i, steps) < d
                                   /\ d <= DayOfStep(i, steps) + MonthDays
  <2>1. DayOfStep(i, steps) \in 0 .. period.days - 1
    BY <1>4
  <2>2. \E d \in Nat \ {0} :
           /\ MonthEnd(period, DayOfStep(i, steps)) = d * (60 * HoursPerDay)
           /\ DayOfStep(i, steps) < d /\ d <= DayOfStep(i, steps) + MonthDays
    BY <2>1, MonthEndWithin
  <2> HIDE DEF ends
  <2> QED
    BY <1>2, <2>2
<1> HIDE DEF S, ends, w, perDay, days
<1>6. PICK d \in Nat \ {0} : e = d * perDay
  BY <1>3, <1>5
<1> DEFINE low == (d - MonthDays) * w
           high == d * w
<1>7. d \in Nat \ {0} /\ low \in Int /\ high = low + MonthDays * w /\ MonthDays * w \in Nat
  <2>1. d \in Nat \ {0}
    BY <1>1
  <2> QED
    BY <1>1, <2>1
<1>8. ASSUME NEW i \in P PROVE i \in low + 1 .. high
  <2>1. i \in S /\ ends[i] = e
    BY DEF Part
  <2>2. PICK c \in Nat \ {0} : /\ e = c * perDay /\ DayOfStep(i, steps) < c
                                /\ c <= DayOfStep(i, steps) + MonthDays
    BY <1>5, <2>1
  <2>3. c = d
    <3>1. c \in Nat /\ d \in Nat
      BY <1>1
    <3>2. (c * perDay) \div perDay = c /\ (d * perDay) \div perDay = d
      BY <1>1, <3>1, MultipleOf
    <3> QED
      BY <1>6, <2>2, <3>2
  <2> DEFINE q == DayOfStep(i, steps)
  <2>4. i \in Nat \ {0} /\ q \in Nat /\ q * w < i /\ i <= (q + 1) * w
    <3>1. /\ i \in Nat \ {0} /\ DayOfStep(i, steps) \in 0 .. days - 1
          /\ DayOfStep(i, steps) * w < i /\ i <= (DayOfStep(i, steps) + 1) * w
      BY <1>4, <2>1
    <3> QED
      BY <1>1, <3>1
  <2>5. q < d /\ d <= q + MonthDays
    BY <2>2, <2>3
  <2> HIDE DEF q
  <2>6. (q + 1) * w <= d * w /\ (d - MonthDays) * w <= q * w
        /\ (q + 1) * w \in Int /\ q * w \in Int
    <3>1. q + 1 \in Int /\ q + 1 <= d /\ d - MonthDays \in Int /\ d - MonthDays <= q /\ d \in Int
      BY <1>1, <1>7, <2>4, <2>5
    <3>2. (q + 1) * w <= d * w /\ (q + 1) * w \in Int
      BY <1>1, <2>4, <3>1, Product
    <3>3. (d - MonthDays) * w <= q * w /\ q * w \in Int
      BY <1>1, <2>4, <3>1, Product
    <3> QED
      BY <3>2, <3>3
  <2> DEFINE a == q * w
             b == (q + 1) * w
  <2>7. a < i /\ i <= b /\ b <= high /\ low <= a /\ a \in Int /\ b \in Int
    BY <2>4, <2>6
  <2>8. high \in Int
    <3> HIDE DEF high, low
    <3> DEFINE l == MonthDays * w
    <3>1. high = low + l /\ l \in Nat
      BY <1>7
    <3> HIDE DEF l
    <3> QED
      BY <1>7, <3>1
  <2> HIDE DEF a, b, low, high
  <2> QED
    BY <1>7, <2>4, <2>7, <2>8
<1>9. P \subseteq S
  BY DEF Part
<1> HIDE DEF P, low, high
<1> DEFINE l == MonthDays * w
<1>10. high = low + l /\ l \in Nat
  BY <1>7
<1> HIDE DEF l
<1>11. IsFiniteSet(low + 1 .. high) /\ Cardinality(low + 1 .. high) = l
  <2>1. low + 1 \in Int /\ high \in Int /\ (low + 1 > high <=> l = 0)
        /\ high - (low + 1) + 1 = l
    BY <1>7, <1>10
  <2>2. /\ IsFiniteSet(low + 1 .. high)
        /\ Cardinality(low + 1 .. high)
             = IF low + 1 > high THEN 0 ELSE high - (low + 1) + 1
    BY <2>1, FS_Interval
  <2> QED
    BY <2>1, <2>2
<1> DEFINE I == low + 1 .. high
<1>12. P \subseteq I /\ IsFiniteSet(I) /\ Cardinality(I) = l
  BY <1>8, <1>11
<1> HIDE DEF I
<1>13. IsFiniteSet(P) /\ Cardinality(P) \in Nat /\ Cardinality(P) <= l
  <2>1. IsFiniteSet(P) /\ Cardinality(P) <= Cardinality(I)
    BY <1>12, FS_Subset
  <2>2. Cardinality(P) \in Nat
    BY <2>1, FS_CardinalityType
  <2> QED
    BY <1>12, <2>1, <2>2
<1> QED
  BY <1>6, <1>9, <1>13 DEF P, S, ends, l, w, days, perDay

LEMMA MonthsWithin ==
  ASSUME NEW period, Period(period), NEW steps \in 1 .. 60
  PROVE  /\ IsFiniteSet(Months(period, steps)) /\ Months(period, steps) \subseteq Nat
         /\ Months(period, steps) # {}
<1> DEFINE S == StepsIn(period.days, steps)
           ends == MonthEnds(period, steps)
<1>1. IsFiniteSet(S)
  BY StepsInFinite DEF Period
<1>2. S # {}
  <2>1. HoursPerDay \in Nat \ {0} /\ period.days \in Nat \ {0}
    BY CurveAssumption DEF Period
  <2> DEFINE d == period.days * HoursPerDay
  <2>2. d \in Nat \ {0}
    BY <2>1
  <2> HIDE DEF d
  <2>3. 1 \in 1 .. d * steps
    BY <2>2
  <2> QED
    BY <2>3 DEF StepsIn, d
<1>3. Months(period, steps) = {ends[i] : i \in S}
  BY DEF Months
<1> HIDE DEF S, ends
<1>4. IsFiniteSet({ends[i] : i \in S}) /\ {ends[i] : i \in S} # {}
  BY <1>1, <1>2, KeysFinite
<1>5. ASSUME NEW e \in Months(period, steps) PROVE e \in Nat
  <2>1. PICK d \in Nat \ {0} : e = d * (60 * HoursPerDay)
    BY MonthSteps
  <2>2. d \in Nat /\ HoursPerDay \in Nat
    BY CurveAssumption DEF Period
  <2> QED
    BY <2>1, <2>2
<1> QED
  BY <1>3, <1>4, <1>5

LEMMA MonthType ==
  ASSUME NEW period, Period(period), NEW steps \in 1 .. 60, NEW profile,
         Covers(profile, period.days, steps), NEW m \in Meters, NEW e \in Months(period, steps)
  PROVE  UsedInMonth(profile, m, period, steps, e) \in Int
<1> DEFINE P == Part(StepsIn(period.days, steps), MonthEnds(period, steps), e)
           f == [i \in P |-> profile[m][i]]
<1>1. IsFiniteSet(P) /\ P \subseteq StepsIn(period.days, steps)
  BY MonthSteps
<1>2. f \in [P -> Int]
  <2> HIDE DEF P
  <2> QED
    BY <1>1 DEF Covers, StepsIn
<1> HIDE DEF P, f
<1>3. SumFunction(f) \in Int
  BY <1>1, <1>2, SumWithout
<1> QED
  BY <1>3 DEF UsedInMonth, P, f

LEMMA MonthMinutes == MonthDays * 60 * HoursPerDay \in Nat \ {0}
<1>1. MonthDays \in Nat \ {0} /\ HoursPerDay \in Nat \ {0}
  BY RequestAssumption, CurveAssumption
<1> DEFINE d == MonthDays * 60
<1>2. d \in Nat \ {0}
  BY <1>1
<1> HIDE DEF d
<1>3. d * HoursPerDay \in Nat \ {0}
  BY <1>1, <1>2
<1> QED
  BY <1>3 DEF d

LEMMA MonthReadType ==
  ASSUME NEW period, Period(period), NEW steps \in 1 .. 60, NEW profile,
         Covers(profile, period.days, steps), NEW m \in Meters, NEW every
  PROVE  Readings(MonthRead(m, every, period, steps, profile))
<1> DEFINE E == Months(period, steps)
           interval == MonthDays * 60 * HoursPerDay
           reading == [e \in E |-> UsedInMonth(profile, m, period, steps, e)]
<1>1. MonthRead(m, every, period, steps, profile) = Series(m, "", every, interval, reading)
  BY MonthReadIs
<1>2. IsFiniteSet(E) /\ E \subseteq Nat
  BY MonthsWithin
<1>3. \A e \in E : reading[e] \in Int
  BY MonthType
<1>4. DOMAIN reading = E
  OBVIOUS
<1>5. interval \in Nat \ {0}
  BY MonthMinutes
<1> HIDE DEF E, interval, reading
<1> QED
  BY <1>1, <1>2, <1>3, <1>4, <1>5, SeriesReadings

\* What a meter reads, at whatever frequency.
LEMMA MeteredType ==
  ASSUME NEW period, Period(period), NEW steps \in 1 .. 60, NEW profile,
         Covers(profile, period.days, steps), NEW m \in Meters, NEW every
  PROVE  Readings(Metered(m, every, period, steps, profile))
<1>1. period.days \in Nat \ {0}
  BY DEF Period
<1>2. Readings(MonthRead(m, every, period, steps, profile))
  BY MonthReadType
<1>3. Readings(MeterRead(m, every, period.days, steps, profile))
  BY <1>1, MeterReadType
<1> QED
  BY <1>2, <1>3 DEF Metered
LEMMA MeterReadings ==
  ASSUME NEW idf, InputFile(idf), Period(idf.period), idf.steps \in 1 .. 60,
         NEW profile, Covers(profile, idf.period.days, idf.steps)
  PROVE  Readings(MeterRows(idf, profile))
<1> DEFINE read(m, every) == Metered(m, every, idf.period, idf.steps, profile)
           asked == {m \in idf.meters : m.name \in Meters}
           f == [q \in asked |-> read(q.name, q.every)]
           total == read(FacilityMeter, "month")
           requested == UNION {f[q] : q \in asked}
<1>1. MeterRows(idf, profile) = requested \cup total
  <2>1. MeterRows(idf, profile) = (UNION {read(q.name, q.every) : q \in asked}) \cup total
    BY DEF MeterRows
  <2>2. {read(q.name, q.every) : q \in asked} = {f[q] : q \in asked}
    <3> HIDE DEF read, asked
    <3> QED
      OBVIOUS
  <2> HIDE DEF f, total, asked
  <2> QED
    BY <2>1, <2>2
<1>2. \A m \in Meters : \A every : Readings(read(m, every))
  BY MeteredType
<1>3. FacilityMeter \in Meters
  BY DEF Meters
<1>4. IsFiniteSet(asked) /\ \A q \in asked : q.name \in Meters
  BY FS_Subset DEF InputFile
<1> HIDE DEF read, asked
<1>5. Readings(total) /\ \A q \in asked : Readings(f[q])
  BY <1>2, <1>3, <1>4
<1> HIDE DEF f, total
<1>6. Readings(requested)
  BY <1>4, <1>5, ReadingsOf
<1> HIDE DEF requested
<1> QED
  BY <1>1, <1>5, <1>6, ReadingsUnion

\* What a variable reads in an interval.
Read(variable, interval, e, steps) ==
  LET now == Steps(e - interval, e, steps)
  IN  IF variable = Occupancy THEN Cardinality(now \cap Occupied)
      ELSE IF variable = Pmv THEN Threshold + Cardinality(now \cap Uncomfortable)
      ELSE 0

LEMMA ReadType ==
  ASSUME NEW days \in Nat, NEW steps \in 1 .. 60, NEW variable,
         NEW interval \in Nat \ {0}, NEW e \in Ends(interval, days)
  PROVE  Read(variable, interval, e, steps) \in Int
<1> DEFINE S == Steps(e - interval, e, steps)
<1>1. e \in Nat /\ e <= Minutes(days)
  BY EndsWithin
<1>2. IsFiniteSet(S)
  BY <1>1, StepsFinite
<1> HIDE DEF S
<1>3. IsFiniteSet(S \cap Occupied) /\ IsFiniteSet(S \cap Uncomfortable)
  BY <1>2, FS_Subset
<1>4. Cardinality(S \cap Occupied) \in Nat /\ Cardinality(S \cap Uncomfortable) \in Nat
  BY <1>3, FS_CardinalityType
<1>5. Threshold \in Int
  BY RequestAssumption
<1> QED
  BY <1>4, <1>5 DEF Read, S

LEMMA VariableReadings ==
  ASSUME NEW idf, InputFile(idf), idf.period.days \in Nat \ {0}, idf.steps \in 1 .. 60,
         NEW zones, IsFiniteSet(DOMAIN zones)
  PROVE  Readings(VariableRows(idf, zones))
<1> DEFINE days == idf.period.days
           steps == idf.steps
           people == {zones[z].people : z \in DOMAIN zones}
           keys(v) == IF v.key # "*" THEN {v.key}
                      ELSE IF v.variable \in ZoneVariables THEN DOMAIN zones ELSE people
           reading(variable, interval) ==
             [e \in Ends(interval, days) |-> Read(variable, interval, e, steps)]
           series(v, k, interval) ==
             Series(v.variable, k, v.every, interval, reading(v.variable, interval))
           f(v) == [k \in keys(v) |-> series(v, k, Length(v.every, steps))]
           g == [v \in idf.variables |-> UNION {f(v)[k] : k \in keys(v)}]
<1>1. VariableRows(idf, zones) = UNION {g[v] : v \in idf.variables}
  <2>1. VariableRows(idf, zones)
          = UNION {UNION {series(v, k, Length(v.every, steps)) : k \in keys(v)}
                   : v \in idf.variables}
    BY DEF VariableRows, Read
  <2>2. \A v : {series(v, k, Length(v.every, steps)) : k \in keys(v)}
                = {f(v)[k] : k \in keys(v)}
    <3> HIDE DEF series, keys
    <3> QED
      OBVIOUS
  <2> HIDE DEF series, keys
  <2> DEFINE h(v) == UNION {series(v, k, Length(v.every, steps)) : k \in keys(v)}
  <2>3. \A v \in idf.variables : g[v] = h(v)
    <3> HIDE DEF f
    <3> QED
      BY <2>2
  <2>4. VariableRows(idf, zones) = UNION {h(v) : v \in idf.variables}
    BY <2>1
  <2> HIDE DEF h, g
  <2> QED
    BY <2>3, <2>4
<1>2. ASSUME NEW v, NEW k, NEW interval \in Nat \ {0} PROVE Readings(series(v, k, interval))
  <2>1. \A e \in Ends(interval, days) : reading(v.variable, interval)[e] \in Int
    BY ReadType
  <2>2. DOMAIN reading(v.variable, interval) = Ends(interval, days)
    OBVIOUS
  <2>3. IsFiniteSet(Ends(interval, days)) /\ Ends(interval, days) \subseteq Nat
    BY EndsWithin
  <2> HIDE DEF reading
  <2> QED
    BY <2>1, <2>2, <2>3, SeriesReadings
<1>3. \A v : Length(v.every, steps) \in Nat \ {0}
  BY LengthType
<1>4. \A v : IsFiniteSet(keys(v))
  <2>1. IsFiniteSet(people)
    <3> DEFINE h == [z \in DOMAIN zones |-> zones[z].people]
    <3>1. people = {h[z] : z \in DOMAIN zones}
      OBVIOUS
    <3> HIDE DEF h, people
    <3> QED
      BY <3>1, KeysFinite
  <2>2. \A v : IsFiniteSet({v.key})
    BY FS_Singleton
  <2> HIDE DEF people
  <2> QED
    BY <2>1, <2>2
<1> HIDE DEF series, keys
<1>5. \A v : \A k \in keys(v) : Readings(f(v)[k])
  BY <1>2, <1>3
<1>6. \A v : Readings(UNION {f(v)[k] : k \in keys(v)})
  <2> HIDE DEF f
  <2> QED
    BY <1>4, <1>5, ReadingsOf
<1>7. \A v \in idf.variables : Readings(g[v])
  <2> HIDE DEF f
  <2> QED
    BY <1>6
<1> HIDE DEF g
<1>8. Readings(UNION {g[v] : v \in idf.variables})
  BY <1>7, ReadingsOf DEF InputFile
<1> QED
  BY <1>1, <1>8

LEMMA SimulatedReadings ==
  ASSUME NEW idf, InputFile(idf), Period(idf.period), idf.steps \in 1 .. 60,
         NEW zones, IsFiniteSet(DOMAIN zones),
         NEW profile, Covers(profile, idf.period.days, idf.steps)
  PROVE  /\ Readings(Simulated(idf, zones, profile).rows)
         /\ Readings(Interrupted(Simulated(idf, zones, profile)).rows)
<1>1. /\ Readings(MeterRows(idf, profile)) /\ Readings(VariableRows(idf, zones))
      /\ Readings(Extra(idf))
  <2>1. idf.period.days \in Nat \ {0}
    BY DEF Period
  <2> QED
    BY <2>1, MeterReadings, VariableReadings, ExtraReadings
<1> DEFINE all == MeterRows(idf, profile) \cup VariableRows(idf, zones) \cup Extra(idf)
           some == {r \in Extra(idf) : r.env = 1}
           sql == Simulated(idf, zones, profile)
<1>2. Readings(all) /\ Readings(some)
  <2>1. Readings(MeterRows(idf, profile) \cup VariableRows(idf, zones))
    BY <1>1, ReadingsUnion
  <2> QED
    BY <1>1, <2>1, ReadingsUnion, ReadingsSubset
<1>3. \/ sql = [environments |-> <<"design", "weather">>, rows |-> all]
      \/ sql = [environments |-> <<"design">>, rows |-> some]
  BY DEF Simulated
<1> HIDE DEF all, some, sql
<1>4. Readings(sql.rows)
  BY <1>2, <1>3
<1>5. Interrupted(sql).rows \subseteq sql.rows
  BY <1>3 DEF Interrupted
<1> QED
  BY <1>4, <1>5, ReadingsSubset DEF sql

-----------------------------------------------------------------------------
(* What the readings of a meter add up to.                                 *)

LEMMA SumBetween ==
  ASSUME NEW S, IsFiniteSet(S), NEW f \in [S -> Int], NEW b \in Int, NEW c \in Int,
         \A x \in S : b <= f[x] /\ f[x] <= c
  PROVE  /\ SumFunction(f) \in Int
         /\ Cardinality(S) * b <= SumFunction(f) /\ SumFunction(f) <= Cardinality(S) * c
<1> DEFINE sum(U) == SumFunction([x \in U |-> f[x]])
           within(U) == /\ Cardinality(U) * b <= sum(U)
                        /\ sum(U) <= Cardinality(U) * c
           Wrong == {U \in SUBSET S : ~within(U)}
<1>1. Wrong = {}
  <2> SUFFICES ASSUME Wrong # {} PROVE FALSE
    OBVIOUS
  <2>1. PICK T \in Wrong : \A U \in Wrong : U \subseteq T => U = T
    <3>1. Wrong \subseteq SUBSET S
      OBVIOUS
    <3> HIDE DEF Wrong
    <3> QED
      BY <3>1, SmallestExists
  <2>2. T \subseteq S /\ ~within(T) /\ IsFiniteSet(T)
    BY FS_Subset
  <2> HIDE DEF Wrong
  <2>3. T # {}
    <3> SUFFICES ASSUME T = {} PROVE FALSE
      OBVIOUS
    <3>1. sum(T) = 0
      BY SumEmpty
    <3>2. Cardinality(T) = 0
      BY FS_EmptySet
    <3> HIDE DEF sum
    <3>3. within(T)
      BY <3>1, <3>2
    <3> QED
      BY <2>2, <3>3
  <2>4. PICK x \in T : TRUE
    BY <2>3
  <2> DEFINE U == T \ {x}
             e == [y \in T |-> f[y]]
  <2>5. within(U)
    <3>1. U \subseteq T /\ U # T /\ U \in SUBSET S
      BY <2>2, <2>4
    <3> HIDE DEF U, within
    <3> QED
      BY <2>1, <3>1 DEF Wrong
  <2>6. /\ Cardinality(U) = Cardinality(T) - 1 /\ Cardinality(T) \in Nat
    BY <2>2, <2>4, RemoveOne
  <2>7. sum(T) = f[x] + sum(U) /\ sum(U) \in Int /\ f[x] \in Int /\ b <= f[x] /\ f[x] <= c
    <3>1. e \in [T -> Int]
      BY <2>2
    <3>2. [y \in U |-> e[y]] = [y \in U |-> f[y]]
      OBVIOUS
    <3>3. e[x] = f[x] /\ f[x] \in Int /\ b <= f[x] /\ f[x] <= c
      BY <2>2, <2>4
    <3> HIDE DEF e
    <3>4. /\ SumFunction([y \in U |-> e[y]]) \in Int
          /\ SumFunction(e) = e[x] + SumFunction([y \in U |-> e[y]])
      BY <2>2, <2>4, <3>1, SumWithout
    <3>5. sum(T) = SumFunction(e)
      BY DEF e
    <3> HIDE DEF sum, U
    <3>6. sum(U) = SumFunction([y \in U |-> e[y]])
      BY <3>2 DEF sum
    <3> QED
      BY <3>3, <3>4, <3>5, <3>6
  <2> DEFINE n == Cardinality(U)
             s == sum(U)
             v == f[x]
  <2>8. n \in Nat
    BY <2>2, FS_Subset, FS_CardinalityType
  <2>9. (n + 1) * b = n * b + b /\ (n + 1) * c = n * c + c /\ n * b \in Int /\ n * c \in Int
    <3> HIDE DEF n
    <3> QED
      BY <2>8
  <2>10. Cardinality(T) = n + 1
    BY <2>6, <2>8
  <2> DEFINE lo == n * b
             hi == n * c
  <2>11. s \in Int /\ v \in Int /\ b <= v /\ v <= c /\ lo <= s /\ s <= hi
         /\ lo \in Int /\ hi \in Int
    <3> HIDE DEF sum, U
    <3> QED
      BY <2>5, <2>7, <2>9
  <2>12. sum(T) = v + s /\ Cardinality(T) * b = lo + b /\ Cardinality(T) * c = hi + c
    <3> HIDE DEF sum, U
    <3> QED
      BY <2>7, <2>9, <2>10
  <2> HIDE DEF sum, n, s, v, lo, hi
  <2>13. lo + b <= v + s /\ v + s <= hi + c
    BY <2>11
  <2> QED
    BY <2>2, <2>12, <2>13
<1>2. within(S)
  <2> HIDE DEF within
  <2> QED
    BY <1>1
<1>3. sum(S) = SumFunction(f)
  <2>1. [x \in S |-> f[x]] = f
    OBVIOUS
  <2> QED
    BY <2>1
<1> HIDE DEF sum
<1> QED
  BY <1>2, <1>3, SumWithout

LEMMA SumConstant ==
  ASSUME NEW S, IsFiniteSet(S), NEW c \in Int
  PROVE  SumFunction([x \in S |-> c]) = Cardinality(S) * c
<1> DEFINE f == [x \in S |-> c]
<1>1. f \in [S -> Int] /\ \A x \in S : c <= f[x] /\ f[x] <= c
  OBVIOUS
<1> HIDE DEF f
<1>2. /\ SumFunction(f) \in Int
      /\ Cardinality(S) * c <= SumFunction(f) /\ SumFunction(f) <= Cardinality(S) * c
  BY <1>1, SumBetween
<1> DEFINE p == Cardinality(S) * c
<1>3. p \in Int
  BY FS_CardinalityType
<1> HIDE DEF p
<1>4. SumFunction(f) = p
  BY <1>2, <1>3 DEF p
<1> QED
  BY <1>4 DEF f, p

LEMMA SumSingle ==
  ASSUME NEW x, NEW f \in [{x} -> Int]
  PROVE  SumFunction(f) = f[x]
<1>1. IsFiniteSet({x}) /\ {x} \ {x} = {}
  BY FS_Singleton
<1>2. SumFunction(f) = f[x] + SumFunction([y \in {x} \ {x} |-> f[y]])
  BY <1>1, SumWithout
<1>3. SumFunction([y \in {x} \ {x} |-> f[y]]) = 0
  BY <1>1, SumEmpty
<1> QED
  BY <1>2, <1>3

\* The sum is the same over what the elements are mapped to, one to one.
\* The values of a set's keys, each counted once.
SumOfKeys(S, key, value) == SumFunction([k \in {key[x] : x \in S} |-> value[k]])

LEMMA SumOfImage ==
  ASSUME NEW S, IsFiniteSet(S), NEW f \in [S -> Int], NEW key, NEW value,
         \A x, y \in S : key[x] = key[y] => x = y,
         \A x \in S : value[key[x]] = f[x]
  PROVE  SumFunction(f) = SumOfKeys(S, key, value)
<1> DEFINE K == {key[x] : x \in S}
<1>1. SumFunction(f) = SumOfParts(S, key, f)
  BY SumByParts
<1>2. ASSUME NEW k \in K PROVE PartSum(S, key, f, k) = value[k]
  <2>1. PICK x \in S : k = key[x]
    OBVIOUS
  <2>2. Part(S, key, k) = {x}
    BY <2>1 DEF Part
  <2> DEFINE e == [y \in {x} |-> f[y]]
  <2>3. PartSum(S, key, f, k) = SumFunction(e)
    BY <2>2 DEF PartSum
  <2>4. e \in [{x} -> Int] /\ e[x] = f[x]
    OBVIOUS
  <2> HIDE DEF e, K
  <2>5. SumFunction(e) = f[x]
    BY <2>4, SumSingle
  <2> QED
    BY <2>1, <2>3, <2>5
<1>3. [k \in K |-> PartSum(S, key, f, k)] = [k \in K |-> value[k]]
  <2> HIDE DEF K
  <2> QED
    BY <1>2
<1> QED
  BY <1>1, <1>3 DEF SumOfParts, SumOfKeys

\* Elements are counted by a key: so many keys, of so many elements each.
LEMMA CountByParts ==
  ASSUME NEW S, IsFiniteSet(S), NEW key, NEW low \in Int, NEW high \in Int,
         \A k \in {key[x] : x \in S} :
           low <= Cardinality(Part(S, key, k)) /\ Cardinality(Part(S, key, k)) <= high
  PROVE  LET keys == Cardinality({key[x] : x \in S})
         IN  keys * low <= Cardinality(S) /\ Cardinality(S) <= keys * high
<1> DEFINE K == {key[x] : x \in S}
           unit == 1
           one == [x \in S |-> unit]
           sums == [k \in K |-> PartSum(S, key, one, k)]
<1>0. unit \in Int /\ \A a \in Nat : a * unit = a
  OBVIOUS
<1> HIDE DEF unit
<1>1. one \in [S -> Int] /\ \A x \in S : one[x] = unit
  BY <1>0
<1>2. SumFunction(one) = Cardinality(S)
  <2>1. SumFunction(one) = Cardinality(S) * unit
    BY <1>0, SumConstant
  <2>2. Cardinality(S) \in Nat
    BY FS_CardinalityType
  <2> HIDE DEF one
  <2> QED
    BY <1>0, <2>1, <2>2
<1>3. SumFunction(one) = SumFunction(sums)
  <2> HIDE DEF one
  <2> QED
    BY <1>1, SumByParts DEF SumOfParts
<1>4. ASSUME NEW k PROVE PartSum(S, key, one, k) = Cardinality(Part(S, key, k))
  <2> DEFINE T == Part(S, key, k)
  <2>1. T \subseteq S /\ IsFiniteSet(T)
    BY FS_Subset DEF Part
  <2>2. [x \in T |-> one[x]] = [x \in T |-> unit]
    BY <1>1, <2>1
  <2> HIDE DEF one, T
  <2>3. SumFunction([x \in T |-> unit]) = Cardinality(T) * unit /\ Cardinality(T) \in Nat
    BY <1>0, <2>1, SumConstant, FS_CardinalityType
  <2> QED
    BY <1>0, <2>2, <2>3 DEF PartSum, T
<1>5. IsFiniteSet(K)
  BY KeysFinite
<1> HIDE DEF K, one
<1>6. sums \in [K -> Int] /\ \A k \in K : low <= sums[k] /\ sums[k] <= high
  <2>1. \A k \in K : PartSum(S, key, one, k) \in Int
    BY <1>1, PartSumType
  <2>2. \A k \in K : low <= PartSum(S, key, one, k) /\ PartSum(S, key, one, k) <= high
    BY <1>4 DEF K
  <2> QED
    BY <2>1, <2>2
<1> HIDE DEF sums
<1>7. Cardinality(K) * low <= SumFunction(sums) /\ SumFunction(sums) <= Cardinality(K) * high
  BY <1>5, <1>6, SumBetween
<1> QED
  BY <1>2, <1>3, <1>7 DEF K

LEMMA CountImage ==
  ASSUME NEW S, IsFiniteSet(S), NEW f, \A x, y \in S : f[x] = f[y] => x = y
  PROVE  /\ IsFiniteSet({f[x] : x \in S})
         /\ Cardinality({f[x] : x \in S}) = Cardinality(S)
<1> DEFINE K == {f[x] : x \in S}
<1>1. IsFiniteSet(K)
  BY KeysFinite
<1>2. ASSUME NEW k \in K PROVE Cardinality(Part(S, f, k)) = 1
  <2>1. PICK x \in S : k = f[x]
    OBVIOUS
  <2>2. Part(S, f, k) = {x}
    BY <2>1 DEF Part
  <2> QED
    BY <2>2, FS_Singleton
<1>3. Cardinality(K) * 1 <= Cardinality(S) /\ Cardinality(S) <= Cardinality(K) * 1
  BY <1>2, CountByParts
<1>4. Cardinality(K) \in Nat /\ Cardinality(S) \in Nat
  BY <1>1, FS_CardinalityType
<1> HIDE DEF K
<1>5. Cardinality(K) = Cardinality(S)
  BY <1>3, <1>4
<1> QED
  BY <1>1, <1>5 DEF K

\* Intervals of k timesteps, n of which make up the period.
Grid(interval, k, n, days, steps) ==
  /\ k \in Nat \ {0} /\ n \in Nat \ {0} /\ interval \in Nat \ {0}
  /\ interval * steps = k * 60 /\ interval = k * (60 \div steps)
  /\ Minutes(days) = n * interval /\ days * HoursPerDay * steps = n * k

\* Every frequency divides the period into intervals of whole timesteps.
LEMMA EveryGrid ==
  ASSUME NEW every, NEW days \in Nat \ {0}, NEW steps \in 1 .. 60, 60 % steps = 0
  PROVE  \E k, n : Grid(Length(every, steps), k, n, days, steps)
<1> DEFINE t == 60 \div steps
           d == days * HoursPerDay
           N == d * steps
<1>1. t \in Nat /\ steps * t = 60 /\ steps \in Nat \ {0}
  <2>1. 60 = steps * t + (60 % steps) /\ t \in Nat
    BY Quotient
  <2>2. steps * t \in Nat
    BY <2>1
  <2> DEFINE p == steps * t
  <2> HIDE DEF p
  <2>3. 60 = p + 0 /\ p \in Nat
    BY <2>1, <2>2 DEF p
  <2> QED
    BY <2>1, <2>3 DEF p
<1>2. t # 0
  BY <1>1
<1>3. d \in Nat \ {0}
  <2>1. HoursPerDay \in Nat \ {0}
    BY CurveAssumption
  <2> QED
    BY <2>1
<1>4. Minutes(days) = d * 60
  <2>1. HoursPerDay \in Nat \ {0}
    BY CurveAssumption
  <2> QED
    BY <2>1 DEF Minutes
<1> HIDE DEF t, d
<1>5. N \in Nat \ {0}
  BY <1>1, <1>3
<1>6. Minutes(days) = N * t /\ Minutes(days) * steps = N * 60
  <2>1. d * 60 = d * (steps * t) /\ d * (steps * t) = (d * steps) * t
    BY <1>1, <1>2, <1>3
  <2>2. (d * 60) * steps = (d * steps) * 60
    BY <1>1, <1>3
  <2> QED
    BY <1>4, <2>1, <2>2
<1>7. /\ Minutes(days) \in Nat \ {0} /\ N = 1 * N /\ Minutes(days) = 1 * Minutes(days)
      /\ t * steps = 1 * 60 /\ t = 1 * t /\ N = N * 1 /\ 60 * steps = steps * 60
  BY <1>1, <1>2, <1>5, MinutesType
<1>8. days * HoursPerDay * steps = N
  BY DEF d
<1> HIDE DEF N
<1>9. CASE every = "step"
  <2>1. Length(every, steps) = t
    BY <1>9 DEF Length, t
  <2>2. Grid(t, 1, N, days, steps)
    BY <1>1, <1>2, <1>5, <1>6, <1>7, <1>8 DEF Grid, t
  <2> QED
    BY <2>1, <2>2
<1>10. CASE every # "step"
  <2>1. Length(every, steps) = 60
    BY <1>10 DEF Length
  <2>2. N = d * steps
    BY DEF N
  <2>3. Grid(60, steps, d, days, steps)
    BY <1>1, <1>3, <1>4, <1>7, <1>8, <2>2 DEF Grid, t
  <2> QED
    BY <2>1, <2>3
<1> QED
  BY <1>9, <1>10

LEMMA GridEnds ==
  ASSUME NEW interval, NEW k, NEW n, NEW days \in Nat \ {0}, NEW steps \in 1 .. 60,
         Grid(interval, k, n, days, steps)
  PROVE  Ends(interval, days) = {j * interval : j \in 1 .. n}
<1>1. n \in Nat /\ interval \in Nat \ {0} /\ Minutes(days) = n * interval
  BY DEF Grid
<1>2. n * interval \in Nat /\ (n + 1) * interval = n * interval + interval
  BY <1>1
<1> DEFINE p == n * interval
           s == (n + 1) * interval
<1>3. p <= p /\ p < s
  <2> HIDE DEF p, s
  <2>1. p \in Nat /\ s = p + interval
    BY <1>2 DEF p, s
  <2> QED
    BY <1>1, <2>1
<1>4. (n * interval) \div interval = n
  BY <1>1, <1>2, <1>3, Divided
<1> QED
  BY <1>1, <1>4 DEF Ends, Minutes

\* The intervals of a timestep each.
LEMMA StepGrid ==
  ASSUME NEW days \in Nat \ {0}, NEW steps \in 1 .. 60, 60 % steps = 0
  PROVE  LET t == 60 \div steps
             N == days * HoursPerDay * steps
         IN  /\ Length("step", steps) = t /\ t \in Nat \ {0} /\ N \in Nat \ {0}
             /\ Grid(t, 1, N, days, steps)
<1> DEFINE t == 60 \div steps
           N == days * HoursPerDay * steps
           every == "step"
<1>1. Length(every, steps) = t
  BY DEF Length
<1> HIDE DEF every
<1>2. PICK k, n : Grid(t, k, n, days, steps)
  BY <1>1, EveryGrid
<1>3. t \in Nat \ {0} /\ k \in Nat \ {0} /\ n \in Nat \ {0} /\ t = k * t /\ N = n * k
  BY <1>2 DEF Grid
<1> HIDE DEF t, N
<1>4. k = 1
  <2>1. CASE k >= 2
    <3>1. 2 * t <= k * t /\ 2 * t \in Int /\ k * t \in Int
      BY <1>3, <2>1, Product
    <3> DEFINE p == k * t
    <3>2. p = t /\ 2 * t <= p
      BY <1>3, <3>1
    <3> HIDE DEF p
    <3> QED
      BY <1>3, <3>2
  <2> QED
    BY <1>3, <2>1
<1>5. N = n
  BY <1>3, <1>4
<1> QED
  BY <1>1, <1>2, <1>3, <1>4, <1>5 DEF t, N, every

\* The timesteps of the j-th interval.
LEMMA GridSteps ==
  ASSUME NEW interval, NEW k, NEW n, NEW days \in Nat \ {0}, NEW steps \in 1 .. 60,
         Grid(interval, k, n, days, steps), NEW j \in 1 .. n
  PROVE  Steps(j * interval - interval, j * interval, steps) = (j - 1) * k + 1 .. j * k
<1>1. k \in Nat \ {0} /\ n \in Nat /\ interval \in Nat \ {0} /\ interval * steps = k * 60
  BY DEF Grid
<1> DEFINE p == j * k
           q == (j - 1) * k
<1>2. p \in Nat /\ q \in Nat /\ p = q + k
  <2>1. j \in Nat /\ j - 1 \in Nat
    BY <1>1
  <2> QED
    BY <1>1, <2>1
<1>3. (j * interval) * steps = p * 60
  <2>1. (j * interval) * steps = j * (interval * steps) /\ j * (k * 60) = (j * k) * 60
    BY <1>1
  <2> QED
    BY <1>1, <2>1
<1>4. (j * interval - interval) * steps = q * 60
  <2>1. j * interval - interval = (j - 1) * interval
    BY <1>1
  <2>2. ((j - 1) * interval) * steps = (j - 1) * (interval * steps)
    BY <1>1
  <2>3. (j - 1) * (k * 60) = ((j - 1) * k) * 60
    BY <1>1
  <2> QED
    BY <1>1, <2>1, <2>2, <2>3
<1> HIDE DEF p, q
<1>5. (p * 60) \div 60 = p
  BY <1>2
<1>6. Steps(j * interval - interval, j * interval, steps) = {i \in 1 .. p : i * 60 > q * 60}
  BY <1>3, <1>4, <1>5 DEF Steps
<1>7. {i \in 1 .. p : i * 60 > q * 60} = q + 1 .. p
  BY <1>2
<1> QED
  BY <1>6, <1>7 DEF p, q

\* The end of the interval of each timestep.
GridEnd(interval, k, days, steps) ==
  [i \in StepsIn(days, steps) |-> ((i - 1) \div k + 1) * interval]

LEMMA StepsOnGrid ==
  ASSUME NEW interval, NEW k, NEW n, NEW days \in Nat \ {0}, NEW steps \in 1 .. 60,
         Grid(interval, k, n, days, steps)
  PROVE  /\ {GridEnd(interval, k, days, steps)[i] : i \in StepsIn(days, steps)}
              = Ends(interval, days)
         /\ \A e \in Ends(interval, days) :
              Part(StepsIn(days, steps), GridEnd(interval, k, days, steps), e)
                = Steps(e - interval, e, steps)
<1> DEFINE S == StepsIn(days, steps)
           end == [i \in S |-> ((i - 1) \div k + 1) * interval]
           cell(i) == (i - 1) \div k
<1>1. /\ k \in Nat \ {0} /\ n \in Nat \ {0} /\ interval \in Nat \ {0}
      /\ days * HoursPerDay * steps = n * k
  BY DEF Grid
<1>2. S = 1 .. n * k /\ n * k \in Nat
  BY <1>1 DEF StepsIn
<1>3. Ends(interval, days) = {j * interval : j \in 1 .. n}
  BY GridEnds
<1>4. ASSUME NEW i \in S PROVE cell(i) \in 0 .. n - 1
  <2> DEFINE q == cell(i)
  <2>1. i - 1 \in Nat /\ q \in Nat /\ q * k <= i - 1
    BY <1>1, <1>2, Quotient
  <2>2. ASSUME n <= q PROVE FALSE
    <3> HIDE DEF q
    <3>1. n * k <= q * k /\ n * k \in Int /\ q * k \in Int
      BY <1>1, <2>1, <2>2, Product
    <3> DEFINE a == n * k
               b == q * k
    <3>2. i <= a /\ i \in Nat
      BY <1>2
    <3> HIDE DEF a, b, S
    <3>3. a <= b /\ b <= i - 1 /\ a \in Int /\ b \in Int
      BY <2>1, <3>1 DEF a, b
    <3> QED
      BY <3>2, <3>3
  <2> HIDE DEF q
  <2>3. q \in 0 .. n - 1
    BY <1>1, <2>1, <2>2
  <2> QED
    BY <2>3 DEF q
<1>5. ASSUME NEW j \in 1 .. n
      PROVE  {i \in S : cell(i) = j - 1} = (j - 1) * k + 1 .. j * k
  <2> DEFINE p == (j - 1) * k
             q == j * k
  <2>1. j - 1 \in Nat /\ p \in Nat /\ q \in Nat /\ p <= q
    <3>1. j - 1 \in Nat /\ j \in Nat
      BY <1>1
    <3> QED
      BY <1>1, <3>1, Product
  <2>2. q <= n * k
    BY <1>1, Product
  <2>3. ASSUME NEW i \in Nat \ {0} PROVE cell(i) = j - 1 <=> p <= i - 1 /\ i - 1 < q
    <3>1. i - 1 \in Nat /\ (j - 1) + 1 = j
      BY <2>1
    <3> QED
      BY <1>1, <2>1, <3>1, Divided
  <2> DEFINE top == n * k
  <2>4. S = 1 .. top /\ q <= top /\ top \in Nat
    BY <1>2, <2>2
  <2> HIDE DEF p, q, cell, top, S
  <2>5. {i \in S : cell(i) = j - 1} = p + 1 .. q
    BY <2>1, <2>3, <2>4
  <2> QED
    BY <2>5 DEF p, q
<1>6. ASSUME NEW j \in 1 .. n, NEW i \in S
      PROVE  end[i] = j * interval <=> cell(i) = j - 1
  <2> DEFINE q == cell(i)
  <2>1. end[i] = (q + 1) * interval
    OBVIOUS
  <2>2. q \in Nat /\ q + 1 \in Int /\ j \in Int
    BY <1>1, <1>4
  <2> HIDE DEF q
  <2>3. ASSUME q + 1 # j PROVE (q + 1) * interval # j * interval
    <3>1. CASE q + 1 <= j - 1
      <4>1. (q + 1) * interval <= (j - 1) * interval /\ (q + 1) * interval \in Int
            /\ (j - 1) * interval \in Int /\ j * interval = (j - 1) * interval + interval
        BY <1>1, <2>2, <3>1, Product
      <4> DEFINE a == (q + 1) * interval
                 b == (j - 1) * interval
                 c == j * interval
      <4> HIDE DEF a, b, c
      <4>2. a <= b /\ a \in Int /\ b \in Int /\ c = b + interval
        BY <4>1 DEF a, b, c
      <4>3. a # c
        BY <1>1, <4>2
      <4> QED
        BY <4>3 DEF a, c
    <3>2. CASE j <= q
      <4>1. j * interval <= q * interval /\ q * interval \in Int
            /\ j * interval \in Int /\ (q + 1) * interval = q * interval + interval
        BY <1>1, <2>2, <3>2, Product
      <4> DEFINE a == (q + 1) * interval
                 b == q * interval
                 c == j * interval
      <4> HIDE DEF a, b, c
      <4>2. c <= b /\ c \in Int /\ b \in Int /\ a = b + interval
        BY <4>1 DEF a, b, c
      <4>3. a # c
        BY <1>1, <4>2
      <4> QED
        BY <4>3 DEF a, c
    <3> QED
      BY <2>2, <2>3, <3>1, <3>2
  <2>4. q = j - 1 => (q + 1) * interval = j * interval
    BY <2>2
  <2>5. q + 1 # j <=> q # j - 1
    BY <2>2
  <2> HIDE DEF end
  <2>6. end[i] = j * interval <=> q = j - 1
    BY <2>1, <2>3, <2>4, <2>5
  <2> QED
    BY <2>6 DEF q
<1>7. ASSUME NEW j \in 1 .. n
      PROVE  {i \in S : end[i] = j * interval}
               = Steps(j * interval - interval, j * interval, steps)
  <2>1. {i \in S : end[i] = j * interval} = {i \in S : cell(i) = j - 1}
    <3> HIDE DEF end, cell, S
    <3> QED
      BY <1>6
  <2>2. {i \in S : cell(i) = j - 1} = (j - 1) * k + 1 .. j * k
    BY <1>5
  <2>3. Steps(j * interval - interval, j * interval, steps) = (j - 1) * k + 1 .. j * k
    BY GridSteps
  <2> HIDE DEF end, cell, S
  <2> QED
    BY <2>1, <2>2, <2>3
<1>8. \A i \in S : end[i] \in Ends(interval, days)
  <2> TAKE i \in S
  <2> DEFINE j == cell(i) + 1
  <2>1. j \in 1 .. n /\ end[i] = j * interval
    <3>1. cell(i) \in 0 .. n - 1
      BY <1>4
    <3>2. end[i] = j * interval
      OBVIOUS
    <3> HIDE DEF cell, end, S
    <3> QED
      BY <1>1, <3>1, <3>2
  <2> HIDE DEF j, end, S
  <2> QED
    BY <1>3, <2>1
<1>9. \A e \in Ends(interval, days) : \E i \in S : end[i] = e
  <2> TAKE e \in Ends(interval, days)
  <2>1. PICK j \in 1 .. n : e = j * interval
    BY <1>3
  <2> DEFINE p == (j - 1) * k
             q == j * k
  <2>2. p \in Int /\ q \in Int /\ q = p + k
    BY <1>1
  <2>3. q \in p + 1 .. q
    <3> HIDE DEF p, q
    <3> QED
      BY <1>1, <2>2
  <2>4. q \in {i \in S : cell(i) = j - 1}
    <3> HIDE DEF cell, S
    <3> QED
      BY <1>5, <2>3
  <2> HIDE DEF q, cell, end, S
  <2> QED
    BY <1>6, <2>1, <2>4
<1> HIDE DEF S, end
<1>10. {end[i] : i \in S} = Ends(interval, days)
  BY <1>8, <1>9
<1>11. \A e \in Ends(interval, days) : Part(S, end, e) = Steps(e - interval, e, steps)
  BY <1>3, <1>7 DEF Part
<1>12. end = GridEnd(interval, k, days, steps)
  BY DEF GridEnd, S, end
<1> QED
  BY <1>10, <1>11, <1>12 DEF S

\* The minute at which the interval of a reading ends.
EndOf(r) == r.day * (60 * HoursPerDay) + (r.hour * 60 + r.minute)

\* The reading of the interval that ends in minute e.
Row(name, key, every, interval, reading, e) ==
  LET perDay == 60 * HoursPerDay
      day == (e - 1) \div perDay
  IN  [name |-> name, key |-> key, every |-> every, env |-> 2, warmup |-> FALSE,
       interval |-> interval, day |-> day, hour |-> (e - day * perDay) \div 60,
       minute |-> (e - day * perDay) % 60, value |-> reading[e]]

LEMMA SeriesIs ==
  ASSUME NEW name, NEW key, NEW every, NEW interval, NEW reading
  PROVE  Series(name, key, every, interval, reading)
           = {Row(name, key, every, interval, reading, e) : e \in DOMAIN reading}
BY DEF Series, Row

LEMMA RowFields ==
  ASSUME NEW name, NEW key, NEW every, NEW interval, NEW reading, NEW e
  PROVE  /\ Row(name, key, every, interval, reading, e).name = name
         /\ Row(name, key, every, interval, reading, e).every = every
         /\ Row(name, key, every, interval, reading, e).env = 2
         /\ Row(name, key, every, interval, reading, e).interval = interval
         /\ Row(name, key, every, interval, reading, e).value = reading[e]
BY DEF Row

LEMMA RowCounts ==
  ASSUME NEW name, NEW key, NEW every, NEW interval, NEW reading, NEW e
  PROVE  ~Row(name, key, every, interval, reading, e).warmup
BY Zenon DEF Row

LEMMA RowEnd ==
  ASSUME NEW name, NEW key, NEW every, NEW interval, NEW reading, NEW e \in Nat
  PROVE  EndOf(Row(name, key, every, interval, reading, e)) = e
<1> DEFINE perDay == 60 * HoursPerDay
           day == (e - 1) \div perDay
           rest == e - day * perDay
           r == Row(name, key, every, interval, reading, e)
<1>1. perDay \in Nat \ {0} /\ e - 1 \in Int
  BY CurveAssumption
<1>2. r.day = day /\ r.hour = rest \div 60 /\ r.minute = rest % 60
  BY DEF Row
<1> HIDE DEF r
<1>3. EndOf(r) = day * perDay + ((rest \div 60) * 60 + (rest % 60))
  BY <1>2 DEF EndOf
<1> HIDE DEF perDay
<1>4. day \in Int
  BY <1>1
<1> HIDE DEF day
<1> DEFINE p == day * perDay
<1>5. p \in Int /\ rest = e - p
  BY <1>1, <1>4
<1> HIDE DEF p
<1>6. rest \in Int
  BY <1>5
<1> HIDE DEF rest
<1>7. rest = (rest \div 60) * 60 + (rest % 60)
  BY <1>6
<1>8. EndOf(r) = p + rest
  BY <1>3, <1>7 DEF p
<1>9. EndOf(r) = e
  BY <1>5, <1>8
<1> QED
  BY <1>9 DEF r

\* What a series of readings adds up to.
LEMMA SeriesEnergy ==
  ASSUME NEW name, NEW key, NEW every, NEW interval,
         NEW S, IsFiniteSet(S), \A e \in S : e \in Nat, NEW reading \in [S -> Int]
  PROVE  Energy(Series(name, key, every, interval, reading)) = SumFunction(reading)
<1> DEFINE row == [e \in S |-> Row(name, key, every, interval, reading, e)]
           rows == Series(name, key, every, interval, reading)
           value == [r \in rows |-> r.value]
<1>1. rows = {row[e] : e \in S}
  <2>1. rows = {Row(name, key, every, interval, reading, e) : e \in S}
    BY SeriesIs
  <2> HIDE DEF rows
  <2> QED
    BY <2>1
<1>2. IsFiniteSet(S) /\ \A e \in S : e \in Nat
  OBVIOUS
<1>3. ASSUME NEW x \in S, NEW y \in S, row[x] = row[y] PROVE x = y
  <2>1. EndOf(row[x]) = x /\ EndOf(row[y]) = y
    <3>1. x \in Nat /\ y \in Nat
      BY <1>2
    <3>2. /\ row[x] = Row(name, key, every, interval, reading, x)
          /\ row[y] = Row(name, key, every, interval, reading, y)
      OBVIOUS
    <3> HIDE DEF row
    <3> QED
      BY <3>1, <3>2, RowEnd
  <2> HIDE DEF row
  <2> QED
    BY <1>3, <2>1
<1>4. ASSUME NEW e \in S PROVE value[row[e]] = reading[e]
  <2>1. row[e] = Row(name, key, every, interval, reading, e) /\ row[e] \in rows
    <3>1. row[e] = Row(name, key, every, interval, reading, e)
      OBVIOUS
    <3> HIDE DEF row, rows
    <3> QED
      BY <1>1, <3>1
  <2>2. (row[e]).value = reading[e]
    <3>1. Row(name, key, every, interval, reading, e).value = reading[e]
      BY Zenon DEF Row
    <3> HIDE DEF row
    <3> QED
      BY <2>1, <3>1
  <2> HIDE DEF row, rows
  <2> QED
    BY <2>1, <2>2
<1>5. Energy(rows) = SumFunction(value)
  <2> HIDE DEF rows
  <2> QED
    BY DEF Energy
<1>6. value = [r \in rows |-> value[r]]
  <2> HIDE DEF rows
  <2> QED
    OBVIOUS
<1> HIDE DEF row, rows, value
<1>7. SumFunction(reading) = SumOfKeys(S, row, value)
  <2>1. \A x, y \in S : row[x] = row[y] => x = y
    BY <1>3
  <2>2. \A e \in S : value[row[e]] = reading[e]
    BY <1>4
  <2> QED
    BY <2>1, <2>2, SumOfImage
<1>8. Energy(rows) = SumFunction(reading)
  BY <1>1, <1>5, <1>6, <1>7 DEF SumOfKeys
<1> QED
  BY <1>8 DEF rows

\* A meter's readings at any frequency add up to what was used in the period.
LEMMA MeterReadEnergy ==
  ASSUME NEW days \in Nat \ {0}, NEW steps \in 1 .. 60, 60 % steps = 0, NEW profile,
         Covers(profile, days, steps), NEW m \in Meters, NEW every
  PROVE  Energy(MeterRead(m, every, days, steps, profile)) = Total(profile, m, days, steps)
<1> DEFINE interval == Length(every, steps)
           E == Ends(interval, days)
           S == StepsIn(days, steps)
           reading == [e \in E |-> Used(profile, m, interval, e, steps)]
           used == [i \in S |-> profile[m][i]]
<1>1. interval \in Nat \ {0}
  BY LengthType
<1>2. PICK k, n : Grid(interval, k, n, days, steps)
  BY EveryGrid
<1>3. MeterRead(m, every, days, steps, profile) = Series(m, "", every, interval, reading)
  BY DEF MeterRead, Used
<1> HIDE DEF interval
<1>4. reading \in [E -> Int]
  <2>1. \A e \in E : Used(profile, m, interval, e, steps) \in Int
    BY <1>1, UsedType
  <2> HIDE DEF E
  <2> QED
    BY <2>1
<1>5. Energy(MeterRead(m, every, days, steps, profile)) = SumFunction(reading)
  <2>1. IsFiniteSet(E) /\ \A e \in E : e \in Nat
    BY <1>1, EndsWithin
  <2> HIDE DEF reading, E
  <2>2. Energy(Series(m, "", every, interval, reading)) = SumFunction(reading)
    BY <1>4, <2>1, SeriesEnergy
  <2> QED
    BY <1>3, <2>2
<1>6. IsFiniteSet(S) /\ used \in [S -> Int]
  <2>1. IsFiniteSet(S)
    <3>1. days * HoursPerDay * steps \in Int
      <4>1. HoursPerDay \in Nat
        BY CurveAssumption
      <4> QED
        BY <4>1
    <3> DEFINE top == days * HoursPerDay * steps
    <3> HIDE DEF top
    <3>2. IsFiniteSet(1 .. top)
      BY <3>1, FS_Interval DEF top
    <3> QED
      BY <3>2 DEF StepsIn, top
  <2>2. \A i \in S : profile[m][i] \in Int
    BY DEF Covers, StepsIn
  <2> HIDE DEF S
  <2> QED
    BY <2>1, <2>2
<1> DEFINE end == GridEnd(interval, k, days, steps)
<1>7. /\ {end[i] : i \in S} = E
      /\ \A e \in E : Part(S, end, e) = Steps(e - interval, e, steps)
  BY <1>2, StepsOnGrid
<1> HIDE DEF end
<1>8. SumFunction(used) = SumOfParts(S, end, used)
  <2> HIDE DEF used, S
  <2> QED
    BY <1>6, SumByParts
<1>9. ASSUME NEW e \in E PROVE PartSum(S, end, used, e) = reading[e]
  <2> DEFINE P == Steps(e - interval, e, steps)
  <2>1. Part(S, end, e) = P
    <3> HIDE DEF S, E
    <3> QED
      BY <1>7
  <2>2. P \subseteq S
    <3> HIDE DEF S, E, P
    <3> QED
      BY <2>1 DEF Part
  <2>3. [i \in P |-> used[i]] = [i \in P |-> profile[m][i]]
    <3> HIDE DEF S, E, P
    <3> QED
      BY <2>2
  <2>4. reading[e] = SumFunction([i \in P |-> profile[m][i]])
    <3> HIDE DEF E
    <3> QED
      BY DEF Used
  <2>5. PartSum(S, end, used, e) = SumFunction([i \in P |-> used[i]])
    <3> HIDE DEF S, E, P, used
    <3> QED
      BY <2>1 DEF PartSum
  <2> HIDE DEF S, E, P, used, reading
  <2> QED
    BY <2>3, <2>4, <2>5
<1>10. SumOfParts(S, end, used) = SumFunction(reading)
  <2>1. SumOfParts(S, end, used) = SumFunction([e \in E |-> PartSum(S, end, used, e)])
    <3> HIDE DEF S, E, used
    <3> QED
      BY <1>7 DEF SumOfParts
  <2>2. [e \in E |-> PartSum(S, end, used, e)] = reading
    <3>1. reading = [e \in E |-> reading[e]]
      <4> HIDE DEF E
      <4> QED
        OBVIOUS
    <3> HIDE DEF S, E, used, reading
    <3> QED
      BY <1>9, <3>1
  <2> QED
    BY <2>1, <2>2
<1>11. Total(profile, m, days, steps) = SumFunction(used)
  BY DEF Total
<1> QED
  BY <1>5, <1>8, <1>10, <1>11

LEMMA SeriesFields ==
  ASSUME NEW name, NEW key, NEW every, NEW interval, NEW reading,
         NEW r \in Series(name, key, every, interval, reading)
  PROVE  /\ r.name = name /\ r.every = every /\ r.env = 2 /\ r.interval = interval
         /\ \E e \in DOMAIN reading : r.value = reading[e]
<1>1. PICK e \in DOMAIN reading : r = Row(name, key, every, interval, reading, e)
  BY SeriesIs
<1> QED
  BY <1>1, RowFields

LEMMA SeriesCount ==
  ASSUME NEW name, NEW key, NEW every, NEW interval, NEW reading,
         NEW r \in Series(name, key, every, interval, reading)
  PROVE  ~r.warmup
<1>1. PICK e \in DOMAIN reading : r = Row(name, key, every, interval, reading, e)
  BY SeriesIs
<1> QED
  BY <1>1, RowCounts, Zenon

LEMMA MeterReadFields ==
  ASSUME NEW m, NEW every, NEW days, NEW steps, NEW profile,
         NEW r \in MeterRead(m, every, days, steps, profile)
  PROVE  /\ r.name = m /\ r.every = every /\ r.env = 2
         /\ r.interval = Length(every, steps)
         /\ \E e \in Ends(Length(every, steps), days) :
              r.value = Used(profile, m, Length(every, steps), e, steps)
<1> DEFINE interval == Length(every, steps)
           reading == [e \in Ends(interval, days) |-> Used(profile, m, interval, e, steps)]
<1>1. r \in Series(m, "", every, interval, reading)
  BY DEF MeterRead, Used
<1> HIDE DEF interval
<1>2. \A e \in Ends(interval, days) : reading[e] = Used(profile, m, interval, e, steps)
  OBVIOUS
<1>6. DOMAIN reading = Ends(interval, days)
  OBVIOUS
<1> HIDE DEF reading
<1> DEFINE key == ""
<1>3. r \in Series(m, key, every, interval, reading)
  BY <1>1
<1> HIDE DEF key
<1>4. r.name = m /\ r.every = every /\ r.env = 2 /\ r.interval = interval
  BY <1>3, SeriesFields
<1>5. \E e \in Ends(interval, days) : r.value = reading[e]
  BY <1>3, <1>6, SeriesFields
<1> QED
  BY <1>2, <1>4, <1>5 DEF interval

LEMMA MeterReadCount ==
  ASSUME NEW m, NEW every, NEW days, NEW steps, NEW profile,
         NEW r \in MeterRead(m, every, days, steps, profile)
  PROVE  ~r.warmup
<1> DEFINE interval == Length(every, steps)
           reading == [e \in Ends(interval, days) |-> Used(profile, m, interval, e, steps)]
<1>1. r \in Series(m, "", every, interval, reading)
  BY DEF MeterRead, Used
<1> HIDE DEF interval, reading
<1> QED
  BY <1>1, SeriesCount

LEMMA MeterReadNonempty ==
  ASSUME NEW m, NEW every, NEW days \in Nat \ {0}, NEW steps \in 1 .. 60, 60 % steps = 0,
         NEW profile
  PROVE  MeterRead(m, every, days, steps, profile) # {}
<1> DEFINE interval == Length(every, steps)
           E == Ends(interval, days)
           reading == [e \in E |-> Used(profile, m, interval, e, steps)]
<1>1. PICK k, n : Grid(interval, k, n, days, steps)
  BY EveryGrid
<1>2. MeterRead(m, every, days, steps, profile) = Series(m, "", every, interval, reading)
  BY DEF MeterRead, Used
<1> HIDE DEF interval
<1>3. E = {j * interval : j \in 1 .. n} /\ n \in Nat \ {0}
  <2>1. n \in Nat \ {0}
    BY <1>1 DEF Grid
  <2> HIDE DEF reading
  <2>2. Ends(interval, days) = {j * interval : j \in 1 .. n}
    BY <1>1, GridEnds
  <2> QED
    BY <2>1, <2>2
<1>4. 1 * interval \in E
  <2>1. 1 \in 1 .. n
    BY <1>3
  <2> QED
    BY <1>3, <2>1
<1>5. Series(m, "", every, interval, reading)
        = {Row(m, "", every, interval, reading, e) : e \in DOMAIN reading}
  BY SeriesIs
<1>6. DOMAIN reading = E
  OBVIOUS
<1> HIDE DEF reading
<1> QED
  BY <1>2, <1>4, <1>5, <1>6

\* A meter's readings by the month add up to what was used in the period.
LEMMA MonthReadEnergy ==
  ASSUME NEW period, Period(period), NEW steps \in 1 .. 60, NEW profile,
         Covers(profile, period.days, steps), NEW m \in Meters, NEW every
  PROVE  Energy(MonthRead(m, every, period, steps, profile)) = Total(profile, m, period.days, steps)
<1> DEFINE E == Months(period, steps)
           S == StepsIn(period.days, steps)
           interval == MonthDays * 60 * HoursPerDay
           ends == MonthEnds(period, steps)
           reading == [e \in E |-> UsedInMonth(profile, m, period, steps, e)]
           used == [i \in S |-> profile[m][i]]
<1>1. MonthRead(m, every, period, steps, profile) = Series(m, "", every, interval, reading)
  BY MonthReadIs
<1>2. IsFiniteSet(E) /\ E \subseteq Nat
  BY MonthsWithin
<1>3. reading \in [E -> Int]
  <2>1. \A e \in E : UsedInMonth(profile, m, period, steps, e) \in Int
    BY MonthType
  <2> HIDE DEF E
  <2> QED
    BY <2>1
<1>4. IsFiniteSet(S) /\ used \in [S -> Int]
  <2>1. IsFiniteSet(S)
    BY StepsInFinite DEF Period
  <2>2. \A i \in S : profile[m][i] \in Int
    BY DEF Covers, StepsIn
  <2> HIDE DEF S
  <2> QED
    BY <2>1, <2>2
<1>5. E = {ends[i] : i \in S}
  BY DEF Months
<1>6. ASSUME NEW e \in E PROVE PartSum(S, ends, used, e) = reading[e]
  <2> DEFINE P == Part(S, ends, e)
  <2>1. P \subseteq S
    BY DEF Part
  <2>2. [i \in P |-> used[i]] = [i \in P |-> profile[m][i]]
    <3> HIDE DEF S, P
    <3> QED
      BY <2>1
  <2>3. reading[e] = SumFunction([i \in P |-> profile[m][i]])
    <3> HIDE DEF E
    <3> QED
      BY DEF UsedInMonth
  <2>4. PartSum(S, ends, used, e) = SumFunction([i \in P |-> used[i]])
    <3> HIDE DEF S, ends, used
    <3> QED
      BY DEF PartSum
  <2> HIDE DEF S, E, P, used, reading, ends
  <2> QED
    BY <2>2, <2>3, <2>4
<1>7. Total(profile, m, period.days, steps) = SumFunction(used)
  BY DEF Total
<1>8. reading = [e \in E |-> reading[e]]
  <2> HIDE DEF E
  <2> QED
    OBVIOUS
<1> HIDE DEF E, S, interval, ends, reading, used
<1> DEFINE key == ""
<1>9. Energy(MonthRead(m, every, period, steps, profile)) = SumFunction(reading)
  <2>1. Series(m, "", every, interval, reading) = Series(m, key, every, interval, reading)
    OBVIOUS
  <2> HIDE DEF key
  <2>2. Energy(Series(m, key, every, interval, reading)) = SumFunction(reading)
    BY <1>2, <1>3, SeriesEnergy
  <2> QED
    BY <1>1, <2>1, <2>2
<1>10. SumFunction(used) = SumOfParts(S, ends, used)
  BY <1>4, SumByParts
<1>11. SumOfParts(S, ends, used) = SumFunction([e \in E |-> PartSum(S, ends, used, e)])
  BY <1>5 DEF SumOfParts
<1>12. [e \in E |-> PartSum(S, ends, used, e)] = reading
  BY <1>6, <1>8
<1> QED
  BY <1>7, <1>9, <1>10, <1>11, <1>12

LEMMA MonthReadFields ==
  ASSUME NEW m, NEW every, NEW period, NEW steps, NEW profile,
         NEW r \in MonthRead(m, every, period, steps, profile)
  PROVE  /\ r.name = m /\ r.every = every /\ r.env = 2 /\ ~r.warmup
         /\ r.interval = MonthDays * 60 * HoursPerDay
         /\ \E e \in Months(period, steps) :
              r.value = UsedInMonth(profile, m, period, steps, e)
<1> DEFINE interval == MonthDays * 60 * HoursPerDay
           reading == [e \in Months(period, steps) |-> UsedInMonth(profile, m, period, steps, e)]
           key == ""
<1>1. r \in Series(m, key, every, interval, reading)
  BY MonthReadIs
<1>2. DOMAIN reading = Months(period, steps)
      /\ \A e \in Months(period, steps) :
           reading[e] = UsedInMonth(profile, m, period, steps, e)
  OBVIOUS
<1> HIDE DEF interval, reading, key
<1>3. r.name = m /\ r.every = every /\ r.env = 2 /\ r.interval = interval
  BY <1>1, SeriesFields
<1>4. \E e \in DOMAIN reading : r.value = reading[e]
  BY <1>1, SeriesFields
<1>5. ~r.warmup
  BY <1>1, SeriesCount
<1> QED
  BY <1>2, <1>3, <1>4, <1>5 DEF interval

\* A meter is read by the month no more often than there are days.
LEMMA MonthReadTimes ==
  ASSUME NEW m, NEW every, NEW period, Period(period), NEW steps \in 1 .. 60, NEW profile
  PROVE  LET rows == MonthRead(m, every, period, steps, profile)
         IN  IsFiniteSet(rows) /\ rows # {} /\ Cardinality(rows) <= period.days
<1> DEFINE E == Months(period, steps)
           interval == MonthDays * 60 * HoursPerDay
           reading == [e \in E |-> UsedInMonth(profile, m, period, steps, e)]
           rows == MonthRead(m, every, period, steps, profile)
           key == ""
           row == [e \in E |-> Row(m, key, every, interval, reading, e)]
           days == period.days
           D == 1 .. days
           times == [d \in D |-> MonthEnd(period, d - 1)]
<1>1. rows = Series(m, key, every, interval, reading)
  BY MonthReadIs
<1>2. IsFiniteSet(E) /\ E \subseteq Nat /\ E # {}
  BY MonthsWithin
<1>3. DOMAIN reading = E
  OBVIOUS
<1>4. \A e \in E : \E d \in D : e = times[d]
  <2>1. ASSUME NEW i \in StepsIn(days, steps)
        PROVE  DayOfStep(i, steps) + 1 \in D /\ (DayOfStep(i, steps) + 1) - 1 = DayOfStep(i, steps)
    <3>1. days \in Nat \ {0}
      BY DEF Period
    <3> HIDE DEF days
    <3>2. DayOfStep(i, steps) \in 0 .. days - 1
      BY <3>1, DayOfStepWithin
    <3> QED
      BY <3>1, <3>2
  <2>2. ASSUME NEW i \in StepsIn(days, steps)
        PROVE  MonthEnds(period, steps)[i] = times[DayOfStep(i, steps) + 1]
    BY <2>1 DEF MonthEnds
  <2> HIDE DEF D, times
  <2> QED
    BY <2>1, <2>2 DEF Months
<1>5. days \in Nat \ {0}
  BY DEF Period
<1> HIDE DEF E, interval, reading, rows, key, days
<1>6. rows = {row[e] : e \in E}
  <2>1. rows = {Row(m, key, every, interval, reading, e) : e \in E}
    BY <1>1, <1>3, SeriesIs
  <2> QED
    BY <2>1
<1>7. \A e, f \in E : row[e] = row[f] => e = f
  <2>1. ASSUME NEW e \in E PROVE EndOf(row[e]) = e
    <3>1. e \in Nat
      BY <1>2
    <3>2. EndOf(Row(m, key, every, interval, reading, e)) = e
      BY <3>1, RowEnd
    <3> QED
      BY <3>2
  <2> HIDE DEF row
  <2> QED
    BY <2>1
<1>8. IsFiniteSet(D) /\ Cardinality(D) = days
  BY <1>5, FS_Interval
<1> HIDE DEF D, times, row
<1>9. IsFiniteSet(rows) /\ Cardinality(rows) = Cardinality(E)
  <2>1. \A e, f \in E : row[e] = row[f] => e = f
    BY <1>7
  <2>2. IsFiniteSet({row[e] : e \in E}) /\ Cardinality({row[e] : e \in E}) = Cardinality(E)
    BY <1>2, <2>1, CountImage
  <2> QED
    BY <1>6, <2>2
<1>10. /\ IsFiniteSet({times[d] : d \in D})
       /\ Cardinality({times[d] : d \in D}) <= Cardinality(D)
  BY <1>8, KeysFinite, KeysAtMost
<1>11. Cardinality(E) <= days
  <2>1. E \subseteq {times[d] : d \in D}
    BY <1>4
  <2>2. Cardinality(E) <= Cardinality({times[d] : d \in D})
    BY <1>10, <2>1, FS_Subset
  <2>3. /\ Cardinality(E) \in Nat /\ Cardinality({times[d] : d \in D}) \in Nat
        /\ Cardinality(D) \in Nat
    BY <1>2, <1>8, <1>10, FS_CardinalityType
  <2> QED
    BY <1>8, <1>10, <2>2, <2>3
<1>12. rows # {}
  BY <1>2, <1>6
<1> QED
  BY <1>9, <1>11, <1>12 DEF rows, days

\* What holds of a meter's readings at every frequency.
LEMMA MeteredFields ==
  ASSUME NEW m, NEW every, NEW period, NEW steps, NEW profile,
         NEW r \in Metered(m, every, period, steps, profile)
  PROVE  /\ r.name = m /\ r.every = every /\ r.env = 2 /\ ~r.warmup
         /\ every = "step" => r.interval = 60 \div steps
<1>1. CASE every = "month"
  <2>1. r \in MonthRead(m, every, period, steps, profile)
    BY <1>1 DEF Metered
  <2> QED
    BY <1>1, <2>1, MonthReadFields
<1>2. CASE every # "month"
  <2>1. r \in MeterRead(m, every, period.days, steps, profile)
    BY <1>2 DEF Metered
  <2>2. r.name = m /\ r.every = every /\ r.env = 2 /\ r.interval = Length(every, steps)
    BY <2>1, MeterReadFields
  <2>3. ~r.warmup
    BY <2>1, MeterReadCount
  <2> QED
    BY <2>2, <2>3 DEF Length
<1> QED
  BY <1>1, <1>2

LEMMA MeteredEnergy ==
  ASSUME NEW period, Period(period), NEW steps \in 1 .. 60, 60 % steps = 0, NEW profile,
         Covers(profile, period.days, steps), NEW m \in Meters, NEW every
  PROVE  /\ Metered(m, every, period, steps, profile) # {}
         /\ Energy(Metered(m, every, period, steps, profile))
              = Total(profile, m, period.days, steps)
<1>1. period.days \in Nat \ {0}
  BY DEF Period
<1>2. /\ MonthRead(m, every, period, steps, profile) # {}
      /\ Energy(MonthRead(m, every, period, steps, profile))
           = Total(profile, m, period.days, steps)
  BY MonthReadTimes, MonthReadEnergy
<1>3. /\ MeterRead(m, every, period.days, steps, profile) # {}
      /\ Energy(MeterRead(m, every, period.days, steps, profile))
           = Total(profile, m, period.days, steps)
  BY <1>1, MeterReadNonempty, MeterReadEnergy
<1> QED
  BY <1>2, <1>3 DEF Metered

\* The frequencies at which a run reports a meter.
Frequencies(meters, m) ==
  {q.every : q \in {p \in meters : p.name = m}}
  \cup {every \in {"month"} : m = FacilityMeter}

ExtraRow(m, e) ==
  [name |-> m, key |-> "", every |-> "hour", env |-> e, warmup |-> e = 2,
   interval |-> 60, day |-> 0, hour |-> 1, minute |-> 0, value |-> 9]

LEMMA ExtraIs ==
  ASSUME NEW idf
  PROVE  Extra(idf) = {ExtraRow(m, e) : m \in {q.name : q \in idf.meters} \cap Meters, e \in {1, 2}}
BY DEF Extra, ExtraRow

LEMMA ExtraDiscounted ==
  ASSUME NEW idf, NEW r \in Extra(idf)
  PROVE  r.env # 2 \/ r.warmup
<1>1. PICK m \in {q.name : q \in idf.meters} \cap Meters, e \in {1, 2} : r = ExtraRow(m, e)
  BY ExtraIs
<1>2. ExtraRow(m, e).env = e /\ ExtraRow(m, e).warmup = (e = 2)
  BY Zenon DEF ExtraRow
<1>3. r.env = e /\ r.warmup = (e = 2)
  BY <1>1, <1>2, Zenon
<1>4. CASE e = 2
  BY <1>3, <1>4, Zenon
<1>5. CASE e # 2
  BY <1>3, <1>5, Zenon
<1> QED
  BY <1>4, <1>5, Zenon

LEMMA VariableFields ==
  ASSUME NEW idf, NEW zones, NEW r \in VariableRows(idf, zones)
  PROVE  \E v \in idf.variables : r.name = v.variable
<1> DEFINE days == idf.period.days
           steps == idf.steps
           keys(v) == IF v.key # "*" THEN {v.key}
                      ELSE IF v.variable \in ZoneVariables THEN DOMAIN zones
                           ELSE {zones[z].people : z \in DOMAIN zones}
           reading(variable, interval) ==
             [e \in Ends(interval, days) |-> Read(variable, interval, e, steps)]
           series(v, k, interval) ==
             Series(v.variable, k, v.every, interval, reading(v.variable, interval))
           of(v) == UNION {series(v, k, Length(v.every, steps)) : k \in keys(v)}
<1>1. VariableRows(idf, zones) = UNION {of(v) : v \in idf.variables}
  BY DEF VariableRows, Read
<1>2. ASSUME NEW v, NEW k, NEW interval, NEW q \in series(v, k, interval)
      PROVE  q.name = v.variable
  <2> HIDE DEF reading, days
  <2> QED
    BY <1>2, SeriesFields
<1> HIDE DEF keys, series
<1>3. \A v : \A q \in of(v) : q.name = v.variable
  BY <1>2
<1> HIDE DEF of
<1> QED
  BY <1>1, <1>3

\* The readings of a meter at some frequencies.
Reads(m, F, period, steps, profile) ==
  UNION {Metered(m, every, period, steps, profile) : every \in F}

\* The rows that count for a meter are its readings at every frequency.
LEMMA IntervalsAre ==
  ASSUME NEW idf, idf.weather = TRUE, {v.variable : v \in idf.variables} \cap Meters = {},
         NEW zones, NEW profile, NEW m \in Meters
  PROVE  Intervals(Simulated(idf, zones, profile), {m})
           = Reads(m, Frequencies(idf.meters, m), idf.period, idf.steps, profile)
<1> DEFINE read(name, every) == Metered(name, every, idf.period, idf.steps, profile)
           F == Frequencies(idf.meters, m)
           all == MeterRows(idf, profile) \cup VariableRows(idf, zones) \cup Extra(idf)
           sql == Simulated(idf, zones, profile)
<1>1. sql = [environments |-> <<"design", "weather">>, rows |-> all]
  BY DEF Simulated
<1>2. RunPeriods(<<"design", "weather">>) = {2}
  <2> DEFINE envs == <<"design", "weather">>
  <2>1. DOMAIN envs = {1, 2} /\ envs[1] = "design" /\ envs[2] = "weather"
    OBVIOUS
  <2> HIDE DEF envs
  <2>2. {e \in DOMAIN envs : envs[e] = "weather"} = {2}
    BY <2>1
  <2>3. RunPeriods(envs) = {2}
    BY <2>2 DEF RunPeriods
  <2> QED
    BY <2>3 DEF envs
<1>3. Intervals(sql, {m}) = {r \in all : ~r.warmup /\ r.env = 2 /\ r.name = m}
  <2>1. sql.rows = all /\ sql.environments = <<"design", "weather">>
    BY <1>1
  <2>2. Counted(sql) = {r \in all : ~r.warmup /\ r.env \in {2}}
    <3> HIDE DEF sql, all
    <3> QED
      BY <1>2, <2>1 DEF Counted
  <2> HIDE DEF sql, all
  <2> QED
    BY <2>2 DEF Intervals
<1>4. ASSUME NEW name, NEW every, NEW r \in read(name, every)
      PROVE  r.name = name /\ r.env = 2 /\ ~r.warmup
  BY <1>4, MeteredFields
<1>5. \A r \in MeterRows(idf, profile) :
        (\E q \in idf.meters : r \in read(q.name, q.every)) \/ r \in read(FacilityMeter, "month")
  BY DEF MeterRows
<1>6. /\ \A q \in idf.meters : q.name \in Meters => read(q.name, q.every) \subseteq MeterRows(idf, profile)
      /\ read(FacilityMeter, "month") \subseteq MeterRows(idf, profile)
  BY DEF MeterRows
<1> HIDE DEF read, sql
<1>7. ASSUME NEW r \in all, ~r.warmup, r.env = 2, r.name = m
      PROVE  \E every \in F : r \in read(m, every)
  <2>1. r \notin Extra(idf)
    BY <1>7, ExtraDiscounted
  <2>2. r \notin VariableRows(idf, zones)
    BY <1>7, VariableFields
  <2>3. r \in MeterRows(idf, profile)
    BY <2>1, <2>2
  <2>4. CASE \E q \in idf.meters : r \in read(q.name, q.every)
    <3>1. PICK q \in idf.meters : r \in read(q.name, q.every)
      BY <2>4
    <3>2. q.name = m
      BY <1>4, <1>7, <3>1
    <3>3. q.every \in F
      BY <3>2 DEF Frequencies
    <3> QED
      BY <3>1, <3>2, <3>3
  <2>5. CASE r \in read(FacilityMeter, "month")
    <3>1. m = FacilityMeter
      BY <1>4, <1>7, <2>5
    <3>2. "month" \in F
      BY <3>1 DEF Frequencies
    <3> QED
      BY <2>5, <3>1, <3>2
  <2> QED
    BY <1>5, <2>3, <2>4, <2>5
<1>8. ASSUME NEW every \in F, NEW r \in read(m, every)
      PROVE  r \in all /\ ~r.warmup /\ r.env = 2 /\ r.name = m
  <2>1. r \in MeterRows(idf, profile)
    <3>1. CASE \E q \in idf.meters : q.name = m /\ q.every = every
      BY <1>6, <1>8, <3>1
    <3>2. CASE m = FacilityMeter /\ every = "month"
      BY <1>6, <1>8, <3>2
    <3> QED
      BY <3>1, <3>2 DEF Frequencies
  <2> QED
    BY <1>4, <1>8, <2>1
<1> HIDE DEF F, all
<1>9. Intervals(sql, {m}) = UNION {read(m, every) : every \in F}
  BY <1>3, <1>7, <1>8
<1> QED
  BY <1>9 DEF read, F, sql, Reads

\* The meters an arm's file asks for.
Requested(meters) ==
  (meters \cup {[name |-> m, every |-> "step"] : m \in RequiredMeters \ {q.name : q \in meters}})
  \cup {[name |-> SiteMeter, every |-> "step"]}

Unmetered(variables) == {v.variable : v \in variables} \cap Meters = {}

LEMMA PatchedRequests ==
  ASSUME NEW idf, InputFile(idf), NEW spec, NEW steps
  PROVE  LET file == PatchIdf(idf, spec, steps)
         IN  /\ file.meters = idf.meters
                  \cup {[name |-> m, every |-> "step"]
                        : m \in RequiredMeters \ {q.name : q \in idf.meters}}
             /\ file.variables = idf.variables
<1> DEFINE patched == [idf EXCEPT !.weather = TRUE, !.period = spec, !.steps = steps,
                                  !.sqlite = TRUE]
           added == {[name |-> m, every |-> "step"]
                     : m \in RequiredMeters \ {q.name : q \in idf.meters}}
<1>1. InputFile(patched) /\ patched.meters = idf.meters /\ patched.variables = idf.variables
  BY DEF InputFile
<1> HIDE DEF patched
<1>2. PatchIdf(idf, spec, steps) = [patched EXCEPT !.meters = @ \cup added]
  BY <1>1 DEF PatchIdf, EnsureMeters, patched
<1> HIDE DEF added
<1>3. [patched EXCEPT !.meters = @ \cup added].meters = idf.meters \cup added
      /\ [patched EXCEPT !.meters = @ \cup added].variables = idf.variables
  BY <1>1 DEF InputFile
<1> QED
  BY <1>2, <1>3 DEF added

LEMMA PatchedWeather ==
  ASSUME NEW idf, InputFile(idf), NEW spec, NEW steps
  PROVE  PatchIdf(idf, spec, steps).weather = TRUE
<1> DEFINE patched == [idf EXCEPT !.weather = TRUE, !.period = spec, !.steps = steps,
                                  !.sqlite = TRUE]
<1>1. {"weather", "meters"} \subseteq DOMAIN idf
  BY DEF InputFile
<1>2. patched.weather = TRUE /\ {"weather", "meters"} \subseteq DOMAIN patched
  BY <1>1
<1> HIDE DEF patched
<1>3. PICK added : PatchIdf(idf, spec, steps) = [patched EXCEPT !.meters = added]
  BY DEF PatchIdf, EnsureMeters, patched
<1>4. [patched EXCEPT !.meters = added].weather = patched.weather
  BY <1>2
<1> QED
  BY <1>2, <1>3, <1>4

\* An arm is asked for the weather file, for what its meters and a setpoint's zones
\* and people are read at, and for no variable of a meter's name.
LEMMA ArmRequests ==
  ASSUME NEW idf, InputFile(idf), Unmetered(idf.variables), NEW spec, NEW steps
  PROVE  LET file == PrepareArm(idf, spec, steps)
         IN  /\ file.weather = TRUE /\ file.meters = Requested(idf.meters)
             /\ Unmetered(file.variables)
<1> DEFINE patched == PatchIdf(idf, spec, steps)
           zones == DOMAIN ThermostatSchedules(patched)
           named == {ZonePeople(patched)[z] : z \in DOMAIN ZonePeople(patched)}
           fanger == FangerComfort(patched)
           wanted == (zones \X ZoneVariables) \cup (named \X PeopleVariables)
           asked == {<<v.key, v.variable>> : v \in fanger.variables}
           added == {[key |-> w[1], variable |-> w[2], every |-> "step"] : w \in wanted \ asked}
           meter == {[name |-> SiteMeter, every |-> "step"]}
           file == EnsureOutputs(fanger, zones, named)
<1>1. InputFile(patched) /\ patched.weather = TRUE
  BY PatchedFile, PatchedWeather
<1>2. /\ patched.meters \cup meter = Requested(idf.meters)
      /\ patched.variables = idf.variables
  BY PatchedRequests DEF Requested
<1>3. PrepareArm(idf, spec, steps) = file
  BY DEF PrepareArm
<1> HIDE DEF patched
<1>4. InputFile(fanger) /\ fanger.weather = patched.weather /\ fanger.meters = patched.meters
      /\ fanger.variables = patched.variables
  BY <1>1 DEF InputFile, FangerComfort
<1>5. file = [fanger EXCEPT !.variables = @ \cup added, !.meters = @ \cup meter,
                            !.sqlite = TRUE]
  BY DEF EnsureOutputs
<1> HIDE DEF fanger
<1>6. \A v \in added : v.variable \in ZoneVariables \cup PeopleVariables
  OBVIOUS
<1> HIDE DEF added, meter, file
<1>7. /\ file.weather = fanger.weather /\ file.meters = fanger.meters \cup meter
      /\ file.variables = fanger.variables \cup added
  BY <1>4, <1>5 DEF InputFile
<1>8. Unmetered(file.variables)
  BY <1>2, <1>4, <1>6, <1>7, PrototypeAssumption DEF Unmetered
<1>9. file.weather = TRUE
  BY <1>1, <1>4, <1>7
<1> QED
  BY <1>2, <1>3, <1>4, <1>7, <1>8, <1>9

LEMMA PreparedRequests ==
  ASSUME NEW idf, InputFile(idf), Unmetered(idf.variables)
  PROVE  /\ Unmetered(Prepared(idf).idf.variables)
         /\ Requested(Prepared(idf).idf.meters) = Requested(idf.meters)
<1> DEFINE zoneMap == ThermostatSchedules(idf)
           zones == DOMAIN zoneMap
           people == ZonePeople(idf)
           named == {people[z] : z \in DOMAIN people}
           fanger == FangerComfort(ConvertSchedules(idf, zoneMap))
           wanted == (zones \X ZoneVariables) \cup (named \X PeopleVariables)
           asked == {<<v.key, v.variable>> : v \in fanger.variables}
           added == {[key |-> w[1], variable |-> w[2], every |-> "step"] : w \in wanted \ asked}
           meter == {[name |-> SiteMeter, every |-> "step"]}
           file == EnsureOutputs(fanger, zones, named)
<1>1. Prepared(idf).idf = file
  BY DEF Prepared
<1>2. InputFile(fanger) /\ fanger.meters = idf.meters /\ fanger.variables = idf.variables
  <2>1. PICK schedules : ConvertSchedules(idf, zoneMap) = [idf EXCEPT !.schedules = schedules]
    BY DEF ConvertSchedules
  <2> DEFINE converted == [idf EXCEPT !.schedules = schedules]
  <2>2. InputFile(converted) /\ converted.meters = idf.meters
        /\ converted.variables = idf.variables
    BY DEF InputFile
  <2> HIDE DEF converted
  <2>3. FangerComfort(converted).meters = converted.meters
        /\ FangerComfort(converted).variables = converted.variables
        /\ InputFile(FangerComfort(converted))
    BY <2>2 DEF InputFile, FangerComfort
  <2> HIDE DEF zoneMap
  <2> QED
    BY <2>1, <2>2, <2>3 DEF converted
<1>3. file = [fanger EXCEPT !.variables = @ \cup added, !.meters = @ \cup meter,
                            !.sqlite = TRUE]
  BY DEF EnsureOutputs
<1> HIDE DEF fanger
<1>4. \A v \in added : v.variable \in ZoneVariables \cup PeopleVariables
  OBVIOUS
<1> HIDE DEF added, file
<1>5. file.meters = idf.meters \cup meter /\ file.variables = idf.variables \cup added
  <2> HIDE DEF meter
  <2> QED
    BY <1>2, <1>3 DEF InputFile
<1>6. Unmetered(file.variables)
  BY <1>4, <1>5, PrototypeAssumption DEF Unmetered
<1>7. Requested(idf.meters \cup meter) = Requested(idf.meters)
  <2> DEFINE step(m) == [name |-> m, every |-> "step"]
  <2>1. \A m : step(m).name = m
    OBVIOUS
  <2>2. Requested(idf.meters) = (idf.meters \cup
          {step(m) : m \in RequiredMeters \ {q.name : q \in idf.meters}}) \cup {step(SiteMeter)}
    BY DEF Requested
  <2>3. Requested(idf.meters \cup {step(SiteMeter)}) = ((idf.meters \cup {step(SiteMeter)}) \cup
          {step(m) : m \in RequiredMeters \ {q.name : q \in idf.meters \cup {step(SiteMeter)}}})
          \cup {step(SiteMeter)}
    BY DEF Requested
  <2>4. {q.name : q \in idf.meters \cup {step(SiteMeter)}}
          = {q.name : q \in idf.meters} \cup {SiteMeter}
    <3> HIDE DEF step
    <3> QED
      BY <2>1
  <2>5. meter = {step(SiteMeter)}
    OBVIOUS
  <2> HIDE DEF step
  <2> QED
    BY <2>2, <2>3, <2>4, <2>5
<1> QED
  BY <1>1, <1>5, <1>6, <1>7

LEMMA FrequenciesFinite ==
  ASSUME NEW meters, IsFiniteSet(meters), NEW m
  PROVE  IsFiniteSet(Frequencies(meters, m))
<1> DEFINE asked == {p \in meters : p.name = m}
           every == [q \in asked |-> q.every]
           unasked == {e \in {"month"} : m = FacilityMeter}
<1>1. IsFiniteSet(asked)
  BY FS_Subset
<1>2. IsFiniteSet({every[q] : q \in asked})
  <2> HIDE DEF asked, every
  <2> QED
    BY <1>1, KeysFinite
<1>3. IsFiniteSet(unasked)
  <2>1. IsFiniteSet({"month"}) /\ unasked \subseteq {"month"}
    BY FS_Singleton
  <2> QED
    BY <2>1, FS_Subset
<1>4. Frequencies(meters, m) = {every[q] : q \in asked} \cup unasked
  BY DEF Frequencies
<1> HIDE DEF asked, every, unasked
<1> QED
  BY <1>2, <1>3, <1>4, FS_Union

\* Every meter the report reads is asked for.
LEMMA MetersAsked ==
  ASSUME NEW meters, NEW m \in Meters
  PROVE  Frequencies(Requested(meters), m) # {}
<1> DEFINE names == {q.name : q \in meters}
           row == [name |-> m, every |-> "step"]
<1>1. m \in RequiredMeters
  BY PrototypeAssumption, OutputAssumption DEF Meters
<1>2. \E q \in Requested(meters) : q.name = m
  <2>1. CASE m \in names
    BY <2>1 DEF Requested
  <2>2. CASE m \notin names
    <3>1. row \in Requested(meters)
      BY <1>1, <2>2 DEF Requested
    <3> QED
      BY <3>1
  <2> QED
    BY <2>1, <2>2
<1> QED
  BY <1>2 DEF Frequencies

\* A run reports a meter's energy once for every frequency it is read at.
LEMMA MeterEnergy ==
  ASSUME NEW rows, Readings(rows), NEW F, IsFiniteSet(F),
         NEW period, Period(period), NEW steps \in 1 .. 60, 60 % steps = 0, NEW profile,
         Covers(profile, period.days, steps), NEW m \in Meters,
         rows = Reads(m, F, period, steps, profile)
  PROVE  Energy(rows) = Cardinality(F) * Total(profile, m, period.days, steps)
<1> DEFINE read(every) == Metered(m, every, period, steps, profile)
           value == [r \in rows |-> r.value]
           key == [r \in rows |-> r.every]
           total == Total(profile, m, period.days, steps)
<1>1. ASSUME NEW every, NEW r \in read(every) PROVE r.every = every
  BY <1>1, MeteredFields
<1>2. \A every : read(every) # {} /\ Energy(read(every)) = total
  BY MeteredEnergy
<1>3. IsFiniteSet(rows) /\ value \in [rows -> Int]
  BY DEF Readings
<1> HIDE DEF read, total
<1>4. rows = UNION {read(every) : every \in F}
  BY DEF read, Reads
<1>5. {key[r] : r \in rows} = F
  <2>1. ASSUME NEW r \in rows PROVE key[r] \in F
    BY <1>1, <1>4
  <2>2. ASSUME NEW every \in F PROVE \E r \in rows : key[r] = every
    <3>1. PICK r : r \in read(every)
      BY <1>2
    <3>2. r \in rows /\ r.every = every
      BY <1>1, <1>4, <3>1
    <3> QED
      BY <3>2
  <2> HIDE DEF key
  <2> QED
    BY <2>1, <2>2
<1>6. ASSUME NEW every \in F PROVE PartSum(rows, key, value, every) = total
  <2>1. Part(rows, key, every) = read(every)
    BY <1>1, <1>4 DEF Part
  <2>2. [r \in read(every) |-> value[r]] = [r \in read(every) |-> r.value]
    BY <1>4
  <2>3. Energy(read(every)) = SumFunction([r \in read(every) |-> r.value])
    BY DEF Energy
  <2>4. PartSum(rows, key, value, every) = SumFunction([r \in read(every) |-> value[r]])
    <3> HIDE DEF key, value
    <3> QED
      BY <2>1 DEF PartSum
  <2> HIDE DEF key, value
  <2> QED
    BY <1>2, <2>2, <2>3, <2>4
<1>7. Energy(rows) = SumFunction(value)
  BY DEF Energy
<1> HIDE DEF value, key
<1>8. SumFunction(value) = SumOfParts(rows, key, value)
  BY <1>3, SumByParts
<1>9. SumOfParts(rows, key, value) = SumFunction([every \in F |-> PartSum(rows, key, value, every)])
  BY <1>5 DEF SumOfParts
<1>10. [every \in F |-> PartSum(rows, key, value, every)] = [every \in F |-> total]
  BY <1>6
<1>11. total \in Int /\ SumFunction([every \in F |-> total]) = Cardinality(F) * total
  <2>1. total \in Int
    <3> DEFINE S == StepsIn(period.days, steps)
               used == [i \in S |-> profile[m][i]]
    <3>1. total = SumFunction(used)
      BY DEF total, Total
    <3>2. \A i \in S : profile[m][i] \in Int
      BY DEF Covers, StepsIn
    <3>3. IsFiniteSet(S)
      BY StepsInFinite DEF Period
    <3> HIDE DEF S
    <3>4. used \in [S -> Int]
      BY <3>2
    <3> HIDE DEF used
    <3> QED
      BY <3>1, <3>3, <3>4, SumWithout
  <2> QED
    BY <2>1, SumConstant
<1> QED
  BY <1>7, <1>8, <1>9, <1>10, <1>11 DEF total

\* Intervals k times as long have at most a k-th of the power to the unit of energy.
LEMMA LongerIntervals ==
  ASSUME NEW a \in Nat, NEW k \in Nat \ {0}, NEW t \in Nat \ {0}
  PROVE  /\ a \div (k * t) \in Nat /\ a \div t \in Nat
         /\ k * (a \div (k * t)) <= a \div t
<1> DEFINE L == k * t
           q == a \div L
           b == a \div t
           c == k * q
<1>1. L \in Nat \ {0}
  OBVIOUS
<1> HIDE DEF L
<1>2. q \in Nat /\ q * L <= a
  BY <1>1, Quotient
<1>3. b \in Nat
  BY Quotient
<1> HIDE DEF q
<1>4. q * L = c * t
  BY <1>2 DEF L
<1>5. c \in Nat
  BY <1>2
<1>6. a < (b + 1) * t
  BY <1>3, Divided
<1> HIDE DEF b, c
<1>7. CASE c >= b + 1
  <2>1. (b + 1) * t <= c * t /\ (b + 1) * t \in Int /\ c * t \in Int
    <3>1. b + 1 \in Int /\ b + 1 <= c
      BY <1>3, <1>5, <1>7
    <3> QED
      BY <1>5, <3>1, Product
  <2> DEFINE x == (b + 1) * t
             y == c * t
  <2>2. y <= a /\ a < x /\ x <= y /\ x \in Int /\ y \in Int
    BY <1>2, <1>4, <1>6, <2>1
  <2> HIDE DEF x, y
  <2> QED
    BY <2>2
<1>8. CASE c <= b
  BY <1>2, <1>3, <1>8 DEF b, c, q, L
<1> QED
  BY <1>3, <1>5, <1>7, <1>8

\* No reading of a meter has more power than its greatest timestep.
LEMMA PowerAtMost ==
  ASSUME NEW days \in Nat \ {0}, NEW steps \in 1 .. 60, 60 % steps = 0, NEW profile,
         Covers(profile, days, steps), NEW m \in Meters, NEW every,
         NEW most \in Nat, \A i \in StepsIn(days, steps) : profile[m][i] <= most,
         NEW r \in MeterRead(m, every, days, steps, profile)
  PROVE  Power(r) <= most * (PeriodMinutes \div (60 \div steps))
<1> DEFINE interval == Length(every, steps)
           t == 60 \div steps
           rate == PeriodMinutes \div interval
           unit == PeriodMinutes \div t
<1>1. PICK k, n : Grid(interval, k, n, days, steps)
  BY EveryGrid
<1>2. r.interval = interval
  BY MeterReadFields
<1>3. PICK e \in Ends(interval, days) : r.value = Used(profile, m, interval, e, steps)
  BY MeterReadFields
<1> HIDE DEF interval
<1>4. PICK j \in 1 .. n : e = j * interval
  BY <1>1, GridEnds
<1> DEFINE P == Steps(e - interval, e, steps)
           used == [i \in P |-> profile[m][i]]
<1>5. P = (j - 1) * k + 1 .. j * k
  BY <1>1, <1>4, GridSteps
<1>6. /\ k \in Nat \ {0} /\ n \in Nat \ {0} /\ interval \in Nat \ {0}
      /\ interval = k * t /\ t \in Nat
  <2>1. t \in Nat
    BY Quotient
  <2> QED
    BY <1>1, <2>1 DEF Grid
<1>7. r.value = SumFunction(used)
  BY <1>3 DEF Used
<1>8. IsFiniteSet(P) /\ Cardinality(P) = k
  <2> DEFINE a == (j - 1) * k
             b == j * k
  <2>1. a \in Nat /\ b \in Nat /\ b = a + k
    BY <1>6
  <2>2. P = a + 1 .. b
    BY <1>5
  <2> HIDE DEF P, a, b
  <2>3. a + 1 \in Int /\ b \in Int /\ ~(a + 1 > b) /\ b - (a + 1) + 1 = k
    BY <1>6, <2>1
  <2>4. IsFiniteSet(a + 1 .. b) /\ Cardinality(a + 1 .. b) = b - (a + 1) + 1
    BY <2>3, FS_Interval
  <2> QED
    BY <2>2, <2>3, <2>4
<1>9. P \subseteq StepsIn(days, steps)
  <2>1. e \in Nat /\ e <= Minutes(days)
    BY <1>3, <1>6, EndsWithin
  <2> HIDE DEF P
  <2>2. P \subseteq 1 .. days * HoursPerDay * steps
    BY <2>1, StepsWithin DEF P
  <2> QED
    BY <2>2 DEF StepsIn
<1> HIDE DEF P
<1>10. \A i \in P : profile[m][i] \in Nat /\ 0 <= used[i] /\ used[i] <= most
  BY <1>9 DEF Covers, StepsIn
<1>11. used \in [P -> Int]
  BY <1>10
<1> HIDE DEF used
<1>12. /\ r.value \in Int /\ k * 0 <= r.value /\ r.value <= k * most
  <2>1. \A i \in P : 0 <= used[i] /\ used[i] <= most
    BY <1>10
  <2>2. most \in Int /\ 0 \in Int
    OBVIOUS
  <2>3. SumFunction(used) \in Int /\ Cardinality(P) * 0 <= SumFunction(used)
        /\ SumFunction(used) <= Cardinality(P) * most
    BY <1>8, <1>11, <2>1, <2>2, SumBetween
  <2> QED
    BY <1>7, <1>8, <2>3
<1>13. rate \in Nat /\ unit \in Nat /\ k * rate <= unit
  <2>1. PeriodMinutes \in Nat /\ t \in Nat \ {0}
    BY <1>6, CurveAssumption
  <2> HIDE DEF t
  <2>2. PeriodMinutes \div (k * t) \in Nat /\ PeriodMinutes \div t \in Nat
        /\ k * (PeriodMinutes \div (k * t)) <= PeriodMinutes \div t
    BY <1>6, <2>1, LongerIntervals
  <2> QED
    BY <1>6, <2>2
<1>14. Power(r) = r.value * rate
  BY <1>2 DEF Power
<1> HIDE DEF rate, unit
<1>15. r.value * rate <= (k * most) * rate
  BY <1>6, <1>12, <1>13, Product
<1>16. (k * most) * rate = (k * rate) * most /\ k * rate \in Int
  BY <1>6, <1>13
<1>17. (k * rate) * most <= unit * most
  BY <1>13, <1>16, Product
<1>18. unit * most = most * unit /\ (k * rate) * most \in Int /\ unit * most \in Int
       /\ r.value * rate \in Int
  BY <1>12, <1>13, <1>16
<1> DEFINE x == r.value * rate
           y == (k * rate) * most
           z == most * unit
<1>19. x <= y /\ y <= z /\ x \in Int /\ y \in Int /\ z \in Int
  BY <1>15, <1>16, <1>17, <1>18
<1> HIDE DEF x, y, z
<1>20. x <= z
  BY <1>19
<1> QED
  BY <1>14, <1>20 DEF x, z, unit, t

\* A month's reading has no more power than its greatest timestep.
LEMMA MonthPower ==
  ASSUME NEW period, Period(period), NEW steps \in 1 .. 60, 60 % steps = 0, NEW profile,
         Covers(profile, period.days, steps), NEW m \in Meters, NEW every,
         NEW most \in Nat, \A i \in StepsIn(period.days, steps) : profile[m][i] <= most,
         NEW r \in MonthRead(m, every, period, steps, profile)
  PROVE  Power(r) <= most * (PeriodMinutes \div (60 \div steps))
<1> DEFINE interval == MonthDays * 60 * HoursPerDay
           t == 60 \div steps
           k == MonthDays * (HoursPerDay * steps)
           rate == PeriodMinutes \div interval
           unit == PeriodMinutes \div t
<1>1. r.interval = interval
  BY MonthReadFields
<1>2. PICK e \in Months(period, steps) : r.value = UsedInMonth(profile, m, period, steps, e)
  BY MonthReadFields
<1> DEFINE P == Part(StepsIn(period.days, steps), MonthEnds(period, steps), e)
           used == [i \in P |-> profile[m][i]]
<1>3. /\ IsFiniteSet(P) /\ P \subseteq StepsIn(period.days, steps)
      /\ Cardinality(P) \in Nat /\ Cardinality(P) <= k
  BY MonthSteps
<1>4. r.value = SumFunction(used)
  BY <1>2 DEF UsedInMonth
<1>5. t \in Nat \ {0} /\ steps * t = 60
  <2>1. 60 = steps * t + (60 % steps) /\ t \in Nat
    BY Quotient
  <2>2. steps * t \in Nat
    BY <2>1
  <2> DEFINE p == steps * t
  <2> HIDE DEF p
  <2>3. 60 = p + 0 /\ p \in Nat
    BY <2>1, <2>2 DEF p
  <2>4. p = 60
    BY <2>3
  <2> HIDE DEF t
  <2> QED
    BY <2>1, <2>4 DEF p
<1> HIDE DEF t
<1>6. k \in Nat \ {0} /\ interval = k * t
  <2>1. MonthDays \in Nat \ {0} /\ HoursPerDay \in Nat \ {0} /\ steps \in Nat \ {0}
    BY RequestAssumption, CurveAssumption
  <2>2. HoursPerDay * steps \in Nat \ {0}
    BY <2>1
  <2>3. k \in Nat \ {0}
    BY <2>1, <2>2
  <2>4. k * t = MonthDays * (HoursPerDay * (steps * t))
    BY <1>5, <2>1
  <2>5. MonthDays * (HoursPerDay * 60) = interval
    BY <2>1
  <2> QED
    BY <1>5, <2>3, <2>4, <2>5
<1>7. \A i \in P : profile[m][i] \in Nat /\ 0 <= used[i] /\ used[i] <= most
  <2> HIDE DEF P
  <2> QED
    BY <1>3 DEF Covers, StepsIn
<1> HIDE DEF P, k, interval
<1>8. used \in [P -> Int]
  BY <1>7
<1> HIDE DEF used
<1>9. r.value \in Int /\ r.value <= k * most
  <2>1. \A i \in P : 0 <= used[i] /\ used[i] <= most
    BY <1>7
  <2>2. most \in Int /\ 0 \in Int
    OBVIOUS
  <2>3. SumFunction(used) \in Int /\ SumFunction(used) <= Cardinality(P) * most
    BY <1>3, <1>8, <2>1, <2>2, SumBetween
  <2>4. Cardinality(P) * most <= k * most /\ Cardinality(P) * most \in Int /\ k * most \in Int
    BY <1>3, <1>6, Product
  <2> DEFINE a == Cardinality(P) * most
             b == k * most
  <2>5. SumFunction(used) <= a /\ a <= b /\ a \in Int /\ b \in Int
    BY <2>3, <2>4
  <2> HIDE DEF a, b
  <2>6. SumFunction(used) <= b
    BY <2>3, <2>5
  <2> QED
    BY <1>4, <2>3, <2>6 DEF b
<1>10. rate \in Nat /\ unit \in Nat /\ k * rate <= unit
  <2>1. PeriodMinutes \in Nat
    BY CurveAssumption
  <2>2. PeriodMinutes \div (k * t) \in Nat /\ PeriodMinutes \div t \in Nat
        /\ k * (PeriodMinutes \div (k * t)) <= PeriodMinutes \div t
    BY <1>5, <1>6, <2>1, LongerIntervals
  <2> QED
    BY <1>6, <2>2
<1>11. Power(r) = r.value * rate
  BY <1>1 DEF Power
<1> HIDE DEF rate, unit
<1>12. r.value * rate <= (k * most) * rate
  BY <1>6, <1>9, <1>10, Product
<1>13. (k * most) * rate = (k * rate) * most /\ k * rate \in Int
  BY <1>6, <1>10
<1>14. (k * rate) * most <= unit * most
  BY <1>10, <1>13, Product
<1>15. unit * most = most * unit /\ (k * rate) * most \in Int /\ unit * most \in Int
       /\ r.value * rate \in Int
  BY <1>9, <1>10, <1>13
<1> DEFINE x == r.value * rate
           y == (k * rate) * most
           z == most * unit
<1>16. x <= y /\ y <= z /\ x \in Int /\ y \in Int /\ z \in Int
  BY <1>12, <1>13, <1>14, <1>15
<1> HIDE DEF x, y, z
<1>17. x <= z
  BY <1>16
<1> QED
  BY <1>11, <1>17 DEF x, z, unit, t

LEMMA MeteredPower ==
  ASSUME NEW period, Period(period), NEW steps \in 1 .. 60, 60 % steps = 0, NEW profile,
         Covers(profile, period.days, steps), NEW m \in Meters, NEW every,
         NEW most \in Nat, \A i \in StepsIn(period.days, steps) : profile[m][i] <= most,
         NEW r \in Metered(m, every, period, steps, profile)
  PROVE  Power(r) <= most * (PeriodMinutes \div (60 \div steps))
<1>1. CASE r \in MonthRead(m, every, period, steps, profile)
  BY <1>1, MonthPower
<1>2. CASE r \in MeterRead(m, every, period.days, steps, profile)
  <2>1. period.days \in Nat \ {0}
    BY DEF Period
  <2> QED
    BY <1>2, <2>1, PowerAtMost
<1> QED
  BY <1>1, <1>2 DEF Metered

\* The reading of one timestep.
LEMMA StepRead ==
  ASSUME NEW days \in Nat \ {0}, NEW steps \in 1 .. 60, 60 % steps = 0, NEW profile,
         Covers(profile, days, steps), NEW m \in Meters, NEW i \in StepsIn(days, steps)
  PROVE  \E r \in MeterRead(m, "step", days, steps, profile) :
           Power(r) = profile[m][i] * (PeriodMinutes \div (60 \div steps))
<1> DEFINE t == 60 \div steps
           N == days * HoursPerDay * steps
           e == i * t
           reading == [d \in Ends(t, days) |-> Used(profile, m, t, d, steps)]
           row == Row(m, "", "step", t, reading, e)
           P == Steps(e - t, e, steps)
<1>1. Length("step", steps) = t /\ Grid(t, 1, N, days, steps)
  BY StepGrid
<1>2. i \in 1 .. N
  BY DEF StepsIn
<1> HIDE DEF t, N
<1>3. e \in Ends(t, days)
  BY <1>1, <1>2, GridEnds
<1>4. P = {i}
  <2>1. P = (i - 1) * 1 + 1 .. i * 1
    BY <1>1, <1>2, GridSteps
  <2>2. (i - 1) * 1 + 1 = i /\ i * 1 = i
    BY <1>2
  <2> QED
    BY <1>2, <2>1, <2>2
<1>5. reading[e] = profile[m][i]
  <2> DEFINE used == [q \in P |-> profile[m][q]]
  <2>1. reading[e] = SumFunction(used)
    BY <1>3 DEF Used
  <2>2. used \in [{i} -> Int] /\ used[i] = profile[m][i]
    <3>1. profile[m][i] \in Int
      BY DEF Covers, StepsIn
    <3> QED
      BY <1>4, <3>1
  <2> HIDE DEF used, reading, P
  <2>3. SumFunction(used) = used[i]
    BY <2>2, SumSingle
  <2> QED
    BY <2>1, <2>2, <2>3
<1>6. row \in MeterRead(m, "step", days, steps, profile)
  <2>1. MeterRead(m, "step", days, steps, profile) = Series(m, "", "step", t, reading)
    BY <1>1 DEF MeterRead, Used
  <2> DEFINE key == ""
  <2>0. e \in DOMAIN reading
    BY <1>3
  <2> HIDE DEF reading, e, key
  <2>2. Series(m, key, "step", t, reading)
          = {Row(m, key, "step", t, reading, x) : x \in DOMAIN reading}
    BY SeriesIs
  <2>3. row \in Series(m, key, "step", t, reading)
    BY <2>0, <2>2 DEF key
  <2> QED
    BY <2>1, <2>3 DEF key
<1>7. row.interval = t /\ row.value = reading[e]
  <2> DEFINE key == ""
             every == "step"
  <2> HIDE DEF reading, e, key, every
  <2>1. /\ Row(m, key, every, t, reading, e).interval = t
        /\ Row(m, key, every, t, reading, e).value = reading[e]
    BY RowFields
  <2> QED
    BY <2>1 DEF key, every
<1>8. Power(row) = profile[m][i] * (PeriodMinutes \div t)
  <2> HIDE DEF row, reading, e
  <2> QED
    BY <1>5, <1>7 DEF Power
<1> HIDE DEF row
<1> QED
  BY <1>6, <1>8 DEF t

\* A meter read at every timestep shows its peak, at whatever frequencies it is
\* read besides.
LEMMA PeakReal ==
  ASSUME NEW rows, Readings(rows), NEW F, "step" \in F,
         NEW period, Period(period), NEW steps \in 1 .. 60, 60 % steps = 0, NEW profile,
         Covers(profile, period.days, steps), NEW m \in Meters,
         rows = Reads(m, F, period, steps, profile)
  PROVE  Peak(rows) = Max({profile[m][i] : i \in StepsIn(period.days, steps)})
                      * (PeriodMinutes \div (60 \div steps))
<1> DEFINE days == period.days
           S == StepsIn(days, steps)
           unit == PeriodMinutes \div (60 \div steps)
           used == [i \in S |-> profile[m][i]]
           values == {used[i] : i \in S}
           most == Max(values)
<1>0. days \in Nat \ {0}
  BY DEF Period
<1>1. IsFiniteSet(S) /\ S # {}
  <2>1. HoursPerDay \in Nat \ {0} /\ days * HoursPerDay \in Nat \ {0}
    BY <1>0, CurveAssumption
  <2> DEFINE d == days * HoursPerDay
  <2> HIDE DEF d
  <2>2. d * steps \in Nat \ {0}
    BY <2>1 DEF d
  <2>3. 1 \in 1 .. d * steps
    BY <2>2
  <2> QED
    BY <1>0, <2>3, StepsInFinite DEF StepsIn, d
<1>2. \A i \in S : used[i] \in Nat /\ used[i] = profile[m][i]
  BY DEF Covers, StepsIn
<1>3. values = {profile[m][i] : i \in S}
  OBVIOUS
<1>4. unit \in Nat
  <2>1. 60 \div steps \in Nat \ {0}
    <3>1. Length("step", steps) \in Nat \ {0}
      BY LengthType
    <3> QED
      BY <3>1 DEF Length
  <2> DEFINE t == 60 \div steps
  <2> HIDE DEF t
  <2> QED
    BY <2>1, CurveAssumption, Quotient DEF t
<1>5. IsFiniteSet(values) /\ values \subseteq Int /\ values # {} /\ values \subseteq Nat
  <2>1. IsFiniteSet(values)
    <3> HIDE DEF S, used
    <3> QED
      BY <1>1, KeysFinite
  <2> HIDE DEF S, used
  <2> QED
    BY <1>1, <1>2, <2>1
<1> HIDE DEF values, unit, used, S
<1>6. most \in values /\ \A v \in values : v <= most
  BY <1>5, MaxInt
<1>7. most \in Nat
  BY <1>5, <1>6
<1> HIDE DEF most
<1>8. \A i \in S : profile[m][i] <= most
  BY <1>2, <1>6 DEF values
<1>9. ASSUME NEW r \in rows PROVE Power(r) <= most * unit
  <2>1. PICK every \in F : r \in Metered(m, every, period, steps, profile)
    BY DEF Reads
  <2>2. \A i \in StepsIn(days, steps) : profile[m][i] <= most
    BY <1>8 DEF S
  <2> QED
    BY <1>7, <2>1, <2>2, MeteredPower DEF unit
<1>10. \E r \in rows : Power(r) = most * unit
  <2>1. PICK i \in S : most = profile[m][i]
    BY <1>2, <1>6 DEF values
  <2>2. PICK r \in MeterRead(m, "step", days, steps, profile) :
              Power(r) = profile[m][i] * (PeriodMinutes \div (60 \div steps))
    BY <1>0, StepRead DEF S
  <2>3. r \in rows
    <3> DEFINE every == "step"
    <3>1. every # "month" /\ every \in F /\ r \in MeterRead(m, every, days, steps, profile)
      BY <2>2
    <3> HIDE DEF every
    <3>2. r \in Metered(m, every, period, steps, profile)
      BY <3>1 DEF Metered
    <3> QED
      BY <3>1, <3>2 DEF Reads
  <2> QED
    BY <2>1, <2>2, <2>3 DEF unit
<1>11. /\ Peak(rows) \in Int /\ Peak(rows) >= 0 /\ \A r \in rows : Power(r) <= Peak(rows)
       /\ Peak(rows) = 0 \/ \E r \in rows : Peak(rows) = Power(r)
  BY PeakIs
<1>12. most * unit \in Nat
  BY <1>4, <1>7
<1> DEFINE x == most * unit
<1> HIDE DEF x
<1>13. x <= Peak(rows) /\ x \in Nat
  BY <1>10, <1>11, <1>12 DEF x
<1>14. Peak(rows) <= x
  <2>1. CASE Peak(rows) = 0
    BY <1>13, <2>1
  <2>2. CASE \E r \in rows : Peak(rows) = Power(r)
    BY <1>9, <2>2 DEF x
  <2> QED
    BY <1>11, <2>1, <2>2
<1>15. Peak(rows) = x
  BY <1>11, <1>13, <1>14
<1> QED
  BY <1>3, <1>15 DEF x, most, unit, S

\* Counting each meter n times leaves the savings in percent as they are.
LEMMA SameSaving ==
  ASSUME NEW n \in Nat \ {0}, NEW a \in Nat, NEW b \in Int
  PROVE  SameRatio(Percent(n * a, n * b), a, b)
<1> DEFINE x == n * a
           y == n * b
<1>1. x \in Nat /\ y \in Int /\ (x = 0 <=> a = 0)
  OBVIOUS
<1>2. (x - y) * a = x * (a - b)
  <2>1. (x - y) * a = (n * a) * a - (n * b) * a
    OBVIOUS
  <2>2. x * (a - b) = (n * a) * a - (n * a) * b
    OBVIOUS
  <2>3. (n * b) * a = (n * a) * b
    OBVIOUS
  <2> QED
    BY <2>1, <2>2, <2>3
<1> HIDE DEF x, y
<1>3. CASE x = 0
  BY <1>1, <1>3 DEF SameRatio, Percent, x, y
<1>4. CASE x # 0
  <2>1. Percent(x, y) = <<x - y, x>>
    BY <1>4 DEF Percent
  <2>2. <<x - y, x>> # << >>
    OBVIOUS
  <2>3. a > 0
    BY <1>1, <1>4
  <2>4. SameRatio(Percent(x, y), a, b)
    BY <1>2, <2>1, <2>2, <2>3 DEF SameRatio
  <2> QED
    BY <2>4 DEF x, y
<1> QED
  BY <1>3, <1>4

LEMMA TotalType ==
  ASSUME NEW days \in Nat \ {0}, NEW steps \in 1 .. 60, NEW profile,
         Covers(profile, days, steps), NEW m \in Meters
  PROVE  Total(profile, m, days, steps) \in Nat
<1> DEFINE S == StepsIn(days, steps)
           used == [i \in S |-> profile[m][i]]
           values == {used[i] : i \in S}
<1>1. IsFiniteSet(S)
  BY StepsInFinite
<1>2. \A i \in S : used[i] \in Nat
  BY DEF Covers, StepsIn
<1>3. Total(profile, m, days, steps) = SumFunction(used)
  BY DEF Total
<1>4. used = [i \in S |-> used[i]]
  OBVIOUS
<1> HIDE DEF used, S
<1>5. used \in [S -> Int]
  BY <1>2, <1>4
<1>6. CASE S = {}
  <2>1. DOMAIN used = {}
    BY <1>5, <1>6
  <2> QED
    BY <1>3, <2>1, SumEmpty
<1>7. CASE S # {}
  <2>1. IsFiniteSet(values)
    BY <1>1, KeysFinite
  <2>2. values # {} /\ values \subseteq Int
    BY <1>2, <1>7
  <2> HIDE DEF values
  <2>3. PICK most \in values : \A v \in values : v <= most
    BY <2>1, <2>2, GreatestExists
  <2>4. most \in Int /\ 0 \in Int /\ \A i \in S : 0 <= used[i] /\ used[i] <= most
    BY <1>2, <2>2, <2>3 DEF values
  <2>5. SumFunction(used) \in Int /\ Cardinality(S) * 0 <= SumFunction(used)
    BY <1>1, <1>5, <2>4, SumBetween
  <2>6. Cardinality(S) * 0 = 0
    BY <1>1, FS_CardinalityType
  <2> QED
    BY <1>3, <2>5, <2>6
<1> QED
  BY <1>6, <1>7

\* What is asked for can be simulated, and every interval is of whole timesteps.
LEMMA RequestType ==
  ASSUME NEW r \in Requests
  PROVE  /\ Resolve(r).days \in Nat \ {0} /\ r.steps \in 1 .. 60 /\ 60 % r.steps = 0
         /\ Period(Resolve(r))
         /\ \A profile \in Profiles : Covers(profile, Resolve(r).days, r.steps)
<1>1. /\ PeriodDays \in Nat \ {0} /\ MonthDays \in Nat \ {0} /\ r.days \in Nat
      /\ r.steps \in 1 .. 60 /\ 60 % r.steps = 0
  BY RequestAssumption
<1>2. Resolve(r).days \in {r.days, PeriodDays, MonthDays} /\ Resolve(r).days # 0
  BY <1>1 DEF Resolve
<1>3. \A profile \in Profiles : Covers(profile, Resolve(r).days, r.steps)
  BY RequestAssumption DEF Covers
<1>4. Resolve(r).first \in Nat
  BY RequestAssumption
<1> QED
  BY <1>1, <1>2, <1>3, <1>4 DEF Period

\* What an arm leaves that ran to its end.
RunSql(source, r, profile) ==
  Simulated(PrepareArm(source, Resolve(r), r.steps), Prepared(Prototype).zones, profile)

Sources == {Prototype, Prepared(Prototype).idf}

\* How often a meter is read, the same for every arm.
Times(m) == Cardinality(Frequencies(Requested(Prototype.meters), m))

LEMMA RequestedFinite == IsFiniteSet(Requested(Prototype.meters))
<1> DEFINE names == {q.name : q \in Prototype.meters}
           missing == RequiredMeters \ names
           f == [k \in missing |-> [name |-> k, every |-> "step"]]
           added == {f[k] : k \in missing}
           site == {[name |-> SiteMeter, every |-> "step"]}
<1>1. IsFiniteSet(missing)
  BY OutputAssumption, FS_Subset
<1>2. IsFiniteSet(added)
  <2> HIDE DEF missing, f
  <2> QED
    BY <1>1, KeysFinite
<1>3. IsFiniteSet(site)
  BY FS_Singleton
<1>4. Requested(Prototype.meters) = (Prototype.meters \cup added) \cup site
  BY DEF Requested
<1>5. IsFiniteSet(Prototype.meters)
  BY PrototypeAssumption DEF InputFile
<1> HIDE DEF added, site
<1> QED
  BY <1>2, <1>3, <1>4, <1>5, FS_Union

LEMMA TimesType ==
  ASSUME NEW m \in Meters
  PROVE  /\ IsFiniteSet(Frequencies(Requested(Prototype.meters), m))
         /\ Times(m) \in Nat \ {0}
<1> DEFINE asked == Requested(Prototype.meters)
           F == Frequencies(asked, m)
<1>1. IsFiniteSet(asked)
  BY RequestedFinite
<1>2. F # {}
  BY MetersAsked
<1> HIDE DEF asked
<1>3. IsFiniteSet(F)
  BY <1>1, FrequenciesFinite
<1> HIDE DEF F
<1>4. Cardinality(F) \in Nat \ {0}
  BY <1>2, <1>3, FS_CardinalityType, FS_EmptySet
<1> QED
  BY <1>3, <1>4 DEF F, asked, Times

\* The rows that count for a meter, of an arm that ran to its end.
LEMMA RunIntervals ==
  ASSUME NEW source \in Sources, NEW r \in Requests, NEW profile \in Profiles, NEW m \in Meters
  PROVE  LET rows == Intervals(RunSql(source, r, profile), {m})
         IN  /\ Readings(rows)
             /\ rows = Reads(m, Frequencies(Requested(Prototype.meters), m),
                             Resolve(r), r.steps, profile)
<1> DEFINE idf == PrepareArm(source, Resolve(r), r.steps)
           zones == Prepared(Prototype).zones
           sql == Simulated(idf, zones, profile)
           rows == Intervals(sql, {m})
<1>1. InputFile(source) /\ IsFiniteSet(DOMAIN zones)
  BY PrototypeAssumption, PreparedFile DEF Sources
<1>2. Unmetered(source.variables) /\ Requested(source.meters) = Requested(Prototype.meters)
  <2>1. Unmetered(Prototype.variables) /\ InputFile(Prototype)
    BY PrototypeAssumption DEF Unmetered
  <2> QED
    BY <2>1, PreparedRequests DEF Sources
<1>3. /\ InputFile(idf) /\ idf.period = Resolve(r) /\ idf.steps = r.steps
  BY <1>1, ArmFile
<1>4. /\ idf.weather = TRUE /\ idf.meters = Requested(Prototype.meters)
      /\ Unmetered(idf.variables)
  <2>1. /\ idf.weather = TRUE /\ idf.meters = Requested(source.meters)
        /\ Unmetered(idf.variables)
    BY <1>1, <1>2, ArmRequests, Zenon
  <2> QED
    BY <1>2, <2>1, Zenon
<1> HIDE DEF idf, zones
<1>5. /\ Period(idf.period) /\ idf.steps \in 1 .. 60
      /\ Covers(profile, idf.period.days, idf.steps)
  BY <1>3, RequestType
<1>6. Readings(sql.rows)
  BY <1>1, <1>3, <1>5, SimulatedReadings
<1>7. Readings(rows)
  <2>1. rows \subseteq sql.rows
    BY DEF Intervals, Counted
  <2> HIDE DEF rows, sql
  <2> QED
    BY <1>6, <2>1, ReadingsSubset
<1> DEFINE S == Reads(m, Frequencies(idf.meters, m), idf.period, idf.steps, profile)
<1>8. rows = S
  <2>1. {v.variable : v \in idf.variables} \cap Meters = {}
    BY <1>4, Zenon DEF Unmetered
  <2>2. idf.weather = TRUE
    BY <1>4, Zenon
  <2> QED
    BY <2>1, <2>2, IntervalsAre, Zenon
<1>9. S = Reads(m, Frequencies(Requested(Prototype.meters), m), Resolve(r), r.steps, profile)
  BY <1>3, <1>4
<1> HIDE DEF S, rows, sql
<1> QED
  BY <1>7, <1>8, <1>9 DEF RunSql, rows, sql, idf, zones

Highest(profile, days, steps) ==
  Max({profile[FacilityMeter][i] : i \in StepsIn(days, steps)})
  * (PeriodMinutes \div (60 \div steps))

LEMMA KpisAre ==
  ASSUME NEW sql
  PROVE  /\ Kpis(sql).site.kwh = Energy(Intervals(sql, {FacilityMeter}))
         /\ Kpis(sql).site.peak = Peak(Intervals(sql, {FacilityMeter}))
         /\ \A m \in HvacMeters : Kpis(sql).hvac[m] = Energy(Intervals(sql, {m}))
BY DEF Kpis, Aggregate

\* The indicators of an arm that ran to its end.
LEMMA RunKpis ==
  ASSUME NEW source \in Sources, NEW r \in Requests, NEW profile \in Profiles
  PROVE  LET days == Resolve(r).days
             kpis == Kpis(RunSql(source, r, profile))
         IN  /\ kpis.site.kwh
                  = Times(FacilityMeter) * Total(profile, FacilityMeter, days, r.steps)
             /\ kpis.site.peak = Highest(profile, days, r.steps)
             /\ \A m \in HvacMeters :
                  kpis.hvac[m] = Times(m) * Total(profile, m, days, r.steps)
<1> DEFINE period == Resolve(r)
           days == period.days
           steps == r.steps
           sql == RunSql(source, r, profile)
           F(m) == Frequencies(Requested(Prototype.meters), m)
<1>1. /\ days \in Nat \ {0} /\ steps \in 1 .. 60 /\ 60 % steps = 0
      /\ Covers(profile, days, steps) /\ Period(period)
  BY RequestType
<1>2. \A m \in Meters : /\ Readings(Intervals(sql, {m}))
                        /\ Intervals(sql, {m}) = Reads(m, F(m), period, steps, profile)
                        /\ IsFiniteSet(F(m)) /\ Times(m) = Cardinality(F(m))
  BY RunIntervals, TimesType DEF Times
<1>3. "step" \in F(FacilityMeter)
  <2> DEFINE row == [name |-> SiteMeter, every |-> "step"]
  <2>1. row \in Requested(Prototype.meters) /\ row.name = FacilityMeter /\ row.every = "step"
    BY PrototypeAssumption DEF Requested
  <2> HIDE DEF row
  <2> QED
    BY <2>1 DEF Frequencies
<1> HIDE DEF period, steps, sql, F
<1>4. ASSUME NEW m \in Meters
      PROVE  Energy(Intervals(sql, {m})) = Times(m) * Total(profile, m, days, steps)
  <2> DEFINE rows == Intervals(sql, {m})
  <2>1. /\ Readings(rows) /\ rows = Reads(m, F(m), period, steps, profile)
        /\ IsFiniteSet(F(m))
    BY <1>2
  <2> HIDE DEF rows
  <2>2. Energy(rows) = Cardinality(F(m)) * Total(profile, m, days, steps)
    BY <1>1, <2>1, MeterEnergy
  <2> QED
    BY <1>2, <2>2 DEF rows
<1>5. FacilityMeter \in Meters /\ HvacMeters \subseteq Meters
  BY DEF Meters
<1>6. Peak(Intervals(sql, {FacilityMeter})) = Highest(profile, days, steps)
  <2> DEFINE rows == Intervals(sql, {FacilityMeter})
             G == F(FacilityMeter)
  <2>1. Readings(rows) /\ rows = Reads(FacilityMeter, G, period, steps, profile) /\ "step" \in G
    BY <1>2, <1>3, <1>5
  <2> HIDE DEF rows, G
  <2>2. Peak(rows) = Max({profile[FacilityMeter][i] : i \in StepsIn(days, steps)})
                     * (PeriodMinutes \div (60 \div steps))
    BY <1>1, <1>5, <2>1, PeakReal
  <2> QED
    BY <2>2 DEF rows, Highest
<1>7. /\ Kpis(sql).site.kwh = Times(FacilityMeter) * Total(profile, FacilityMeter, days, steps)
      /\ Kpis(sql).site.peak = Highest(profile, days, steps)
  BY <1>4, <1>5, <1>6, KpisAre
<1>8. \A m \in HvacMeters : Kpis(sql).hvac[m] = Times(m) * Total(profile, m, days, steps)
  BY <1>4, <1>5, KpisAre
<1> QED
  BY <1>7, <1>8 DEF sql, days, period, steps

\* What a comparison of two arms states is what their buildings saved.
LEMMA SavingsOf ==
  ASSUME NEW from \in Sources, NEW to \in Sources, NEW r \in Requests,
         NEW before \in Profiles, NEW after \in Profiles, NEW zones
  PROVE  LET days == Resolve(r).days
             delta == Delta(ArmReport(RunSql(from, r, before), zones),
                            ArmReport(RunSql(to, r, after), zones))
         IN  /\ SameRatio(delta.site, Total(before, FacilityMeter, days, r.steps),
                                      Total(after, FacilityMeter, days, r.steps))
             /\ \A m \in HvacMeters :
                  SameRatio(delta.hvac[m], Total(before, m, days, r.steps),
                                           Total(after, m, days, r.steps))
             /\ delta.peak = Highest(before, days, r.steps) - Highest(after, days, r.steps)
<1> DEFINE days == Resolve(r).days
           steps == r.steps
           old == RunSql(from, r, before)
           new == RunSql(to, r, after)
           a == Kpis(old)
           b == Kpis(new)
           delta == Delta(ArmReport(old, zones), ArmReport(new, zones))
<1>1. /\ a.site.kwh = Times(FacilityMeter) * Total(before, FacilityMeter, days, steps)
      /\ a.site.peak = Highest(before, days, steps)
      /\ \A m \in HvacMeters : a.hvac[m] = Times(m) * Total(before, m, days, steps)
  BY RunKpis
<1>2. /\ b.site.kwh = Times(FacilityMeter) * Total(after, FacilityMeter, days, steps)
      /\ b.site.peak = Highest(after, days, steps)
      /\ \A m \in HvacMeters : b.hvac[m] = Times(m) * Total(after, m, days, steps)
  BY RunKpis
<1>3. \A m \in Meters : /\ Total(before, m, days, steps) \in Nat
                        /\ Total(after, m, days, steps) \in Nat
                        /\ Times(m) \in Nat \ {0}
  BY RequestType, TotalType, TimesType
<1>4. FacilityMeter \in Meters /\ HvacMeters \subseteq Meters
  BY DEF Meters
<1> HIDE DEF old, new, days, steps
<1>5. ArmReport(old, zones).kpis = a /\ ArmReport(new, zones).kpis = b
  BY DEF ArmReport
<1> HIDE DEF a, b
<1>6. /\ delta.site = Percent(a.site.kwh, b.site.kwh)
      /\ delta.peak = a.site.peak - b.site.peak
      /\ \A m \in HvacMeters : delta.hvac[m] = Percent(a.hvac[m], b.hvac[m])
  BY <1>5 DEF Delta
<1> HIDE DEF delta
<1>7. SameRatio(delta.site, Total(before, FacilityMeter, days, steps),
                            Total(after, FacilityMeter, days, steps))
  <2> DEFINE n == Times(FacilityMeter)
             x == Total(before, FacilityMeter, days, steps)
             y == Total(after, FacilityMeter, days, steps)
  <2>1. n \in Nat \ {0} /\ x \in Nat /\ y \in Int /\ delta.site = Percent(n * x, n * y)
    BY <1>1, <1>2, <1>3, <1>4, <1>6
  <2> HIDE DEF n, x, y
  <2>2. SameRatio(Percent(n * x, n * y), x, y)
    BY <2>1, SameSaving
  <2> QED
    BY <2>1, <2>2 DEF x, y
<1>8. ASSUME NEW m \in HvacMeters
      PROVE  SameRatio(delta.hvac[m], Total(before, m, days, steps), Total(after, m, days, steps))
  <2> DEFINE n == Times(m)
             x == Total(before, m, days, steps)
             y == Total(after, m, days, steps)
  <2>1. m \in Meters
    BY <1>4
  <2>2. n \in Nat \ {0} /\ x \in Nat /\ y \in Int
    BY <1>3, <2>1
  <2>3. delta.hvac[m] = Percent(n * x, n * y)
    BY <1>1, <1>2, <1>6
  <2> HIDE DEF n, x, y
  <2>4. SameRatio(Percent(n * x, n * y), x, y)
    BY <2>2, SameSaving
  <2> QED
    BY <2>3, <2>4 DEF x, y
<1>9. delta.peak = Highest(before, days, steps) - Highest(after, days, steps)
  BY <1>1, <1>2, <1>6
<1> QED
  BY <1>7, <1>8, <1>9 DEF delta, old, new, days, steps

-----------------------------------------------------------------------------
(* The comparison.                                                         *)

\* A run is of what was asked for, on the model that was prepared, and leaves
\* readings, whether it ended well or not; what was reported of them adds up.
Resolved(r) == [steps |-> r.steps, secondary |-> r.secondary, period |-> Resolve(r)]
RunAsAsked ==
  stage # "idle" => prepared = Prepared(Prototype) /\ \E r \in Requests : request = Resolved(r)
PreparedOnce == prepared \in {NoFile, Prepared(Prototype)}
DirsHoldReadings ==
  /\ DOMAIN dirs = Labels
  /\ \A l \in Labels : dirs[l] # NoFile => Readings(dirs[l].sql.rows)

IInv == RunAsAsked /\ PreparedOnce /\ DirsHoldReadings /\ ReportAddsUp

LEMMA InitInvariant == Init => IInv
BY DEF Init, IInv, RunAsAsked, PreparedOnce, DirsHoldReadings, ReportAddsUp, Reported

LEMMA PrepareStep ==
  ASSUME IInv, Prepare
  PROVE  IInv'
BY DEF IInv, Prepare, RunAsAsked, PreparedOnce, DirsHoldReadings, ReportAddsUp, Reported

LEMMA BeginStep ==
  ASSUME IInv, NEW r \in Requests, BeginRun(r)
  PROVE  IInv'
<1>1. prepared = Prepared(Prototype) /\ request' = Resolved(r) /\ UNCHANGED <<prepared, dirs, report>>
  BY DEF IInv, BeginRun, PreparedOnce, Resolved
<1> QED
  BY <1>1 DEF IInv, RunAsAsked, PreparedOnce, DirsHoldReadings, ReportAddsUp, Reported

LEMMA ArmReadings ==
  ASSUME NEW source \in {Prototype, Prepared(Prototype).idf}, NEW r \in Requests,
         NEW profile \in Profiles
  PROVE  LET sql == Simulated(PrepareArm(source, Resolve(r), r.steps),
                              Prepared(Prototype).zones, profile)
         IN  Readings(sql.rows) /\ Readings(Interrupted(sql).rows)
<1> DEFINE idf == PrepareArm(source, Resolve(r), r.steps)
           zones == Prepared(Prototype).zones
<1>1. InputFile(source) /\ IsFiniteSet(DOMAIN zones)
  BY PrototypeAssumption, PreparedFile
<1>2. InputFile(idf) /\ idf.period = Resolve(r) /\ idf.steps = r.steps
  BY <1>1, ArmFile
<1> HIDE DEF idf, zones
<1>3. /\ Period(idf.period) /\ idf.steps \in 1 .. 60
      /\ Covers(profile, idf.period.days, idf.steps)
  BY <1>2, RequestType
<1>4. Readings(Simulated(idf, zones, profile).rows)
      /\ Readings(Interrupted(Simulated(idf, zones, profile)).rows)
  BY <1>1, <1>2, <1>3, SimulatedReadings
<1> QED
  BY <1>4 DEF idf, zones

LEMMA RunArmStep ==
  ASSUME IInv, NEW label \in Labels, NEW profile \in Profiles,
         NEW outcome \in {"clean", "severe", "fatal"}, RunArm(label, profile, outcome)
  PROVE  IInv'
<1> DEFINE sql == Simulated(PrepareArm(Source(label), request.period, request.steps),
                            prepared.zones, profile)
           left == IF outcome = "fatal" THEN Interrupted(sql) ELSE sql
           dir == [sql |-> left, outcome |-> outcome, profile |-> profile]
<1>1. /\ stage = label /\ dirs' = [dirs EXCEPT ![label] = dir]
      /\ UNCHANGED <<prepared, request, report>>
  BY DEF RunArm
<1>2. stage # "idle"
  BY <1>1 DEF Labels
<1>3. PICK r \in Requests : request = Resolved(r)
  BY <1>2 DEF IInv, RunAsAsked
<1>4. prepared = Prepared(Prototype) /\ request.period = Resolve(r) /\ request.steps = r.steps
  BY <1>2, <1>3 DEF IInv, RunAsAsked, Resolved
<1>5. Source(label) \in {Prototype, Prepared(Prototype).idf}
  BY <1>4 DEF Source
<1>6. Readings(sql.rows) /\ Readings(Interrupted(sql).rows)
  BY <1>4, <1>5, ArmReadings
<1> HIDE DEF sql
<1>7. Readings(left.rows)
  BY <1>6
<1> HIDE DEF left
<1>8. Readings(dir.sql.rows)
  BY <1>7
<1> HIDE DEF dir
<1>9. DirsHoldReadings'
  BY <1>1, <1>8 DEF IInv, DirsHoldReadings
<1>10. RunAsAsked' /\ PreparedOnce'
  BY <1>1, <1>3, <1>4 DEF RunAsAsked, PreparedOnce
<1>11. ReportAddsUp'
  BY <1>1 DEF IInv, ReportAddsUp, Reported
<1> QED
  BY <1>9, <1>10, <1>11 DEF IInv

LEMMA RaiseStep ==
  ASSUME IInv, NEW profile \in Profiles, RunBaselineThenRaise(profile)
  PROVE  IInv'
<1> DEFINE sql == Simulated(PrepareArm(Prototype, request.period, request.steps),
                            prepared.zones, profile)
           dir == [sql |-> sql, outcome |-> "clean", profile |-> profile]
<1>1. /\ stage = "baseline" /\ dirs' = [dirs EXCEPT !["baseline"] = dir]
      /\ UNCHANGED <<prepared, request, report>>
  BY DEF RunBaselineThenRaise
<1>2. PICK r \in Requests : request = Resolved(r)
  BY <1>1 DEF IInv, RunAsAsked
<1>3. prepared = Prepared(Prototype) /\ request.period = Resolve(r) /\ request.steps = r.steps
  BY <1>1, <1>2 DEF IInv, RunAsAsked, Resolved
<1>4. Readings(sql.rows)
  BY <1>3, ArmReadings
<1> HIDE DEF sql
<1>5. Readings(dir.sql.rows)
  BY <1>4
<1> HIDE DEF dir
<1>6. DirsHoldReadings'
  BY <1>1, <1>5 DEF IInv, DirsHoldReadings
<1>7. RunAsAsked' /\ PreparedOnce'
  BY <1>1, <1>2, <1>3 DEF RunAsAsked, PreparedOnce
<1>8. ReportAddsUp'
  BY <1>1 DEF IInv, ReportAddsUp, Reported
<1> QED
  BY <1>6, <1>7, <1>8 DEF IInv

LEMMA ManifestStep ==
  ASSUME IInv, WriteManifest
  PROVE  IInv'
BY DEF IInv, WriteManifest, RunAsAsked, PreparedOnce, DirsHoldReadings, ReportAddsUp,
       Reported

LEMMA ReportStep ==
  ASSUME IInv, BuildReport
  PROVE  IInv'
<1> DEFINE labels == {l \in Labels : dirs[l] # NoFile}
           arms == [l \in labels |-> ArmReport(dirs[l].sql, prepared.zones)]
<1>1. /\ \E deltas : report' = [arms |-> arms, deltas |-> deltas]
      /\ UNCHANGED <<prepared, stage, request, dirs>>
  BY DEF BuildReport
<1>2. \A l \in labels : AddsUp(ArmReport(dirs[l].sql, prepared.zones))
  BY TablesAddUp DEF IInv, DirsHoldReadings
<1>3. \A l \in labels : AddsUp(arms[l])
  BY <1>2
<1>4. Reported' \subseteq labels /\ report'.arms = arms
  BY <1>1 DEF Reported
<1> HIDE DEF arms, labels
<1>5. ReportAddsUp'
  BY <1>3, <1>4 DEF ReportAddsUp
<1>6. RunAsAsked' /\ PreparedOnce' /\ DirsHoldReadings'
  BY <1>1 DEF IInv, RunAsAsked, PreparedOnce, DirsHoldReadings
<1> QED
  BY <1>5, <1>6 DEF IInv

\* A step leaves the inductive invariant as it was, whichever arms fail.
LEMMA StepInvariant == IInv /\ [Next]_vars => IInv'
<1> SUFFICES ASSUME IInv, [Next]_vars PROVE IInv'
  OBVIOUS
<1>1. CASE Prepare
  BY <1>1, PrepareStep
<1>2. CASE \E r \in Requests : BeginRun(r)
  BY <1>2, BeginStep
<1>3. CASE \E label \in Labels, profile \in Profiles, outcome \in {"clean", "severe", "fatal"} :
             RunArm(label, profile, outcome)
  BY <1>3, RunArmStep
<1>4. CASE \E profile \in Profiles : RunBaselineThenRaise(profile)
  BY <1>4, RaiseStep
<1>5. CASE WriteManifest
  BY <1>5, ManifestStep
<1>6. CASE BuildReport
  BY <1>6, ReportStep
<1>7. CASE UNCHANGED vars
  BY <1>7 DEF vars, IInv, RunAsAsked, PreparedOnce, DirsHoldReadings, ReportAddsUp, Reported
<1> QED
  BY <1>1, <1>2, <1>3, <1>4, <1>5, <1>6, <1>7 DEF Next

\* What every arm left in its directory, also one that failed, is readings of a
\* file that was prepared as asked (ab.py's run_ab and prepare_arm_idf).
THEOREM RunsLeaveReadings == Spec => [](RunAsAsked /\ DirsHoldReadings)
<1>1. IInv => RunAsAsked /\ DirsHoldReadings
  BY DEF IInv
<1> QED
  BY <1>1, InitInvariant, StepInvariant, PTL DEF Spec

\* The daily rows of every report, and its running total, add up to its headline,
\* for any building, period, frequencies, prices and carbon intensities, whichever
\* arms failed (report.py's build_arm_report on kpis.py's aggregate_site).
THEOREM ReportsAddUp == Spec => []ReportAddsUp
<1>1. IInv => ReportAddsUp
  BY DEF IInv
<1> QED
  BY <1>1, InitInvariant, StepInvariant, PTL DEF Spec

\* What an arm left that ran to its end is the run of what was asked for, in the
\* building it ran in, and what was reported is of those directories.
ArmsAreRuns ==
  \A l \in Labels : dirs[l] # NoFile =>
    /\ stage # "idle" /\ dirs[l].profile \in Profiles
    /\ dirs[l].outcome # "fatal" =>
         dirs[l].sql = Simulated(PrepareArm(Source(l), request.period, request.steps),
                                 prepared.zones, dirs[l].profile)
FailureRaised ==
  \A l \in Labels : dirs[l] # NoFile /\ dirs[l].outcome = "fatal" => stage = "raised"
ManifestLast == manifest # {} => stage = "done"
Left == {l \in Labels : dirs[l] # NoFile}
ReportOfDirs ==
  report # NoFile =>
    /\ stage \in {"done", "raised"}
    /\ report.arms = [l \in Left |-> ArmReport(dirs[l].sql, prepared.zones)]
    /\ report.deltas = [c \in Comparisons(Left) |->
                          Delta(ArmReport(dirs[c[1]].sql, prepared.zones),
                                ArmReport(dirs[c[2]].sql, prepared.zones))]

RunsInv == ArmsAreRuns /\ FailureRaised /\ ManifestLast /\ ReportOfDirs

LEMMA InitRuns == Init => RunsInv
BY DEF Init, RunsInv, ArmsAreRuns, FailureRaised, ManifestLast, ReportOfDirs

LEMMA PrepareRuns ==
  ASSUME IInv, RunsInv, Prepare
  PROVE  RunsInv'
<1>1. /\ stage \in {"idle", "done", "raised"} /\ prepared' = Prepared(Prototype)
      /\ UNCHANGED <<stage, request, dirs, manifest, report>>
  BY DEF Prepare
<1>2. stage # "idle" => prepared' = prepared
  BY <1>1 DEF IInv, RunAsAsked
<1>3. ArmsAreRuns'
  BY <1>1, <1>2 DEF RunsInv, ArmsAreRuns, Source
<1>4. FailureRaised' /\ ManifestLast'
  BY <1>1 DEF RunsInv, FailureRaised, ManifestLast
<1>5. ReportOfDirs'
  BY <1>1, <1>2 DEF RunsInv, ReportOfDirs, Left
<1> QED
  BY <1>3, <1>4, <1>5 DEF RunsInv

LEMMA BeginRuns ==
  ASSUME RunsInv, NEW r \in Requests, BeginRun(r)
  PROVE  RunsInv'
<1>1. /\ stage = "idle" /\ stage' = "baseline"
      /\ UNCHANGED <<prepared, dirs, manifest, report>>
  BY DEF BeginRun
<1>2. (\A l \in Labels : dirs[l] = NoFile) /\ manifest = {} /\ report = NoFile
  BY <1>1 DEF RunsInv, ArmsAreRuns, ManifestLast, ReportOfDirs
<1> QED
  BY <1>1, <1>2 DEF RunsInv, ArmsAreRuns, FailureRaised, ManifestLast, ReportOfDirs

LEMMA ArmRuns ==
  ASSUME IInv, RunsInv, NEW label \in Labels, NEW profile \in Profiles,
         NEW outcome \in {"clean", "severe", "fatal"}, RunArm(label, profile, outcome)
  PROVE  RunsInv'
<1> DEFINE sql == Simulated(PrepareArm(Source(label), request.period, request.steps),
                            prepared.zones, profile)
           left == IF outcome = "fatal" THEN Interrupted(sql) ELSE sql
           dir == [sql |-> left, outcome |-> outcome, profile |-> profile]
<1>1. /\ stage = label /\ dirs' = [dirs EXCEPT ![label] = dir]
      /\ stage' = IF outcome = "fatal" THEN "raised" ELSE AfterArm(label)
      /\ UNCHANGED <<prepared, request, manifest, report>>
  BY DEF RunArm
<1>2. label \in {"baseline", "constant", "agent"} /\ stage' \in {"raised", "constant", "agent", "manifest"}
  BY <1>1 DEF Labels, AfterArm
<1>3. manifest = {} /\ report = NoFile
  BY <1>1, <1>2 DEF RunsInv, ManifestLast, ReportOfDirs
<1>4. DOMAIN dirs = Labels
  BY DEF IInv, DirsHoldReadings
<1>5. dir.outcome = outcome /\ dir.profile = profile /\ (outcome # "fatal" => dir.sql = sql)
  OBVIOUS
<1> HIDE DEF dir
<1>6. \A l \in Labels : dirs'[l] = IF l = label THEN dir ELSE dirs[l]
  BY <1>1, <1>4
<1>7. \A l \in Labels : l # label /\ dirs[l] # NoFile => dirs[l].outcome # "fatal"
  BY <1>1, <1>2 DEF RunsInv, FailureRaised
<1>8. FailureRaised'
  BY <1>1, <1>5, <1>6, <1>7 DEF FailureRaised
<1>9. ArmsAreRuns'
  <2>1. \A l \in Labels : Source(l)' = Source(l)
    BY <1>1 DEF Source
  <2> SUFFICES ASSUME NEW l \in Labels, dirs'[l] # NoFile
               PROVE  /\ stage' # "idle" /\ dirs'[l].profile \in Profiles
                      /\ dirs'[l].outcome # "fatal" =>
                           dirs'[l].sql = Simulated(PrepareArm(Source(l), request.period, request.steps),
                                                    prepared.zones, dirs'[l].profile)
    BY <1>1, <2>1 DEF ArmsAreRuns
  <2>2. CASE l = label
    BY <1>2, <1>5, <1>6, <2>2
  <2>3. CASE l # label
    BY <1>2, <1>6, <2>3 DEF RunsInv, ArmsAreRuns
  <2> QED
    BY <2>2, <2>3
<1>10. ManifestLast' /\ ReportOfDirs'
  BY <1>1, <1>3 DEF ManifestLast, ReportOfDirs
<1> QED
  BY <1>8, <1>9, <1>10 DEF RunsInv

LEMMA RaiseRuns ==
  ASSUME IInv, RunsInv, NEW profile \in Profiles, RunBaselineThenRaise(profile)
  PROVE  RunsInv'
<1> DEFINE sql == Simulated(PrepareArm(Prototype, request.period, request.steps),
                            prepared.zones, profile)
           dir == [sql |-> sql, outcome |-> "clean", profile |-> profile]
<1>1. /\ stage = "baseline" /\ stage' = "raised" /\ dirs' = [dirs EXCEPT !["baseline"] = dir]
      /\ UNCHANGED <<prepared, request, manifest, report>>
  BY DEF RunBaselineThenRaise
<1>2. manifest = {} /\ report = NoFile
  BY <1>1 DEF RunsInv, ManifestLast, ReportOfDirs
<1>3. DOMAIN dirs = Labels /\ "baseline" \in Labels
  BY DEF IInv, DirsHoldReadings, Labels
<1>4. dir.outcome = "clean" /\ dir.profile = profile /\ dir.sql = sql
  OBVIOUS
<1> HIDE DEF dir
<1>5. \A l \in Labels : dirs'[l] = IF l = "baseline" THEN dir ELSE dirs[l]
  BY <1>1, <1>3
<1>6. FailureRaised'
  BY <1>1 DEF FailureRaised
<1>7. ArmsAreRuns'
  <2>1. \A l \in Labels : Source(l)' = Source(l)
    BY <1>1 DEF Source
  <2>2. Source("baseline") = Prototype
    BY DEF Source
  <2> SUFFICES ASSUME NEW l \in Labels, dirs'[l] # NoFile
               PROVE  /\ stage' # "idle" /\ dirs'[l].profile \in Profiles
                      /\ dirs'[l].outcome # "fatal" =>
                           dirs'[l].sql = Simulated(PrepareArm(Source(l), request.period, request.steps),
                                                    prepared.zones, dirs'[l].profile)
    BY <1>1, <2>1 DEF ArmsAreRuns
  <2>3. CASE l = "baseline"
    BY <1>1, <1>4, <1>5, <2>2, <2>3
  <2>4. CASE l # "baseline"
    BY <1>1, <1>5, <2>4 DEF RunsInv, ArmsAreRuns
  <2> QED
    BY <2>3, <2>4
<1>8. ManifestLast' /\ ReportOfDirs'
  BY <1>1, <1>2 DEF ManifestLast, ReportOfDirs
<1> QED
  BY <1>6, <1>7, <1>8 DEF RunsInv

LEMMA ManifestRuns ==
  ASSUME RunsInv, WriteManifest
  PROVE  RunsInv'
<1>1. /\ stage = "manifest" /\ stage' = "done"
      /\ UNCHANGED <<prepared, request, dirs, report>>
  BY DEF WriteManifest
<1>2. ArmsAreRuns'
  BY <1>1 DEF RunsInv, ArmsAreRuns, Source
<1>3. FailureRaised' /\ ManifestLast' /\ ReportOfDirs'
  BY <1>1 DEF RunsInv, FailureRaised, ManifestLast, ReportOfDirs
<1> QED
  BY <1>2, <1>3 DEF RunsInv

LEMMA ReportRuns ==
  ASSUME RunsInv, BuildReport
  PROVE  RunsInv'
<1> DEFINE arms == [l \in Left |-> ArmReport(dirs[l].sql, prepared.zones)]
           deltas == [c \in Comparisons(Left) |-> Delta(arms[c[1]], arms[c[2]])]
<1>1. /\ stage \in {"done", "raised"} /\ report' = [arms |-> arms, deltas |-> deltas]
      /\ UNCHANGED <<prepared, stage, request, dirs, manifest>>
  BY DEF BuildReport, Left
<1>2. \A c \in Comparisons(Left) : c[1] \in Left /\ c[2] \in Left
  BY DEF Comparisons
<1>3. deltas = [c \in Comparisons(Left) |->
                  Delta(ArmReport(dirs[c[1]].sql, prepared.zones),
                        ArmReport(dirs[c[2]].sql, prepared.zones))]
  <2>1. \A l \in Left : arms[l] = ArmReport(dirs[l].sql, prepared.zones)
    OBVIOUS
  <2> HIDE DEF arms
  <2> QED
    BY <1>2, <2>1
<1>4. report'.deltas = deltas /\ report'.arms = arms
  BY <1>1
<1> HIDE DEF deltas
<1>5. Left' = Left
  BY <1>1 DEF Left
<1>6. ReportOfDirs'
  BY <1>1, <1>3, <1>4, <1>5 DEF ReportOfDirs
<1>7. ArmsAreRuns'
  BY <1>1 DEF RunsInv, ArmsAreRuns, Source
<1>8. FailureRaised' /\ ManifestLast'
  BY <1>1 DEF RunsInv, FailureRaised, ManifestLast
<1> QED
  BY <1>6, <1>7, <1>8 DEF RunsInv

LEMMA StepRuns == IInv /\ RunsInv /\ [Next]_vars => RunsInv'
<1> SUFFICES ASSUME IInv, RunsInv, [Next]_vars PROVE RunsInv'
  OBVIOUS
<1>1. CASE Prepare
  BY <1>1, PrepareRuns
<1>2. CASE \E r \in Requests : BeginRun(r)
  BY <1>2, BeginRuns
<1>3. CASE \E label \in Labels, profile \in Profiles, outcome \in {"clean", "severe", "fatal"} :
             RunArm(label, profile, outcome)
  BY <1>3, ArmRuns
<1>4. CASE \E profile \in Profiles : RunBaselineThenRaise(profile)
  BY <1>4, RaiseRuns
<1>5. CASE WriteManifest
  BY <1>5, ManifestRuns
<1>6. CASE BuildReport
  BY <1>6, ReportRuns
<1>7. CASE UNCHANGED vars
  BY <1>7 DEF vars, RunsInv, ArmsAreRuns, FailureRaised, ManifestLast, ReportOfDirs, Left, Source
<1> QED
  BY <1>1, <1>2, <1>3, <1>4, <1>5, <1>6, <1>7 DEF Next

\* A finished comparison states what the buildings saved.
LEMMA RunsSave == IInv /\ RunsInv => SavingsAreReal
<1> SUFFICES ASSUME IInv, RunsInv, report # NoFile, manifest # {},
                    NEW c \in DOMAIN report.deltas
             PROVE  LET d == report.deltas[c]
                    IN  /\ SameRatio(d.site, TrueEnergy(c[1], FacilityMeter),
                                             TrueEnergy(c[2], FacilityMeter))
                        /\ \A m \in HvacMeters :
                             SameRatio(d.hvac[m], TrueEnergy(c[1], m), TrueEnergy(c[2], m))
                        /\ d.peak = TruePeak(c[1]) - TruePeak(c[2])
  BY DEF SavingsAreReal
<1>1. stage = "done"
  BY DEF RunsInv, ManifestLast
<1>2. PICK r \in Requests : request = Resolved(r)
  BY <1>1 DEF IInv, RunAsAsked
<1>3. prepared = Prepared(Prototype) /\ request.period = Resolve(r) /\ request.steps = r.steps
  BY <1>1, <1>2 DEF IInv, RunAsAsked, Resolved
<1> DEFINE zones == Prepared(Prototype).zones
           profile(l) == dirs[l].profile
<1>4. /\ c \in Comparisons(Left)
      /\ report.deltas[c] = Delta(ArmReport(dirs[c[1]].sql, zones), ArmReport(dirs[c[2]].sql, zones))
  BY <1>3 DEF RunsInv, ReportOfDirs
<1>5. c[1] \in Left /\ c[2] \in Left
  BY <1>4 DEF Comparisons
<1>6. ASSUME NEW l \in Left
      PROVE  /\ profile(l) \in Profiles /\ Source(l) \in Sources
             /\ dirs[l].sql = RunSql(Source(l), r, profile(l))
  <2>1. l \in Labels /\ dirs[l] # NoFile
    BY <1>6 DEF Left
  <2>2. dirs[l].outcome # "fatal"
    BY <1>1, <2>1 DEF RunsInv, FailureRaised
  <2>3. /\ dirs[l].profile \in Profiles
        /\ dirs[l].sql = Simulated(PrepareArm(Source(l), request.period, request.steps),
                                   prepared.zones, dirs[l].profile)
    BY <2>1, <2>2 DEF RunsInv, ArmsAreRuns
  <2>4. Source(l) \in Sources
    BY <1>3 DEF Source, Sources
  <2> QED
    BY <1>3, <2>3, <2>4 DEF RunSql
<1>7. PeriodSteps = StepsIn(Resolve(r).days, r.steps)
  BY <1>3 DEF PeriodSteps, StepsIn
<1>8. \A l, m : TrueEnergy(l, m) = Total(profile(l), m, Resolve(r).days, r.steps)
  BY <1>7 DEF TrueEnergy, Total
<1>9. \A l : TruePeak(l) = Highest(profile(l), Resolve(r).days, r.steps)
  BY <1>3, <1>7 DEF TruePeak, Highest
<1> HIDE DEF zones, profile
<1> DEFINE from == c[1]
           to == c[2]
           d == report.deltas[c]
<1>10. /\ from \in Left /\ to \in Left
       /\ d = Delta(ArmReport(RunSql(Source(from), r, profile(from)), zones),
                    ArmReport(RunSql(Source(to), r, profile(to)), zones))
       /\ Source(from) \in Sources /\ Source(to) \in Sources
       /\ profile(from) \in Profiles /\ profile(to) \in Profiles
  BY <1>4, <1>5, <1>6
<1> HIDE DEF from, to, d
<1>11. /\ SameRatio(d.site, TrueEnergy(from, FacilityMeter), TrueEnergy(to, FacilityMeter))
       /\ \A m \in HvacMeters :
            SameRatio(d.hvac[m], TrueEnergy(from, m), TrueEnergy(to, m))
       /\ d.peak = TruePeak(from) - TruePeak(to)
  BY <1>8, <1>9, <1>10, SavingsOf
<1> QED
  BY <1>11 DEF from, to, d

\* What every arm left that ran to its end is the run of what was asked for, and an
\* arm that failed ends the comparison: there is then no manifest (ab.py's run_ab).
THEOREM FinishedArmsAreRuns == Spec => [](ArmsAreRuns /\ FailureRaised /\ ManifestLast)
<1>1. RunsInv => ArmsAreRuns /\ FailureRaised /\ ManifestLast
  BY DEF RunsInv
<1> QED
  BY <1>1, InitInvariant, StepInvariant, InitRuns, StepRuns, PTL DEF Spec

\* The savings a finished comparison states, per meter in percent and at peak, are
\* those the buildings made, for any buildings, prototype and frequencies: every arm
\* is metered equally often (ab.py's prepare_arm_idf, kpis.py's compute_delta).
THEOREM SavingsReal == Spec => []SavingsAreReal
<1> QED
  BY RunsSave, InitInvariant, StepInvariant, InitRuns, StepRuns, PTL DEF Spec

-----------------------------------------------------------------------------
(* What the comfort table is made of.                                      *)

\* What names the zones and the People objects of a file.
SameZones(file, idf) ==
  /\ file.zoneLists = idf.zoneLists /\ file.controls = idf.controls
  /\ file.thermostats = idf.thermostats
  /\ DOMAIN file.people = DOMAIN idf.people
  /\ \A i \in DOMAIN idf.people : /\ file.people[i].reference = idf.people[i].reference
                                  /\ file.people[i].name = idf.people[i].name

LEMMA SameSchedules ==
  ASSUME NEW idf, NEW file, SameZones(file, idf)
  PROVE  ThermostatSchedules(file) = ThermostatSchedules(idf)
<1>1. /\ file.zoneLists = idf.zoneLists /\ file.controls = idf.controls
      /\ file.thermostats = idf.thermostats
  BY DEF SameZones
<1>2. \A x : Expand(file, x) = Expand(idf, x)
  BY <1>1 DEF Expand
<1> QED
  BY <1>1, <1>2 DEF ThermostatSchedules

LEMMA SamePeople ==
  ASSUME NEW idf, InputFile(idf), NEW file, SameZones(file, idf)
  PROVE  ZonePeople(file) = ZonePeople(idf)
<1> DEFINE I == DOMAIN idf.people
           of(f, z) == {i \in I : z \in Expand(f, f.people[i].reference)}
           zones(f) == UNION {Expand(f, f.people[i].reference) : i \in I}
<1>1. \A x : Expand(file, x) = Expand(idf, x)
  BY DEF Expand, SameZones
<1>2. \A i \in I : /\ file.people[i].reference = idf.people[i].reference
                   /\ file.people[i].name = idf.people[i].name
  BY DEF SameZones
<1>3. ZonePeople(idf) = [z \in zones(idf) |-> idf.people[Min(of(idf, z))].name]
  BY DEF ZonePeople
<1>4. ZonePeople(file) = [z \in zones(file) |-> file.people[Min(of(file, z))].name]
  BY DEF ZonePeople, SameZones
<1>5. \A z : of(file, z) = of(idf, z)
  BY <1>1, <1>2
<1>6. zones(file) = zones(idf)
  BY <1>1, <1>2
<1>7. ASSUME NEW z \in zones(idf) PROVE Min(of(idf, z)) \in I
  <2> DEFINE S == of(idf, z)
  <2>1. S \subseteq I /\ I \subseteq Nat
    BY DEF InputFile
  <2>2. S # {}
    OBVIOUS
  <2> HIDE DEF S, I
  <2>3. \E x \in S : \A y \in S : x <= y
    BY <2>1, <2>2, LeastExists
  <2>4. Min(S) \in S
    BY <2>3 DEF Min
  <2> QED
    BY <2>1, <2>4 DEF S
<1>8. \A z \in zones(idf) : file.people[Min(of(file, z))].name = idf.people[Min(of(idf, z))].name
  <2> HIDE DEF of, zones
  <2> QED
    BY <1>2, <1>5, <1>7
<1> HIDE DEF of, zones
<1> QED
  BY <1>3, <1>4, <1>6, <1>8

LEMMA PatchedSame ==
  ASSUME NEW idf, InputFile(idf), NEW spec, NEW steps
  PROVE  SameZones(PatchIdf(idf, spec, steps), idf)
<1> DEFINE patched == [idf EXCEPT !.weather = TRUE, !.period = spec, !.steps = steps,
                                  !.sqlite = TRUE]
<1>1. /\ patched.zoneLists = idf.zoneLists /\ patched.controls = idf.controls
      /\ patched.thermostats = idf.thermostats /\ patched.people = idf.people
      /\ InputFile(patched)
  BY DEF InputFile
<1> HIDE DEF patched
<1>2. PICK added : PatchIdf(idf, spec, steps) = [patched EXCEPT !.meters = added]
  BY DEF PatchIdf, EnsureMeters, patched
<1> DEFINE file == [patched EXCEPT !.meters = added]
<1>3. /\ file.zoneLists = idf.zoneLists /\ file.controls = idf.controls
      /\ file.thermostats = idf.thermostats /\ file.people = idf.people
  BY <1>1 DEF InputFile
<1> HIDE DEF file
<1>4. SameZones(file, idf)
  BY <1>3 DEF SameZones
<1> QED
  BY <1>2, <1>4 DEF file

LEMMA FangerSame ==
  ASSUME NEW idf, InputFile(idf)
  PROVE  SameZones(FangerComfort(idf), idf)
<1> DEFINE people == [i \in DOMAIN idf.people |-> [idf.people[i] EXCEPT !.fanger = TRUE]]
           file == [idf EXCEPT !.people = people]
<1>1. FangerComfort(idf) = file
  BY DEF FangerComfort
<1>2. /\ DOMAIN people = DOMAIN idf.people
      /\ \A i \in DOMAIN idf.people : /\ people[i].reference = idf.people[i].reference
                                      /\ people[i].name = idf.people[i].name
  OBVIOUS
<1> HIDE DEF people
<1>3. /\ file.zoneLists = idf.zoneLists /\ file.controls = idf.controls
      /\ file.thermostats = idf.thermostats /\ file.people = people
  BY DEF InputFile
<1> HIDE DEF file
<1>4. SameZones(file, idf)
  BY <1>2, <1>3 DEF SameZones
<1> QED
  BY <1>1, <1>4

LEMMA SameTrans ==
  ASSUME NEW a, NEW b, NEW c, SameZones(b, a), SameZones(c, b)
  PROVE  SameZones(c, a)
BY DEF SameZones

LEMMA PreparedSame ==
  ASSUME NEW idf, InputFile(idf)
  PROVE  SameZones(Prepared(idf).idf, idf)
<1> DEFINE zoneMap == ThermostatSchedules(idf)
           zones == DOMAIN zoneMap
           named == {ZonePeople(idf)[z] : z \in DOMAIN ZonePeople(idf)}
           constant == ConvertSchedules(idf, zoneMap)
           fanger == FangerComfort(constant)
           file == EnsureOutputs(fanger, zones, named)
<1>1. Prepared(idf).idf = file
  BY DEF Prepared
<1>2. InputFile(constant)
  <2> HIDE DEF zoneMap
  <2> QED
    BY ConvertedFile
<1>3. SameZones(constant, idf)
  <2>1. PICK schedules : constant = [idf EXCEPT !.schedules = schedules]
    BY DEF ConvertSchedules
  <2> HIDE DEF constant
  <2>2. /\ constant.zoneLists = idf.zoneLists /\ constant.controls = idf.controls
        /\ constant.thermostats = idf.thermostats /\ constant.people = idf.people
    BY <2>1 DEF InputFile
  <2> QED
    BY <2>2 DEF SameZones
<1> HIDE DEF constant
<1>4. SameZones(fanger, constant) /\ InputFile(fanger)
  BY <1>2, FangerSame, ComfortFile
<1>5. SameZones(file, fanger)
  <2>1. PICK variables, meters :
          file = [fanger EXCEPT !.variables = variables, !.meters = meters, !.sqlite = TRUE]
    BY DEF EnsureOutputs
  <2> HIDE DEF file, fanger
  <2>2. /\ file.zoneLists = fanger.zoneLists /\ file.controls = fanger.controls
        /\ file.thermostats = fanger.thermostats /\ file.people = fanger.people
    BY <1>4, <2>1 DEF InputFile
  <2> QED
    BY <2>2 DEF SameZones
<1> HIDE DEF file, fanger
<1>6. SameZones(fanger, idf)
  BY <1>3, <1>4, SameTrans
<1>7. SameZones(file, idf)
  BY <1>5, <1>6, SameTrans
<1> QED
  BY <1>1, <1>7

\* The zones and the People objects of the prototype.
PrototypeZones == DOMAIN ThermostatSchedules(Prototype)
PrototypePeople == {ZonePeople(Prototype)[z] : z \in DOMAIN ZonePeople(Prototype)}

EveryStep(key, variable) == [key |-> key, variable |-> variable, every |-> "step"]

\* The zone and People variables asked for at every timestep, under their keys.
Keyed == {EveryStep(w[1], w[2]) : w \in (PrototypeZones \X ZoneVariables)
                                        \cup (PrototypePeople \X PeopleVariables)}

\* What EnsureOutputs adds to a file that asks for the prototype's variables, or
\* for those and the keyed ones.
LEMMA VariablesAdded ==
  ASSUME NEW idf, InputFile(idf), ComfortMetered,
         idf.variables = Prototype.variables \/ idf.variables = Prototype.variables \cup Keyed
  PROVE  EnsureOutputs(idf, PrototypeZones, PrototypePeople).variables
           = Prototype.variables \cup Keyed
<1> DEFINE wanted == (PrototypeZones \X ZoneVariables) \cup (PrototypePeople \X PeopleVariables)
           asked == {<<v.key, v.variable>> : v \in idf.variables}
           added == {EveryStep(w[1], w[2]) : w \in wanted \ asked}
           file == EnsureOutputs(idf, PrototypeZones, PrototypePeople)
<1>1. file.variables = idf.variables \cup added
  <2>1. PICK meters : file = [idf EXCEPT !.variables = idf.variables \cup added,
                                         !.meters = meters, !.sqlite = TRUE]
    BY DEF EnsureOutputs, EveryStep
  <2> HIDE DEF file, added
  <2> QED
    BY <2>1 DEF InputFile
<1>2. \A w \in wanted : w = <<w[1], w[2]>> /\ w[1] # "*"
  BY DEF ComfortMetered, PrototypeZones, PrototypePeople
<1>3. Keyed = {EveryStep(w[1], w[2]) : w \in wanted}
  BY DEF Keyed
<1>4. \A v \in Prototype.variables : v.key = "*"
  BY PrototypeAssumption
<1> HIDE DEF wanted, file
<1>5. CASE idf.variables = Prototype.variables
  <2>1. wanted \ asked = wanted
    BY <1>2, <1>4, <1>5
  <2> QED
    BY <1>1, <1>3, <1>5, <2>1 DEF file
<1>6. CASE idf.variables = Prototype.variables \cup Keyed
  <2>1. added \subseteq Keyed
    BY <1>3
  <2> HIDE DEF added
  <2> QED
    BY <1>1, <1>6, <2>1 DEF file
<1> QED
  BY <1>5, <1>6

\* An arm asks for the prototype's variables and the keyed ones.
LEMMA ArmVariables ==
  ASSUME NEW source \in Sources, ComfortMetered, NEW spec, NEW steps
  PROVE  PrepareArm(source, spec, steps).variables = Prototype.variables \cup Keyed
<1> DEFINE patched == PatchIdf(source, spec, steps)
           fanger == FangerComfort(patched)
           zones == DOMAIN ThermostatSchedules(patched)
           named == {ZonePeople(patched)[z] : z \in DOMAIN ZonePeople(patched)}
           constant == ConvertSchedules(Prototype, ThermostatSchedules(Prototype))
           prepared0 == FangerComfort(constant)
<1>1. InputFile(Prototype) /\ InputFile(source)
  BY PrototypeAssumption, PreparedFile DEF Sources
<1>2. SameZones(source, Prototype)
  <2>1. SameZones(Prototype, Prototype)
    BY DEF SameZones
  <2> QED
    BY <1>1, <2>1, PreparedSame DEF Sources
<1>3. source.variables = Prototype.variables \/ source.variables = Prototype.variables \cup Keyed
  <2>1. constant.variables = Prototype.variables /\ InputFile(constant)
    <3>1. PICK schedules : constant = [Prototype EXCEPT !.schedules = schedules]
      BY DEF ConvertSchedules
    <3> HIDE DEF constant
    <3> QED
      BY <1>1, <3>1 DEF InputFile
  <2> HIDE DEF constant
  <2>2. prepared0.variables = Prototype.variables /\ InputFile(prepared0)
    <3>1. InputFile(prepared0)
      BY <2>1, ComfortFile
    <3>2. prepared0.variables = constant.variables
      BY <2>1 DEF FangerComfort, InputFile
    <3> QED
      BY <2>1, <3>1, <3>2
  <2>3. Prepared(Prototype).idf = EnsureOutputs(prepared0, PrototypeZones, PrototypePeople)
    BY DEF Prepared, constant, PrototypeZones, PrototypePeople
  <2> HIDE DEF prepared0
  <2>4. Prepared(Prototype).idf.variables = Prototype.variables \cup Keyed
    BY <2>2, <2>3, VariablesAdded
  <2> QED
    BY <2>4 DEF Sources
<1>4. InputFile(patched) /\ patched.variables = source.variables /\ SameZones(patched, source)
  BY <1>1, PatchedFile, PatchedRequests, PatchedSame
<1>5. PrepareArm(source, spec, steps) = EnsureOutputs(fanger, zones, named)
  BY DEF PrepareArm
<1> HIDE DEF patched
<1>6. zones = PrototypeZones /\ named = PrototypePeople
  <2>1. SameZones(patched, Prototype)
    BY <1>2, <1>4, SameTrans
  <2>2. /\ ThermostatSchedules(patched) = ThermostatSchedules(Prototype)
        /\ ZonePeople(patched) = ZonePeople(Prototype)
    BY <1>1, <2>1, SameSchedules, SamePeople
  <2> QED
    BY <2>2 DEF PrototypeZones, PrototypePeople
<1>7. InputFile(fanger) /\ fanger.variables = source.variables
  <2>1. InputFile(fanger)
    BY <1>4, ComfortFile
  <2>2. fanger.variables = patched.variables
    BY <1>4 DEF FangerComfort, InputFile
  <2> QED
    BY <1>4, <2>1, <2>2
<1> HIDE DEF zones, named, fanger
<1> QED
  BY <1>3, <1>5, <1>6, <1>7, VariablesAdded

\* The zones of the model that was prepared.
LEMMA PreparedZones ==
  LET zones == Prepared(Prototype).zones
  IN  /\ DOMAIN zones = PrototypeZones
      /\ \A z \in PrototypeZones :
           zones[z].people # NoPeople => zones[z].people \in PrototypePeople
<1> DEFINE zoneMap == ThermostatSchedules(Prototype)
           people == ZonePeople(Prototype)
           record(z) == [heat |-> zoneMap[z].heat, cool |-> zoneMap[z].cool,
                         people |-> IF z \in DOMAIN people THEN people[z] ELSE NoPeople]
           zones == Prepared(Prototype).zones
<1>1. zones = [z \in PrototypeZones |-> record(z)]
  BY DEF Prepared, PrototypeZones
<1>2. \A z : record(z).people = IF z \in DOMAIN people THEN people[z] ELSE NoPeople
  OBVIOUS
<1> HIDE DEF record, zones
<1>3. \A z \in PrototypeZones : zones[z].people = IF z \in DOMAIN people THEN people[z] ELSE NoPeople
  BY <1>1, <1>2
<1>4. DOMAIN zones = PrototypeZones
  BY <1>1
<1>5. \A z \in DOMAIN people : people[z] \in PrototypePeople
  BY DEF PrototypePeople
<1> HIDE DEF people
<1> QED
  BY <1>3, <1>4, <1>5 DEF zones

LEMMA RowKey ==
  ASSUME NEW name, NEW key, NEW every, NEW interval, NEW reading, NEW e
  PROVE  Row(name, key, every, interval, reading, e).key = key
BY DEF Row

LEMMA RowMidpoint ==
  ASSUME NEW name, NEW key, NEW every, NEW interval \in Nat, NEW reading, NEW e \in Nat
  PROVE  Midpoint(Row(name, key, every, interval, reading, e)) = 2 * e - interval
<1> DEFINE r == Row(name, key, every, interval, reading, e)
           perDay == 60 * HoursPerDay
           day == (e - 1) \div perDay
           rest == e - day * perDay
<1>1. perDay \in Nat \ {0} /\ e - 1 \in Int /\ HoursPerDay \in Nat
  BY CurveAssumption
<1>2. r.day = day /\ r.hour = rest \div 60 /\ r.minute = rest % 60
  BY DEF Row
<1>3. r.interval = interval /\ EndOf(r) = e
  BY RowFields, RowEnd
<1> HIDE DEF r, perDay
<1>4. day \in Int
  BY <1>1
<1> HIDE DEF day
<1>5. rest \in Int
  <2>1. day * perDay \in Int
    BY <1>1, <1>4
  <2> QED
    BY <2>1
<1> HIDE DEF rest
<1>6. r.day \in Int /\ r.hour \in Int /\ r.minute \in Int
  BY <1>2, <1>4, <1>5
<1> DEFINE d == r.day
           h == r.hour
           m == r.minute
<1>7. 60 * (HoursPerDay * d + h) + m = d * (60 * HoursPerDay) + (h * 60 + m)
  BY <1>1, <1>6
<1>8. e = d * (60 * HoursPerDay) + (h * 60 + m)
  BY <1>3 DEF EndOf
<1>9. Midpoint(r) = 2 * (60 * (HoursPerDay * d + h) + m) - r.interval
  BY DEF Midpoint
<1> HIDE DEF d, h, m
<1>10. Midpoint(r) = 2 * e - interval
  BY <1>3, <1>7, <1>8, <1>9
<1> QED
  BY <1>10 DEF r

\* They end where the timesteps do.
LEMMA OneStep ==
  ASSUME NEW days \in Nat \ {0}, NEW steps \in 1 .. 60, 60 % steps = 0
  PROVE  LET t == 60 \div steps
         IN  /\ Length("step", steps) = t /\ t \in Nat \ {0}
             /\ Ends(t, days) = {i * t : i \in StepsIn(days, steps)}
             /\ \A i \in StepsIn(days, steps) : i \in Nat /\ Steps(i * t - t, i * t, steps) = {i}
<1> DEFINE t == 60 \div steps
           n == days * HoursPerDay * steps
<1>1. Length("step", steps) = t /\ t \in Nat \ {0} /\ n \in Nat \ {0}
  BY StepGrid
<1>2. StepsIn(days, steps) = 1 .. n /\ Grid(t, 1, n, days, steps)
  BY StepGrid DEF StepsIn
<1> HIDE DEF t, n
<1>3. Ends(t, days) = {i * t : i \in StepsIn(days, steps)}
  <2>1. Ends(t, days) = {i * t : i \in 1 .. n}
    BY <1>2, GridEnds
  <2> QED
    BY <1>2, <2>1
<1>4. ASSUME NEW i \in StepsIn(days, steps)
      PROVE  i \in Nat /\ Steps(i * t - t, i * t, steps) = {i}
  <2>1. i \in 1 .. n /\ i \in Nat
    BY <1>1, <1>2
  <2>2. Steps(i * t - t, i * t, steps) = (i - 1) * 1 + 1 .. i * 1
    BY <1>2, <2>1, GridSteps
  <2>3. (i - 1) * 1 + 1 = i /\ i * 1 = i
    BY <2>1
  <2> QED
    BY <2>1, <2>2, <2>3
<1> QED
  BY <1>1, <1>3, <1>4 DEF t

\* What a variable is keyed by, and its readings under a key.
Keys(v, zones) ==
  IF v.key # "*" THEN {v.key}
  ELSE IF v.variable \in ZoneVariables THEN DOMAIN zones
       ELSE {zones[z].people : z \in DOMAIN zones}

SeriesOf(v, k, days, steps) ==
  LET interval == Length(v.every, steps)
  IN  Series(v.variable, k, v.every, interval,
             [e \in Ends(interval, days) |-> Read(v.variable, interval, e, steps)])

LEMMA VariableRowsAre ==
  ASSUME NEW idf, NEW zones
  PROVE  VariableRows(idf, zones)
           = UNION {UNION {SeriesOf(v, k, idf.period.days, idf.steps) : k \in Keys(v, zones)}
                    : v \in idf.variables}
BY DEF VariableRows, Read, SeriesOf, Keys

LEMMA SeriesOfFields ==
  ASSUME NEW v, NEW k, NEW days, NEW steps, NEW r \in SeriesOf(v, k, days, steps)
  PROVE  r.name = v.variable /\ r.key = k /\ r.env = 2
<1> DEFINE interval == Length(v.every, steps)
           reading == [e \in Ends(interval, days) |-> Read(v.variable, interval, e, steps)]
<1>1. r \in Series(v.variable, k, v.every, interval, reading)
  BY DEF SeriesOf
<1> HIDE DEF interval, reading
<1>2. PICK e \in DOMAIN reading : r = Row(v.variable, k, v.every, interval, reading, e)
  BY <1>1, SeriesIs
<1> QED
  BY <1>2, RowFields, RowKey

LEMMA SeriesOfCount ==
  ASSUME NEW v, NEW k, NEW days, NEW steps, NEW r \in SeriesOf(v, k, days, steps)
  PROVE  ~r.warmup
<1> DEFINE interval == Length(v.every, steps)
           reading == [e \in Ends(interval, days) |-> Read(v.variable, interval, e, steps)]
<1>1. r \in Series(v.variable, k, v.every, interval, reading)
  BY DEF SeriesOf
<1> HIDE DEF interval, reading
<1> QED
  BY <1>1, SeriesCount

\* The middle of a timestep, in half minutes.
Middle(i, steps) == 2 * (i * (60 \div steps)) - 60 \div steps

\* What a variable reads in a timestep.
StepValue(variable, i) ==
  IF variable = Occupancy THEN Cardinality({i} \cap Occupied)
  ELSE IF variable = Pmv THEN Threshold + Cardinality({i} \cap Uncomfortable)
  ELSE 0

\* The readings of a variable asked for at every timestep: one for each.
LEMMA StepSeries ==
  ASSUME NEW v, v.every = "step", NEW k,
         NEW days \in Nat \ {0}, NEW steps \in 1 .. 60, 60 % steps = 0
  PROVE  /\ \A r \in SeriesOf(v, k, days, steps) : \E i \in StepsIn(days, steps) :
              Midpoint(r) = Middle(i, steps) /\ r.value = StepValue(v.variable, i)
         /\ \A i \in StepsIn(days, steps) : \E r \in SeriesOf(v, k, days, steps) :
              Midpoint(r) = Middle(i, steps) /\ r.value = StepValue(v.variable, i)
<1> DEFINE t == 60 \div steps
           S == StepsIn(days, steps)
           reading == [e \in Ends(t, days) |-> Read(v.variable, t, e, steps)]
           every == v.every
           row(e) == Row(v.variable, k, every, t, reading, e)
<1>1. /\ Length(v.every, steps) = t /\ t \in Nat \ {0}
      /\ Ends(t, days) = {i * t : i \in S}
      /\ \A i \in S : i \in Nat /\ Steps(i * t - t, i * t, steps) = {i}
  BY OneStep
<1>2. SeriesOf(v, k, days, steps) = Series(v.variable, k, every, t, reading)
  BY <1>1 DEF SeriesOf
<1>3. \A i \in S : Middle(i, steps) = 2 * (i * t) - t
  BY DEF Middle
<1>4. \A i \in S : i * t \in Ends(t, days) /\ i * t \in Nat
  <2> HIDE DEF t, S
  <2> QED
    BY <1>1
<1>5. \A i \in S : reading[i * t] = StepValue(v.variable, i)
  <2> HIDE DEF S, t
  <2> QED
    BY <1>1, <1>4 DEF Read, StepValue
<1>9. DOMAIN reading = Ends(t, days)
  OBVIOUS
<1> HIDE DEF t, S, reading, every
<1>6. ASSUME NEW i \in S
      PROVE  Midpoint(row(i * t)) = Middle(i, steps) /\ row(i * t).value = StepValue(v.variable, i)
  <2>1. i * t \in Nat /\ t \in Nat
    BY <1>1, <1>4
  <2>2. Midpoint(row(i * t)) = 2 * (i * t) - t
    BY <2>1, RowMidpoint
  <2>3. row(i * t).value = reading[i * t]
    BY RowFields
  <2> QED
    BY <1>3, <1>5, <2>2, <2>3
<1> HIDE DEF row
<1>7. SeriesOf(v, k, days, steps) = {row(e) : e \in Ends(t, days)}
  BY <1>2, <1>9, SeriesIs DEF row
<1>8. SeriesOf(v, k, days, steps) = {row(i * t) : i \in S}
  BY <1>1, <1>7
<1> QED
  BY <1>6, <1>8 DEF S

LEMMA CountedIs ==
  ASSUME NEW idf, idf.weather = TRUE, NEW zones, NEW profile
  PROVE  Counted(Simulated(idf, zones, profile))
           = {r \in MeterRows(idf, profile) \cup VariableRows(idf, zones) \cup Extra(idf) :
                ~r.warmup /\ r.env = 2}
<1> DEFINE all == MeterRows(idf, profile) \cup VariableRows(idf, zones) \cup Extra(idf)
           sql == Simulated(idf, zones, profile)
<1>1. sql = [environments |-> <<"design", "weather">>, rows |-> all]
  BY DEF Simulated
<1>2. RunPeriods(<<"design", "weather">>) = {2}
  <2> DEFINE envs == <<"design", "weather">>
  <2>1. DOMAIN envs = {1, 2} /\ envs[1] = "design" /\ envs[2] = "weather"
    OBVIOUS
  <2> HIDE DEF envs
  <2>2. {e \in DOMAIN envs : envs[e] = "weather"} = {2}
    BY <2>1
  <2>3. RunPeriods(envs) = {2}
    BY <2>2 DEF RunPeriods
  <2> QED
    BY <2>3 DEF envs
<1>3. sql.rows = all /\ sql.environments = <<"design", "weather">>
  BY <1>1
<1>4. Counted(sql) = {r \in all : ~r.warmup /\ r.env \in {2}}
  <2> HIDE DEF sql, all
  <2> QED
    BY <1>2, <1>3 DEF Counted
<1> HIDE DEF all
<1> QED
  BY <1>4 DEF sql, all

LEMMA MeterNames ==
  ASSUME NEW idf, NEW profile, NEW r \in MeterRows(idf, profile)
  PROVE  r.name \in Meters
<1> DEFINE read(name, every) == Metered(name, every, idf.period, idf.steps, profile)
<1>1. \/ \E q \in {m \in idf.meters : m.name \in Meters} : r \in read(q.name, q.every)
      \/ r \in read(FacilityMeter, "month")
  BY DEF MeterRows
<1>2. ASSUME NEW name, NEW every, NEW q \in read(name, every) PROVE q.name = name
  BY <1>2, MeteredFields
<1> HIDE DEF read
<1>3. FacilityMeter \in Meters
  BY DEF Meters
<1> QED
  BY <1>1, <1>2, <1>3

\* The variables of an arm, and the readings of one.
Asked == Prototype.variables \cup Keyed
Named(name, days, steps) ==
  UNION {UNION {SeriesOf(v, k, days, steps) : k \in Keys(v, Prepared(Prototype).zones)}
         : v \in {u \in Asked : u.variable = name}}

\* The rows that count for a variable are its readings.
LEMMA RunVariables ==
  ASSUME NEW source \in Sources, NEW r \in Requests, NEW profile \in Profiles, ComfortMetered,
         NEW name, name \notin Meters
  PROVE  {q \in Counted(RunSql(source, r, profile)) : q.name = name}
           = Named(name, Resolve(r).days, r.steps)
<1> DEFINE idf == PrepareArm(source, Resolve(r), r.steps)
           zones == Prepared(Prototype).zones
           days == Resolve(r).days
           steps == r.steps
           rows == VariableRows(idf, zones)
           meters == MeterRows(idf, profile)
           extra == Extra(idf)
           counted == Counted(Simulated(idf, zones, profile))
<1>1. InputFile(source) /\ Unmetered(source.variables)
  <2>1. Unmetered(Prototype.variables) /\ InputFile(Prototype)
    BY PrototypeAssumption DEF Unmetered
  <2> QED
    BY <2>1, PreparedRequests, PreparedFile DEF Sources
<1>2. /\ idf.period = Resolve(r) /\ idf.steps = steps /\ idf.variables = Asked
  BY <1>1, ArmFile, ArmVariables DEF Asked
<1>3. idf.weather = TRUE
  BY <1>1, ArmRequests, Zenon
<1>4. rows = UNION {UNION {SeriesOf(v, k, days, steps) : k \in Keys(v, zones)} : v \in Asked}
  <2> HIDE DEF idf, zones, steps
  <2> QED
    BY <1>2, VariableRowsAre
<1>5. counted = {q \in meters \cup rows \cup extra : ~q.warmup /\ q.env = 2}
  <2> HIDE DEF idf, zones
  <2> QED
    BY <1>3, CountedIs
<1>6. \A q \in meters : q.name \in Meters
  BY MeterNames
<1>7. \A q \in extra : ~(~q.warmup /\ q.env = 2)
  BY ExtraDiscounted, Zenon
<1> HIDE DEF idf, meters, extra, rows, counted, days, steps, zones
<1>8. ASSUME NEW v, NEW k, NEW q \in SeriesOf(v, k, days, steps)
      PROVE  q.name = v.variable /\ q.env = 2 /\ ~q.warmup
  <2>1. q.name = v.variable /\ q.env = 2
    BY <1>8, SeriesOfFields
  <2>2. ~q.warmup
    BY <1>8, SeriesOfCount
  <2> QED
    BY <2>1, <2>2
<1> DEFINE named == UNION {UNION {SeriesOf(v, k, days, steps) : k \in Keys(v, zones)}
                           : v \in {u \in Asked : u.variable = name}}
<1>9. ASSUME NEW q \in counted, q.name = name PROVE q \in named
  <2>1. q \in rows
    BY <1>5, <1>6, <1>7, <1>9
  <2>2. PICK v \in Asked : \E k \in Keys(v, zones) : q \in SeriesOf(v, k, days, steps)
    BY <1>4, <2>1
  <2>3. v.variable = name
    BY <1>8, <1>9, <2>2
  <2> QED
    BY <2>2, <2>3
<1>10. ASSUME NEW q \in named PROVE q \in counted /\ q.name = name
  <2>1. PICK v \in Asked :
          v.variable = name /\ \E k \in Keys(v, zones) : q \in SeriesOf(v, k, days, steps)
    OBVIOUS
  <2>2. q.name = name /\ q.env = 2 /\ ~q.warmup
    BY <1>8, <2>1
  <2>3. q \in rows
    BY <1>4, <2>1
  <2> QED
    BY <1>5, <2>2, <2>3
<1> HIDE DEF named
<1>11. {q \in counted : q.name = name} = named
  BY <1>9, <1>10
<1> QED
  BY <1>11 DEF RunSql, Named, counted, named, idf, zones, days, steps

LEMMA MiddlesDiffer ==
  ASSUME NEW steps \in 1 .. 60, 60 % steps = 0, NEW i \in Nat, NEW j \in Nat,
         Middle(i, steps) = Middle(j, steps)
  PROVE  i = j
<1> DEFINE t == 60 \div steps
<1>1. t \in Nat \ {0}
  BY OneStep
<1>2. Middle(i, steps) = 2 * (i * t) - t /\ Middle(j, steps) = 2 * (j * t) - t
  BY DEF Middle
<1> HIDE DEF t
<1>3. i * t \in Int /\ j * t \in Int
  BY <1>1
<1> DEFINE p == i * t
           q == j * t
<1>4. p = q
  <2>1. 2 * p - t = 2 * q - t /\ p \in Int /\ q \in Int
    BY <1>2, <1>3
  <2> HIDE DEF p, q
  <2> QED
    BY <1>1, <2>1
<1>5. ASSUME NEW a \in Nat, NEW b \in Nat, a < b PROVE a * t < b * t
  <2>1. (a + 1) * t <= b * t /\ (a + 1) * t = a * t + t /\ a * t \in Int /\ b * t \in Int
    <3>1. a + 1 \in Int /\ a + 1 <= b
      BY <1>5
    <3> QED
      BY <1>1, <3>1, Product
  <2> DEFINE x == a * t
             y == b * t
             z == (a + 1) * t
  <2>2. z <= y /\ z = x + t /\ x \in Int /\ y \in Int
    BY <2>1
  <2> HIDE DEF x, y, z
  <2>3. x < y
    BY <1>1, <2>2
  <2> QED
    BY <2>3 DEF x, y
<1>6. ~(i < j)
  <2> SUFFICES ASSUME i < j PROVE FALSE
    OBVIOUS
  <2>1. i * t < j * t
    BY <1>5
  <2> QED
    BY <1>3, <1>4, <2>1
<1>7. ~(j < i)
  <2> SUFFICES ASSUME j < i PROVE FALSE
    OBVIOUS
  <2>1. j * t < i * t
    BY <1>5
  <2> QED
    BY <1>3, <1>4, <2>1
<1> QED
  BY <1>6, <1>7

\* Occupancy and PMV are read in timesteps only.
LEMMA StepReadings ==
  ASSUME ComfortMetered, NEW name \in {Occupancy, Pmv},
         NEW days \in Nat \ {0}, NEW steps \in 1 .. 60, 60 % steps = 0,
         NEW q \in Named(name, days, steps)
  PROVE  \E i \in StepsIn(days, steps) :
           Midpoint(q) = Middle(i, steps) /\ q.value = StepValue(name, i)
<1>1. PICK v \in Asked : v.variable = name /\ \E k : q \in SeriesOf(v, k, days, steps)
  BY DEF Named
<1>2. v.every = "step"
  <2>1. CASE v \in Prototype.variables
    BY <1>1, <2>1 DEF ComfortMetered
  <2>2. CASE v \in Keyed
    BY <2>2 DEF Keyed, EveryStep
  <2> QED
    BY <2>1, <2>2 DEF Asked
<1> QED
  BY <1>1, <1>2, StepSeries

LEMMA StepReadAt ==
  ASSUME NEW v, v.every = "step", NEW k,
         NEW days \in Nat \ {0}, NEW steps \in 1 .. 60, 60 % steps = 0,
         NEW i \in StepsIn(days, steps)
  PROVE  \E r \in SeriesOf(v, k, days, steps) :
           Midpoint(r) = Middle(i, steps) /\ r.value = StepValue(v.variable, i)
<1>1. PICK S : S = SeriesOf(v, k, days, steps)
  OBVIOUS
<1>2. \A j \in StepsIn(days, steps) : \E r \in S :
        Midpoint(r) = Middle(j, steps) /\ r.value = StepValue(v.variable, j)
  BY <1>1, StepSeries
<1> QED
  BY <1>1, <1>2

\* A keyed variable is read in every timestep.
LEMMA KeyedReadings ==
  ASSUME ComfortMetered, NEW name, NEW key, EveryStep(key, name) \in Keyed,
         NEW days \in Nat \ {0}, NEW steps \in 1 .. 60, 60 % steps = 0,
         NEW i \in StepsIn(days, steps)
  PROVE  \E q \in Named(name, days, steps) :
           q.key = key /\ Midpoint(q) = Middle(i, steps) /\ q.value = StepValue(name, i)
<1>0. PICK v : v = EveryStep(key, name)
  OBVIOUS
<1>1. v \in Asked /\ v.variable = name /\ v.every = "step" /\ v.key = key
  BY <1>0 DEF Asked, EveryStep
<1>2. key # "*"
  <2>1. PICK w \in (PrototypeZones \X ZoneVariables) \cup (PrototypePeople \X PeopleVariables) :
          v = EveryStep(w[1], w[2])
    BY <1>0 DEF Keyed
  <2>2. w[1] # "*" /\ v.key = w[1]
    BY <2>1 DEF ComfortMetered, PrototypeZones, PrototypePeople, EveryStep
  <2> QED
    BY <1>1, <2>2
<1>3. key \in Keys(v, Prepared(Prototype).zones)
  BY <1>1, <1>2 DEF Keys
<1>4. SeriesOf(v, key, days, steps) \subseteq Named(name, days, steps)
  BY <1>1, <1>3 DEF Named
<1>5. PICK q \in SeriesOf(v, key, days, steps) :
        Midpoint(q) = Middle(i, steps) /\ q.value = StepValue(name, i)
  <2>1. \A j \in StepsIn(days, steps) :
          \E q \in SeriesOf(v, key, days, steps) :
            Midpoint(q) = Middle(j, steps) /\ q.value = StepValue(v.variable, j)
    BY <1>1, StepReadAt
  <2> QED
    BY <1>1, <2>1
<1>6. q.key = key
  BY SeriesOfFields
<1> QED
  BY <1>4, <1>5, <1>6

LEMMA StepOccupied ==
  ASSUME NEW i
  PROVE  StepValue(Occupancy, i) > 0 <=> i \in Occupied
<1>1. CASE i \in Occupied
  <2>1. {i} \cap Occupied = {i}
    BY <1>1
  <2>2. StepValue(Occupancy, i) = 1
    BY <2>1, FS_Singleton DEF StepValue
  <2> QED
    BY <1>1, <2>2
<1>2. CASE i \notin Occupied
  <2>1. {i} \cap Occupied = {}
    BY <1>2
  <2>2. StepValue(Occupancy, i) = 0
    BY <2>1, FS_EmptySet DEF StepValue
  <2> QED
    BY <1>2, <2>2
<1> QED
  BY <1>1, <1>2

LEMMA StepComfort ==
  ASSUME NEW i
  PROVE  LET v == StepValue(Pmv, i)
         IN  (v > Threshold \/ -v > Threshold) <=> i \in Uncomfortable
<1>0. Pmv # Occupancy /\ Threshold \in Nat
  BY PrototypeAssumption, OutputAssumption, RequestAssumption
<1>1. CASE i \in Uncomfortable
  <2>1. {i} \cap Uncomfortable = {i}
    BY <1>1
  <2>2. StepValue(Pmv, i) = Threshold + 1
    BY <1>0, <2>1, FS_Singleton DEF StepValue
  <2> QED
    BY <1>0, <1>1, <2>2
<1>2. CASE i \notin Uncomfortable
  <2>1. {i} \cap Uncomfortable = {}
    BY <1>2
  <2>2. StepValue(Pmv, i) = Threshold + 0
    BY <1>0, <2>1, FS_EmptySet DEF StepValue
  <2>3. StepValue(Pmv, i) = Threshold
    BY <1>0, <2>2
  <2> QED
    BY <1>0, <1>2, <2>3
<1> QED
  BY <1>1, <1>2

\* What was read of a name under a key at a time.
ReadAt(rows, time, name, key) ==
  {r.value : r \in {q \in rows : Midpoint(q) = time /\ q.name = name /\ q.key = key}}

\* A variable was read in each timestep, as it was then, and at no other time.
ReadAsWas(rows, days, steps, name) ==
  /\ \A key, time : \A v \in ReadAt(rows, time, name, key) :
       \E i \in StepsIn(days, steps) : time = Middle(i, steps) /\ v = StepValue(name, i)
  /\ \A key : EveryStep(key, name) \in Keyed =>
       \A i \in StepsIn(days, steps) :
         ReadAt(rows, Middle(i, steps), name, key) = {StepValue(name, i)}

LEMMA ReadsAre ==
  ASSUME NEW source \in Sources, NEW r \in Requests, NEW profile \in Profiles, ComfortMetered,
         NEW name \in {Occupancy, Pmv}
  PROVE  ReadAsWas(Counted(RunSql(source, r, profile)), Resolve(r).days, r.steps, name)
<1> DEFINE rows == Counted(RunSql(source, r, profile))
           days == Resolve(r).days
           steps == r.steps
           S == StepsIn(days, steps)
           named == Named(name, days, steps)
<1>1. days \in Nat \ {0} /\ steps \in 1 .. 60 /\ 60 % steps = 0
  BY RequestType
<1>2. name \notin Meters
  BY PrototypeAssumption
<1>3. {q \in rows : q.name = name} = named
  BY <1>2, RunVariables
<1>4. \A q \in named : \E i \in S : Midpoint(q) = Middle(i, steps) /\ q.value = StepValue(name, i)
  <2> HIDE DEF days, steps
  <2> QED
    BY <1>1, StepReadings
<1>5. \A key : EveryStep(key, name) \in Keyed =>
        \A i \in S : \E q \in named :
          q.key = key /\ Midpoint(q) = Middle(i, steps) /\ q.value = StepValue(name, i)
  <2> HIDE DEF days, steps
  <2> QED
    BY <1>1, KeyedReadings
<1>6. \A i \in S : i \in Nat
  <2> HIDE DEF days, steps
  <2> QED
    BY <1>1, OneStep
<1>7. \A i, j \in S : Middle(i, steps) = Middle(j, steps) => i = j
  <2> HIDE DEF S, days, steps
  <2> QED
    BY <1>1, <1>6, MiddlesDiffer
<1> HIDE DEF rows, days, S, named, steps
<1>8. ASSUME NEW key, NEW time, NEW v \in ReadAt(rows, time, name, key)
      PROVE  \E i \in S : time = Middle(i, steps) /\ v = StepValue(name, i)
  <2>1. PICK q \in rows : Midpoint(q) = time /\ q.name = name /\ q.value = v
    BY DEF ReadAt
  <2>2. q \in named
    BY <1>3, <2>1
  <2> QED
    BY <1>4, <2>1, <2>2
<1>9. ASSUME NEW key, EveryStep(key, name) \in Keyed, NEW i \in S
      PROVE  ReadAt(rows, Middle(i, steps), name, key) = {StepValue(name, i)}
  <2>1. PICK q \in named : q.key = key /\ Midpoint(q) = Middle(i, steps)
                           /\ q.value = StepValue(name, i)
    BY <1>5, <1>9
  <2>2. q \in rows /\ q.name = name
    BY <1>3, <2>1
  <2>3. StepValue(name, i) \in ReadAt(rows, Middle(i, steps), name, key)
    BY <2>1, <2>2 DEF ReadAt
  <2>4. \A v \in ReadAt(rows, Middle(i, steps), name, key) : v = StepValue(name, i)
    BY <1>7, <1>8
  <2> QED
    BY <2>3, <2>4
<1> QED
  BY <1>8, <1>9 DEF ReadAsWas, rows, S, days, steps

-----------------------------------------------------------------------------
(* The timestep that is inferred.                                          *)

\* A meter is read once in each interval.
LEMMA MeterReadTimes ==
  ASSUME NEW m, NEW every, NEW days \in Nat \ {0}, NEW steps \in 1 .. 60, 60 % steps = 0,
         NEW profile, NEW k, NEW n, Grid(Length(every, steps), k, n, days, steps)
  PROVE  LET rows == MeterRead(m, every, days, steps, profile)
         IN  IsFiniteSet(rows) /\ Cardinality(rows) = n
<1> DEFINE interval == Length(every, steps)
           E == Ends(interval, days)
           reading == [e \in E |-> Used(profile, m, interval, e, steps)]
           rows == MeterRead(m, every, days, steps, profile)
           key == ""
<1>1. rows = Series(m, key, every, interval, reading)
  BY DEF MeterRead, Used
<1>2. interval \in Nat \ {0} /\ n \in Nat
  BY DEF Grid
<1>3. E = {j * interval : j \in 1 .. n}
  <2>1. Grid(interval, k, n, days, steps)
    OBVIOUS
  <2> HIDE DEF interval
  <2> QED
    BY <2>1, GridEnds
<1>12. DOMAIN reading = E
  OBVIOUS
<1> HIDE DEF reading, key, rows
<1>4. rows = {Row(m, key, every, interval, reading, e) : e \in E}
  BY <1>1, <1>12, SeriesIs
<1> DEFINE times == [j \in 1 .. n |-> j * interval]
           row == [e \in E |-> Row(m, key, every, interval, reading, e)]
<1>5. E \subseteq Nat
  <2> HIDE DEF interval
  <2> QED
    BY <1>2, <1>3
<1>6. \A e, f \in E : row[e] = row[f] => e = f
  <2>1. ASSUME NEW e \in E PROVE EndOf(row[e]) = e
    <3>1. e \in Nat
      BY <1>5
    <3>2. EndOf(Row(m, key, every, interval, reading, e)) = e
      BY <3>1, RowEnd
    <3> QED
      BY <3>2
  <2> HIDE DEF row
  <2> QED
    BY <2>1
<1> HIDE DEF interval
<1>7. \A i, j \in 1 .. n : times[i] = times[j] => i = j
  <2> SUFFICES ASSUME NEW i \in 1 .. n, NEW j \in 1 .. n, i * interval = j * interval
               PROVE  i = j
    OBVIOUS
  <2>1. i \in Nat /\ j \in Nat /\ i * interval \in Nat
    BY <1>2
  <2> DEFINE p == i * interval
             q == j * interval
  <2>2. i * interval <= p /\ p < (i + 1) * interval /\ p \in Nat
    BY <1>2, <2>1
  <2>3. j * interval <= q /\ q < (j + 1) * interval /\ q \in Nat
    BY <1>2, <2>1
  <2>4. p = q
    OBVIOUS
  <2> HIDE DEF p, q
  <2>5. p \div interval = i /\ q \div interval = j
    BY <1>2, <2>1, <2>2, <2>3, Divided
  <2> QED
    BY <2>4, <2>5
<1>8. IsFiniteSet(1 .. n) /\ Cardinality(1 .. n) = n
  BY <1>2, FS_Interval
<1>9. {times[j] : j \in 1 .. n} = E
  BY <1>3
<1>10. IsFiniteSet(E) /\ Cardinality(E) = n
  <2> DEFINE J == 1 .. n
  <2>0. IsFiniteSet(J) /\ \A i, j \in J : times[i] = times[j] => i = j
    BY <1>7, <1>8
  <2> HIDE DEF times, E, J
  <2>1. IsFiniteSet({times[j] : j \in J}) /\ Cardinality({times[j] : j \in J}) = Cardinality(J)
    BY <2>0, CountImage
  <2> QED
    BY <1>8, <1>9, <2>1 DEF J
<1>11. {row[e] : e \in E} = rows
  BY <1>4
<1> HIDE DEF E, row
<1> QED
  BY <1>6, <1>10, <1>11, CountImage DEF rows

\* The meters of the report an arm asks for: those read at every timestep, and the
\* other frequencies of each.
AskedMeters == {q \in Requested(Prototype.meters) : q.name \in Meters}
Often == {q.name : q \in {p \in AskedMeters : p.every = "step"}}
Seldom == {<<q.name, q.every>> : q \in {p \in AskedMeters : p.every # "step"}}

LEMMA AskedOften ==
  /\ IsFiniteSet(Often) /\ IsFiniteSet(Seldom)
  /\ ComfortMetered =>
       \A r \in Requests : Cardinality(Seldom) + 1 < r.steps * Cardinality(Often)
<1>1. IsFiniteSet(AskedMeters)
  BY RequestedFinite, FS_Subset DEF AskedMeters
<1>2. IsFiniteSet(Often)
  <2> DEFINE S == {p \in AskedMeters : p.every = "step"}
             f == [q \in S |-> q.name]
  <2>1. IsFiniteSet(S)
    BY <1>1, FS_Subset
  <2>2. Often = {f[q] : q \in S}
    BY DEF Often
  <2> HIDE DEF S, f
  <2> QED
    BY <2>1, <2>2, KeysFinite
<1>3. IsFiniteSet(Seldom)
  <2> DEFINE S == {p \in AskedMeters : p.every # "step"}
             f == [q \in S |-> <<q.name, q.every>>]
  <2>1. IsFiniteSet(S)
    BY <1>1, FS_Subset
  <2>2. Seldom = {f[q] : q \in S}
    BY DEF Seldom
  <2> HIDE DEF S, f
  <2> QED
    BY <2>1, <2>2, KeysFinite
<1>4. EnsureOutputs(EnsureMeters(Prototype), {}, {}).meters = Requested(Prototype.meters)
  <2> DEFINE file == EnsureMeters(Prototype)
  <2>1. /\ file.meters = Prototype.meters
             \cup {[name |-> m, every |-> "step"] : m \in RequiredMeters \ {q.name : q \in Prototype.meters}}
        /\ DOMAIN file = DOMAIN Prototype
        /\ {"variables", "meters", "sqlite"} \subseteq DOMAIN Prototype
    BY PrototypeAssumption DEF EnsureMeters, InputFile
  <2> HIDE DEF file
  <2>2. EnsureOutputs(file, {}, {}).meters = file.meters \cup {[name |-> SiteMeter, every |-> "step"]}
    BY <2>1 DEF EnsureOutputs
  <2> QED
    BY <2>1, <2>2 DEF Requested, file
<1>5. ASSUME ComfortMetered, NEW r \in Requests
      PROVE  Cardinality(Seldom) + 1 < r.steps * Cardinality(Often)
  BY <1>4, <1>5 DEF ComfortMetered, AskedMeters, Often, Seldom
<1> QED
  BY <1>2, <1>3, <1>5

\* The rows of the meters, of an arm that ran to its end.
LEMMA RunMeters ==
  ASSUME NEW source \in Sources, NEW r \in Requests, NEW profile \in Profiles
  PROVE  LET rows == Intervals(RunSql(source, r, profile), Meters)
             F(m) == Frequencies(Requested(Prototype.meters), m)
             read(m, every) == Metered(m, every, Resolve(r), r.steps, profile)
         IN  /\ IsFiniteSet(rows)
             /\ \A q \in rows : /\ q.name \in Meters /\ q.every \in F(q.name)
                                /\ q \in read(q.name, q.every)
             /\ \A m \in Meters : \A every \in F(m) : read(m, every) \subseteq rows
<1> DEFINE sql == RunSql(source, r, profile)
           rows == Intervals(sql, Meters)
           F(m) == Frequencies(Requested(Prototype.meters), m)
           read(m, every) == Metered(m, every, Resolve(r), r.steps, profile)
<1>1. IsFiniteSet(rows)
  <2>1. IsFiniteSet(sql.rows)
    BY ArmReadings DEF Sources, RunSql, Readings
  <2>2. rows \subseteq sql.rows
    BY DEF Intervals, Counted
  <2> HIDE DEF rows, sql
  <2> QED
    BY <2>1, <2>2, FS_Subset
<1>2. ASSUME NEW m \in Meters, NEW q
      PROVE  q \in Intervals(sql, {m}) <=> \E every \in F(m) : q \in read(m, every)
  <2>1. Intervals(sql, {m}) = Reads(m, F(m), Resolve(r), r.steps, profile)
    BY RunIntervals
  <2> HIDE DEF sql, F
  <2> QED
    BY <2>1 DEF Reads
<1>3. \A q : q \in rows <=> q.name \in Meters /\ q \in Intervals(sql, {q.name})
  BY DEF Intervals
<1>4. \A m : \A q \in Intervals(sql, {m}) : q.name = m
  BY DEF Intervals
<1>5. \A m, every : \A q \in read(m, every) : q.name = m /\ q.every = every
  BY MeteredFields
<1> HIDE DEF rows, sql, F, read
<1>6. ASSUME NEW q \in rows
      PROVE  q.name \in Meters /\ q.every \in F(q.name) /\ q \in read(q.name, q.every)
  <2>1. q.name \in Meters /\ q \in Intervals(sql, {q.name})
    BY <1>3
  <2>2. PICK every \in F(q.name) : q \in read(q.name, every)
    BY <1>2, <2>1
  <2>3. q.every = every
    BY <1>5, <2>2
  <2> QED
    BY <2>1, <2>2, <2>3
<1>7. ASSUME NEW m \in Meters, NEW every \in F(m), NEW q \in read(m, every) PROVE q \in rows
  <2>1. q \in Intervals(sql, {m}) /\ q.name = m
    BY <1>2, <1>5
  <2> QED
    BY <1>3, <2>1
<1> QED
  BY <1>1, <1>6, <1>7 DEF rows, sql, F, read

\* At every timestep a meter is read in each of them; at another frequency, no more
\* often than every hour.
LEMMA StepTimes ==
  ASSUME NEW m, NEW days \in Nat \ {0}, NEW steps \in 1 .. 60, 60 % steps = 0, NEW profile
  PROVE  LET rows == MeterRead(m, "step", days, steps, profile)
         IN  IsFiniteSet(rows) /\ Cardinality(rows) = days * HoursPerDay * steps
<1> DEFINE N == days * HoursPerDay * steps
           every == "step"
<1>1. Grid(Length(every, steps), 1, N, days, steps)
  BY StepGrid
<1> HIDE DEF N, every
<1> QED
  BY <1>1, MeterReadTimes DEF N, every

LEMMA OtherTimes ==
  ASSUME NEW m, NEW every, every # "step", NEW days \in Nat \ {0}, NEW steps \in 1 .. 60,
         60 % steps = 0, NEW profile
  PROVE  LET rows == MeterRead(m, every, days, steps, profile)
         IN  IsFiniteSet(rows) /\ Cardinality(rows) <= days * HoursPerDay
<1> DEFINE interval == Length(every, steps)
           d == days * HoursPerDay
           rows == MeterRead(m, every, days, steps, profile)
<1>1. PICK k, n : Grid(interval, k, n, days, steps)
  BY EveryGrid
<1>2. IsFiniteSet(rows) /\ Cardinality(rows) = n
  BY <1>1, MeterReadTimes
<1>3. d \in Nat \ {0} /\ Minutes(days) = d * 60
  <2>1. HoursPerDay \in Nat \ {0}
    BY CurveAssumption
  <2> QED
    BY <2>1 DEF Minutes
<1>4. interval >= 60 /\ interval \in Nat
  <2>1. interval = 60
    BY DEF Length
  <2> HIDE DEF interval, d
  <2> QED
    BY <1>3, <2>1
<1>5. n \in Nat /\ d * 60 = n * interval
  <2> HIDE DEF interval, d
  <2> QED
    BY <1>1, <1>3 DEF Grid
<1> HIDE DEF interval, d, rows
<1>6. n * 60 <= d * 60
  <2>1. 60 * n <= interval * n /\ interval * n \in Int
    BY <1>4, <1>5, Product
  <2>2. n * interval = interval * n
    BY <1>4, <1>5
  <2> DEFINE p == interval * n
  <2>3. d * 60 = p /\ 60 * n <= p
    BY <1>5, <2>1, <2>2
  <2> HIDE DEF p
  <2> QED
    BY <1>5, <2>3
<1>7. n <= d
  BY <1>3, <1>5, <1>6
<1> QED
  BY <1>2, <1>7 DEF rows, d

LEMMA MeteredTimes ==
  ASSUME NEW m, NEW every, every # "step", NEW period, Period(period), NEW steps \in 1 .. 60,
         60 % steps = 0, NEW profile
  PROVE  LET rows == Metered(m, every, period, steps, profile)
         IN  IsFiniteSet(rows) /\ Cardinality(rows) <= period.days * HoursPerDay
<1> DEFINE days == period.days
           d == days * HoursPerDay
           months == MonthRead(m, every, period, steps, profile)
           rows == MeterRead(m, every, days, steps, profile)
<1>1. days \in Nat \ {0} /\ HoursPerDay \in Nat \ {0}
  BY CurveAssumption DEF Period
<1>2. IsFiniteSet(months) /\ Cardinality(months) <= days
  BY MonthReadTimes
<1>3. IsFiniteSet(rows) /\ Cardinality(rows) <= d
  BY <1>1, OtherTimes
<1>4. Metered(m, every, period, steps, profile) \in {months, rows}
  BY DEF Metered
<1> HIDE DEF months, rows, days
<1>5. d \in Int /\ days <= d
  BY <1>1
<1>6. Cardinality(months) \in Nat
  BY <1>2, FS_CardinalityType
<1> HIDE DEF d
<1>7. Cardinality(months) <= d
  BY <1>1, <1>2, <1>5, <1>6
<1> QED
  BY <1>2, <1>3, <1>4, <1>7 DEF d, days

\* The facility meter is asked for at every timestep.
LEMMA FacilityOften == FacilityMeter \in Often
<1> DEFINE row == [name |-> SiteMeter, every |-> "step"]
<1>1. row \in Requested(Prototype.meters) /\ row.name = FacilityMeter /\ row.every = "step"
  BY PrototypeAssumption DEF Requested
<1>2. FacilityMeter \in Meters
  BY DEF Meters
<1> HIDE DEF row
<1>3. row \in AskedMeters
  BY <1>1, <1>2 DEF AskedMeters
<1> QED
  BY <1>1, <1>3 DEF Often

LEMMA FrequencyAsked ==
  ASSUME NEW m \in Meters, NEW every
  PROVE  /\ every \in Frequencies(Requested(Prototype.meters), m) /\ every # "step" =>
              <<m, every>> \in Seldom \cup {<<FacilityMeter, "month">>}
         /\ m \in Often => "step" \in Frequencies(Requested(Prototype.meters), m)
<1>1. ASSUME every \in Frequencies(Requested(Prototype.meters), m), every # "step"
      PROVE  <<m, every>> \in Seldom \cup {<<FacilityMeter, "month">>}
  <2>1. CASE m = FacilityMeter /\ every = "month"
    BY <2>1
  <2>2. CASE \E q \in Requested(Prototype.meters) : q.name = m /\ q.every = every
    <3>1. PICK q \in Requested(Prototype.meters) : q.name = m /\ q.every = every
      BY <2>2
    <3>2. q \in AskedMeters
      BY <3>1 DEF AskedMeters
    <3> QED
      BY <1>1, <3>1, <3>2 DEF Seldom
  <2> QED
    BY <1>1, <2>1, <2>2 DEF Frequencies
<1>2. ASSUME m \in Often PROVE "step" \in Frequencies(Requested(Prototype.meters), m)
  BY <1>2 DEF Often, AskedMeters, Frequencies
<1> QED
  BY <1>1, <1>2

\* Readings of a timestep each: of those meters, one for every timestep.
LEMMA StepIntervals ==
  ASSUME NEW source \in Sources, NEW r \in Requests, NEW profile \in Profiles
  PROVE  LET rows == Intervals(RunSql(source, r, profile), Meters)
             of == {q \in rows : q.interval = 60 \div r.steps}
         IN  /\ IsFiniteSet(of)
             /\ Cardinality(Often) * (Resolve(r).days * HoursPerDay * r.steps) <= Cardinality(of)
<1> DEFINE rows == Intervals(RunSql(source, r, profile), Meters)
           F(m) == Frequencies(Requested(Prototype.meters), m)
           read(m, every) == Metered(m, every, Resolve(r), r.steps, profile)
           step == "step"
           of == {q \in rows : q.interval = 60 \div r.steps}
           S == {q \in rows : q.every = step /\ q.name \in Often}
           N == Resolve(r).days * HoursPerDay * r.steps
           key == [q \in S |-> q.name]
<1>1. /\ IsFiniteSet(rows)
      /\ \A q \in rows : q.name \in Meters /\ q \in read(q.name, q.every)
      /\ \A m \in Meters : \A every \in F(m) : read(m, every) \subseteq rows
  BY RunMeters
<1>2. /\ Resolve(r).days \in Nat \ {0} /\ r.steps \in 1 .. 60 /\ 60 % r.steps = 0
      /\ Period(Resolve(r))
  BY RequestType
<1>3. \A m, every : \A q \in read(m, every) :
        /\ q.name = m /\ q.every = every
        /\ every = step => q.interval = 60 \div r.steps
  BY MeteredFields
<1>4. \A m \in Often : m \in Meters /\ step \in F(m)
  BY FrequencyAsked DEF Often, AskedMeters
<1>6. N \in Nat
  BY <1>2, CurveAssumption
<1>7. \A m : IsFiniteSet(read(m, step)) /\ Cardinality(read(m, step)) = N /\ read(m, step) # {}
  <2> DEFINE all(m) == MeterRead(m, step, Resolve(r).days, r.steps, profile)
  <2>1. \A m : IsFiniteSet(all(m)) /\ Cardinality(all(m)) = N /\ all(m) # {}
    BY <1>2, StepTimes, MeterReadNonempty
  <2>2. \A m : read(m, step) = all(m)
    BY DEF Metered
  <2> HIDE DEF all, read, step, N
  <2> QED
    BY <2>1, <2>2
<1> HIDE DEF rows, F, read, step, N
<1>8. S \subseteq of /\ IsFiniteSet(of) /\ IsFiniteSet(S)
  <2>1. S \subseteq of
    BY <1>1, <1>3
  <2>2. IsFiniteSet(of)
    BY <1>1, FS_Subset
  <2> QED
    BY <2>1, <2>2, FS_Subset
<1>9. ASSUME NEW m \in Often PROVE Part(S, key, m) = read(m, step)
  <2>1. ASSUME NEW q \in Part(S, key, m) PROVE q \in read(m, step)
    BY <1>1 DEF Part
  <2>2. ASSUME NEW q \in read(m, step) PROVE q \in Part(S, key, m)
    <3>1. q \in rows /\ q.name = m /\ q.every = step
      BY <1>1, <1>3, <1>4
    <3> QED
      BY <3>1 DEF Part
  <2> QED
    BY <2>1, <2>2
<1>10. {key[q] : q \in S} = Often
  <2>1. ASSUME NEW m \in Often PROVE \E q \in S : key[q] = m
    <3>1. PICK q : q \in Part(S, key, m)
      BY <1>7, <1>9
    <3> QED
      BY <3>1 DEF Part
  <2> QED
    BY <2>1
<1> HIDE DEF S, key, of
<1>11. Cardinality(Often) * N <= Cardinality(S)
  <2>1. \A k \in {key[q] : q \in S} :
          N <= Cardinality(Part(S, key, k)) /\ Cardinality(Part(S, key, k)) <= N
    BY <1>6, <1>7, <1>9, <1>10
  <2>2. Cardinality({key[q] : q \in S}) * N <= Cardinality(S)
    BY <1>6, <1>8, <2>1, CountByParts
  <2> QED
    BY <1>10, <2>2
<1>12. Cardinality(S) <= Cardinality(of) /\ Cardinality(S) \in Nat /\ Cardinality(of) \in Nat
  BY <1>8, FS_Subset, FS_CardinalityType
<1>13. Cardinality(Often) * N <= Cardinality(of)
  <2>1. Cardinality(Often) \in Nat
    BY AskedOften, FS_CardinalityType
  <2> DEFINE p == Cardinality(Often) * N
  <2>2. p \in Int /\ p <= Cardinality(S)
    BY <1>6, <1>11, <2>1
  <2> HIDE DEF p
  <2>3. p <= Cardinality(of)
    BY <1>12, <2>2
  <2> QED
    BY <2>3 DEF p
<1> QED
  BY <1>8, <1>13 DEF of, rows, N

\* Readings of any other length: fewer.
LEMMA OtherIntervals ==
  ASSUME NEW source \in Sources, NEW r \in Requests, NEW profile \in Profiles,
         NEW n, n # 60 \div r.steps
  PROVE  LET rows == Intervals(RunSql(source, r, profile), Meters)
             of == {q \in rows : q.interval = n}
         IN  /\ IsFiniteSet(of)
             /\ Cardinality(of) <= (Cardinality(Seldom) + 1) * (Resolve(r).days * HoursPerDay)
<1> DEFINE rows == Intervals(RunSql(source, r, profile), Meters)
           F(m) == Frequencies(Requested(Prototype.meters), m)
           read(m, every) == Metered(m, every, Resolve(r), r.steps, profile)
           step == "step"
           S == {q \in rows : q.interval = n}
           d == Resolve(r).days * HoursPerDay
           key == [q \in S |-> <<q.name, q.every>>]
           K == Seldom \cup {<<FacilityMeter, "month">>}
<1>1. /\ IsFiniteSet(rows)
      /\ \A q \in rows : q.name \in Meters /\ q.every \in F(q.name) /\ q \in read(q.name, q.every)
  BY RunMeters
<1>2. /\ Resolve(r).days \in Nat \ {0} /\ r.steps \in 1 .. 60 /\ 60 % r.steps = 0
      /\ Period(Resolve(r))
  BY RequestType
<1>3. \A m, every : \A q \in read(m, every) :
        every = step => q.interval = 60 \div r.steps
  BY MeteredFields
<1>5. d \in Nat
  BY <1>2, CurveAssumption
<1>6. \A m \in Meters : \A every \in F(m) : every # step => <<m, every>> \in K
  BY FrequencyAsked
<1>7. \A m, every : every # step => IsFiniteSet(read(m, every)) /\ Cardinality(read(m, every)) <= d
  BY <1>2, MeteredTimes
<1>8. /\ IsFiniteSet(K) /\ Cardinality(K) \in Nat /\ Cardinality(Seldom) \in Nat
      /\ Cardinality(K) <= Cardinality(Seldom) + 1
  <2> DEFINE monthly == <<FacilityMeter, "month">>
  <2> HIDE DEF monthly
  <2>1. IsFiniteSet(Seldom) /\ Cardinality(Seldom) \in Nat
    BY AskedOften, FS_CardinalityType
  <2>2. /\ IsFiniteSet(Seldom \cup {monthly})
        /\ Cardinality(Seldom \cup {monthly}) \in {Cardinality(Seldom), Cardinality(Seldom) + 1}
    BY <2>1, FS_AddElement
  <2> QED
    BY <2>1, <2>2 DEF monthly
<1> HIDE DEF rows, F, read, step, d, K
<1>9. ASSUME NEW q \in S PROVE q.every # step /\ key[q] \in K
  <2>1. q \in read(q.name, q.every) /\ q.interval = n
    BY <1>1
  <2>2. q.every # step
    BY <1>3, <2>1
  <2> QED
    BY <1>1, <1>6, <2>2
<1>10. IsFiniteSet(S)
  BY <1>1, FS_Subset
<1>11. ASSUME NEW k \in {key[q] : q \in S}
       PROVE  Cardinality(Part(S, key, k)) \in Nat /\ Cardinality(Part(S, key, k)) <= d
  <2>1. PICK q \in S : k = key[q]
    OBVIOUS
  <2> DEFINE all == read(q.name, q.every)
  <2>2. ASSUME NEW p \in Part(S, key, k) PROVE p \in all
    <3>1. p \in S /\ <<p.name, p.every>> = <<q.name, q.every>>
      BY <2>1 DEF Part
    <3>2. p.name = q.name /\ p.every = q.every /\ p \in rows
      BY <3>1
    <3> QED
      BY <1>1, <3>2
  <2>3. IsFiniteSet(all) /\ Cardinality(all) <= d
    BY <1>7, <1>9
  <2> HIDE DEF all, S, key
  <2>4. Part(S, key, k) \subseteq all
    BY <2>2
  <2>5. /\ Cardinality(Part(S, key, k)) \in Nat /\ Cardinality(all) \in Nat
        /\ Cardinality(Part(S, key, k)) <= Cardinality(all)
    BY <2>3, <2>4, FS_Subset, FS_CardinalityType
  <2> QED
    BY <1>5, <2>3, <2>5
<1> DEFINE keys == {key[q] : q \in S}
<1>12. keys \subseteq K
  BY <1>9
<1> HIDE DEF S, key
<1>13. Cardinality(S) <= Cardinality(keys) * d
  <2>1. \A k \in {key[q] : q \in S} :
          0 <= Cardinality(Part(S, key, k)) /\ Cardinality(Part(S, key, k)) <= d
    BY <1>11
  <2>2. d \in Int /\ 0 \in Int
    BY <1>5
  <2> QED
    BY <1>10, <2>1, <2>2, CountByParts
<1>14. Cardinality(keys) <= Cardinality(K) /\ Cardinality(keys) \in Nat
  <2> HIDE DEF keys
  <2> QED
    BY <1>8, <1>12, FS_Subset, FS_CardinalityType
<1> HIDE DEF keys
<1>15. Cardinality(S) <= (Cardinality(Seldom) + 1) * d
  <2>1. /\ Cardinality(keys) * d <= (Cardinality(Seldom) + 1) * d
        /\ Cardinality(keys) * d \in Int /\ (Cardinality(Seldom) + 1) * d \in Int
    <3>1. Cardinality(Seldom) + 1 \in Int /\ Cardinality(keys) <= Cardinality(Seldom) + 1
      BY <1>8, <1>14
    <3> QED
      BY <1>5, <1>14, <3>1, Product
  <2>2. Cardinality(S) \in Nat
    BY <1>10, FS_CardinalityType
  <2> DEFINE x == Cardinality(keys) * d
             y == (Cardinality(Seldom) + 1) * d
  <2>3. Cardinality(S) <= x /\ x <= y /\ x \in Int /\ y \in Int
    BY <1>13, <2>1
  <2> HIDE DEF x, y
  <2>4. Cardinality(S) <= y
    BY <2>2, <2>3
  <2> QED
    BY <2>4 DEF y
<1> QED
  BY <1>10, <1>15 DEF S, rows, d

\* The timestep inferred of an arm that ran to its end is the one asked for.
LEMMA TimestepInferred ==
  ASSUME ComfortMetered, NEW source \in Sources, NEW r \in Requests, NEW profile \in Profiles
  PROVE  Kpis(RunSql(source, r, profile)).timestep = 60 \div r.steps
<1> DEFINE rows == Intervals(RunSql(source, r, profile), Meters)
           t == 60 \div r.steps
           steps == r.steps
           d == Resolve(r).days * HoursPerDay
           of(n) == {q \in rows : q.interval = n}
           often == Cardinality(Often)
           seldom == Cardinality(Seldom)
           known == {q.interval : q \in rows}
<1>1. steps \in Nat /\ d \in Nat \ {0}
  <2>1. Resolve(r).days \in Nat \ {0} /\ steps \in 1 .. 60 /\ HoursPerDay \in Nat \ {0}
    BY RequestType, CurveAssumption
  <2> QED
    BY <2>1
<1>2. often \in Nat /\ seldom \in Nat /\ seldom + 1 < steps * often
  BY AskedOften, FS_CardinalityType
<1>3. IsFiniteSet(of(t)) /\ often * (d * steps) <= Cardinality(of(t))
  <2>1. Resolve(r).days * HoursPerDay * r.steps = d * steps
    OBVIOUS
  <2> QED
    BY <2>1, StepIntervals
<1>4. \A n : n # t => IsFiniteSet(of(n)) /\ Cardinality(of(n)) <= (seldom + 1) * d
  BY OtherIntervals
<1> HIDE DEF rows, t, steps, d, often, seldom
<1>5. (seldom + 1) * d < often * (d * steps)
  <2>1. steps * often \in Nat /\ seldom + 2 <= steps * often
    BY <1>1, <1>2
  <2> DEFINE so == steps * often
  <2> HIDE DEF so
  <2>2. (seldom + 2) * d <= so * d /\ (seldom + 2) * d \in Int /\ so * d \in Int
    <3>1. seldom + 2 \in Int /\ so \in Int /\ seldom + 2 <= so
      BY <1>2, <2>1 DEF so
    <3> QED
      BY <1>1, <3>1, Product
  <2>3. (seldom + 2) * d = (seldom + 1) * d + d /\ (seldom + 1) * d \in Int
    BY <1>1, <1>2
  <2>4. so * d = often * (d * steps)
    BY <1>1, <1>2 DEF so
  <2> DEFINE x == (seldom + 2) * d
             y == (seldom + 1) * d
             z == often * (d * steps)
  <2>5. x <= z /\ x = y + d /\ x \in Int /\ y \in Int /\ z \in Int
    BY <2>2, <2>3, <2>4
  <2> HIDE DEF x, y, z
  <2>6. y < z
    BY <1>1, <2>5
  <2> QED
    BY <2>6 DEF y, z
<1>6. \A n : Cardinality(of(n)) \in Nat
  BY <1>3, <1>4, FS_CardinalityType
<1>7. \A n : n # t => Cardinality(of(n)) < Cardinality(of(t))
  <2> DEFINE y == (seldom + 1) * d
             z == often * (d * steps)
  <2>1. y \in Int /\ z \in Int /\ y < z
    BY <1>1, <1>2, <1>5
  <2>2. z <= Cardinality(of(t)) /\ \A n : n # t => Cardinality(of(n)) <= y
    BY <1>3, <1>4
  <2> HIDE DEF of, y, z
  <2> QED
    BY <1>6, <2>1, <2>2
<1>8. t \in known
  <2>1. of(t) # {}
    <3> DEFINE z == often * (d * steps)
               y == (seldom + 1) * d
    <3>1. z \in Int /\ y \in Nat /\ y < z /\ z <= Cardinality(of(t))
      BY <1>1, <1>2, <1>3, <1>5
    <3> HIDE DEF z, y, of
    <3>2. Cardinality(of(t)) # 0
      BY <1>6, <3>1
    <3> QED
      BY <3>2, FS_EmptySet
  <2> QED
    BY <2>1
<1>9. InferTimestep(rows) = t
  <2> DEFINE times(n) == Cardinality({q \in rows : q.interval = n})
  <2>1. InferTimestep(rows) = CHOOSE n \in known : \A m \in known : times(m) <= times(n)
    BY <1>8 DEF InferTimestep
  <2>2. \A n : times(n) \in Nat /\ (n # t => times(n) < times(t))
    BY <1>6, <1>7
  <2> HIDE DEF times, known, of
  <2>3. \A m \in known : times(m) <= times(t)
    <3> SUFFICES ASSUME NEW m \in known PROVE times(m) <= times(t)
      OBVIOUS
    <3>1. CASE m = t
      BY <2>2, <3>1
    <3>2. CASE m # t
      BY <2>2, <3>2
    <3> QED
      BY <3>1, <3>2
  <2>4. \A n \in known : (\A m \in known : times(m) <= times(n)) => n = t
    <3> SUFFICES ASSUME NEW n \in known, times(t) <= times(n), n # t PROVE FALSE
      BY <1>8
    <3>1. times(n) < times(t) /\ times(n) \in Nat /\ times(t) \in Nat
      BY <2>2
    <3> QED
      BY <3>1
  <2> QED
    BY <1>8, <2>1, <2>3, <2>4
<1>10. {FacilityMeter} \cup HvacMeters = Meters
  BY DEF Meters
<1> QED
  BY <1>9, <1>10 DEF Kpis, rows, t

\* What the table has of a zone at a time.
At(rows, zones, time, z) ==
  [time |-> time, zone |-> z, occupancy |-> ReadAt(rows, time, Occupancy, z),
   pmv |-> ReadAt(rows, time, Pmv, zones[z].people)]
Aired(rows, zones) == {q \in rows : q.name = AirTemp /\ q.key \in DOMAIN zones}
Busy(sql, zones, z) ==
  {s \in ZoneSeries(sql, zones) : s.zone = z /\ \E v \in s.occupancy : v > 0}
Bad(sql, zones, z) ==
  {s \in Busy(sql, zones, z) : \E v \in s.pmv : v > Threshold \/ -v > Threshold}

LEMMA ZoneSeriesAre ==
  ASSUME NEW sql, NEW zones
  PROVE  ZoneSeries(sql, zones)
           = {At(Counted(sql), zones, Midpoint(q), q.key) : q \in Aired(Counted(sql), zones)}
BY DEF ZoneSeries, At, Aired, ReadAt

LEMMA ComfortTable ==
  ASSUME NEW sql, NEW zones
  PROVE  /\ DOMAIN Comfort(sql, zones) = {s.zone : s \in ZoneSeries(sql, zones)}
         /\ \A z \in DOMAIN Comfort(sql, zones) :
              /\ Comfort(sql, zones)[z].occupied
                   = Kpis(sql).timestep * Cardinality(Busy(sql, zones, z))
              /\ Comfort(sql, zones)[z].violation
                   = Kpis(sql).timestep * Cardinality(Bad(sql, zones, z))
BY DEF Comfort, Busy, Bad

LEMMA AtFields ==
  ASSUME NEW rows, NEW zones, NEW time, NEW z
  PROVE  /\ At(rows, zones, time, z).time = time /\ At(rows, zones, time, z).zone = z
         /\ At(rows, zones, time, z).occupancy = ReadAt(rows, time, Occupancy, z)
         /\ At(rows, zones, time, z).pmv = ReadAt(rows, time, Pmv, zones[z].people)
BY DEF At

\* The zone variables and the PMV of each zone are keyed.
LEMMA ZoneKeyed ==
  ASSUME NEW z \in PrototypeZones
  PROVE  /\ EveryStep(z, AirTemp) \in Keyed /\ EveryStep(z, Occupancy) \in Keyed
         /\ LET people == Prepared(Prototype).zones[z].people
            IN  people # NoPeople => EveryStep(people, Pmv) \in Keyed
<1>1. {AirTemp, Occupancy} \subseteq ZoneVariables /\ Pmv \in PeopleVariables
  BY PrototypeAssumption
<1>2. \A v \in ZoneVariables : EveryStep(z, v) \in Keyed
  <2> SUFFICES ASSUME NEW v \in ZoneVariables PROVE EveryStep(z, v) \in Keyed
    OBVIOUS
  <2> DEFINE w == <<z, v>>
  <2>1. w \in PrototypeZones \X ZoneVariables /\ w[1] = z /\ w[2] = v
    OBVIOUS
  <2> HIDE DEF w
  <2> QED
    BY <2>1 DEF Keyed
<1>3. ASSUME Prepared(Prototype).zones[z].people # NoPeople
      PROVE  EveryStep(Prepared(Prototype).zones[z].people, Pmv) \in Keyed
  <2> DEFINE w == <<Prepared(Prototype).zones[z].people, Pmv>>
  <2>1. Prepared(Prototype).zones[z].people \in PrototypePeople
    BY <1>3, PreparedZones
  <2>2. w \in PrototypePeople \X PeopleVariables
        /\ w[1] = Prepared(Prototype).zones[z].people /\ w[2] = Pmv
    BY <1>1, <2>1
  <2> HIDE DEF w
  <2> QED
    BY <2>2 DEF Keyed
<1> QED
  BY <1>1, <1>2, <1>3

\* Each zone has an air temperature in every timestep.
LEMMA AiredZones ==
  ASSUME ComfortMetered, NEW source \in Sources, NEW r \in Requests, NEW profile \in Profiles,
         NEW z \in PrototypeZones, NEW i \in StepsIn(Resolve(r).days, r.steps)
  PROVE  \E q \in Aired(Counted(RunSql(source, r, profile)), Prepared(Prototype).zones) :
           q.key = z /\ Midpoint(q) = Middle(i, r.steps)
<1> DEFINE rows == Counted(RunSql(source, r, profile))
           days == Resolve(r).days
           steps == r.steps
           named == Named(AirTemp, days, steps)
<1>1. days \in Nat \ {0} /\ steps \in 1 .. 60 /\ 60 % steps = 0
  BY RequestType
<1>2. AirTemp \notin Meters
  BY PrototypeAssumption
<1>3. {q \in rows : q.name = AirTemp} = named
  BY <1>2, RunVariables
<1>4. i \in StepsIn(days, steps) /\ EveryStep(z, AirTemp) \in Keyed
  BY ZoneKeyed
<1>5. \E q \in named : q.key = z /\ Midpoint(q) = Middle(i, steps)
  <2> HIDE DEF days, steps
  <2> QED
    BY <1>1, <1>4, KeyedReadings
<1>6. z \in DOMAIN Prepared(Prototype).zones
  BY PreparedZones
<1> HIDE DEF named, rows
<1>7. PICK q \in named : q.key = z /\ Midpoint(q) = Middle(i, steps)
  BY <1>5
<1>8. q \in rows /\ q.name = AirTemp
  BY <1>3, <1>7
<1> QED
  BY <1>6, <1>7, <1>8 DEF Aired, rows

\* A zone is occupied in the timesteps it was, and uncomfortable in those it was.
LEMMA BusyIs ==
  ASSUME ComfortMetered, NEW source \in Sources, NEW r \in Requests, NEW profile \in Profiles,
         NEW z \in PrototypeZones
  PROVE  LET sql == RunSql(source, r, profile)
             zones == Prepared(Prototype).zones
             S == StepsIn(Resolve(r).days, r.steps)
             rec == [i \in S |-> At(Counted(sql), zones, Middle(i, r.steps), z)]
         IN  /\ Busy(sql, zones, z) = {rec[i] : i \in Occupied \cap S}
             /\ zones[z].people # NoPeople =>
                  Bad(sql, zones, z) = {rec[i] : i \in Occupied \cap Uncomfortable \cap S}
             /\ \A i, j \in S : rec[i] = rec[j] => i = j
             /\ S # {} => \E s \in ZoneSeries(sql, zones) : s.zone = z
<1> DEFINE sql == RunSql(source, r, profile)
           rows == Counted(sql)
           zones == Prepared(Prototype).zones
           steps == r.steps
           S == StepsIn(Resolve(r).days, steps)
           at(i) == At(rows, zones, Middle(i, steps), z)
           rec == [i \in S |-> at(i)]
           series == ZoneSeries(sql, zones)
           aired == Aired(rows, zones)
           people == zones[z].people
<1>1. series = {At(rows, zones, Midpoint(q), q.key) : q \in aired}
  BY ZoneSeriesAre
<1>2. \A i \in S : \E q \in aired : q.key = z /\ Midpoint(q) = Middle(i, steps)
  BY AiredZones
<1>3. /\ \A time : \A v \in ReadAt(rows, time, Occupancy, z) :
           \E i \in S : time = Middle(i, steps) /\ v = StepValue(Occupancy, i)
      /\ \A i \in S : ReadAt(rows, Middle(i, steps), Occupancy, z) = {StepValue(Occupancy, i)}
  <2>1. EveryStep(z, Occupancy) \in Keyed
    BY ZoneKeyed
  <2>2. ReadAsWas(rows, Resolve(r).days, steps, Occupancy)
    BY ReadsAre
  <2> HIDE DEF rows, steps
  <2> QED
    BY <2>1, <2>2 DEF ReadAsWas
<1>4. people # NoPeople =>
        \A i \in S : ReadAt(rows, Middle(i, steps), Pmv, people) = {StepValue(Pmv, i)}
  <2>1. people # NoPeople => EveryStep(people, Pmv) \in Keyed
    BY ZoneKeyed
  <2>2. ReadAsWas(rows, Resolve(r).days, steps, Pmv)
    BY ReadsAre
  <2> HIDE DEF rows, steps, people
  <2> QED
    BY <2>1, <2>2 DEF ReadAsWas
<1>5. \A i, j \in S : Middle(i, steps) = Middle(j, steps) => i = j
  <2>1. Resolve(r).days \in Nat \ {0} /\ steps \in 1 .. 60 /\ 60 % steps = 0
    BY RequestType
  <2>2. \A i \in S : i \in Nat
    <3> HIDE DEF steps
    <3> QED
      BY <2>1, OneStep
  <2> HIDE DEF S, steps
  <2> QED
    BY <2>1, <2>2, MiddlesDiffer
<1>6. Busy(sql, zones, z) = {s \in series : s.zone = z /\ \E v \in s.occupancy : v > 0}
  BY DEF Busy
<1>7. Bad(sql, zones, z)
        = {s \in Busy(sql, zones, z) : \E v \in s.pmv : v > Threshold \/ -v > Threshold}
  BY DEF Bad
<1>8. \A time, y : /\ At(rows, zones, time, y).time = time /\ At(rows, zones, time, y).zone = y
                   /\ At(rows, zones, time, y).occupancy = ReadAt(rows, time, Occupancy, y)
                   /\ At(rows, zones, time, y).pmv = ReadAt(rows, time, Pmv, zones[y].people)
  BY AtFields
<1>9. \A i \in S : at(i).time = Middle(i, steps) /\ at(i).zone = z
                   /\ at(i).occupancy = {StepValue(Occupancy, i)}
                   /\ (people # NoPeople => at(i).pmv = {StepValue(Pmv, i)})
  <2> HIDE DEF sql, rows, zones, S, steps
  <2> QED
    BY <1>3, <1>4, <1>8
<1>10. \A i \in S : at(i) \in series
  <2> SUFFICES ASSUME NEW i \in S PROVE at(i) \in series
    OBVIOUS
  <2>1. PICK q \in aired : q.key = z /\ Midpoint(q) = Middle(i, steps)
    BY <1>2
  <2> HIDE DEF sql, rows, zones, S, steps, aired, series
  <2>2. At(rows, zones, Midpoint(q), q.key) \in series
    BY <1>1, <2>1
  <2> QED
    BY <2>1, <2>2
<1>11. ASSUME NEW s \in Busy(sql, zones, z) PROVE \E i \in Occupied \cap S : s = at(i)
  <2> HIDE DEF sql, rows, zones, S, steps, aired, series
  <2>1. s \in series /\ s.zone = z /\ \E v \in s.occupancy : v > 0
    BY <1>6
  <2>2. PICK q \in aired : s = At(rows, zones, Midpoint(q), q.key)
    BY <1>1, <2>1
  <2>3. q.key = z /\ s.occupancy = ReadAt(rows, Midpoint(q), Occupancy, z)
    BY <1>8, <2>1, <2>2
  <2>4. PICK v \in ReadAt(rows, Midpoint(q), Occupancy, z) : v > 0
    BY <2>1, <2>3
  <2>5. PICK i \in S : Midpoint(q) = Middle(i, steps) /\ v = StepValue(Occupancy, i)
    BY <1>3
  <2>6. i \in Occupied
    BY <2>4, <2>5, StepOccupied
  <2>7. s = at(i)
    BY <2>2, <2>3, <2>5
  <2> QED
    BY <2>5, <2>6, <2>7
<1>12. ASSUME NEW i \in S
       PROVE  /\ at(i) \in Busy(sql, zones, z) <=> i \in Occupied
              /\ people # NoPeople =>
                   ((\E v \in at(i).pmv : v > Threshold \/ -v > Threshold) <=> i \in Uncomfortable)
  <2>1. at(i).zone = z /\ at(i).occupancy = {StepValue(Occupancy, i)} /\ at(i) \in series
    BY <1>9, <1>10
  <2>2. people # NoPeople => at(i).pmv = {StepValue(Pmv, i)}
    BY <1>9
  <2> HIDE DEF sql, zones, S, steps, series, at, people
  <2>3. (\E v \in at(i).occupancy : v > 0) <=> i \in Occupied
    BY <2>1, StepOccupied
  <2>4. people # NoPeople =>
          ((\E v \in at(i).pmv : v > Threshold \/ -v > Threshold) <=> i \in Uncomfortable)
    BY <2>2, StepComfort
  <2>5. at(i) \in Busy(sql, zones, z) <=> i \in Occupied
    BY <1>6, <2>1, <2>3
  <2> QED
    BY <2>4, <2>5
<1> HIDE DEF sql, rows, zones, steps, S, at, series, people
<1>13. Busy(sql, zones, z) = {rec[i] : i \in Occupied \cap S}
  BY <1>11, <1>12
<1>14. ASSUME people # NoPeople
       PROVE  Bad(sql, zones, z) = {rec[i] : i \in Occupied \cap Uncomfortable \cap S}
  BY <1>7, <1>11, <1>12, <1>14
<1>15. \A i, j \in S : rec[i] = rec[j] => i = j
  <2>1. \A i \in S : rec[i].time = Middle(i, steps)
    BY <1>9
  <2> HIDE DEF rec
  <2> QED
    BY <1>5, <2>1
<1>16. S # {} => \E s \in series : s.zone = z
  BY <1>9, <1>10
<1> QED
  BY <1>13, <1>14, <1>15, <1>16 DEF sql, rows, zones, steps, S, at, series, people

\* The table of an arm that ran to its end.
LEMMA ComfortIs ==
  ASSUME ComfortMetered, NEW source \in Sources, NEW r \in Requests, NEW profile \in Profiles
  PROVE  LET zones == Prepared(Prototype).zones
             table == Comfort(RunSql(source, r, profile), zones)
             hours(T) == (60 \div r.steps) * Cardinality(T \cap StepsIn(Resolve(r).days, r.steps))
         IN  /\ DOMAIN table = DOMAIN zones
             /\ \A z \in DOMAIN zones :
                  /\ table[z].occupied = hours(Occupied)
                  /\ zones[z].people # NoPeople =>
                       table[z].violation = hours(Occupied \cap Uncomfortable)
<1> DEFINE zones == Prepared(Prototype).zones
           sql == RunSql(source, r, profile)
           table == Comfort(sql, zones)
           S == StepsIn(Resolve(r).days, r.steps)
           t == 60 \div r.steps
           rec(z) == [i \in S |-> At(Counted(sql), zones, Middle(i, r.steps), z)]
           series == ZoneSeries(sql, zones)
<1>1. DOMAIN zones = PrototypeZones
  BY PreparedZones
<1>2. \A z \in PrototypeZones :
        /\ Busy(sql, zones, z) = {rec(z)[i] : i \in Occupied \cap S}
        /\ zones[z].people # NoPeople =>
             Bad(sql, zones, z) = {rec(z)[i] : i \in Occupied \cap Uncomfortable \cap S}
        /\ \A i, j \in S : rec(z)[i] = rec(z)[j] => i = j
        /\ S # {} => \E s \in series : s.zone = z
  BY BusyIs
<1>3. IsFiniteSet(S) /\ S # {}
  <2>1. Resolve(r).days \in Nat \ {0} /\ r.steps \in 1 .. 60 /\ HoursPerDay \in Nat \ {0}
    BY RequestType, CurveAssumption
  <2>2. IsFiniteSet(S)
    BY <2>1, StepsInFinite
  <2> DEFINE d == Resolve(r).days * HoursPerDay
             top == d * r.steps
  <2>3. d \in Nat \ {0} /\ r.steps \in Nat \ {0}
    BY <2>1
  <2>4. S = 1 .. top
    BY DEF StepsIn
  <2> HIDE DEF d, S
  <2>5. top \in Nat \ {0}
    BY <2>3
  <2> HIDE DEF top
  <2> QED
    BY <2>2, <2>4, <2>5
<1>4. Kpis(sql).timestep = t
  BY TimestepInferred
<1>5. series = {At(Counted(sql), zones, Midpoint(q), q.key) : q \in Aired(Counted(sql), zones)}
  BY ZoneSeriesAre
<1>6. \A q \in Aired(Counted(sql), zones) : q.key \in DOMAIN zones
  BY DEF Aired
<1> HIDE DEF S, rec, t, sql, zones, series
<1>7. DOMAIN table = DOMAIN zones
  <2>1. DOMAIN table = {s.zone : s \in series}
    BY ComfortTable DEF series
  <2>2. \A s \in series : s.zone \in DOMAIN zones
    BY <1>5, <1>6, AtFields
  <2> QED
    BY <1>1, <1>2, <1>3, <2>1, <2>2
<1>8. ASSUME NEW z \in PrototypeZones, NEW T
      PROVE  Cardinality({rec(z)[i] : i \in T \cap S}) = Cardinality(T \cap S)
  <2> DEFINE U == T \cap S
             f == rec(z)
  <2>1. IsFiniteSet(U) /\ \A i, j \in U : f[i] = f[j] => i = j
    BY <1>2, <1>3, FS_Subset
  <2> HIDE DEF U, f
  <2>2. Cardinality({f[i] : i \in U}) = Cardinality(U)
    BY <2>1, CountImage
  <2> QED
    BY <2>2 DEF U, f
<1>9. ASSUME NEW z \in DOMAIN zones
      PROVE  /\ table[z].occupied = t * Cardinality(Occupied \cap S)
             /\ zones[z].people # NoPeople =>
                  table[z].violation = t * Cardinality((Occupied \cap Uncomfortable) \cap S)
  <2>1. z \in PrototypeZones /\ z \in DOMAIN table
    BY <1>1, <1>7
  <2>2. /\ table[z].occupied = t * Cardinality(Busy(sql, zones, z))
        /\ table[z].violation = t * Cardinality(Bad(sql, zones, z))
    BY <1>4, <2>1, ComfortTable
  <2>3. Cardinality(Busy(sql, zones, z)) = Cardinality(Occupied \cap S)
    BY <1>2, <1>8, <2>1
  <2>4. ASSUME zones[z].people # NoPeople
        PROVE  Cardinality(Bad(sql, zones, z)) = Cardinality((Occupied \cap Uncomfortable) \cap S)
    <3> DEFINE T == Occupied \cap Uncomfortable
    <3>1. Bad(sql, zones, z) = {rec(z)[i] : i \in T \cap S}
      BY <1>2, <2>1, <2>4
    <3> HIDE DEF T
    <3> QED
      BY <1>8, <2>1, <3>1 DEF T
  <2> QED
    BY <2>2, <2>3, <2>4
<1> QED
  BY <1>7, <1>9 DEF table, zones, sql, S, t

LEMMA RunsComfort == ComfortMetered /\ IInv /\ RunsInv => ComfortHoursReal
<1> SUFFICES ASSUME ComfortMetered, IInv, RunsInv, NEW l \in Reported, dirs[l].outcome # "fatal"
             PROVE  LET row(z) == report.arms[l].comfort[z]
                        minutes(S) == (60 \div request.steps) * Cardinality(S \cap PeriodSteps)
                    IN  /\ DOMAIN report.arms[l].comfort = DOMAIN prepared.zones
                        /\ \A z \in DOMAIN prepared.zones :
                             /\ row(z).occupied = minutes(Occupied)
                             /\ prepared.zones[z].people # NoPeople =>
                                  row(z).violation = minutes(Occupied \cap Uncomfortable)
  BY DEF ComfortHoursReal
<1>1. report # NoFile /\ l \in DOMAIN report.arms
  BY DEF Reported
<1>2. /\ stage \in {"done", "raised"}
      /\ report.arms = [k \in Left |-> ArmReport(dirs[k].sql, prepared.zones)]
  BY <1>1 DEF RunsInv, ReportOfDirs
<1>3. l \in Left /\ report.arms[l] = ArmReport(dirs[l].sql, prepared.zones)
  BY <1>1, <1>2
<1>4. PICK r \in Requests : request = Resolved(r)
  BY <1>2 DEF IInv, RunAsAsked
<1>5. prepared = Prepared(Prototype) /\ request.period = Resolve(r) /\ request.steps = r.steps
  BY <1>2, <1>4 DEF IInv, RunAsAsked, Resolved
<1>6. /\ dirs[l].profile \in Profiles /\ Source(l) \in Sources
      /\ dirs[l].sql = RunSql(Source(l), r, dirs[l].profile)
  <2>1. l \in Labels /\ dirs[l] # NoFile
    BY <1>3 DEF Left
  <2>2. /\ dirs[l].profile \in Profiles
        /\ dirs[l].sql = Simulated(PrepareArm(Source(l), request.period, request.steps),
                                   prepared.zones, dirs[l].profile)
    BY <2>1 DEF RunsInv, ArmsAreRuns
  <2>3. Source(l) \in Sources
    BY <1>5 DEF Source, Sources
  <2> QED
    BY <1>5, <2>2, <2>3 DEF RunSql
<1>7. PeriodSteps = StepsIn(Resolve(r).days, r.steps)
  BY <1>5 DEF PeriodSteps, StepsIn
<1> DEFINE zones == prepared.zones
           sql == dirs[l].sql
           table == Comfort(sql, zones)
           hours(T) == (60 \div r.steps) * Cardinality(T \cap StepsIn(Resolve(r).days, r.steps))
<1>8. report.arms[l].comfort = table
  BY <1>3 DEF ArmReport
<1>9. zones = Prepared(Prototype).zones
  BY <1>5
<1>10. /\ DOMAIN table = DOMAIN zones
       /\ \A z \in DOMAIN zones :
            /\ table[z].occupied = hours(Occupied)
            /\ zones[z].people # NoPeople =>
                 table[z].violation = hours(Occupied \cap Uncomfortable)
  <2> DEFINE made == Prepared(Prototype).zones
             counted == Comfort(RunSql(Source(l), r, dirs[l].profile), made)
  <2>1. /\ DOMAIN counted = DOMAIN made
        /\ \A z \in DOMAIN made :
             /\ counted[z].occupied = hours(Occupied)
             /\ made[z].people # NoPeople =>
                  counted[z].violation = hours(Occupied \cap Uncomfortable)
    BY <1>6, ComfortIs
  <2>2. table = counted /\ zones = made
    BY <1>6, <1>9
  <2> HIDE DEF table, zones, counted, made, hours
  <2> QED
    BY <2>1, <2>2
<1> HIDE DEF sql
<1> QED
  BY <1>5, <1>7, <1>8, <1>10

\* The hours a report states of an arm that ran to its end, occupied and in
\* discomfort, are those that were, for any zones, occupancy and request, as long as
\* most readings of the meters are of a timestep: the timestep they are counted by
\* is inferred from those (kpis.py's _infer_timestep_minutes, report.py's
\* comfort_table).
THEOREM ComfortHoursRight ==
  ASSUME ComfortMetered
  PROVE  Spec => []ComfortHoursReal
<1>1. IInv /\ RunsInv => ComfortHoursReal
  BY RunsComfort
<1> QED
  BY <1>1, InitInvariant, StepInvariant, InitRuns, StepRuns, PTL DEF Spec
=============================================================================
