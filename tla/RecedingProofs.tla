--------------------------- MODULE RecedingProofs ---------------------------
(***************************************************************************)
(* For any horizon, zones, wiring, baseline, plans, years and results of   *)
(* EnergyPlus: the model of a chunk has what the plan asks for, however    *)
(* long ago the plan was made, or the baseline if the plan has its anchor  *)
(* in a later year; and the store has the timesteps of the run period in   *)
(* their order.                                                            *)
(***************************************************************************)
EXTENDS Receding, SequenceTheorems, FiniteSetTheorems, WellFoundedInduction, TLAPS

-----------------------------------------------------------------------------
(* Least and greatest elements.                                            *)

LEMMA LeastExists ==
  ASSUME NEW S, S \subseteq Nat, S # {}
  PROVE  \E x \in S : \A y \in S : x <= y
<1> DEFINE Below == {p \in Nat \X Nat : p[1] < p[2]}
<1>1. IsWellFoundedOn(Below, Nat)
  BY NatLessThanWellFounded DEF OpToRel
<1>2. PICK x \in S : \A y \in S : <<y, x>> \notin Below
  <2> HIDE DEF Below
  <2> QED
    BY <1>1, WFMin
<1>3. \A y \in S : x <= y
  <2> TAKE y \in S
  <2>1. <<y, x>> \in Nat \X Nat /\ <<y, x>> \notin Below
    BY <1>2
  <2>2. ~(y < x) /\ x \in Nat /\ y \in Nat
    BY <2>1
  <2> QED
    BY <2>2
<1> QED
  BY <1>3

LEMMA MinNat ==
  ASSUME NEW S, S \subseteq Nat, S # {}
  PROVE  Min(S) \in S /\ \A y \in S : Min(S) <= y
<1>1. \E x \in S : \A y \in S : x <= y
  BY LeastExists
<1> QED
  BY <1>1 DEF Min

LEMMA ImageFinite ==
  ASSUME NEW S, IsFiniteSet(S), NEW f
  PROVE  IsFiniteSet({f[x] : x \in S})
<1> DEFINE T == {f[x] : x \in S}
           g == [x \in S |-> f[x]]
<1>1. g \in Surjection(S, T)
  BY DEF Surjection
<1> HIDE DEF g, T
<1>2. IsFiniteSet(T)
  BY <1>1, FS_Surjection
<1> QED
  BY <1>2 DEF T

\* By the least cardinality of a subset that has no greatest element.
LEMMA GreatestExists ==
  ASSUME NEW S, IsFiniteSet(S), S \subseteq Int, S # {}
  PROVE  \E x \in S : \A y \in S : y <= x
<1> DEFINE Without == {T \in SUBSET S : T # {} /\ ~\E x \in T : \A y \in T : y <= x}
           sizes == {Cardinality(T) : T \in Without}
<1>1. \A T \in SUBSET S : IsFiniteSet(T) /\ Cardinality(T) \in Nat
  BY FS_Subset, FS_CardinalityType
<1> SUFFICES ASSUME Without # {} PROVE FALSE
  OBVIOUS
<1>2. sizes \subseteq Nat /\ sizes # {}
  BY <1>1
<1>3. PICK T \in Without : \A U \in Without : Cardinality(T) <= Cardinality(U)
  <2>1. \E n \in sizes : \A m \in sizes : n <= m
    <3> HIDE DEF sizes
    <3> QED
      BY <1>2, LeastExists
  <2> QED
    BY <2>1
<1>4. PICK x \in T : TRUE
  OBVIOUS
<1> DEFINE U == T \ {x}
<1>5. U \in SUBSET S /\ IsFiniteSet(T) /\ Cardinality(U) \in Nat /\ Cardinality(T) \in Nat
  BY <1>1
<1>6. Cardinality(U) = Cardinality(T) - 1
  BY <1>4, <1>5, FS_RemoveElement
<1>7. U \notin Without
  <2> HIDE DEF U, Without
  <2> QED
    BY <1>3, <1>5, <1>6
<1>8. CASE U = {}
  BY <1>4, <1>8
<1>9. CASE U # {}
  <2>1. PICK y \in U : \A z \in U : z <= y
    BY <1>5, <1>7, <1>9
  <2>2. x \in Int /\ y \in Int /\ \A z \in T : z \in U \/ z = x
    OBVIOUS
  <2>3. CASE x <= y
    <3>1. \A z \in T : z <= y
      BY <2>1, <2>2, <2>3
    <3> QED
      BY <3>1
  <2>4. CASE y <= x
    <3>1. \A z \in T : z <= x
      BY <2>1, <2>2, <2>4
    <3> QED
      BY <3>1
  <2> QED
    BY <2>2, <2>3, <2>4
<1> QED
  BY <1>8, <1>9

LEMMA MaxInt ==
  ASSUME NEW S, IsFiniteSet(S), S \subseteq Int, S # {}
  PROVE  Max(S) \in S /\ \A y \in S : y <= Max(S)
<1>1. \E x \in S : \A y \in S : x >= y
  BY GreatestExists
<1> QED
  BY <1>1 DEF Max

-----------------------------------------------------------------------------
(* InOrder lists the numbers of a finite set, each greater than the one    *)
(* before it.                                                              *)

UpTo(S, x) == {m \in S : m <= x}

\* By the least cardinality of a subset some rank of which has no number.
LEMMA RankExists ==
  ASSUME NEW S, IsFiniteSet(S), S \subseteq Int
  PROVE  \A i \in 1 .. Cardinality(S) : \E x \in S : Cardinality(UpTo(S, x)) = i
<1> DEFINE Ranked(T) ==
             \A i \in 1 .. Cardinality(T) : \E x \in T : Cardinality(UpTo(T, x)) = i
           Without == {T \in SUBSET S : ~Ranked(T)}
           sizes == {Cardinality(T) : T \in Without}
<1>1. \A T \in SUBSET S : IsFiniteSet(T) /\ Cardinality(T) \in Nat
  BY FS_Subset, FS_CardinalityType
<1> SUFFICES ASSUME Without # {} PROVE FALSE
  OBVIOUS
<1>2. sizes \subseteq Nat /\ sizes # {}
  BY <1>1
<1>3. PICK T \in Without : \A U \in Without : Cardinality(T) <= Cardinality(U)
  <2>1. \E n \in sizes : \A m \in sizes : n <= m
    <3> HIDE DEF sizes, Ranked
    <3> QED
      BY <1>2, LeastExists
  <2> QED
    BY <2>1
<1>4. T \in SUBSET S /\ IsFiniteSet(T) /\ Cardinality(T) \in Nat /\ T \subseteq Int
  BY <1>1
<1>5. PICK i \in 1 .. Cardinality(T) : ~\E x \in T : Cardinality(UpTo(T, x)) = i
  OBVIOUS
<1>6. T # {}
  BY <1>5, FS_EmptySet
<1>7. PICK x \in T : \A y \in T : y <= x
  BY <1>4, <1>6, GreatestExists
<1>8. UpTo(T, x) = T
  BY <1>7 DEF UpTo
<1> DEFINE U == T \ {x}
<1>9. /\ U \in SUBSET S /\ IsFiniteSet(U) /\ Cardinality(U) \in Nat
      /\ Cardinality(U) = Cardinality(T) - 1
  BY <1>1, <1>4, <1>7, FS_RemoveElement
<1>10. Ranked(U)
  <2>1. U \notin Without
    <3> HIDE DEF U, Ranked, Without
    <3> QED
      BY <1>3, <1>4, <1>9
  <2> HIDE DEF Ranked
  <2> QED
    BY <1>9, <2>1
<1>11. CASE i = Cardinality(T)
  BY <1>5, <1>7, <1>8, <1>11
<1>12. CASE i # Cardinality(T)
  <2>1. i \in 1 .. Cardinality(U)
    BY <1>4, <1>5, <1>9, <1>12
  <2>2. PICK y \in U : Cardinality(UpTo(U, y)) = i
    BY <1>10, <2>1
  <2>3. UpTo(T, y) = UpTo(U, y)
    <3>1. y < x /\ y \in Int /\ x \in Int
      BY <1>4, <1>7
    <3>2. ~(x <= y)
      BY <3>1
    <3> QED
      BY <3>2 DEF UpTo
  <2> QED
    BY <1>5, <2>2, <2>3
<1> QED
  BY <1>11, <1>12

LEMMA InOrderListed ==
  ASSUME NEW S, IsFiniteSet(S), S \subseteq Int
  PROVE  /\ InOrder(S) \in Seq(S) /\ Len(InOrder(S)) = Cardinality(S)
         /\ Cardinality(S) \in Nat
         /\ \A i, j \in 1 .. Cardinality(S) : i < j => InOrder(S)[i] < InOrder(S)[j]
<1> DEFINE n == Cardinality(S)
           c == InOrder(S)
<1>1. n \in Nat
  BY FS_CardinalityType
<1>2. ASSUME NEW i \in 1 .. n PROVE c[i] \in S /\ Cardinality(UpTo(S, c[i])) = i
  <2>1. \E x \in S : Cardinality(UpTo(S, x)) = i
    BY RankExists
  <2>2. c[i] = CHOOSE x \in S : Cardinality(UpTo(S, x)) = i
    BY DEF InOrder, UpTo
  <2> HIDE DEF c
  <2> QED
    BY <2>1, <2>2
<1>3. c \in [1 .. n -> S]
  <2>1. c = [i \in 1 .. n |-> CHOOSE x \in S : Cardinality({m \in S : m <= x}) = i]
    BY DEF InOrder
  <2>2. \A i \in 1 .. n : c[i] \in S
    BY <1>2
  <2> HIDE DEF c, n
  <2> QED
    BY <2>1, <2>2
<1>4. c \in Seq(S) /\ Len(c) = n
  <2> HIDE DEF c, n
  <2>1. c \in Seq(S)
    BY <1>1, <1>3, SeqDef
  <2>2. DOMAIN c = 1 .. n /\ DOMAIN c = 1 .. Len(c) /\ Len(c) \in Nat
    BY <1>3, <2>1, LenProperties
  <2> QED
    BY <1>1, <2>1, <2>2
<1>5. ASSUME NEW i \in 1 .. n, NEW j \in 1 .. n, i < j PROVE c[i] < c[j]
  <2>1. c[i] \in Int /\ c[j] \in Int
    BY <1>2
  <2>2. CASE c[j] <= c[i]
    <3>1. UpTo(S, c[j]) \subseteq UpTo(S, c[i]) /\ UpTo(S, c[i]) \subseteq S
      <4> HIDE DEF c
      <4>1. \A x, y, m \in Int : m <= x /\ x <= y => m <= y
        OBVIOUS
      <4>2. \A m \in S : m <= c[j] => m <= c[i]
        BY <2>1, <2>2, <4>1
      <4> QED
        BY <4>2 DEF UpTo
    <3>2. Cardinality(UpTo(S, c[j])) <= Cardinality(UpTo(S, c[i]))
      <4> HIDE DEF c
      <4>1. IsFiniteSet(UpTo(S, c[i]))
        BY <3>1, FS_Subset
      <4> QED
        BY <3>1, <4>1, FS_Subset
    <3>3. j <= i
      <4> HIDE DEF c
      <4> QED
        BY <1>2, <3>2
    <3> QED
      BY <1>1, <1>5, <3>3
  <2> HIDE DEF c
  <2> QED
    BY <2>1, <2>2
<1> QED
  BY <1>1, <1>4, <1>5

-----------------------------------------------------------------------------
(* The latest and the earliest of some points, each of which has a place   *)
(* of its own.                                                             *)

Placed(points) ==
  /\ IsFiniteSet(points)
  /\ \A p \in points : p.at \in Int /\ p.place \in Nat /\ p.value \in Int
  /\ \A p, q \in points : p.place = q.place => p = q

LEMMA PlacedSubset ==
  ASSUME NEW points, Placed(points), NEW some \in SUBSET points
  PROVE  Placed(some)
BY FS_Subset DEF Placed

LEMMA EarlierOrder ==
  ASSUME NEW points, Placed(points), NEW p \in points, NEW q \in points
  PROVE  /\ p = q \/ Earlier(p, q) \/ Earlier(q, p)
         /\ ~(Earlier(p, q) /\ Earlier(q, p)) /\ ~Earlier(p, p)
         /\ \A r \in points : Earlier(p, q) /\ Earlier(q, r) => Earlier(p, r)
<1>1. /\ p.at \in Int /\ p.place \in Int /\ q.at \in Int /\ q.place \in Int
      /\ p.place = q.place => p = q
  BY DEF Placed
<1>2. \A r \in points : r.at \in Int /\ r.place \in Int
  BY DEF Placed
<1> QED
  BY <1>1, <1>2 DEF Earlier

LEMMA LatestExists ==
  ASSUME NEW points, Placed(points), points # {}
  PROVE  \E p \in points : \A q \in points : q = p \/ Earlier(q, p)
<1> DEFINE at == [p \in points |-> p.at]
           place == [p \in points |-> p.place]
<1>1. IsFiniteSet({at[p] : p \in points}) /\ {at[p] : p \in points} \subseteq Int
  <2> HIDE DEF at
  <2>1. IsFiniteSet({at[p] : p \in points})
    BY ImageFinite DEF Placed
  <2> QED
    BY <2>1 DEF at, Placed
<1>2. PICK t \in {at[p] : p \in points} : \A u \in {at[p] : p \in points} : u <= t
  <2>1. {at[p] : p \in points} # {}
    OBVIOUS
  <2> HIDE DEF at
  <2> QED
    BY <1>1, <2>1, GreatestExists
<1>3. t \in Int /\ \A q \in points : q.at <= t
  BY <1>1, <1>2
<1> DEFINE last == {p \in points : p.at = t}
<1>4. last # {} /\ IsFiniteSet(last)
  BY <1>2, FS_Subset DEF Placed
<1>5. IsFiniteSet({place[p] : p \in last}) /\ {place[p] : p \in last} \subseteq Int
  <2>1. {place[p] : p \in last} \subseteq Int
    BY DEF Placed
  <2> HIDE DEF place, last
  <2> QED
    BY <1>4, <2>1, ImageFinite
<1>6. PICK n \in {place[p] : p \in last} : \A m \in {place[p] : p \in last} : m <= n
  <2>1. {place[p] : p \in last} # {}
    BY <1>4
  <2> HIDE DEF place, last
  <2> QED
    BY <1>5, <2>1, GreatestExists
<1>7. PICK p \in last : p.place = n
  BY <1>6
<1>8. \A q \in last : q.place <= p.place
  BY <1>6, <1>7
<1>9. \A q \in points : q = p \/ Earlier(q, p)
  <2> TAKE q \in points
  <2>1. /\ q.at \in Int /\ q.place \in Int /\ p.place \in Int /\ p.at = t
        /\ p.place = q.place => p = q
    BY DEF Placed
  <2>2. CASE q.at = t
    <3>1. q.place <= p.place
      BY <1>8, <2>2
    <3> QED
      BY <2>1, <2>2, <3>1 DEF Earlier
  <2>3. CASE q.at # t
    BY <1>3, <2>1, <2>3 DEF Earlier
  <2> QED
    BY <2>2, <2>3
<1> QED
  BY <1>9

LEMMA LatestIs ==
  ASSUME NEW points, Placed(points), points # {}
  PROVE  /\ Latest(points) \in points
         /\ \A q \in points : q = Latest(points) \/ Earlier(q, Latest(points))
         /\ \A p \in points : (\A q \in points : q = p \/ Earlier(q, p)) => Latest(points) = p
<1>1. \E p \in points : \A q \in points : q = p \/ Earlier(q, p)
  BY LatestExists
<1>2. /\ Latest(points) \in points
      /\ \A q \in points : q = Latest(points) \/ Earlier(q, Latest(points))
  BY <1>1 DEF Latest
<1>3. \A p, q \in points : ~(Earlier(p, q) /\ Earlier(q, p))
  BY EarlierOrder
<1> QED
  BY <1>2, <1>3

\* The latest of the points turned around is the earliest.
LEMMA EarliestExists ==
  ASSUME NEW points, Placed(points), points # {}
  PROVE  \E p \in points : \A q \in points : q = p \/ Earlier(p, q)
<1> DEFINE at == [p \in points |-> 0 - p.at]
           place == [p \in points |-> 0 - p.place]
<1>0. \A p \in points : p.at \in Int /\ p.place \in Int
  BY DEF Placed
<1>1. IsFiniteSet({at[p] : p \in points}) /\ {at[p] : p \in points} \subseteq Int
  <2>1. {at[p] : p \in points} \subseteq Int
    BY <1>0
  <2> HIDE DEF at
  <2> QED
    BY <2>1, ImageFinite DEF Placed
<1>2. PICK t \in {at[p] : p \in points} : \A u \in {at[p] : p \in points} : u <= t
  <2>1. {at[p] : p \in points} # {}
    OBVIOUS
  <2> HIDE DEF at
  <2> QED
    BY <1>1, <2>1, GreatestExists
<1>3. PICK o \in points : t = 0 - o.at
  BY <1>2
<1>4. \A q \in points : o.at <= q.at
  <2> TAKE q \in points
  <2>1. 0 - q.at <= 0 - o.at
    BY <1>2, <1>3
  <2> QED
    BY <1>0, <2>1
<1> DEFINE first == {p \in points : p.at = o.at}
<1>5. first # {} /\ IsFiniteSet(first)
  BY <1>3, FS_Subset DEF Placed
<1>6. IsFiniteSet({place[p] : p \in first}) /\ {place[p] : p \in first} \subseteq Int
  <2>1. {place[p] : p \in first} \subseteq Int
    BY <1>0
  <2> HIDE DEF place, first
  <2> QED
    BY <1>5, <2>1, ImageFinite
<1>7. PICK n \in {place[p] : p \in first} : \A m \in {place[p] : p \in first} : m <= n
  <2>1. {place[p] : p \in first} # {}
    BY <1>5
  <2> HIDE DEF place, first
  <2> QED
    BY <1>6, <2>1, GreatestExists
<1>8. PICK p \in first : n = 0 - p.place
  BY <1>7
<1>9. \A q \in first : p.place <= q.place
  <2> TAKE q \in first
  <2>1. 0 - q.place <= 0 - p.place
    BY <1>7, <1>8
  <2> QED
    BY <1>0, <2>1
<1>10. \A q \in points : q = p \/ Earlier(p, q)
  <2> TAKE q \in points
  <2>1. /\ q.at \in Int /\ q.place \in Int /\ p.place \in Int /\ p.at = o.at /\ o.at \in Int
        /\ p.place = q.place => p = q
    BY <1>0 DEF Placed
  <2>2. CASE q.at = o.at
    <3>1. p.place <= q.place
      BY <1>9, <2>2
    <3> QED
      BY <2>1, <2>2, <3>1 DEF Earlier
  <2>3. CASE q.at # o.at
    <3>1. o.at <= q.at
      BY <1>4
    <3> QED
      BY <2>1, <2>3, <3>1 DEF Earlier
  <2> QED
    BY <2>2, <2>3
<1> QED
  BY <1>10

\* From a point on the points have its value, up to the next that was not
\* collapsed.
LEMMA CollapsedValue ==
  ASSUME NEW points, Placed(points), NEW p \in points, NEW x \in points, Earlier(p, x),
         \A c \in Collapsed(points) : Earlier(p, c) => c # x /\ ~Earlier(c, x)
  PROVE  x.value = p.value
<1> DEFINE Other == {y \in points : /\ Earlier(p, y) /\ (y = x \/ Earlier(y, x))
                                    /\ y.value # p.value}
<1> SUFFICES ASSUME x.value # p.value PROVE FALSE
  OBVIOUS
<1>1. x \in Other /\ Other \in SUBSET points
  OBVIOUS
<1>2. PICK y \in Other : \A z \in Other : z = y \/ Earlier(y, z)
  <2> HIDE DEF Other
  <2> QED
    BY <1>1, PlacedSubset, EarliestExists
<1> DEFINE before == {q \in points : Earlier(q, y)}
<1>3. y \in points /\ y \notin Collapsed(points)
  BY <1>2, EarlierOrder
<1>4. p \in before /\ Latest(before).value = y.value
  BY <1>2, <1>3 DEF Collapsed
<1>5. Latest(before) \in before /\ (p = Latest(before) \/ Earlier(p, Latest(before)))
  <2>1. Placed(before)
    BY PlacedSubset
  <2> HIDE DEF before
  <2> QED
    BY <1>4, <2>1, LatestIs
<1> DEFINE w == Latest(before)
<1>6. w \in points /\ Earlier(w, y) /\ w.value = y.value
  BY <1>4, <1>5
<1> HIDE DEF w
<1>7. CASE p = w
  BY <1>2, <1>6, <1>7
<1>8. CASE Earlier(p, w)
  <2>1. Earlier(w, x)
    BY <1>2, <1>6, EarlierOrder
  <2>2. w \in Other
    BY <1>2, <1>6, <1>8, <2>1
  <2> QED
    BY <1>2, <1>6, <2>2, EarlierOrder
<1> QED
  BY <1>5, <1>7, <1>8 DEF w

-----------------------------------------------------------------------------
(* What compact_fields writes: at a slot of the day a schedule has the     *)
(* value of a last point before it, the greatest of those for one time.    *)

Times(points) == {p.at : p \in points}
Following(points, t) == Min({Day} \cup {u \in Times(points) : u > t})
GreatestAt(points, t) == Max({p.value : p \in {q \in points : q.at = t}})
Block(points, t) ==
  [from |-> t, until |-> Following(points, t), value |-> GreatestAt(points, t)]

LEMMA GreatestAtIs ==
  ASSUME NEW points, Placed(points), NEW t \in Times(points)
  PROVE  \E p \in points : /\ p.at = t /\ GreatestAt(points, t) = p.value
                          /\ \A q \in points : q.at = t => q.value <= p.value
<1> DEFINE value == [p \in points |-> p.value]
           some == {q \in points : q.at = t}
           values == {value[p] : p \in some}
<1>1. IsFiniteSet(values) /\ values \subseteq Int /\ values # {}
  <2>1. IsFiniteSet(some) /\ some # {}
    BY FS_Subset DEF Placed, Times
  <2>2. values \subseteq Int
    BY DEF Placed
  <2> HIDE DEF value, some
  <2> QED
    BY <2>1, <2>2, ImageFinite
<1>2. GreatestAt(points, t) = Max(values)
  <2>1. values = {p.value : p \in some}
    OBVIOUS
  <2> HIDE DEF value
  <2> QED
    BY <2>1 DEF GreatestAt
<1>3. Max(values) \in values /\ \A v \in values : v <= Max(values)
  <2> HIDE DEF values
  <2> QED
    BY <1>1, MaxInt
<1> QED
  BY <1>2, <1>3

LEMMA NextIs ==
  ASSUME NEW points, Times(points) \subseteq Nat, NEW t
  PROVE  /\ Following(points, t) \in Nat /\ Following(points, t) <= Day
         /\ \A u \in Times(points) : u > t => Following(points, t) <= u
         /\ Following(points, t) = Day \/ Following(points, t) > t
         /\ Following(points, t) = Day
              \/ Following(points, t) \in {u \in Times(points) : u > t}
<1> DEFINE later == {Day} \cup {u \in Times(points) : u > t}
<1>1. later \subseteq Nat /\ later # {} /\ Day \in later
  BY LoweringAssumption
<1>2. Following(points, t) = Min(later)
  BY DEF Following
<1>3. Min(later) \in later /\ \A u \in later : Min(later) <= u
  <2> HIDE DEF later
  <2> QED
    BY <1>1, MinNat
<1> QED
  BY <1>1, <1>2, <1>3

LEMMA CompactValue ==
  ASSUME NEW points, Placed(points), Times(points) \subseteq Nat, 0 \in Times(points),
         NEW slot \in 0 .. Day - 1
  PROVE  \E p \in points : /\ p.at <= slot /\ \A q \in points : q.at <= slot => q.at <= p.at
                          /\ ValueAt(Compact(points), slot) = p.value
                          /\ \A q \in points : q.at = p.at => q.value <= p.value
<1> DEFINE due == {t \in Times(points) : t <= slot}
           until(t) == Following(points, t)
           times == {u \in Times(points) : u < Day}
<1>0. Day \in Nat /\ slot \in Nat /\ slot < Day
  BY LoweringAssumption
<1>1. PICK t \in due : \A u \in due : u <= t
  <2>1. due \subseteq 0 .. slot /\ due # {}
    BY <1>0
  <2>2. IsFiniteSet(due) /\ due \subseteq Int
    <3>1. IsFiniteSet(0 .. slot) /\ 0 .. slot \subseteq Int
      BY <1>0, FS_Interval
    <3> HIDE DEF due
    <3> QED
      BY <2>1, <3>1, FS_Subset
  <2> HIDE DEF due
  <2> QED
    BY <2>1, <2>2, GreatestExists
<1>2. t \in times /\ t \in Nat /\ times \subseteq Nat
  BY <1>0, <1>1
<1>3. Compact(points) = {Block(points, u) : u \in times}
  <2>1. {Block(points, u) : u \in times} # {}
    BY <1>2
  <2> QED
    BY <2>1 DEF Compact, Block, Following, GreatestAt, Times
<1>4. slot < until(t)
  BY <1>0, <1>1, <1>2, NextIs
<1>5. ASSUME NEW u \in times, slot < until(u), until(u) <= until(t) PROVE u = t
  <2>1. u \in Nat /\ until(u) \in Nat /\ until(t) \in Nat
    BY <1>2, NextIs
  <2>2. CASE u < t
    <3>1. until(u) <= t
      BY <1>1, <1>2, <2>1, <2>2, NextIs
    <3> QED
      BY <1>0, <1>1, <1>2, <1>5, <2>1, <3>1
  <2>3. CASE u > t
    <3>1. until(t) <= u
      BY <1>2, <2>3, NextIs
    <3>2. until(u) > u
      <4>1. until(u) = Day \/ until(u) > u
        BY NextIs
      <4> QED
        BY <4>1, <1>0, <2>1
    <3> QED
      BY <1>5, <2>1, <3>1, <3>2
  <2> QED
    BY <1>2, <2>1, <2>2, <2>3
<1>6. ASSUME NEW u \in times, slot < until(u) PROVE until(t) <= until(u)
  <2>1. until(u) \in Nat /\ until(t) \in Nat
    BY NextIs
  <2> QED
    BY <1>5, <1>6, <2>1
<1>7. ValueAt(Compact(points), slot) = GreatestAt(points, t)
  <2> DEFINE profile == {Block(points, u) : u \in times}
             b == Block(points, t)
             Holds(c) == slot < c.until /\ \A d \in profile : slot < d.until => c.until <= d.until
  <2>1. \A u : Block(points, u).until = until(u)
    BY DEF Block
  <2>2. b \in profile /\ Holds(b)
    BY <1>2, <1>4, <1>6, <2>1
  <2>3. \A c \in profile : Holds(c) => c = b
    <3>1. ASSUME NEW u \in times, Holds(Block(points, u)) PROVE Block(points, u) = b
      <4>1. slot < until(u) /\ until(u) <= until(t)
        BY <2>1, <2>2, <3>1
      <4>2. u = t
        BY <1>5, <4>1
      <4> QED
        BY <4>2
    <3> HIDE DEF b, Holds
    <3> QED
      BY <3>1
  <2>4. (CHOOSE c \in profile : Holds(c)) = b
    <3> HIDE DEF profile, b, Holds
    <3> QED
      BY <2>2, <2>3
  <2>5. ValueAt(Compact(points), slot) = (CHOOSE c \in profile : Holds(c)).value
    BY <1>3 DEF ValueAt
  <2>6. b.value = GreatestAt(points, t)
    BY DEF Block
  <2> HIDE DEF profile, Holds, b
  <2> QED
    BY <2>4, <2>5, <2>6
<1>8. PICK p \in points : /\ p.at = t /\ GreatestAt(points, t) = p.value
                         /\ \A q \in points : q.at = t => q.value <= p.value
  BY <1>2, GreatestAtIs
<1>9. p.at <= slot /\ \A q \in points : q.at <= slot => q.at <= p.at
  BY <1>1, <1>8 DEF Times
<1> QED
  BY <1>7, <1>8, <1>9

-----------------------------------------------------------------------------
(* The points of a chunk: what breakpoints_for_chunk finds is what the bus *)
(* would have had in force at every slot of the chunk.                     *)

PointOf(plan, k, i) ==
  Point(plan.steps[i].offset - (StartOf(k) - plan.anchor), i, plan.steps[i].value)

LEMMA StepType ==
  ASSUME NEW plan \in ApprovedPlan
  PROVE  /\ plan.anchor \in Int /\ plan.steps \in Seq(SetpointStep)
         /\ Len(plan.steps) \in Nat /\ DOMAIN plan.steps = 1 .. Len(plan.steps)
         /\ \A i \in DOMAIN plan.steps : /\ plan.steps[i] \in SetpointStep
                                        /\ plan.steps[i].offset \in Int
                                        /\ plan.steps[i].offset >= 0
                                        /\ plan.steps[i].value \in Int
<1>1. plan.anchor \in Int /\ plan.steps \in Seq(SetpointStep)
  BY DEF ApprovedPlan
<1> DEFINE steps == plan.steps
<1>2. /\ Len(steps) \in Nat /\ DOMAIN steps = 1 .. Len(steps)
      /\ \A i \in DOMAIN steps : steps[i] \in SetpointStep
  <2> HIDE DEF steps
  <2>1. steps \in Seq(SetpointStep)
    BY <1>1 DEF steps
  <2> QED
    BY <2>1, LenProperties, ElementOfSeq
<1> QED
  BY <1>1, <1>2 DEF SetpointStep

LEMMA RelevantPlaced ==
  ASSUME NEW plan \in ApprovedPlan, NEW k, StartOf(k) \in Int, NEW zone, NEW actuator
  PROVE  /\ Placed(Relevant(plan, k, zone, actuator))
         /\ \A p \in Relevant(plan, k, zone, actuator) : p.place \in Nat \ {0}
<1> DEFINE J == {j \in DOMAIN plan.steps : /\ plan.steps[j].zone = zone
                                          /\ plan.steps[j].actuator = actuator}
           f == [i \in J |-> PointOf(plan, k, i)]
           R == Relevant(plan, k, zone, actuator)
<1>1. R = {f[i] : i \in J}
  BY DEF Relevant, PointOf
<1>2. IsFiniteSet(R)
  <2>1. IsFiniteSet(J)
    <3>0. Len(plan.steps) \in Nat /\ DOMAIN plan.steps = 1 .. Len(plan.steps)
      BY StepType
    <3>1. IsFiniteSet(1 .. Len(plan.steps)) /\ J \subseteq 1 .. Len(plan.steps)
      <4> DEFINE n == Len(plan.steps)
      <4>1. J \subseteq 1 .. n
        BY <3>0
      <4>2. n \in Int
        BY <3>0
      <4> HIDE DEF n, J
      <4>3. IsFiniteSet(1 .. n)
        BY <4>2, FS_Interval
      <4> QED
        BY <4>1, <4>3 DEF n
    <3> HIDE DEF J
    <3> QED
      BY <3>1, FS_Subset
  <2> HIDE DEF f, J, R
  <2> QED
    BY <1>1, <2>1, ImageFinite
<1>3. \A p \in R : \E i \in J : p = PointOf(plan, k, i)
  BY <1>1
<1>4. \A i \in J : /\ PointOf(plan, k, i).at \in Int /\ PointOf(plan, k, i).value \in Int
                   /\ PointOf(plan, k, i).place = i /\ i \in Nat \ {0}
  BY StepType DEF PointOf, Point
<1> HIDE DEF R, J
<1> QED
  BY <1>2, <1>3, <1>4 DEF Placed, R

LEMMA PointsPlaced ==
  ASSUME NEW plan \in ApprovedPlan, NEW k, StartOf(k) \in Int, NEW zone, NEW actuator,
         NEW baseline \in Int
  PROVE  LET points == Points(plan, k, zone, actuator, baseline)
         IN  /\ Placed(points) /\ Times(points) \subseteq Nat
             /\ \E p \in points : p.at = 0
             /\ \A p, q \in points : p.at = 0 /\ q.at = 0 => p = q
<1> DEFINE relevant == Relevant(plan, k, zone, actuator)
           before == {p \in relevant : p.at <= 0}
           value == IF before = {} THEN baseline ELSE Latest(before).value
           start == Point(0, 0, value)
           points == Points(plan, k, zone, actuator, baseline)
<1>1. points = {start} \cup InChunk(relevant, k)
  BY DEF Points
<1>2. Placed(relevant) /\ \A p \in relevant : p.place \in Nat \ {0}
  BY RelevantPlaced
<1>3. value \in Int
  <2>1. CASE before = {}
    BY <2>1
  <2>2. CASE before # {}
    <3> HIDE DEF relevant
    <3>1. Placed(before)
      BY <1>2, PlacedSubset
    <3> HIDE DEF before
    <3>2. Latest(before) \in before
      BY <2>2, <3>1, LatestIs
    <3> QED
      BY <2>2, <3>1, <3>2 DEF Placed
  <2> QED
    BY <2>1, <2>2
<1>4. start.at = 0 /\ start.place = 0 /\ start.value \in Int
  BY <1>3 DEF Point
<1>5. InChunk(relevant, k) \subseteq {p \in relevant : p.at > 0}
  BY DEF InChunk
<1> HIDE DEF relevant, start
<1>6. IsFiniteSet(InChunk(relevant, k) \cup {start})
  <2>1. IsFiniteSet(InChunk(relevant, k))
    BY <1>2, <1>5, FS_Subset DEF Placed
  <2> QED
    BY <2>1, FS_AddElement
<1>7. InChunk(relevant, k) \cup {start} = {start} \cup InChunk(relevant, k)
  OBVIOUS
<1>8. Placed(points)
  BY <1>1, <1>2, <1>4, <1>5, <1>6, <1>7 DEF Placed
<1>9. /\ Times(points) \subseteq Nat /\ start \in points
      /\ \A p, q \in points : p.at = 0 /\ q.at = 0 => p = q
  BY <1>1, <1>2, <1>4, <1>5 DEF Placed, Times
<1> QED
  BY <1>4, <1>8, <1>9

Due(points, u) == {p \in points : p.at <= u}

\* The value the bus would have in force is that of the latest point that is
\* due, or the baseline before the first.
LEMMA InForceIsLatest ==
  ASSUME NEW plan \in ApprovedPlan, NEW s, NEW k, StartOf(k) \in Int, NEW u \in Int
  PROVE  LET due == Due(Relevant(plan, k, FirstZone(s), ActuatorOf(s)), u)
         IN  /\ due = {} => InForce(plan, s, StartOf(k) + u) = Baseline[s]
             /\ due # {} => InForce(plan, s, StartOf(k) + u) = Latest(due).value
<1> DEFINE relevant == Relevant(plan, k, FirstZone(s), ActuatorOf(s))
           due == {p \in relevant : p.at <= u}
           J == StepsFor(plan, s)
           time == StartOf(k) + u
           dueSteps == {i \in J : plan.anchor + plan.steps[i].offset <= time}
           pt(i) == PointOf(plan, k, i)
           IsLatest(i) == \A j \in dueSteps \ {i} :
                         \/ plan.steps[j].offset < plan.steps[i].offset
                         \/ plan.steps[j].offset = plan.steps[i].offset /\ j < i
<1>1. /\ plan.anchor \in Int
      /\ \A i \in J : plan.steps[i].offset \in Int /\ plan.steps[i].value \in Int /\ i \in Int
  BY StepType DEF StepsFor
<1>2. \A i : pt(i) = Point(plan.steps[i].offset - (StartOf(k) - plan.anchor), i,
                         plan.steps[i].value)
  BY DEF PointOf
<1>3. \A i : /\ pt(i).at = plan.steps[i].offset - (StartOf(k) - plan.anchor)
            /\ pt(i).place = i /\ pt(i).value = plan.steps[i].value
  BY <1>2 DEF Point
<1>4. relevant = {pt(i) : i \in J}
  BY <1>2 DEF Relevant, StepsFor
<1>5. \A i \in J : pt(i).at <= u <=> plan.anchor + plan.steps[i].offset <= time
  BY <1>1, <1>3
<1> HIDE DEF pt
<1>6. due = {pt(i) : i \in dueSteps}
  BY <1>4, <1>5
<1>7. \A i, j \in J : Earlier(pt(i), pt(j)) <=>
                       \/ plan.steps[i].offset < plan.steps[j].offset
                       \/ plan.steps[i].offset = plan.steps[j].offset /\ i < j
  BY <1>1, <1>3 DEF Earlier
<1>8. Placed(relevant)
  BY RelevantPlaced
<1>9. Placed(due)
  <2> HIDE DEF relevant
  <2> QED
    BY <1>8, PlacedSubset
<1>10. InForce(plan, s, time) =
         IF dueSteps = {} THEN Baseline[s]
         ELSE plan.steps[CHOOSE i \in dueSteps : IsLatest(i)].value
  BY DEF InForce
<1> HIDE DEF relevant, J, time
<1>11. CASE dueSteps = {}
  BY <1>6, <1>10, <1>11 DEF relevant, time, Due
<1>12. CASE dueSteps # {}
  <2>1. due # {}
    BY <1>6, <1>12
  <2>2. /\ Latest(due) \in due
        /\ \A q \in due : q = Latest(due) \/ Earlier(q, Latest(due))
    <3> HIDE DEF due
    <3> QED
      BY <1>9, <2>1, LatestIs
  <2>3. PICK i \in dueSteps : Latest(due) = pt(i)
    <3> HIDE DEF due, dueSteps
    <3> QED
      BY <1>6, <2>2
  <2>4. IsLatest(i)
    <3> SUFFICES ASSUME NEW j \in dueSteps \ {i} PROVE Earlier(pt(j), pt(i))
      BY <1>7
    <3>1. pt(j) \in due /\ pt(j) # pt(i)
      BY <1>3, <1>6
    <3> HIDE DEF due
    <3> QED
      BY <2>2, <2>3, <3>1
  <2>5. \A j \in dueSteps : IsLatest(j) => j = i
    <3> SUFFICES ASSUME NEW j \in dueSteps, IsLatest(j), j # i PROVE FALSE
      OBVIOUS
    <3>1. Earlier(pt(i), pt(j)) /\ Earlier(pt(j), pt(i))
      BY <1>7, <2>4
    <3>2. pt(i) \in due /\ pt(j) \in due
      BY <1>6
    <3> HIDE DEF due, IsLatest, dueSteps
    <3> QED
      BY <1>9, <3>1, <3>2, EarlierOrder
  <2>6. (CHOOSE j \in dueSteps : IsLatest(j)) = i
    <3> HIDE DEF dueSteps, IsLatest
    <3> QED
      BY <2>4, <2>5
  <2>7. InForce(plan, s, time) = pt(i).value
    <3> HIDE DEF dueSteps, IsLatest
    <3> QED
      BY <1>3, <1>10, <1>12, <2>6
  <2> HIDE DEF due
  <2>8. due # {} /\ InForce(plan, s, time) = Latest(due).value
    BY <2>1, <2>3, <2>7
  <2> QED
    BY <2>8 DEF due, relevant, time, Due
<1> QED
  BY <1>11, <1>12

\* Within the chunk it is that of the latest of the points of the chunk.
LEMMA InForceInChunk ==
  ASSUME NEW plan \in ApprovedPlan, NEW s, NEW k, StartOf(k) \in Int, Baseline[s] \in Int,
         NEW u \in Nat, Days(k) * Day \in Int, u < Days(k) * Day
  PROVE  LET points == Points(plan, k, FirstZone(s), ActuatorOf(s), Baseline[s])
         IN  InForce(plan, s, StartOf(k) + u) = Latest(Due(points, u)).value
<1> DEFINE relevant == Relevant(plan, k, FirstZone(s), ActuatorOf(s))
           before == {p \in relevant : p.at <= 0}
           value == IF before = {} THEN Baseline[s] ELSE Latest(before).value
           start == Point(0, 0, value)
           points == Points(plan, k, FirstZone(s), ActuatorOf(s), Baseline[s])
           due == {p \in relevant : p.at <= u}
           here == {p \in points : p.at <= u}
<1>1. points = {start} \cup InChunk(relevant, k)
  BY DEF Points
<1>2. start.at = 0 /\ start.value = value
  BY DEF Point
<1>3. Placed(points)
  BY PointsPlaced
<1>4. Placed(relevant)
  BY RelevantPlaced
<1>5. /\ due = {} => InForce(plan, s, StartOf(k) + u) = Baseline[s]
      /\ due # {} => InForce(plan, s, StartOf(k) + u) = Latest(due).value
  <2>1. u \in Int /\ due = Due(relevant, u)
    BY DEF Due
  <2> HIDE DEF due
  <2> QED
    BY <2>1, InForceIsLatest
<1>6. \A p \in relevant : p.at \in Int
  BY <1>4 DEF Placed
<1>7. start \in here
  BY <1>1, <1>2
<1>8. \A p \in relevant : p.at > 0 /\ p.at <= u => p \in here
  <2>1. \A p \in relevant : p.at <= u => p.at < Days(k) * Day
    <3> DEFINE d == Days(k) * Day
    <3>1. d \in Int /\ u < d
      OBVIOUS
    <3> HIDE DEF d, relevant
    <3>2. \A p \in relevant : p.at <= u => p.at < d
      BY <1>6, <3>1
    <3> QED
      BY <3>2 DEF d
  <2> QED
    BY <1>1, <2>1 DEF InChunk
<1>9. \A p \in here : p = start \/ (p \in due /\ p.at > 0)
  BY <1>1 DEF InChunk
<1>10. Placed(here) /\ Placed(due)
  <2> HIDE DEF relevant, points
  <2> QED
    BY <1>3, <1>4, PlacedSubset
<1> HIDE DEF relevant, start, points, value
<1>11. CASE \A p \in due : p.at <= 0
  <2>1. due = before
    BY <1>6, <1>11
  <2>2. here = {start}
    BY <1>6, <1>7, <1>9, <1>11
  <2>3. Latest(here) = start
    <3>1. here # {} /\ start \in here /\ \A q \in here : q = start
      BY <2>2
    <3> HIDE DEF here
    <3> QED
      BY <1>10, <3>1, LatestIs
  <2> HIDE DEF here, due, before
  <2> QED
    BY <1>2, <1>5, <2>1, <2>3 DEF value, before, here, points, Due
<1>12. CASE \E p \in due : p.at > 0
  <2> DEFINE l == Latest(due)
  <2>1. l \in due /\ \A q \in due : q = l \/ Earlier(q, l)
    <3>1. due # {}
      BY <1>12
    <3> HIDE DEF due
    <3> QED
      BY <1>10, <3>1, LatestIs
  <2> HIDE DEF l
  <2>2. l.at > 0
    <3>1. PICK p \in due : p.at > 0
      BY <1>12
    <3>2. p.at <= l.at
      BY <1>6, <2>1, <3>1 DEF Earlier
    <3> QED
      BY <1>6, <2>1, <3>1, <3>2
  <2>3. l \in here
    BY <1>8, <2>1, <2>2
  <2>4. \A q \in here : q = l \/ Earlier(q, l)
    <3>1. Earlier(start, l)
      BY <1>2, <2>2 DEF Earlier
    <3> HIDE DEF here, due
    <3> QED
      BY <1>9, <2>1, <3>1
  <2>5. Latest(here) = l
    <3> HIDE DEF here
    <3> QED
      BY <1>10, <2>3, <2>4, LatestIs
  <2>6. due # {}
    BY <1>12
  <2> HIDE DEF here, due
  <2> QED
    BY <1>5, <2>5, <2>6 DEF l, here, points, Due
<1>13. (\A p \in due : p.at <= 0) \/ \E p \in due : p.at > 0
  BY <1>6
<1> QED
  BY <1>11, <1>12, <1>13

\* A point after the start of the chunk is a step of the plan.
LEMMA PointIsStep ==
  ASSUME NEW plan \in ApprovedPlan, NEW s, NEW k, StartOf(k) \in Int,
         NEW p \in Points(plan, k, FirstZone(s), ActuatorOf(s), Baseline[s]), p.at # 0
  PROVE  \E i \in StepsFor(plan, s) : /\ plan.anchor + plan.steps[i].offset = StartOf(k) + p.at
                                      /\ plan.steps[i].value = p.value
<1>1. p \in Relevant(plan, k, FirstZone(s), ActuatorOf(s))
  BY DEF Points, InChunk, Point
<1>2. PICK i \in StepsFor(plan, s) :
        p = Point(plan.steps[i].offset - (StartOf(k) - plan.anchor), i, plan.steps[i].value)
  BY <1>1 DEF Relevant, StepsFor
<1>3. p.at = plan.steps[i].offset - (StartOf(k) - plan.anchor) /\ p.value = plan.steps[i].value
  BY <1>2 DEF Point
<1>4. plan.steps[i].offset \in Int /\ plan.anchor \in Int
  BY StepType DEF StepsFor
<1> QED
  BY <1>3, <1>4

\* The value rendered for a slot of the first day, and the one in force in it.
LEMMA PlanRendered ==
  ASSUME NEW plan \in ApprovedPlan, NEW s, NEW k, StartOf(k) \in Int, Baseline[s] \in Int,
         Days(k) * Day \in Int, Day <= Days(k) * Day, NEW slot \in 0 .. Day - 1
  PROVE  LET points == Points(plan, k, FirstZone(s), ActuatorOf(s), Baseline[s])
             held == ValueAt(Compact(Collapsed(points)), slot)
             asked(t) == InForce(plan, s, StartOf(k) + t)
         IN  \/ held = asked(slot)
             \/ /\ held > asked(slot)
                /\ \E i \in StepsFor(plan, s), t \in 1 .. slot :
                     /\ plan.anchor + plan.steps[i].offset = StartOf(k) + t
                     /\ plan.steps[i].value = held
                     /\ \A u \in t .. slot : asked(u) = asked(slot)
<1> DEFINE points == Points(plan, k, FirstZone(s), ActuatorOf(s), Baseline[s])
           collapsed == Collapsed(points)
           held == ValueAt(Compact(collapsed), slot)
           asked(t) == InForce(plan, s, StartOf(k) + t)
<1>0. Day \in Nat /\ slot \in Nat /\ slot < Day
  BY LoweringAssumption
<1>1. /\ Placed(points) /\ Times(points) \subseteq Nat
      /\ \E p \in points : p.at = 0
      /\ \A p, q \in points : p.at = 0 /\ q.at = 0 => p = q
  BY PointsPlaced
<1>2. \A p \in points : p.at \in Nat
  <2> HIDE DEF points
  <2> QED
    BY <1>1 DEF Times
<1>3. /\ collapsed \in SUBSET points /\ Placed(collapsed) /\ Times(collapsed) \subseteq Nat
      /\ 0 \in Times(collapsed)
  <2> HIDE DEF points
  <2>1. collapsed \in SUBSET points
    BY DEF Collapsed
  <2>2. Placed(collapsed)
    BY <1>1, <2>1, PlacedSubset
  <2>3. PICK start \in points : start.at = 0
    BY <1>1
  <2>4. {q \in points : Earlier(q, start)} = {}
    <3>1. \A q \in points : ~Earlier(q, start)
      <4> TAKE q \in points
      <4>1. CASE q.at = 0
        BY <1>1, <2>3, <4>1, EarlierOrder
      <4>2. CASE q.at # 0
        BY <1>2, <2>3, <4>2 DEF Earlier
      <4> QED
        BY <4>1, <4>2
    <3> QED
      BY <3>1
  <2>5. start \in collapsed
    BY <2>3, <2>4 DEF Collapsed
  <2> HIDE DEF collapsed
  <2> QED
    BY <1>2, <2>1, <2>2, <2>3, <2>5 DEF Times
<1> HIDE DEF collapsed
<1>4. PICK p \in collapsed :
        /\ p.at <= slot /\ \A q \in collapsed : q.at <= slot => q.at <= p.at
        /\ held = p.value
        /\ \A q \in collapsed : q.at = p.at => q.value <= p.value
  BY <1>3, CompactValue
<1> HIDE DEF held
<1> DEFINE m == Latest(Due(collapsed, slot))
<1>5. /\ m \in collapsed /\ m.at <= slot
      /\ \A q \in collapsed : q.at <= slot => q = m \/ Earlier(q, m)
  <2> DEFINE due == Due(collapsed, slot)
  <2>1. Placed(due) /\ due # {}
    BY <1>3, <1>4, PlacedSubset DEF Due
  <2>2. Latest(due) \in due /\ \A q \in due : q = Latest(due) \/ Earlier(q, Latest(due))
    <3> HIDE DEF due
    <3> QED
      BY <2>1, LatestIs
  <2> QED
    BY <2>2 DEF Due
<1> HIDE DEF m
<1>6. /\ p.at \in Nat /\ m.at \in Nat /\ p.value \in Int /\ m.value \in Int
      /\ p \in points /\ m \in points
  <2> HIDE DEF points
  <2> QED
    BY <1>2, <1>3, <1>4, <1>5 DEF Placed
<1>7. m.at = p.at /\ m.value <= p.value
  <2>1. m.at <= p.at
    BY <1>4, <1>5
  <2>2. p.at <= m.at
    BY <1>4, <1>5, <1>6 DEF Earlier
  <2> QED
    BY <1>4, <1>5, <1>6, <2>1, <2>2
<1>8. ASSUME NEW u \in m.at .. slot PROVE asked(u) = m.value
  <2>1. u \in Nat /\ u <= slot /\ m.at <= u /\ u < Days(k) * Day
    <3> DEFINE d == Days(k) * Day
    <3>1. d \in Int /\ Day <= d
      OBVIOUS
    <3> HIDE DEF d
    <3>2. u \in Nat /\ u <= slot /\ m.at <= u /\ u < d
      BY <1>0, <1>6, <3>1
    <3> QED
      BY <3>2 DEF d
  <2> DEFINE due == Due(points, u)
             l == Latest(due)
  <2>2. asked(u) = l.value
    BY <2>1, InForceInChunk
  <2> HIDE DEF points, asked
  <2>3. m \in due /\ Placed(due) /\ due \subseteq points
    BY <1>1, <1>6, <2>1, PlacedSubset DEF Due
  <2>4. l \in due /\ (m = l \/ Earlier(m, l))
    <3> HIDE DEF due
    <3> QED
      BY <2>3, LatestIs
  <2>5. l \in points /\ l.at <= u /\ l.at \in Nat
    BY <1>2, <2>4 DEF Due
  <2> HIDE DEF l
  <2>6. CASE Earlier(m, l)
    <3>1. ASSUME NEW c \in collapsed, Earlier(m, c) PROVE c # l /\ ~Earlier(c, l)
      <4>1. c \in points /\ c.at \in Nat
        BY <1>2, <1>3
      <4>2. ~(c.at <= slot)
        BY <1>5, <1>6, <3>1, <4>1, <1>1, EarlierOrder
      <4>3. l.at < c.at
        BY <1>0, <2>1, <2>5, <4>1, <4>2
      <4> QED
        BY <2>5, <4>1, <4>3 DEF Earlier
    <3>2. l.value = m.value
      BY <1>1, <1>6, <2>5, <2>6, <3>1, CollapsedValue DEF collapsed
    <3> QED
      BY <2>2, <3>2
  <2> QED
    BY <2>2, <2>4, <2>6 DEF l
<1>9. asked(slot) = m.value
  <2>1. slot \in m.at .. slot
    BY <1>0, <1>5, <1>6
  <2> HIDE DEF asked
  <2> QED
    BY <1>8, <2>1
<1>10. CASE p.value = m.value
  <2>1. held = asked(slot)
    BY <1>4, <1>9, <1>10
  <2> QED
    BY <2>1 DEF held, collapsed
<1>11. CASE p.value # m.value
  <2>1. held > asked(slot)
    <3> HIDE DEF asked
    <3> QED
      BY <1>4, <1>6, <1>7, <1>9, <1>11
  <2>2. p.at # 0
    <3> HIDE DEF points
    <3> QED
      BY <1>1, <1>6, <1>7, <1>11
  <2>3. p.at \in 1 .. slot
    BY <1>0, <1>4, <1>6, <2>2
  <2>4. PICK i \in StepsFor(plan, s) : /\ plan.anchor + plan.steps[i].offset = StartOf(k) + p.at
                                      /\ plan.steps[i].value = p.value
    BY <1>6, <2>2, PointIsStep
  <2>5. \A u \in p.at .. slot : asked(u) = asked(slot)
    <3> HIDE DEF asked
    <3> QED
      BY <1>7, <1>8, <1>9
  <2>6. \E j \in StepsFor(plan, s), t \in 1 .. slot :
          /\ plan.anchor + plan.steps[j].offset = StartOf(k) + t
          /\ plan.steps[j].value = held
          /\ \A u \in t .. slot : asked(u) = asked(slot)
    <3> HIDE DEF asked
    <3> QED
      BY <1>4, <2>3, <2>4, <2>5
  <2> QED
    BY <2>1, <2>6 DEF held, collapsed
<1> QED
  BY <1>10, <1>11

-----------------------------------------------------------------------------
(* What is lowered: steps of the zones, within a day from now.             *)

\* The function FlattenSeq defines by recursion exists: by the least number of
\* sequences for which it does not.
LEMMA FlattenType ==
  ASSUME NEW T, NEW seqs \in Seq(Seq(T))
  PROVE  FlattenSeq(seqs) \in Seq(T)
<1> DEFINE n == Len(seqs)
           Eqn(f, k) == f = [i \in 1 .. k |-> IF i = 1 THEN seqs[i] ELSE f[i - 1] \o seqs[i]]
<1>1. n \in Nat /\ \A i \in 1 .. n : seqs[i] \in Seq(T)
  BY LenProperties, ElementOfSeq
<1>2. CASE n = 0
  <2>1. seqs = << >>
    BY <1>2, EmptySeq
  <2>2. FlattenSeq(seqs) = seqs
    BY <1>2 DEF FlattenSeq
  <2> QED
    BY <2>1, <2>2, EmptySeq
<1>3. CASE n # 0
  <2> DEFINE Missing == {k \in 1 .. n : ~\E f : Eqn(f, k)}
  <2>1. Missing = {}
    <3> SUFFICES ASSUME Missing # {} PROVE FALSE
      OBVIOUS
    <3>1. Missing \subseteq 1 .. n /\ 1 .. n \subseteq Nat
      <4> HIDE DEF Eqn
      <4> QED
        BY <1>1
    <3>2. PICK k \in Missing : \A j \in Missing : k <= j
      <4> HIDE DEF Missing
      <4> QED
        BY <3>1, LeastExists
    <3>3. CASE k = 1
      <4> DEFINE f == [i \in 1 .. 1 |-> seqs[i]]
      <4>1. Eqn(f, 1)
        OBVIOUS
      <4> QED
        BY <3>2, <3>3, <4>1
    <3>4. CASE k # 1
      <4>1. k - 1 \in 1 .. n /\ ~(k <= k - 1) /\ k \in Nat
        BY <1>1, <3>4
      <4>2. k - 1 \notin Missing
        BY <3>2, <4>1
      <4>3. PICK g : Eqn(g, k - 1)
        BY <4>1, <4>2
      <4> DEFINE f == [i \in 1 .. k |-> IF i = k THEN g[k - 1] \o seqs[k] ELSE g[i]]
      <4>4. \A i \in 1 .. k : i # k => i \in 1 .. k - 1
        BY <4>1
      <4>5. \A i \in 1 .. k - 1 : f[i] = g[i] /\ i \in 1 .. k
        BY <4>1
      <4>6. \A i \in 1 .. k - 1 : g[i] = IF i = 1 THEN seqs[i] ELSE g[i - 1] \o seqs[i]
        BY <4>3
      <4>7. \A i \in 1 .. k : f[i] = IF i = 1 THEN seqs[i] ELSE f[i - 1] \o seqs[i]
        <5> TAKE i \in 1 .. k
        <5>1. CASE i = k
          <6>1. f[i] = g[k - 1] \o seqs[k]
            BY <5>1
          <6>2. k - 1 \in 1 .. k - 1
            BY <4>1
          <6>3. f[k - 1] = g[k - 1]
            BY <4>5, <6>2
          <6> HIDE DEF f
          <6> QED
            BY <3>4, <5>1, <6>1, <6>3
        <5>2. CASE i # k /\ i = 1
          BY <4>4, <4>5, <4>6, <5>2
        <5>3. CASE i # k /\ i # 1
          <6>1. i - 1 \in 1 .. k - 1 /\ i \in 1 .. k - 1
            BY <4>1, <5>3
          <6>2. f[i] = g[i] /\ f[i - 1] = g[i - 1]
            BY <4>5, <6>1
          <6> HIDE DEF f
          <6> QED
            BY <4>6, <5>3, <6>1, <6>2
        <5> QED
          BY <5>1, <5>2, <5>3
      <4>8. f = [i \in 1 .. k |-> f[i]]
        OBVIOUS
      <4>9. Eqn(f, k)
        <5> HIDE DEF f
        <5> QED
          BY <4>7, <4>8
      <4> HIDE DEF Eqn, f
      <4> QED
        BY <4>9
    <3> QED
      BY <3>3, <3>4
  <2> DEFINE flatten == CHOOSE f : Eqn(f, n)
  <2>2. Eqn(flatten, n)
    <3> HIDE DEF Eqn
    <3>1. n \in 1 .. n
      BY <1>1, <1>3
    <3>2. \E f : Eqn(f, n)
      <4> HIDE DEF n
      <4> QED
        BY <2>1, <3>1
    <3> QED
      BY <3>2
  <2>3. FlattenSeq(seqs) = flatten[n]
    BY <1>3 DEF FlattenSeq
  <2> HIDE DEF flatten
  <2>4. \A i \in 1 .. n : flatten[i] = IF i = 1 THEN seqs[i] ELSE flatten[i - 1] \o seqs[i]
    BY <2>2
  <2> HIDE DEF Eqn
  <2> DEFINE Wrong == {k \in 1 .. n : flatten[k] \notin Seq(T)}
  <2>5. Wrong = {}
    <3> SUFFICES ASSUME Wrong # {} PROVE FALSE
      OBVIOUS
    <3>1. Wrong \subseteq Nat
      OBVIOUS
    <3>2. PICK k \in Wrong : \A j \in Wrong : k <= j
      <4> HIDE DEF Wrong
      <4> QED
        BY <3>1, LeastExists
    <3>3. CASE k = 1
      BY <1>1, <2>4, <3>2, <3>3
    <3>4. CASE k # 1
      <4>1. k - 1 \in 1 .. n /\ ~(k <= k - 1) /\ k \in 1 .. n
        BY <1>1, <3>4
      <4>2. flatten[k - 1] \in Seq(T)
        BY <3>2, <4>1
      <4>3. flatten[k] = flatten[k - 1] \o seqs[k] /\ seqs[k] \in Seq(T)
        BY <1>1, <2>4, <3>4, <4>1
      <4>4. flatten[k] \in Seq(T)
        BY <4>2, <4>3, ConcatProperties
      <4> QED
        BY <3>2, <4>4
    <3> QED
      BY <3>3, <3>4
  <2>6. n \in 1 .. n
    BY <1>1, <1>3
  <2> HIDE DEF n
  <2> QED
    BY <2>3, <2>5, <2>6
<1> QED
  BY <1>2, <1>3

WithinADay == {step \in SetpointStep : step.offset \in 0 .. Day}

LEMMA OffsetType ==
  ASSUME NEW when \in Int, NEW now \in Int
  PROVE  Offset(when, now) \in 0 .. Day
BY LoweringAssumption DEF Offset, Least, Greatest

LEMMA StepsOfType ==
  ASSUME NEW action, action.zone \in Zones, action.actuator \in Actuators,
         action.value \in Int, action.start \in Int, action.end \in Int, NEW now \in Int,
         NEW baseline, \A target \in DOMAIN baseline : baseline[target] \in Int
  PROVE  StepsOf(action, now, baseline) \in Seq(WithinADay)
<1> DEFINE target == <<action.zone, action.actuator>>
           step(when, value) == [offset |-> Offset(when, now), zone |-> action.zone,
                                 actuator |-> action.actuator, value |-> value]
<1>1. ASSUME NEW when \in Int, NEW value \in Int PROVE step(when, value) \in WithinADay
  <2>1. Offset(when, now) \in 0 .. Day
    BY OffsetType
  <2>2. Offset(when, now) \in Nat
    BY <2>1, LoweringAssumption
  <2> QED
    BY <2>1, <2>2 DEF WithinADay, SetpointStep
<1>2. step(action.start, action.value) \in WithinADay
  BY <1>1
<1> HIDE DEF step
<1>3. <<step(action.start, action.value)>> \in Seq(WithinADay)
  BY <1>2
<1>4. CASE target \in DOMAIN baseline
  <2>1. step(action.end, baseline[target]) \in WithinADay
    BY <1>1, <1>4
  <2>2. <<step(action.start, action.value), step(action.end, baseline[target])>>
          \in Seq(WithinADay)
    BY <1>2, <2>1
  <2> QED
    BY <1>3, <2>2 DEF StepsOf, step
<1>5. CASE target \notin DOMAIN baseline
  BY <1>3, <1>5 DEF StepsOf, step
<1> QED
  BY <1>4, <1>5

\* Whatever times the model gives its actions, and whatever there is to revert
\* to, what they are lowered to is steps within a day from now, the range in
\* which PlanStep takes an offset (to_setpoint_plan, _offset_minutes).
THEOREM LoweredWithinADay ==
  ASSUME NEW now \in Int, NEW actions, NEW n \in Nat, DOMAIN actions = 1 .. n,
         \A i \in 1 .. n :
           /\ actions[i].zone \in Zones /\ actions[i].actuator \in Actuators
           /\ actions[i].value \in Int /\ actions[i].start \in Int /\ actions[i].end \in Int,
         NEW baseline, \A target \in DOMAIN baseline : baseline[target] \in Int
  PROVE  Lowered(actions, now, baseline) \in Seq(WithinADay)
<1> DEFINE seqs == [i \in DOMAIN actions |-> StepsOf(actions[i], now, baseline)]
<1>1. \A i \in 1 .. n : StepsOf(actions[i], now, baseline) \in Seq(WithinADay)
  BY StepsOfType
<1>2. seqs \in [1 .. n -> Seq(WithinADay)]
  BY <1>1
<1> HIDE DEF seqs
<1>3. seqs \in Seq(Seq(WithinADay))
  BY <1>2, SeqDef
<1>4. FlattenSeq(seqs) \in Seq(WithinADay)
  BY <1>3, FlattenType
<1> QED
  BY <1>4 DEF Lowered, seqs

-----------------------------------------------------------------------------
(* The chunks of a run.                                                    *)

LEMMA Product ==
  ASSUME NEW a \in Int, NEW b \in Int, NEW c \in Nat, a <= b
  PROVE  a * c <= b * c /\ a * c \in Int /\ b * c \in Int
OBVIOUS

LEMMA Quotient ==
  ASSUME NEW t \in Nat, NEW h \in Nat \ {0}
  PROVE  t \div h \in Nat /\ (t \div h) * h <= t
<1>1. t = h * (t \div h) + (t % h) /\ t % h \in 0 .. h - 1 /\ t \div h \in Int
  OBVIOUS
<1> DEFINE q == t \div h
           r == t % h
<1>2. t = h * q + r /\ r \in Int /\ 0 <= r /\ r < h /\ q \in Int
  BY <1>1
<1> HIDE DEF q, r
<1>3. t = q * h + r
  BY <1>2
<1>4. CASE q <= 0 - 1
  <2>1. q * h <= (0 - 1) * h /\ q * h \in Int
    BY <1>2, <1>4, Product
  <2>2. (0 - 1) * h = 0 - h
    OBVIOUS
  <2> DEFINE p == q * h
  <2> HIDE DEF p
  <2>3. p <= 0 - h /\ t = p + r /\ p \in Int
    BY <1>3, <2>1, <2>2 DEF p
  <2> QED
    BY <1>2, <2>3
<1>5. CASE q >= 0
  BY <1>2, <1>3, <1>5 DEF q
<1> QED
  BY <1>2, <1>4, <1>5

\* A chunk has from one day to the horizon, and ends before the next begins.
LEMMA ChunkDays ==
  ASSUME total \in Totals, NEW k \in Chunks
  PROVE  /\ k \in Nat /\ StartOf(k) \in Int /\ Days(k) \in Nat \ {0}
         /\ Days(k) * Day \in Int /\ Day <= Days(k) * Day
         /\ EndOf(k) = StartOf(k) + Days(k) * Day
         /\ StartOf(k + 1) \in Int /\ EndOf(k) <= StartOf(k + 1)
         /\ StartOf(k) >= 0 /\ EndOf(k) <= total * Day
<1> DEFINE h == HorizonDays
           n == (total - 1) \div h
<1>1. h \in Nat \ {0} /\ total \in Nat \ {0} /\ total - 1 \in Nat /\ Day \in Nat
  BY RecedingAssumption, LoweringAssumption
<1>2. n \in Nat /\ n * h <= total - 1
  BY <1>1, Quotient
<1>3. k \in Nat /\ k <= n
  <2> HIDE DEF n
  <2>1. k \in 0 .. n
    BY DEF Chunks, n
  <2> QED
    BY <1>2, <2>1
<1>4. k * h <= n * h /\ k * h \in Int /\ n * h \in Int
  <2> HIDE DEF n, h
  <2> QED
    BY <1>1, <1>2, <1>3, Product
<1>5. Days(k) \in Nat \ {0} /\ Days(k) <= h
  <2> DEFINE p == k * h
             o == n * h
  <2>1. p <= o /\ p \in Int /\ o \in Int /\ o <= total - 1
    BY <1>2, <1>4
  <2>2. Days(k) = IF h <= total - p THEN h ELSE total - p
    BY DEF Days, Least
  <2> HIDE DEF p, o, n, h
  <2> QED
    BY <1>1, <2>1, <2>2
<1>6. Days(k) * Day \in Int /\ Day <= Days(k) * Day /\ Days(k) * Day <= h * Day
  <2> DEFINE d == Days(k)
  <2>1. d \in Int /\ 1 <= d /\ d <= h /\ h \in Int
    BY <1>1, <1>5
  <2> HIDE DEF d, h
  <2>2. 1 * Day <= d * Day /\ d * Day <= h * Day /\ d * Day \in Int
    BY <1>1, <2>1, Product
  <2>3. 1 * Day = Day
    BY <1>1
  <2> QED
    BY <2>2, <2>3 DEF d
<1>7. /\ StartOf(k) = k * h * Day /\ StartOf(k + 1) = (k + 1) * h * Day
      /\ (k + 1) * h * Day = k * h * Day + h * Day
      /\ k * h * Day \in Int /\ h * Day \in Int
  <2>1. StartOf(k) = k * h * Day /\ StartOf(k + 1) = (k + 1) * h * Day
    BY DEF StartOf
  <2>2. k \in Int /\ h \in Int /\ Day \in Int
    BY <1>1, <1>3
  <2> HIDE DEF h
  <2>3. (k + 1) * h * Day = k * h * Day + h * Day /\ k * h * Day \in Int /\ h * Day \in Int
    BY <2>2
  <2> QED
    BY <2>1, <2>3
<1>8. StartOf(k + 1) = StartOf(k) + h * Day /\ StartOf(k) \in Int /\ StartOf(k + 1) \in Int
  BY <1>7
<1>9. EndOf(k) = StartOf(k) + Days(k) * Day
  BY DEF EndOf
<1>10. EndOf(k) <= StartOf(k + 1)
  <2> DEFINE x == StartOf(k)
             y == Days(k) * Day
             z == h * Day
  <2>1. x \in Int /\ y \in Int /\ z \in Int /\ y <= z
    BY <1>6, <1>7, <1>8
  <2>2. EndOf(k) = x + y /\ StartOf(k + 1) = x + z
    BY <1>8, <1>9
  <2> HIDE DEF x, y, z
  <2> QED
    BY <2>1, <2>2
<1>11. StartOf(k) >= 0
  <2> DEFINE p == k * h
  <2>1. k \in Int /\ 0 <= k /\ h \in Nat /\ Day \in Nat
    BY <1>1, <1>3
  <2>2. 0 * h <= p /\ p \in Int
    BY <2>1, Product
  <2>3. StartOf(k) = p * Day
    BY <1>7
  <2>4. 0 * h = 0
    BY <2>1
  <2> HIDE DEF p, h
  <2>5. 0 * Day <= p * Day
    BY <2>1, <2>2, <2>4, Product
  <2> QED
    BY <2>1, <2>3, <2>5
<1>12. EndOf(k) <= total * Day
  <2> DEFINE p == k * h
             d == Days(k)
  <2>1. /\ p \in Int /\ d \in Int /\ total \in Int /\ Day \in Nat
        /\ StartOf(k) = p * Day /\ EndOf(k) = p * Day + d * Day
    BY <1>1, <1>4, <1>5, <1>7, <1>9
  <2>2. d = IF h <= total - p THEN h ELSE total - p
    BY DEF Days, Least
  <2>3. p + d <= total
    <3> HIDE DEF p, d, h
    <3> QED
      BY <1>1, <2>1, <2>2
  <2> HIDE DEF p, d
  <2>4. (p + d) * Day <= total * Day
    BY <2>1, <2>3, Product
  <2>5. (p + d) * Day = p * Day + d * Day
    BY <2>1
  <2> QED
    BY <2>1, <2>4, <2>5
<1> QED
  BY <1>3, <1>5, <1>6, <1>8, <1>9, <1>10, <1>11, <1>12

-----------------------------------------------------------------------------
(* The invariant.                                                          *)

TypeOK ==
  /\ total \in Totals /\ shift \in Shifts /\ chunk \in Chunks
  /\ lastTime \in Int /\ rows \in Seq(Int)
  /\ active \in ApprovedPlan \cup {NoPlan}

\* A time at which a plan may be made: the start of the run, on the driver's
\* calendar, or the time of a result, in the year of EnergyPlus.
Moment(t) == t = 0 \/ t > Ahead

AnchorsAreMoments ==
  /\ lastTime = -1 => chunk = 0
  /\ lastTime # -1 => lastTime > Ahead
  /\ \A i \in DOMAIN anchors : anchors[i] \in Int /\ Moment(anchors[i])
  /\ active # NoPlan => Moment(active.anchor)

\* Until a plan is made the baseline is staged.
BaselineUntilPlanned == active = NoPlan => staged = Baseline

\* The model that is simulated is that of the plan there is.
ModelRendered == pc = "simulate" => model = [s \in Schedules |-> Profile(s)]

IInv == TypeOK /\ AnchorsAreMoments /\ BaselineUntilPlanned /\ ModelRendered /\ RecordedInOrder

LEMMA AheadType ==
  ASSUME TypeOK
  PROVE  Ahead \in Int /\ Ahead >= 0
<1>1. shift \in Nat /\ Day \in Nat
  BY RecedingAssumption, LoweringAssumption DEF TypeOK
<1>2. 0 * Day <= shift * Day /\ shift * Day \in Int
  BY <1>1, Product
<1> QED
  BY <1>1, <1>2 DEF Ahead

LEMMA NowType ==
  ASSUME TypeOK, AnchorsAreMoments
  PROVE  Now \in Int /\ Moment(Now)
<1>1. CASE lastTime = -1
  <2>1. Now = 0 * HorizonDays * Day /\ HorizonDays \in Int /\ Day \in Int
    BY <1>1, RecedingAssumption, LoweringAssumption DEF AnchorsAreMoments, Now, StartOf
  <2>2. Now = 0
    BY <2>1
  <2> QED
    BY <2>2 DEF Moment
<1>2. CASE lastTime # -1
  BY <1>2 DEF TypeOK, AnchorsAreMoments, Now, Moment
<1> QED
  BY <1>1, <1>2

LEMMA InitInvariant == Init => IInv
<1> SUFFICES ASSUME Init PROVE IInv
  OBVIOUS
<1>1. << >> \in Seq(Int) /\ Len(<< >>) = 0 /\ DOMAIN << >> = {}
  BY EmptySeq, LenProperties
<1>2. chunk \in Chunks
  <2> DEFINE n == (total - 1) \div HorizonDays
  <2>1. total - 1 \in Nat /\ HorizonDays \in Nat \ {0}
    BY RecedingAssumption DEF Init
  <2>2. n \in Nat
    BY <2>1, Quotient
  <2> HIDE DEF n
  <2>3. 0 \in 0 .. n
    BY <2>2
  <2> QED
    BY <2>3 DEF Init, Chunks, n
<1>3. TypeOK
  BY <1>1, <1>2 DEF Init, TypeOK
<1>4. RecordedInOrder
  BY <1>1 DEF Init, RecordedInOrder
<1>5. AnchorsAreMoments
  BY <1>1 DEF Init, AnchorsAreMoments
<1> QED
  BY <1>3, <1>4, <1>5 DEF Init, IInv, BaselineUntilPlanned, ModelRendered

-----------------------------------------------------------------------------
(* The steps.                                                              *)

LEMMA WriteStep ==
  ASSUME IInv, NEW offer \in Offers, Write(offer.id, offer.steps)
  PROVE  IInv'
<1> DEFINE id == offer.id
           now == Now
           anchored == Anchored(id)
<1>1. /\ UNCHANGED <<total, shift, chunk, lastTime, model, rows>>
      /\ pc = "plan" /\ pc' = "snapshot" /\ anchors' = anchored
      /\ active' = [anchor |-> anchored[id], steps |-> offer.steps]
  BY DEF Write
<1>2. now \in Int /\ Moment(now)
  BY NowType DEF IInv
<1>3. ASSUME NEW i \in DOMAIN anchored PROVE anchored[i] \in Int /\ Moment(anchored[i])
  <2>1. anchored[i] = IF i \in DOMAIN anchors THEN anchors[i] ELSE now
    BY DEF Anchored
  <2> HIDE DEF anchored, now
  <2> QED
    BY <1>2, <2>1 DEF IInv, AnchorsAreMoments
<1>4. id \in DOMAIN anchored
  BY DEF Anchored
<1> HIDE DEF id, now, anchored
<1>5. active' \in ApprovedPlan /\ active'.anchor = anchored[id]
  BY <1>1, <1>3, <1>4, RecedingAssumption DEF ApprovedPlan
<1>6. active' # NoPlan
  BY <1>5, RecedingAssumption
<1>7. TypeOK'
  BY <1>1, <1>5 DEF IInv, TypeOK, Chunks
<1>8. AnchorsAreMoments'
  BY <1>1, <1>3, <1>4, <1>5 DEF IInv, AnchorsAreMoments, Moment, Ahead
<1>9. RecordedInOrder'
  BY <1>1 DEF IInv, RecordedInOrder, StartOf, EndOf, Days, Ahead
<1> QED
  BY <1>1, <1>6, <1>7, <1>8, <1>9 DEF IInv, BaselineUntilPlanned, ModelRendered

LEMMA QuietStep ==
  ASSUME IInv,
         \/ NoNewPlan \/ ProviderRaises
         \/ Snapshot \/ WriteModel \/ ChunkFails
         \/ UNCHANGED vars
  PROVE  IInv'
<1>1. UNCHANGED <<total, shift, chunk, anchors, active, staged, lastTime, rows>>
  BY DEF NoNewPlan, ProviderRaises, Snapshot, WriteModel, ChunkFails, vars
<1>2. pc' # "done" \/ pc' = pc
  BY DEF NoNewPlan, ProviderRaises, Snapshot, WriteModel, ChunkFails, vars
<1>6. pc # "done" \/ pc' = pc
  BY DEF NoNewPlan, ProviderRaises, Snapshot, WriteModel, ChunkFails, vars
<1>3. TypeOK' /\ AnchorsAreMoments' /\ BaselineUntilPlanned'
  BY <1>1 DEF IInv, TypeOK, AnchorsAreMoments, Moment, Ahead, BaselineUntilPlanned, Chunks
<1>4. RecordedInOrder'
  BY <1>1, <1>2, <1>6 DEF IInv, RecordedInOrder, StartOf, EndOf, Days, Ahead
<1>5. ModelRendered'
  <2>1. CASE WriteModel
    BY <1>1, <2>1 DEF WriteModel, ModelRendered, Profile, Schedules, Points, InChunk, Relevant,
                     StartOf, Days
  <2>2. CASE UNCHANGED vars
    <3>1. \A points, k : InChunk(points, k)' = InChunk(points, k)
      BY <1>1 DEF InChunk, Days
    <3>2. \A plan, k, z, a, b : Points(plan, k, z, a, b)' = Points(plan, k, z, a, b)
      BY <3>1 DEF Points
    <3>3. \A s : Profile(s)' = Profile(s)
      BY <1>1, <3>2 DEF Profile
    <3> QED
      BY <2>2, <3>3 DEF IInv, vars, ModelRendered, Schedules
  <2>3. CASE \/ NoNewPlan \/ ProviderRaises
             \/ Snapshot \/ ChunkFails
    <3>1. pc' # "simulate"
      BY <2>3 DEF NoNewPlan, ProviderRaises, Snapshot, ChunkFails
    <3> QED
      BY <3>1 DEF ModelRendered
  <2>4. \/ WriteModel \/ UNCHANGED vars
        \/ NoNewPlan \/ ProviderRaises \/ Snapshot \/ ChunkFails
    OBVIOUS
  <2> QED
    BY <2>1, <2>2, <2>3, <2>4
<1> QED
  BY <1>3, <1>4, <1>5 DEF IInv

\* What is recorded of a chunk goes on where the chunks before it ended.
LEMMA SeriesGoesOn ==
  ASSUME NEW a \in Seq(Int), NEW b \in Seq(Int), NEW low \in Int, NEW high \in Int,
         low <= high,
         \A i \in 1 .. Len(a) - 1 : a[i] < a[i + 1],
         \A i \in DOMAIN a : a[i] <= low,
         \A i \in 1 .. Len(b) - 1 : b[i] < b[i + 1],
         \A i \in DOMAIN b : low < b[i] /\ b[i] <= high
  PROVE  LET c == a \o b
         IN  /\ c \in Seq(Int)
             /\ \A i \in 1 .. Len(c) - 1 : c[i] < c[i + 1]
             /\ \A i \in DOMAIN c : c[i] <= high
<1> DEFINE c == a \o b
<1>1. /\ Len(a) \in Nat /\ DOMAIN a = 1 .. Len(a) /\ \A i \in 1 .. Len(a) : a[i] \in Int
      /\ Len(b) \in Nat /\ DOMAIN b = 1 .. Len(b) /\ \A i \in 1 .. Len(b) : b[i] \in Int
  BY LenProperties, ElementOfSeq
<1>2. /\ c \in Seq(Int) /\ Len(c) = Len(a) + Len(b)
      /\ \A i \in 1 .. Len(a) + Len(b) :
           c[i] = IF i <= Len(a) THEN a[i] ELSE b[i - Len(a)]
  BY ConcatProperties
<1>3. DOMAIN c = 1 .. Len(c)
  BY <1>2, LenProperties
<1> HIDE DEF c
<1>4. ASSUME NEW i \in DOMAIN c PROVE c[i] <= high
  <2>1. i \in 1 .. Len(a) + Len(b)
    BY <1>2, <1>3
  <2>2. CASE i <= Len(a)
    <3>1. i \in 1 .. Len(a) /\ c[i] = a[i]
      BY <1>1, <1>2, <2>1, <2>2
    <3>2. a[i] <= low /\ a[i] \in Int
      BY <1>1, <3>1
    <3> QED
      BY <3>1, <3>2
  <2>3. CASE ~(i <= Len(a))
    <3>1. i - Len(a) \in 1 .. Len(b) /\ c[i] = b[i - Len(a)]
      BY <1>1, <1>2, <2>1, <2>3
    <3> QED
      BY <1>1, <3>1
  <2> QED
    BY <2>2, <2>3
<1>5. ASSUME NEW i \in 1 .. Len(c) - 1 PROVE c[i] < c[i + 1]
  <2>1. i \in 1 .. Len(a) + Len(b) /\ i + 1 \in 1 .. Len(a) + Len(b)
    BY <1>1, <1>2
  <2>2. CASE i + 1 <= Len(a)
    <3>1. i \in 1 .. Len(a) - 1 /\ c[i] = a[i] /\ c[i + 1] = a[i + 1]
      BY <1>1, <1>2, <2>1, <2>2
    <3> QED
      BY <3>1
  <2>3. CASE i = Len(a)
    <3>0. /\ i \in 1 .. Len(a) /\ i <= Len(a) /\ ~(i + 1 <= Len(a)) /\ (i + 1) - Len(a) = 1
          /\ 1 \in 1 .. Len(b)
      BY <1>1, <2>1, <2>3
    <3>1. i \in 1 .. Len(a) /\ c[i] = a[i] /\ 1 \in 1 .. Len(b) /\ c[i + 1] = b[1]
      BY <1>2, <2>1, <3>0
    <3>2. a[i] <= low /\ low < b[1] /\ a[i] \in Int /\ b[1] \in Int
      BY <1>1, <3>1
    <3> QED
      BY <3>1, <3>2
  <2>4. CASE i > Len(a)
    <3> DEFINE j == i - Len(a)
    <3>1. j \in 1 .. Len(b) - 1 /\ c[i] = b[j] /\ c[i + 1] = b[j + 1]
      <4>1. j \in 1 .. Len(b) - 1 /\ ~(i <= Len(a)) /\ ~(i + 1 <= Len(a))
        BY <1>1, <2>1, <2>4
      <4>2. i + 1 - Len(a) = j + 1
        BY <1>1, <2>1
      <4> QED
        BY <1>2, <2>1, <4>1, <4>2
    <3> HIDE DEF j
    <3> QED
      BY <3>1
  <2>5. i + 1 <= Len(a) \/ i = Len(a) \/ i > Len(a)
    <3>1. i \in Int /\ Len(a) \in Int
      BY <1>1, <2>1
    <3> QED
      BY <3>1
  <2> QED
    BY <2>2, <2>3, <2>4, <2>5
<1> QED
  BY <1>2, <1>4, <1>5 DEF c

LEMMA ChunkRunsStep ==
  ASSUME IInv, NEW result, ChunkRuns(result)
  PROVE  IInv'
<1> DEFINE start == StartOf(chunk)
           ahead == Ahead
           low == start + ahead
           high == EndOf(chunk) + ahead
           times == {low + r.at : r \in Read(result)}
           c == InOrder(times)
<1>1. /\ rows' = rows \o c /\ lastTime' = Last(c)
      /\ pc = "simulate" /\ OfChunk(result, chunk) /\ Read(result) # {}
      /\ UNCHANGED <<total, shift, anchors, active, staged, model>>
      /\ \/ chunk + 1 \in Chunks /\ pc' = "plan" /\ chunk' = chunk + 1
         \/ chunk + 1 \notin Chunks /\ pc' = "done" /\ chunk' = chunk
  BY DEF ChunkRuns
<1>0. /\ start \in Int /\ start >= 0 /\ ahead \in Int /\ ahead >= 0
      /\ EndOf(chunk) = start + Days(chunk) * Day /\ Days(chunk) * Day \in Int
      /\ Day <= Days(chunk) * Day /\ chunk \in Nat
      /\ StartOf(chunk + 1) \in Int /\ EndOf(chunk) <= StartOf(chunk + 1)
  BY ChunkDays, AheadType DEF IInv, TypeOK
<1>2. /\ low \in Int /\ high = low + Days(chunk) * Day /\ Days(chunk) * Day \in Int
      /\ Day <= Days(chunk) * Day /\ chunk \in Nat /\ low >= ahead
      /\ StartOf(chunk + 1) \in Int /\ high <= StartOf(chunk + 1) + ahead
  <2> DEFINE d == Days(chunk) * Day
             end == EndOf(chunk)
  <2>1. end = start + d /\ d \in Int
    BY <1>0
  <2> HIDE DEF d, end, start, ahead
  <2> QED
    BY <1>0, <2>1 DEF d, end
<1>3. high \in Int /\ low <= high /\ times \subseteq low + 1 .. high
  <2> DEFINE d == Days(chunk) * Day
  <2>1. d \in Int /\ Day <= d /\ Day \in Nat /\ high = low + d
    BY <1>2, LoweringAssumption
  <2>2. \A r \in Read(result) : r.at \in 1 .. d
    BY <1>1 DEF OfChunk, Read
  <2> HIDE DEF d, high, low
  <2>3. high \in Int /\ low <= high
    BY <1>2, <2>1
  <2>4. \A r \in Read(result) : low + r.at \in low + 1 .. high
    BY <1>2, <2>1, <2>2
  <2> QED
    BY <2>3, <2>4
<1>4. IsFiniteSet(times) /\ times \subseteq Int /\ times # {}
  <2>1. IsFiniteSet(low + 1 .. high) /\ times # {}
    <3>1. times # {}
      BY <1>1
    <3> HIDE DEF low, high
    <3> QED
      BY <1>2, <1>3, <3>1, FS_Interval
  <2> HIDE DEF times, low, high
  <2>2. IsFiniteSet(times)
    BY <1>3, <2>1, FS_Subset
  <2> QED
    BY <1>2, <1>3, <2>1, <2>2
<1> HIDE DEF low, high, times, start, ahead
<1> DEFINE n == Cardinality(times)
<1>5. /\ c \in Seq(times) /\ Len(c) = n /\ n \in Nat
      /\ \A i, j \in 1 .. n : i < j => c[i] < c[j]
  BY <1>4, InOrderListed
<1>6. n # 0
  BY <1>4, FS_EmptySet
<1> HIDE DEF n, c
<1>7. /\ c \in Seq(Int) /\ DOMAIN c = 1 .. n /\ \A i \in 1 .. n : c[i] \in times
  BY <1>4, <1>5, SeqMonotonic, LenProperties, ElementOfSeq
<1>8. /\ \A i \in 1 .. Len(c) - 1 : c[i] < c[i + 1]
      /\ \A i \in DOMAIN c : low < c[i] /\ c[i] <= high
  <2>1. \A i \in 1 .. n - 1 : i \in 1 .. n /\ i + 1 \in 1 .. n /\ i < i + 1
    BY <1>5
  <2>2. \A x \in times : low < x /\ x <= high
    BY <1>2, <1>3
  <2> QED
    BY <1>5, <1>7, <2>1, <2>2
<1>17. \A x \in times : x \in Int /\ x > low
  BY <1>2, <1>3, <1>4
<1>9. Last(c) \in Int /\ Last(c) > low
  <2>1. n \in 1 .. n
    BY <1>5, <1>6
  <2>2. c[n] \in times /\ Last(c) = c[n]
    BY <1>5, <1>7, <2>1 DEF Last
  <2> QED
    BY <1>17, <2>2
<1>10. /\ rows \in Seq(Int) /\ \A i \in 1 .. Len(rows) - 1 : rows[i] < rows[i + 1]
       /\ \A i \in DOMAIN rows : rows[i] <= low
  BY <1>0, <1>1 DEF IInv, TypeOK, RecordedInOrder, low, start, ahead
<1>11. /\ rows' \in Seq(Int) /\ \A i \in 1 .. Len(rows') - 1 : rows'[i] < rows'[i + 1]
       /\ \A i \in DOMAIN rows' : rows'[i] <= high
  BY <1>1, <1>2, <1>3, <1>7, <1>8, <1>10, SeriesGoesOn
<1>12. TypeOK'
  <2>1. chunk' \in Chunks'
    BY <1>1 DEF IInv, TypeOK, Chunks
  <2> QED
    BY <1>1, <1>9, <1>11, <2>1 DEF IInv, TypeOK
<1>15. AnchorsAreMoments'
  <2>1. lastTime' > ahead /\ ahead >= 0
    BY <1>0, <1>1, <1>2, <1>9
  <2>2. lastTime' # -1 /\ lastTime' > Ahead'
    BY <1>0, <1>1, <1>9, <2>1 DEF ahead, Ahead
  <2> QED
    BY <1>1, <2>2 DEF IInv, AnchorsAreMoments, Moment, Ahead
<1>16. Ahead' = ahead
  BY <1>1 DEF ahead, Ahead
<1>13. BaselineUntilPlanned' /\ ModelRendered'
  BY <1>1 DEF IInv, BaselineUntilPlanned, ModelRendered
<1>14. RecordedInOrder'
  <2>1. CASE chunk + 1 \in Chunks /\ pc' = "plan" /\ chunk' = chunk + 1
    <3>1. StartOf(chunk)' = StartOf(chunk + 1)
      BY <2>1 DEF StartOf
    <3>2. \A i \in DOMAIN rows' : rows'[i] <= ahead + StartOf(chunk + 1)
      <4>1. \A i \in DOMAIN rows' : rows'[i] \in Int
        BY <1>11, LenProperties, ElementOfSeq
      <4> QED
        BY <1>0, <1>2, <1>3, <1>11, <4>1
    <3> QED
      BY <1>11, <1>16, <2>1, <3>1, <3>2 DEF RecordedInOrder
  <2>2. CASE chunk + 1 \notin Chunks /\ pc' = "done" /\ chunk' = chunk
    <3>1. Ahead' + EndOf(chunk)' = high
      <4>1. EndOf(chunk)' = EndOf(chunk)
        BY <1>1, <2>2 DEF EndOf, StartOf, Days
      <4>2. EndOf(chunk) \in Int
        <5> DEFINE d == Days(chunk) * Day
                   end == EndOf(chunk)
        <5>1. end = start + d /\ d \in Int
          BY <1>0
        <5> HIDE DEF d, end, start
        <5> QED
          BY <1>0, <5>1 DEF end
      <4> QED
        BY <1>0, <1>16, <4>1, <4>2 DEF high
    <3> DEFINE last == (total - 1) \div HorizonDays
    <3>2. last \in Nat
      <4>1. total - 1 \in Nat /\ HorizonDays \in Nat \ {0}
        BY RecedingAssumption DEF IInv, TypeOK
      <4> QED
        BY <4>1, Quotient
    <3>3. chunk \in 0 .. last /\ chunk + 1 \notin 0 .. last
      BY <2>2 DEF IInv, TypeOK, Chunks
    <3>4. chunk = last
      <4> HIDE DEF last
      <4> QED
        BY <3>2, <3>3
    <3>5. chunk' = (total' - 1) \div HorizonDays
      BY <1>1, <2>2, <3>4
    <3> QED
      BY <1>11, <2>2, <3>1, <3>5 DEF RecordedInOrder
  <2> QED
    BY <1>1, <2>1, <2>2
<1> QED
  BY <1>12, <1>13, <1>14, <1>15 DEF IInv

LEMMA StepInvariant == IInv /\ [Next]_vars => IInv'
<1> SUFFICES ASSUME IInv, [Next]_vars PROVE IInv'
  OBVIOUS
<1>1. CASE \/ NoNewPlan \/ ProviderRaises
           \/ Snapshot \/ WriteModel \/ ChunkFails
           \/ UNCHANGED vars
  BY <1>1, QuietStep
<1>2. CASE \E offer \in Offers : Write(offer.id, offer.steps)
  BY <1>2, WriteStep
<1>3. CASE \E result \in Results : ChunkRuns(result)
  BY <1>3, ChunkRunsStep
<1> QED
  BY <1>1, <1>2, <1>3 DEF Next

-----------------------------------------------------------------------------
(* The theorems.                                                           *)

\* The inductive invariant: its types and chunks, the anchors at the start of the
\* run or in the year of EnergyPlus, the baseline staged until there is a plan,
\* the model that is simulated rendered from the plan there is, and the series of
\* rows.
THEOREM Invariance == Spec => []IInv
BY InitInvariant, StepInvariant, PTL DEF Spec

LEMMA BaselineRendered ==
  ASSUME NEW value \in Int, NEW slot \in 0 .. Day - 1
  PROVE  ValueAt(Compact({Point(0, 0, value)}), slot) = value
<1> DEFINE p == Point(0, 0, value)
           points == {p}
<1>1. p.at = 0 /\ p.place = 0 /\ p.value = value
  BY DEF Point
<1>2. IsFiniteSet(points)
  <2>1. points = {} \cup {p}
    OBVIOUS
  <2> HIDE DEF p
  <2> QED
    BY <2>1, FS_EmptySet, FS_AddElement
<1> HIDE DEF p
<1>3. Placed(points) /\ Times(points) \subseteq Nat /\ 0 \in Times(points)
  BY <1>1, <1>2 DEF Placed, Times
<1>4. \E q \in points : ValueAt(Compact(points), slot) = q.value
  <2> HIDE DEF points
  <2> QED
    BY <1>3, CompactValue
<1> QED
  BY <1>1, <1>4 DEF p

\* Nothing of a plan that has its anchor after the last day of the run is among
\* the points of a chunk.
LEMMA PlanOutOfReach ==
  ASSUME IInv, active # NoPlan, shift >= total, active.anchor > 0,
         NEW zone, NEW actuator, NEW baseline
  PROVE  Points(active, chunk, zone, actuator, baseline) = {Point(0, 0, baseline)}
<1> DEFINE horizon == Days(chunk) * Day
           start == StartOf(chunk)
           anchor == active.anchor
           relevant == Relevant(active, chunk, zone, actuator)
<1>1. active \in ApprovedPlan
  BY DEF IInv, TypeOK
<1>2. anchor >= start + horizon /\ start \in Int /\ horizon \in Nat /\ anchor \in Int
  <2> DEFINE all == total * Day
             ahead == shift * Day
             end == EndOf(chunk)
  <2>1. start \in Int /\ horizon \in Int /\ end = start + horizon /\ end <= all /\ Day <= horizon
    BY ChunkDays DEF IInv, TypeOK
  <2>2. shift \in Nat /\ total \in Nat /\ Day \in Nat
    BY RecedingAssumption, LoweringAssumption DEF IInv, TypeOK
  <2>3. all <= ahead /\ all \in Int /\ ahead \in Int
    BY <2>2, Product
  <2>4. anchor \in Int /\ anchor > ahead
    BY <1>1, StepType DEF IInv, AnchorsAreMoments, Moment, Ahead
  <2> HIDE DEF all, ahead, end, start, horizon, anchor
  <2> QED
    BY <2>1, <2>2, <2>3, <2>4
<1>3. ASSUME NEW p \in relevant PROVE ~(p.at <= 0) /\ ~(p.at < horizon)
  <2>1. PICK i \in DOMAIN active.steps : p.at = active.steps[i].offset - (start - anchor)
    BY DEF Relevant, Point
  <2>2. active.steps[i].offset \in Int /\ active.steps[i].offset >= 0
    BY <1>1, StepType
  <2> DEFINE offset == active.steps[i].offset
             at == p.at
  <2>3. offset \in Int /\ offset >= 0 /\ at = offset - (start - anchor)
    BY <2>1, <2>2
  <2> HIDE DEF offset, at, start, anchor, horizon
  <2>4. ~(at <= 0) \/ horizon = 0
    BY <1>2, <2>3
  <2>5. ~(at < horizon)
    BY <1>2, <2>3
  <2>6. horizon # 0
    <3>1. Days(chunk) \in Nat \ {0} /\ Day <= Days(chunk) * Day
      BY ChunkDays DEF IInv, TypeOK
    <3> QED
      BY <1>2, <3>1, LoweringAssumption DEF horizon
  <2> QED
    BY <2>4, <2>5, <2>6 DEF at
<1>4. {p \in relevant : p.at <= 0} = {} /\ InChunk(relevant, chunk) = {}
  <2> HIDE DEF relevant
  <2> QED
    BY <1>3 DEF InChunk
<1> QED
  BY <1>4 DEF Points

LEMMA OnePointCollapsed ==
  ASSUME NEW value
  PROVE  Collapsed({Point(0, 0, value)}) = {Point(0, 0, value)}
<1> DEFINE p == Point(0, 0, value)
<1>1. ~Earlier(p, p)
  BY DEF Point, Earlier
<1> HIDE DEF p
<1>2. {q \in {p} : Earlier(q, p)} = {}
  BY <1>1
<1>3. Collapsed({p}) = {p}
  BY <1>2 DEF Collapsed
<1> QED
  BY <1>3 DEF p

\* Throughout the first day of every chunk each schedule has the value the plan
\* asks for, however many chunks, zones, schedules and steps there are and
\* however long ago the plan was made; where steps of the chunk are for one
\* time, that of the warmest of them until the plan asks for another value.  But
\* of a plan with its anchor in a later year than the driver's there is nothing in
\* any model: the schedules have the baseline, in every chunk
\* (_write_schedules, breakpoints_for_chunk, compact_fields).
THEOREM ModelFollowsPlan == Spec => []ProfileFollowsPlan
<1>1. IInv => ProfileFollowsPlan
  <2> SUFFICES ASSUME IInv, pc = "simulate", NEW s \in Schedules, NEW slot \in 0 .. Day - 1
               PROVE  LET held == ValueAt(model[s], slot)
                          asked(t) == InForce(active, s, StartOf(chunk) + t)
                      IN  IF active = NoPlan \/ (shift >= total /\ active.anchor > 0)
                          THEN held = Baseline[s]
                          ELSE \/ held = asked(slot)
                               \/ /\ held > asked(slot)
                                  /\ \E i \in StepsFor(active, s), t \in 1 .. slot :
                                       /\ active.anchor + active.steps[i].offset
                                            = StartOf(chunk) + t
                                       /\ active.steps[i].value = held
                                       /\ \A u \in t .. slot : asked(u) = asked(slot)
    BY DEF ProfileFollowsPlan
  <2>1. model[s] = Profile(s) /\ Baseline[s] \in Int
    BY RecedingAssumption DEF IInv, ModelRendered, Schedules
  <2>2. CASE active = NoPlan
    <3>1. model[s] = Compact({Point(0, 0, Baseline[s])})
      BY <2>1, <2>2 DEF Profile, IInv, BaselineUntilPlanned
    <3>2. ValueAt(model[s], slot) = Baseline[s]
      BY <2>1, <3>1, BaselineRendered
    <3> QED
      BY <2>2, <3>2
  <2>4. CASE active # NoPlan /\ shift >= total /\ active.anchor > 0
    <3>1. model[s] = Compact({Point(0, 0, Baseline[s])})
      BY <2>1, <2>4, PlanOutOfReach, OnePointCollapsed DEF Profile
    <3>2. ValueAt(model[s], slot) = Baseline[s]
      BY <2>1, <3>1, BaselineRendered
    <3> QED
      BY <2>4, <3>2
  <2>3. CASE active # NoPlan /\ ~(shift >= total /\ active.anchor > 0)
    <3> DEFINE points == Points(active, chunk, FirstZone(s), ActuatorOf(s), Baseline[s])
    <3>1. active \in ApprovedPlan
      BY <2>3 DEF IInv, TypeOK
    <3>2. /\ StartOf(chunk) \in Int /\ Days(chunk) * Day \in Int
          /\ Day <= Days(chunk) * Day
      BY ChunkDays DEF IInv, TypeOK
    <3>3. model[s] = Compact(Collapsed(points))
      BY <2>1, <2>3 DEF Profile
    <3> DEFINE held == ValueAt(Compact(Collapsed(points)), slot)
               asked(t) == InForce(active, s, StartOf(chunk) + t)
    <3>4. \/ held = asked(slot)
          \/ /\ held > asked(slot)
             /\ \E i \in StepsFor(active, s), t \in 1 .. slot :
                  /\ active.anchor + active.steps[i].offset = StartOf(chunk) + t
                  /\ active.steps[i].value = held
                  /\ \A u \in t .. slot : asked(u) = asked(slot)
      BY <2>1, <3>1, <3>2, PlanRendered
    <3>5. held = ValueAt(model[s], slot)
      BY <3>3
    <3> HIDE DEF held
    <3> QED
      BY <2>3, <3>4, <3>5
  <2> QED
    BY <2>2, <2>3, <2>4
<1> QED
  BY <1>1, Invariance, PTL

\* The store has the timesteps of the run period, each once and in order, and
\* none of a chunk that did not run, for any results of EnergyPlus that are of
\* the days of their chunk (_run_chunk, read_chunk_results).
THEOREM RowsInOrder == Spec => []RecordedInOrder
<1>1. IInv => RecordedInOrder
  BY DEF IInv
<1> QED
  BY <1>1, Invariance, PTL
=============================================================================
