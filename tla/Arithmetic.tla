----------------------------- MODULE Arithmetic -----------------------------
(***************************************************************************)
(* Lemmas about the operators that the contracts calculate with: products  *)
(* and floor quotients of amounts, and the sum of the values of a function *)
(* over a finite set -- what the recursion in the library's definition of  *)
(* a fold computes, and how the sum follows the function when one value is *)
(* written, added or removed, or when all of them change; and the fold of  *)
(* a list, as a run of steps over its elements.  The library's induction   *)
(* theorems take a predicate as a parameter; here the induction is over    *)
(* the set of those subsets, or numbers, that satisfy it.                  *)
(***************************************************************************)
EXTENDS Integers, FiniteSets, FiniteSetsExt, FiniteSetTheorems,
        WellFoundedInduction, TLAPS

-----------------------------------------------------------------------------
(* Products and quotients.                                                 *)

\* Floor division of natural numbers, by its remainder.
LEMMA DivisionBounds ==
  ASSUME NEW x \in Nat, NEW z \in Nat \ {0}
  PROVE  /\ x \div z \in Nat
         /\ (x \div z) * z <= x
         /\ x < (x \div z) * z + z
OBVIOUS

\* Products of natural numbers grow with their factors.
LEMMA ProductGrows ==
  ASSUME NEW a \in Nat, NEW b \in Nat, NEW c \in Nat, NEW d \in Nat,
         a <= b, c <= d
  PROVE  a * c <= b * d
<1>1. PICK e \in Nat : b = a + e
  <2>1. b - a \in Nat /\ b = a + (b - a)
    OBVIOUS
  <2> QED
    BY <2>1
<1>2. PICK f \in Nat : d = c + f
  <2>1. d - c \in Nat /\ d = c + (d - c)
    OBVIOUS
  <2> QED
    BY <2>1
<1>3. a * c \in Nat /\ a * f \in Nat /\ e * c \in Nat /\ e * f \in Nat
  OBVIOUS
<1>4. b * d = a * c + a * f + e * c + e * f
  BY <1>1, <1>2
<1> QED
  BY <1>3, <1>4

\* Floor division keeps the order.
LEMMA DivisionGrows ==
  ASSUME NEW x \in Nat, NEW y \in Nat, NEW z \in Nat \ {0}, x <= y
  PROVE  x \div z <= y \div z
<1> DEFINE q == x \div z
           r == y \div z
<1>1. /\ q \in Nat /\ r \in Nat /\ q * z <= x /\ y < r * z + z
  BY DivisionBounds
<1> HIDE DEF q, r
<1>2. SUFFICES ASSUME r + 1 <= q PROVE FALSE
  BY <1>1 DEF q, r
<1>3. (r + 1) * z <= q * z
  BY <1>1, <1>2, ProductGrows
<1>4. (r + 1) * z = r * z + z
  BY <1>1
<1>5. r * z \in Nat /\ q * z \in Nat
  BY <1>1
<1> QED
  BY <1>1, <1>3, <1>4, <1>5

-----------------------------------------------------------------------------
(* Sums.                                                                   *)

\* Induction over the subsets of a finite set, stated of a set G of them
\* instead of a predicate: it has no parameter that is an operator.
LEMMA SubsetInduction ==
  ASSUME NEW S, IsFiniteSet(S), NEW G,
         \A T \in SUBSET S : (\A U \in SUBSET T : U # T => U \in G) => T \in G
  PROVE  S \in G
<1> DEFINE B == (SUBSET S) \ G
<1> SUFFICES ASSUME B # {} PROVE FALSE
  OBVIOUS
<1>1. IsWellFoundedOn(StrictSubsetOrdering(S), SUBSET S)
  <2>1. IsWellFoundedOn(StrictSubsetOrdering(S), FiniteSubsetsOf(S))
    BY FS_StrictSubsetOrderingWellFounded
  <2> QED
    BY <2>1, FS_FiniteSubsetsOfFinite, Zenon
<1>2. B \subseteq SUBSET S
  OBVIOUS
<1> HIDE DEF B
<1>3. PICK T \in B : \A U \in B : ~ (<<U, T>> \in StrictSubsetOrdering(S))
  BY <1>1, <1>2, WFMin
<1>4. T \in SUBSET S /\ T \notin G
  BY DEF B
<1>5. \A U \in SUBSET T : U # T => U \in G
  BY <1>3, <1>4 DEF B, StrictSubsetOrdering
<1> QED
  BY <1>4, <1>5

\* The element that the library's folds take out of a set first.
Chosen(T) == CHOOSE x \in T : TRUE

\* g is the table of the partial sums of f over the subsets of S.
PartialSums(g, f, S) ==
  g = [T \in SUBSET S |->
         IF T = {} THEN 0 ELSE f[Chosen(T)] + g[T \ {Chosen(T)}]]

SumUp(f, S) == CHOOSE g : PartialSums(g, f, S)

\* The library's sum, in these terms.
LEMMA SumUnfolded ==
  ASSUME NEW f, NEW S
  PROVE  SumFunctionOnSet(f, S) = SumUp(f, S)[S]
BY Zenon
DEF SumFunctionOnSet, FoldFunctionOnSet, MapThenFoldSet, SumUp,
    PartialSums, Chosen

\* Taking it out leaves less.
LEMMA ChosenRest ==
  ASSUME NEW T, T # {}
  PROVE  /\ Chosen(T) \in T
         /\ T \ {Chosen(T)} \in SUBSET T
         /\ T \ {Chosen(T)} # T
BY DEF Chosen

\* What a table of partial sums holds.
LEMMA SumsAt ==
  ASSUME NEW f, NEW S, NEW g, PartialSums(g, f, S), NEW T \in SUBSET S
  PROVE  /\ g[{}] = 0
         /\ T # {} => g[T] = f[Chosen(T)] + g[T \ {Chosen(T)}]
BY DEF PartialSums

\* Two tables agree wherever both have an entry.
LEMMA SumsAgree ==
  ASSUME NEW f, NEW S, NEW g, PartialSums(g, f, S),
         NEW R, NEW h, PartialSums(h, f, R),
         NEW T \in (SUBSET S) \cap (SUBSET R), IsFiniteSet(T)
  PROVE  g[T] = h[T]
<1> DEFINE G == {U \in SUBSET T : g[U] = h[U]}
<1>1. ASSUME NEW U \in SUBSET T, \A V \in SUBSET U : V # U => V \in G
      PROVE  g[U] = h[U]
  <2>1. U \in SUBSET S /\ U \in SUBSET R
    OBVIOUS
  <2>2. CASE U = {}
    BY <2>1, <2>2, SumsAt
  <2>3. CASE U # {}
    <3> DEFINE V == U \ {Chosen(U)}
    <3>1. g[V] = h[V]
      BY <1>1, <2>3, ChosenRest
    <3> QED
      BY <2>1, <2>3, <3>1, SumsAt
  <2> QED
    BY <2>2, <2>3
<1>2. T \in G
  <2>1. \A U \in SUBSET T : (\A V \in SUBSET U : V # U => V \in G) => U \in G
    BY <1>1
  <2> HIDE DEF G
  <2> QED
    BY <2>1, SubsetInduction
<1> QED
  BY <1>2

\* There is a table for every function on a finite set.
LEMMA SumsExist ==
  ASSUME NEW f, NEW S, IsFiniteSet(S)
  PROVE  PartialSums(SumUp(f, S), f, S)
<1> DEFINE G == {T \in SUBSET S : PartialSums(SumUp(f, T), f, T)}
<1>1. ASSUME NEW T \in SUBSET S, \A U \in SUBSET T : U # T => U \in G
      PROVE  PartialSums(SumUp(f, T), f, T)
  <2> DEFINE At(U) == SumUp(f, U \ {Chosen(U)})[U \ {Chosen(U)}]
             h == [U \in SUBSET T |->
                     IF U = {} THEN 0 ELSE f[Chosen(U)] + At(U)]
  <2>1. ASSUME NEW U \in SUBSET T, U # {} PROVE h[U \ {Chosen(U)}] = At(U)
    <3> DEFINE V == U \ {Chosen(U)}
    <3>1. V \in SUBSET T /\ V # T
      BY <2>1, ChosenRest
    <3>2. PartialSums(SumUp(f, V), f, V)
      BY <1>1, <3>1
    <3>3. CASE V = {}
      BY <3>2, <3>3, SumsAt
    <3>4. CASE V # {}
      <4> DEFINE W == V \ {Chosen(V)}
      <4>1. /\ W \in SUBSET T /\ W # T
            /\ W \in (SUBSET V) \cap (SUBSET W) /\ V \in SUBSET V
        BY <3>1
      <4>2. IsFiniteSet(W)
        BY <4>1, FS_Subset
      <4>3. h[V] = f[Chosen(V)] + SumUp(f, W)[W]
        BY <3>1, <3>4
      <4>4. PartialSums(SumUp(f, W), f, W)
        BY <1>1, <4>1
      <4> HIDE DEF V, h
      <4>5. SumUp(f, V)[V] = f[Chosen(V)] + SumUp(f, V)[W]
        BY <3>2, <3>4, <4>1, SumsAt
      <4> HIDE DEF W
      <4>6. SumUp(f, V)[W] = SumUp(f, W)[W]
        BY <3>2, <4>1, <4>2, <4>4, SumsAgree
      <4> QED
        BY <4>3, <4>5, <4>6 DEF V
    <3> QED
      BY <3>3, <3>4
  <2>2. h = [U \in SUBSET T |->
               IF U = {} THEN 0 ELSE f[Chosen(U)] + h[U \ {Chosen(U)}]]
    BY <2>1
  <2> HIDE DEF h
  <2>3. PartialSums(h, f, T)
    BY <2>2 DEF PartialSums
  <2> QED
    BY <2>3 DEF SumUp
<1>2. S \in G
  <2>1. \A T \in SUBSET S : (\A U \in SUBSET T : U # T => U \in G) => T \in G
    BY <1>1
  <2> HIDE DEF G
  <2> QED
    BY <2>1, SubsetInduction
<1> QED
  BY <1>2

\* The sum over nothing.
LEMMA SumEmpty ==
  ASSUME NEW f
  PROVE  SumFunctionOnSet(f, {}) = 0
<1>1. PartialSums(SumUp(f, {}), f, {})
  BY FS_EmptySet, SumsExist
<1> QED
  BY <1>1, SumsAt, SumUnfolded

\* The recursion equation of the sum.
LEMMA SumChosen ==
  ASSUME NEW f, NEW S, IsFiniteSet(S), S # {}
  PROVE  SumFunctionOnSet(f, S)
           = f[Chosen(S)] + SumFunctionOnSet(f, S \ {Chosen(S)})
<1> DEFINE R == S \ {Chosen(S)}
<1>1. R \in (SUBSET S) \cap (SUBSET R) /\ S \in SUBSET S /\ IsFiniteSet(R)
  BY FS_Subset
<1>2. PartialSums(SumUp(f, S), f, S)
  BY SumsExist
<1>3. SumUp(f, S)[S] = f[Chosen(S)] + SumUp(f, S)[R]
  BY <1>1, <1>2, SumsAt
<1> HIDE DEF R
<1>4. PartialSums(SumUp(f, R), f, R)
  BY <1>1, SumsExist
<1>5. SumUp(f, S)[R] = SumUp(f, R)[R]
  BY <1>1, <1>2, <1>4, SumsAgree
<1> QED
  BY <1>3, <1>5, SumUnfolded DEF R

\* Induction for a fact about the sums over the subsets of a finite set.
LEMMA SumInduction ==
  ASSUME NEW S, IsFiniteSet(S), NEW G, {} \in G,
         \A T \in SUBSET S : T # {} /\ T \ {Chosen(T)} \in G => T \in G
  PROVE  S \in G
<1>1. ASSUME NEW T \in SUBSET S, \A U \in SUBSET T : U # T => U \in G
      PROVE  T \in G
  BY <1>1, ChosenRest
<1> QED
  BY <1>1, SubsetInduction

\* Integers sum up to one.
LEMMA SumInt ==
  ASSUME NEW f, NEW S, IsFiniteSet(S), \A x \in S : f[x] \in Int
  PROVE  SumFunctionOnSet(f, S) \in Int
<1> DEFINE G == {T \in SUBSET S : SumFunctionOnSet(f, T) \in Int}
<1>1. {} \in G
  BY SumEmpty
<1>2. ASSUME NEW T \in SUBSET S, T # {}, T \ {Chosen(T)} \in G PROVE T \in G
  BY <1>2, FS_Subset, SumChosen, ChosenRest
<1>3. S \in G
  <2> HIDE DEF G
  <2> QED
    BY <1>1, <1>2, SumInduction
<1> QED
  BY <1>3

\* A comparison that holds of all values holds of their sums.
LEMMA SumScaled ==
  ASSUME NEW f, NEW g, NEW S, IsFiniteSet(S), NEW k \in Int, NEW m \in Int,
         \A x \in S : f[x] \in Int /\ g[x] \in Int /\ k * f[x] <= m * g[x]
  PROVE  k * SumFunctionOnSet(f, S) <= m * SumFunctionOnSet(g, S)
<1> DEFINE G == {T \in SUBSET S :
                   k * SumFunctionOnSet(f, T) <= m * SumFunctionOnSet(g, T)}
<1>1. {} \in G
  BY SumEmpty
<1>2. ASSUME NEW T \in SUBSET S, T # {}, T \ {Chosen(T)} \in G PROVE T \in G
  <2> DEFINE c == Chosen(T)
             U == T \ {c}
  <2>1. c \in S /\ U \in SUBSET S /\ IsFiniteSet(U) /\ IsFiniteSet(T)
    BY <1>2, ChosenRest, FS_Subset
  <2>2. /\ SumFunctionOnSet(f, T) = f[c] + SumFunctionOnSet(f, U)
        /\ SumFunctionOnSet(g, T) = g[c] + SumFunctionOnSet(g, U)
    BY <1>2, <2>1, SumChosen
  <2>3. k * SumFunctionOnSet(f, U) <= m * SumFunctionOnSet(g, U)
    BY <1>2
  <2> HIDE DEF c, U
  <2>4. SumFunctionOnSet(f, U) \in Int /\ SumFunctionOnSet(g, U) \in Int
    BY <2>1, SumInt
  <2>5. \A i, j, p, q \in Int : k * i <= m * j /\ k * p <= m * q
                                  => k * (i + p) <= m * (j + q)
    OBVIOUS
  <2> QED
    BY <2>1, <2>2, <2>3, <2>4, <2>5
<1>3. S \in G
  <2> HIDE DEF G
  <2> QED
    BY <1>1, <1>2, SumInduction
<1> QED
  BY <1>3

\* Sums of sums.
LEMMA SumAdded ==
  ASSUME NEW f, NEW g, NEW h, NEW S, IsFiniteSet(S),
         \A x \in S : f[x] \in Int /\ g[x] \in Int /\ h[x] = f[x] + g[x]
  PROVE  SumFunctionOnSet(h, S) = SumFunctionOnSet(f, S) + SumFunctionOnSet(g, S)
<1> DEFINE G == {T \in SUBSET S : SumFunctionOnSet(h, T)
                   = SumFunctionOnSet(f, T) + SumFunctionOnSet(g, T)}
<1>1. {} \in G
  BY SumEmpty
<1>2. ASSUME NEW T \in SUBSET S, T # {}, T \ {Chosen(T)} \in G PROVE T \in G
  <2> DEFINE c == Chosen(T)
             U == T \ {c}
  <2>1. c \in S /\ U \in SUBSET S /\ IsFiniteSet(U) /\ IsFiniteSet(T)
    BY <1>2, ChosenRest, FS_Subset
  <2>2. /\ SumFunctionOnSet(f, T) = f[c] + SumFunctionOnSet(f, U)
        /\ SumFunctionOnSet(g, T) = g[c] + SumFunctionOnSet(g, U)
        /\ SumFunctionOnSet(h, T) = h[c] + SumFunctionOnSet(h, U)
    BY <1>2, <2>1, SumChosen
  <2>3. SumFunctionOnSet(h, U) = SumFunctionOnSet(f, U) + SumFunctionOnSet(g, U)
    BY <1>2
  <2> HIDE DEF c, U
  <2>4. SumFunctionOnSet(f, U) \in Int /\ SumFunctionOnSet(g, U) \in Int
    BY <2>1, SumInt
  <2> QED
    BY <2>1, <2>2, <2>3, <2>4
<1>3. S \in G
  <2> HIDE DEF G
  <2> QED
    BY <1>1, <1>2, SumInduction
<1> QED
  BY <1>3

\* Any key may be taken out first.
LEMMA SumRemove ==
  ASSUME NEW f, NEW S, IsFiniteSet(S), \A x \in S : f[x] \in Int, NEW x \in S
  PROVE  SumFunctionOnSet(f, S) = f[x] + SumFunctionOnSet(f, S \ {x})
<1> DEFINE Out(T, y) ==
             SumFunctionOnSet(f, T) = f[y] + SumFunctionOnSet(f, T \ {y})
           G == {T \in SUBSET S : \A y \in T : Out(T, y)}
<1>1. ASSUME NEW T \in SUBSET S, \A U \in SUBSET T : U # T => U \in G,
             NEW y \in T
      PROVE  Out(T, y)
  <2> DEFINE c == Chosen(T)
  <2>1. /\ IsFiniteSet(T) /\ T # {} /\ c \in T
        /\ f[c] \in Int /\ f[y] \in Int
    BY <1>1, ChosenRest, FS_Subset
  <2>2. Out(T, c)
    BY <2>1, SumChosen
  <2> HIDE DEF c
  <2>3. CASE c = y
    BY <2>2, <2>3
  <2>4. CASE c # y
    <3>1. y \in T \ {c} /\ T \ {c} \in SUBSET T /\ T \ {c} # T
      BY <2>1, <2>4
    <3>2. c \in T \ {y} /\ T \ {y} \in SUBSET T /\ T \ {y} # T
      BY <2>1, <2>4
    <3>3. Out(T \ {c}, y) /\ Out(T \ {y}, c)
      <4>1. T \ {c} \in G /\ T \ {y} \in G
        BY <1>1, <3>1, <3>2
      <4> HIDE DEF Out
      <4> QED
        BY <3>1, <3>2, <4>1
    <3> DEFINE W == (T \ {c}) \ {y}
    <3>4. W = (T \ {y}) \ {c}
      OBVIOUS
    <3>5. SumFunctionOnSet(f, W) \in Int
      BY FS_Subset, SumInt
    <3>6. SumFunctionOnSet(f, T \ {c}) = f[y] + SumFunctionOnSet(f, W)
      BY <3>3
    <3>7. SumFunctionOnSet(f, T \ {y}) = f[c] + SumFunctionOnSet(f, W)
      BY <3>3, <3>4
    <3> HIDE DEF W
    <3> QED
      BY <2>1, <2>2, <3>5, <3>6, <3>7
  <2> QED
    BY <2>3, <2>4
<1>2. S \in G
  <2> HIDE DEF Out
  <2>1. \A T \in SUBSET S : (\A U \in SUBSET T : U # T => U \in G) => T \in G
    BY <1>1
  <2> HIDE DEF G
  <2> QED
    BY <2>1, SubsetInduction
<1> QED
  BY <1>2

\* In particular, of values as they are.
LEMMA SumOrdered ==
  ASSUME NEW f, NEW g, NEW S, IsFiniteSet(S),
         \A x \in S : f[x] \in Int /\ g[x] \in Int /\ f[x] <= g[x]
  PROVE  SumFunctionOnSet(f, S) <= SumFunctionOnSet(g, S)
<1>1. \A x \in S : f[x] \in Int /\ g[x] \in Int /\ 1 * f[x] <= 1 * g[x]
  OBVIOUS
<1>2. 1 * SumFunctionOnSet(f, S) <= 1 * SumFunctionOnSet(g, S)
  BY <1>1, SumScaled
<1>3. SumFunctionOnSet(f, S) \in Int /\ SumFunctionOnSet(g, S) \in Int
  BY SumInt
<1> QED
  BY <1>2, <1>3

\* The sum depends on the values summed only.
LEMMA SumSame ==
  ASSUME NEW f, NEW g, NEW S, IsFiniteSet(S), \A x \in S : f[x] \in Int,
         \A x \in S : g[x] = f[x]
  PROVE  SumFunctionOnSet(g, S) = SumFunctionOnSet(f, S)
<1>1. \A x \in S : f[x] \in Int /\ g[x] \in Int /\ f[x] <= g[x] /\ g[x] <= f[x]
  OBVIOUS
<1>2. SumFunctionOnSet(f, S) \in Int /\ SumFunctionOnSet(g, S) \in Int
  BY SumInt
<1>3. SumFunctionOnSet(f, S) <= SumFunctionOnSet(g, S)
  BY <1>1, SumOrdered
<1>4. SumFunctionOnSet(g, S) <= SumFunctionOnSet(f, S)
  BY <1>1, SumOrdered
<1> QED
  BY <1>2, <1>3, <1>4

\* What a function has at a key; nothing if it has no such key.
ValueAt(f, x) == IF x \in DOMAIN f THEN f[x] ELSE 0

\* Two functions that differ at one key at most, which either may have or
\* not: their sums differ by what they have there.
LEMMA SumWritten ==
  ASSUME NEW f, NEW g, NEW x,
         IsFiniteSet(DOMAIN f), DOMAIN g \cup {x} = DOMAIN f \cup {x},
         \A y \in DOMAIN f : f[y] \in Int,
         \A y \in DOMAIN f \ {x} : g[y] = f[y],
         ValueAt(g, x) \in Int
  PROVE  /\ IsFiniteSet(DOMAIN g)
         /\ SumFunction(g) = SumFunction(f) - ValueAt(f, x) + ValueAt(g, x)
<1> DEFINE R == DOMAIN f \ {x}
<1>1. R = DOMAIN g \ {x} /\ IsFiniteSet(R)
  BY FS_Subset
<1>2. IsFiniteSet(DOMAIN g)
  BY <1>1, FS_AddElement, FS_Subset
<1>3. /\ \A y \in DOMAIN g : g[y] \in Int
      /\ \A y \in R : f[y] \in Int /\ g[y] = f[y]
  BY <1>1 DEF ValueAt
<1>4. /\ SumFunctionOnSet(f, R) \in Int
      /\ SumFunctionOnSet(g, R) = SumFunctionOnSet(f, R)
  <2> HIDE DEF R
  <2> QED
    BY <1>1, <1>3, SumInt, SumSame
<1>5. SumFunction(f) = ValueAt(f, x) + SumFunctionOnSet(f, R)
  <2>1. CASE x \in DOMAIN f
    BY <2>1, SumRemove DEF SumFunction, ValueAt
  <2>2. CASE x \notin DOMAIN f
    <3>1. DOMAIN f = R
      BY <2>2
    <3> QED
      BY <1>4, <2>2, <3>1 DEF SumFunction, ValueAt
  <2> QED
    BY <2>1, <2>2
<1>6. SumFunction(g) = ValueAt(g, x) + SumFunctionOnSet(g, R)
  <2>1. CASE x \in DOMAIN g
    BY <1>1, <1>2, <1>3, <2>1, SumRemove DEF SumFunction, ValueAt
  <2>2. CASE x \notin DOMAIN g
    <3>1. DOMAIN g = R
      BY <1>1, <2>2
    <3> QED
      BY <1>4, <2>2, <3>1 DEF SumFunction, ValueAt
  <2> QED
    BY <2>1, <2>2
<1>7. ValueAt(f, x) \in Int
  BY DEF ValueAt
<1> HIDE DEF R
<1> QED
  BY <1>2, <1>4, <1>5, <1>6, <1>7

-----------------------------------------------------------------------------
(* Folds of sequences.                                                     *)

\* A finite set of numbers that is not empty has a greatest.
LEMMA GreatestIsThere ==
  ASSUME NEW T \in SUBSET Int, IsFiniteSet(T), T # {}
  PROVE  Max(T) \in T /\ \A y \in T : Max(T) >= y
<1> DEFINE Top(U) == \E x \in U : \A y \in U : x >= y
           G == {U \in SUBSET T : U # {} => Top(U)}
<1>1. ASSUME NEW U \in SUBSET T, \A V \in SUBSET U : V # U => V \in G, U # {}
      PROVE  Top(U)
  <2>1. PICK u \in U : TRUE BY <1>1
  <2>2. CASE U \ {u} = {}
    <3>1. \A y \in U : y = u BY <2>1, <2>2
    <3> QED BY <2>1, <3>1
  <2>3. CASE U \ {u} # {}
    <3>0. U \ {u} \in G BY <1>1, <2>1
    <3>1. PICK x \in U \ {u} : \A y \in U \ {u} : x >= y BY <2>3, <3>0
    <3>2. x \in Int /\ u \in Int BY <2>1, <3>1
    <3>3. CASE x >= u BY <3>1, <3>3
    <3>4. CASE u >= x
      <4>1. \A y \in U : u >= y BY <3>1, <3>2, <3>4
      <4> QED BY <2>1, <4>1
    <3> QED BY <3>2, <3>3, <3>4
  <2> QED BY <2>2, <2>3
<1>2. T \in G
  <2>1. \A U \in SUBSET T : (\A V \in SUBSET U : V # U => V \in G) => U \in G
    BY <1>1
  <2> HIDE DEF G
  <2> QED BY <2>1, SubsetInduction
<1>3. \E x \in T : \A y \in T : x >= y BY <1>2
<1> QED BY <1>3 DEF Max

\* g is the table of what a fold by o of s makes of the indices in a subset
\* of D: the greatest of them is the last.
FoldTable(g, o, base, s, D) ==
  g = [T \in SUBSET D |->
         IF T = {} THEN base ELSE o[<<g[T \ {Max(T)}], s[Max(T)]>>]]

\* The rest of a set without its greatest.
LEMMA GreatestRest ==
  ASSUME NEW D \in SUBSET Int, IsFiniteSet(D), NEW T \in SUBSET D, T # {}
  PROVE  Max(T) \in T /\ T \ {Max(T)} \in SUBSET T /\ T \ {Max(T)} # T
BY GreatestIsThere, FS_Subset

\* What a table holds.
FoldValues(g, o, base, s, D) ==
  \A T \in SUBSET D :
    /\ T = {} => g[T] = base
    /\ T # {} => g[T] = o[<<g[T \ {Max(T)}], s[Max(T)]>>]

\* It holds the base for no index, and one more step for every other subset.
LEMMA FoldAt ==
  ASSUME NEW o, NEW base, NEW s, NEW D, NEW g, FoldTable(g, o, base, s, D)
  PROVE  FoldValues(g, o, base, s, D)
<1>1. ASSUME NEW T \in SUBSET D
      PROVE  g[T] = IF T = {} THEN base ELSE o[<<g[T \ {Max(T)}], s[Max(T)]>>]
  BY Zenon DEF FoldTable
<1> QED BY <1>1 DEF FoldValues

\* Two tables agree wherever both have an entry.
LEMMA FoldsAgree ==
  ASSUME NEW o, NEW base, NEW s,
         NEW D \in SUBSET Int, IsFiniteSet(D), NEW g, FoldTable(g, o, base, s, D),
         NEW E, NEW h, FoldTable(h, o, base, s, E),
         NEW T \in (SUBSET D) \cap (SUBSET E)
  PROVE  g[T] = h[T]
<1> DEFINE G == {U \in SUBSET T : g[U] = h[U]}
<1>1. ASSUME NEW U \in SUBSET T, \A V \in SUBSET U : V # U => V \in G
      PROVE  g[U] = h[U]
  <2>1. U \in SUBSET D /\ U \in SUBSET E OBVIOUS
  <2> DEFINE V == U \ {Max(U)}
  <2>a. /\ U = {} => g[U] = base
        /\ U # {} => g[U] = o[<<g[V], s[Max(U)]>>]
    <3>1. FoldValues(g, o, base, s, D) BY FoldAt
    <3> QED BY <2>1, <3>1 DEF FoldValues
  <2>b. /\ U = {} => h[U] = base
        /\ U # {} => h[U] = o[<<h[V], s[Max(U)]>>]
    <3>1. FoldValues(h, o, base, s, E) BY FoldAt
    <3> QED BY <2>1, <3>1 DEF FoldValues
  <2>2. CASE U = {} BY <2>2, <2>a, <2>b
  <2>3. CASE U # {}
    <3>1. V \in SUBSET U /\ V # U BY <2>1, <2>3, GreatestRest
    <3>2. g[V] = h[V] BY <1>1, <3>1
    <3> QED BY <2>3, <2>a, <2>b, <3>2
  <2> QED BY <2>2, <2>3
<1>2. T \in G
  <2>1. \A U \in SUBSET T : (\A V \in SUBSET U : V # U => V \in G) => U \in G
    BY <1>1
  <2>2. IsFiniteSet(T) BY FS_Subset
  <2> HIDE DEF G
  <2> QED BY <2>1, <2>2, SubsetInduction
<1> QED BY <1>2

\* There is a table for every fold.
LEMMA FoldsExist ==
  ASSUME NEW o, NEW base, NEW s, NEW D \in SUBSET Int, IsFiniteSet(D)
  PROVE  \E g : FoldTable(g, o, base, s, D)
<1> DEFINE Fold(T) == CHOOSE g : FoldTable(g, o, base, s, T)
           G == {T \in SUBSET D : FoldTable(Fold(T), o, base, s, T)}
<1>1. ASSUME NEW T \in SUBSET D, \A U \in SUBSET T : U # T => U \in G
      PROVE  FoldTable(Fold(T), o, base, s, T)
  <2> DEFINE Rest(U) == U \ {Max(U)}
             At(U) == Fold(Rest(U))[Rest(U)]
             h == [U \in SUBSET T |-> IF U = {} THEN base ELSE o[<<At(U), s[Max(U)]>>]]
  <2>1. ASSUME NEW U \in SUBSET T, U # {} PROVE h[Rest(U)] = At(U)
    <3> DEFINE V == Rest(U)
    <3>1. V \in SUBSET T /\ V # T /\ V \in SUBSET V
      <4>1. U \in SUBSET D BY <2>1
      <4>2. V \in SUBSET U /\ V # U BY <2>1, <4>1, GreatestRest
      <4> QED BY <4>2
    <3>2. FoldTable(Fold(V), o, base, s, V)
      BY <1>1, <3>1
    <3> HIDE DEF V, Fold
    <3>v. FoldValues(Fold(V), o, base, s, V) BY <3>2, FoldAt
    <3>3. CASE V = {}
      <4>1. Fold(V)[V] = base BY <3>1, <3>3, <3>v DEF FoldValues
      <4>2. h[V] = base BY <3>1, <3>3
      <4> QED BY <4>1, <4>2 DEF V
    <3>4. CASE V # {}
      <4> DEFINE W == Rest(V)
      <4>1. W \in SUBSET T /\ W # T /\ W \in SUBSET V /\ W \in SUBSET W
        BY <3>1, <3>4, GreatestRest
      <4>2. FoldTable(Fold(W), o, base, s, W)
        BY <1>1, <4>1
      <4>3. h[V] = o[<<Fold(W)[W], s[Max(V)]>>]
        BY <3>1, <3>4
      <4>4. Fold(V)[V] = o[<<Fold(V)[W], s[Max(V)]>>]
        BY <3>1, <3>4, <3>v DEF FoldValues
      <4>5. Fold(V)[W] = Fold(W)[W]
        <5>1. V \in SUBSET Int /\ IsFiniteSet(V) BY <3>1, FS_Subset
        <5> HIDE DEF W
        <5> QED BY <3>2, <4>1, <4>2, <5>1, FoldsAgree
      <4> QED BY <4>3, <4>4, <4>5 DEF V
    <3> QED BY <3>3, <3>4
  <2>2. h = [U \in SUBSET T |->
               IF U = {} THEN base ELSE o[<<h[Rest(U)], s[Max(U)]>>]]
    <3> DEFINE Old(U) == IF U = {} THEN base ELSE o[<<At(U), s[Max(U)]>>]
               New(U) == IF U = {} THEN base ELSE o[<<h[Rest(U)], s[Max(U)]>>]
    <3>1. \A U \in SUBSET T : Old(U) = New(U)
      <4> HIDE DEF h, At, Rest
      <4> QED BY <2>1, Zenon
    <3>2. h = [U \in SUBSET T |-> Old(U)] OBVIOUS
    <3> HIDE DEF h, Old, New
    <3>3. h = [U \in SUBSET T |-> New(U)] BY <3>1, <3>2, Zenon
    <3> QED BY <3>3 DEF New
  <2> HIDE DEF h
  <2>3. FoldTable(h, o, base, s, T) BY <2>2 DEF FoldTable
  <2> QED BY <2>3
<1>2. D \in G
  <2>1. \A T \in SUBSET D : (\A U \in SUBSET T : U # T => U \in G) => T \in G
    BY <1>1
  <2> HIDE DEF G
  <2> QED BY <2>1, SubsetInduction
<1> QED BY <1>2

\* A table of which the steps are those of o where they start in A.
FoldWithin(g, o, base, s, D, A) ==
  /\ g[{}] = base
  /\ \A T \in SUBSET D : T # {} /\ g[T \ {Max(T)}] \in A =>
       g[T] = o[<<g[T \ {Max(T)}], s[Max(T)]>>]

Folded(g, D, A) == \A T \in SUBSET D : g[T] \in A

\* Every entry of such a table is in A, if the fold starts there and each step
\* stays there, so that it is a table of o.
LEMMA FoldTyped ==
  ASSUME NEW A, NEW B, NEW o \in [A \X B -> A], NEW base \in A,
         NEW D \in SUBSET Int, IsFiniteSet(D), NEW s \in [D -> B],
         NEW g, FoldWithin(g, o, base, s, D, A)
  PROVE  Folded(g, D, A) /\ FoldValues(g, o, base, s, D)
<1> USE DEF FoldWithin, Folded
<1> DEFINE G == {T \in SUBSET D : g[T] \in A}
<1>1. ASSUME NEW T \in SUBSET D, \A U \in SUBSET T : U # T => U \in G
      PROVE  g[T] \in A
  <2>1. CASE T = {} BY <2>1
  <2>2. CASE T # {}
    <3> DEFINE m == Max(T)
               U == T \ {m}
    <3>1. m \in D /\ U \in SUBSET T /\ U # T BY <2>2, GreatestRest
    <3>2. g[U] \in A BY <1>1, <3>1
    <3>3. g[T] = o[<<g[U], s[m]>>] BY <2>2, <3>2
    <3> HIDE DEF m, U
    <3>4. <<g[U], s[m]>> \in A \X B BY <3>1, <3>2
    <3> QED BY <3>3, <3>4
  <2> QED BY <2>1, <2>2
<1>2. \A T \in SUBSET D : g[T] \in A
  <2> SUFFICES ASSUME NEW R \in SUBSET D PROVE g[R] \in A OBVIOUS
  <2> DEFINE H == {T \in SUBSET R : g[T] \in A}
  <2>1. IsFiniteSet(R) BY FS_Subset
  <2>2. ASSUME NEW T \in SUBSET R, \A U \in SUBSET T : U # T => U \in H
        PROVE  T \in H
    <3>1. T \in SUBSET D /\ \A U \in SUBSET T : U # T => U \in G BY <2>2
    <3> QED BY <1>1, <3>1
  <2>3. R \in H
    <3> HIDE DEF H
    <3> QED BY <2>1, <2>2, SubsetInduction
  <2> QED BY <2>3
<1>3. ASSUME NEW T \in SUBSET D, T # {}
      PROVE  g[T] = o[<<g[T \ {Max(T)}], s[Max(T)]>>]
  <2>1. T \ {Max(T)} \in SUBSET D OBVIOUS
  <2> QED BY <1>2, <1>3, <2>1
<1> QED BY <1>2, <1>3 DEF FoldValues

\* What a fold has made of the first of n elements, of the first two, and so on:
\* a step each.
FoldRun(r, o, base, s, n, A) ==
  /\ r \in [0..n -> A] /\ r[0] = base
  /\ \A i \in 1..n : r[i] = o[<<r[i - 1], s[i]>>]

\* A table holds such a run.
LEMMA FoldRuns ==
  ASSUME NEW A, NEW o, NEW base, NEW s, NEW n \in Nat, NEW g,
         FoldValues(g, o, base, s, 1..n), Folded(g, 1..n, A)
  PROVE  \E r : FoldRun(r, o, base, s, n, A) /\ r[n] = g[1..n]
<1> DEFINE r == [i \in 0..n |-> g[1..i]]
<1>1. \A i \in 0..n : 1..i \in SUBSET (1..n) OBVIOUS
<1>2. r \in [0..n -> A] BY <1>1 DEF Folded
<1>3. r[0] = base
  <2>1. 1..0 = {} /\ r[0] = g[1..0] OBVIOUS
  <2> QED BY <2>1 DEF FoldValues
<1>4. r[n] = g[1..n] OBVIOUS
<1>5. ASSUME NEW i \in 1..n PROVE r[i] = o[<<r[i - 1], s[i]>>]
  <2> DEFINE T == 1..i
  <2>1. T \in SUBSET (1..n) /\ T \in SUBSET Int /\ i \in T BY <1>1
  <2>2. IsFiniteSet(T) BY FS_Interval
  <2>3. Max(T) = i
    <3>1. Max(T) \in T /\ \A y \in T : Max(T) >= y BY <2>1, <2>2, GreatestIsThere
    <3> HIDE DEF T
    <3>2. Max(T) >= i BY <2>1, <3>1
    <3>3. Max(T) \in 1..i BY <3>1 DEF T
    <3> QED BY <3>2, <3>3
  <2>4. T \ {i} = 1..(i - 1) OBVIOUS
  <2>5. g[T] = o[<<g[T \ {Max(T)}], s[Max(T)]>>] BY <2>1 DEF FoldValues
  <2>6. r[i] = g[T] /\ r[i - 1] = g[1..(i - 1)] OBVIOUS
  <2> HIDE DEF T, r
  <2> QED BY <2>3, <2>4, <2>5, <2>6
<1> HIDE DEF r
<1> QED BY <1>2, <1>3, <1>4, <1>5 DEF FoldRun

\* Induction up to a number, stated of the set of those that have been reached.
LEMMA UpTo ==
  ASSUME NEW n \in Nat, NEW G, 0 \in G, \A i \in 1..n : i - 1 \in G => i \in G
  PROVE  \A i \in 0..n : i \in G
<1> DEFINE Reached(T) == \A i \in 0..n : (1..i) \subseteq T /\ T \subseteq 1..i => i \in G
           H == {T \in SUBSET (1..n) : Reached(T)}
<1>1. ASSUME NEW T \in SUBSET (1..n), \A U \in SUBSET T : U # T => U \in H,
             NEW i \in 0..n, T = 1..i
      PROVE  i \in G
  <2>1. CASE i = 0 BY <2>1
  <2>2. CASE i # 0
    <3> DEFINE U == 1..(i - 1)
    <3>1. U \in SUBSET T /\ i \in T /\ i \notin U /\ i - 1 \in 0..n BY <1>1, <2>2
    <3>2. U \in H BY <1>1, <3>1
    <3>3. i - 1 \in G BY <3>1, <3>2
    <3> QED BY <2>2, <3>3
  <2> QED BY <2>1, <2>2
<1>2. ASSUME NEW T \in SUBSET (1..n), \A U \in SUBSET T : U # T => U \in H
      PROVE  T \in H
  <2>1. \A i \in 0..n : T = 1..i => i \in G BY <1>1, <1>2
  <2> QED BY <2>1
<1> SUFFICES ASSUME NEW j \in 0..n PROVE j \in G OBVIOUS
<1>3. 1..j \in H
  <2> DEFINE S == 1..j
  <2>1. S \in SUBSET (1..n) /\ IsFiniteSet(S) BY FS_Interval
  <2>2. \A T \in SUBSET S : (\A U \in SUBSET T : U # T => U \in H) => T \in H
    BY <1>2, <2>1
  <2> HIDE DEF S, H
  <2>3. S \in H BY <2>1, <2>2, SubsetInduction
  <2> QED BY <2>3 DEF S
<1> QED BY <1>3
=============================================================================
