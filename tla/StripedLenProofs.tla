-------------------------- MODULE StripedLenProofs --------------------------
(***************************************************************************)
(* Proofs about StripedLen: the stripes always add up to what is counted,  *)
(* and what len() returns, for any number of threads and stripes and any   *)
(* width of a stripe.                                                      *)
(***************************************************************************)
EXTENDS StripedLen, OrderLemmas, FiniteSetTheorems

-----------------------------------------------------------------------------
(* Sums over finite sets *)

\* g adds up f over every subset of S, an element at a time.
Adds(g, f, S) ==
  g = [s \in SUBSET S |->
         IF s = {} THEN 0
         ELSE LET x == CHOOSE x \in s : TRUE IN f[x] + g[s \ {x}]]

\* The sum is what such a function returns.
LEMMA SumIsChosen ==
  ASSUME NEW f, NEW S
  PROVE  SumFunctionOnSet(f, S) = (CHOOSE g : Adds(g, f, S))[S]
BY Zenon DEF SumFunctionOnSet, FoldFunctionOnSet, MapThenFoldSet, Adds

\* A set of subsets of a finite set has a smallest one: what induction over a
\* finite set rests on.
LEMMA SmallestSubset ==
  ASSUME NEW S, IsFiniteSet(S), NEW Bad \in SUBSET (SUBSET S), Bad # {}
  PROVE  \E s \in Bad : \A x \in s : s \ {x} \notin Bad
<1> DEFINE Sizes == {n \in Nat : \E s \in Bad : Cardinality(s) = n}
<1>1. \A s \in Bad : s \in SUBSET S
  OBVIOUS
<1>2. \A s \in SUBSET S : IsFiniteSet(s) /\ Cardinality(s) \in Nat
  BY FS_Subset, FS_CardinalityType, Zenon
<1>3. Sizes # {} /\ Sizes \in SUBSET Nat
  BY <1>1, <1>2
<1> HIDE DEF Sizes
<1>4. PICK m \in Sizes : \A k \in Sizes : m <= k
  BY <1>3, LeastNatural
<1>5. PICK s \in Bad : Cardinality(s) = m
  BY <1>4 DEF Sizes
<1>6. ASSUME NEW x \in s, s \ {x} \in Bad PROVE FALSE
  <2>1. IsFiniteSet(s) /\ Cardinality(s) \in Nat
    BY <1>1, <1>2
  <2>2. Cardinality(s \ {x}) = Cardinality(s) - 1
    BY <2>1, FS_RemoveElement
  <2>3. Cardinality(s \ {x}) \in Nat
    BY <1>1, <1>2, <1>6
  <2>4. Cardinality(s \ {x}) \in Sizes
    BY <1>6, <2>3 DEF Sizes
  <2>5. QED
    BY <1>4, <1>5, <2>1, <2>2, <2>4
<1>7. QED
  BY <1>6

\* What Adds says of one subset.
LEMMA AddsAt ==
  ASSUME NEW f, NEW S, NEW g, Adds(g, f, S), NEW s \in SUBSET S
  PROVE  /\ s = {} => g[s] = 0
         /\ s # {} => \E x \in s : /\ x = (CHOOSE y \in s : TRUE)
                                   /\ s \ {x} \in SUBSET S
                                   /\ g[s] = f[x] + g[s \ {x}]
<1>1. g[s] = IF s = {} THEN 0 ELSE LET x == CHOOSE x \in s : TRUE IN f[x] + g[s \ {x}]
  BY DEF Adds
<1>2. ASSUME s # {} PROVE (CHOOSE y \in s : TRUE) \in s
  BY <1>2
<1>3. QED
  BY <1>1, <1>2

\* Functions that add up f agree wherever both do.
LEMMA AddsAgree ==
  ASSUME NEW f, NEW S, IsFiniteSet(S), NEW T \in SUBSET S, NEW g, NEW h,
         Adds(g, f, S), Adds(h, f, T)
  PROVE  \A s \in SUBSET T : g[s] = h[s]
<1> DEFINE Bad == {s \in SUBSET T : g[s] # h[s]}
<1>1. SUFFICES ASSUME Bad # {} PROVE FALSE
  OBVIOUS
<1>2. IsFiniteSet(T) /\ Bad \in SUBSET (SUBSET T)
  BY FS_Subset
<1>3. PICK s \in Bad : \A x \in s : s \ {x} \notin Bad
  <2> HIDE DEF Bad
  <2>1. QED
    BY <1>1, <1>2, SmallestSubset
<1>4. s \in SUBSET T /\ s \in SUBSET S /\ g[s] # h[s]
  OBVIOUS
<1>5. s # {}
  BY <1>4, AddsAt
<1>6. PICK x \in s : /\ x = (CHOOSE y \in s : TRUE)
                     /\ g[s] = f[x] + g[s \ {x}]
  BY <1>4, <1>5, AddsAt
<1>7. h[s] = f[x] + h[s \ {x}]
  <2>1. PICK z \in s : /\ z = (CHOOSE y \in s : TRUE)
                       /\ h[s] = f[z] + h[s \ {z}]
    BY <1>4, <1>5, AddsAt
  <2>2. z = x
    BY <1>6, <2>1
  <2>3. QED
    BY <2>1, <2>2
<1>8. g[s \ {x}] = h[s \ {x}]
  BY <1>3, <1>4
<1>9. QED
  BY <1>4, <1>6, <1>7, <1>8

\* The subsets of at most n elements, and a function that adds up f on these.
UpTo(S, n) == {s \in SUBSET S : Cardinality(s) <= n}
AddsUpTo(g, f, S, n) ==
  g = [s \in UpTo(S, n) |->
         IF s = {} THEN 0
         ELSE LET x == CHOOSE x \in s : TRUE IN f[x] + g[s \ {x}]]

\* From one size to the next.
LEMMA AddsUpToNext ==
  ASSUME NEW f, NEW S, IsFiniteSet(S), NEW n \in Nat, NEW g, AddsUpTo(g, f, S, n)
  PROVE  \E h : AddsUpTo(h, f, S, n + 1)
<1> DEFINE Val(k, s) == IF s = {} THEN 0
                        ELSE LET x == CHOOSE x \in s : TRUE IN f[x] + k[s \ {x}]
           h == [s \in UpTo(S, n + 1) |-> Val(g, s)]
<1>1. ASSUME NEW s \in UpTo(S, n + 1) PROVE Val(g, s) = Val(h, s)
  <2>1. CASE s = {}
    BY <2>1
  <2>2. CASE s # {}
    <3> DEFINE x == CHOOSE x \in s : TRUE
    <3>1. x \in s
      BY <2>2
    <3>2. s \in SUBSET S /\ IsFiniteSet(s) /\ Cardinality(s) \in Nat /\ Cardinality(s) <= n + 1
      BY <1>1, FS_Subset, FS_CardinalityType DEF UpTo
    <3>3. Cardinality(s \ {x}) = Cardinality(s) - 1
      <4> HIDE DEF x
      <4>1. QED
        BY <3>1, <3>2, FS_RemoveElement
    <3>4. s \ {x} \in UpTo(S, n)
      <4> HIDE DEF x
      <4>1. QED
        BY <3>2, <3>3 DEF UpTo
    <3>5. s \ {x} \in UpTo(S, n + 1)
      <4> HIDE DEF x
      <4>1. QED
        BY <3>2, <3>3 DEF UpTo
    <3>6. g[s \ {x}] = Val(g, s \ {x})
      <4> HIDE DEF x
      <4>1. QED
        BY <3>4 DEF AddsUpTo
    <3>7. h[s \ {x}] = Val(g, s \ {x})
      <4> HIDE DEF x, Val
      <4>1. QED
        BY <3>5
    <3>8. g[s \ {x}] = h[s \ {x}]
      <4> HIDE DEF x, Val, h
      <4>1. QED
        BY <3>6, <3>7
    <3>9. Val(g, s) = f[x] + g[s \ {x}] /\ Val(h, s) = f[x] + h[s \ {x}]
      <4> HIDE DEF h
      <4>1. QED
        BY <2>2, Zenon
    <3>10. QED
      <4> HIDE DEF x, Val, h
      <4>1. QED
        BY <3>8, <3>9
  <2>3. QED
    BY <2>1, <2>2
<1>2. h = [s \in UpTo(S, n + 1) |-> Val(h, s)]
  <2> HIDE DEF Val
  <2>1. QED
    BY <1>1
<1>3. QED
  BY <1>2, Zenon DEF AddsUpTo

\* Every finite set can be added up.
LEMMA AddsExists ==
  ASSUME NEW f, NEW S, IsFiniteSet(S)
  PROVE  \E g : Adds(g, f, S)
<1> DEFINE Bad == {n \in Nat : ~ \E g : AddsUpTo(g, f, S, n)}
<1>1. \E g : AddsUpTo(g, f, S, 0)
  <2> DEFINE g == [s \in UpTo(S, 0) |-> 0]
  <2>1. ASSUME NEW s \in UpTo(S, 0) PROVE s = {}
    <3>1. IsFiniteSet(s) /\ Cardinality(s) \in Nat /\ Cardinality(s) <= 0
      BY FS_Subset, FS_CardinalityType DEF UpTo
    <3>2. QED
      BY <3>1, FS_EmptySet
  <2>2. g = [s \in UpTo(S, 0) |->
               IF s = {} THEN 0
               ELSE LET x == CHOOSE x \in s : TRUE IN f[x] + g[s \ {x}]]
    BY <2>1
  <2>3. QED
    BY <2>2, Zenon DEF AddsUpTo
<1>2. Bad = {}
  <2>1. SUFFICES ASSUME Bad # {} PROVE FALSE
    OBVIOUS
  <2>2. PICK m \in Bad : \A k \in Bad : m <= k
    <3>1. Bad \in SUBSET Nat
      OBVIOUS
    <3> HIDE DEF Bad
    <3>2. QED
      BY <2>1, <3>1, LeastNatural
  <2>3. m # 0
    BY <1>1
  <2>4. m - 1 \in Nat /\ m - 1 \notin Bad
    BY <2>2, <2>3
  <2>5. \E g : AddsUpTo(g, f, S, m - 1)
    BY <2>4
  <2>6. \E g : AddsUpTo(g, f, S, (m - 1) + 1)
    BY <2>4, <2>5, AddsUpToNext
  <2>7. (m - 1) + 1 = m
    OBVIOUS
  <2>8. \E g : AddsUpTo(g, f, S, m)
    BY <2>6, <2>7
  <2>9. QED
    BY <2>8
<1>3. Cardinality(S) \in Nat
  BY FS_CardinalityType
<1>4. UpTo(S, Cardinality(S)) = SUBSET S
  BY FS_Subset DEF UpTo
<1>5. PICK g : AddsUpTo(g, f, S, Cardinality(S))
  BY <1>2, <1>3
<1>6. Adds(g, f, S)
  BY <1>4, <1>5 DEF Adds, AddsUpTo
<1>7. QED
  BY <1>6

\* One function returns the sums over all subsets of a finite set.
LEMMA SumAdds ==
  ASSUME NEW f, NEW S, IsFiniteSet(S)
  PROVE  \E g : Adds(g, f, S) /\ \A T \in SUBSET S : SumFunctionOnSet(f, T) = g[T]
<1>1. PICK g : Adds(g, f, S)
  BY AddsExists
<1>2. ASSUME NEW T \in SUBSET S PROVE SumFunctionOnSet(f, T) = g[T]
  <2> DEFINE h == CHOOSE h : Adds(h, f, T)
  <2>1. IsFiniteSet(T)
    BY FS_Subset
  <2>2. \E k : Adds(k, f, T)
    BY <2>1, AddsExists
  <2>3. Adds(h, f, T)
    BY <2>2, Zenon
  <2>4. SumFunctionOnSet(f, T) = h[T]
    BY SumIsChosen, Zenon
  <2> HIDE DEF h
  <2>5. g[T] = h[T]
    BY <1>1, <2>3, AddsAgree
  <2>6. QED
    BY <2>4, <2>5
<1>3. QED
  BY <1>1, <1>2

\* A sum starts at zero and takes one element after another.
LEMMA SumStep ==
  ASSUME NEW f, NEW S, IsFiniteSet(S)
  PROVE  /\ S = {} => SumFunctionOnSet(f, S) = 0
         /\ S # {} => \E x \in S : SumFunctionOnSet(f, S) = f[x] + SumFunctionOnSet(f, S \ {x})
<1>1. PICK g : Adds(g, f, S) /\ \A T \in SUBSET S : SumFunctionOnSet(f, T) = g[T]
  BY SumAdds
<1>2. S \in SUBSET S
  OBVIOUS
<1>3. CASE S = {}
  BY <1>1, <1>2, <1>3, AddsAt
<1>4. CASE S # {}
  <2>1. PICK x \in S : S \ {x} \in SUBSET S /\ g[S] = f[x] + g[S \ {x}]
    BY <1>1, <1>2, <1>4, AddsAt
  <2>2. QED
    BY <1>1, <1>2, <1>4, <2>1
<1>5. QED
  BY <1>3, <1>4

\* The sum of integers is an integer.
LEMMA SumInt ==
  ASSUME NEW S, IsFiniteSet(S), NEW f, \A x \in S : f[x] \in Int
  PROVE  SumFunctionOnSet(f, S) \in Int
<1> DEFINE Bad == {s \in SUBSET S : SumFunctionOnSet(f, s) \notin Int}
<1>1. SUFFICES ASSUME Bad # {} PROVE FALSE
  OBVIOUS
<1>2. Bad \in SUBSET (SUBSET S)
  OBVIOUS
<1>3. PICK s \in Bad : \A x \in s : s \ {x} \notin Bad
  <2> HIDE DEF Bad
  <2>1. QED
    BY <1>1, <1>2, SmallestSubset
<1>4. s \in SUBSET S /\ SumFunctionOnSet(f, s) \notin Int
  OBVIOUS
<1>5. IsFiniteSet(s)
  BY <1>4, FS_Subset
<1>6. s # {}
  BY <1>4, <1>5, SumStep
<1>7. PICK x \in s : SumFunctionOnSet(f, s) = f[x] + SumFunctionOnSet(f, s \ {x})
  BY <1>5, <1>6, SumStep
<1>8. SumFunctionOnSet(f, s \ {x}) \in Int
  BY <1>3, <1>4
<1>9. QED
  BY <1>4, <1>7, <1>8

\* The order does not matter: any element may be taken first.
LEMMA SumTakeOut ==
  ASSUME NEW S, IsFiniteSet(S), NEW f, \A x \in S : f[x] \in Int, NEW x \in S
  PROVE  SumFunctionOnSet(f, S) = f[x] + SumFunctionOnSet(f, S \ {x})
<1> DEFINE Holds(s, y) == SumFunctionOnSet(f, s) = f[y] + SumFunctionOnSet(f, s \ {y})
           Bad == {s \in SUBSET S : \E y \in s : ~ Holds(s, y)}
<1>1. SUFFICES ASSUME Bad # {} PROVE FALSE
  OBVIOUS
<1>2. Bad \in SUBSET (SUBSET S)
  OBVIOUS
<1>3. PICK s \in Bad : \A y \in s : s \ {y} \notin Bad
  <2> HIDE DEF Bad
  <2>1. QED
    BY <1>1, <1>2, SmallestSubset
<1> HIDE DEF Holds
<1>4. s \in SUBSET S
  OBVIOUS
<1>5. PICK y \in s : ~ Holds(s, y)
  BY <1>3
<1>6. IsFiniteSet(s)
  BY <1>4, FS_Subset
<1>7. PICK z \in s : SumFunctionOnSet(f, s) = f[z] + SumFunctionOnSet(f, s \ {z})
  BY <1>5, <1>6, SumStep
<1>8. y # z
  BY <1>5, <1>7 DEF Holds
<1>9. Holds(s \ {z}, y) /\ Holds(s \ {y}, z)
  BY <1>3, <1>4, <1>8
<1>10. (s \ {z}) \ {y} = (s \ {y}) \ {z}
  OBVIOUS
<1>11. SumFunctionOnSet(f, (s \ {y}) \ {z}) \in Int
  <2>1. IsFiniteSet((s \ {y}) \ {z})
    BY <1>6, FS_RemoveElement
  <2>2. \A u \in (s \ {y}) \ {z} : f[u] \in Int
    BY <1>4
  <2>3. QED
    BY <2>1, <2>2, SumInt
<1>12. f[y] \in Int /\ f[z] \in Int
  BY <1>4
<1>13. SumFunctionOnSet(f, s \ {z}) = f[y] + SumFunctionOnSet(f, (s \ {y}) \ {z})
  BY <1>9, <1>10 DEF Holds
<1>14. SumFunctionOnSet(f, s \ {y}) = f[z] + SumFunctionOnSet(f, (s \ {y}) \ {z})
  BY <1>9 DEF Holds
<1>15. Holds(s, y)
  BY <1>7, <1>11, <1>12, <1>13, <1>14 DEF Holds
<1>16. QED
  BY <1>5, <1>15

\* A sum depends on the elements only.
LEMMA SumSame ==
  ASSUME NEW S, IsFiniteSet(S), NEW f, NEW g, \A x \in S : f[x] \in Int /\ f[x] = g[x]
  PROVE  SumFunctionOnSet(f, S) = SumFunctionOnSet(g, S)
<1> DEFINE Bad == {s \in SUBSET S : SumFunctionOnSet(f, s) # SumFunctionOnSet(g, s)}
<1>1. SUFFICES ASSUME Bad # {} PROVE FALSE
  OBVIOUS
<1>2. Bad \in SUBSET (SUBSET S)
  OBVIOUS
<1>3. PICK s \in Bad : \A x \in s : s \ {x} \notin Bad
  <2> HIDE DEF Bad
  <2>1. QED
    BY <1>1, <1>2, SmallestSubset
<1>4. s \in SUBSET S /\ SumFunctionOnSet(f, s) # SumFunctionOnSet(g, s)
  OBVIOUS
<1>5. IsFiniteSet(s) /\ (\A x \in s : f[x] \in Int /\ g[x] \in Int /\ f[x] = g[x])
  BY <1>4, FS_Subset
<1>6. s # {}
  BY <1>4, <1>5, SumStep
<1>7. PICK x \in s : TRUE
  BY <1>6
<1>8. SumFunctionOnSet(f, s) = f[x] + SumFunctionOnSet(f, s \ {x})
  BY <1>5, SumTakeOut
<1>9. SumFunctionOnSet(g, s) = g[x] + SumFunctionOnSet(g, s \ {x})
  BY <1>5, SumTakeOut
<1>10. SumFunctionOnSet(f, s \ {x}) = SumFunctionOnSet(g, s \ {x})
  BY <1>3, <1>4
<1>11. QED
  BY <1>4, <1>5, <1>8, <1>9, <1>10

\* f and g are integers and differ only at x.
OnlyAt(x, f, g, S) ==
  /\ \A y \in S : f[y] \in Int /\ g[y] \in Int
  /\ \A y \in S : y # x => f[y] = g[y]

\* The sum changes by as much.
ChangesBy(x, f, g, S) ==
  SumFunctionOnSet(g, S) = SumFunctionOnSet(f, S) + (g[x] - f[x])

LEMMA SumChange ==
  ASSUME NEW S, IsFiniteSet(S), NEW x \in S, NEW f, NEW g, OnlyAt(x, f, g, S)
  PROVE  ChangesBy(x, f, g, S)
<1> USE DEF OnlyAt
<1>1. IsFiniteSet(S \ {x})
  BY FS_RemoveElement
<1>2. SumFunctionOnSet(f, S \ {x}) = SumFunctionOnSet(g, S \ {x})
  BY <1>1, SumSame
<1>3. SumFunctionOnSet(f, S \ {x}) \in Int
  BY <1>1, SumInt
<1>4. SumFunctionOnSet(f, S) = f[x] + SumFunctionOnSet(f, S \ {x})
  BY SumTakeOut
<1>5. SumFunctionOnSet(g, S) = g[x] + SumFunctionOnSet(g, S \ {x})
  BY SumTakeOut
<1>6. f[x] \in Int /\ g[x] \in Int
  OBVIOUS
<1>7. QED
  BY <1>2, <1>3, <1>4, <1>5, <1>6 DEF ChangesBy

\* The sum of naturals is a natural number.
LEMMA SumNat ==
  ASSUME NEW S, IsFiniteSet(S), NEW f, \A x \in S : f[x] \in Nat
  PROVE  SumFunctionOnSet(f, S) \in Nat
<1> DEFINE Bad == {s \in SUBSET S : SumFunctionOnSet(f, s) \notin Nat}
<1>1. SUFFICES ASSUME Bad # {} PROVE FALSE
  OBVIOUS
<1>2. Bad \in SUBSET (SUBSET S)
  OBVIOUS
<1>3. PICK s \in Bad : \A x \in s : s \ {x} \notin Bad
  <2> HIDE DEF Bad
  <2>1. QED
    BY <1>1, <1>2, SmallestSubset
<1>4. s \in SUBSET S /\ SumFunctionOnSet(f, s) \notin Nat
  OBVIOUS
<1>5. IsFiniteSet(s)
  BY <1>4, FS_Subset
<1>6. s # {}
  BY <1>4, <1>5, SumStep
<1>7. PICK x \in s : SumFunctionOnSet(f, s) = f[x] + SumFunctionOnSet(f, s \ {x})
  BY <1>5, <1>6, SumStep
<1>8. SumFunctionOnSet(f, s \ {x}) \in Nat
  BY <1>3, <1>4
<1>9. QED
  BY <1>4, <1>7, <1>8

\* The sum of zeros is zero.
LEMMA SumZero ==
  ASSUME NEW S, IsFiniteSet(S), NEW f, \A x \in S : f[x] = 0
  PROVE  SumFunctionOnSet(f, S) = 0
<1> DEFINE Bad == {s \in SUBSET S : SumFunctionOnSet(f, s) # 0}
<1>1. SUFFICES ASSUME Bad # {} PROVE FALSE
  OBVIOUS
<1>2. Bad \in SUBSET (SUBSET S)
  OBVIOUS
<1>3. PICK s \in Bad : \A x \in s : s \ {x} \notin Bad
  <2> HIDE DEF Bad
  <2>1. QED
    BY <1>1, <1>2, SmallestSubset
<1>4. s \in SUBSET S /\ SumFunctionOnSet(f, s) # 0
  OBVIOUS
<1>5. IsFiniteSet(s)
  BY <1>4, FS_Subset
<1>6. s # {}
  BY <1>4, <1>5, SumStep
<1>7. PICK x \in s : SumFunctionOnSet(f, s) = f[x] + SumFunctionOnSet(f, s \ {x})
  BY <1>5, <1>6, SumStep
<1>8. SumFunctionOnSet(f, s \ {x}) = 0
  BY <1>3, <1>4
<1>9. QED
  BY <1>4, <1>7, <1>8

-----------------------------------------------------------------------------
(* Words that wrap around *)

Turn == 2 * Half
Word == -Half .. Half - 1

\* Numbers that a word cannot tell apart.
Same(x, y) == Wrap(x) = Wrap(y)

LEMMA HalfFacts == Half \in Nat \ {0} /\ Turn \in Nat \ {0} /\ Turn = 2 * Half
BY StripeAssumption DEF Turn

LEMMA ModIsRest ==
  ASSUME NEW n \in Int, NEW d \in Nat, d > 0
  PROVE  n \div d \in Int /\ n % d \in 0 .. d - 1 /\ n % d = n - d * (n \div d)
BY SMT

\* Wrapping moves a number by whole turns, into the range of a word.
LEMMA WrapMoves ==
  ASSUME NEW x \in Int
  PROVE  Wrap(x) \in Word /\ \E k \in Int : Wrap(x) = x + k * Turn
<1>1. Wrap(x) = ((x + Half) % Turn) - Half
  BY DEF Wrap, Turn
<1> DEFINE h == Half
           m == Turn
           q == (x + h) \div m
           r == (x + h) % m
<1>2. h \in Nat \ {0} /\ m \in Nat \ {0} /\ m = 2 * h
  BY HalfFacts
<1>3. q \in Int /\ r \in 0 .. m - 1 /\ x + h = m * q + r
  <2> HIDE DEF h, m
  <2>1. x + h \in Int /\ m \in Nat /\ m > 0
    BY <1>2
  <2>2. q \in Int /\ r \in 0 .. m - 1 /\ r = (x + h) - m * q
    BY <2>1, ModIsRest
  <2> HIDE DEF q, r
  <2>3. m * q \in Int
    BY <2>1, <2>2
  <2>4. QED
    BY <2>1, <2>2, <2>3
<1> HIDE DEF h, m, q, r
<1>4. Wrap(x) = r - h
  BY <1>1 DEF r, h, m
<1>5. Wrap(x) = x + (-q) * m
  <2>1. (-q) * m = -(m * q)
    BY <1>2, <1>3
  <2>2. m * q \in Int
    BY <1>2, <1>3
  <2>3. QED
    BY <1>2, <1>3, <1>4, <2>1, <2>2
<1>6. Wrap(x) \in -h .. h - 1
  BY <1>2, <1>3, <1>4
<1>7. QED
  BY <1>3, <1>5, <1>6 DEF Word, h, m

\* Two words a number of turns apart are one.
LEMMA WordsApart ==
  ASSUME NEW x \in Word, NEW y \in Word, NEW k \in Int, x = y + k * Turn
  PROVE  x = y
<1> DEFINE m == Turn
           p == k * m
<1>1. m \in Nat \ {0} /\ x - y < m /\ y - x < m /\ x \in Int /\ y \in Int
  BY HalfFacts DEF Word
<1> HIDE DEF m
<1>2. p \in Int /\ p = x - y
  BY <1>1 DEF m
<1>3. k >= 1 => p >= m
  BY <1>1
<1>4. k <= -1 => p <= -m
  BY <1>1
<1>5. k = 0 => p = 0
  BY <1>1
<1> HIDE DEF p
<1>6. QED
  BY <1>1, <1>2, <1>3, <1>4, <1>5

LEMMA SameIff ==
  ASSUME NEW x \in Int, NEW y \in Int
  PROVE  Same(x, y) <=> \E k \in Int : x = y + k * Turn
<1>1. PICK i \in Int : Wrap(x) = x + i * Turn
  BY WrapMoves
<1>2. PICK j \in Int : Wrap(y) = y + j * Turn
  BY WrapMoves
<1>3. Wrap(x) \in Word /\ Wrap(y) \in Word
  BY WrapMoves
<1>4. Turn \in Int /\ Wrap(x) \in Int /\ Wrap(y) \in Int
  BY <1>3, HalfFacts DEF Word
<1> DEFINE m == Turn
<1> HIDE DEF m
<1>5. ASSUME Wrap(x) = Wrap(y) PROVE x = y + (j - i) * Turn
  <2>1. (j - i) * m = j * m - i * m /\ j * m \in Int /\ i * m \in Int
    BY <1>4 DEF m
  <2>2. QED
    BY <1>1, <1>2, <1>5, <2>1 DEF m
<1>6. ASSUME NEW k \in Int, x = y + k * Turn PROVE Wrap(x) = Wrap(y)
  <2>1. (k + i - j) * m = k * m + i * m - j * m /\ j * m \in Int /\ i * m \in Int /\ k * m \in Int
    BY <1>4 DEF m
  <2>2. Wrap(x) = Wrap(y) + (k + i - j) * Turn
    BY <1>1, <1>2, <1>6, <2>1 DEF m
  <2>3. QED
    BY <1>3, <2>2, WordsApart
<1>7. QED
  BY <1>5, <1>6 DEF Same

LEMMA SameTrans ==
  ASSUME NEW x, NEW y, NEW z, Same(x, y), Same(y, z)
  PROVE  Same(x, z)
BY DEF Same

\* Adding keeps numbers the same to a word.
LEMMA SameAdd ==
  ASSUME NEW x \in Int, NEW y \in Int, NEW d \in Int, Same(x, y)
  PROVE  Same(x + d, y + d)
<1>1. PICK k \in Int : x = y + k * Turn
  BY SameIff
<1> DEFINE p == k * Turn
<1>2. p \in Int
  BY HalfFacts
<1>3. x + d = (y + d) + p
  <2> HIDE DEF p
  <2>1. x = y + p
    BY <1>1 DEF p
  <2>2. QED
    BY <1>2, <2>1
<1>4. QED
  BY <1>3, SameIff

LEMMA WrapSame ==
  ASSUME NEW x \in Int
  PROVE  Wrap(x) \in Int /\ Wrap(x) \in Word /\ Same(Wrap(x), x)
<1>1. Wrap(x) \in Word
  BY WrapMoves
<1>2. Wrap(x) \in Int
  BY <1>1, HalfFacts DEF Word
<1>3. QED
  BY <1>1, <1>2, WrapMoves, SameIff

LEMMA SameWords ==
  ASSUME NEW x \in Word, NEW y \in Word, Same(x, y)
  PROVE  x = y
<1>1. x \in Int /\ y \in Int
  BY HalfFacts DEF Word
<1>2. QED
  BY <1>1, SameIff, WordsApart

-----------------------------------------------------------------------------
(* The invariant *)

CallOK(c) ==
  /\ c = [do |-> c.do, by |-> c.by]
  /\ c.do \in {"none", "added", "taken"} /\ c.by \in Nat
  /\ c.do = "none" => c.by = 0
  /\ c.do = "added" => c.by = 1

TypeOK ==
  /\ stripes \in [Stripes -> Word]
  /\ next \in Stripes
  /\ own \in [Threads -> Stripes \cup {-1, -2}]
  /\ DOMAIN call = Threads /\ call = [t \in Threads |-> call[t]]
  /\ \A t \in Threads : CallOK(call[t])
  /\ live \in Nat
  /\ sum \in [pc : {"off", "sum", "done"}, at : 0 .. STRIPES, acc : Word, alone : BOOLEAN]
  /\ during \in [up : Nat, down : Nat, by : SUBSET Threads,
                 totals : SUBSET (0 .. MaxLive), first : 0 .. MaxLive]

Unread == sum.at .. STRIPES - 1

\* What len() comes to if nothing changes the stripes it has still to load.
Coming == sum.acc + SumFunctionOnSet(stripes, Unread)

\* The words add up to what has been counted, which never passes the bound.
CountOK ==
  /\ Same(SumFunctionOnSet(stripes, Stripes), Total)
  /\ Total \in 0 .. MaxLive

\* len() is on its way to the total it started from, give or take the updates
\* since,
WithinOK ==
  /\ during.up <= MaxDuring /\ during.down <= MaxDuring + MaxLive
  /\ \E T \in during.first - during.down .. during.first + during.up : Same(Coming, T)

\* to the current total if there were none,
ExactOK == during.by = {} => Same(Coming, Total)

\* and, with one thread that updates the map, to a total of the past once len()
\* has gone by that thread's stripe, which is where it misses its updates.
OneWriterOK ==
  \A t \in Threads : during.by = {t} =>
    /\ own[t] # -1
    /\ \/ Same(Coming, Total)
       \/ MyStripe(t) < sum.at /\ \E T \in during.totals : Same(Coming, T)

LenOK ==
  sum.pc # "off" =>
    /\ sum.pc = "done" <=> sum.at = STRIPES
    /\ Total \in during.totals
    /\ WithinOK /\ ExactOK /\ OneWriterOK

IInv == TypeOK /\ CountOK /\ LenOK

-----------------------------------------------------------------------------
(* What a step does to the sums *)

LEMMA FiniteHere ==
  /\ IsFiniteSet(Threads) /\ IsFiniteSet(Stripes)
  /\ \A a \in Nat : IsFiniteSet(a .. STRIPES - 1)
<1>1. 0 \in Int /\ STRIPES - 1 \in Int
  BY StripeAssumption
<1>2. \A a \in Int : IsFiniteSet(a .. STRIPES - 1)
  BY <1>1, FS_Interval
<1>3. QED
  BY <1>2, StripeAssumption DEF Stripes

\* What the calls in flight have counted early or will count late.
InFlight(c) == SumFunctionOnSet([t \in Threads |-> c[t].by], Threads)

LEMMA TotalIs == Total = live + InFlight(call) /\ Total' = live' + InFlight(call')
BY DEF Total, Pending, InFlight

LEMMA InFlightNat ==
  ASSUME NEW c, \A t \in Threads : CallOK(c[t])
  PROVE  InFlight(c) \in Nat
<1>1. \A t \in Threads : [u \in Threads |-> c[u].by][t] \in Nat
  BY DEF CallOK
<1>2. QED
  BY <1>1, FiniteHere, SumNat DEF InFlight

\* A thread goes from one call to another.
FlightMoved(c, d, t, x) ==
  /\ InFlight(d) = InFlight(c) + x.by - c[t].by
  /\ InFlight(c) \in Nat /\ InFlight(d) \in Nat

LEMMA CallChange ==
  ASSUME NEW c, DOMAIN c = Threads, \A t \in Threads : CallOK(c[t]), NEW t \in Threads,
         NEW x, CallOK(x), NEW d, d = [c EXCEPT ![t] = x]
  PROVE  /\ FlightMoved(c, d, t, x)
         /\ DOMAIN d = Threads /\ d = [u \in Threads |-> d[u]]
         /\ \A u \in Threads : CallOK(d[u])
<1> DEFINE f == [u \in Threads |-> c[u].by]
           g == [u \in Threads |-> d[u].by]
<1>1. d = [u \in Threads |-> IF u = t THEN x ELSE c[u]]
  OBVIOUS
<1>2. DOMAIN d = Threads /\ d = [u \in Threads |-> d[u]]
  BY <1>1
<1>3. d[t] = x /\ \A u \in Threads \ {t} : d[u] = c[u]
  BY <1>1
<1>4. \A u \in Threads : CallOK(d[u])
  BY <1>3
<1>5. (\A u \in Threads : f[u] \in Int) /\ (\A u \in Threads : g[u] \in Int)
  BY <1>4 DEF CallOK
<1>6. \A u \in Threads : u # t => f[u] = g[u]
  BY <1>3
<1>7. f[t] = c[t].by /\ g[t] = x.by
  BY <1>3
<1>8. InFlight(c) \in Nat /\ InFlight(d) \in Nat
  BY <1>4, InFlightNat
<1>9. InFlight(d) = InFlight(c) + (g[t] - f[t])
  <2> HIDE DEF f, g
  <2>1. SumFunctionOnSet(g, Threads) = SumFunctionOnSet(f, Threads) + (g[t] - f[t])
    <3>1. OnlyAt(t, f, g, Threads)
      BY <1>5, <1>6 DEF OnlyAt
    <3>2. ChangesBy(t, f, g, Threads)
      BY <3>1, FiniteHere, SumChange
    <3>3. QED
      BY <3>2 DEF ChangesBy
  <2>2. QED
    BY <2>1 DEF f, g, InFlight
<1>10. c[t].by \in Int /\ x.by \in Int
  BY <1>3, <1>4 DEF CallOK
<1> HIDE DEF f, g
<1>11. QED
  BY <1>2, <1>4, <1>7, <1>8, <1>9, <1>10 DEF FlightMoved

\* Stripe i changes by d, up to whole turns: what that does to the sum over A.
Moved(f, g, i, d, A) ==
  /\ g \in [Stripes -> Word]
  /\ SumFunctionOnSet(f, A) \in Int /\ SumFunctionOnSet(g, A) \in Int
  /\ i \in A => Same(SumFunctionOnSet(g, A), SumFunctionOnSet(f, A) + d)
  /\ i \notin A => SumFunctionOnSet(g, A) = SumFunctionOnSet(f, A)

LEMMA StripeChange ==
  ASSUME NEW f \in [Stripes -> Word], NEW i \in Stripes, NEW d \in Int, NEW g,
         g = [f EXCEPT ![i] = Wrap(@ + d)], NEW A \in SUBSET Stripes
  PROVE  Moved(f, g, i, d, A)
<1>1. \A x \in Stripes : f[x] \in Int /\ f[x] \in Word
  BY HalfFacts DEF Word
<1>2. f[i] + d \in Int
  BY <1>1
<1>3. Wrap(f[i] + d) \in Word /\ Wrap(f[i] + d) \in Int /\ Same(Wrap(f[i] + d), f[i] + d)
  BY <1>2, WrapSame
<1>4. g \in [Stripes -> Word] /\ g[i] = Wrap(f[i] + d) /\ \A x \in Stripes \ {i} : g[x] = f[x]
  BY <1>3
<1>5. \A x \in Stripes : g[x] \in Int
  BY <1>1, <1>3, <1>4
<1>6. IsFiniteSet(A)
  BY FiniteHere, FS_Subset
<1>7. SumFunctionOnSet(f, A) \in Int /\ SumFunctionOnSet(g, A) \in Int
  BY <1>1, <1>5, <1>6, SumInt
<1>8. ASSUME i \notin A PROVE SumFunctionOnSet(g, A) = SumFunctionOnSet(f, A)
  <2>1. \A x \in A : g[x] \in Int /\ g[x] = f[x]
    BY <1>4, <1>5, <1>8
  <2>2. QED
    BY <1>6, <2>1, SumSame
<1>9. ASSUME i \in A PROVE Same(SumFunctionOnSet(g, A), SumFunctionOnSet(f, A) + d)
  <2>1. (\A x \in A : f[x] \in Int) /\ (\A x \in A : g[x] \in Int)
    BY <1>1, <1>5
  <2>2. \A x \in A : x # i => f[x] = g[x]
    BY <1>4
  <2>3. SumFunctionOnSet(g, A) = SumFunctionOnSet(f, A) + (g[i] - f[i])
    <3>1. OnlyAt(i, f, g, A)
      BY <2>1, <2>2 DEF OnlyAt
    <3>2. ChangesBy(i, f, g, A)
      BY <1>6, <1>9, <3>1, SumChange
    <3>3. QED
      BY <3>2 DEF ChangesBy
  <2> DEFINE s == SumFunctionOnSet(f, A)
             v == f[i]
             w == Wrap(f[i] + d)
  <2>4. s \in Int /\ v \in Int /\ w \in Int /\ Same(w, v + d)
    BY <1>1, <1>3, <1>7
  <2>5. SumFunctionOnSet(g, A) = s + (w - v)
    BY <1>4, <2>3
  <2> HIDE DEF s, v, w
  <2>6. Same(w + (s - v), (v + d) + (s - v))
    <3>1. s - v \in Int /\ v + d \in Int
      BY <2>4
    <3>2. QED
      BY <2>4, <3>1, SameAdd, Zenon
  <2>7. w + (s - v) = s + (w - v) /\ (v + d) + (s - v) = s + d
    BY <2>4
  <2>8. Same(s + (w - v), s + d)
    BY <2>6, <2>7
  <2>9. QED
    BY <2>5, <2>8 DEF s
<1>10. QED
  BY <1>4, <1>7, <1>8, <1>9 DEF Moved

-----------------------------------------------------------------------------
(* Updates *)

OwnOK == own \in [Threads -> Stripes \cup {-1, -2}]

\* The stripe a thread adds to is one, and stays the same one.
LEMMA AddOwn ==
  ASSUME next \in Stripes, OwnOK, NEW t \in Threads, NEW d \in Int, Add(t, d)
  PROVE  /\ MyStripe(t) \in Stripes
         /\ next' \in Stripes /\ OwnOK'
         /\ d = 0 => own' = own
         /\ d # 0 => own'[t] # -1 /\ MyStripe(t)' = MyStripe(t)
<1>1. 0 \in Stripes /\ -1 \notin Stripes /\ -2 \notin Stripes
  BY StripeAssumption DEF Stripes
<1>2. own[t] \in Stripes \cup {-1, -2}
  BY DEF OwnOK
<1>3. MyStripe(t) \in Stripes
  BY <1>1, <1>2 DEF MyStripe
<1>4. (next + 1) % STRIPES \in Stripes
  <2>1. next + 1 \in Int /\ STRIPES \in Nat /\ STRIPES > 0
    BY StripeAssumption DEF Stripes
  <2>2. QED
    BY <2>1, ModIsRest DEF Stripes
<1>5. next' \in Stripes
  BY <1>4 DEF Add
<1>6. CASE d # 0 /\ own[t] = -1
  <2>1. own' = [own EXCEPT ![t] = next]
    BY <1>6 DEF Add
  <2>2. own'[t] = next /\ OwnOK'
    BY <2>1 DEF OwnOK
  <2>3. MyStripe(t)' = next
    BY <1>1, <2>2 DEF MyStripe
  <2>4. MyStripe(t) = next
    BY <1>6 DEF MyStripe
  <2>5. QED
    BY <1>1, <1>3, <1>5, <1>6, <2>2, <2>3, <2>4
<1>7. CASE ~ (d # 0 /\ own[t] = -1)
  <2>1. own' = own
    BY <1>7 DEF Add
  <2>2. OwnOK'
    BY <2>1 DEF OwnOK
  <2>3. d # 0 => MyStripe(t)' = MyStripe(t)
    BY <1>7, <2>1 DEF MyStripe
  <2>4. QED
    BY <1>3, <1>5, <1>7, <2>1, <2>2, <2>3
<1>8. QED
  BY <1>6, <1>7

\* What an update does to the sum over some of the stripes.
LEMMA AddSum ==
  ASSUME stripes \in [Stripes -> Word], NEW t \in Threads, MyStripe(t) \in Stripes,
         NEW d \in Int, Add(t, d), NEW A \in SUBSET Stripes
  PROVE  /\ Moved(stripes, stripes', MyStripe(t), d, A)
         /\ d = 0 => stripes' = stripes
<1>1. CASE d = 0
  <2>1. stripes' = stripes
    BY <1>1 DEF Add
  <2>2. \A x \in A : stripes[x] \in Int
    BY HalfFacts DEF Word
  <2>3. IsFiniteSet(A)
    BY FiniteHere, FS_Subset
  <2>4. SumFunctionOnSet(stripes, A) \in Int
    BY <2>2, <2>3, SumInt
  <2>5. SumFunctionOnSet(stripes, A) + d = SumFunctionOnSet(stripes, A)
    BY <1>1, <2>4
  <2>6. QED
    BY <1>1, <2>1, <2>4, <2>5 DEF Same, Moved
<1>2. CASE d # 0
  <2>1. stripes' = [stripes EXCEPT ![MyStripe(t)] = Wrap(@ + d)]
    BY <1>2 DEF Add
  <2>2. QED
    BY <1>2, <2>1, StripeChange
<1>3. QED
  BY <1>1, <1>2

\* After an update the words still add up.
LEMMA AddCounts ==
  ASSUME TypeOK, CountOK, NEW t \in Threads, NEW d \in Int, Add(t, d),
         Total' = Total + d, Total' \in 0 .. MaxLive
  PROVE  CountOK'
<1>1. MyStripe(t) \in Stripes
  BY AddOwn DEF TypeOK, OwnOK
<1>2. stripes \in [Stripes -> Word]
  BY DEF TypeOK
<1> DEFINE s == SumFunctionOnSet(stripes, Stripes)
           r == SumFunctionOnSet(stripes', Stripes)
<1>3. s \in Int /\ r \in Int /\ Same(r, s + d)
  BY <1>1, <1>2, AddSum DEF Moved
<1>4. Same(s, Total) /\ Total \in Int
  BY DEF CountOK
<1> HIDE DEF s, r
<1>5. Same(s + d, Total + d)
  BY <1>3, <1>4, SameAdd
<1>6. Same(r, Total + d)
  BY <1>3, <1>5, SameTrans
<1>7. QED
  BY <1>6 DEF CountOK, r

LEMMA UnreadFacts ==
  ASSUME TypeOK
  PROVE  /\ Unread \in SUBSET Stripes
         /\ sum.at \in Nat /\ sum.acc \in Int
         /\ \A i \in Stripes : i \in Unread <=> ~ (i < sum.at)
         /\ SumFunctionOnSet(stripes, Unread) \in Int
         /\ Coming \in Int
<1>1. sum.at \in 0 .. STRIPES /\ sum.acc \in Word
  BY DEF TypeOK
<1>2. Unread \in SUBSET Stripes /\ sum.at \in Nat /\ sum.acc \in Int
  BY <1>1, HalfFacts, StripeAssumption DEF Unread, Stripes, Word
<1>3. \A i \in Stripes : i \in Unread <=> ~ (i < sum.at)
  BY <1>1, StripeAssumption DEF Unread, Stripes
<1>4. \A i \in Unread : stripes[i] \in Int
  BY <1>2, HalfFacts DEF TypeOK, Word
<1>5. IsFiniteSet(Unread)
  BY <1>2, FiniteHere DEF Unread
<1>6. SumFunctionOnSet(stripes, Unread) \in Int
  BY <1>4, <1>5, SumInt
<1>7. QED
  BY <1>2, <1>3, <1>6 DEF Coming

\* An update is on its way into len() exactly if its stripe is still unread.
LEMMA AddComing ==
  ASSUME TypeOK, NEW t \in Threads, NEW d \in Int, Add(t, d), sum' = sum
  PROVE  /\ Coming \in Int /\ Coming' \in Int
         /\ ~ (MyStripe(t) < sum.at) => Same(Coming', Coming + d)
         /\ MyStripe(t) < sum.at => Coming' = Coming
         /\ d = 0 => Coming' = Coming
<1>1. MyStripe(t) \in Stripes
  BY AddOwn DEF TypeOK, OwnOK
<1> DEFINE s == SumFunctionOnSet(stripes, Unread)
           r == SumFunctionOnSet(stripes', Unread)
           a == sum.acc
           i == MyStripe(t)
<1>2. Moved(stripes, stripes', i, d, Unread) /\ (d = 0 => stripes' = stripes)
  <2>1. stripes \in [Stripes -> Word] /\ Unread \in SUBSET Stripes
    BY UnreadFacts DEF TypeOK
  <2>2. QED
    BY <1>1, <2>1, AddSum
<1>3. s \in Int /\ r \in Int /\ a \in Int
  BY <1>2, UnreadFacts DEF Moved
<1>4. Coming = a + s /\ Coming' = a + r
  BY DEF Coming, Unread
<1>5. i < sum.at => r = s
  BY <1>1, <1>2, UnreadFacts DEF Moved
<1>6. ~ (i < sum.at) => Same(r, s + d)
  BY <1>1, <1>2, UnreadFacts DEF Moved
<1>7. d = 0 => r = s
  BY <1>2
<1> HIDE DEF s, r, a
<1>8. Same(r, s + d) => Same(a + r, (a + s) + d)
  <2>1. ASSUME Same(r, s + d) PROVE Same(a + r, (a + s) + d)
    <3>1. s + d \in Int
      BY <1>3
    <3>2. Same(r + a, (s + d) + a)
      BY <1>3, <2>1, <3>1, SameAdd
    <3>3. r + a = a + r /\ (s + d) + a = (a + s) + d
      BY <1>3
    <3>4. QED
      BY <3>2, <3>3
  <2>2. QED
    BY <2>1
<1>9. QED
  BY <1>3, <1>4, <1>5, <1>6, <1>7, <1>8

\* What the history says after an update.
LEMMA NotedSays ==
  ASSUME TypeOK, NEW t \in Threads, NEW d \in Int, Noted(t, d), sum.pc # "off"
  PROVE  /\ during'.first = during.first
         /\ during'.up = during.up + (IF d > 0 THEN d ELSE 0)
         /\ during'.down = during.down + (IF d < 0 THEN -d ELSE 0)
         /\ during'.by = (IF d = 0 THEN during.by ELSE during.by \cup {t})
         /\ during'.totals = during.totals \cup {Total'}
         /\ during' = [up |-> during'.up, down |-> during'.down, by |-> during'.by,
                       totals |-> during'.totals, first |-> during'.first]
<1> DEFINE T == Total'
<1>1. during' = [during EXCEPT !.up = @ + (IF d > 0 THEN d ELSE 0),
                               !.down = @ + (IF d < 0 THEN -d ELSE 0),
                               !.by = IF d = 0 THEN @ ELSE @ \cup {t},
                               !.totals = @ \cup {T}]
  BY DEF Noted
<1>2. during \in [up : Nat, down : Nat, by : SUBSET Threads,
                  totals : SUBSET (0 .. MaxLive), first : 0 .. MaxLive]
  BY DEF TypeOK
<1> HIDE DEF T
<1>3. /\ during'.first = during.first
      /\ during'.up = during.up + (IF d > 0 THEN d ELSE 0)
      /\ during'.down = during.down + (IF d < 0 THEN -d ELSE 0)
      /\ during'.by = (IF d = 0 THEN during.by ELSE during.by \cup {t})
      /\ during'.totals = during.totals \cup {T}
      /\ during' = [up |-> during'.up, down |-> during'.down, by |-> during'.by,
                    totals |-> during'.totals, first |-> during'.first]
  BY <1>1, <1>2
<1>4. QED
  BY <1>3 DEF T

\* An update of at most the whole map, noted in the history.
Update(t, d) ==
  /\ t \in Threads /\ d \in Int /\ d <= 1 /\ -d <= MaxLive
  /\ Add(t, d) /\ Noted(t, d) /\ Room /\ sum' = sum
  /\ Total' = Total + d /\ Total' \in 0 .. MaxLive

LEMMA UpdateWithin ==
  ASSUME IInv, NEW t, NEW d, Update(t, d), sum.pc # "off"
  PROVE  WithinOK'
<1>1. t \in Threads /\ d \in Int /\ d <= 1 /\ -d <= MaxLive /\ Add(t, d) /\ Noted(t, d) /\ Room
      /\ sum' = sum /\ TypeOK /\ WithinOK /\ MaxLive \in Nat /\ MaxDuring \in Nat
  BY StripeAssumption DEF Update, IInv, LenOK
<1> DEFINE u == during.up
           v == during.down
           f == during.first
           u1 == during'.up
           v1 == during'.down
<1>2. u \in Nat /\ v \in Nat /\ f \in Nat
  BY <1>1 DEF TypeOK
<1>3. /\ during'.first = f
      /\ u1 = u + (IF d > 0 THEN d ELSE 0)
      /\ v1 = v + (IF d < 0 THEN -d ELSE 0)
  BY <1>1, NotedSays
<1>4. u + v < MaxDuring
  BY <1>1 DEF Room
<1> HIDE DEF u, v, f, u1, v1
<1>5. u1 <= MaxDuring /\ v1 <= MaxDuring + MaxLive
  BY <1>1, <1>2, <1>3, <1>4
<1>6. PICK T \in f - v .. f + u : Same(Coming, T)
  BY <1>1 DEF WithinOK, f, u, v
<1>7. T \in Int /\ T \in f - v1 .. f + u1 /\ T + d \in f - v1 .. f + u1
  BY <1>1, <1>2, <1>3, <1>6
<1>8. Coming \in Int /\ Coming' \in Int
  BY <1>1, AddComing
<1>9. \E S \in f - v1 .. f + u1 : Same(Coming', S)
  <2>1. CASE MyStripe(t) < sum.at
    <3>1. Coming' = Coming
      BY <1>1, <2>1, AddComing
    <3>2. QED
      BY <1>6, <1>7, <3>1
  <2>2. CASE ~ (MyStripe(t) < sum.at)
    <3>1. Same(Coming', Coming + d)
      BY <1>1, <2>2, AddComing
    <3>2. Same(Coming + d, T + d)
      BY <1>1, <1>6, <1>7, <1>8, SameAdd
    <3>3. Same(Coming', T + d)
      BY <3>1, <3>2, SameTrans
    <3>4. QED
      BY <1>7, <3>3
  <2>3. QED
    BY <2>1, <2>2
<1>10. QED
  BY <1>3, <1>5, <1>9 DEF WithinOK, u1, v1

LEMMA UpdateExact ==
  ASSUME IInv, NEW t, NEW d, Update(t, d), sum.pc # "off"
  PROVE  ExactOK'
<1>1. t \in Threads /\ d \in Int /\ Add(t, d) /\ Noted(t, d) /\ sum' = sum
      /\ Total' = Total + d /\ TypeOK /\ ExactOK /\ Total \in Int
  BY DEF Update, IInv, LenOK, CountOK
<1>2. SUFFICES ASSUME during'.by = {} PROVE Same(Coming', Total')
  BY DEF ExactOK
<1>3. d = 0 /\ during.by = {}
  BY <1>1, <1>2, NotedSays
<1>4. Coming' = Coming /\ Total' = Total
  BY <1>1, <1>3, AddComing
<1>5. QED
  BY <1>1, <1>3, <1>4 DEF ExactOK

LEMMA UpdateOneWriter ==
  ASSUME IInv, NEW t, NEW d, Update(t, d), sum.pc # "off"
  PROVE  OneWriterOK'
<1>1. t \in Threads /\ d \in Int /\ Add(t, d) /\ Noted(t, d) /\ sum' = sum
      /\ Total' = Total + d /\ TypeOK /\ ExactOK /\ OneWriterOK /\ Total \in Int
      /\ Total \in during.totals
  BY DEF Update, IInv, LenOK, CountOK
<1>2. during'.by = (IF d = 0 THEN during.by ELSE during.by \cup {t})
      /\ during'.totals = during.totals \cup {Total'}
  BY <1>1, NotedSays
<1>3. Coming \in Int /\ Coming' \in Int
  BY <1>1, AddComing
<1>4. ASSUME NEW s \in Threads, during'.by = {s}
      PROVE  /\ own'[s] # -1
             /\ \/ Same(Coming', Total')
                \/ MyStripe(s)' < sum.at /\ \E T \in during'.totals : Same(Coming', T)
  <2>1. CASE d = 0
    <3>1. Coming' = Coming /\ Total' = Total /\ own' = own
      BY <1>1, <2>1, AddComing, AddOwn DEF TypeOK, OwnOK
    <3>2. next' = next
      BY <1>1, <2>1 DEF Add
    <3>3. MyStripe(s)' = MyStripe(s)
      BY <3>1, <3>2 DEF MyStripe
    <3>4. during.by = {s}
      BY <1>2, <1>4, <2>1
    <3>5. /\ own[s] # -1
          /\ \/ Same(Coming, Total)
             \/ MyStripe(s) < sum.at /\ \E T \in during.totals : Same(Coming, T)
      BY <1>1, <3>4 DEF OneWriterOK
    <3>6. QED
      BY <1>2, <3>1, <3>3, <3>5
  <2>2. CASE d # 0
    <3>1. s = t /\ (during.by = {} \/ during.by = {t})
      BY <1>2, <1>4, <2>2
    <3>2. own'[t] # -1 /\ MyStripe(t)' = MyStripe(t)
      BY <1>1, <2>2, AddOwn DEF TypeOK, OwnOK
    <3>3. \/ Same(Coming, Total)
          \/ MyStripe(t) < sum.at /\ \E T \in during.totals : Same(Coming, T)
      BY <1>1, <3>1 DEF OneWriterOK, ExactOK
    <3>4. CASE MyStripe(t) < sum.at
      <4>1. Coming' = Coming
        BY <1>1, <3>4, AddComing
      <4>2. \E T \in during.totals : Same(Coming, T)
        BY <1>1, <3>3
      <4>3. QED
        BY <1>2, <3>1, <3>2, <3>4, <4>1, <4>2
    <3>5. CASE ~ (MyStripe(t) < sum.at)
      <4>1. Same(Coming', Coming + d)
        BY <1>1, <3>5, AddComing
      <4>2. Same(Coming + d, Total + d)
        BY <1>1, <1>3, <3>3, <3>5, SameAdd
      <4>3. Same(Coming', Total')
        BY <1>1, <4>1, <4>2, SameTrans
      <4>4. QED
        BY <3>1, <3>2, <4>3
    <3>6. QED
      BY <3>4, <3>5
  <2>3. QED
    BY <2>1, <2>2
<1>5. QED
  BY <1>1, <1>4 DEF OneWriterOK

\* An update keeps the counts and what len() is on its way to.
LEMMA UpdateKeeps ==
  ASSUME IInv, NEW t, NEW d, Update(t, d)
  PROVE  CountOK' /\ LenOK'
<1>1. CountOK'
  BY AddCounts DEF Update, IInv
<1>2. ASSUME sum'.pc # "off" PROVE LenOK'
  <2>1. sum' = sum /\ sum.pc # "off"
    BY <1>2 DEF Update
  <2>2. WithinOK' /\ ExactOK' /\ OneWriterOK'
    BY <2>1, UpdateWithin, UpdateExact, UpdateOneWriter
  <2>3. Total' \in during'.totals
    BY <2>1, NotedSays DEF Update, IInv
  <2>4. sum'.pc = "done" <=> sum'.at = STRIPES
    BY <2>1 DEF IInv, LenOK
  <2>5. QED
    BY <2>2, <2>3, <2>4 DEF LenOK
<1>3. QED
  BY <1>1, <1>2 DEF LenOK

LEMMA UpdateTypes ==
  ASSUME IInv, NEW t, NEW d, Update(t, d), live' \in Nat,
         DOMAIN call' = Threads, call' = [u \in Threads |-> call'[u]],
         \A u \in Threads : CallOK(call'[u])
  PROVE  TypeOK'
<1>1. t \in Threads /\ d \in Int /\ Add(t, d) /\ Noted(t, d) /\ sum' = sum
      /\ Total' \in 0 .. MaxLive /\ TypeOK
  BY DEF Update, IInv
<1>2. next' \in Stripes /\ OwnOK' /\ MyStripe(t) \in Stripes
  BY <1>1, AddOwn DEF TypeOK, OwnOK
<1>3. stripes' \in [Stripes -> Word]
  <2>1. Stripes \in SUBSET Stripes /\ stripes \in [Stripes -> Word]
    BY <1>1 DEF TypeOK
  <2>2. Moved(stripes, stripes', MyStripe(t), d, Stripes)
    BY <1>1, <1>2, <2>1, AddSum
  <2>3. QED
    BY <2>2 DEF Moved
<1>4. during' \in [up : Nat, down : Nat, by : SUBSET Threads,
                   totals : SUBSET (0 .. MaxLive), first : 0 .. MaxLive]
  <2>1. during \in [up : Nat, down : Nat, by : SUBSET Threads,
                    totals : SUBSET (0 .. MaxLive), first : 0 .. MaxLive]
    BY <1>1 DEF TypeOK
  <2>2. CASE sum.pc = "off"
    BY <1>1, <2>1, <2>2 DEF Noted
  <2>3. CASE sum.pc # "off"
    <3>1. /\ during'.first = during.first
          /\ during'.up = during.up + (IF d > 0 THEN d ELSE 0)
          /\ during'.down = during.down + (IF d < 0 THEN -d ELSE 0)
          /\ during'.by = (IF d = 0 THEN during.by ELSE during.by \cup {t})
          /\ during'.totals = during.totals \cup {Total'}
      BY <1>1, <2>3, NotedSays
    <3>2. during' = [up |-> during'.up, down |-> during'.down, by |-> during'.by,
                     totals |-> during'.totals, first |-> during'.first]
      BY <1>1, <2>3, NotedSays
    <3>3. during'.up \in Nat /\ during'.down \in Nat /\ during'.first \in 0 .. MaxLive
      BY <1>1, <2>1, <3>1
    <3>4. during'.by \in SUBSET Threads /\ during'.totals \in SUBSET (0 .. MaxLive)
      BY <1>1, <2>1, <3>1
    <3>5. QED
      BY <3>2, <3>3, <3>4
  <2>4. QED
    BY <2>2, <2>3
<1>5. QED
  BY <1>1, <1>2, <1>3, <1>4 DEF TypeOK, OwnOK

-----------------------------------------------------------------------------
(* One lemma per action *)

\* The calls in flight, when a thread goes from one call to another.
LEMMA CallStep ==
  ASSUME TypeOK, NEW t \in Threads, NEW x, CallOK(x), call' = [call EXCEPT ![t] = x]
  PROVE  /\ InFlight(call') = InFlight(call) + x.by - call[t].by
         /\ InFlight(call) \in Nat /\ InFlight(call') \in Nat
         /\ DOMAIN call' = Threads /\ call' = [u \in Threads |-> call'[u]]
         /\ \A u \in Threads : CallOK(call'[u])
         /\ CallOK(call[t]) /\ x.by \in Nat /\ call[t].by \in Nat
<1>1. DOMAIN call = Threads /\ \A u \in Threads : CallOK(call[u])
  BY DEF TypeOK
<1>2. /\ InFlight(call') = InFlight(call) + x.by - call[t].by
      /\ InFlight(call) \in Nat /\ InFlight(call') \in Nat
      /\ DOMAIN call' = Threads /\ call' = [u \in Threads |-> call'[u]]
      /\ \A u \in Threads : CallOK(call'[u])
  <2> DEFINE d == call'
  <2>1. d = [call EXCEPT ![t] = x]
    OBVIOUS
  <2> HIDE DEF d
  <2>2. FlightMoved(call, d, t, x)
    BY <1>1, <2>1, CallChange
  <2>3. DOMAIN d = Threads /\ d = [u \in Threads |-> d[u]] /\ \A u \in Threads : CallOK(d[u])
    BY <1>1, <2>1, CallChange
  <2>4. QED
    BY <2>2, <2>3 DEF d, FlightMoved
<1>3. QED
  BY <1>1, <1>2 DEF CallOK

LEMMA InsertAddKeeps ==
  ASSUME IInv, NEW t \in Threads, InsertAdd(t)
  PROVE  IInv'
<1> DEFINE x == [do |-> "added", by |-> 1]
<1>1. CallOK(x) /\ x.by = 1
  BY DEF CallOK
<1>2. call' = [call EXCEPT ![t] = x] /\ live' = live /\ sum' = sum /\ call[t] = NoCall
      /\ Add(t, 1) /\ Noted(t, 1) /\ Room /\ Total < MaxLive
      /\ TypeOK /\ Total \in 0 .. MaxLive /\ live \in Nat /\ MaxLive \in Nat
  BY StripeAssumption DEF InsertAdd, IInv, CountOK, TypeOK
<1> HIDE DEF x
<1>3. /\ InFlight(call') = InFlight(call) + 1 - 0
      /\ InFlight(call) \in Nat /\ InFlight(call') \in Nat
      /\ DOMAIN call' = Threads /\ call' = [u \in Threads |-> call'[u]]
      /\ \A u \in Threads : CallOK(call'[u])
  <2>1. call[t].by = 0
    BY <1>2 DEF NoCall
  <2>2. QED
    BY <1>1, <1>2, <2>1, CallStep
<1>4. Total' = Total + 1 /\ Total' \in 0 .. MaxLive
  BY <1>2, <1>3, TotalIs
<1>5. Update(t, 1)
  BY <1>2, <1>4 DEF Update
<1>6. QED
  BY <1>2, <1>3, <1>5, UpdateKeeps, UpdateTypes DEF IInv

LEMMA TakenAddKeeps ==
  ASSUME IInv, NEW t \in Threads, TakenAdd(t)
  PROVE  IInv'
<1> DEFINE n == call[t].by
<1>1. CallOK(NoCall) /\ NoCall.by = 0
  BY DEF CallOK, NoCall
<1>2. call' = [call EXCEPT ![t] = NoCall] /\ live' = live /\ sum' = sum
      /\ Add(t, -n) /\ Noted(t, -n) /\ Room
      /\ TypeOK /\ Total \in 0 .. MaxLive /\ live \in Nat /\ MaxLive \in Nat
  BY StripeAssumption DEF TakenAdd, IInv, CountOK, TypeOK
<1>3. /\ InFlight(call') = InFlight(call) + 0 - n
      /\ InFlight(call) \in Nat /\ InFlight(call') \in Nat
      /\ DOMAIN call' = Threads /\ call' = [u \in Threads |-> call'[u]]
      /\ \A u \in Threads : CallOK(call'[u])
      /\ n \in Nat
  BY <1>1, <1>2, CallStep
<1> HIDE DEF n
<1>4. Total' = Total + (-n) /\ Total' \in 0 .. MaxLive /\ n <= MaxLive
  BY <1>2, <1>3, TotalIs
<1>5. Update(t, -n)
  BY <1>2, <1>3, <1>4 DEF Update
<1>6. QED
  BY <1>2, <1>3, <1>5, UpdateKeeps, UpdateTypes DEF IInv

\* Steps that move entries between the map and a call leave the total as it is.
LEMMA SameTotalKeeps ==
  ASSUME IInv, TypeOK', Total' = Total, UNCHANGED <<stripes, next, own, sum, during>>
  PROVE  IInv'
<1>1. CountOK'
  BY DEF IInv, CountOK
<1>2. Coming' = Coming
  BY DEF Coming, Unread
<1>3. \A t : MyStripe(t)' = MyStripe(t)
  BY DEF MyStripe
<1>4. sum.pc # "off" => WithinOK' /\ ExactOK' /\ OneWriterOK'
  BY <1>2, <1>3 DEF IInv, LenOK, WithinOK, ExactOK, OneWriterOK
<1>5. QED
  BY <1>1, <1>4 DEF IInv, LenOK

LEMMA InsertPublishKeeps ==
  ASSUME IInv, NEW t \in Threads, InsertPublish(t)
  PROVE  IInv'
<1>1. CallOK(NoCall) /\ NoCall.by = 0
  BY DEF CallOK, NoCall
<1>2. call' = [call EXCEPT ![t] = NoCall] /\ live' = live + 1 /\ call[t].do = "added"
      /\ UNCHANGED <<stripes, next, own, sum, during>> /\ TypeOK /\ live \in Nat
  BY DEF InsertPublish, IInv, TypeOK
<1>3. /\ InFlight(call') = InFlight(call) + 0 - call[t].by
      /\ InFlight(call) \in Nat /\ InFlight(call') \in Nat
      /\ DOMAIN call' = Threads /\ call' = [u \in Threads |-> call'[u]]
      /\ (\A u \in Threads : CallOK(call'[u])) /\ CallOK(call[t])
  BY <1>1, <1>2, CallStep
<1>4. call[t].by = 1
  BY <1>2, <1>3 DEF CallOK
<1>5. Total' = Total
  BY <1>2, <1>3, <1>4, TotalIs
<1>6. TypeOK'
  BY <1>2, <1>3 DEF TypeOK
<1>7. QED
  BY <1>2, <1>5, <1>6, SameTotalKeeps

LEMMA TakeLeavesKeeps ==
  ASSUME IInv, NEW t \in Threads, NEW n \in 0 .. MaxLive, TakeLeaves(t, n)
  PROVE  IInv'
<1> DEFINE x == [do |-> "taken", by |-> n]
<1>1. CallOK(x) /\ x.by = n /\ n \in Nat
  BY StripeAssumption DEF CallOK
<1>2. call' = [call EXCEPT ![t] = x] /\ live' = live - n /\ n <= live /\ call[t] = NoCall
      /\ UNCHANGED <<stripes, next, own, sum, during>> /\ TypeOK /\ live \in Nat
  BY DEF TakeLeaves, IInv, TypeOK
<1> HIDE DEF x
<1>3. /\ InFlight(call') = InFlight(call) + n - 0
      /\ InFlight(call) \in Nat /\ InFlight(call') \in Nat
      /\ DOMAIN call' = Threads /\ call' = [u \in Threads |-> call'[u]]
      /\ \A u \in Threads : CallOK(call'[u])
  <2>1. call[t].by = 0
    BY <1>2 DEF NoCall
  <2>2. QED
    BY <1>1, <1>2, <2>1, CallStep
<1>4. Total' = Total /\ live' \in Nat
  BY <1>1, <1>2, <1>3, TotalIs
<1>5. TypeOK'
  BY <1>2, <1>3, <1>4 DEF TypeOK
<1>6. QED
  BY <1>2, <1>4, <1>5, SameTotalKeeps

LEMMA TeardownKeeps ==
  ASSUME IInv, NEW t \in Threads, Teardown(t)
  PROVE  IInv'
<1>1. own' = [own EXCEPT ![t] = -2] /\ own[t] \in Stripes
      /\ UNCHANGED <<stripes, next, call, live, sum, during>>
      /\ own \in [Threads -> Stripes \cup {-1, -2}]
  BY DEF Teardown, IInv, TypeOK
<1>2. own' \in [Threads -> Stripes \cup {-1, -2}] /\ own'[t] = -2
      /\ \A u \in Threads \ {t} : own'[u] = own[u]
  BY <1>1
<1>3. TypeOK'
  BY <1>1, <1>2 DEF IInv, TypeOK
<1>4. Total' = Total /\ Coming' = Coming
  BY <1>1 DEF Total, Pending, Coming, Unread
<1>5. CountOK'
  BY <1>1, <1>4 DEF IInv, CountOK
<1>6. \A u \in Threads \ {t} : MyStripe(u)' = MyStripe(u)
  BY <1>1, <1>2 DEF MyStripe
<1>7. MyStripe(t)' = 0 /\ MyStripe(t) = own[t]
  BY <1>1, <1>2, StripeAssumption DEF MyStripe, Stripes
<1>8. ASSUME sum.pc # "off" PROVE OneWriterOK'
  <2>1. ASSUME NEW u \in Threads, during.by = {u}
        PROVE  /\ own'[u] # -1
               /\ \/ Same(Coming, Total)
                  \/ MyStripe(u)' < sum.at /\ \E T \in during.totals : Same(Coming, T)
    <3>1. /\ own[u] # -1
          /\ \/ Same(Coming, Total)
             \/ MyStripe(u) < sum.at /\ \E T \in during.totals : Same(Coming, T)
      BY <1>8, <2>1 DEF IInv, LenOK, OneWriterOK
    <3>2. CASE u = t
      <4>1. MyStripe(t) < sum.at => 0 < sum.at
        BY <1>1, <1>7, UnreadFacts DEF IInv, Stripes
      <4>2. QED
        BY <1>2, <1>7, <3>1, <3>2, <4>1
    <3>3. CASE u # t
      BY <1>2, <1>6, <3>1, <3>3
    <3>4. QED
      BY <3>2, <3>3
  <2>2. QED
    BY <1>1, <1>4, <2>1 DEF OneWriterOK
<1>9. ASSUME sum.pc # "off" PROVE WithinOK' /\ ExactOK'
  BY <1>1, <1>4, <1>9 DEF IInv, LenOK, WithinOK, ExactOK
<1>10. LenOK'
  BY <1>1, <1>4, <1>8, <1>9 DEF IInv, LenOK
<1>11. QED
  BY <1>3, <1>5, <1>10 DEF IInv

LEMMA BeginSumKeeps ==
  ASSUME IInv, BeginSum
  PROVE  IInv'
<1> DEFINE T0 == Total
<1>1. /\ sum' = [pc |-> "sum", at |-> 0, acc |-> 0, alone |-> Quiet]
      /\ during' = [up |-> 0, down |-> 0, by |-> {}, totals |-> {T0}, first |-> T0]
      /\ UNCHANGED <<stripes, next, own, call, live>>
  BY DEF BeginSum, NoSum, NoHistory
<1>2. TypeOK /\ T0 \in 0 .. MaxLive /\ Same(SumFunctionOnSet(stripes, Stripes), T0)
  BY DEF IInv, CountOK
<1>3. Total' = T0
  BY <1>1 DEF Total, Pending
<1>4. 0 \in Word /\ 0 \in 0 .. STRIPES /\ 0 # STRIPES /\ Quiet \in BOOLEAN
  BY HalfFacts, StripeAssumption DEF Word, Quiet
<1> HIDE DEF T0
<1>5. sum' \in [pc : {"off", "sum", "done"}, at : 0 .. STRIPES, acc : Word, alone : BOOLEAN]
  BY <1>1, <1>4
<1>6. during' \in [up : Nat, down : Nat, by : SUBSET Threads,
                   totals : SUBSET (0 .. MaxLive), first : 0 .. MaxLive]
  BY <1>1, <1>2
<1>7. TypeOK'
  BY <1>1, <1>2, <1>5, <1>6 DEF TypeOK
<1>8. CountOK'
  BY <1>1, <1>2, <1>3 DEF CountOK
<1>9. Coming' = SumFunctionOnSet(stripes, Stripes)
  <2>1. SumFunctionOnSet(stripes, Stripes) \in Int
    <3>1. \A i \in Stripes : stripes[i] \in Int
      BY <1>2, HalfFacts DEF TypeOK, Word
    <3>2. QED
      BY <3>1, FiniteHere, SumInt
  <2>2. Unread' = Stripes
    BY <1>1 DEF Unread, Stripes
  <2>3. Coming' = 0 + SumFunctionOnSet(stripes, Stripes)
    BY <1>1, <2>2 DEF Coming
  <2>4. QED
    BY <2>1, <2>3
<1>10. Same(Coming', T0)
  BY <1>2, <1>9
<1>11. WithinOK'
  <2>1. T0 \in T0 - 0 .. T0 + 0 /\ 0 <= MaxDuring /\ 0 <= MaxDuring + MaxLive
    BY <1>2, StripeAssumption
  <2>2. QED
    BY <1>1, <1>10, <2>1 DEF WithinOK
<1>12. ExactOK'
  BY <1>3, <1>10 DEF ExactOK
<1>13. OneWriterOK'
  BY <1>1 DEF OneWriterOK
<1>14. LenOK'
  BY <1>1, <1>3, <1>4, <1>11, <1>12, <1>13 DEF LenOK
<1>15. QED
  BY <1>7, <1>8, <1>14 DEF IInv

LEMMA LoadStripeKeeps ==
  ASSUME IInv, LoadStripe
  PROVE  IInv'
<1> DEFINE a == sum.at
           v == stripes[a]
           s == SumFunctionOnSet(stripes, (a + 1) .. STRIPES - 1)
<1>1. /\ sum' = [sum EXCEPT !.acc = Wrap(@ + v), !.at = @ + 1,
                            !.pc = IF a + 1 = STRIPES THEN "done" ELSE @]
      /\ sum.pc = "sum" /\ UNCHANGED <<stripes, next, own, call, live, during>>
      /\ TypeOK
  BY DEF LoadStripe, Plus, IInv
<1>2. sum \in [pc : {"off", "sum", "done"}, at : 0 .. STRIPES, acc : Word, alone : BOOLEAN]
      /\ stripes \in [Stripes -> Word]
  BY <1>1 DEF TypeOK
<1>3. a \in Stripes /\ a \in 0 .. STRIPES /\ a + 1 \in 0 .. STRIPES
  BY <1>1, <1>2, StripeAssumption DEF IInv, LenOK, Stripes
<1>4. v \in Int /\ sum.acc \in Int
  BY <1>2, <1>3, HalfFacts DEF Word
<1>5. Wrap(sum.acc + v) \in Int /\ Wrap(sum.acc + v) \in Word
      /\ Same(Wrap(sum.acc + v), sum.acc + v)
  <2>1. sum.acc + v \in Int
    BY <1>4
  <2>2. QED
    BY <2>1, WrapSame
<1>6. /\ sum'.acc = Wrap(sum.acc + v) /\ sum'.at = a + 1
      /\ sum'.pc = (IF a + 1 = STRIPES THEN "done" ELSE "sum") /\ sum'.alone = sum.alone
      /\ sum' \in [pc : {"off", "sum", "done"}, at : 0 .. STRIPES, acc : Word, alone : BOOLEAN]
  <2> HIDE DEF v
  <2>1. QED
    BY <1>1, <1>2, <1>3, <1>5
<1>7. TypeOK'
  BY <1>1, <1>6 DEF TypeOK
<1>8. Total' = Total
  BY <1>1 DEF Total, Pending
<1>9. CountOK'
  BY <1>1, <1>8 DEF IInv, CountOK
<1>10. s \in Int /\ SumFunctionOnSet(stripes, Unread) = v + s
  <2>1. Unread \in SUBSET Stripes /\ IsFiniteSet(Unread) /\ a \in Unread
        /\ Unread \ {a} = (a + 1) .. STRIPES - 1
    BY <1>1, <1>3, UnreadFacts, FiniteHere, StripeAssumption DEF Unread, Stripes
  <2>2. \A i \in Unread : stripes[i] \in Int
    BY <1>2, <2>1, HalfFacts DEF Word
  <2>3. SumFunctionOnSet(stripes, Unread) = stripes[a] + SumFunctionOnSet(stripes, Unread \ {a})
    BY <2>1, <2>2, SumTakeOut
  <2>4. IsFiniteSet(Unread \ {a})
    BY <2>1, FS_RemoveElement
  <2>5. SumFunctionOnSet(stripes, Unread \ {a}) \in Int
    BY <2>2, <2>4, SumInt
  <2>6. QED
    BY <2>1, <2>3, <2>5
<1>11. Coming' = Wrap(sum.acc + v) + s
  BY <1>1, <1>6 DEF Coming, Unread
<1>12. Coming = (sum.acc + v) + s
  <2>1. Coming = sum.acc + (v + s)
    BY <1>10 DEF Coming
  <2> HIDE DEF v, s
  <2>2. QED
    BY <1>4, <1>10, <2>1
<1>13. Same(Coming', Coming)
  <2> HIDE DEF v, s
  <2>1. sum.acc + v \in Int
    BY <1>4
  <2>2. Same(Wrap(sum.acc + v) + s, (sum.acc + v) + s)
    BY <1>5, <1>10, <2>1, SameAdd
  <2>3. QED
    BY <1>11, <1>12, <2>2
<1>14. \A T : Same(Coming, T) => Same(Coming', T)
  BY <1>13 DEF Same
<1>15. WithinOK /\ ExactOK /\ OneWriterOK /\ Total \in during.totals
  BY <1>1 DEF IInv, LenOK
<1>16. WithinOK' /\ ExactOK'
  BY <1>1, <1>8, <1>14, <1>15 DEF WithinOK, ExactOK
<1>17. OneWriterOK'
  <2>1. \A t : MyStripe(t)' = MyStripe(t)
    BY <1>1 DEF MyStripe
  <2>2. \A t \in Threads : MyStripe(t) < sum.at => MyStripe(t) < sum'.at
    <3>1. \A t \in Threads : MyStripe(t) \in Int
      BY <1>1, StripeAssumption DEF MyStripe, TypeOK, Stripes
    <3>2. QED
      BY <1>3, <1>6, <3>1
  <2>3. QED
    BY <1>1, <1>8, <1>14, <1>15, <2>1, <2>2 DEF OneWriterOK
<1>18. LenOK'
  BY <1>1, <1>3, <1>6, <1>8, <1>15, <1>16, <1>17 DEF LenOK
<1>19. QED
  BY <1>7, <1>9, <1>18 DEF IInv

LEMMA EndSumKeeps ==
  ASSUME IInv, EndSum
  PROVE  IInv'
<1>1. sum' = NoSum /\ during' = NoHistory /\ UNCHANGED <<stripes, next, own, call, live>>
  BY DEF EndSum
<1>2. TypeOK'
  BY <1>1, HalfFacts, StripeAssumption DEF IInv, TypeOK, NoSum, NoHistory, Word
<1>3. CountOK'
  <2>1. Total' = Total
    BY <1>1 DEF Total, Pending
  <2>2. QED
    BY <1>1, <2>1 DEF IInv, CountOK
<1>4. LenOK'
  BY <1>1 DEF LenOK, NoSum
<1>5. QED
  BY <1>2, <1>3, <1>4 DEF IInv

LEMMA InitOK ==
  ASSUME Init
  PROVE  IInv
<1>1. 0 \in Word /\ -1 \notin Stripes /\ 0 \in 0 .. STRIPES /\ 0 \in 0 .. MaxLive
  BY HalfFacts, StripeAssumption DEF Word, Stripes
<1>2. CallOK(NoCall) /\ NoCall.by = 0
  BY DEF CallOK, NoCall
<1>3. stripes \in [Stripes -> Word] /\ next \in Stripes
      /\ own \in [Threads -> Stripes \cup {-1, -2}] /\ live \in Nat
  BY <1>1 DEF Init
<1>4. DOMAIN call = Threads /\ call = [t \in Threads |-> call[t]]
      /\ \A t \in Threads : CallOK(call[t]) /\ call[t].by = 0
  BY <1>2 DEF Init
<1>5. sum \in [pc : {"off", "sum", "done"}, at : 0 .. STRIPES, acc : Word, alone : BOOLEAN]
  BY <1>1 DEF Init, NoSum
<1>6. during \in [up : Nat, down : Nat, by : SUBSET Threads,
                  totals : SUBSET (0 .. MaxLive), first : 0 .. MaxLive]
  BY <1>1 DEF Init, NoHistory
<1>7. TypeOK
  BY <1>3, <1>4, <1>5, <1>6 DEF TypeOK
<1>8. Total = 0
  <2>1. \A t \in Threads : Pending[t] = 0
    BY <1>4 DEF Pending
  <2>2. SumFunctionOnSet(Pending, Threads) = 0
    BY <2>1, FiniteHere, SumZero
  <2>3. QED
    BY <2>2 DEF Total, Init
<1>9. SumFunctionOnSet(stripes, Stripes) = 0
  <2>1. \A i \in Stripes : stripes[i] = 0
    BY DEF Init
  <2>2. QED
    BY <2>1, FiniteHere, SumZero
<1>10. CountOK
  BY <1>1, <1>8, <1>9 DEF CountOK, Same
<1>11. LenOK
  BY DEF LenOK, Init, NoSum
<1>12. QED
  BY <1>7, <1>10, <1>11 DEF IInv

LEMMA NextKeeps ==
  ASSUME IInv, [Next]_vars
  PROVE  IInv'
<1>1. CASE UNCHANGED vars
  <2>1. UNCHANGED <<stripes, next, own, sum, during, call, live>>
    BY <1>1 DEF vars
  <2>2. TypeOK' /\ Total' = Total
    BY <2>1 DEF IInv, TypeOK, Total, Pending
  <2>3. QED
    BY <2>1, <2>2, SameTotalKeeps
<1>2. CASE Next
  <2>1. ASSUME NEW t \in Threads, InsertAdd(t) PROVE IInv'
    BY <2>1, InsertAddKeeps
  <2>2. ASSUME NEW t \in Threads, InsertPublish(t) PROVE IInv'
    BY <2>2, InsertPublishKeeps
  <2>3. ASSUME NEW t \in Threads, TakenAdd(t) PROVE IInv'
    BY <2>3, TakenAddKeeps
  <2>4. ASSUME NEW t \in Threads, Teardown(t) PROVE IInv'
    BY <2>4, TeardownKeeps
  <2>5. ASSUME NEW t \in Threads, NEW n \in 0 .. MaxLive, TakeLeaves(t, n) PROVE IInv'
    BY <2>5, TakeLeavesKeeps
  <2>6. QED
    BY <1>2, <2>1, <2>2, <2>3, <2>4, <2>5, BeginSumKeeps, LoadStripeKeeps, EndSumKeeps DEF Next
<1>3. QED
  BY <1>1, <1>2

-----------------------------------------------------------------------------
(* What follows *)

LEMMA Represented ==
  ASSUME IInv
  PROVE  /\ Total \in Word
         /\ \A T \in during.totals : T \in Word
         /\ sum.pc # "off" =>
              \A T \in during.first - during.down .. during.first + during.up : T \in Word
<1> DEFINE h == Half
<1>1. h \in Nat /\ MaxLive \in Nat /\ MaxDuring \in Nat /\ MaxLive + MaxDuring < h
  BY StripeAssumption
<1>2. Word = -h .. h - 1
  BY DEF Word
<1>3. Total \in 0 .. MaxLive /\ during.totals \in SUBSET (0 .. MaxLive)
      /\ during.first \in 0 .. MaxLive /\ during.up \in Nat /\ during.down \in Nat
  BY DEF IInv, TypeOK, CountOK
<1> HIDE DEF h
<1>4. ASSUME sum.pc # "off",
             NEW T \in during.first - during.down .. during.first + during.up
      PROVE  T \in Word
  <2>1. during.up <= MaxDuring /\ during.down <= MaxDuring + MaxLive
    BY <1>4 DEF IInv, LenOK, WithinOK
  <2>2. QED
    BY <1>1, <1>2, <1>3, <2>1
<1>5. QED
  BY <1>1, <1>2, <1>3, <1>4

LEMMA AddUpFollows ==
  ASSUME IInv
  PROVE  StripesAddUp
<1> DEFINE s == SumFunctionOnSet(stripes, Stripes)
<1>1. s \in Int
  <2>1. \A i \in Stripes : stripes[i] \in Int
    BY HalfFacts DEF IInv, TypeOK, Word
  <2>2. QED
    BY <2>1, FiniteHere, SumInt
<1>2. Same(s, Total) /\ Total \in Word
  BY Represented DEF IInv, CountOK
<1> HIDE DEF s
<1>3. Wrap(s) \in Word /\ Same(Wrap(s), s)
  BY <1>1, WrapSame
<1>4. Wrap(s) = Total
  BY <1>2, <1>3, SameTrans, SameWords
<1>5. QED
  BY <1>4 DEF StripesAddUp, s

\* At its end len() has read everything: what was coming is what it has.
LEMMA DoneMeans ==
  ASSUME IInv, sum.pc = "done", NEW T \in Word, Same(Coming, T)
  PROVE  sum.acc = T
<1>1. sum.at = STRIPES /\ sum.acc \in Word
  BY DEF IInv, LenOK, TypeOK
<1>2. Unread = {}
  BY <1>1, StripeAssumption DEF Unread
<1>3. SumFunctionOnSet(stripes, Unread) = 0
  BY <1>2, FS_EmptySet, SumStep
<1>4. Coming = sum.acc
  BY <1>1, <1>3, HalfFacts DEF Coming, Word
<1>5. QED
  BY <1>1, <1>4, SameWords

LEMMA HonestFollows ==
  ASSUME IInv
  PROVE  LenHonest
<1>1. SUFFICES ASSUME sum.pc = "done" PROVE LenHonest
  BY DEF LenHonest, LenExact, LenWithin, LenOneWriter
<1>2. sum.pc # "off" /\ sum.acc \in Int /\ WithinOK /\ ExactOK /\ OneWriterOK
      /\ Total \in during.totals /\ Total \in 0 .. MaxLive
  BY <1>1, UnreadFacts DEF IInv, LenOK, CountOK
<1>3. Total \in Word /\ \A T \in during.totals : T \in Word
  BY Represented
<1>4. during.first \in Nat /\ during.up \in Nat /\ during.down \in Nat
      /\ during.by \in SUBSET Threads /\ during.totals \in SUBSET Nat
  BY StripeAssumption DEF IInv, TypeOK
<1>5. LenExact
  <2>1. SUFFICES ASSUME during.by = {}, Quiet PROVE Len(sum.acc) = live
    BY DEF LenExact
  <2>2. sum.acc = Total
    BY <1>1, <1>2, <1>3, <2>1, DoneMeans DEF ExactOK
  <2>3. SumFunctionOnSet(Pending, Threads) = 0
    <3>1. \A t \in Threads : Pending[t] = 0
      BY <2>1 DEF Quiet, Pending, NoCall
    <3>2. QED
      BY <3>1, FiniteHere, SumZero
  <2>4. Total = live
    BY <2>3 DEF Total, IInv, TypeOK
  <2>5. QED
    BY <1>2, <2>2, <2>4 DEF Len
<1>6. LenWithin
  <2>1. PICK T \in during.first - during.down .. during.first + during.up : Same(Coming, T)
    BY <1>2 DEF WithinOK
  <2>2. T \in Word
    BY <1>2, Represented
  <2>3. sum.acc = T
    BY <1>1, <2>1, <2>2, DoneMeans
  <2>4. QED
    BY <1>2, <1>4, <2>1, <2>3 DEF LenWithin, Len
<1>7. LenOneWriter
  <2>1. SUFFICES ASSUME Cardinality(during.by) <= 1 PROVE Len(sum.acc) \in during.totals
    BY DEF LenOneWriter
  <2>2. during.by = {} \/ \E t \in Threads : during.by = {t}
    <3>1. IsFiniteSet(during.by) /\ Cardinality(during.by) \in Nat
      BY <1>4, FiniteHere, FS_Subset, FS_CardinalityType
    <3>2. Cardinality(during.by) = 0 \/ Cardinality(during.by) = 1
      BY <2>1, <3>1
    <3>3. during.by = {} \/ \E t : during.by = {t}
      BY <3>1, <3>2, FS_EmptySet, FS_Singleton
    <3>4. QED
      BY <1>4, <3>3
  <2>3. \E T \in during.totals : Same(Coming, T)
    BY <1>2, <2>2 DEF ExactOK, OneWriterOK
  <2>4. PICK T \in during.totals : Same(Coming, T)
    BY <2>3
  <2>5. sum.acc = T
    BY <1>1, <1>3, <2>4, DoneMeans
  <2>6. QED
    BY <1>4, <2>4, <2>5 DEF Len
<1>8. QED
  BY <1>5, <1>6, <1>7 DEF LenHonest

\* The invariant holds in every state of the counter.
THEOREM Invariance == Spec => []IInv
BY InitOK, NextKeeps, PTL DEF Spec

\* The stripes add up to what has been counted, modulo the width of a word, for
\* any number of threads and stripes: whichever stripe a thread was given,
\* however far a stripe went below zero or wrapped, and through the end of a
\* thread (Counter::add, stripe()).
THEOREM StripesAddUpCorrect == Spec => []StripesAddUp
BY Invariance, AddUpFollows, PTL

\* len(), which loads one stripe after another while others change them, is
\* exact when alone, within the updates that overlapped it otherwise, and with
\* one writer a count of some moment of the call (Counter::sum, len()).
THEOREM LenHonestCorrect == Spec => []LenHonest
BY Invariance, HonestFollows, PTL

=============================================================================
