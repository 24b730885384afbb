-------------------------- MODULE NodeLayoutProofs --------------------------
(***************************************************************************)
(* Proofs about NodeLayout, for any capacities, any number of key bytes    *)
(* and any number of writes: an unlocked node is sound in each of the four *)
(* layouts, a validated search is exact, a search never returns a child    *)
(* that left the node before it began, and the layouts implement NodeMap.  *)
(***************************************************************************)
EXTENDS NodeLayout, OrderLemmas, FiniteSetTheorems, SequenceTheorems

-----------------------------------------------------------------------------
(* Stores and pushes, one after another *)

\* Step i of ApplyAll, and of PushAll.
StepOf(kind, nd, arg, i) == IF kind = "stores" THEN Apply(nd, arg[i]) ELSE Push(nd, i - 1, arg)
Iterates(f, kind, nd, arg, n) ==
  f = [i \in 0 .. n |-> IF i = 0 THEN nd ELSE StepOf(kind, f[i - 1], arg, i)]

LEMMA ApplyAllIsChosen ==
  ASSUME NEW nd, NEW stores
  PROVE  ApplyAll(nd, stores) = (CHOOSE f : Iterates(f, "stores", nd, stores, Len(stores)))[Len(stores)]
BY Zenon DEF ApplyAll, Iterates, StepOf

LEMMA PushAllIsChosen ==
  ASSUME NEW nd, NEW map
  PROVE  PushAll(nd, map) = (CHOOSE f : Iterates(f, "pushes", nd, map, TopByte + 1))[TopByte + 1]
<1>1. "pushes" # "stores"
  OBVIOUS
<1>2. QED
  BY <1>1, Zenon DEF PushAll, Iterates, StepOf

\* One more step.
LEMMA IteratesNext ==
  ASSUME NEW kind, NEW nd, NEW arg, NEW n \in Nat, NEW f, Iterates(f, kind, nd, arg, n)
  PROVE  \E g : Iterates(g, kind, nd, arg, n + 1)
<1> DEFINE Val(h, i) == IF i = 0 THEN nd ELSE StepOf(kind, h[i - 1], arg, i)
           g == [i \in 0 .. n + 1 |-> Val(f, i)]
<1>1. ASSUME NEW i \in 0 .. n PROVE f[i] = Val(f, i)
  BY DEF Iterates
<1>2. ASSUME NEW i \in 0 .. n PROVE g[i] = f[i]
  <2>1. i \in 0 .. n + 1
    OBVIOUS
  <2>2. g[i] = Val(f, i)
    BY <2>1
  <2>3. QED
    BY <1>1, <2>2
<1>3. ASSUME NEW i \in 0 .. n + 1 PROVE Val(f, i) = Val(g, i)
  <2>1. CASE i = 0
    BY <2>1
  <2>2. CASE i # 0
    <3>1. i - 1 \in 0 .. n
      BY <2>2
    <3>2. g[i - 1] = f[i - 1]
      BY <1>2, <3>1
    <3> HIDE DEF g
    <3>3. QED
      BY <2>2, <3>2
  <2>3. QED
    BY <2>1, <2>2
<1>4. g = [i \in 0 .. n + 1 |-> Val(g, i)]
  <2>1. g = [i \in 0 .. n + 1 |-> g[i]]
    OBVIOUS
  <2>2. \A i \in 0 .. n + 1 : g[i] = Val(g, i)
    <3>1. ASSUME NEW i \in 0 .. n + 1 PROVE g[i] = Val(g, i)
      <4>1. g[i] = Val(f, i)
        OBVIOUS
      <4>2. QED
        BY <4>1, <1>3
    <3>2. QED
      BY <3>1
  <2> HIDE DEF g
  <2>3. QED
    BY <2>1, <2>2
<1>5. Iterates(g, kind, nd, arg, n + 1)
  <2> HIDE DEF g
  <2>1. QED
    BY <1>4, Zenon DEF Iterates
<1>6. QED
  BY <1>5

LEMMA IteratesExists ==
  ASSUME NEW kind, NEW nd, NEW arg, NEW n \in Nat
  PROVE  \E f : Iterates(f, kind, nd, arg, n)
<1> DEFINE Bad == {k \in Nat : ~ \E f : Iterates(f, kind, nd, arg, k)}
<1>1. SUFFICES ASSUME Bad # {} PROVE FALSE
  OBVIOUS
<1>2. PICK m \in Bad : \A k \in Bad : m <= k
  <2>1. Bad \in SUBSET Nat
    OBVIOUS
  <2> HIDE DEF Bad
  <2>2. QED
    BY <1>1, <2>1, LeastNatural
<1>3. m \in Nat /\ ~ \E f : Iterates(f, kind, nd, arg, m)
  OBVIOUS
<1>4. CASE m = 0
  <2> DEFINE g == [i \in 0 .. 0 |-> nd]
  <2>1. g = [i \in 0 .. 0 |-> IF i = 0 THEN nd ELSE StepOf(kind, g[i - 1], arg, i)]
    <3>1. \A i \in 0 .. 0 : i = 0
      OBVIOUS
    <3>2. QED
      BY <3>1
  <2>2. Iterates(g, kind, nd, arg, 0)
    <3> HIDE DEF g
    <3>1. QED
      BY <2>1, Zenon DEF Iterates
  <2>3. QED
    BY <1>3, <1>4, <2>2
<1>5. CASE m # 0
  <2>1. m - 1 \in Nat /\ m - 1 < m /\ (m - 1) + 1 = m
    BY <1>3, <1>5
  <2>2. m - 1 \notin Bad
    <3> HIDE DEF Bad
    <3>1. QED
      BY <1>2, <1>3, <2>1
  <2>3. PICK f : Iterates(f, kind, nd, arg, m - 1)
    BY <2>1, <2>2
  <2>4. \E g : Iterates(g, kind, nd, arg, (m - 1) + 1)
    BY <2>1, <2>3, IteratesNext
  <2>5. QED
    BY <1>3, <2>1, <2>4
<1>6. QED
  BY <1>4, <1>5

\* A run of the steps, as a function.
Runs(f, kind, nd, arg, n) ==
  /\ f[0] = nd
  /\ \A i \in 1 .. n : f[i] = StepOf(kind, f[i - 1], arg, i)

\* Two runs of the same steps agree.
LEMMA IteratesAgree ==
  ASSUME NEW kind, NEW nd, NEW arg, NEW n \in Nat, NEW f, NEW g,
         Runs(f, kind, nd, arg, n), Runs(g, kind, nd, arg, n)
  PROVE  f[n] = g[n]
<1> DEFINE Bad == {k \in 0 .. n : f[k] # g[k]}
<1>1. SUFFICES ASSUME Bad # {} PROVE FALSE
  OBVIOUS
<1>2. PICK m \in Bad : \A k \in Bad : m <= k
  <2>1. Bad \in SUBSET Nat
    OBVIOUS
  <2> HIDE DEF Bad
  <2>2. QED
    BY <1>1, <2>1, LeastNatural
<1>3. m \in 0 .. n /\ f[m] # g[m]
  OBVIOUS
<1>4. m # 0
  BY <1>3 DEF Runs
<1>5. m - 1 \in 0 .. n /\ m \in 1 .. n /\ m - 1 < m
  BY <1>3, <1>4
<1>6. m - 1 \notin Bad
  <2> HIDE DEF Bad
  <2>1. QED
    BY <1>2, <1>5
<1>7. f[m - 1] = g[m - 1]
  BY <1>5, <1>6
<1>8. QED
  BY <1>3, <1>5, <1>7 DEF Runs

LEMMA IteratesRuns ==
  ASSUME NEW kind, NEW nd, NEW arg, NEW n \in Nat
  PROVE  Runs(CHOOSE f : Iterates(f, kind, nd, arg, n), kind, nd, arg, n)
<1> DEFINE g == CHOOSE f : Iterates(f, kind, nd, arg, n)
<1>1. Iterates(g, kind, nd, arg, n)
  BY IteratesExists
<1> HIDE DEF g
<1>2. ASSUME NEW i \in 0 .. n PROVE g[i] = IF i = 0 THEN nd ELSE StepOf(kind, g[i - 1], arg, i)
  BY <1>1 DEF Iterates
<1>3. g[0] = nd
  BY <1>2
<1>4. ASSUME NEW i \in 1 .. n PROVE g[i] = StepOf(kind, g[i - 1], arg, i)
  <2>1. i \in 0 .. n /\ i # 0
    OBVIOUS
  <2>2. QED
    BY <1>2, <2>1
<1>5. Runs(g, kind, nd, arg, n)
  BY <1>3, <1>4 DEF Runs
<1>6. QED
  BY <1>5 DEF g

LEMMA RunEnds ==
  ASSUME NEW kind, NEW nd, NEW arg, NEW n \in Nat, NEW f, Runs(f, kind, nd, arg, n)
  PROVE  f[n] = (CHOOSE g : Iterates(g, kind, nd, arg, n))[n]
<1> DEFINE g == CHOOSE h : Iterates(h, kind, nd, arg, n)
<1>1. Runs(g, kind, nd, arg, n)
  BY IteratesRuns
<1> HIDE DEF g
<1>2. f[n] = g[n]
  BY <1>1, IteratesAgree
<1>3. QED
  BY <1>2 DEF g

\* What a run of the stores ends with is what ApplyAll returns.
LEMMA RunIsApplyAll ==
  ASSUME NEW nd, NEW stores, NEW f, Len(stores) \in Nat, Runs(f, "stores", nd, stores, Len(stores))
  PROVE  ApplyAll(nd, stores) = f[Len(stores)]
<1>1. f[Len(stores)] = (CHOOSE g : Iterates(g, "stores", nd, stores, Len(stores)))[Len(stores)]
  BY RunEnds
<1>2. QED
  BY <1>1, ApplyAllIsChosen, Zenon

LEMMA ApplyAllRun ==
  ASSUME NEW nd, NEW stores, NEW f, Len(stores) \in Nat, f[0] = nd,
         \A i \in 1 .. Len(stores) : f[i] = Apply(f[i - 1], stores[i])
  PROVE  ApplyAll(nd, stores) = f[Len(stores)]
<1>1. Runs(f, "stores", nd, stores, Len(stores))
  BY DEF Runs, StepOf
<1>2. QED
  BY <1>1, RunIsApplyAll

\* ApplyAll is such a run.
LEMMA ApplyAllHasRun ==
  ASSUME NEW nd, NEW stores, Len(stores) \in Nat
  PROVE  \E f : /\ f[0] = nd /\ ApplyAll(nd, stores) = f[Len(stores)]
                /\ \A i \in 1 .. Len(stores) : f[i] = Apply(f[i - 1], stores[i])
<1> DEFINE f == CHOOSE g : Iterates(g, "stores", nd, stores, Len(stores))
<1>1. Runs(f, "stores", nd, stores, Len(stores))
  BY IteratesRuns
<1>2. ApplyAll(nd, stores) = f[Len(stores)]
  BY ApplyAllIsChosen
<1> HIDE DEF f
<1>3. QED
  BY <1>1, <1>2 DEF Runs, StepOf

\* PushAll is a run of the pushes.
LEMMA PushAllHasRun ==
  ASSUME NEW nd, NEW map, TopByte + 1 \in Nat
  PROVE  \E f : /\ f[0] = nd /\ PushAll(nd, map) = f[TopByte + 1]
                /\ \A i \in 1 .. TopByte + 1 : f[i] = Push(f[i - 1], i - 1, map)
<1> DEFINE f == CHOOSE g : Iterates(g, "pushes", nd, map, TopByte + 1)
<1>1. Runs(f, "pushes", nd, map, TopByte + 1)
  BY IteratesRuns
<1>2. PushAll(nd, map) = f[TopByte + 1]
  BY PushAllIsChosen
<1> HIDE DEF f
<1>3. QED
  BY <1>1, <1>2 DEF Runs, StepOf


\* Stores in two parts.
LEMMA ApplyAllConcat ==
  ASSUME NEW nd, NEW S, NEW s \in Seq(S), NEW t \in Seq(S)
  PROVE  ApplyAll(nd, s \o t) = ApplyAll(ApplyAll(nd, s), t)
<1>1. Len(s) \in Nat /\ Len(t) \in Nat
  BY LenProperties
<1>2. PICK f : /\ f[0] = nd /\ ApplyAll(nd, s) = f[Len(s)]
               /\ \A i \in 1 .. Len(s) : f[i] = Apply(f[i - 1], s[i])
  BY <1>1, ApplyAllHasRun
<1>3. PICK g : /\ g[0] = ApplyAll(nd, s) /\ ApplyAll(ApplyAll(nd, s), t) = g[Len(t)]
               /\ \A i \in 1 .. Len(t) : g[i] = Apply(g[i - 1], t[i])
  BY <1>1, ApplyAllHasRun
<1> DEFINE m == Len(s)
           n == Len(t)
           h == [i \in 0 .. m + n |-> IF i <= m THEN f[i] ELSE g[i - m]]
<1>4. /\ Len(s \o t) = m + n
      /\ \A i \in 1 .. m + n : (s \o t)[i] = IF i <= m THEN s[i] ELSE t[i - m]
  BY ConcatProperties
<1>5. h[0] = nd
  BY <1>1, <1>2
<1>6. ASSUME NEW i \in 1 .. m + n PROVE h[i] = Apply(h[i - 1], (s \o t)[i])
  <2>1. CASE i <= m
    <3>1. i \in 0 .. m + n /\ i - 1 \in 0 .. m + n /\ i \in 1 .. m /\ i - 1 <= m
      BY <1>1, <2>1
    <3>2. h[i] = f[i] /\ h[i - 1] = f[i - 1]
      BY <3>1, <2>1
    <3> HIDE DEF h
    <3>3. QED
      BY <1>2, <1>4, <2>1, <3>1, <3>2
  <2>2. CASE i = m + 1
    <3>1. i \in 0 .. m + n /\ i - 1 = m /\ m \in 0 .. m + n /\ ~(i <= m) /\ i - m = 1 /\ 1 \in 1 .. n
      BY <1>1, <2>2
    <3>2. h[i] = g[1] /\ h[i - 1] = f[m]
      BY <1>1, <3>1
    <3>3. (s \o t)[i] = t[1]
      BY <1>4, <3>1
    <3>4. g[1] = Apply(g[1 - 1], t[1])
      BY <1>3, <3>1
    <3> HIDE DEF h
    <3>5. QED
      BY <1>2, <1>3, <3>2, <3>3, <3>4
  <2>3. CASE i > m + 1
    <3> DEFINE k == i - m
    <3>1. /\ i \in 0 .. m + n /\ i - 1 \in 0 .. m + n /\ ~(i <= m) /\ ~(i - 1 <= m)
          /\ k \in 1 .. n /\ (i - 1) - m = k - 1
      BY <1>1, <2>3
    <3>2. h[i] = g[k] /\ h[i - 1] = g[k - 1]
      BY <3>1
    <3>3. (s \o t)[i] = t[k]
      BY <1>4, <3>1
    <3> HIDE DEF h, k
    <3>4. QED
      BY <1>3, <3>1, <3>2, <3>3
  <2>4. QED
    BY <1>1, <2>1, <2>2, <2>3
<1>7. h[m + n] = ApplyAll(ApplyAll(nd, s), t)
  <2>1. CASE n = 0
    BY <1>1, <1>2, <1>3, <2>1
  <2>2. CASE n # 0
    <3>1. m + n \in 0 .. m + n /\ ~(m + n <= m) /\ (m + n) - m = n
      BY <1>1, <2>2
    <3>2. QED
      BY <1>3, <3>1
  <2>3. QED
    BY <2>1, <2>2
<1>8. ApplyAll(nd, s \o t) = h[Len(s \o t)]
  <2> DEFINE q == s \o t
  <2>1. Len(q) \in Nat /\ Len(q) = m + n
    BY <1>1, <1>4
  <2>2. \A i \in 1 .. Len(q) : h[i] = Apply(h[i - 1], q[i])
    BY <1>6, <2>1
  <2> HIDE DEF h, q, m, n
  <2>3. ApplyAll(nd, q) = h[Len(q)]
    BY <1>5, <2>1, <2>2, ApplyAllRun
  <2>4. QED
    BY <2>3 DEF q
<1>9. QED
  BY <1>4, <1>7, <1>8

LEMMA ApplyAllNone ==
  ASSUME NEW nd
  PROVE  ApplyAll(nd, <<>>) = nd
<1> DEFINE f == [i \in 0 .. 0 |-> nd]
<1>1. f[0] = nd
  OBVIOUS
<1> HIDE DEF f
<1>2. Len(<<>>) = 0
  BY EmptySeq
<1>3. \A i \in 1 .. Len(<<>>) : f[i] = Apply(f[i - 1], (<<>>)[i])
  BY <1>2
<1>4. QED
  BY <1>1, <1>2, <1>3, ApplyAllRun

LEMMA ApplyAllOne ==
  ASSUME NEW nd, NEW s
  PROVE  ApplyAll(nd, <<s>>) = Apply(nd, s)
<1> DEFINE f == [i \in 0 .. 1 |-> IF i = 0 THEN nd ELSE Apply(nd, s)]
           q == <<s>>
<1>1. f[0] = nd /\ f[1] = Apply(nd, s)
  OBVIOUS
<1> HIDE DEF f
<1>2. Len(q) = 1 /\ q[1] = s
  OBVIOUS
<1> HIDE DEF q
<1>3. \A i \in 1 .. Len(q) : f[i] = Apply(f[i - 1], q[i])
  <2>1. ASSUME NEW i \in 1 .. Len(q) PROVE f[i] = Apply(f[i - 1], q[i])
    <3>1. i = 1 /\ i - 1 = 0
      BY <1>2
    <3>2. QED
      BY <1>1, <1>2, <3>1
  <2>2. QED
    BY <2>1
<1>4. Len(q) \in Nat
  BY <1>2
<1>5. ApplyAll(nd, q) = f[Len(q)]
  BY <1>1, <1>3, <1>4, ApplyAllRun, Zenon
<1>6. QED
  BY <1>1, <1>2, <1>5 DEF q

\* The first store, and then the others.
LEMMA ApplyAllFirst ==
  ASSUME NEW nd, NEW S, NEW s \in Seq(S), s # <<>>
  PROVE  ApplyAll(nd, s) = ApplyAll(Apply(nd, Head(s)), Tail(s))
<1>1. /\ Head(s) \in S /\ Tail(s) \in Seq(S) /\ Len(Tail(s)) = Len(s) - 1
      /\ \A i \in 1 .. Len(Tail(s)) : Tail(s)[i] = s[i + 1]
  BY HeadTailProperties
<1>2. Len(s) \in Nat /\ Len(Tail(s)) \in Nat
  BY <1>1, LenProperties
<1>3. PICK f : /\ f[0] = nd /\ ApplyAll(nd, s) = f[Len(s)]
               /\ \A i \in 1 .. Len(s) : f[i] = Apply(f[i - 1], s[i])
  BY <1>2, ApplyAllHasRun
<1> DEFINE n == Len(Tail(s))
           g == [i \in 0 .. n |-> f[i + 1]]
<1>4. Head(s) = s[1]
  OBVIOUS
<1>5. g[0] = Apply(nd, Head(s))
  <2>1. g[0] = f[1] /\ 1 \in 1 .. Len(s)
    BY <1>1, <1>2
  <2>2. f[1] = Apply(f[1 - 1], s[1])
    BY <1>3, <2>1
  <2> HIDE DEF g
  <2>3. QED
    BY <1>3, <1>4, <2>1, <2>2
<1>6. ASSUME NEW i \in 1 .. n PROVE g[i] = Apply(g[i - 1], Tail(s)[i])
  <2>1. i \in 0 .. n /\ i - 1 \in 0 .. n /\ (i - 1) + 1 = i /\ i + 1 \in 1 .. Len(s) /\ (i + 1) - 1 = i
    BY <1>1, <1>2
  <2>2. g[i] = f[i + 1] /\ g[i - 1] = f[i]
    BY <2>1
  <2>3. f[i + 1] = Apply(f[i], s[i + 1])
    BY <1>3, <2>1
  <2> HIDE DEF g
  <2>4. QED
    BY <1>1, <2>2, <2>3
<1>7. g[n] = f[Len(s)]
  BY <1>1, <1>2
<1> HIDE DEF g
<1>8. ApplyAll(Apply(nd, Head(s)), Tail(s)) = g[n]
  BY <1>2, <1>5, <1>6, ApplyAllRun
<1>9. QED
  BY <1>3, <1>7, <1>8


-----------------------------------------------------------------------------
(* The fields of a node *)

Ptrs == 0 .. MaxWrites + 1 + TopByte

NodeOf(l) ==
  [layout : {l}, count : 0 .. Cap[l], prefixLen : 0 .. MaxPrefix,
   prefix : [1 .. MaxPrefix -> Bytes], exact : Ptrs,
   keys : [Slots(l) -> Bytes], children : [Slots(l) -> Ptrs],
   index : [Bytes -> 0 .. Empty], bitmap : [Bytes -> BOOLEAN]]

\* The stores that a write of a node makes, of children from V.
StoresOf(l, V) ==
  {St("keys", at, v) : at \in SUBSET Slots(l), v \in [Slots(l) -> Bytes]}
  \cup {St("prefix", at, v) : at \in SUBSET (1 .. MaxPrefix), v \in [1 .. MaxPrefix -> Bytes]}
  \cup {St("children", at, v) : at \in SUBSET Slots(l), v \in V}
  \cup {St("index", at, v) : at \in SUBSET Bytes, v \in 0 .. Empty}
  \cup {St("bitmap", at, v) : at \in SUBSET Bytes, v \in BOOLEAN}
  \cup {St("count", {}, v) : v \in 0 .. Cap[l]}
  \cup {St("prefixLen", {}, v) : v \in 0 .. MaxPrefix}
  \cup {St("exact", {}, v) : v \in Ptrs}

\* The node with other children and keys, and with another prefix or exact leaf.
Body(nd, c, k, ch, ix, bm) ==
  [nd EXCEPT !.count = c, !.keys = k, !.children = ch, !.index = ix, !.bitmap = bm]
Header(nd, n, p, e) == [nd EXCEPT !.prefixLen = n, !.prefix = p, !.exact = e]

LEMMA ConstantsOK ==
  /\ TopByte \in Nat /\ MaxPrefix \in Nat /\ MaxWrites \in Nat
  /\ \A l \in Layouts : Cap[l] \in Nat /\ Cap[l] >= 1
  /\ Empty \in Nat /\ Empty = Cap["Node48"] /\ 0 \in Ptrs /\ Null = 0 /\ 0 \in Bytes
BY LayoutAssumption DEF Layouts, Empty, Ptrs, Null, Bytes

LEMMA BodySelf ==
  ASSUME NEW l, NEW nd \in NodeOf(l)
  PROVE  nd = Body(nd, nd.count, nd.keys, nd.children, nd.index, nd.bitmap)
BY DEF NodeOf, Body

LEMMA HeaderSelf ==
  ASSUME NEW l, NEW nd \in NodeOf(l)
  PROVE  nd = Header(nd, nd.prefixLen, nd.prefix, nd.exact)
BY DEF NodeOf, Header

LEMMA BodyFields ==
  ASSUME NEW l, NEW nd \in NodeOf(l), NEW c, NEW k, NEW ch, NEW ix, NEW bm
  PROVE  LET g == Body(nd, c, k, ch, ix, bm)
         IN  /\ g.layout = l /\ g.count = c /\ g.keys = k /\ g.children = ch
             /\ g.index = ix /\ g.bitmap = bm
             /\ g.prefixLen = nd.prefixLen /\ g.prefix = nd.prefix /\ g.exact = nd.exact
BY DEF NodeOf, Body

LEMMA HeaderFields ==
  ASSUME NEW l, NEW nd \in NodeOf(l), NEW n, NEW p, NEW e
  PROVE  LET g == Header(nd, n, p, e)
         IN  /\ g.layout = l /\ g.count = nd.count /\ g.keys = nd.keys /\ g.children = nd.children
             /\ g.index = nd.index /\ g.bitmap = nd.bitmap
             /\ g.prefixLen = n /\ g.prefix = p /\ g.exact = e
BY DEF NodeOf, Header

LEMMA BodyType ==
  ASSUME NEW l, NEW nd \in NodeOf(l), NEW c \in 0 .. Cap[l], NEW k \in [Slots(l) -> Bytes],
         NEW ch \in [Slots(l) -> Ptrs], NEW ix \in [Bytes -> 0 .. Empty],
         NEW bm \in [Bytes -> BOOLEAN]
  PROVE  Body(nd, c, k, ch, ix, bm) \in NodeOf(l)
BY DEF NodeOf, Body

LEMMA HeaderType ==
  ASSUME NEW l, NEW nd \in NodeOf(l), NEW n \in 0 .. MaxPrefix,
         NEW p \in [1 .. MaxPrefix -> Bytes], NEW e \in Ptrs
  PROVE  Header(nd, n, p, e) \in NodeOf(l)
BY DEF NodeOf, Header

\* One store into a node given by its fields.
LEMMA BodyApply ==
  ASSUME NEW l, NEW nd \in NodeOf(l), NEW c, NEW k, NEW ch, NEW ix, NEW bm, NEW at, NEW v
  PROVE  LET g == Body(nd, c, k, ch, ix, bm)
         IN  /\ Apply(g, St("keys", at, v)) = Body(nd, c, Word(k, St("keys", at, v)), ch, ix, bm)
             /\ Apply(g, St("children", at, v)) = Body(nd, c, k, Slot(ch, St("children", at, v)), ix, bm)
             /\ Apply(g, St("index", at, v)) = Body(nd, c, k, ch, Slot(ix, St("index", at, v)), bm)
             /\ Apply(g, St("bitmap", at, v)) = Body(nd, c, k, ch, ix, Slot(bm, St("bitmap", at, v)))
             /\ Apply(g, St("count", at, v)) = Body(nd, v, k, ch, ix, bm)
<1> DEFINE g == Body(nd, c, k, ch, ix, bm)
<1>1. Apply(g, St("keys", at, v)) = Body(nd, c, Word(k, St("keys", at, v)), ch, ix, bm)
  BY DEF NodeOf, Body, Apply, St
<1>2. Apply(g, St("children", at, v)) = Body(nd, c, k, Slot(ch, St("children", at, v)), ix, bm)
  BY DEF NodeOf, Body, Apply, St
<1>3. Apply(g, St("index", at, v)) = Body(nd, c, k, ch, Slot(ix, St("index", at, v)), bm)
  BY ZenonT(40) DEF NodeOf, Body, Apply, St
<1>4. Apply(g, St("bitmap", at, v)) = Body(nd, c, k, ch, ix, Slot(bm, St("bitmap", at, v)))
  BY DEF NodeOf, Body, Apply, St
<1>5. Apply(g, St("count", at, v)) = Body(nd, v, k, ch, ix, bm)
  BY ZenonT(40) DEF NodeOf, Body, Apply, St
<1>6. QED
  BY <1>1, <1>2, <1>3, <1>4, <1>5

LEMMA HeaderApply ==
  ASSUME NEW l, NEW nd \in NodeOf(l), NEW n, NEW p, NEW e, NEW at, NEW v
  PROVE  LET g == Header(nd, n, p, e)
         IN  /\ Apply(g, St("prefix", at, v)) = Header(nd, n, Word(p, St("prefix", at, v)), e)
             /\ Apply(g, St("prefixLen", at, v)) = Header(nd, v, p, e)
             /\ Apply(g, St("exact", at, v)) = Header(nd, n, p, v)
<1> DEFINE g == Header(nd, n, p, e)
<1>1. Apply(g, St("prefix", at, v)) = Header(nd, n, Word(p, St("prefix", at, v)), e)
  BY DEF NodeOf, Header, Apply, St
<1>2. Apply(g, St("prefixLen", at, v)) = Header(nd, v, p, e)
  BY DEF NodeOf, Header, Apply, St
<1>3. Apply(g, St("exact", at, v)) = Header(nd, n, p, v)
  BY DEF NodeOf, Header, Apply, St
<1>4. QED
  BY <1>1, <1>2, <1>3

LEMMA WordAt ==
  ASSUME NEW D, NEW f \in [D -> Bytes], NEW at, NEW v \in [D -> Bytes], NEW field
  PROVE  /\ Word(f, St(field, at, v)) \in [D -> Bytes]
         /\ \A i \in D : Word(f, St(field, at, v))[i] = IF i \in at THEN v[i] ELSE f[i]
BY DEF Word, St

LEMMA SlotIs ==
  ASSUME NEW f, NEW D, DOMAIN f = D, NEW field, NEW at, NEW v
  PROVE  Slot(f, St(field, at, v)) = [i \in D |-> IF i \in at THEN v ELSE f[i]]
BY DEF Slot, St

LEMMA SlotAt ==
  ASSUME NEW D, NEW R, NEW f \in [D -> R], NEW at, NEW v \in R, NEW field
  PROVE  /\ Slot(f, St(field, at, v)) \in [D -> R]
         /\ \A i \in D : Slot(f, St(field, at, v))[i] = IF i \in at THEN v ELSE f[i]
BY DEF Slot, St


LEMMA StTyped ==
  ASSUME NEW l, NEW V
  PROVE  /\ \A at \in SUBSET Slots(l), v \in [Slots(l) -> Bytes] : St("keys", at, v) \in StoresOf(l, V)
         /\ \A at \in SUBSET (1 .. MaxPrefix), v \in [1 .. MaxPrefix -> Bytes] :
              St("prefix", at, v) \in StoresOf(l, V)
         /\ \A at \in SUBSET Slots(l), v \in V : St("children", at, v) \in StoresOf(l, V)
         /\ \A at \in SUBSET Bytes, v \in 0 .. Empty : St("index", at, v) \in StoresOf(l, V)
         /\ \A at \in SUBSET Bytes, v \in BOOLEAN : St("bitmap", at, v) \in StoresOf(l, V)
         /\ \A v \in 0 .. Cap[l] : St("count", {}, v) \in StoresOf(l, V)
         /\ \A v \in 0 .. MaxPrefix : St("prefixLen", {}, v) \in StoresOf(l, V)
         /\ \A v \in Ptrs : St("exact", {}, v) \in StoresOf(l, V)
BY DEF StoresOf

\* A store keeps the fields of a node in their ranges.
LEMMA ApplyType ==
  ASSUME NEW l, NEW V \in SUBSET Ptrs, NEW nd \in NodeOf(l), nd.children \in [Slots(l) -> V],
         NEW s \in StoresOf(l, V)
  PROVE  Apply(nd, s) \in NodeOf(l) /\ Apply(nd, s).children \in [Slots(l) -> V]
<1>0. /\ nd.count \in 0 .. Cap[l] /\ nd.keys \in [Slots(l) -> Bytes]
      /\ nd.children \in [Slots(l) -> Ptrs] /\ nd.index \in [Bytes -> 0 .. Empty]
      /\ nd.bitmap \in [Bytes -> BOOLEAN] /\ nd.prefixLen \in 0 .. MaxPrefix
      /\ nd.prefix \in [1 .. MaxPrefix -> Bytes] /\ nd.exact \in Ptrs
  BY DEF NodeOf
<1>a. nd = Body(nd, nd.count, nd.keys, nd.children, nd.index, nd.bitmap)
  BY BodySelf
<1>b. nd = Header(nd, nd.prefixLen, nd.prefix, nd.exact)
  BY HeaderSelf
<1>1. CASE \E at \in SUBSET Slots(l), v \in [Slots(l) -> Bytes] : s = St("keys", at, v)
  <2>1. PICK at \in SUBSET Slots(l), v \in [Slots(l) -> Bytes] : s = St("keys", at, v)
    BY <1>1
  <2>2. Apply(nd, s) = Body(nd, nd.count, Word(nd.keys, s), nd.children, nd.index, nd.bitmap)
    BY <1>a, <2>1, BodyApply
  <2>3. Word(nd.keys, s) \in [Slots(l) -> Bytes]
    BY <1>0, <2>1 DEF Word, St
  <2>4. QED
    BY <1>0, <2>2, <2>3 DEF Body, NodeOf
<1>2. CASE \E at \in SUBSET (1 .. MaxPrefix), v \in [1 .. MaxPrefix -> Bytes] : s = St("prefix", at, v)
  <2>1. PICK at \in SUBSET (1 .. MaxPrefix), v \in [1 .. MaxPrefix -> Bytes] : s = St("prefix", at, v)
    BY <1>2
  <2>2. Apply(nd, s) = Header(nd, nd.prefixLen, Word(nd.prefix, s), nd.exact)
    BY <1>b, <2>1, HeaderApply
  <2>3. Word(nd.prefix, s) \in [1 .. MaxPrefix -> Bytes]
    BY <1>0, <2>1 DEF Word, St
  <2>4. QED
    BY <1>0, <2>2, <2>3 DEF Header, NodeOf
<1>3. CASE \E at \in SUBSET Slots(l), v \in V : s = St("children", at, v)
  <2>1. PICK at \in SUBSET Slots(l), v \in V : s = St("children", at, v)
    BY <1>3
  <2>2. Apply(nd, s) = Body(nd, nd.count, nd.keys, Slot(nd.children, s), nd.index, nd.bitmap)
    BY <1>a, <2>1, BodyApply
  <2>3. Slot(nd.children, s) \in [Slots(l) -> V] /\ Slot(nd.children, s) \in [Slots(l) -> Ptrs]
    BY <1>0, <2>1 DEF Slot, St
  <2>4. QED
    BY <1>0, <2>2, <2>3 DEF Body, NodeOf
<1>4. CASE \E at \in SUBSET Bytes, v \in 0 .. Empty : s = St("index", at, v)
  <2>1. PICK at \in SUBSET Bytes, v \in 0 .. Empty : s = St("index", at, v)
    BY <1>4
  <2>2. Apply(nd, s) = Body(nd, nd.count, nd.keys, nd.children, Slot(nd.index, s), nd.bitmap)
    BY <1>a, <2>1, BodyApply
  <2>3. Slot(nd.index, s) \in [Bytes -> 0 .. Empty]
    BY <1>0, <2>1 DEF Slot, St
  <2>4. QED
    BY <1>0, <2>2, <2>3 DEF Body, NodeOf
<1>5. CASE \E at \in SUBSET Bytes, v \in BOOLEAN : s = St("bitmap", at, v)
  <2>1. PICK at \in SUBSET Bytes, v \in BOOLEAN : s = St("bitmap", at, v)
    BY <1>5
  <2>2. Apply(nd, s) = Body(nd, nd.count, nd.keys, nd.children, nd.index, Slot(nd.bitmap, s))
    BY <1>a, <2>1, BodyApply
  <2>3. Slot(nd.bitmap, s) \in [Bytes -> BOOLEAN]
    BY <1>0, <2>1 DEF Slot, St
  <2>4. QED
    BY <1>0, <2>2, <2>3 DEF Body, NodeOf
<1>6. CASE \E v \in 0 .. Cap[l] : s = St("count", {}, v)
  <2>1. PICK v \in 0 .. Cap[l] : s = St("count", {}, v)
    BY <1>6
  <2>2. Apply(nd, s) = Body(nd, v, nd.keys, nd.children, nd.index, nd.bitmap)
    BY <1>a, <2>1, BodyApply
  <2>3. QED
    BY <1>0, <2>2 DEF Body, NodeOf
<1>7. CASE \E v \in 0 .. MaxPrefix : s = St("prefixLen", {}, v)
  <2>1. PICK v \in 0 .. MaxPrefix : s = St("prefixLen", {}, v)
    BY <1>7
  <2>2. Apply(nd, s) = Header(nd, v, nd.prefix, nd.exact)
    BY <1>b, <2>1, HeaderApply
  <2>3. QED
    BY <1>0, <2>2 DEF Header, NodeOf
<1>8. CASE \E v \in Ptrs : s = St("exact", {}, v)
  <2>1. PICK v \in Ptrs : s = St("exact", {}, v)
    BY <1>8
  <2>2. Apply(nd, s) = Header(nd, nd.prefixLen, nd.prefix, v)
    BY <1>b, <2>1, HeaderApply
  <2>3. QED
    BY <1>0, <2>2 DEF Header, NodeOf
<1>9. QED
  BY <1>1, <1>2, <1>3, <1>4, <1>5, <1>6, <1>7, <1>8 DEF StoresOf

-----------------------------------------------------------------------------
(* Least and greatest elements *)

LEMMA MinOf ==
  ASSUME NEW S \in SUBSET Nat, S # {}
  PROVE  Min(S) \in S /\ \A y \in S : Min(S) <= y
BY LeastNatural DEF Min

LEMMA MaxOf ==
  ASSUME NEW n \in Nat, NEW S \in SUBSET (0 .. n), S # {}
  PROVE  Max(S) \in S /\ \A y \in S : Max(S) >= y
<1> DEFINE T == {k \in 0 .. n : n - k \in S}
<1>1. T \in SUBSET Nat /\ T # {}
  <2>0. T \in SUBSET Nat
    OBVIOUS
  <2>1. PICK x \in S : TRUE
    OBVIOUS
  <2>2. n - x \in 0 .. n /\ n - (n - x) = x
    OBVIOUS
  <2>3. n - x \in T
    BY <2>2
  <2> HIDE DEF T
  <2>4. QED
    BY <2>0, <2>3
<1>2. PICK m \in T : \A k \in T : m <= k
  <2> HIDE DEF T
  <2>1. QED
    BY <1>1, LeastNatural
<1>3. ASSUME NEW y \in S PROVE n - m >= y
  <2>1. n - y \in 0 .. n /\ n - (n - y) = y
    OBVIOUS
  <2>2. n - y \in T
    BY <2>1
  <2>3. m \in 0 .. n
    OBVIOUS
  <2> HIDE DEF T
  <2>4. m <= n - y
    BY <1>2, <2>2
  <2>5. QED
    BY <2>1, <2>3, <2>4
<1>4. n - m \in S
  OBVIOUS
<1>5. \E x \in S : \A y \in S : x >= y
  BY <1>3, <1>4
<1>6. QED
  BY <1>5 DEF Max


-----------------------------------------------------------------------------
(* Sound nodes *)

\* The bytes whose bit is set.
BitsOf(nd) == {b \in Bytes : nd.bitmap[b]}

\* Slot i holds the child of byte b.
Has(nd, b, i) ==
  \/ Sorted(nd) /\ i \in 0 .. nd.count - 1 /\ nd.keys[i] = b
  \/ nd.layout = "Node48" /\ nd.bitmap[b] /\ nd.index[b] = i
  \/ nd.layout = "Node256" /\ nd.bitmap[b] /\ i = b

SortedOK(nd) ==
  /\ \A i \in Slots(nd.layout) : nd.children[i] # Null <=> i < nd.count
  /\ \A i, j \in 0 .. nd.count - 1 : i < j => nd.keys[i] < nd.keys[j]

IndexOK(nd) ==
  /\ \A b \in Bytes : nd.bitmap[b] <=> nd.index[b] # Empty
  /\ \A b \in Bytes : nd.bitmap[b] => nd.index[b] \in Slots(nd.layout) /\ nd.children[nd.index[b]] # Null
  /\ \A i \in Slots(nd.layout) : nd.children[i] # Null => \E b \in Bytes : nd.bitmap[b] /\ nd.index[b] = i
  /\ \A b, c \in Bytes : nd.bitmap[b] /\ nd.bitmap[c] /\ nd.index[b] = nd.index[c] => b = c
  /\ nd.count = Cardinality(BitsOf(nd))

DirectOK(nd) ==
  /\ \A b \in Bytes : nd.bitmap[b] <=> nd.children[b] # Null
  /\ nd.count = Cardinality(BitsOf(nd))

\* The fields of a node agree with each other.
Sound(nd) ==
  /\ nd.layout \in Layouts /\ nd \in NodeOf(nd.layout)
  /\ Sorted(nd) => SortedOK(nd)
  /\ nd.layout = "Node48" => IndexOK(nd)
  /\ nd.layout = "Node256" => DirectOK(nd)

LEMMA LayoutFacts ==
  /\ \A l \in Layouts : Slots(l) = 0 .. Cap[l] - 1
  /\ Slots("Node256") = Bytes
  /\ Slots("Node48") = 0 .. Empty - 1
  /\ \A nd : nd.layout \in Layouts => (Sorted(nd) <=> nd.layout # "Node48" /\ nd.layout # "Node256")
BY LayoutAssumption DEF Layouts, Slots, Bytes, Empty, Sorted

LEMMA NodeTyped ==
  ASSUME NEW nd, nd.layout \in Layouts, nd \in NodeOf(nd.layout)
  PROVE  /\ nd.count \in Nat /\ nd.count <= Cap[nd.layout] /\ NumChildren(nd) = nd.count
         /\ Cap[nd.layout] \in Nat
         /\ nd.keys \in [Slots(nd.layout) -> Bytes] /\ nd.children \in [Slots(nd.layout) -> Ptrs]
         /\ nd.index \in [Bytes -> 0 .. Empty] /\ nd.bitmap \in [Bytes -> BOOLEAN]
         /\ nd.prefixLen \in 0 .. MaxPrefix /\ nd.prefix \in [1 .. MaxPrefix -> Bytes]
         /\ nd.exact \in Ptrs
         /\ Slots(nd.layout) = 0 .. Cap[nd.layout] - 1
<1>1. Cap[nd.layout] \in Nat
  BY ConstantsOK
<1>2. nd.count \in 0 .. Cap[nd.layout]
  BY DEF NodeOf
<1>3. NumChildren(nd) = nd.count
  BY <1>1, <1>2 DEF NumChildren, Clamp
<1>4. QED
  BY <1>1, <1>2, <1>3 DEF NodeOf, Slots

\* Position finds the slot of a byte that is there, and -1 for one that is not.
LEMMA PositionAt ==
  ASSUME NEW n \in Nat, NEW keys, NEW b
  PROVE  /\ (\E i \in 0 .. n - 1 : keys[i] = b) =>
              /\ Position(keys, n, b) \in 0 .. n - 1 /\ keys[Position(keys, n, b)] = b
              /\ \A i \in 0 .. n - 1 : keys[i] = b => Position(keys, n, b) <= i
         /\ (\A i \in 0 .. n - 1 : keys[i] # b) => Position(keys, n, b) = -1
<1> DEFINE at == {i \in 0 .. n - 1 : keys[i] = b}
<1>1. at \in SUBSET Nat
  OBVIOUS
<1>2. Position(keys, n, b) = IF at = {} THEN -1 ELSE Min(at)
  BY DEF Position
<1>3. ASSUME at # {}
      PROVE  Min(at) \in at /\ \A y \in at : Min(at) <= y
  <2> HIDE DEF at
  <2>1. QED
    BY <1>1, <1>3, MinOf
<1>4. QED
  BY <1>2, <1>3

\* Where a child is found, and that no byte has two slots and no slot two bytes.
LEMMA HasSlot ==
  ASSUME NEW nd, Sound(nd), NEW b \in Bytes, NEW i, Has(nd, b, i)
  PROVE  /\ i \in Slots(nd.layout) /\ nd.children[i] # Null
         /\ SlotOf(nd, b) = i /\ Child(nd, b) = nd.children[i]
<1>1. /\ nd.count \in Nat /\ nd.count <= Cap[nd.layout] /\ NumChildren(nd) = nd.count
      /\ nd.children \in [Slots(nd.layout) -> Ptrs] /\ nd.index \in [Bytes -> 0 .. Empty]
      /\ Slots(nd.layout) = 0 .. Cap[nd.layout] - 1 /\ Cap[nd.layout] \in Nat
  BY NodeTyped DEF Sound
<1>2. CASE Sorted(nd)
  <2>1. i \in 0 .. nd.count - 1 /\ nd.keys[i] = b
    BY <1>2 DEF Has, Sorted
  <2>2. i \in Slots(nd.layout) /\ nd.children[i] # Null
    BY <1>1, <1>2, <2>1 DEF Sound, SortedOK
  <2> DEFINE p == Position(nd.keys, nd.count, b)
  <2>3. p \in 0 .. nd.count - 1 /\ nd.keys[p] = b
    BY <1>1, <2>1, PositionAt
  <2>4. p = i
    <3>1. nd.keys[i] \in Nat /\ nd.keys[i] = nd.keys[p]
      BY <2>1, <2>3, ConstantsOK DEF Bytes
    <3>2. /\ i < p => nd.keys[i] < nd.keys[p]
          /\ p < i => nd.keys[p] < nd.keys[i]
      BY <1>2, <2>1, <2>3 DEF Sound, SortedOK
    <3> HIDE DEF p
    <3>3. QED
      BY <1>1, <2>1, <2>3, <3>1, <3>2
  <2>5. SlotOf(nd, b) = p
    BY <1>1, <1>2 DEF SlotOf, Sorted
  <2> HIDE DEF p
  <2>6. i # -1
    BY <1>1, <2>1
  <2>7. QED
    BY <2>2, <2>4, <2>5, <2>6 DEF Child
<1>3. CASE nd.layout = "Node48"
  <2>1. nd.bitmap[b] /\ nd.index[b] = i
    BY <1>3 DEF Has, Sorted
  <2>2. i \in Slots(nd.layout) /\ nd.children[i] # Null
    BY <1>3, <2>1 DEF Sound, IndexOK
  <2>3. i \in 0 .. Empty - 1
    BY <1>3, <2>2, LayoutFacts
  <2>4. SlotOf(nd, b) = i
    BY <1>3, <2>1, <2>3, ConstantsOK DEF SlotOf, Sorted
  <2>5. i # -1
    BY <2>3, ConstantsOK
  <2>6. QED
    BY <2>2, <2>4, <2>5 DEF Child
<1>4. CASE nd.layout = "Node256"
  <2>1. nd.bitmap[b] /\ b = i
    BY <1>4 DEF Has, Sorted
  <2>2. nd.children[i] # Null
    BY <1>4, <2>1 DEF Sound, DirectOK
  <2>3. SlotOf(nd, b) = i
    BY <1>4, <2>1, <2>2 DEF SlotOf, Sorted
  <2>4. i # -1 /\ i \in Slots(nd.layout)
    BY <1>4, <2>1, LayoutFacts, ConstantsOK DEF Bytes
  <2>5. QED
    BY <2>2, <2>3, <2>4 DEF Child
<1>5. QED
  BY <1>2, <1>3, <1>4 DEF Sound, Layouts, Sorted

LEMMA HasNone ==
  ASSUME NEW nd, Sound(nd), NEW b \in Bytes, \A i \in Slots(nd.layout) : ~Has(nd, b, i)
  PROVE  SlotOf(nd, b) = -1 /\ Child(nd, b) = Null
<1>1. /\ nd.count \in Nat /\ nd.count <= Cap[nd.layout] /\ NumChildren(nd) = nd.count
      /\ nd.children \in [Slots(nd.layout) -> Ptrs] /\ nd.index \in [Bytes -> 0 .. Empty]
      /\ nd.bitmap \in [Bytes -> BOOLEAN]
      /\ Slots(nd.layout) = 0 .. Cap[nd.layout] - 1 /\ Cap[nd.layout] \in Nat
  BY NodeTyped DEF Sound
<1>2. CASE Sorted(nd)
  <2>1. \A i \in 0 .. nd.count - 1 : nd.keys[i] # b
    <3>1. ASSUME NEW i \in 0 .. nd.count - 1 PROVE nd.keys[i] # b
      <4>1. i \in Slots(nd.layout)
        BY <1>1
      <4>2. QED
        BY <1>2, <4>1 DEF Has
    <3>2. QED
      BY <3>1
  <2>2. Position(nd.keys, nd.count, b) = -1
    BY <1>1, <2>1, PositionAt
  <2>3. SlotOf(nd, b) = -1
    BY <1>1, <1>2, <2>2 DEF SlotOf, Sorted
  <2>4. QED
    BY <2>3 DEF Child
<1>3. CASE nd.layout = "Node48"
  <2>1. ~nd.bitmap[b]
    <3>1. ASSUME nd.bitmap[b] PROVE FALSE
      <4>1. nd.index[b] \in Slots(nd.layout)
        BY <1>3, <3>1 DEF Sound, IndexOK
      <4>2. QED
        BY <1>3, <3>1, <4>1 DEF Has
    <3>2. QED
      BY <3>1
  <2>2. nd.index[b] = Empty
    BY <1>3, <2>1 DEF Sound, IndexOK
  <2>3. SlotOf(nd, b) = -1
    BY <1>3, <2>2, ConstantsOK DEF SlotOf, Sorted
  <2>4. QED
    BY <2>3 DEF Child
<1>4. CASE nd.layout = "Node256"
  <2>1. b \in Slots(nd.layout)
    BY <1>4, LayoutFacts
  <2>2. ~nd.bitmap[b]
    BY <1>4, <2>1 DEF Has
  <2>3. nd.children[b] = Null
    BY <1>4, <2>2 DEF Sound, DirectOK
  <2>4. SlotOf(nd, b) = -1
    BY <1>4, <2>3 DEF SlotOf, Sorted
  <2>5. QED
    BY <2>4 DEF Child
<1>5. QED
  BY <1>2, <1>3, <1>4 DEF Sound, Layouts, Sorted

\* A byte has a child if and only if it has a slot.
LEMMA ChildHas ==
  ASSUME NEW nd, Sound(nd), NEW b \in Bytes
  PROVE  Child(nd, b) # Null <=> \E i \in Slots(nd.layout) : Has(nd, b, i)
BY HasSlot, HasNone

\* A slot that is not null holds the child of a byte.
LEMMA SlotHas ==
  ASSUME NEW nd, Sound(nd), NEW i \in Slots(nd.layout), nd.children[i] # Null
  PROVE  \E b \in Bytes : Has(nd, b, i)
<1>1. /\ nd.count \in Nat /\ nd.count <= Cap[nd.layout] /\ nd.keys \in [Slots(nd.layout) -> Bytes]
      /\ Slots(nd.layout) = 0 .. Cap[nd.layout] - 1 /\ Cap[nd.layout] \in Nat
  BY NodeTyped DEF Sound
<1>2. CASE Sorted(nd)
  <2>1. i \in 0 .. nd.count - 1
    BY <1>1, <1>2 DEF Sound, SortedOK
  <2>2. nd.keys[i] \in Bytes
    BY <1>1
  <2>3. QED
    BY <1>2, <2>1, <2>2 DEF Has
<1>3. CASE nd.layout = "Node48"
  BY <1>3 DEF Sound, IndexOK, Has
<1>4. CASE nd.layout = "Node256"
  <2>1. i \in Bytes
    BY <1>4, LayoutFacts
  <2>2. QED
    BY <1>4, <2>1 DEF Sound, DirectOK, Has
<1>5. QED
  BY <1>2, <1>3, <1>4 DEF Sound, Layouts, Sorted

LEMMA HasByte ==
  ASSUME NEW nd, Sound(nd), NEW b \in Bytes, NEW c \in Bytes, NEW i, Has(nd, b, i), Has(nd, c, i)
  PROVE  b = c
<1>1. CASE Sorted(nd)
  BY <1>1 DEF Has, Sorted
<1>2. CASE nd.layout = "Node48"
  BY <1>2 DEF Has, Sorted, Sound, IndexOK
<1>3. CASE nd.layout = "Node256"
  BY <1>3 DEF Has, Sorted
<1>4. QED
  BY <1>1, <1>2, <1>3 DEF Sound, Layouts, Sorted


-----------------------------------------------------------------------------
(* The map a sound node stands for *)

\* The bytes that have a child.
Present(nd) == {b \in Bytes : Child(nd, b) # Null}

\* A map in which no child is there twice.
Distinct(map) == \A x, y \in Bytes : x # y /\ map[x] # Null => map[x] # map[y]

LEMMA SameSize ==
  ASSUME NEW S, NEW T, IsFiniteSet(S), NEW f \in [S -> T],
         \A x, y \in S : f[x] = f[y] => x = y, \A t \in T : \E x \in S : f[x] = t
  PROVE  IsFiniteSet(T) /\ Cardinality(T) = Cardinality(S)
<1>1. f \in Injection(S, T)
  BY DEF Injection, IsInjective
<1>2. f \in Surjection(S, T)
  BY DEF Surjection
<1>3. ExistsBijection(S, T)
  BY <1>1, <1>2 DEF ExistsBijection, Bijection
<1>4. QED
  BY <1>3, FS_Bijection

\* The numbers below n.
LEMMA BelowFinite ==
  ASSUME NEW n \in Nat
  PROVE  IsFiniteSet(0 .. n - 1) /\ Cardinality(0 .. n - 1) = n
<1>1. 0 \in Int /\ n - 1 \in Int
  OBVIOUS
<1>2. /\ IsFiniteSet(0 .. n - 1)
      /\ Cardinality(0 .. n - 1) = IF 0 > n - 1 THEN 0 ELSE n - 1 - 0 + 1
  BY <1>1, FS_Interval, Zenon
<1> DEFINE c == Cardinality(0 .. n - 1)
<1>3. c = IF 0 > n - 1 THEN 0 ELSE n - 1 - 0 + 1
  BY <1>2
<1> HIDE DEF c
<1>4. c = n
  BY <1>3
<1>5. QED
  BY <1>2, <1>4 DEF c

LEMMA BytesFinite ==
  /\ IsFiniteSet(Bytes) /\ Cardinality(Bytes) = TopByte + 1
  /\ \A S \in SUBSET Bytes : IsFiniteSet(S) /\ Cardinality(S) \in Nat
<1>1. IsFiniteSet(Bytes) /\ Cardinality(Bytes) = TopByte + 1
  <2>1. TopByte + 1 \in Nat /\ Bytes = 0 .. (TopByte + 1) - 1
    BY ConstantsOK DEF Bytes
  <2>2. QED
    BY <2>1, BelowFinite, Zenon
<1>2. QED
  BY <1>1, FS_Subset, FS_CardinalityType

LEMMA MapTyped ==
  ASSUME NEW nd, Sound(nd)
  PROVE  /\ MapOf(nd) \in [Bytes -> Ptrs]
         /\ \A b \in Bytes : MapOf(nd)[b] = Child(nd, b)
<1>1. ASSUME NEW b \in Bytes PROVE Child(nd, b) \in Ptrs
  <2>1. CASE Child(nd, b) = Null
    BY <2>1, ConstantsOK
  <2>2. CASE Child(nd, b) # Null
    <3>1. PICK i \in Slots(nd.layout) : Has(nd, b, i)
      BY <2>2, ChildHas
    <3>2. Child(nd, b) = nd.children[i]
      BY <3>1, HasSlot
    <3>3. nd.children \in [Slots(nd.layout) -> Ptrs]
      BY NodeTyped DEF Sound
    <3>4. QED
      BY <3>2, <3>3
  <2>3. QED
    BY <2>1, <2>2
<1>2. QED
  BY <1>1 DEF MapOf

\* The slots that are not null hold the children of the map.
LEMMA KidsAreMapped ==
  ASSUME NEW nd, Sound(nd), NEW i \in Slots(nd.layout), nd.children[i] # Null
  PROVE  \E b \in Bytes : nd.children[i] = Child(nd, b)
BY SlotHas, HasSlot

\* The count of a sound node is the number of its children, and the ordered
\* walk visits all of them.
LEMMA CountIs ==
  ASSUME NEW nd, Sound(nd)
  PROVE  nd.count = Cardinality(Present(nd)) /\ InUse(nd) = Present(nd)
<1>1. /\ nd.count \in Nat /\ nd.count <= Cap[nd.layout] /\ NumChildren(nd) = nd.count
      /\ nd.children \in [Slots(nd.layout) -> Ptrs] /\ nd.keys \in [Slots(nd.layout) -> Bytes]
      /\ nd.bitmap \in [Bytes -> BOOLEAN]
      /\ Slots(nd.layout) = 0 .. Cap[nd.layout] - 1 /\ Cap[nd.layout] \in Nat
  BY NodeTyped DEF Sound
<1>2. CASE Sorted(nd)
  <2> DEFINE S == 0 .. nd.count - 1
             f == [i \in S |-> nd.keys[i]]
  <2>1. \A i \in S : i \in Slots(nd.layout) /\ nd.keys[i] \in Bytes
    BY <1>1
  <2>2. \A i \in S : nd.children[i] # Null
    BY <1>1, <1>2, <2>1 DEF Sound, SortedOK
  <2>3. \A i \in S : Has(nd, nd.keys[i], i)
    BY <1>2 DEF Has
  <2>4. \A i \in S : nd.keys[i] \in Present(nd)
    BY <2>1, <2>3, ChildHas DEF Present
  <2>5. ASSUME NEW b \in Present(nd) PROVE \E i \in S : nd.keys[i] = b
    <3>1. b \in Bytes /\ Child(nd, b) # Null
      BY DEF Present
    <3>2. PICK i \in Slots(nd.layout) : Has(nd, b, i)
      BY <3>1, ChildHas
    <3>3. QED
      BY <1>2, <3>2 DEF Has, Sorted
  <2>6. InUse(nd) = Present(nd)
    BY <1>1, <1>2, <2>2, <2>4, <2>5 DEF InUse
  <2>7. f \in [S -> Present(nd)]
    BY <2>4
  <2>8. \A i, j \in S : f[i] = f[j] => i = j
    <3>1. ASSUME NEW i \in S, NEW j \in S, f[i] = f[j], i # j PROVE FALSE
      <4>1. nd.keys[i] = nd.keys[j] /\ nd.keys[i] \in Nat
        BY <2>1, <3>1, ConstantsOK DEF Bytes
      <4>2. (i < j => nd.keys[i] < nd.keys[j]) /\ (j < i => nd.keys[j] < nd.keys[i])
        BY <1>2 DEF Sound, SortedOK
      <4>3. i < j \/ j < i
        BY <1>1, <3>1
      <4>4. QED
        BY <4>1, <4>2, <4>3
    <3>2. QED
      BY <3>1
  <2>9. IsFiniteSet(S) /\ Cardinality(S) = nd.count
    BY <1>1, BelowFinite, Zenon
  <2>10. \A b \in Present(nd) : \E i \in S : f[i] = b
    BY <2>5
  <2> HIDE DEF f, S
  <2>11. Cardinality(Present(nd)) = Cardinality(S)
    BY <2>7, <2>8, <2>9, <2>10, SameSize
  <2>12. QED
    BY <2>6, <2>9, <2>11
<1>3. CASE nd.layout \in {"Node48", "Node256"}
  <2>1. ~Sorted(nd)
    BY <1>3 DEF Sorted
  <2>2. ASSUME NEW b \in Bytes PROVE nd.bitmap[b] <=> Child(nd, b) # Null
    <3>1. ASSUME nd.bitmap[b] PROVE \E i \in Slots(nd.layout) : Has(nd, b, i)
      <4>1. CASE nd.layout = "Node48"
        <5>1. nd.index[b] \in Slots(nd.layout)
          BY <3>1, <4>1 DEF Sound, IndexOK
        <5>2. QED
          BY <3>1, <4>1, <5>1 DEF Has
      <4>2. CASE nd.layout = "Node256"
        BY <3>1, <4>2, LayoutFacts DEF Has
      <4>3. QED
        BY <1>3, <4>1, <4>2
    <3>2. ASSUME NEW i, Has(nd, b, i) PROVE nd.bitmap[b]
      BY <2>1, <3>2 DEF Has
    <3>3. QED
      BY <3>1, <3>2, ChildHas
  <2>3. BitsOf(nd) = Present(nd)
    BY <2>2 DEF BitsOf, Present
  <2>4. InUse(nd) = Present(nd)
    BY <2>1, <2>2 DEF InUse, Present
  <2>5. QED
    BY <1>3, <2>3, <2>4 DEF Sound, IndexOK, DirectOK
<1>4. QED
  BY <1>2, <1>3 DEF Sound, Layouts, Sorted


-----------------------------------------------------------------------------
(* The stores of the keys and of the prefix *)

LEMMA ApplyAllTwo ==
  ASSUME NEW nd, NEW s, NEW t
  PROVE  ApplyAll(nd, <<s, t>>) = Apply(Apply(nd, s), t)
<1> DEFINE x == Apply(nd, s)
           y == Apply(x, t)
           f == [i \in 0 .. 2 |-> IF i = 0 THEN nd ELSE IF i = 1 THEN x ELSE y]
           q == <<s, t>>
<1>1. f[0] = nd /\ f[1] = x /\ f[2] = y
  OBVIOUS
<1> HIDE DEF f
<1>2. Len(q) = 2 /\ q[1] = s /\ q[2] = t
  OBVIOUS
<1> HIDE DEF q
<1>3. \A i \in 1 .. Len(q) : f[i] = Apply(f[i - 1], q[i])
  <2>1. ASSUME NEW i \in 1 .. Len(q) PROVE f[i] = Apply(f[i - 1], q[i])
    <3>1. (i = 1 /\ i - 1 = 0) \/ (i = 2 /\ i - 1 = 1)
      BY <1>2
    <3>2. QED
      BY <1>1, <1>2, <3>1
  <2>2. QED
    BY <2>1
<1>4. ApplyAll(nd, q) = f[Len(q)]
  <2>1. Len(q) \in Nat
    BY <1>2
  <2>2. f[0] = nd
    BY <1>1
  <2> HIDE DEF x, y
  <2>3. QED
    BY <1>3, <2>1, <2>2, ApplyAllRun
<1>5. QED
  BY <1>1, <1>2, <1>4 DEF q

LEMMA StoreKeysAre ==
  ASSUME NEW nd, NEW keys
  PROVE  StoreKeys(nd, keys) =
           IF nd.layout = "Node4" THEN <<St("keys", Slots(nd.layout), keys)>>
           ELSE <<St("keys", 0 .. HalfKeys - 1, keys), St("keys", HalfKeys .. Cap[nd.layout] - 1, keys)>>
<1>1. CASE nd.layout = "Node4"
  <2>1. KeyWords(nd.layout) = <<Slots(nd.layout)>>
    BY <1>1 DEF KeyWords
  <2>2. StoreKeys(nd, keys) = [i \in {1} |-> St("keys", Slots(nd.layout), keys)]
    BY <2>1 DEF StoreKeys
  <2>3. <<St("keys", Slots(nd.layout), keys)>> = [i \in {1} |-> St("keys", Slots(nd.layout), keys)]
    OBVIOUS
  <2>4. QED
    BY <1>1, <2>2, <2>3
<1>2. CASE nd.layout # "Node4"
  <2> DEFINE a == St("keys", 0 .. HalfKeys - 1, keys)
             b == St("keys", HalfKeys .. Cap[nd.layout] - 1, keys)
  <2>1. KeyWords(nd.layout) = <<0 .. HalfKeys - 1, HalfKeys .. Cap[nd.layout] - 1>>
    BY <1>2 DEF KeyWords
  <2>2. StoreKeys(nd, keys) = [i \in {1, 2} |-> IF i = 1 THEN a ELSE b]
    BY <2>1 DEF StoreKeys
  <2> HIDE DEF a, b
  <2>3. <<a, b>> = [i \in {1, 2} |-> IF i = 1 THEN a ELSE b]
    OBVIOUS
  <2>4. QED
    BY <1>2, <2>2, <2>3 DEF a, b
<1>3. QED
  BY <1>1, <1>2

KeysOf(l) == [Slots(l) -> Bytes]

\* Whatever the words, all keys are stored.
LEMMA StoreKeysAll ==
  ASSUME NEW l \in {"Node4", "Node16"}, NEW V, NEW nd \in NodeOf(l), NEW c, NEW ch, NEW ix, NEW bm,
         NEW k \in KeysOf(l), NEW keys \in KeysOf(l)
  PROVE  /\ StoreKeys(nd, keys) \in Seq(StoresOf(l, V))
         /\ ApplyAll(Body(nd, c, k, ch, ix, bm), StoreKeys(nd, keys)) = Body(nd, c, keys, ch, ix, bm)
<1>0. /\ nd.layout = l /\ Slots(l) = 0 .. Cap[l] - 1
      /\ k \in [Slots(l) -> Bytes] /\ keys \in [Slots(l) -> Bytes]
  BY DEF NodeOf, Slots, KeysOf
<1>1. CASE l = "Node4"
  <2> DEFINE s == St("keys", Slots(l), keys)
  <2>1. StoreKeys(nd, keys) = <<s>>
    BY <1>0, <1>1, StoreKeysAre
  <2>2. s \in StoresOf(l, V)
    BY <1>0, StTyped
  <2>3. Apply(Body(nd, c, k, ch, ix, bm), s) = Body(nd, c, Word(k, s), ch, ix, bm)
    BY BodyApply
  <2>4. Word(k, s) = keys
    BY <1>0 DEF Word, St
  <2> HIDE DEF s
  <2>5. ApplyAll(Body(nd, c, k, ch, ix, bm), <<s>>) = Body(nd, c, keys, ch, ix, bm)
    BY <2>3, <2>4, ApplyAllOne
  <2>6. QED
    BY <2>1, <2>2, <2>5
<1>2. CASE l = "Node16"
  <2> DEFINE lo == 0 .. HalfKeys - 1
             hi == HalfKeys .. Cap[l] - 1
             s == St("keys", lo, keys)
             t == St("keys", hi, keys)
             k1 == Word(k, s)
  <2>0. lo \in SUBSET Slots(l) /\ hi \in SUBSET Slots(l) /\ \A i \in Slots(l) : i \in lo \/ i \in hi
    BY <1>0, <1>2, LayoutAssumption DEF Layouts
  <2>1. StoreKeys(nd, keys) = <<s, t>>
    BY <1>0, <1>2, StoreKeysAre
  <2>2. s \in StoresOf(l, V) /\ t \in StoresOf(l, V)
    BY <1>0, <2>0, StTyped
  <2>3. Apply(Body(nd, c, k, ch, ix, bm), s) = Body(nd, c, k1, ch, ix, bm)
    BY BodyApply
  <2>4. Apply(Body(nd, c, k1, ch, ix, bm), t) = Body(nd, c, Word(k1, t), ch, ix, bm)
    BY BodyApply
  <2>5. Word(k1, t) = keys
    <3> HIDE DEF lo, hi
    <3>1. QED
      BY <1>0, <2>0 DEF Word, St
  <2> HIDE DEF s, t, k1
  <2>6. ApplyAll(Body(nd, c, k, ch, ix, bm), <<s, t>>) = Body(nd, c, keys, ch, ix, bm)
    BY <2>3, <2>4, <2>5, ApplyAllTwo
  <2>7. <<s, t>> \in Seq(StoresOf(l, V))
    BY <2>2
  <2>8. QED
    BY <2>1, <2>6, <2>7
<1>3. QED
  BY <1>1, <1>2


-----------------------------------------------------------------------------
(* What the stores of a write of the sorted layouts do *)

LEMMA SeqFrom ==
  ASSUME NEW S, NEW m \in Nat, NEW q \in [1 .. m -> S]
  PROVE  q \in Seq(S) /\ Len(q) = m
OBVIOUS

\* f with v put in at pos and the entries from pos to n - 1 moved up, and with
\* the entry at pos taken out and those up to n - 1 moved down.
ShiftUp(f, D, n, pos, v) ==
  [i \in D |-> IF i < pos THEN f[i] ELSE IF i = pos THEN v ELSE IF i <= n THEN f[i - 1] ELSE f[i]]
ShiftDown(f, D, n, pos, z) ==
  [i \in D |-> IF i < pos THEN f[i] ELSE IF i < n - 1 THEN f[i + 1] ELSE IF i = n - 1 THEN z ELSE f[i]]

\* Children that move up one slot, from the end.
MoveUp(nd, pos) ==
  [j \in 1 .. nd.count - pos |->
     St("children", {nd.count - j + 1}, nd.children[nd.count - j])]

LEMMA MovedUp ==
  ASSUME NEW l \in Layouts, NEW V, NEW nd \in NodeOf(l), nd.children \in [Slots(l) -> V],
         nd.count < Cap[l], NEW pos \in 0 .. nd.count
  PROVE  /\ MoveUp(nd, pos) \in Seq(StoresOf(l, V))
         /\ ApplyAll(nd, MoveUp(nd, pos)) =
              Body(nd, nd.count, nd.keys,
                   [i \in Slots(l) |-> IF pos < i /\ i <= nd.count THEN nd.children[i - 1] ELSE nd.children[i]],
                   nd.index, nd.bitmap)
<1> DEFINE n == nd.count
           m == n - pos
           old == nd.children
           ch(j) == [i \in Slots(l) |-> IF n - j < i /\ i <= n THEN old[i - 1] ELSE old[i]]
           st(j) == Body(nd, n, nd.keys, ch(j), nd.index, nd.bitmap)
           f == [j \in 0 .. m |-> st(j)]
           q == MoveUp(nd, pos)
<1>0. /\ n \in Nat /\ m \in Nat /\ Cap[l] \in Nat /\ nd.layout = l
      /\ Slots(l) = 0 .. Cap[l] - 1 /\ old \in [Slots(l) -> Ptrs] /\ n + 1 <= Cap[l]
  BY ConstantsOK DEF NodeOf, Slots
<1>1. ASSUME NEW j \in 1 .. m
      PROVE  /\ n - j + 1 \in Slots(l) /\ n - j \in Slots(l)
             /\ q[j] = St("children", {n - j + 1}, old[n - j])
  <2>0. j \in Nat /\ 1 <= j /\ j <= n /\ n + 1 <= Cap[l] /\ n \in Nat
    BY <1>0
  <2>1. n - j + 1 \in Slots(l) /\ n - j \in Slots(l)
    <3> HIDE DEF n
    <3>1. n - j + 1 \in 0 .. Cap[l] - 1 /\ n - j \in 0 .. Cap[l] - 1
      BY <1>0, <2>0
    <3>2. QED
      BY <1>0, <3>1
  <2>2. q[j] = St("children", {n - j + 1}, old[n - j])
    BY DEF MoveUp
  <2>3. QED
    BY <2>1, <2>2
<1>2. q \in Seq(StoresOf(l, V)) /\ Len(q) = m
  <2>1. ASSUME NEW j \in 1 .. m PROVE q[j] \in StoresOf(l, V)
    <3>1. old[n - j] \in V /\ {n - j + 1} \in SUBSET Slots(l)
      BY <1>1
    <3>2. q[j] = St("children", {n - j + 1}, old[n - j])
      BY <1>1
    <3> HIDE DEF q, n, old
    <3>3. QED
      BY <3>1, <3>2, StTyped
  <2>2. q = [j \in 1 .. m |-> q[j]]
    BY DEF MoveUp
  <2> HIDE DEF q
  <2>3. q \in [1 .. m -> StoresOf(l, V)]
    BY <2>1, <2>2
  <2> HIDE DEF m
  <2>4. QED
    BY <1>0, <2>3, SeqFrom
<1>3. ch(0) = old
  <2>1. \A i \in Slots(l) : ~(n - 0 < i /\ i <= n)
    BY <1>0
  <2>2. old = [i \in Slots(l) |-> old[i]]
    BY <1>0
  <2>3. QED
    BY <2>1, <2>2
<1>4. nd = st(0)
  BY <1>3, BodySelf
<1>5. ASSUME NEW j \in 1 .. m PROVE Slot(ch(j - 1), q[j]) = ch(j)
  <2>1. \A i \in Slots(l) : ch(j - 1)[i] = IF n - (j - 1) < i /\ i <= n THEN old[i - 1] ELSE old[i]
    OBVIOUS
  <2>2. Slot(ch(j - 1), q[j]) = [i \in Slots(l) |-> IF i \in {n - j + 1} THEN old[n - j] ELSE ch(j - 1)[i]]
    <3>1. DOMAIN ch(j - 1) = Slots(l)
      OBVIOUS
    <3>2. q[j] = St("children", {n - j + 1}, old[n - j])
      BY <1>1
    <3> HIDE DEF q, n, old, ch
    <3>3. QED
      BY <3>1, <3>2, SlotIs
  <2>3. ASSUME NEW i \in Slots(l)
        PROVE  (IF i \in {n - j + 1} THEN old[n - j] ELSE ch(j - 1)[i])
                 = (IF n - j < i /\ i <= n THEN old[i - 1] ELSE old[i])
    <3>1. CASE i = n - j + 1
      <4>1. n - j < i /\ i <= n /\ i - 1 = n - j
        BY <1>0, <3>1
      <4>2. QED
        BY <3>1, <4>1
    <3>2. CASE i # n - j + 1
      <4>1. (n - (j - 1) < i /\ i <= n) <=> (n - j < i /\ i <= n)
        BY <1>0, <3>2, SMTT(30)
      <4> HIDE DEF ch
      <4>2. QED
        BY <2>1, <3>2, <4>1
    <3>3. QED
      BY <3>1, <3>2
  <2>4. QED
    BY <2>2, <2>3
<1>6. ASSUME NEW j \in 1 .. m PROVE st(j) = Apply(st(j - 1), q[j])
  <2>1. q[j] = St("children", {n - j + 1}, old[n - j])
    BY <1>1
  <2>2. Apply(st(j - 1), q[j]) = Body(nd, n, nd.keys, Slot(ch(j - 1), q[j]), nd.index, nd.bitmap)
    <3> HIDE DEF ch, q
    <3>1. QED
      BY <2>1, BodyApply
  <2>3. QED
    BY <1>5, <2>2
<1> HIDE DEF st
<1>7. \A j \in 1 .. Len(q) : f[j] = Apply(f[j - 1], q[j])
  <2>1. ASSUME NEW j \in 1 .. m PROVE f[j] = Apply(f[j - 1], q[j])
    <3>1. j \in 0 .. m /\ j - 1 \in 0 .. m
      BY <1>0
    <3>2. f[j] = st(j) /\ f[j - 1] = st(j - 1)
      BY <3>1
    <3> HIDE DEF f
    <3>3. QED
      BY <1>6, <3>2
  <2>2. QED
    BY <1>2, <2>1
<1>8. f[0] = nd /\ f[Len(q)] = st(m)
  BY <1>0, <1>2, <1>4
<1> HIDE DEF f
<1>9. ApplyAll(nd, q) = st(m)
  <2>1. Len(q) \in Nat
    BY <1>0, <1>2
  <2> HIDE DEF q
  <2>2. QED
    BY <1>7, <1>8, <2>1, ApplyAllRun
<1>10. n - m = pos
  BY <1>0
<1>11. QED
  BY <1>2, <1>9, <1>10 DEF st


LEMMA InsertSortedAre ==
  ASSUME NEW nd, NumChildren(nd) = nd.count, NEW b, NEW c
  PROVE  InsertSorted(nd, b, c) =
           MoveUp(nd, InsertPos(nd, b))
           \o StoreKeys(nd, ShiftUp(nd.keys, Slots(nd.layout), nd.count, InsertPos(nd, b), b))
           \o <<St("children", {InsertPos(nd, b)}, c), St("count", {}, nd.count + 1)>>
BY Zenon DEF InsertSorted, MoveUp, ShiftUp

\* insert_child of the sorted layouts: keys and children from pos on move up.
LEMMA InsertSortedDoes ==
  ASSUME NEW l \in {"Node4", "Node16"}, NEW V \in SUBSET Ptrs, NEW nd \in NodeOf(l),
         nd.children \in [Slots(l) -> V], nd.count < Cap[l], NEW b \in Bytes, NEW c \in V,
         NEW pos \in 0 .. nd.count, pos = InsertPos(nd, b)
  PROVE  /\ InsertSorted(nd, b, c) \in Seq(StoresOf(l, V))
         /\ ApplyAll(nd, InsertSorted(nd, b, c)) =
              Body(nd, nd.count + 1, ShiftUp(nd.keys, Slots(l), nd.count, pos, b),
                   ShiftUp(nd.children, Slots(l), nd.count, pos, c), nd.index, nd.bitmap)
<1> DEFINE n == nd.count
           keys == ShiftUp(nd.keys, Slots(l), n, pos, b)
           ch1 == [i \in Slots(l) |-> IF pos < i /\ i <= nd.count THEN nd.children[i - 1] ELSE nd.children[i]]
           s == St("children", {pos}, c)
           t == St("count", {}, n + 1)
           q1 == MoveUp(nd, pos)
           q2 == StoreKeys(nd, keys)
<1>0. /\ l \in Layouts /\ n \in Nat /\ Cap[l] \in Nat /\ nd.layout = l /\ NumChildren(nd) = n
      /\ Slots(l) = 0 .. Cap[l] - 1 /\ nd.keys \in [Slots(l) -> Bytes] /\ n + 1 <= Cap[l]
      /\ nd.children \in [Slots(l) -> Ptrs] /\ nd.index \in [Bytes -> 0 .. Empty]
      /\ nd.bitmap \in [Bytes -> BOOLEAN]
  BY ConstantsOK, SMTT(30) DEF NodeOf, Slots, Layouts, NumChildren, Clamp
<1>1. InsertSorted(nd, b, c) = (q1 \o q2) \o <<s, t>>
  <2>1. NumChildren(nd) = nd.count
    BY <1>0
  <2>2. InsertSorted(nd, b, c) =
          MoveUp(nd, InsertPos(nd, b))
          \o StoreKeys(nd, ShiftUp(nd.keys, Slots(nd.layout), nd.count, InsertPos(nd, b), b))
          \o <<St("children", {InsertPos(nd, b)}, c), St("count", {}, nd.count + 1)>>
    BY <2>1, InsertSortedAre, Zenon
  <2>3. InsertPos(nd, b) = pos /\ Slots(nd.layout) = Slots(l)
    BY <1>0
  <2>4. QED
    BY <2>2, <2>3, Zenon
<1>2. keys \in [Slots(l) -> Bytes]
  <2>1. ASSUME NEW i \in Slots(l)
        PROVE  (IF i < pos THEN nd.keys[i] ELSE IF i = pos THEN b ELSE IF i <= n THEN nd.keys[i - 1] ELSE nd.keys[i])
                 \in Bytes
    <3>1. ~(i < pos) /\ i # pos => i - 1 \in Slots(l)
      BY <1>0
    <3>2. QED
      BY <1>0, <3>1
  <2>2. QED
    BY <2>1 DEF ShiftUp
<1>3. /\ q1 \in Seq(StoresOf(l, V))
      /\ ApplyAll(nd, q1) = Body(nd, n, nd.keys, ch1, nd.index, nd.bitmap)
  BY <1>0, MovedUp, ZenonT(60)
<1> HIDE DEF keys, ch1
<1>4. /\ q2 \in Seq(StoresOf(l, V))
      /\ ApplyAll(Body(nd, n, nd.keys, ch1, nd.index, nd.bitmap), q2) = Body(nd, n, keys, ch1, nd.index, nd.bitmap)
  <2>1. nd.keys \in KeysOf(l) /\ keys \in KeysOf(l)
    BY <1>0, <1>2 DEF KeysOf
  <2>2. PICK m, k, ks, ch : m = n /\ k = nd.keys /\ ks = keys /\ ch = ch1
    BY Zenon
  <2>3. k \in KeysOf(l) /\ ks \in KeysOf(l)
    BY <2>1, <2>2, Zenon
  <2>4. /\ StoreKeys(nd, ks) \in Seq(StoresOf(l, V))
        /\ ApplyAll(Body(nd, m, k, ch, nd.index, nd.bitmap), StoreKeys(nd, ks)) = Body(nd, m, ks, ch, nd.index, nd.bitmap)
    BY <2>3, StoreKeysAll
  <2>5. QED
    BY <2>2, <2>4, Zenon
<1>5. s \in StoresOf(l, V) /\ t \in StoresOf(l, V) /\ <<s, t>> \in Seq(StoresOf(l, V))
  <2>1. {pos} \in SUBSET Slots(l) /\ n + 1 \in 0 .. Cap[l]
    BY <1>0
  <2> HIDE DEF n
  <2>2. s \in StoresOf(l, V) /\ t \in StoresOf(l, V)
    BY <2>1, StTyped
  <2> HIDE DEF s, t
  <2>3. QED
    BY <2>2
<1>6. Slot(ch1, s) = ShiftUp(nd.children, Slots(l), n, pos, c)
  <2>1. DOMAIN ch1 = Slots(l)
    BY DEF ch1
  <2>2. Slot(ch1, s) = [i \in Slots(l) |-> IF i \in {pos} THEN c ELSE ch1[i]]
    BY <2>1, SlotIs
  <2>3. ASSUME NEW i \in Slots(l)
        PROVE  (IF i \in {pos} THEN c ELSE ch1[i]) =
               (IF i < pos THEN nd.children[i] ELSE IF i = pos THEN c
                ELSE IF i <= n THEN nd.children[i - 1] ELSE nd.children[i])
    BY <1>0 DEF ch1
  <2>4. QED
    BY <2>2, <2>3 DEF ShiftUp
<1>7. Apply(Body(nd, n, keys, ch1, nd.index, nd.bitmap), s) =
        Body(nd, n, keys, ShiftUp(nd.children, Slots(l), n, pos, c), nd.index, nd.bitmap)
  BY <1>6, BodyApply
<1>8. Apply(Body(nd, n, keys, ShiftUp(nd.children, Slots(l), n, pos, c), nd.index, nd.bitmap), t) =
        Body(nd, n + 1, keys, ShiftUp(nd.children, Slots(l), n, pos, c), nd.index, nd.bitmap)
  BY BodyApply
<1> HIDE DEF s, t, q1, q2, n
<1>9. /\ q1 \o q2 \in Seq(StoresOf(l, V))
      /\ (q1 \o q2) \o <<s, t>> \in Seq(StoresOf(l, V))
  BY <1>3, <1>4, <1>5, ConcatProperties
<1>10. ApplyAll(nd, q1 \o q2) = Body(nd, n, keys, ch1, nd.index, nd.bitmap)
  BY <1>3, <1>4, ApplyAllConcat
<1>11. ApplyAll(Body(nd, n, keys, ch1, nd.index, nd.bitmap), <<s, t>>) =
        Body(nd, n + 1, keys, ShiftUp(nd.children, Slots(l), n, pos, c), nd.index, nd.bitmap)
  BY <1>7, <1>8, ApplyAllTwo
<1>12. ApplyAll(nd, (q1 \o q2) \o <<s, t>>) =
        Body(nd, n + 1, keys, ShiftUp(nd.children, Slots(l), n, pos, c), nd.index, nd.bitmap)
  <2> DEFINE p == q1 \o q2
             u == <<s, t>>
  <2>1. p \in Seq(StoresOf(l, V)) /\ u \in Seq(StoresOf(l, V))
    BY <1>5, <1>9
  <2>2. ApplyAll(nd, p) = Body(nd, n, keys, ch1, nd.index, nd.bitmap)
    BY <1>10
  <2>3. ApplyAll(Body(nd, n, keys, ch1, nd.index, nd.bitmap), u) =
        Body(nd, n + 1, keys, ShiftUp(nd.children, Slots(l), n, pos, c), nd.index, nd.bitmap)
    BY <1>11
  <2> HIDE DEF p, u
  <2>4. ApplyAll(nd, p \o u) = ApplyAll(ApplyAll(nd, p), u)
    BY <2>1, ApplyAllConcat
  <2>5. QED
    BY <2>2, <2>3, <2>4 DEF p, u
<1>13. QED
  BY <1>1, <1>9, <1>12 DEF n, keys


-----------------------------------------------------------------------------
(* Inserts *)

\* g is nd with c for the child of b.
Wrote(nd, g, b, c) ==
  /\ Sound(g) /\ g.layout = nd.layout
  /\ g.prefixLen = nd.prefixLen /\ g.prefix = nd.prefix /\ g.exact = nd.exact
  /\ \A x \in Bytes : Child(g, x) = IF x = b THEN c ELSE Child(nd, x)

\* partition_point: the keys below b come before pos.
LEMMA InsertPosIs ==
  ASSUME NEW nd, Sound(nd), Sorted(nd), NEW b \in Bytes
  PROVE  /\ InsertPos(nd, b) \in 0 .. nd.count
         /\ \A i \in 0 .. nd.count - 1 : nd.keys[i] < b <=> i < InsertPos(nd, b)
<1> DEFINE n == nd.count
           T == {i \in 0 .. n : i = n \/ ~(nd.keys[i] < b)}
           B == {i \in 0 .. n - 1 : nd.keys[i] < b}
<1>0. /\ n \in Nat /\ NumChildren(nd) = n /\ n <= Cap[nd.layout]
      /\ nd.keys \in [Slots(nd.layout) -> Bytes] /\ Slots(nd.layout) = 0 .. Cap[nd.layout] - 1
      /\ Cap[nd.layout] \in Nat /\ b \in Nat
  BY NodeTyped, ConstantsOK DEF Sound, Bytes
<1>a. \A i \in 0 .. n - 1 : nd.keys[i] \in Nat
  BY <1>0, ConstantsOK DEF Bytes
<1>1. T \in SUBSET Nat /\ n \in T
  BY <1>0
<1>2. PICK p \in T : \A k \in T : p <= k
  <2> HIDE DEF T
  <2>1. QED
    BY <1>1, LeastNatural
<1>3. p \in 0 .. n
  OBVIOUS
<1>4. ASSUME NEW i \in 0 .. n - 1 PROVE nd.keys[i] < b <=> i < p
  <2>1. CASE i < p
    <3>1. i \notin T
      <4> HIDE DEF T
      <4>1. QED
        BY <1>0, <1>2, <1>3, <2>1
    <3>2. nd.keys[i] < b
      BY <1>0, <3>1
    <3>3. QED
      BY <2>1, <3>2
  <2>2. CASE ~(i < p)
    <3>1. p \in 0 .. n - 1 /\ p <= i
      BY <1>0, <1>3, <2>2
    <3>2. ~(nd.keys[p] < b)
      BY <1>0, <3>1
    <3>3. p = i \/ nd.keys[p] < nd.keys[i]
      BY <1>0, <3>1 DEF Sound, SortedOK
    <3>4. QED
      BY <1>0, <1>a, <2>2, <3>1, <3>2, <3>3, SMTT(30)
  <2>3. QED
    BY <2>1, <2>2
<1>5. B = 0 .. p - 1
  BY <1>0, <1>3, <1>4
<1>6. InsertPos(nd, b) = Cardinality(B)
  BY <1>0 DEF InsertPos
<1> HIDE DEF B
<1>7. InsertPos(nd, b) = p
  BY <1>0, <1>3, <1>5, <1>6, BelowFinite
<1>8. QED
  BY <1>3, <1>4, <1>7

LEMMA InsertSortedSound ==
  ASSUME NEW l, NEW nd, nd.layout = l, Sound(nd), Sorted(nd), nd.count < Cap[l], NEW b \in Bytes,
         Child(nd, b) = Null, NEW V \in SUBSET Ptrs, NEW c \in V, c # Null,
         nd.children \in [Slots(l) -> V]
  PROVE  /\ InsertSorted(nd, b, c) \in Seq(StoresOf(l, V))
         /\ Wrote(nd, ApplyAll(nd, InsertSorted(nd, b, c)), b, c)
<1>n. PICK n, pos : n = nd.count /\ pos = InsertPos(nd, b)
  OBVIOUS
<1> DEFINE K == ShiftUp(nd.keys, Slots(l), n, pos, b)
           C == ShiftUp(nd.children, Slots(l), n, pos, c)
           g == ApplyAll(nd, InsertSorted(nd, b, c))
<1>0. /\ n \in Nat /\ NumChildren(nd) = n /\ n + 1 <= Cap[l] /\ l \in {"Node4", "Node16"} /\ l \in Layouts
      /\ nd.keys \in [Slots(l) -> Bytes] /\ Slots(l) = 0 .. Cap[l] - 1 /\ nd \in NodeOf(l)
      /\ Cap[l] \in Nat /\ b \in Nat /\ nd.children \in [Slots(l) -> Ptrs]
      /\ nd.index \in [Bytes -> 0 .. Empty] /\ nd.bitmap \in [Bytes -> BOOLEAN]
      /\ c \in Ptrs
  BY <1>n, NodeTyped, ConstantsOK, SMTT(30) DEF Sound, Bytes, Sorted
<1>a. \A i \in Slots(l) : nd.keys[i] \in Nat
  BY <1>0, ConstantsOK DEF Bytes
<1>1. pos \in 0 .. n /\ \A i \in 0 .. n - 1 : nd.keys[i] < b <=> i < pos
  BY <1>n, InsertPosIs
<1>2. InsertSorted(nd, b, c) \in Seq(StoresOf(l, V)) /\ g = Body(nd, n + 1, K, C, nd.index, nd.bitmap)
  <2>1. pos \in 0 .. nd.count /\ nd.count < Cap[l]
    BY <1>n, <1>1
  <2>2. l \in {"Node4", "Node16"} /\ nd \in NodeOf(l) /\ pos = InsertPos(nd, b)
    BY <1>n, <1>0
  <2>3. /\ InsertSorted(nd, b, c) \in Seq(StoresOf(l, V))
        /\ ApplyAll(nd, InsertSorted(nd, b, c)) =
              Body(nd, nd.count + 1, ShiftUp(nd.keys, Slots(l), nd.count, pos, b),
                   ShiftUp(nd.children, Slots(l), nd.count, pos, c), nd.index, nd.bitmap)
    BY <2>1, <2>2, InsertSortedDoes, ZenonT(40)
  <2>4. QED
    BY <1>n, <2>3
<1>3. \A i \in Slots(l) :
        /\ i < pos => K[i] = nd.keys[i] /\ C[i] = nd.children[i]
        /\ i = pos => K[i] = b /\ C[i] = c
        /\ i > pos /\ i <= n => K[i] = nd.keys[i - 1] /\ C[i] = nd.children[i - 1]
        /\ i > n => K[i] = nd.keys[i] /\ C[i] = nd.children[i]
  <2>1. \A i \in Slots(l) : i \in Nat /\ pos \in Nat /\ pos <= n
    BY <1>0, <1>1
  <2>2. QED
    BY <1>0, <2>1 DEF ShiftUp
<1>4. K \in [Slots(l) -> Bytes] /\ C \in [Slots(l) -> Ptrs]
  <2>1. ASSUME NEW i \in Slots(l) PROVE K[i] \in Bytes /\ C[i] \in Ptrs
    <3>1. i \in Nat /\ (i > pos => i - 1 \in Slots(l)) /\ (i < pos \/ i = pos \/ (i > pos /\ i <= n) \/ i > n)
      <4>1. pos \in Nat /\ n \in Nat /\ i \in 0 .. Cap[l] - 1 /\ Cap[l] \in Nat
        BY <1>0, <1>1
      <4>2. QED
        BY <1>0, <4>1
    <3> HIDE DEF K, C
    <3>2. QED
      BY <1>0, <1>3, <3>1
  <2>2. K = [i \in Slots(l) |-> K[i]] /\ C = [i \in Slots(l) |-> C[i]]
    BY DEF ShiftUp
  <2> HIDE DEF K, C
  <2>3. QED
    BY <2>1, <2>2
<1> HIDE DEF g
<1>5. /\ g.layout = l /\ g.count = n + 1 /\ g.keys = K /\ g.children = C
      /\ g.prefixLen = nd.prefixLen /\ g.prefix = nd.prefix /\ g.exact = nd.exact
  <2> HIDE DEF K, C
  <2>1. QED
    BY <1>0, <1>2, BodyFields
<1>6. g \in NodeOf(l)
  <2>1. n + 1 \in 0 .. Cap[l]
    BY <1>0
  <2> HIDE DEF K, C
  <2>2. QED
    BY <1>0, <1>2, <1>4, <2>1 DEF NodeOf, Body
<1> HIDE DEF K, C
<1>7. Sorted(g)
  BY <1>5 DEF Sorted
<1>8. \A i \in 0 .. n - 1 : nd.keys[i] # b
  <2>1. ASSUME NEW i \in 0 .. n - 1, nd.keys[i] = b PROVE FALSE
    <3>1. i \in Slots(l) /\ Has(nd, b, i)
      BY <1>n, <1>0, <2>1 DEF Has
    <3>2. QED
      BY <3>1, ChildHas
  <2>2. QED
    BY <2>1
<1>9. SortedOK(g)
  <2>1. ASSUME NEW i \in Slots(l) PROVE C[i] # Null <=> i < n + 1
    <3>0. \A j \in Slots(l) : nd.children[j] # Null <=> j < n
      BY <1>n DEF Sound, SortedOK
    <3>1. i \in Nat /\ (i > pos => i - 1 \in Slots(l)) /\ pos \in Nat /\ pos <= n
      BY <1>0, <1>1
    <3>2. CASE i < pos
      BY <1>0, <1>3, <3>0, <3>1, <3>2
    <3>3. CASE i = pos
      BY <1>0, <1>3, <3>1, <3>3
    <3>4. CASE i > pos /\ i <= n
      BY <1>0, <1>3, <3>0, <3>1, <3>4, SMTT(30)
    <3>5. CASE i > n
      BY <1>0, <1>3, <3>0, <3>1, <3>5
    <3>6. QED
      BY <1>0, <3>1, <3>2, <3>3, <3>4, <3>5
  <2>2. ASSUME NEW i \in 0 .. n, NEW j \in 0 .. n, i < j PROVE K[i] < K[j]
    <3>0. \A x, y \in 0 .. n - 1 : x < y => nd.keys[x] < nd.keys[y]
      BY <1>n DEF Sound, SortedOK
    <3>1. i \in Slots(l) /\ j \in Slots(l) /\ i \in Nat /\ j \in Nat /\ pos \in Nat /\ pos <= n /\ n \in Nat /\ i <= n /\ j <= n
      BY <1>0, <1>1
    <3>2. CASE j < pos
      <4>1. K[i] = nd.keys[i] /\ K[j] = nd.keys[j] /\ i \in 0 .. n - 1 /\ j \in 0 .. n - 1
        BY <1>3, <2>2, <3>1, <3>2
      <4>2. QED
        BY <2>2, <3>0, <4>1
    <3>3. CASE j = pos
      <4>1. K[i] = nd.keys[i] /\ K[j] = b /\ i \in 0 .. n - 1 /\ i < pos
        BY <1>3, <2>2, <3>1, <3>3
      <4>2. QED
        BY <1>1, <4>1
    <3>4. CASE j > pos /\ i < pos
      <4>1. /\ K[i] = nd.keys[i] /\ K[j] = nd.keys[j - 1]
            /\ i \in 0 .. n - 1 /\ j - 1 \in 0 .. n - 1 /\ i < j - 1
        BY <1>3, <2>2, <3>1, <3>4
      <4>2. QED
        BY <3>0, <4>1
    <3>5. CASE j > pos /\ i = pos
      <4>1. K[i] = b /\ K[j] = nd.keys[j - 1] /\ j - 1 \in 0 .. n - 1 /\ ~(j - 1 < pos) /\ j - 1 \in Slots(l)
        BY <1>0, <1>3, <2>2, <3>1, <3>5
      <4>2. ~(nd.keys[j - 1] < b) /\ nd.keys[j - 1] # b
        BY <1>1, <1>8, <4>1
      <4>3. nd.keys[j - 1] \in Nat
        BY <1>a, <4>1
      <4>4. QED
        BY <1>0, <4>1, <4>2, <4>3
    <3>6. CASE j > pos /\ i > pos
      <4>1. /\ K[i] = nd.keys[i - 1] /\ K[j] = nd.keys[j - 1]
            /\ i - 1 \in 0 .. n - 1 /\ j - 1 \in 0 .. n - 1 /\ i - 1 < j - 1
        BY <1>3, <2>2, <3>1, <3>6
      <4>2. QED
        BY <3>0, <4>1
    <3>7. QED
      BY <3>1, <3>2, <3>3, <3>4, <3>5, <3>6
  <2>3. 0 .. g.count - 1 = 0 .. n
    BY <1>0, <1>5
  <2>4. \A i \in Slots(l) : C[i] # Null <=> i < n + 1
    BY <2>1
  <2>5. \A i, j \in 0 .. n : i < j => K[i] < K[j]
    BY <2>2
  <2>6. QED
    BY <1>5, <2>3, <2>4, <2>5, Zenon DEF SortedOK
<1>10. Sound(g)
  <2>1. g.layout # "Node48" /\ g.layout # "Node256"
    BY <1>0, <1>5
  <2>2. QED
    BY <1>0, <1>5, <1>6, <1>9, <2>1 DEF Sound
<1>11. ASSUME NEW x \in Bytes PROVE Child(g, x) = IF x = b THEN c ELSE Child(nd, x)
  <2>0. pos \in Nat /\ pos <= n
    BY <1>0, <1>1
  <2>1. CASE x = b
    <3>1. pos \in Slots(l) /\ pos \in 0 .. (n + 1) - 1 /\ K[pos] = b /\ C[pos] = c
      BY <1>0, <1>1, <1>3, <2>0
    <3>2. Has(g, b, pos)
      BY <1>5, <1>7, <3>1 DEF Has
    <3>3. Child(g, b) = g.children[pos]
      BY <1>10, <3>2, HasSlot
    <3>4. QED
      BY <1>5, <2>1, <3>1, <3>3
  <2>2. CASE x # b /\ Child(nd, x) # Null
    <3>1. PICK i \in Slots(l) : Has(nd, x, i)
      BY <2>2, ChildHas
    <3>2. i \in 0 .. n - 1 /\ nd.keys[i] = x /\ Child(nd, x) = nd.children[i]
      BY <1>n, <3>1, HasSlot DEF Has, Sorted
    <3>3. CASE i < pos
      <4>1. K[i] = x /\ C[i] = nd.children[i] /\ i \in 0 .. (n + 1) - 1
        BY <1>0, <1>3, <3>2, <3>3
      <4>2. Has(g, x, i)
        BY <1>5, <1>7, <4>1 DEF Has
      <4>3. QED
        BY <1>5, <1>10, <2>2, <3>2, <4>1, <4>2, HasSlot
    <3>4. CASE ~(i < pos)
      <4>1. i + 1 \in Slots(l) /\ i + 1 > pos /\ i + 1 <= n /\ i + 1 - 1 = i /\ i + 1 \in 0 .. (n + 1) - 1
        BY <1>0, <1>1, <3>2, <3>4, SMTT(30)
      <4>2. K[i + 1] = x /\ C[i + 1] = nd.children[i]
        BY <1>3, <3>2, <4>1
      <4>3. Has(g, x, i + 1)
        BY <1>5, <1>7, <4>1, <4>2 DEF Has
      <4>4. QED
        BY <1>5, <1>10, <2>2, <3>2, <4>2, <4>3, HasSlot
    <3>5. QED
      BY <3>3, <3>4
  <2>3. CASE x # b /\ Child(nd, x) = Null
    <3>1. \A i \in 0 .. n - 1 : nd.keys[i] # x
      <4>1. ASSUME NEW i \in 0 .. n - 1, nd.keys[i] = x PROVE FALSE
        <5>1. i \in Slots(l) /\ Has(nd, x, i)
          BY <1>n, <1>0, <4>1 DEF Has
        <5>2. QED
          BY <2>3, <5>1, ChildHas
      <4>2. QED
        BY <4>1
    <3>2. ASSUME NEW i \in Slots(l), Has(g, x, i) PROVE FALSE
      <4>1. i \in 0 .. n /\ K[i] = x
        BY <1>0, <1>5, <1>7, <3>2 DEF Has, Sorted
      <4>2. CASE i < pos
        <5>1. i \in 0 .. n - 1 /\ nd.keys[i] = x
          BY <1>0, <1>3, <2>0, <4>1, <4>2
        <5>2. QED
          BY <3>1, <5>1
      <4>3. CASE i = pos
        BY <1>3, <2>3, <4>1, <4>3
      <4>4. CASE i > pos
        <5>1. i - 1 \in 0 .. n - 1 /\ nd.keys[i - 1] = x
          BY <1>0, <1>3, <2>0, <4>1, <4>4
        <5>2. QED
          BY <3>1, <5>1
      <4>5. QED
        BY <2>0, <4>1, <4>2, <4>3, <4>4
    <3>3. Child(g, x) = Null
      BY <1>5, <1>10, <3>2, HasNone
    <3>4. QED
      BY <2>3, <3>3
  <2>4. QED
    BY <2>1, <2>2, <2>3
<1>12. Wrote(nd, g, b, c)
  BY <1>5, <1>10, <1>11 DEF Wrote
<1>13. QED
  BY <1>2, <1>12 DEF g


\* Stores in three parts.
LEMMA ApplyAllParts ==
  ASSUME NEW nd, NEW S, NEW p \in Seq(S), NEW q \in Seq(S), NEW u \in Seq(S)
  PROVE  /\ p \o q \o u \in Seq(S)
         /\ ApplyAll(nd, p \o q \o u) = ApplyAll(ApplyAll(ApplyAll(nd, p), q), u)
<1> DEFINE a == p \o q
<1>1. a \in Seq(S) /\ ApplyAll(nd, a) = ApplyAll(ApplyAll(nd, p), q)
  BY ApplyAllConcat, ConcatProperties
<1> HIDE DEF a
<1>2. a \o u \in Seq(S) /\ ApplyAll(nd, a \o u) = ApplyAll(ApplyAll(nd, a), u)
  BY <1>1, ApplyAllConcat, ConcatProperties
<1>3. QED
  BY <1>1, <1>2 DEF a

\* A Node48 below its capacity has a free slot, however often slots were used
\* and freed before.
LEMMA FreeSlotFree ==
  ASSUME NEW nd, Sound(nd), nd.layout = "Node48", nd.count < Cap["Node48"]
  PROVE  FreeSlot(nd) \in Slots("Node48") /\ nd.children[FreeSlot(nd)] = Null
<1> DEFINE free == {i \in Slots("Node48") : nd.children[i] = Null}
           B == BitsOf(nd)
           f == [x \in B |-> nd.index[x]]
<1>0. /\ Empty \in Nat /\ Slots("Node48") = 0 .. Empty - 1 /\ Cap["Node48"] = Empty
      /\ free \in SUBSET Nat
  BY ConstantsOK, LayoutFacts
<1>1. ASSUME free = {} PROVE FALSE
  <2>1. f \in [B -> Slots("Node48")]
    BY DEF BitsOf, Sound, IndexOK
  <2>2. \A x, y \in B : f[x] = f[y] => x = y
    BY DEF BitsOf, Sound, IndexOK
  <2>3. \A i \in Slots("Node48") : \E x \in B : f[x] = i
    BY <1>1 DEF BitsOf, Sound, IndexOK
  <2>4. IsFiniteSet(B)
    BY BytesFinite DEF BitsOf
  <2> HIDE DEF f, B
  <2>5. Cardinality(Slots("Node48")) = Cardinality(B)
    BY <2>1, <2>2, <2>3, <2>4, SameSize
  <2>6. Cardinality(Slots("Node48")) = Empty
    BY <1>0, BelowFinite, Zenon
  <2>7. nd.count = Cardinality(B)
    BY DEF B, Sound, IndexOK
  <2>8. QED
    BY <1>0, <2>5, <2>6, <2>7
<1>2. FreeSlot(nd) = Min(free)
  BY DEF FreeSlot
<1>3. Min(free) \in free
  <2> HIDE DEF free
  <2>1. QED
    BY <1>0, <1>1, MinOf
<1>4. QED
  BY <1>2, <1>3

\* One bit more, and one bit less.
LEMMA BitSet ==
  ASSUME NEW S \in SUBSET Bytes, NEW b \in Bytes
  PROVE  /\ b \notin S => Cardinality(S \cup {b}) = Cardinality(S) + 1
         /\ b \in S => Cardinality(S \ {b}) = Cardinality(S) - 1
BY BytesFinite, FS_AddElement, FS_RemoveElement

\* insert_child of a Node48.
LEMMA Insert48Sound ==
  ASSUME NEW nd, nd.layout = "Node48", Sound(nd), nd.count < Cap["Node48"], NEW b \in Bytes,
         Child(nd, b) = Null, NEW V \in SUBSET Ptrs, NEW c \in V, c # Null,
         nd.children \in [Slots("Node48") -> V]
  PROVE  /\ InsertIndexed(nd, b, c) \in Seq(StoresOf("Node48", V))
         /\ Wrote(nd, ApplyAll(nd, InsertIndexed(nd, b, c)), b, c)
<1>n. PICK l, slot, n, yes : l = "Node48" /\ slot = FreeSlot(nd) /\ n = nd.count /\ yes = TRUE
  OBVIOUS
<1> DEFINE s1 == St("children", {slot}, c)
           s2 == St("index", {b}, slot)
           s3 == St("bitmap", {b}, yes)
           s4 == St("count", {}, n + 1)
           C == Slot(nd.children, s1)
           I == Slot(nd.index, s2)
           M == Slot(nd.bitmap, s3)
           g == Body(nd, n + 1, nd.keys, C, I, M)
<1>0. /\ n \in Nat /\ NumChildren(nd) = n /\ n + 1 <= Cap[l] /\ l \in Layouts
      /\ nd.keys \in [Slots(l) -> Bytes] /\ nd \in NodeOf(l) /\ nd.layout = l
      /\ Cap[l] \in Nat /\ nd.children \in [Slots(l) -> Ptrs]
      /\ nd.index \in [Bytes -> 0 .. Empty] /\ nd.bitmap \in [Bytes -> BOOLEAN]
      /\ c \in Ptrs /\ Empty \in Nat /\ Slots(l) = 0 .. Empty - 1
  BY <1>n, NodeTyped, ConstantsOK, LayoutFacts DEF Sound
<1>1. slot \in Slots(l) /\ nd.children[slot] = Null /\ slot \in 0 .. Empty /\ slot # Empty
  <2>1. slot \in Slots(l) /\ nd.children[slot] = Null
    BY <1>n, FreeSlotFree
  <2>2. QED
    BY <1>0, <2>1
<1>2. InsertIndexed(nd, b, c) = <<s1>> \o <<s2>> \o <<s3, s4>>
  BY <1>n, <1>0 DEF InsertIndexed
<1>3. /\ s1 \in StoresOf(l, V) /\ s2 \in StoresOf(l, V) /\ s3 \in StoresOf(l, V)
      /\ s4 \in StoresOf(l, V)
  <2>1. n + 1 \in 0 .. Cap[l] /\ {slot} \in SUBSET Slots(l) /\ {b} \in SUBSET Bytes
    BY <1>0, <1>1
  <2>2. QED
    BY <1>n, <1>1, <2>1, StTyped
<1>4. /\ InsertIndexed(nd, b, c) \in Seq(StoresOf(l, V))
      /\ ApplyAll(nd, InsertIndexed(nd, b, c)) = g
  <2>1. Apply(nd, s1) = Body(nd, n, nd.keys, C, nd.index, nd.bitmap)
    BY <1>n, <1>0, BodySelf, BodyApply
  <2> HIDE DEF C
  <2>2. Apply(Body(nd, n, nd.keys, C, nd.index, nd.bitmap), s2) = Body(nd, n, nd.keys, C, I, nd.bitmap)
    BY <1>0, BodyApply
  <2> HIDE DEF I
  <2>3. Apply(Body(nd, n, nd.keys, C, I, nd.bitmap), s3) = Body(nd, n, nd.keys, C, I, M)
    BY <1>0, BodyApply
  <2> HIDE DEF M
  <2>4. Apply(Body(nd, n, nd.keys, C, I, M), s4) = g
    BY <1>0, BodyApply
  <2> DEFINE p == <<s1>>
             q == <<s2>>
             u == <<s3, s4>>
  <2> HIDE DEF s1, s2, s3, s4, g
  <2>5. p \in Seq(StoresOf(l, V)) /\ q \in Seq(StoresOf(l, V)) /\ u \in Seq(StoresOf(l, V))
    BY <1>3
  <2>6. ApplyAll(ApplyAll(ApplyAll(nd, p), q), u) = g
    BY <2>1, <2>2, <2>3, <2>4, ApplyAllOne, ApplyAllTwo
  <2> HIDE DEF p, q, u
  <2>7. /\ p \o q \o u \in Seq(StoresOf(l, V))
        /\ ApplyAll(nd, p \o q \o u) = ApplyAll(ApplyAll(ApplyAll(nd, p), q), u)
    BY <2>5, ApplyAllParts
  <2>8. QED
    BY <1>2, <2>6, <2>7 DEF p, q, u
<1>5. /\ C \in [Slots(l) -> Ptrs]
      /\ \A i \in Slots(l) : C[i] = IF i = slot THEN c ELSE nd.children[i]
  BY <1>0 DEF Slot, St
<1>6. /\ I \in [Bytes -> 0 .. Empty]
      /\ \A x \in Bytes : I[x] = IF x = b THEN slot ELSE nd.index[x]
  BY <1>0, <1>1 DEF Slot, St
<1>7. /\ M \in [Bytes -> BOOLEAN]
      /\ \A x \in Bytes : M[x] = IF x = b THEN TRUE ELSE nd.bitmap[x]
  BY <1>n, <1>0 DEF Slot, St
<1> HIDE DEF C, I, M
<1>8. /\ g.layout = l /\ g.count = n + 1 /\ g.children = C /\ g.index = I /\ g.bitmap = M
      /\ g.prefixLen = nd.prefixLen /\ g.prefix = nd.prefix /\ g.exact = nd.exact
      /\ g \in NodeOf(l)
  <2>1. n + 1 \in 0 .. Cap[l]
    BY <1>0
  <2>2. g \in NodeOf(l)
    BY <1>0, <1>5, <1>6, <1>7, <2>1 DEF NodeOf, Body
  <2>3. QED
    BY <1>0, <2>2, BodyFields
<1> HIDE DEF g
<1>9. ~nd.bitmap[b]
  <2>1. ASSUME nd.bitmap[b] PROVE FALSE
    <3>1. nd.index[b] \in Slots(l) /\ Has(nd, b, nd.index[b])
      BY <1>n, <2>1 DEF Sound, IndexOK, Has
    <3>2. QED
      BY <1>n, <3>1, ChildHas
  <2>2. QED
    BY <2>1
<1>10. IndexOK(nd)
  BY <1>n DEF Sound
<1>11. IndexOK(g)
  <2>1. \A x \in Bytes : M[x] <=> I[x] # Empty
    BY <1>1, <1>6, <1>7, <1>10 DEF IndexOK
  <2>2. ASSUME NEW x \in Bytes, M[x] PROVE I[x] \in Slots(l) /\ C[I[x]] # Null
    <3>1. CASE x = b
      BY <1>1, <1>5, <1>6, <3>1
    <3>2. CASE x # b
      <4>1. nd.bitmap[x] /\ I[x] = nd.index[x]
        BY <1>6, <1>7, <2>2, <3>2
      <4>2. nd.index[x] \in Slots(l) /\ nd.children[nd.index[x]] # Null
        BY <1>0, <1>10, <4>1 DEF IndexOK
      <4>3. QED
        BY <1>5, <4>1, <4>2
    <3>3. QED
      BY <3>1, <3>2
  <2>3. ASSUME NEW i \in Slots(l), C[i] # Null PROVE \E x \in Bytes : M[x] /\ I[x] = i
    <3>1. CASE i = slot
      BY <1>6, <1>7, <3>1
    <3>2. CASE i # slot
      <4>1. nd.children[i] # Null
        BY <1>5, <2>3, <3>2
      <4>2. PICK x \in Bytes : nd.bitmap[x] /\ nd.index[x] = i
        BY <1>0, <1>10, <4>1 DEF IndexOK
      <4>3. QED
        BY <1>6, <1>7, <1>9, <4>2
    <3>3. QED
      BY <3>1, <3>2
  <2>4. ASSUME NEW x \in Bytes, NEW y \in Bytes, M[x], M[y], I[x] = I[y] PROVE x = y
    <3>1. \A z \in Bytes : nd.bitmap[z] => nd.index[z] # slot
      BY <1>1, <1>10 DEF IndexOK
    <3>2. QED
      BY <1>6, <1>7, <1>10, <2>4, <3>1, ZenonT(60) DEF IndexOK
  <2>5. BitsOf(g) = BitsOf(nd) \cup {b} /\ b \notin BitsOf(nd) /\ BitsOf(nd) \in SUBSET Bytes
    BY <1>7, <1>8, <1>9 DEF BitsOf
  <2>6. g.count = Cardinality(BitsOf(g))
    <3>1. n = Cardinality(BitsOf(nd))
      BY <1>n, <1>10 DEF IndexOK
    <3>2. QED
      BY <1>8, <2>5, <3>1, BitSet
  <2>7. QED
    BY <1>8, <2>1, <2>2, <2>3, <2>4, <2>6 DEF IndexOK
<1>12. Sound(g)
  BY <1>n, <1>0, <1>8, <1>11 DEF Sound, Sorted
<1>13. ASSUME NEW x \in Bytes PROVE Child(g, x) = IF x = b THEN c ELSE Child(nd, x)
  <2>1. CASE x = b
    <3>1. Has(g, b, slot)
      BY <1>n, <1>6, <1>7, <1>8 DEF Has
    <3>2. QED
      BY <1>1, <1>5, <1>8, <1>12, <2>1, <3>1, HasSlot
  <2>2. CASE x # b /\ nd.bitmap[x]
    <3>1. Has(nd, x, nd.index[x]) /\ Has(g, x, nd.index[x])
      BY <1>n, <1>6, <1>7, <1>8, <2>2 DEF Has
    <3>2. Child(nd, x) = nd.children[nd.index[x]] /\ Child(g, x) = C[nd.index[x]]
      BY <1>8, <1>12, <3>1, HasSlot
    <3>3. nd.index[x] \in Slots(l) /\ nd.index[x] # slot
      BY <1>0, <1>1, <1>10, <2>2 DEF IndexOK
    <3>4. QED
      BY <1>5, <2>2, <3>2, <3>3
  <2>3. CASE x # b /\ ~nd.bitmap[x]
    <3>1. \A i : ~Has(nd, x, i) /\ ~Has(g, x, i)
      BY <1>n, <1>7, <1>8, <2>3 DEF Has, Sorted
    <3>2. QED
      BY <1>12, <2>3, <3>1, HasNone
  <2>4. QED
    BY <2>1, <2>2, <2>3
<1>14. Wrote(nd, g, b, c)
  BY <1>0, <1>8, <1>12, <1>13 DEF Wrote
<1>15. QED
  BY <1>n, <1>4, <1>14


\* insert_child of a Node256.
LEMMA Insert256Sound ==
  ASSUME NEW nd, nd.layout = "Node256", Sound(nd), nd.count < Cap["Node256"], NEW b \in Bytes,
         Child(nd, b) = Null, NEW V \in SUBSET Ptrs, NEW c \in V, c # Null,
         nd.children \in [Slots("Node256") -> V]
  PROVE  /\ InsertIndexed(nd, b, c) \in Seq(StoresOf("Node256", V))
         /\ Wrote(nd, ApplyAll(nd, InsertIndexed(nd, b, c)), b, c)
<1>n. PICK l, n, yes : l = "Node256" /\ n = nd.count /\ yes = TRUE
  OBVIOUS
<1> DEFINE s1 == St("children", {b}, c)
           s3 == St("bitmap", {b}, yes)
           s4 == St("count", {}, n + 1)
           C == Slot(nd.children, s1)
           M == Slot(nd.bitmap, s3)
           g == Body(nd, n + 1, nd.keys, C, nd.index, M)
<1>0. /\ n \in Nat /\ NumChildren(nd) = n /\ n + 1 <= Cap[l] /\ l \in Layouts
      /\ nd.keys \in [Slots(l) -> Bytes] /\ nd \in NodeOf(l) /\ nd.layout = l
      /\ Cap[l] \in Nat /\ nd.children \in [Slots(l) -> Ptrs]
      /\ nd.index \in [Bytes -> 0 .. Empty] /\ nd.bitmap \in [Bytes -> BOOLEAN]
      /\ c \in Ptrs /\ Slots(l) = Bytes
  BY <1>n, NodeTyped, ConstantsOK, LayoutFacts DEF Sound
<1>2. InsertIndexed(nd, b, c) = <<s1>> \o <<>> \o <<s3, s4>>
  BY <1>n, <1>0 DEF InsertIndexed
<1>3. s1 \in StoresOf(l, V) /\ s3 \in StoresOf(l, V) /\ s4 \in StoresOf(l, V)
  <2>1. n + 1 \in 0 .. Cap[l] /\ {b} \in SUBSET Slots(l) /\ {b} \in SUBSET Bytes
    BY <1>0
  <2>2. QED
    BY <1>n, <2>1, StTyped
<1>4. /\ InsertIndexed(nd, b, c) \in Seq(StoresOf(l, V))
      /\ ApplyAll(nd, InsertIndexed(nd, b, c)) = g
  <2>1. Apply(nd, s1) = Body(nd, n, nd.keys, C, nd.index, nd.bitmap)
    BY <1>n, <1>0, BodySelf, BodyApply
  <2> HIDE DEF C
  <2>3. Apply(Body(nd, n, nd.keys, C, nd.index, nd.bitmap), s3) = Body(nd, n, nd.keys, C, nd.index, M)
    BY <1>0, BodyApply
  <2> HIDE DEF M
  <2>4. Apply(Body(nd, n, nd.keys, C, nd.index, M), s4) = g
    BY <1>0, BodyApply
  <2> DEFINE p == <<s1>>
             q == <<>>
             u == <<s3, s4>>
  <2> HIDE DEF s1, s3, s4, g
  <2>5. p \in Seq(StoresOf(l, V)) /\ q \in Seq(StoresOf(l, V)) /\ u \in Seq(StoresOf(l, V))
    BY <1>3
  <2>6. ApplyAll(ApplyAll(ApplyAll(nd, p), q), u) = g
    BY <2>1, <2>3, <2>4, ApplyAllOne, ApplyAllTwo, ApplyAllNone
  <2> HIDE DEF p, q, u
  <2>7. /\ p \o q \o u \in Seq(StoresOf(l, V))
        /\ ApplyAll(nd, p \o q \o u) = ApplyAll(ApplyAll(ApplyAll(nd, p), q), u)
    BY <2>5, ApplyAllParts
  <2>8. QED
    BY <1>2, <2>6, <2>7 DEF p, q, u
<1>5. /\ C \in [Slots(l) -> Ptrs]
      /\ \A i \in Slots(l) : C[i] = IF i = b THEN c ELSE nd.children[i]
  BY <1>0 DEF Slot, St
<1>7. /\ M \in [Bytes -> BOOLEAN]
      /\ \A x \in Bytes : M[x] = IF x = b THEN TRUE ELSE nd.bitmap[x]
  BY <1>n, <1>0 DEF Slot, St
<1> HIDE DEF C, M
<1>8. /\ g.layout = l /\ g.count = n + 1 /\ g.children = C /\ g.bitmap = M
      /\ g.prefixLen = nd.prefixLen /\ g.prefix = nd.prefix /\ g.exact = nd.exact
      /\ g \in NodeOf(l)
  <2>1. n + 1 \in 0 .. Cap[l]
    BY <1>0
  <2>2. g \in NodeOf(l)
    BY <1>0, <1>5, <1>7, <2>1 DEF NodeOf, Body
  <2>3. QED
    BY <1>0, <2>2, BodyFields
<1> HIDE DEF g
<1>10. DirectOK(nd)
  BY <1>n DEF Sound
<1>9. ~nd.bitmap[b]
  <2>1. ASSUME nd.bitmap[b] PROVE FALSE
    <3>1. b \in Slots(l) /\ Has(nd, b, b)
      BY <1>n, <1>0, <2>1 DEF Has
    <3>2. QED
      BY <1>n, <3>1, ChildHas
  <2>2. QED
    BY <2>1
<1>11. DirectOK(g)
  <2>1. \A x \in Bytes : M[x] <=> C[x] # Null
    BY <1>0, <1>5, <1>7, <1>10 DEF DirectOK
  <2>5. BitsOf(g) = BitsOf(nd) \cup {b} /\ b \notin BitsOf(nd) /\ BitsOf(nd) \in SUBSET Bytes
    BY <1>7, <1>8, <1>9 DEF BitsOf
  <2>6. g.count = Cardinality(BitsOf(g))
    <3>1. n = Cardinality(BitsOf(nd))
      BY <1>n, <1>10 DEF DirectOK
    <3>2. QED
      BY <1>8, <2>5, <3>1, BitSet
  <2>7. QED
    BY <1>8, <2>1, <2>6 DEF DirectOK
<1>12. Sound(g)
  BY <1>n, <1>0, <1>8, <1>11 DEF Sound, Sorted
<1>13. ASSUME NEW x \in Bytes PROVE Child(g, x) = IF x = b THEN c ELSE Child(nd, x)
  <2>1. CASE M[x]
    <3>1. Has(g, x, x)
      BY <1>n, <1>8, <2>1 DEF Has
    <3>2. Child(g, x) = C[x]
      BY <1>8, <1>12, <3>1, HasSlot
    <3>3. CASE x = b
      BY <1>0, <1>5, <3>2, <3>3
    <3>4. CASE x # b
      <4>1. Has(nd, x, x)
        BY <1>n, <1>7, <2>1, <3>4 DEF Has
      <4>2. Child(nd, x) = nd.children[x]
        BY <4>1, HasSlot
      <4>3. QED
        BY <1>0, <1>5, <3>2, <3>4, <4>2
    <3>5. QED
      BY <3>3, <3>4
  <2>2. CASE ~M[x]
    <3>1. x # b /\ \A i : ~Has(nd, x, i) /\ ~Has(g, x, i)
      BY <1>n, <1>7, <1>8, <2>2 DEF Has, Sorted
    <3>2. QED
      BY <1>12, <3>1, HasNone
  <2>3. QED
    BY <2>1, <2>2
<1>14. Wrote(nd, g, b, c)
  BY <1>0, <1>8, <1>12, <1>13 DEF Wrote
<1>15. QED
  BY <1>n, <1>4, <1>14

\* insert_child of a node that is not full, at a byte that has no child.
LEMMA InsertSound ==
  ASSUME NEW nd, Sound(nd), nd.count < Cap[nd.layout], NEW b \in Bytes,
         Child(nd, b) = Null, NEW V \in SUBSET Ptrs, NEW c \in V, c # Null,
         nd.children \in [Slots(nd.layout) -> V]
  PROVE  /\ InsertChild(nd, b, c) \in Seq(StoresOf(nd.layout, V))
         /\ Wrote(nd, ApplyAll(nd, InsertChild(nd, b, c)), b, c)
<1>n. PICK l : l = nd.layout
  OBVIOUS
<1>0. nd.layout = l /\ nd.count < Cap[l] /\ nd.children \in [Slots(l) -> V]
  BY <1>n
<1>1. CASE Sorted(nd)
  <2>1. InsertChild(nd, b, c) = InsertSorted(nd, b, c)
    BY <1>1 DEF InsertChild
  <2>2. /\ InsertSorted(nd, b, c) \in Seq(StoresOf(l, V))
        /\ Wrote(nd, ApplyAll(nd, InsertSorted(nd, b, c)), b, c)
    BY <1>0, <1>1, InsertSortedSound, Zenon
  <2>3. QED
    BY <1>n, <2>1, <2>2
<1>2. CASE nd.layout = "Node48"
  <2>1. InsertChild(nd, b, c) = InsertIndexed(nd, b, c)
    BY <1>2 DEF InsertChild, Sorted
  <2>2. /\ InsertIndexed(nd, b, c) \in Seq(StoresOf("Node48", V))
        /\ Wrote(nd, ApplyAll(nd, InsertIndexed(nd, b, c)), b, c)
    <3>1. nd.count < Cap["Node48"] /\ nd.children \in [Slots("Node48") -> V]
      BY <1>2
    <3>2. QED
      BY <1>2, <3>1, Insert48Sound, Zenon
  <2>3. QED
    BY <1>2, <2>1, <2>2
<1>3. CASE nd.layout = "Node256"
  <2>1. InsertChild(nd, b, c) = InsertIndexed(nd, b, c)
    BY <1>3 DEF InsertChild, Sorted
  <2>2. /\ InsertIndexed(nd, b, c) \in Seq(StoresOf("Node256", V))
        /\ Wrote(nd, ApplyAll(nd, InsertIndexed(nd, b, c)), b, c)
    <3>1. nd.count < Cap["Node256"] /\ nd.children \in [Slots("Node256") -> V]
      BY <1>3
    <3>2. QED
      BY <1>3, <3>1, Insert256Sound, Zenon
  <2>3. QED
    BY <1>3, <2>1, <2>2
<1>4. QED
  BY <1>1, <1>2, <1>3 DEF Sound, Layouts, Sorted

\* replace_child at a byte that has a child.
LEMMA ReplaceSound ==
  ASSUME NEW nd, Sound(nd), NEW b \in Bytes, Child(nd, b) # Null, NEW V \in SUBSET Ptrs,
         NEW c \in V, c # Null, nd.children \in [Slots(nd.layout) -> V]
  PROVE  /\ ReplaceChild(nd, b, c) \in Seq(StoresOf(nd.layout, V))
         /\ Wrote(nd, ApplyAll(nd, ReplaceChild(nd, b, c)), b, c)
<1>n. PICK l, slot : l = nd.layout /\ slot = SlotOf(nd, b)
  OBVIOUS
<1> DEFINE s == St("children", {slot}, c)
           C == Slot(nd.children, s)
           g == Body(nd, nd.count, nd.keys, C, nd.index, nd.bitmap)
<1>0. /\ nd.layout = l /\ l \in Layouts /\ nd \in NodeOf(l)
      /\ nd.count \in 0 .. Cap[l] /\ nd.keys \in [Slots(l) -> Bytes]
      /\ nd.children \in [Slots(l) -> Ptrs] /\ c \in Ptrs
      /\ nd.index \in [Bytes -> 0 .. Empty] /\ nd.bitmap \in [Bytes -> BOOLEAN]
  BY <1>n DEF Sound, NodeOf
<1>1. slot \in Slots(l) /\ Has(nd, b, slot) /\ nd.children[slot] # Null
  <2>1. PICK i \in Slots(nd.layout) : Has(nd, b, i)
    BY ChildHas
  <2>2. i = slot
    BY <1>n, <2>1, HasSlot
  <2>3. QED
    BY <1>n, <2>1, <2>2, HasSlot
<1>2. ReplaceChild(nd, b, c) = <<s>> /\ s \in StoresOf(l, V)
  BY <1>n, <1>1, StTyped DEF ReplaceChild
<1>3. ApplyAll(nd, <<s>>) = g
  <2>1. Apply(nd, s) = g
    BY <1>0, BodySelf, BodyApply
  <2> HIDE DEF s, g
  <2>2. QED
    BY <2>1, ApplyAllOne
<1>4. /\ C \in [Slots(l) -> Ptrs]
      /\ \A i \in Slots(l) : C[i] = IF i = slot THEN c ELSE nd.children[i]
  BY <1>0 DEF Slot, St
<1> HIDE DEF C
<1>5. /\ g.layout = nd.layout /\ g.layout = l /\ g.count = nd.count /\ g.children = C
      /\ g.bitmap = nd.bitmap /\ g.keys = nd.keys /\ g.index = nd.index
      /\ g.prefixLen = nd.prefixLen /\ g.prefix = nd.prefix /\ g.exact = nd.exact
      /\ g \in NodeOf(l)
  <2>1. g \in NodeOf(l)
    BY <1>0, <1>4, BodyType
  <2>2. QED
    BY <1>0, <2>1, BodyFields
<1> HIDE DEF g
<1>6. \A i \in Slots(l) : C[i] # Null <=> nd.children[i] # Null
  BY <1>1, <1>4
<1>7. /\ Sorted(g) <=> Sorted(nd)
      /\ BitsOf(g) = BitsOf(nd) /\ \A x, i : Has(g, x, i) <=> Has(nd, x, i)
  BY <1>5 DEF Sorted, BitsOf, Has
<1>8. Sound(g)
  <2>1. Sorted(nd) => SortedOK(g)
    BY <1>5, <1>6 DEF Sound, SortedOK
  <2>2. ASSUME nd.layout = "Node48" PROVE IndexOK(g)
    <3>1. IndexOK(nd)
      BY <2>2 DEF Sound
    <3>2. \A x \in Bytes : nd.bitmap[x] => nd.index[x] \in Slots(l) /\ C[nd.index[x]] # Null
      BY <1>5, <1>6, <3>1 DEF IndexOK
    <3>3. \A i \in Slots(l) : C[i] # Null => \E x \in Bytes : nd.bitmap[x] /\ nd.index[x] = i
      BY <1>5, <1>6, <3>1 DEF IndexOK
    <3>4. g.count = Cardinality(BitsOf(g))
      BY <1>5, <1>7, <3>1 DEF IndexOK
    <3>5. \A x \in Bytes : nd.bitmap[x] <=> nd.index[x] # Empty
      BY <3>1 DEF IndexOK
    <3>6. \A x, y \in Bytes : nd.bitmap[x] /\ nd.bitmap[y] /\ nd.index[x] = nd.index[y] => x = y
      BY <3>1 DEF IndexOK
    <3>7. QED
      BY <1>5, <3>2, <3>3, <3>4, <3>5, <3>6 DEF IndexOK
  <2>3. nd.layout = "Node256" => DirectOK(g)
    BY <1>5, <1>6, <1>7, LayoutFacts DEF Sound, DirectOK
  <2>4. QED
    BY <1>0, <1>5, <1>7, <2>1, <2>2, <2>3 DEF Sound
<1>9. ASSUME NEW x \in Bytes PROVE Child(g, x) = IF x = b THEN c ELSE Child(nd, x)
  <2>1. CASE Child(nd, x) # Null
    <3>1. PICK i \in Slots(l) : Has(nd, x, i)
      BY <1>0, <2>1, ChildHas
    <3>2. Child(g, x) = C[i] /\ Child(nd, x) = nd.children[i]
      BY <1>5, <1>7, <1>8, <3>1, HasSlot
    <3>3. i = slot <=> x = b
      <4>1. i = slot => x = b
        BY <1>1, <3>1, HasByte
      <4>2. x = b => i = slot
        BY <1>n, <3>1, HasSlot
      <4>3. QED
        BY <4>1, <4>2
    <3>4. QED
      BY <1>4, <3>2, <3>3
  <2>2. CASE Child(nd, x) = Null
    <3>1. x # b
      BY <2>2
    <3>2. \A i \in Slots(l) : ~Has(g, x, i)
      BY <1>0, <1>7, <2>2, ChildHas
    <3>3. QED
      BY <1>5, <1>8, <2>2, <3>1, <3>2, HasNone
  <2>3. QED
    BY <2>1, <2>2
<1>10. Wrote(nd, g, b, c)
  BY <1>5, <1>8, <1>9 DEF Wrote
<1>11. QED
  <2> HIDE DEF s
  <2>1. <<s>> \in Seq(StoresOf(l, V))
    BY <1>2
  <2>2. QED
    BY <1>n, <1>2, <1>3, <1>10, <2>1



-----------------------------------------------------------------------------
(* Removes *)

\* Children that move down one slot, from pos on.
MoveDown(nd, pos) ==
  [j \in 1 .. nd.count - 1 - pos |->
     St("children", {pos + j - 1}, nd.children[pos + j])]

LEMMA MovedDown ==
  ASSUME NEW l \in Layouts, NEW V, NEW nd \in NodeOf(l), nd.children \in [Slots(l) -> V],
         NEW pos \in 0 .. nd.count - 1
  PROVE  /\ MoveDown(nd, pos) \in Seq(StoresOf(l, V))
         /\ ApplyAll(nd, MoveDown(nd, pos)) =
              Body(nd, nd.count, nd.keys,
                   [i \in Slots(l) |-> IF pos <= i /\ i < nd.count - 1 THEN nd.children[i + 1] ELSE nd.children[i]],
                   nd.index, nd.bitmap)
<1>n. PICK n, m, old : n = nd.count /\ m = n - 1 - pos /\ old = nd.children
  OBVIOUS
<1> DEFINE ch(j) == [i \in Slots(l) |-> IF pos <= i /\ i < pos + j THEN old[i + 1] ELSE old[i]]
           st(j) == Body(nd, n, nd.keys, ch(j), nd.index, nd.bitmap)
           f == [j \in 0 .. m |-> st(j)]
           q == MoveDown(nd, pos)
<1>0. /\ n \in Nat /\ m \in Nat /\ Cap[l] \in Nat /\ nd.layout = l /\ pos \in Nat /\ pos + m = n - 1
      /\ Slots(l) = 0 .. Cap[l] - 1 /\ old \in [Slots(l) -> Ptrs] /\ n <= Cap[l]
  <2>1. /\ n \in Nat /\ Cap[l] \in Nat /\ nd.layout = l /\ n <= Cap[l]
        /\ Slots(l) = 0 .. Cap[l] - 1 /\ old \in [Slots(l) -> Ptrs] /\ pos \in 0 .. n - 1
    BY <1>n, ConstantsOK DEF NodeOf, Slots
  <2>2. QED
    BY <1>n, <2>1
<1>1. ASSUME NEW j \in 1 .. m
      PROVE  /\ pos + j - 1 \in Slots(l) /\ pos + j \in Slots(l)
             /\ q[j] = St("children", {pos + j - 1}, old[pos + j])
  <2>1. pos + j - 1 \in Slots(l) /\ pos + j \in Slots(l)
    BY <1>0
  <2>2. q[j] = St("children", {pos + j - 1}, old[pos + j])
    BY <1>n DEF MoveDown
  <2>3. QED
    BY <2>1, <2>2
<1>2. q \in Seq(StoresOf(l, V)) /\ Len(q) = m
  <2>1. ASSUME NEW j \in 1 .. m PROVE q[j] \in StoresOf(l, V)
    <3>1. old[pos + j] \in V /\ {pos + j - 1} \in SUBSET Slots(l)
      BY <1>n, <1>1
    <3>2. q[j] = St("children", {pos + j - 1}, old[pos + j])
      BY <1>1
    <3> HIDE DEF q
    <3>3. QED
      BY <3>1, <3>2, StTyped
  <2>2. q = [j \in 1 .. m |-> q[j]]
    BY <1>n DEF MoveDown
  <2> HIDE DEF q
  <2>3. q \in [1 .. m -> StoresOf(l, V)]
    BY <2>1, <2>2
  <2>4. QED
    BY <1>0, <2>3, SeqFrom
<1>3. ch(0) = old
  <2>1. \A i \in Slots(l) : ~(pos <= i /\ i < pos + 0)
    BY <1>0
  <2>2. old = [i \in Slots(l) |-> old[i]]
    BY <1>0
  <2>3. QED
    BY <2>1, <2>2
<1>4. nd = st(0)
  <2> HIDE DEF ch
  <2>1. QED
    BY <1>n, <1>3, BodySelf
<1>5. ASSUME NEW j \in 1 .. m PROVE Slot(ch(j - 1), q[j]) = ch(j)
  <2>1. \A i \in Slots(l) : ch(j - 1)[i] = IF pos <= i /\ i < pos + (j - 1) THEN old[i + 1] ELSE old[i]
    OBVIOUS
  <2>2. Slot(ch(j - 1), q[j]) = [i \in Slots(l) |-> IF i \in {pos + j - 1} THEN old[pos + j] ELSE ch(j - 1)[i]]
    <3>1. DOMAIN ch(j - 1) = Slots(l)
      OBVIOUS
    <3>2. q[j] = St("children", {pos + j - 1}, old[pos + j])
      BY <1>1
    <3> HIDE DEF q, ch
    <3>3. QED
      BY <3>1, <3>2, SlotIs
  <2>3. ASSUME NEW i \in Slots(l)
        PROVE  (IF i \in {pos + j - 1} THEN old[pos + j] ELSE ch(j - 1)[i])
                 = (IF pos <= i /\ i < pos + j THEN old[i + 1] ELSE old[i])
    <3>1. CASE i = pos + j - 1
      <4>1. pos <= i /\ i < pos + j /\ i + 1 = pos + j
        BY <1>0, <3>1
      <4>2. QED
        BY <3>1, <4>1
    <3>2. CASE i # pos + j - 1
      <4>1. (pos <= i /\ i < pos + (j - 1)) <=> (pos <= i /\ i < pos + j)
        BY <1>0, <3>2
      <4> HIDE DEF ch
      <4>2. QED
        BY <2>1, <3>2, <4>1
    <3>3. QED
      BY <3>1, <3>2
  <2>4. QED
    BY <2>2, <2>3
<1>6. ASSUME NEW j \in 1 .. m PROVE st(j) = Apply(st(j - 1), q[j])
  <2>1. q[j] = St("children", {pos + j - 1}, old[pos + j])
    BY <1>1
  <2>2. Apply(st(j - 1), q[j]) = Body(nd, n, nd.keys, Slot(ch(j - 1), q[j]), nd.index, nd.bitmap)
    <3> HIDE DEF ch, q
    <3>1. QED
      BY <2>1, BodyApply
  <2>3. QED
    BY <1>5, <2>2
<1> HIDE DEF st
<1>7. \A j \in 1 .. Len(q) : f[j] = Apply(f[j - 1], q[j])
  <2>1. ASSUME NEW j \in 1 .. m PROVE f[j] = Apply(f[j - 1], q[j])
    <3>1. j \in 0 .. m /\ j - 1 \in 0 .. m
      BY <1>0
    <3>2. f[j] = st(j) /\ f[j - 1] = st(j - 1)
      BY <3>1
    <3> HIDE DEF f
    <3>3. QED
      BY <1>6, <3>2
  <2>2. QED
    BY <1>2, <2>1
<1>8. f[0] = nd /\ f[Len(q)] = st(m)
  BY <1>0, <1>2, <1>4
<1> HIDE DEF f
<1>9. ApplyAll(nd, q) = st(m)
  <2>1. Len(q) \in Nat
    BY <1>0, <1>2
  <2> HIDE DEF q
  <2>2. QED
    BY <1>7, <1>8, <2>1, ApplyAllRun
<1>10. QED
  BY <1>n, <1>0, <1>2, <1>9 DEF st

LEMMA RemoveSortedAre ==
  ASSUME NEW nd, NumChildren(nd) = nd.count, NEW b
  PROVE  RemoveSorted(nd, b) =
           MoveDown(nd, SlotOf(nd, b)) \o <<St("children", {nd.count - 1}, Null)>>
           \o StoreKeys(nd, ShiftDown(nd.keys, Slots(nd.layout), nd.count, SlotOf(nd, b), 0))
           \o <<St("count", {}, nd.count - 1)>>
BY Zenon DEF RemoveSorted, MoveDown, ShiftDown

\* remove_child of the sorted layouts: keys and children after pos move down.
LEMMA RemoveSortedDoes ==
  ASSUME NEW l \in {"Node4", "Node16"}, NEW V \in SUBSET Ptrs, NEW nd \in NodeOf(l),
         nd.children \in [Slots(l) -> V], NEW b \in Bytes, Null \in V,
         NEW pos \in 0 .. nd.count - 1, pos = SlotOf(nd, b)
  PROVE  /\ RemoveSorted(nd, b) \in Seq(StoresOf(l, V))
         /\ ApplyAll(nd, RemoveSorted(nd, b)) =
              Body(nd, nd.count - 1, ShiftDown(nd.keys, Slots(l), nd.count, pos, 0),
                   ShiftDown(nd.children, Slots(l), nd.count, pos, Null), nd.index, nd.bitmap)
<1>n. PICK n : n = nd.count
  OBVIOUS
<1> DEFINE keys == ShiftDown(nd.keys, Slots(l), n, pos, 0)
           ch1 == [i \in Slots(l) |-> IF pos <= i /\ i < n - 1 THEN nd.children[i + 1] ELSE nd.children[i]]
           ch2 == ShiftDown(nd.children, Slots(l), n, pos, Null)
           s == St("children", {n - 1}, Null)
           t == St("count", {}, n - 1)
           q1 == MoveDown(nd, pos)
           q2 == StoreKeys(nd, keys)
<1>0. /\ l \in Layouts /\ n \in Nat /\ Cap[l] \in Nat /\ nd.layout = l /\ NumChildren(nd) = n
      /\ Slots(l) = 0 .. Cap[l] - 1 /\ nd.keys \in [Slots(l) -> Bytes] /\ n <= Cap[l]
      /\ nd.children \in [Slots(l) -> Ptrs] /\ pos \in 0 .. n - 1 /\ n - 1 \in Nat /\ 0 \in Bytes
  BY <1>n, ConstantsOK, SMTT(30) DEF NodeOf, Slots, Layouts, NumChildren, Clamp
<1>1. RemoveSorted(nd, b) = (q1 \o <<s>> \o q2) \o <<t>>
  <2>1. NumChildren(nd) = nd.count
    BY <1>n, <1>0
  <2>2. RemoveSorted(nd, b) =
           MoveDown(nd, SlotOf(nd, b)) \o <<St("children", {nd.count - 1}, Null)>>
           \o StoreKeys(nd, ShiftDown(nd.keys, Slots(nd.layout), nd.count, SlotOf(nd, b), 0))
           \o <<St("count", {}, nd.count - 1)>>
    BY <2>1, RemoveSortedAre, Zenon
  <2>3. SlotOf(nd, b) = pos /\ Slots(nd.layout) = Slots(l) /\ nd.count = n
    BY <1>n, <1>0
  <2>4. QED
    BY <2>2, <2>3, Zenon
<1>2. keys \in [Slots(l) -> Bytes]
  <2>1. ASSUME NEW i \in Slots(l)
        PROVE  (IF i < pos THEN nd.keys[i] ELSE IF i < n - 1 THEN nd.keys[i + 1] ELSE IF i = n - 1 THEN 0 ELSE nd.keys[i])
                 \in Bytes
    <3>1. i < n - 1 => i + 1 \in Slots(l)
      BY <1>0
    <3>2. QED
      BY <1>0, <3>1
  <2>2. QED
    BY <2>1 DEF ShiftDown
<1>3. /\ q1 \in Seq(StoresOf(l, V))
      /\ ApplyAll(nd, q1) = Body(nd, n, nd.keys, ch1, nd.index, nd.bitmap)
  BY <1>n, <1>0, MovedDown, ZenonT(40)
<1>4. s \in StoresOf(l, V) /\ t \in StoresOf(l, V)
  <2>1. {n - 1} \in SUBSET Slots(l) /\ n - 1 \in 0 .. Cap[l]
    BY <1>0
  <2>2. QED
    BY <2>1, StTyped
<1>5. Slot(ch1, s) = ch2
  <2>1. Slot(ch1, s) = [i \in Slots(l) |-> IF i \in {n - 1} THEN Null ELSE ch1[i]]
    <3>1. DOMAIN ch1 = Slots(l)
      OBVIOUS
    <3> HIDE DEF ch1
    <3>2. QED
      BY <3>1, SlotIs
  <2>2. ASSUME NEW i \in Slots(l)
        PROVE  (IF i \in {n - 1} THEN Null ELSE ch1[i]) =
               (IF i < pos THEN nd.children[i] ELSE IF i < n - 1 THEN nd.children[i + 1]
                ELSE IF i = n - 1 THEN Null ELSE nd.children[i])
    BY <1>0
  <2> HIDE DEF ch1
  <2>3. QED
    BY <2>1, <2>2 DEF ShiftDown
<1> HIDE DEF ch1
<1>6. Apply(Body(nd, n, nd.keys, ch1, nd.index, nd.bitmap), s) =
        Body(nd, n, nd.keys, ch2, nd.index, nd.bitmap)
  <2> HIDE DEF ch2
  <2>1. QED
    BY <1>5, BodyApply
<1> HIDE DEF keys, ch2
<1>7. /\ q2 \in Seq(StoresOf(l, V))
      /\ ApplyAll(Body(nd, n, nd.keys, ch2, nd.index, nd.bitmap), q2) = Body(nd, n, keys, ch2, nd.index, nd.bitmap)
  <2>1. nd.keys \in KeysOf(l) /\ keys \in KeysOf(l)
    BY <1>0, <1>2 DEF KeysOf
  <2>2. QED
    BY <2>1, StoreKeysAll, SMTT(30)
<1>8. Apply(Body(nd, n, keys, ch2, nd.index, nd.bitmap), t) = Body(nd, n - 1, keys, ch2, nd.index, nd.bitmap)
  BY BodyApply
<1> DEFINE p == <<s>>
           u == <<t>>
<1> HIDE DEF s, t
<1>9. /\ p \in Seq(StoresOf(l, V)) /\ u \in Seq(StoresOf(l, V))
      /\ \A x : ApplyAll(x, p) = Apply(x, s) /\ ApplyAll(x, u) = Apply(x, t)
  BY <1>4, ApplyAllOne
<1> HIDE DEF p, u, q1, q2
<1> DEFINE a == q1 \o p \o q2
<1>10. a \in Seq(StoresOf(l, V)) /\ ApplyAll(nd, a) = ApplyAll(ApplyAll(ApplyAll(nd, q1), p), q2)
  BY <1>3, <1>7, <1>9, ApplyAllParts
<1>11. RemoveSorted(nd, b) = a \o u
  BY <1>1 DEF p, u
<1> HIDE DEF a
<1>12. a \o u \in Seq(StoresOf(l, V)) /\ ApplyAll(nd, a \o u) = ApplyAll(ApplyAll(nd, a), u)
  BY <1>9, <1>10, ApplyAllConcat, ConcatProperties
<1>13. ApplyAll(nd, a \o u) = Body(nd, n - 1, keys, ch2, nd.index, nd.bitmap)
  BY <1>3, <1>6, <1>7, <1>8, <1>9, <1>10, <1>12
<1>14. QED
  BY <1>n, <1>11, <1>12, <1>13 DEF keys, ch2


LEMMA RemoveSortedSound ==
  ASSUME NEW l, NEW nd, nd.layout = l, Sound(nd), Sorted(nd), NEW b \in Bytes,
         Child(nd, b) # Null, NEW V \in SUBSET Ptrs, Null \in V,
         nd.children \in [Slots(l) -> V]
  PROVE  /\ RemoveSorted(nd, b) \in Seq(StoresOf(l, V))
         /\ Wrote(nd, ApplyAll(nd, RemoveSorted(nd, b)), b, Null)
<1>n. PICK n, pos : n = nd.count /\ pos = SlotOf(nd, b)
  OBVIOUS
<1> DEFINE K == ShiftDown(nd.keys, Slots(l), n, pos, 0)
           C == ShiftDown(nd.children, Slots(l), n, pos, Null)
           g == ApplyAll(nd, RemoveSorted(nd, b))
<1>0. /\ n \in Nat /\ NumChildren(nd) = n /\ n <= Cap[l] /\ l \in {"Node4", "Node16"} /\ l \in Layouts
      /\ nd.keys \in [Slots(l) -> Bytes] /\ Slots(l) = 0 .. Cap[l] - 1 /\ nd \in NodeOf(l)
      /\ Cap[l] \in Nat /\ b \in Nat /\ nd.children \in [Slots(l) -> Ptrs]
      /\ nd.index \in [Bytes -> 0 .. Empty] /\ nd.bitmap \in [Bytes -> BOOLEAN]
      /\ 0 \in Bytes /\ Null \in Ptrs
  BY <1>n, NodeTyped, ConstantsOK, SMTT(30) DEF Sound, Bytes, Sorted
<1>a. \A i \in Slots(l) : nd.keys[i] \in Nat
  BY <1>0, ConstantsOK DEF Bytes
<1>b. /\ \A j \in Slots(l) : nd.children[j] # Null <=> j < n
      /\ \A x, y \in 0 .. n - 1 : x < y => nd.keys[x] < nd.keys[y]
  BY <1>n DEF Sound, SortedOK
<1>1. pos \in 0 .. n - 1 /\ nd.keys[pos] = b /\ pos \in Slots(l) /\ Has(nd, b, pos)
  <2>1. PICK i \in Slots(l) : Has(nd, b, i)
    BY ChildHas
  <2>2. i = pos
    BY <1>n, <2>1, HasSlot
  <2>3. QED
    BY <1>n, <2>1, <2>2 DEF Has, Sorted
<1>2. RemoveSorted(nd, b) \in Seq(StoresOf(l, V)) /\ g = Body(nd, n - 1, K, C, nd.index, nd.bitmap)
  <2>1. pos \in 0 .. nd.count - 1
    BY <1>n, <1>1
  <2>2. l \in {"Node4", "Node16"} /\ nd \in NodeOf(l) /\ pos = SlotOf(nd, b)
    BY <1>n, <1>0
  <2>3. /\ RemoveSorted(nd, b) \in Seq(StoresOf(l, V))
        /\ ApplyAll(nd, RemoveSorted(nd, b)) =
              Body(nd, nd.count - 1, ShiftDown(nd.keys, Slots(l), nd.count, pos, 0),
                   ShiftDown(nd.children, Slots(l), nd.count, pos, Null), nd.index, nd.bitmap)
    BY <2>1, <2>2, RemoveSortedDoes
  <2>4. QED
    BY <1>n, <2>3
<1>c. pos \in Nat /\ pos < n /\ n - 1 \in Nat /\ n \in Nat /\ \A i \in Slots(l) : i \in Nat /\ i < Cap[l]
  BY <1>0, <1>1
<1>3. \A i \in Slots(l) :
        /\ i < pos => K[i] = nd.keys[i] /\ C[i] = nd.children[i]
        /\ i >= pos /\ i < n - 1 => K[i] = nd.keys[i + 1] /\ C[i] = nd.children[i + 1]
        /\ i = n - 1 => K[i] = 0 /\ C[i] = Null
        /\ i > n - 1 => K[i] = nd.keys[i] /\ C[i] = nd.children[i]
  BY <1>c DEF ShiftDown
<1>d. \A i \in Slots(l) : i < n - 1 => i + 1 \in Slots(l)
  BY <1>0
<1>4. K \in [Slots(l) -> Bytes] /\ C \in [Slots(l) -> Ptrs]
  <2>1. ASSUME NEW i \in Slots(l) PROVE K[i] \in Bytes /\ C[i] \in Ptrs
    <3>1. i < pos \/ (i >= pos /\ i < n - 1) \/ i = n - 1 \/ i > n - 1
      BY <1>c
    <3> HIDE DEF K, C
    <3>2. QED
      BY <1>0, <1>3, <1>d, <3>1
  <2>2. K = [i \in Slots(l) |-> K[i]] /\ C = [i \in Slots(l) |-> C[i]]
    BY DEF ShiftDown
  <2> HIDE DEF K, C
  <2>3. QED
    BY <2>1, <2>2
<1> HIDE DEF g
<1> HIDE DEF K, C
<1>5. /\ g.layout = l /\ g.count = n - 1 /\ g.keys = K /\ g.children = C
      /\ g.prefixLen = nd.prefixLen /\ g.prefix = nd.prefix /\ g.exact = nd.exact
  BY <1>0, <1>2, BodyFields
<1>6. g \in NodeOf(l)
  <2>1. n - 1 \in 0 .. Cap[l]
    BY <1>0, <1>c
  <2>2. QED
    BY <1>0, <1>2, <1>4, <2>1 DEF NodeOf, Body
<1>7. Sorted(g)
  BY <1>5 DEF Sorted
<1>8. ASSUME NEW i \in 0 .. n - 2
      PROVE  /\ i \in Slots(l) /\ i \in Nat /\ i < n - 1
             /\ i < pos => K[i] = nd.keys[i] /\ C[i] = nd.children[i]
             /\ ~(i < pos) => K[i] = nd.keys[i + 1] /\ C[i] = nd.children[i + 1]
  <2>1. i \in Slots(l) /\ i \in Nat /\ i < n - 1 /\ (~(i < pos) => i >= pos)
    <3>1. i \in Nat /\ i < n - 1 /\ i < Cap[l]
      BY <1>0, <1>c
    <3>2. QED
      BY <1>0, <1>c, <3>1
  <2>2. QED
    BY <1>3, <2>1
<1>9. SortedOK(g)
  <2>1. ASSUME NEW i \in Slots(l) PROVE C[i] # Null <=> i < n - 1
    <3>1. i \in Nat
      BY <1>c
    <3>2. CASE i < pos
      BY <1>b, <1>c, <1>3, <3>1, <3>2
    <3>3. CASE i >= pos /\ i < n - 1
      BY <1>b, <1>c, <1>d, <1>3, <3>1, <3>3
    <3>4. CASE i = n - 1
      BY <1>c, <1>3, <3>1, <3>4
    <3>5. CASE i > n - 1
      BY <1>b, <1>c, <1>3, <3>1, <3>5
    <3>6. QED
      BY <1>c, <3>1, <3>2, <3>3, <3>4, <3>5
  <2>2. ASSUME NEW i \in 0 .. n - 2, NEW j \in 0 .. n - 2, i < j PROVE K[i] < K[j]
    <3>1. /\ i \in Nat /\ j \in Nat /\ i < n - 1 /\ j < n - 1
          /\ i \in 0 .. n - 1 /\ j \in 0 .. n - 1 /\ i + 1 \in 0 .. n - 1 /\ j + 1 \in 0 .. n - 1
          /\ i < j + 1 /\ i + 1 < j + 1
      BY <1>c, <2>2
    <3>2. CASE i < pos /\ j < pos
      BY <1>b, <1>8, <2>2, <3>1, <3>2
    <3>3. CASE i < pos /\ ~(j < pos)
      BY <1>b, <1>8, <2>2, <3>1, <3>3
    <3>4. CASE ~(i < pos) /\ ~(j < pos)
      BY <1>b, <1>8, <2>2, <3>1, <3>4
    <3>5. QED
      BY <1>c, <2>2, <3>1, <3>2, <3>3, <3>4
  <2>3. 0 .. g.count - 1 = 0 .. n - 2
    BY <1>c, <1>5
  <2>4. \A i \in Slots(l) : C[i] # Null <=> i < n - 1
    BY <2>1
  <2>5. \A i, j \in 0 .. n - 2 : i < j => K[i] < K[j]
    BY <2>2
  <2>6. QED
    BY <1>5, <2>3, <2>4, <2>5, Zenon DEF SortedOK
<1>10. Sound(g)
  <2>1. g.layout # "Node48" /\ g.layout # "Node256"
    BY <1>0, <1>5
  <2>2. QED
    BY <1>0, <1>5, <1>6, <1>9, <2>1 DEF Sound
<1>e. 0 .. g.count - 1 = 0 .. n - 2
  BY <1>c, <1>5
<1>11. ASSUME NEW x \in Bytes PROVE Child(g, x) = IF x = b THEN Null ELSE Child(nd, x)
  <2>2. CASE x # b /\ Child(nd, x) # Null
    <3>1. PICK i \in Slots(l) : Has(nd, x, i)
      BY <2>2, ChildHas
    <3>2. i \in 0 .. n - 1 /\ nd.keys[i] = x /\ Child(nd, x) = nd.children[i] /\ i # pos
      BY <1>n, <1>1, <2>2, <3>1, HasSlot DEF Has, Sorted
    <3>3. CASE i < pos
      <4>1. i \in 0 .. n - 2
        BY <1>c, <3>2, <3>3
      <4>2. K[i] = x /\ C[i] = nd.children[i]
        BY <1>8, <3>2, <3>3, <4>1
      <4>3. Has(g, x, i)
        BY <1>5, <1>7, <1>e, <4>1, <4>2 DEF Has
      <4>4. QED
        BY <1>5, <1>10, <2>2, <3>2, <4>2, <4>3, HasSlot
    <3>4. CASE ~(i < pos)
      <4>1. i - 1 \in 0 .. n - 2 /\ ~(i - 1 < pos) /\ (i - 1) + 1 = i
        BY <1>c, <3>2, <3>4
      <4>2. K[i - 1] = x /\ C[i - 1] = nd.children[i]
        BY <1>8, <3>2, <4>1
      <4>3. Has(g, x, i - 1)
        BY <1>5, <1>7, <1>e, <4>1, <4>2 DEF Has
      <4>4. QED
        BY <1>5, <1>10, <2>2, <3>2, <4>2, <4>3, HasSlot
    <3>5. QED
      BY <3>3, <3>4
  <2>3. CASE x = b \/ Child(nd, x) = Null
    <3>1. \A i \in 0 .. n - 1 : nd.keys[i] = x => i = pos
      <4>1. ASSUME NEW i \in 0 .. n - 1, nd.keys[i] = x PROVE i = pos
        <5>1. i \in Slots(l) /\ Has(nd, x, i)
          BY <1>n, <1>0, <4>1 DEF Has
        <5>2. x = b
          BY <2>3, <5>1, ChildHas
        <5>3. QED
          BY <1>n, <5>1, <5>2, HasSlot
      <4>2. QED
        BY <4>1
    <3>2. ASSUME NEW i \in Slots(l), Has(g, x, i) PROVE FALSE
      <4>1. i \in 0 .. n - 2 /\ K[i] = x
        BY <1>5, <1>7, <1>e, <3>2 DEF Has, Sorted
      <4>2. i \in 0 .. n - 1 /\ i + 1 \in 0 .. n - 1 /\ i # i + 1 /\ (~(i < pos) => i + 1 # pos)
        BY <1>c, <4>1
      <4>3. CASE i < pos
        BY <1>8, <1>c, <3>1, <4>1, <4>2, <4>3
      <4>4. CASE ~(i < pos)
        BY <1>8, <3>1, <4>1, <4>2, <4>4
      <4>5. QED
        BY <4>3, <4>4
    <3>3. Child(g, x) = Null
      BY <1>5, <1>10, <3>2, HasNone
    <3>4. QED
      BY <2>3, <3>3
  <2>4. QED
    BY <2>2, <2>3
<1>12. Wrote(nd, g, b, Null)
  BY <1>5, <1>10, <1>11 DEF Wrote
<1>13. QED
  BY <1>2, <1>12 DEF g

\* remove_child of a Node48.
LEMMA Remove48Sound ==
  ASSUME NEW nd, nd.layout = "Node48", Sound(nd), NEW b \in Bytes,
         Child(nd, b) # Null, NEW V \in SUBSET Ptrs, Null \in V,
         nd.children \in [Slots("Node48") -> V]
  PROVE  /\ RemoveIndexed(nd, b) \in Seq(StoresOf("Node48", V))
         /\ Wrote(nd, ApplyAll(nd, RemoveIndexed(nd, b)), b, Null)
<1>n. PICK l, slot, n, m, no :
        l = "Node48" /\ slot = SlotOf(nd, b) /\ n = nd.count /\ m = n - 1 /\ no = FALSE
  OBVIOUS
<1> DEFINE s1 == St("index", {b}, Empty)
           s2 == St("bitmap", {b}, no)
           s3 == St("children", {slot}, Null)
           s4 == St("count", {}, m)
           I == Slot(nd.index, s1)
           M == Slot(nd.bitmap, s2)
           C == Slot(nd.children, s3)
           g == Body(nd, m, nd.keys, C, I, M)
<1>0. /\ n \in Nat /\ NumChildren(nd) = n /\ n <= Cap[l] /\ l \in Layouts
      /\ nd.keys \in [Slots(l) -> Bytes] /\ nd \in NodeOf(l) /\ nd.layout = l
      /\ Cap[l] \in Nat /\ nd.children \in [Slots(l) -> Ptrs]
      /\ nd.index \in [Bytes -> 0 .. Empty] /\ nd.bitmap \in [Bytes -> BOOLEAN]
      /\ Null \in Ptrs /\ Empty \in Nat /\ Slots(l) = 0 .. Empty - 1 /\ Empty \in 0 .. Empty
  BY <1>n, NodeTyped, ConstantsOK, LayoutFacts DEF Sound
<1>10. IndexOK(nd)
  BY <1>n DEF Sound
<1>1. /\ slot \in Slots(l) /\ nd.children[slot] # Null /\ nd.bitmap[b] /\ nd.index[b] = slot
  <2>1. PICK i \in Slots(l) : Has(nd, b, i)
    BY <1>0, ChildHas
  <2>2. i = slot /\ nd.children[i] # Null
    BY <1>n, <2>1, HasSlot
  <2>3. QED
    BY <1>n, <2>1, <2>2 DEF Has, Sorted
<1>9. /\ BitsOf(nd) \in SUBSET Bytes /\ b \in BitsOf(nd) /\ n = Cardinality(BitsOf(nd))
      /\ Cardinality(BitsOf(nd) \ {b}) = m /\ m \in 0 .. Cap[l]
  <2>1. BitsOf(nd) \in SUBSET Bytes /\ b \in BitsOf(nd) /\ n = Cardinality(BitsOf(nd))
    BY <1>n, <1>1, <1>10 DEF BitsOf, IndexOK
  <2>2. Cardinality(BitsOf(nd) \ {b}) = n - 1 /\ Cardinality(BitsOf(nd) \ {b}) \in Nat
    <3>1. BitsOf(nd) \ {b} \in SUBSET Bytes
      BY <2>1
    <3>2. QED
      BY <2>1, <3>1, BitSet, BytesFinite
  <2>3. QED
    BY <1>n, <1>0, <2>1, <2>2
<1>2. RemoveIndexed(nd, b) = (<<s1>> \o <<s2>> \o <<s3>>) \o <<s4>>
  BY <1>n, <1>0 DEF RemoveIndexed
<1>3. /\ s1 \in StoresOf(l, V) /\ s2 \in StoresOf(l, V) /\ s3 \in StoresOf(l, V)
      /\ s4 \in StoresOf(l, V)
  <2>1. {slot} \in SUBSET Slots(l) /\ {b} \in SUBSET Bytes
    BY <1>1
  <2>2. QED
    BY <1>n, <1>0, <1>9, <2>1, StTyped
<1>4. /\ RemoveIndexed(nd, b) \in Seq(StoresOf(l, V))
      /\ ApplyAll(nd, RemoveIndexed(nd, b)) = g
  <2>1. Apply(nd, s1) = Body(nd, n, nd.keys, nd.children, I, nd.bitmap)
    BY <1>n, <1>0, BodySelf, BodyApply
  <2> HIDE DEF I
  <2>2. Apply(Body(nd, n, nd.keys, nd.children, I, nd.bitmap), s2) = Body(nd, n, nd.keys, nd.children, I, M)
    BY <1>0, BodyApply
  <2> HIDE DEF M
  <2>3. Apply(Body(nd, n, nd.keys, nd.children, I, M), s3) = Body(nd, n, nd.keys, C, I, M)
    BY <1>0, BodyApply
  <2> HIDE DEF C
  <2>4. Apply(Body(nd, n, nd.keys, C, I, M), s4) = g
    BY <1>0 DEF NodeOf, Body, Apply, St
  <2> DEFINE p == <<s1>>
             q == <<s2>>
             o == <<s3>>
             u == <<s4>>
  <2> HIDE DEF s1, s2, s3, s4, g
  <2>5. /\ p \in Seq(StoresOf(l, V)) /\ q \in Seq(StoresOf(l, V)) /\ o \in Seq(StoresOf(l, V))
        /\ u \in Seq(StoresOf(l, V))
    BY <1>3
  <2>6. ApplyAll(ApplyAll(ApplyAll(ApplyAll(nd, p), q), o), u) = g
    BY <2>1, <2>2, <2>3, <2>4, ApplyAllOne
  <2> HIDE DEF p, q, o, u
  <2> DEFINE a == p \o q \o o
  <2>7. /\ a \in Seq(StoresOf(l, V))
        /\ ApplyAll(nd, a) = ApplyAll(ApplyAll(ApplyAll(nd, p), q), o)
    BY <2>5, ApplyAllParts
  <2>8. RemoveIndexed(nd, b) = a \o u
    BY <1>2 DEF p, q, o, u
  <2> HIDE DEF a
  <2>9. a \o u \in Seq(StoresOf(l, V)) /\ ApplyAll(nd, a \o u) = ApplyAll(ApplyAll(nd, a), u)
    BY <2>5, <2>7, ApplyAllConcat, ConcatProperties
  <2>10. QED
    BY <2>6, <2>7, <2>8, <2>9
<1>5. /\ C \in [Slots(l) -> Ptrs]
      /\ \A i \in Slots(l) : C[i] = IF i = slot THEN Null ELSE nd.children[i]
  BY <1>0 DEF Slot, St
<1>6. /\ I \in [Bytes -> 0 .. Empty]
      /\ \A x \in Bytes : I[x] = IF x = b THEN Empty ELSE nd.index[x]
  BY <1>0 DEF Slot, St
<1>7. /\ M \in [Bytes -> BOOLEAN]
      /\ \A x \in Bytes : M[x] = IF x = b THEN FALSE ELSE nd.bitmap[x]
  BY <1>n, <1>0 DEF Slot, St
<1> HIDE DEF C, I, M
<1>8. /\ g.layout = l /\ g.count = m /\ g.children = C /\ g.index = I /\ g.bitmap = M
      /\ g.prefixLen = nd.prefixLen /\ g.prefix = nd.prefix /\ g.exact = nd.exact
      /\ g \in NodeOf(l)
  <2>1. g \in NodeOf(l)
    BY <1>0, <1>5, <1>6, <1>7, <1>9 DEF NodeOf, Body
  <2>2. QED
    BY <1>0, <2>1, BodyFields
<1> HIDE DEF g
<1>b. \A z \in Bytes : z # b /\ nd.bitmap[z] => nd.index[z] # slot
  BY <1>1, <1>10 DEF IndexOK
<1>11. IndexOK(g)
  <2>1. \A x \in Bytes : M[x] <=> I[x] # Empty
    BY <1>6, <1>7, <1>10 DEF IndexOK
  <2>2. ASSUME NEW x \in Bytes, M[x] PROVE I[x] \in Slots(l) /\ C[I[x]] # Null
    <3>1. x # b /\ nd.bitmap[x] /\ I[x] = nd.index[x]
      BY <1>6, <1>7, <2>2
    <3>2. nd.index[x] \in Slots(l) /\ nd.children[nd.index[x]] # Null
      BY <1>0, <1>10, <3>1 DEF IndexOK
    <3>3. QED
      BY <1>5, <1>b, <3>1, <3>2
  <2>3. ASSUME NEW i \in Slots(l), C[i] # Null PROVE \E x \in Bytes : M[x] /\ I[x] = i
    <3>1. i # slot /\ nd.children[i] # Null
      BY <1>5, <2>3
    <3>2. PICK x \in Bytes : nd.bitmap[x] /\ nd.index[x] = i
      BY <1>0, <1>10, <3>1 DEF IndexOK
    <3>3. QED
      BY <1>1, <1>6, <1>7, <3>1, <3>2
  <2>4. ASSUME NEW x \in Bytes, NEW y \in Bytes, M[x], M[y], I[x] = I[y] PROVE x = y
    BY <1>6, <1>7, <1>10, <2>4, ZenonT(60) DEF IndexOK
  <2>5. BitsOf(g) = BitsOf(nd) \ {b}
    BY <1>7, <1>8 DEF BitsOf
  <2>6. g.count = Cardinality(BitsOf(g))
    BY <1>8, <1>9, <2>5
  <2>7. QED
    BY <1>8, <2>1, <2>2, <2>3, <2>4, <2>6 DEF IndexOK
<1>12. Sound(g)
  BY <1>n, <1>0, <1>8, <1>11 DEF Sound, Sorted
<1>13. ASSUME NEW x \in Bytes PROVE Child(g, x) = IF x = b THEN Null ELSE Child(nd, x)
  <2>1. CASE x = b \/ ~nd.bitmap[x]
    <3>1. \A i : ~Has(g, x, i) /\ (x # b => ~Has(nd, x, i))
      BY <1>n, <1>7, <1>8, <2>1 DEF Has, Sorted
    <3>2. QED
      BY <1>12, <3>1, HasNone
  <2>2. CASE x # b /\ nd.bitmap[x]
    <3>1. Has(nd, x, nd.index[x]) /\ Has(g, x, nd.index[x])
      BY <1>n, <1>6, <1>7, <1>8, <2>2 DEF Has
    <3>2. Child(nd, x) = nd.children[nd.index[x]] /\ Child(g, x) = C[nd.index[x]]
      BY <1>8, <1>12, <3>1, HasSlot
    <3>3. nd.index[x] \in Slots(l) /\ nd.index[x] # slot
      BY <1>0, <1>b, <1>10, <2>2 DEF IndexOK
    <3>4. QED
      BY <1>5, <2>2, <3>2, <3>3
  <2>3. QED
    BY <2>1, <2>2
<1>14. Wrote(nd, g, b, Null)
  BY <1>0, <1>8, <1>12, <1>13 DEF Wrote
<1>15. QED
  BY <1>n, <1>4, <1>14


\* remove_child of a Node256.
LEMMA Remove256Sound ==
  ASSUME NEW nd, nd.layout = "Node256", Sound(nd), NEW b \in Bytes,
         Child(nd, b) # Null, NEW V \in SUBSET Ptrs, Null \in V,
         nd.children \in [Slots("Node256") -> V]
  PROVE  /\ RemoveIndexed(nd, b) \in Seq(StoresOf("Node256", V))
         /\ Wrote(nd, ApplyAll(nd, RemoveIndexed(nd, b)), b, Null)
<1>n. PICK l, n, m, no : l = "Node256" /\ n = nd.count /\ m = n - 1 /\ no = FALSE
  OBVIOUS
<1> DEFINE s1 == St("children", {b}, Null)
           s2 == St("bitmap", {b}, no)
           s3 == St("count", {}, m)
           C == Slot(nd.children, s1)
           M == Slot(nd.bitmap, s2)
           g == Body(nd, m, nd.keys, C, nd.index, M)
<1>0. /\ n \in Nat /\ NumChildren(nd) = n /\ n <= Cap[l] /\ l \in Layouts
      /\ nd.keys \in [Slots(l) -> Bytes] /\ nd \in NodeOf(l) /\ nd.layout = l
      /\ Cap[l] \in Nat /\ nd.children \in [Slots(l) -> Ptrs]
      /\ nd.index \in [Bytes -> 0 .. Empty] /\ nd.bitmap \in [Bytes -> BOOLEAN]
      /\ Null \in Ptrs /\ Slots(l) = Bytes
  BY <1>n, NodeTyped, ConstantsOK, LayoutFacts DEF Sound
<1>10. DirectOK(nd)
  BY <1>n DEF Sound
<1>1. SlotOf(nd, b) = b /\ nd.bitmap[b]
  <2>1. PICK i \in Slots(l) : Has(nd, b, i)
    BY <1>0, ChildHas
  <2>2. SlotOf(nd, b) = i
    BY <2>1, HasSlot
  <2>3. QED
    BY <2>1, <2>2 DEF Has, Sorted
<1>9. Cardinality(BitsOf(nd) \ {b}) = m /\ m \in 0 .. Cap[l]
  <2>1. BitsOf(nd) \in SUBSET Bytes /\ b \in BitsOf(nd) /\ n = Cardinality(BitsOf(nd))
    BY <1>n, <1>1, <1>10 DEF BitsOf, DirectOK
  <2>2. Cardinality(BitsOf(nd) \ {b}) = n - 1 /\ Cardinality(BitsOf(nd) \ {b}) \in Nat
    <3>1. BitsOf(nd) \ {b} \in SUBSET Bytes
      BY <2>1
    <3>2. QED
      BY <2>1, <3>1, BitSet, BytesFinite
  <2>3. QED
    BY <1>n, <1>0, <2>1, <2>2
<1>2. RemoveIndexed(nd, b) = <<s1>> \o <<s2>> \o <<s3>>
  BY <1>n, <1>0, <1>1 DEF RemoveIndexed
<1>3. s1 \in StoresOf(l, V) /\ s2 \in StoresOf(l, V) /\ s3 \in StoresOf(l, V)
  <2>1. {b} \in SUBSET Slots(l) /\ {b} \in SUBSET Bytes
    BY <1>0
  <2>2. QED
    BY <1>n, <1>9, <2>1, StTyped
<1>4. /\ RemoveIndexed(nd, b) \in Seq(StoresOf(l, V))
      /\ ApplyAll(nd, RemoveIndexed(nd, b)) = g
  <2>1. Apply(nd, s1) = Body(nd, n, nd.keys, C, nd.index, nd.bitmap)
    BY <1>n, <1>0, BodySelf, BodyApply
  <2> HIDE DEF C
  <2>2. Apply(Body(nd, n, nd.keys, C, nd.index, nd.bitmap), s2) = Body(nd, n, nd.keys, C, nd.index, M)
    BY <1>0, BodyApply
  <2> HIDE DEF M
  <2>3. Apply(Body(nd, n, nd.keys, C, nd.index, M), s3) = g
    BY <1>0 DEF NodeOf, Body, Apply, St
  <2> DEFINE p == <<s1>>
             q == <<s2>>
             u == <<s3>>
  <2> HIDE DEF s1, s2, s3, g
  <2>5. p \in Seq(StoresOf(l, V)) /\ q \in Seq(StoresOf(l, V)) /\ u \in Seq(StoresOf(l, V))
    BY <1>3
  <2>6. ApplyAll(ApplyAll(ApplyAll(nd, p), q), u) = g
    BY <2>1, <2>2, <2>3, ApplyAllOne
  <2> HIDE DEF p, q, u
  <2>7. /\ p \o q \o u \in Seq(StoresOf(l, V))
        /\ ApplyAll(nd, p \o q \o u) = ApplyAll(ApplyAll(ApplyAll(nd, p), q), u)
    BY <2>5, ApplyAllParts
  <2>8. QED
    BY <1>2, <2>6, <2>7 DEF p, q, u
<1>5. /\ C \in [Slots(l) -> Ptrs]
      /\ \A i \in Slots(l) : C[i] = IF i = b THEN Null ELSE nd.children[i]
  BY <1>0 DEF Slot, St
<1>7. /\ M \in [Bytes -> BOOLEAN]
      /\ \A x \in Bytes : M[x] = IF x = b THEN FALSE ELSE nd.bitmap[x]
  BY <1>n, <1>0 DEF Slot, St
<1> HIDE DEF C, M
<1>8. /\ g.layout = l /\ g.count = m /\ g.children = C /\ g.bitmap = M
      /\ g.prefixLen = nd.prefixLen /\ g.prefix = nd.prefix /\ g.exact = nd.exact
      /\ g \in NodeOf(l)
  <2>1. g \in NodeOf(l)
    BY <1>0, <1>5, <1>7, <1>9 DEF NodeOf, Body
  <2>2. QED
    BY <1>0, <2>1, BodyFields
<1> HIDE DEF g
<1>11. DirectOK(g)
  <2>1. \A x \in Bytes : M[x] <=> C[x] # Null
    BY <1>0, <1>5, <1>7, <1>10 DEF DirectOK
  <2>2. BitsOf(g) = BitsOf(nd) \ {b}
    BY <1>7, <1>8 DEF BitsOf
  <2>3. QED
    BY <1>8, <1>9, <2>1, <2>2 DEF DirectOK
<1>12. Sound(g)
  BY <1>n, <1>0, <1>8, <1>11 DEF Sound, Sorted
<1>13. ASSUME NEW x \in Bytes PROVE Child(g, x) = IF x = b THEN Null ELSE Child(nd, x)
  <2>1. CASE M[x]
    <3>1. x # b /\ Has(g, x, x) /\ Has(nd, x, x)
      BY <1>n, <1>7, <1>8, <2>1 DEF Has
    <3>2. Child(g, x) = C[x] /\ Child(nd, x) = nd.children[x]
      BY <1>8, <1>12, <3>1, HasSlot
    <3>3. QED
      BY <1>0, <1>5, <3>1, <3>2
  <2>2. CASE ~M[x]
    <3>1. \A i : ~Has(g, x, i) /\ (x # b => ~Has(nd, x, i))
      BY <1>n, <1>7, <1>8, <2>2 DEF Has, Sorted
    <3>2. QED
      BY <1>12, <3>1, HasNone
  <2>3. QED
    BY <2>1, <2>2
<1>14. Wrote(nd, g, b, Null)
  BY <1>0, <1>8, <1>12, <1>13 DEF Wrote
<1>15. QED
  BY <1>n, <1>4, <1>14

\* remove_child at a byte that has a child.
LEMMA RemoveSound ==
  ASSUME NEW nd, Sound(nd), NEW b \in Bytes,
         Child(nd, b) # Null, NEW V \in SUBSET Ptrs, Null \in V,
         nd.children \in [Slots(nd.layout) -> V]
  PROVE  /\ RemoveChild(nd, b) \in Seq(StoresOf(nd.layout, V))
         /\ Wrote(nd, ApplyAll(nd, RemoveChild(nd, b)), b, Null)
<1>n. PICK l : l = nd.layout
  OBVIOUS
<1>0. nd.layout = l /\ nd.children \in [Slots(l) -> V]
  BY <1>n
<1>1. CASE Sorted(nd)
  <2>1. RemoveChild(nd, b) = RemoveSorted(nd, b)
    BY <1>1 DEF RemoveChild
  <2>2. /\ RemoveSorted(nd, b) \in Seq(StoresOf(l, V))
        /\ Wrote(nd, ApplyAll(nd, RemoveSorted(nd, b)), b, Null)
    BY <1>0, <1>1, RemoveSortedSound, Zenon
  <2>3. QED
    BY <1>n, <2>1, <2>2
<1>2. CASE nd.layout = "Node48"
  <2>1. RemoveChild(nd, b) = RemoveIndexed(nd, b)
    BY <1>2 DEF RemoveChild, Sorted
  <2>2. /\ RemoveIndexed(nd, b) \in Seq(StoresOf("Node48", V))
        /\ Wrote(nd, ApplyAll(nd, RemoveIndexed(nd, b)), b, Null)
    <3>1. nd.children \in [Slots("Node48") -> V]
      BY <1>2
    <3>2. QED
      BY <1>2, <3>1, Remove48Sound, Zenon
  <2>3. QED
    BY <1>2, <2>1, <2>2
<1>3. CASE nd.layout = "Node256"
  <2>1. RemoveChild(nd, b) = RemoveIndexed(nd, b)
    BY <1>3 DEF RemoveChild, Sorted
  <2>2. /\ RemoveIndexed(nd, b) \in Seq(StoresOf("Node256", V))
        /\ Wrote(nd, ApplyAll(nd, RemoveIndexed(nd, b)), b, Null)
    <3>1. nd.children \in [Slots("Node256") -> V]
      BY <1>3
    <3>2. QED
      BY <1>3, <3>1, Remove256Sound, Zenon
  <2>3. QED
    BY <1>3, <2>1, <2>2
<1>4. QED
  BY <1>1, <1>2, <1>3 DEF Sound, Layouts, Sorted


-----------------------------------------------------------------------------
(* Prefix and exact leaf *)

\* g is nd but for its prefix and exact leaf.
SameBody(nd, g) ==
  /\ g.layout = nd.layout /\ g.count = nd.count /\ g.keys = nd.keys /\ g.children = nd.children
  /\ g.index = nd.index /\ g.bitmap = nd.bitmap

LEMMA SameBodySound ==
  ASSUME NEW nd, NEW g, Sound(nd), SameBody(nd, g), g \in NodeOf(nd.layout)
  PROVE  Sound(g) /\ \A b \in Bytes : Child(g, b) = Child(nd, b)
<1>1. BitsOf(g) = BitsOf(nd) /\ (Sorted(g) <=> Sorted(nd)) /\ NumChildren(g) = NumChildren(nd)
  BY DEF BitsOf, SameBody, Sorted, NumChildren
<1>2. Sorted(nd) => SortedOK(g)
  BY DEF Sound, SameBody, SortedOK
<1>3. nd.layout = "Node48" => IndexOK(g)
  <2>1. nd.layout = "Node48" => IndexOK(nd)
    BY DEF Sound
  <2>2. ASSUME IndexOK(nd) PROVE IndexOK(g)
    <3>1. \A x \in Bytes : g.bitmap[x] => g.index[x] \in Slots(g.layout) /\ g.children[g.index[x]] # Null
      BY <2>2 DEF IndexOK, SameBody
    <3>2. \A i \in Slots(g.layout) : g.children[i] # Null => \E x \in Bytes : g.bitmap[x] /\ g.index[x] = i
      BY <2>2 DEF IndexOK, SameBody
    <3>3. \A x \in Bytes : g.bitmap[x] <=> g.index[x] # Empty
      BY <2>2 DEF IndexOK, SameBody
    <3>4. \A x, y \in Bytes : g.bitmap[x] /\ g.bitmap[y] /\ g.index[x] = g.index[y] => x = y
      BY <2>2 DEF IndexOK, SameBody
    <3>5. g.count = Cardinality(BitsOf(g))
      BY <1>1, <2>2 DEF IndexOK, SameBody
    <3>6. QED
      BY <3>1, <3>2, <3>3, <3>4, <3>5 DEF IndexOK
  <2>3. QED
    BY <2>1, <2>2
<1>4. nd.layout = "Node256" => DirectOK(g)
  BY <1>1 DEF Sound, SameBody, DirectOK
<1>5. Sound(g)
  BY <1>1, <1>2, <1>3, <1>4 DEF Sound, SameBody
<1>6. ASSUME NEW b \in Bytes PROVE Child(g, b) = Child(nd, b)
  <2>1. SlotOf(g, b) = SlotOf(nd, b)
    <3>1. CASE Sorted(nd)
      BY <1>1, <3>1 DEF SlotOf, SameBody, Sorted
    <3>2. CASE nd.layout = "Node48"
      BY <3>2 DEF SlotOf, SameBody, Sorted
    <3>3. CASE nd.layout = "Node256"
      BY <3>3 DEF SlotOf, SameBody, Sorted
    <3>4. QED
      BY <3>1, <3>2, <3>3 DEF Sound, Layouts, Sorted
  <2>2. QED
    BY <2>1 DEF Child, SameBody
<1>7. QED
  BY <1>5, <1>6

\* The stores of write_prefix leave p, whatever the prefix was before.
LEMMA WritePrefixDoes ==
  ASSUME NEW l, NEW V, NEW nd \in NodeOf(l), NEW p \in NodePrefixes
  PROVE  /\ WritePrefix(p) \in Seq(StoresOf(l, V))
         /\ LET g == ApplyAll(nd, WritePrefix(p))
            IN  g \in NodeOf(l) /\ SameBody(nd, g) /\ g.exact = nd.exact /\ PrefixOf(g) = p
<1>0. /\ p \in Seq(Bytes) /\ Len(p) \in 0 .. MaxPrefix /\ MaxPrefix \in Nat /\ 0 \in Bytes
      /\ nd.prefix \in [1 .. MaxPrefix -> Bytes] /\ nd.exact \in Ptrs
  <2>1. p \in Seq(Bytes) /\ Len(p) <= MaxPrefix /\ MaxPrefix \in Nat
    BY LayoutAssumption
  <2>2. Len(p) \in Nat
    BY <2>1, LenProperties
  <2>3. QED
    BY <2>1, <2>2, ConstantsOK DEF NodeOf
<1>n. PICK half, len, bytes :
        /\ half = (MaxPrefix + 1) \div 2 /\ len = Len(p)
        /\ bytes = [i \in 1 .. MaxPrefix |-> IF i <= Len(p) THEN p[i] ELSE 0]
  OBVIOUS
<1>1. half \in 0 .. MaxPrefix
  BY <1>n, <1>0, SMT
<1> DEFINE lo == 1 .. half
           hi == half + 1 .. MaxPrefix
           s1 == St("prefix", lo, bytes)
           s2 == St("prefix", hi, bytes)
           s3 == St("prefixLen", {}, len)
           p1 == Word(nd.prefix, s1)
           g == Header(nd, len, bytes, nd.exact)
<1>2. WritePrefix(p) = <<s1, s2, s3>>
  BY <1>n DEF WritePrefix, PrefixWords
<1>3. bytes \in [1 .. MaxPrefix -> Bytes] /\ \A i \in 1 .. len : bytes[i] = p[i]
  <2>1. \A i \in 1 .. MaxPrefix : i <= Len(p) => i \in 1 .. Len(p)
    BY <1>0
  <2>2. \A i \in 1 .. Len(p) : p[i] \in Bytes /\ i \in 1 .. MaxPrefix /\ i <= Len(p)
    BY <1>0, ElementOfSeq
  <2>3. QED
    BY <1>n, <1>0, <2>1, <2>2
<1>4. /\ lo \in SUBSET (1 .. MaxPrefix) /\ hi \in SUBSET (1 .. MaxPrefix)
      /\ \A i \in 1 .. MaxPrefix : i \in lo \/ i \in hi
  BY <1>0, <1>1
<1>5. s1 \in StoresOf(l, V) /\ s2 \in StoresOf(l, V) /\ s3 \in StoresOf(l, V)
  <2> HIDE DEF lo, hi
  <2>1. QED
    BY <1>n, <1>0, <1>3, <1>4, StTyped
<1>6. Word(p1, s2) = bytes
  <2> HIDE DEF lo, hi
  <2>1. QED
    BY <1>0, <1>3, <1>4 DEF Word, St
<1>7. Apply(nd, s1) = Header(nd, nd.prefixLen, p1, nd.exact)
  <2> HIDE DEF lo, hi
  <2>1. QED
    BY HeaderSelf, HeaderApply
<1>8. Apply(Header(nd, nd.prefixLen, p1, nd.exact), s2) = Header(nd, nd.prefixLen, bytes, nd.exact)
  <2> HIDE DEF lo, hi, p1
  <2>1. QED
    BY <1>6, HeaderApply
<1>9. Apply(Header(nd, nd.prefixLen, bytes, nd.exact), s3) = g
  BY HeaderApply
<1>10. WritePrefix(p) \in Seq(StoresOf(l, V)) /\ ApplyAll(nd, WritePrefix(p)) = g
  <2> HIDE DEF s1, s2, s3, p1, g
  <2> DEFINE q == <<s1, s2, s3>>
             x == Apply(nd, s1)
  <2>1. /\ q \in Seq(StoresOf(l, V)) /\ q # <<>> /\ Head(q) = s1 /\ Tail(q) = <<s2, s3>>
    BY <1>5
  <2> HIDE DEF q, x
  <2>2. ApplyAll(nd, q) = ApplyAll(x, <<s2, s3>>)
    BY <2>1, ApplyAllFirst DEF x
  <2>3. ApplyAll(x, <<s2, s3>>) = Apply(Apply(x, s2), s3)
    BY ApplyAllTwo
  <2>4. QED
    BY <1>2, <1>7, <1>8, <1>9, <2>1, <2>2, <2>3 DEF q, x
<1>11. /\ g.prefixLen = len /\ g.prefix = bytes /\ g.exact = nd.exact /\ SameBody(nd, g)
       /\ g \in NodeOf(l)
  <2>1. g.layout = l /\ nd.layout = l
    BY HeaderFields, SMTT(30) DEF NodeOf
  <2>2. len \in 0 .. MaxPrefix
    BY <1>n, <1>0
  <2>3. g \in NodeOf(l)
    BY <1>0, <1>3, <2>2, HeaderType
  <2>4. QED
    BY <2>1, <2>3, HeaderFields DEF SameBody
<1> HIDE DEF g
<1>12. PrefixOf(g) = p
  <2>1. Clamp(len, MaxPrefix) = len
    BY <1>n, <1>0 DEF Clamp
  <2>2. PrefixOf(g) = SubSeq(bytes, 1, len)
    BY <1>11, <2>1 DEF PrefixOf
  <2>3. bytes \in Seq(Bytes) /\ Len(bytes) = MaxPrefix
    BY <1>0, <1>3, SeqFrom
  <2>4. /\ SubSeq(bytes, 1, len) \in Seq(Bytes) /\ Len(SubSeq(bytes, 1, len)) = len
        /\ \A i \in 1 .. len : SubSeq(bytes, 1, len)[i] = bytes[i]
    <3>1. len \in Nat /\ len <= MaxPrefix /\ 1 \in 1 .. len + 1 /\ len \in 1 - 1 .. Len(bytes)
      BY <1>n, <1>0, <2>3
    <3>2. IF 1 <= len THEN len - 1 + 1 = len ELSE len = 0
      BY <3>1
    <3>3. QED
      BY <2>3, <3>1, <3>2, SubSeqProperties
  <2>5. QED
    BY <1>n, <1>0, <1>3, <2>2, <2>4, SeqEqual
<1>13. QED
  BY <1>10, <1>11, <1>12

\* A store of the exact leaf.
LEMMA ExactDoes ==
  ASSUME NEW l, NEW V, NEW nd \in NodeOf(l), NEW e \in Ptrs
  PROVE  /\ <<St("exact", {}, e)>> \in Seq(StoresOf(l, V))
         /\ LET g == ApplyAll(nd, <<St("exact", {}, e)>>)
            IN  g \in NodeOf(l) /\ SameBody(nd, g) /\ g.exact = e /\ PrefixOf(g) = PrefixOf(nd)
<1> DEFINE s == St("exact", {}, e)
           g == Header(nd, nd.prefixLen, nd.prefix, e)
<1>1. s \in StoresOf(l, V)
  BY StTyped
<1>2. Apply(nd, s) = g
  BY HeaderSelf, HeaderApply
<1>3. g \in NodeOf(l) /\ SameBody(nd, g) /\ g.exact = e /\ g.prefixLen = nd.prefixLen /\ g.prefix = nd.prefix
  <2>1. nd.prefixLen \in 0 .. MaxPrefix /\ nd.prefix \in [1 .. MaxPrefix -> Bytes] /\ nd.layout = l
    BY DEF NodeOf
  <2>2. QED
    BY <2>1, HeaderFields, HeaderType DEF SameBody
<1> HIDE DEF g
<1>4. PrefixOf(g) = PrefixOf(nd)
  BY <1>3 DEF PrefixOf
<1>5. ApplyAll(nd, <<s>>) = g
  <2> HIDE DEF s
  <2>1. QED
    BY <1>2, ApplyAllOne
<1>6. QED
  <2> HIDE DEF s
  <2>1. <<s>> \in Seq(StoresOf(l, V))
    BY <1>1
  <2>2. QED
    BY <1>3, <1>4, <1>5, <2>1 DEF s



-----------------------------------------------------------------------------
(* Nodes built from a map *)

\* The children of a sound node are those of its map.
LEMMA KidsIn ==
  ASSUME NEW nd, Sound(nd), NEW V \in SUBSET Ptrs, Null \in V, \A b \in Bytes : Child(nd, b) \in V
  PROVE  nd.children \in [Slots(nd.layout) -> V]
<1>1. nd.children \in [Slots(nd.layout) -> Ptrs]
  BY NodeTyped DEF Sound
<1>2. \A i \in Slots(nd.layout) : nd.children[i] \in V
  BY KidsAreMapped
<1>3. QED
  BY <1>1, <1>2

LEMMA NewNodeSound ==
  ASSUME NEW l \in Layouts
  PROVE  /\ Sound(NewNode(l)) /\ NewNode(l) \in NodeOf(l)
         /\ NewNode(l).layout = l /\ NewNode(l).exact = Null
         /\ \A b \in Bytes : Child(NewNode(l), b) = Null
<1> DEFINE g == NewNode(l)
<1>0. Cap[l] \in Nat /\ MaxPrefix \in Nat /\ Empty \in Nat /\ 0 \in Bytes /\ Null \in Ptrs
  BY ConstantsOK
<1>1. /\ g.layout = l /\ g.count = 0 /\ g.exact = Null
      /\ g.children = [i \in Slots(l) |-> Null] /\ g.index = [b \in Bytes |-> Empty]
      /\ g.bitmap = [b \in Bytes |-> FALSE]
  BY DEF NewNode
<1>2. g \in NodeOf(l)
  BY <1>0 DEF NewNode, NodeOf
<1> HIDE DEF g
<1>3. BitsOf(g) = {}
  BY <1>1 DEF BitsOf
<1>4. g.count = Cardinality(BitsOf(g))
  BY <1>1, <1>3, FS_EmptySet
<1>5. SortedOK(g)
  BY <1>0, <1>1 DEF SortedOK, Slots
<1>6. IndexOK(g)
  BY <1>0, <1>1, <1>4 DEF IndexOK
<1>7. l = "Node256" => DirectOK(g)
  BY <1>1, <1>4, LayoutFacts DEF DirectOK
<1>8. Sound(g)
  BY <1>1, <1>2, <1>5, <1>6, <1>7 DEF Sound
<1>9. ASSUME NEW b \in Bytes PROVE Child(g, b) = Null
  <2>1. \A i \in Slots(l) : g.children[i] = Null
    BY <1>1
  <2>2. QED
    BY <1>1, <1>8, <2>1, ChildHas, HasSlot
<1>10. QED
  BY <1>1, <1>2, <1>8, <1>9 DEF g

LEMMA NewPrefixedSound ==
  ASSUME NEW l \in Layouts, NEW p \in NodePrefixes
  PROVE  LET g == NewPrefixed(l, p)
         IN  /\ Sound(g) /\ g \in NodeOf(l) /\ g.layout = l /\ g.exact = Null /\ PrefixOf(g) = p
             /\ \A b \in Bytes : Child(g, b) = Null
<1> DEFINE nd == NewNode(l)
           g == ApplyAll(nd, WritePrefix(p))
<1>1. /\ Sound(nd) /\ nd \in NodeOf(l) /\ nd.layout = l /\ nd.exact = Null
      /\ \A b \in Bytes : Child(nd, b) = Null
  BY NewNodeSound
<1> HIDE DEF nd
<1>2. g \in NodeOf(l) /\ SameBody(nd, g) /\ g.exact = nd.exact /\ PrefixOf(g) = p
  BY <1>1, WritePrefixDoes
<1>3. g = NewPrefixed(l, p)
  BY DEF NewPrefixed, nd
<1> HIDE DEF g
<1>4. Sound(g) /\ \A b \in Bytes : Child(g, b) = Child(nd, b)
  BY <1>1, <1>2, SameBodySound
<1>5. g.layout = l
  BY <1>1, <1>2 DEF SameBody
<1>6. QED
  BY <1>1, <1>2, <1>3, <1>4, <1>5

\* nd with the children of map below i, and no others.
Pushed(x, nd, map, i) ==
  /\ Sound(x) /\ x.layout = nd.layout
  /\ x.prefixLen = nd.prefixLen /\ x.prefix = nd.prefix /\ x.exact = nd.exact
  /\ \A b \in Bytes : Child(x, b) = IF b < i THEN map[b] ELSE Null

\* A push at a byte after those that are there finds room.
LEMMA PushNext ==
  ASSUME NEW nd, NEW map \in [Bytes -> Ptrs], NEW k \in Bytes, NEW x, Pushed(x, nd, map, k),
         Cardinality({b \in Bytes : map[b] # Null}) <= Cap[nd.layout]
  PROVE  Pushed(Push(x, k, map), nd, map, k + 1)
<1> DEFINE T == {b \in Bytes : map[b] # Null}
<1>0. /\ k \in Nat /\ \A b \in Bytes : b \in Nat
      /\ \A b \in Bytes : b < k + 1 <=> b < k \/ b = k
  BY ConstantsOK DEF Bytes
<1>1. CASE map[k] = Null
  <2>1. Push(x, k, map) = x
    BY <1>1 DEF Push
  <2>2. \A b \in Bytes : Child(x, b) = IF b < k + 1 THEN map[b] ELSE Null
    BY <1>0, <1>1 DEF Pushed
  <2>3. QED
    BY <2>1, <2>2 DEF Pushed
<1>2. CASE map[k] # Null
  <2> DEFINE g == ApplyAll(x, InsertChild(x, k, map[k]))
  <2>1. Push(x, k, map) = g
    BY <1>2 DEF Push
  <2>2. Sound(x) /\ Child(x, k) = Null /\ x.layout = nd.layout
    BY <1>0 DEF Pushed
  <2>3. x.count < Cap[x.layout]
    <3>1. Present(x) \in SUBSET (T \ {k})
      <4>1. ASSUME NEW b \in Present(x) PROVE b \in T \ {k}
        <5>1. b \in Bytes /\ Child(x, b) # Null
          BY DEF Present
        <5>2. b < k /\ map[b] # Null
          BY <5>1 DEF Pushed
        <5>3. b # k
          BY <1>0, <5>1, <5>2
        <5>4. QED
          BY <5>1, <5>2, <5>3
      <4>2. QED
        BY <4>1
    <3>2. T \in SUBSET Bytes /\ k \in T
      BY <1>2
    <3> HIDE DEF T
    <3>3. /\ IsFiniteSet(T) /\ Cardinality(T) \in Nat /\ IsFiniteSet(T \ {k})
          /\ Cardinality(T \ {k}) = Cardinality(T) - 1
      BY <3>2, BytesFinite, BitSet, FS_RemoveElement
    <3>4. Cardinality(Present(x)) <= Cardinality(T \ {k}) /\ Cardinality(Present(x)) \in Nat
      BY <3>1, <3>3, FS_Subset, FS_CardinalityType
    <3>5. x.count = Cardinality(Present(x))
      BY <2>2, CountIs
    <3>6. Cap[x.layout] \in Nat
      BY <2>2, ConstantsOK DEF Sound
    <3>7. Cardinality(T) <= Cap[x.layout]
      BY <2>2 DEF T
    <3>8. QED
      BY <3>3, <3>4, <3>5, <3>6, <3>7
  <2>4. Wrote(x, g, k, map[k])
    <3>1. x.children \in [Slots(x.layout) -> Ptrs]
      BY <2>2, NodeTyped DEF Sound
    <3>2. PICK c \in Ptrs : c = map[k]
      OBVIOUS
    <3>3. Wrote(x, ApplyAll(x, InsertChild(x, k, c)), k, c)
      <4>1. Ptrs \in SUBSET Ptrs /\ c # Null
        BY <1>2, <3>2
      <4>2. QED
        BY <2>2, <2>3, <3>1, <4>1, InsertSound
    <3>4. QED
      BY <3>2, <3>3
  <2> HIDE DEF g
  <2>5. \A b \in Bytes : Child(g, b) = IF b < k + 1 THEN map[b] ELSE Null
    <3>1. ASSUME NEW b \in Bytes PROVE Child(g, b) = IF b < k + 1 THEN map[b] ELSE Null
      <4>1. Child(g, b) = IF b = k THEN map[k] ELSE Child(x, b)
        BY <2>4 DEF Wrote
      <4>2. Child(x, b) = IF b < k THEN map[b] ELSE Null
        BY DEF Pushed
      <4>3. b = k => b < k + 1
        BY <1>0
      <4>4. QED
        BY <1>0, <4>1, <4>2
    <3>2. QED
      BY <3>1
  <2>6. Pushed(g, nd, map, k + 1)
    BY <2>4, <2>5 DEF Wrote, Pushed
  <2>7. QED
    BY <2>1, <2>6
<1>3. QED
  BY <1>1, <1>2

\* A node built by pushes has the children of the map.
LEMMA PushAllSound ==
  ASSUME NEW nd, Sound(nd), \A b \in Bytes : Child(nd, b) = Null, NEW map \in [Bytes -> Ptrs],
         Cardinality({b \in Bytes : map[b] # Null}) <= Cap[nd.layout]
  PROVE  LET g == PushAll(nd, map)
         IN  /\ Sound(g) /\ g.layout = nd.layout
             /\ g.prefixLen = nd.prefixLen /\ g.prefix = nd.prefix /\ g.exact = nd.exact
             /\ \A b \in Bytes : Child(g, b) = map[b]
<1>0. TopByte \in Nat /\ TopByte + 1 \in Nat /\ Bytes = 0 .. TopByte
  BY ConstantsOK DEF Bytes
<1>1. PICK f : /\ f[0] = nd /\ PushAll(nd, map) = f[TopByte + 1]
               /\ \A i \in 1 .. TopByte + 1 : f[i] = Push(f[i - 1], i - 1, map)
  BY <1>0, PushAllHasRun
<1>2. Pushed(f[0], nd, map, 0)
  <2>1. \A b \in Bytes : ~(b < 0)
    BY <1>0
  <2>2. QED
    BY <1>1, <2>1 DEF Pushed
<1> DEFINE Bad == {k \in 0 .. TopByte + 1 : ~Pushed(f[k], nd, map, k)}
<1>3. Bad = {}
  <2>1. SUFFICES ASSUME Bad # {} PROVE FALSE
    OBVIOUS
  <2>2. PICK m \in Bad : \A k \in Bad : m <= k
    <3>1. Bad \in SUBSET Nat
      BY <1>0
    <3> HIDE DEF Bad
    <3>2. QED
      BY <2>1, <3>1, LeastNatural
  <2>3. m \in 0 .. TopByte + 1 /\ ~Pushed(f[m], nd, map, m)
    OBVIOUS
  <2>4. m # 0
    BY <1>2, <2>3
  <2>5. PICK j : j = m - 1
    OBVIOUS
  <2>6. j \in Bytes /\ j \in 0 .. TopByte + 1 /\ m \in 1 .. TopByte + 1 /\ j + 1 = m /\ j < m
    BY <1>0, <2>3, <2>4, <2>5
  <2>7. j \notin Bad
    <3> HIDE DEF Bad
    <3>1. QED
      BY <1>0, <2>2, <2>3, <2>6
  <2>8. Pushed(f[j], nd, map, j)
    BY <2>6, <2>7
  <2>9. Pushed(Push(f[j], j, map), nd, map, j + 1)
    BY <2>6, <2>8, PushNext
  <2>10. f[m] = Push(f[j], j, map)
    BY <1>1, <2>5, <2>6
  <2>11. QED
    BY <2>3, <2>6, <2>9, <2>10
<1>4. Pushed(f[TopByte + 1], nd, map, TopByte + 1)
  <2>1. TopByte + 1 \in 0 .. TopByte + 1
    BY <1>0
  <2>2. QED
    BY <1>3, <2>1
<1>5. \A b \in Bytes : b < TopByte + 1
  BY <1>0
<1>6. QED
  BY <1>1, <1>4, <1>5 DEF Pushed

\* copy_into: the copy holds the same map, exact leaf and prefix.
LEMMA CopySound ==
  ASSUME NEW nd, Sound(nd), NEW l \in Layouts, nd.count <= Cap[l], PrefixOf(nd) \in NodePrefixes
  PROVE  LET g == CopyInto(nd, l)
         IN  /\ Sound(g) /\ g.layout = l /\ g.exact = nd.exact /\ PrefixOf(g) = PrefixOf(nd)
             /\ \A b \in Bytes : Child(g, b) = Child(nd, b)
<1>n. PICK p : p = PrefixOf(nd)
  OBVIOUS
<1> DEFINE n0 == NewPrefixed(l, p)
           n1 == [n0 EXCEPT !.exact = nd.exact]
           map == Walked(nd)
           g == PushAll(n1, map)
<1>1. /\ Sound(n0) /\ n0 \in NodeOf(l) /\ n0.layout = l /\ PrefixOf(n0) = p
      /\ \A b \in Bytes : Child(n0, b) = Null
  BY <1>n, NewPrefixedSound
<1>2. nd.exact \in Ptrs
  BY NodeTyped DEF Sound
<1> HIDE DEF n0
<1>3. n1 \in NodeOf(l) /\ SameBody(n0, n1) /\ PrefixOf(n1) = p /\ n1.exact = nd.exact
  <2>1. n1 \in NodeOf(l) /\ n1.prefix = n0.prefix /\ n1.prefixLen = n0.prefixLen /\ n1.exact = nd.exact
    BY <1>1, <1>2 DEF NodeOf
  <2>2. SameBody(n0, n1)
    BY <1>1 DEF NodeOf, SameBody
  <2> HIDE DEF n1
  <2>3. PrefixOf(n1) = PrefixOf(n0)
    BY <2>1 DEF PrefixOf
  <2>4. QED
    BY <1>1, <2>1, <2>2, <2>3
<1> HIDE DEF n1
<1>4. Sound(n1) /\ n1.layout = l /\ \A b \in Bytes : Child(n1, b) = Null
  BY <1>1, <1>3, SameBodySound DEF SameBody
<1>5. InUse(nd) = Present(nd) /\ nd.count = Cardinality(Present(nd))
  BY CountIs
<1>6. map \in [Bytes -> Ptrs] /\ \A b \in Bytes : map[b] = Child(nd, b)
  <2>1. \A b \in Bytes : Child(nd, b) \in Ptrs
    BY MapTyped
  <2>2. QED
    BY <1>5, <2>1 DEF Walked, Present
<1>7. {b \in Bytes : map[b] # Null} = Present(nd)
  BY <1>6 DEF Present
<1> HIDE DEF map
<1>8. /\ Sound(g) /\ g.layout = n1.layout
      /\ g.prefixLen = n1.prefixLen /\ g.prefix = n1.prefix /\ g.exact = n1.exact
      /\ \A b \in Bytes : Child(g, b) = map[b]
  <2>1. Cardinality({b \in Bytes : map[b] # Null}) <= Cap[n1.layout]
    BY <1>4, <1>5, <1>7
  <2>2. QED
    BY <1>4, <1>6, <2>1, PushAllSound
<1>9. g = CopyInto(nd, l)
  BY <1>n DEF CopyInto, n0, n1, map
<1> HIDE DEF g
<1>10. PrefixOf(g) = PrefixOf(n1)
  BY <1>8 DEF PrefixOf
<1>11. QED
  BY <1>n, <1>3, <1>4, <1>6, <1>8, <1>9, <1>10



-----------------------------------------------------------------------------
(* The invariant of the writer *)

\* The pointers handed out in k writes.
Used(k) == {Null} \cup (1 .. k) \cup (MaxWrites + 1 .. MaxWrites + 1 + TopByte)

\* The pointers that may be in the node.
Alive == Ptrs \ gone.sofar

\* A node between two writes: sound, no child twice, all children from U.
Kept(nd, l, U) ==
  /\ Sound(nd) /\ nd.layout = l /\ PrefixOf(nd) \in NodePrefixes
  /\ Distinct(MapOf(nd))
  /\ \A b \in Bytes : Child(nd, b) \in U

\* One step of NodeMap.
SameChildren(old, new) == \A b \in Bytes : Child(new, b) = Child(old, b)
Changed(old, new) ==
  \/ /\ \E b \in Bytes, c \in Ptrs : \A x \in Bytes : Child(new, x) = IF x = b THEN c ELSE Child(old, x)
     /\ new.exact = old.exact /\ PrefixOf(new) = PrefixOf(old)
  \/ SameChildren(old, new) /\ PrefixOf(new) = PrefixOf(old)
  \/ SameChildren(old, new) /\ new.exact = old.exact

\* The child taken out is in no slot.
Out(nd, c) == c # Null => \A b \in Bytes : Child(nd, b) # c

\* Whatever is stored and still to be stored, it ends in a sound node that is
\* one change away from the node as it was.
WriterInv ==
  /\ latch \in [ver : Nat, lock : BOOLEAN]
  /\ w \in [todo : Seq(StoresOf(node.layout, Alive)), out : Used(w.writes), writes : 0 .. MaxWrites]
  /\ node.layout \in Layouts /\ node \in NodeOf(node.layout)
  /\ node.children \in [Slots(node.layout) -> Alive]
  /\ gone = [sofar |-> gone.sofar, earlier |-> gone.earlier]
  /\ gone.sofar \in SUBSET (Used(w.writes) \ {Null}) /\ gone.earlier \in SUBSET gone.sofar
  /\ Kept(before, node.layout, Used(w.writes) \ gone.sofar)
  /\ Kept(ApplyAll(node, w.todo), node.layout, Used(w.writes) \ gone.sofar)
  /\ Out(ApplyAll(node, w.todo), w.out)
  /\ ~latch.lock => w.todo = <<>> /\ node = before /\ w.out = Null
  /\ latch.lock => Changed(before, ApplyAll(node, w.todo))

LEMMA UsedFacts ==
  ASSUME NEW k \in 0 .. MaxWrites
  PROVE  /\ Null \in Used(k) /\ Used(k) \in SUBSET Ptrs
         /\ k < MaxWrites => /\ k + 1 \in Ptrs /\ k + 1 \notin Used(k) /\ k + 1 # Null
                             /\ Used(k + 1) = Used(k) \cup {k + 1} /\ k + 1 \in 0 .. MaxWrites
BY ConstantsOK DEF Used, Ptrs, Null

LEMMA KeptMore ==
  ASSUME NEW nd, NEW l, NEW U, NEW W, Kept(nd, l, U), U \in SUBSET W
  PROVE  Kept(nd, l, W)
BY DEF Kept

\* A write of one child.
LEMMA WroteKept ==
  ASSUME NEW nd, NEW l, NEW U \in SUBSET Ptrs, Kept(nd, l, U), NEW b \in Bytes,
         NEW c \in Ptrs, c = Null \/ c \notin U, NEW g, Wrote(nd, g, b, c)
  PROVE  /\ Kept(g, l, U \cup {c}) /\ Changed(nd, g)
         /\ c # Child(nd, b) => Out(g, Child(nd, b))
<1>1. /\ Sound(g) /\ g.layout = l /\ PrefixOf(g) = PrefixOf(nd) /\ g.exact = nd.exact
      /\ \A x \in Bytes : Child(g, x) = IF x = b THEN c ELSE Child(nd, x)
  BY DEF Wrote, Kept, PrefixOf
<1>2. Sound(nd) /\ \A x \in Bytes : MapOf(nd)[x] = Child(nd, x) /\ MapOf(g)[x] = Child(g, x)
  BY DEF Kept, MapOf
<1>3. \A x, y \in Bytes : x # y /\ Child(nd, x) # Null => Child(nd, x) # Child(nd, y)
  BY <1>2 DEF Kept, Distinct
<1>4. \A x \in Bytes : Child(nd, x) \in U
  BY DEF Kept
<1>5. Distinct(MapOf(g))
  <2>1. ASSUME NEW x \in Bytes, NEW y \in Bytes, x # y, Child(g, x) # Null PROVE Child(g, x) # Child(g, y)
    <3>1. CASE x = b
      BY <1>1, <1>4, <2>1, <3>1
    <3>2. CASE y = b
      BY <1>1, <1>4, <2>1, <3>2
    <3>3. CASE x # b /\ y # b
      BY <1>1, <1>3, <2>1, <3>3
    <3>4. QED
      BY <3>1, <3>2, <3>3
  <2>2. QED
    BY <1>2, <2>1 DEF Distinct
<1>6. Kept(g, l, U \cup {c})
  BY <1>1, <1>4, <1>5 DEF Kept
<1>7. Changed(nd, g)
  BY <1>1 DEF Changed
<1>8. ASSUME c # Child(nd, b) PROVE Out(g, Child(nd, b))
  BY <1>1, <1>3, <1>8 DEF Out
<1>9. QED
  BY <1>6, <1>7, <1>8

\* A write of the prefix or of the exact leaf.
LEMMA HeaderKept ==
  ASSUME NEW nd, NEW l, NEW U, Kept(nd, l, U), NEW g \in NodeOf(l), SameBody(nd, g),
         PrefixOf(g) \in NodePrefixes, g.exact = nd.exact \/ PrefixOf(g) = PrefixOf(nd)
  PROVE  Kept(g, l, U) /\ Changed(nd, g)
<1>1. Sound(nd) /\ nd.layout = l /\ g.layout = l
  BY DEF Kept, SameBody
<1>2. Sound(g) /\ \A b \in Bytes : Child(g, b) = Child(nd, b)
  BY <1>1, SameBodySound
<1>3. MapOf(g) = MapOf(nd)
  BY <1>2 DEF MapOf
<1>4. QED
  BY <1>1, <1>2, <1>3 DEF Kept, Changed, SameChildren


\* A sound node is built from its first children.
LEMMA WriterInit ==
  ASSUME Init
  PROVE  WriterInv
<1>1. PICK l \in Layouts, start \in Starts, p \in NodePrefixes :
        /\ Cardinality(start) <= Cap[l]
        /\ node = PushAll(NewPrefixed(l, p), [b \in Bytes |-> IF b \in start THEN MaxWrites + 1 + b ELSE Null])
  BY Zenon DEF Init
<1>2. /\ latch = [ver |-> 0, lock |-> FALSE] /\ w = [todo |-> <<>>, out |-> Null, writes |-> 0]
      /\ before = node /\ gone = [sofar |-> {}, earlier |-> {}]
  BY DEF Init
<1> DEFINE map == [b \in Bytes |-> IF b \in start THEN MaxWrites + 1 + b ELSE Null]
           nd == NewPrefixed(l, p)
<1>3. /\ Sound(nd) /\ nd.layout = l /\ PrefixOf(nd) = p
      /\ \A b \in Bytes : Child(nd, b) = Null
  BY NewPrefixedSound
<1> HIDE DEF nd
<1>4. \A b \in Bytes : /\ b \in Nat /\ MaxWrites + 1 + b \in Ptrs /\ MaxWrites + 1 + b # Null
                       /\ MaxWrites + 1 + b \in MaxWrites + 1 .. MaxWrites + 1 + TopByte
  BY ConstantsOK DEF Bytes, Ptrs
<1>5. /\ map \in [Bytes -> Ptrs] /\ {b \in Bytes : map[b] # Null} = start
      /\ Distinct(map) /\ \A b \in Bytes : map[b] \in Used(0)
  <2>1. start \in SUBSET Bytes
    BY LayoutAssumption
  <2>2. map \in [Bytes -> Ptrs] /\ {b \in Bytes : map[b] # Null} = start
    BY <1>4, <2>1, ConstantsOK
  <2>3. \A b \in Bytes : map[b] \in Used(0)
    BY <1>4 DEF Used
  <2>4. \A x, y \in Bytes : x # y => MaxWrites + 1 + x # MaxWrites + 1 + y
    BY <1>4, ConstantsOK
  <2>5. Distinct(map)
    BY <1>4, <2>4 DEF Distinct
  <2>6. QED
    BY <2>2, <2>3, <2>5
<1> HIDE DEF map
<1>6. /\ Sound(node) /\ node.layout = l
      /\ node.prefixLen = nd.prefixLen /\ node.prefix = nd.prefix
      /\ \A b \in Bytes : Child(node, b) = map[b]
  <2>1. Cardinality({b \in Bytes : map[b] # Null}) <= Cap[nd.layout]
    BY <1>1, <1>3, <1>5
  <2>2. node = PushAll(nd, map)
    BY <1>1 DEF nd, map
  <2>3. QED
    BY <1>3, <1>5, <2>1, <2>2, PushAllSound
<1>7. PrefixOf(node) = p
  BY <1>3, <1>6 DEF PrefixOf
<1>8. MapOf(node) = map
  BY <1>5, <1>6 DEF MapOf
<1>9. Kept(node, l, Used(0) \ gone.sofar)
  <2>1. gone.sofar = {}
    BY <1>2
  <2>2. QED
    BY <1>5, <1>6, <1>7, <1>8, <2>1 DEF Kept
<1>10. ApplyAll(node, w.todo) = node
  BY <1>2, ApplyAllNone
<1>11. node.children \in [Slots(node.layout) -> Alive]
  <2>1. node.children \in [Slots(node.layout) -> Ptrs] /\ Alive = Ptrs
    BY <1>2, <1>6, NodeTyped DEF Sound, Alive
  <2>2. QED
    BY <2>1
<1>12. w \in [todo : Seq(StoresOf(node.layout, Alive)), out : Used(w.writes), writes : 0 .. MaxWrites]
  BY <1>2, ConstantsOK DEF Used
<1>13. Out(ApplyAll(node, w.todo), w.out)
  BY <1>2 DEF Out
<1>14. latch \in [ver : Nat, lock : BOOLEAN] /\ ~latch.lock /\ w.writes = 0 /\ w.todo = <<>> /\ w.out = Null
  BY <1>2
<1>15. node.layout \in Layouts /\ node \in NodeOf(node.layout)
  BY <1>6 DEF Sound
<1>16. /\ gone = [sofar |-> gone.sofar, earlier |-> gone.earlier] /\ gone.sofar = {} /\ gone.earlier = {}
  BY <1>2
<1>17. QED
  BY <1>2, <1>6, <1>9, <1>10, <1>11, <1>12, <1>13, <1>14, <1>15, <1>16 DEF WriterInv

\* What a locked writer has decided to store.
LEMMA LockStep ==
  ASSUME WriterInv, ~latch.lock, w.writes < MaxWrites, latch' = [latch EXCEPT !.lock = TRUE],
         UNCHANGED <<node, before, gone>>,
         NEW stores \in Seq(StoresOf(node.layout, Alive)), NEW out \in Used(w.writes + 1),
         Kept(ApplyAll(node, stores), node.layout, Used(w.writes + 1) \ gone.sofar),
         Out(ApplyAll(node, stores), out), Changed(node, ApplyAll(node, stores)),
         w' = [todo |-> stores, out |-> out, writes |-> w.writes + 1]
  PROVE  WriterInv'
<1>1. w.writes \in 0 .. MaxWrites /\ latch \in [ver : Nat, lock : BOOLEAN]
  BY DEF WriterInv
<1>2. /\ Used(w.writes + 1) = Used(w.writes) \cup {w.writes + 1} /\ w.writes + 1 \in 0 .. MaxWrites
  BY <1>1, UsedFacts
<1>3. w'.todo = stores /\ w'.out = out /\ w'.writes = w.writes + 1 /\ latch'.lock
      /\ latch' \in [ver : Nat, lock : BOOLEAN] /\ Alive' = Alive
  BY <1>1 DEF Alive
<1>4. w' \in [todo : Seq(StoresOf(node'.layout, Alive')), out : Used(w'.writes), writes : 0 .. MaxWrites]
  BY <1>2, <1>3
<1>5. Kept(before', node'.layout, Used(w'.writes) \ gone'.sofar)
  <2>1. Kept(before, node.layout, Used(w.writes) \ gone.sofar)
    BY DEF WriterInv
  <2>2. Used(w.writes) \ gone.sofar \in SUBSET (Used(w.writes + 1) \ gone.sofar)
    BY <1>2
  <2>3. Kept(before, node.layout, Used(w.writes + 1) \ gone.sofar)
    BY <2>1, <2>2, KeptMore
  <2>4. QED
    BY <1>3, <2>3
<1>6. node = before
  BY DEF WriterInv
<1>7. gone.sofar \in SUBSET (Used(w.writes + 1) \ {Null})
  BY <1>2 DEF WriterInv
<1>8. /\ Kept(ApplyAll(node', w'.todo), node'.layout, Used(w'.writes) \ gone'.sofar)
      /\ Out(ApplyAll(node', w'.todo), w'.out) /\ Changed(before', ApplyAll(node', w'.todo))
  BY <1>3, <1>6
<1>9. /\ node'.layout \in Layouts /\ node' \in NodeOf(node'.layout)
      /\ node'.children \in [Slots(node'.layout) -> Alive']
      /\ gone' = [sofar |-> gone'.sofar, earlier |-> gone'.earlier]
      /\ gone'.sofar \in SUBSET (Used(w'.writes) \ {Null}) /\ gone'.earlier \in SUBSET gone'.sofar
  BY <1>3, <1>7 DEF WriterInv
<1>10. QED
  BY <1>3, <1>4, <1>5, <1>8, <1>9 DEF WriterInv

LEMMA LockKeeps ==
  ASSUME WriterInv, Lock
  PROVE  WriterInv'
<1>0. /\ ~latch.lock /\ w.writes < MaxWrites /\ latch' = [latch EXCEPT !.lock = TRUE] /\ w' \in Writes
      /\ UNCHANGED <<node, before, gone>>
  BY DEF Lock
<1>1. /\ w.writes \in 0 .. MaxWrites /\ node.layout \in Layouts /\ node \in NodeOf(node.layout)
      /\ node.children \in [Slots(node.layout) -> Alive] /\ node = before
      /\ gone.sofar \in SUBSET (Used(w.writes) \ {Null})
      /\ Kept(node, node.layout, Used(w.writes) \ gone.sofar) /\ Sound(node)
  BY <1>0 DEF WriterInv, Kept
<1>n. PICK l, k, U, c : l = node.layout /\ k = w.writes /\ U = Used(k) \ gone.sofar /\ c = k + 1
  OBVIOUS
<1>2. /\ c \in Ptrs /\ c \notin Used(k) /\ c # Null /\ Used(c) = Used(k) \cup {c} /\ Null \in Used(k)
      /\ Used(k) \in SUBSET Ptrs /\ c = NewChild
  BY <1>0, <1>1, <1>n, UsedFacts DEF NewChild
<1>3. /\ c \in Alive /\ c \notin gone.sofar /\ Null \in Alive /\ Alive \in SUBSET Ptrs
      /\ Null \notin gone.sofar
      /\ U \in SUBSET Ptrs /\ Null \in U /\ c \notin U /\ U \cup {c} = Used(c) \ gone.sofar
      /\ \A b \in Bytes : Child(node, b) \in U /\ U \in SUBSET Used(c)
  BY <1>1, <1>2, <1>n DEF Alive, Kept
<1>a. Kept(node, l, U) /\ Kept(node, l, U \cup {Null}) /\ U \cup {Null} = U
  BY <1>1, <1>3, <1>n
<1>4. \/ \E b \in Bytes : /\ Child(node, b) = Null /\ ~IsFull(node)
                          /\ w' = [todo |-> InsertChild(node, b, c), out |-> Null, writes |-> w.writes + 1]
      \/ \E b \in Bytes : /\ Child(node, b) # Null
                          /\ w' = [todo |-> ReplaceChild(node, b, c), out |-> Child(node, b), writes |-> w.writes + 1]
      \/ \E b \in Bytes : /\ Child(node, b) # Null
                          /\ w' = [todo |-> RemoveChild(node, b), out |-> Child(node, b), writes |-> w.writes + 1]
      \/ \E p \in NodePrefixes : w' = [todo |-> WritePrefix(p), out |-> Null, writes |-> w.writes + 1]
      \/ w' = [todo |-> <<St("exact", {}, IF node.exact = Null THEN c ELSE Null)>>, out |-> Null,
               writes |-> w.writes + 1]
  BY <1>0, <1>2, Zenon DEF Writes
<1>5. SUFFICES ASSUME NEW stores, NEW out, w' = [todo |-> stores, out |-> out, writes |-> w.writes + 1],
                      \/ \E b \in Bytes : /\ Child(node, b) = Null /\ ~IsFull(node)
                                          /\ stores = InsertChild(node, b, c) /\ out = Null
                      \/ \E b \in Bytes : /\ Child(node, b) # Null
                                          /\ stores = ReplaceChild(node, b, c) /\ out = Child(node, b)
                      \/ \E b \in Bytes : /\ Child(node, b) # Null
                                          /\ stores = RemoveChild(node, b) /\ out = Child(node, b)
                      \/ \E p \in NodePrefixes : stores = WritePrefix(p) /\ out = Null
                      \/ \E e \in Ptrs : stores = <<St("exact", {}, e)>> /\ out = Null
               PROVE  /\ stores \in Seq(StoresOf(l, Alive)) /\ out \in Used(c)
                      /\ Kept(ApplyAll(node, stores), l, Used(c) \ gone.sofar)
                      /\ Out(ApplyAll(node, stores), out) /\ Changed(node, ApplyAll(node, stores))
  <2> DEFINE Ok(stores, out) ==
               /\ stores \in Seq(StoresOf(l, Alive)) /\ out \in Used(c)
               /\ Kept(ApplyAll(node, stores), l, Used(c) \ gone.sofar)
               /\ Out(ApplyAll(node, stores), out) /\ Changed(node, ApplyAll(node, stores))
  <2>1. \E stores, out :
          /\ w' = [todo |-> stores, out |-> out, writes |-> w.writes + 1]
          /\ \/ \E b \in Bytes : /\ Child(node, b) = Null /\ ~IsFull(node)
                                 /\ stores = InsertChild(node, b, c) /\ out = Null
             \/ \E b \in Bytes : /\ Child(node, b) # Null
                                 /\ stores = ReplaceChild(node, b, c) /\ out = Child(node, b)
             \/ \E b \in Bytes : /\ Child(node, b) # Null
                                 /\ stores = RemoveChild(node, b) /\ out = Child(node, b)
             \/ \E p \in NodePrefixes : stores = WritePrefix(p) /\ out = Null
             \/ \E e \in Ptrs : stores = <<St("exact", {}, e)>> /\ out = Null
    <3>1. (IF node.exact = Null THEN c ELSE Null) \in Ptrs
      BY <1>2, ConstantsOK
    <3>2. QED
      BY <1>4, <3>1, Zenon
  <2>2. PICK stores, out : w' = [todo |-> stores, out |-> out, writes |-> w.writes + 1] /\ Ok(stores, out)
    BY <2>1, <1>5, Zenon
  <2>3. QED
    BY <1>0, <1>n, <2>2, LockStep
<1> DEFINE g == ApplyAll(node, stores)
<1>6. ASSUME NEW b \in Bytes, Child(node, b) = Null, ~IsFull(node), stores = InsertChild(node, b, c), out = Null
      PROVE  stores \in Seq(StoresOf(l, Alive)) /\ Wrote(node, g, b, c)
  <2>1. node.count < Cap[node.layout]
    BY <1>1, <1>6, NodeTyped DEF IsFull
  <2>2. QED
    BY <1>1, <1>2, <1>3, <1>6, <1>n, <2>1, InsertSound
<1>7. ASSUME NEW b \in Bytes, Child(node, b) # Null, stores = ReplaceChild(node, b, c), out = Child(node, b)
      PROVE  stores \in Seq(StoresOf(l, Alive)) /\ Wrote(node, g, b, c)
  BY <1>1, <1>2, <1>3, <1>7, <1>n, ReplaceSound
<1>8. ASSUME NEW b \in Bytes, Child(node, b) # Null, stores = RemoveChild(node, b), out = Child(node, b)
      PROVE  stores \in Seq(StoresOf(l, Alive)) /\ Wrote(node, g, b, Null)
  BY <1>1, <1>2, <1>3, <1>8, <1>n, RemoveSound
<1>9. ASSUME NEW p \in NodePrefixes, stores = WritePrefix(p), out = Null
      PROVE  stores \in Seq(StoresOf(l, Alive)) /\ Kept(g, l, U) /\ Changed(node, g)
  <2>1. /\ stores \in Seq(StoresOf(l, Alive))
        /\ g \in NodeOf(l) /\ SameBody(node, g) /\ g.exact = node.exact /\ PrefixOf(g) = p
    BY <1>1, <1>9, <1>n, WritePrefixDoes
  <2>2. QED
    BY <1>a, <2>1, HeaderKept
<1>10. ASSUME NEW e \in Ptrs, stores = <<St("exact", {}, e)>>, out = Null
       PROVE  stores \in Seq(StoresOf(l, Alive)) /\ Kept(g, l, U) /\ Changed(node, g)
  <2>1. /\ stores \in Seq(StoresOf(l, Alive))
        /\ g \in NodeOf(l) /\ SameBody(node, g) /\ PrefixOf(g) = PrefixOf(node)
    BY <1>1, <1>10, <1>n, ExactDoes
  <2>2. PrefixOf(node) \in NodePrefixes
    BY <1>a DEF Kept
  <2>3. QED
    BY <1>a, <2>1, <2>2, HeaderKept
<1> HIDE DEF g
<1>11. out \in Used(c)
  BY <1>2, <1>3, <1>5
<1>12. /\ Kept(g, l, U) => Kept(g, l, Used(c) \ gone.sofar)
       /\ Kept(g, l, U \cup {c}) => Kept(g, l, Used(c) \ gone.sofar)
  BY <1>3, KeptMore
<1>13. /\ stores \in Seq(StoresOf(l, Alive)) /\ Kept(g, l, Used(c) \ gone.sofar)
       /\ Out(g, out) /\ Changed(node, g)
  <2>1. CASE \E b \in Bytes : /\ Child(node, b) = Null /\ ~IsFull(node)
                              /\ stores = InsertChild(node, b, c) /\ out = Null
    <3>1. PICK b \in Bytes : /\ Child(node, b) = Null /\ ~IsFull(node)
                             /\ stores = InsertChild(node, b, c) /\ out = Null
      BY <2>1
    <3>2. Kept(g, l, U \cup {c}) /\ Changed(node, g)
      BY <1>2, <1>3, <1>6, <1>a, <3>1, WroteKept
    <3>3. QED
      BY <1>6, <1>12, <3>1, <3>2 DEF Out
  <2>2. CASE \E b \in Bytes : /\ Child(node, b) # Null
                              /\ stores = ReplaceChild(node, b, c) /\ out = Child(node, b)
    <3>1. PICK b \in Bytes : /\ Child(node, b) # Null
                             /\ stores = ReplaceChild(node, b, c) /\ out = Child(node, b)
      BY <2>2
    <3>2. Kept(g, l, U \cup {c}) /\ Changed(node, g) /\ Out(g, Child(node, b))
      BY <1>2, <1>3, <1>7, <1>a, <3>1, WroteKept
    <3>3. QED
      BY <1>7, <1>12, <3>1, <3>2
  <2>3. CASE \E b \in Bytes : /\ Child(node, b) # Null
                              /\ stores = RemoveChild(node, b) /\ out = Child(node, b)
    <3>1. PICK b \in Bytes : /\ Child(node, b) # Null
                             /\ stores = RemoveChild(node, b) /\ out = Child(node, b)
      BY <2>3
    <3>2. Kept(g, l, U \cup {Null}) /\ Changed(node, g) /\ Out(g, Child(node, b))
      BY <1>2, <1>3, <1>8, <1>a, <3>1, WroteKept
    <3>3. QED
      BY <1>8, <1>12, <1>a, <3>1, <3>2
  <2>4. CASE \E p \in NodePrefixes : stores = WritePrefix(p) /\ out = Null
    BY <1>9, <1>12, <2>4 DEF Out
  <2>5. CASE \E e \in Ptrs : stores = <<St("exact", {}, e)>> /\ out = Null
    BY <1>10, <1>12, <2>5 DEF Out
  <2>6. QED
    BY <1>5, <2>1, <2>2, <2>3, <2>4, <2>5
<1>14. QED
  BY <1>11, <1>13 DEF g


LEMMA StoreKeeps ==
  ASSUME WriterInv, Store
  PROVE  WriterInv'
<1>n. PICK l, s, t : l = node.layout /\ s = Head(w.todo) /\ t = Tail(w.todo)
  OBVIOUS
<1>0. /\ w.todo # <<>> /\ node' = Apply(node, s) /\ w' = [w EXCEPT !.todo = t]
      /\ UNCHANGED <<latch, before, gone>>
  BY <1>n DEF Store
<1>1. /\ w.todo \in Seq(StoresOf(l, Alive)) /\ node \in NodeOf(l) /\ Alive \in SUBSET Ptrs
      /\ node.children \in [Slots(l) -> Alive] /\ l \in Layouts /\ latch.lock
      /\ w.out \in Used(w.writes) /\ w.writes \in 0 .. MaxWrites
  BY <1>0, <1>n DEF WriterInv, Alive
<1>2. s \in StoresOf(l, Alive) /\ t \in Seq(StoresOf(l, Alive))
  BY <1>0, <1>1, <1>n, HeadTailProperties
<1>3. node' \in NodeOf(l) /\ node'.children \in [Slots(l) -> Alive]
  BY <1>0, <1>1, <1>2, ApplyType
<1>4. node'.layout = l /\ Alive' = Alive /\ w'.todo = t /\ w'.out = w.out /\ w'.writes = w.writes
  BY <1>0, <1>1, <1>3 DEF NodeOf, Alive, WriterInv
<1>5. ApplyAll(node', w'.todo) = ApplyAll(node, w.todo)
  BY <1>0, <1>1, <1>4, <1>n, ApplyAllFirst
<1>6. w' \in [todo : Seq(StoresOf(l, Alive)), out : Used(w'.writes), writes : 0 .. MaxWrites]
  <2>1. w' = [todo |-> t, out |-> w.out, writes |-> w.writes]
    BY <1>0 DEF WriterInv
  <2>2. QED
    BY <1>1, <1>2, <1>4, <2>1
<1>7. latch'.lock
  BY <1>0, <1>1
<1>8. QED
  BY <1>0, <1>1, <1>3, <1>4, <1>5, <1>6, <1>7, <1>n DEF WriterInv

LEMMA UnlockKeeps ==
  ASSUME WriterInv, Unlock
  PROVE  WriterInv'
<1>n. PICK l, U, out : l = node.layout /\ U = Used(w.writes) \ gone.sofar /\ out = w.out
  OBVIOUS
<1>0. /\ latch.lock /\ w.todo = <<>> /\ latch' = [ver |-> latch.ver + 1, lock |-> FALSE]
      /\ before' = node /\ gone' = [gone EXCEPT !.sofar = @ \cup ({out} \ {Null})]
      /\ w' = [w EXCEPT !.out = Null] /\ node' = node
  BY <1>n DEF Unlock
<1>1. ApplyAll(node, w.todo) = node
  BY <1>0, ApplyAllNone
<1>2. /\ node \in NodeOf(l) /\ l \in Layouts /\ w.writes \in 0 .. MaxWrites /\ out \in Used(w.writes)
      /\ Kept(node, l, U) /\ Out(node, out) /\ gone.earlier \in SUBSET gone.sofar
      /\ gone.sofar \in SUBSET (Used(w.writes) \ {Null}) /\ latch.ver \in Nat
      /\ gone = [sofar |-> gone.sofar, earlier |-> gone.earlier]
  BY <1>0, <1>1, <1>n DEF WriterInv
<1>3. /\ w' = [todo |-> <<>>, out |-> Null, writes |-> w.writes]
      /\ gone' = [sofar |-> gone.sofar \cup ({out} \ {Null}), earlier |-> gone.earlier]
  <2>1. w = [todo |-> w.todo, out |-> w.out, writes |-> w.writes]
    BY DEF WriterInv
  <2>2. QED
    BY <1>0, <1>2, <2>1
<1>4. /\ w'.todo = <<>> /\ w'.out = Null /\ w'.writes = w.writes /\ ~latch'.lock
      /\ gone'.sofar = gone.sofar \cup ({out} \ {Null}) /\ gone'.earlier = gone.earlier
      /\ latch' \in [ver : Nat, lock : BOOLEAN]
  BY <1>0, <1>2, <1>3
<1> DEFINE V == Used(w.writes) \ gone'.sofar
<1>5. Kept(node, l, V) /\ V \in SUBSET Alive' /\ Null \in V /\ Null \in Used(w.writes) /\ Alive' \in SUBSET Ptrs
  <2>1. Used(w.writes) \in SUBSET Ptrs /\ Null \in Used(w.writes)
    BY <1>2, UsedFacts
  <2>2. V \in SUBSET Alive' /\ Null \in V /\ Alive' \in SUBSET Ptrs
    BY <1>2, <1>4, <2>1 DEF Alive
  <2>3. \A b \in Bytes : Child(node, b) \in V
    BY <1>2, <1>4, <1>n DEF Kept, Out
  <2>4. QED
    BY <1>2, <2>1, <2>2, <2>3 DEF Kept
<1>6. node.children \in [Slots(l) -> Alive']
  <2>1. Sound(node) /\ \A b \in Bytes : Child(node, b) \in Alive'
    BY <1>5 DEF Kept
  <2>2. node.children \in [Slots(node.layout) -> Alive']
    <3>1. PICK A : A = Alive'
      OBVIOUS
    <3>2. A \in SUBSET Ptrs /\ Null \in A /\ \A b \in Bytes : Child(node, b) \in A
      BY <1>5, <2>1, <3>1
    <3>3. node.children \in [Slots(node.layout) -> A]
      BY <2>1, <3>2, KidsIn
    <3>4. QED
      BY <3>1, <3>3
  <2>3. QED
    BY <1>n, <2>2
<1>7. ApplyAll(node', w'.todo) = node
  BY <1>0, <1>4, ApplyAllNone
<1>8. w' \in [todo : Seq(StoresOf(node'.layout, Alive')), out : Used(w'.writes), writes : 0 .. MaxWrites]
  BY <1>2, <1>3, <1>4, <1>5
<1>9. gone'.sofar \in SUBSET (Used(w'.writes) \ {Null}) /\ gone'.earlier \in SUBSET gone'.sofar
  BY <1>2, <1>4
<1>10. gone' = [sofar |-> gone'.sofar, earlier |-> gone'.earlier]
  BY <1>3
<1>11. Out(node, w'.out)
  BY <1>4 DEF Out
<1>12. QED
  BY <1>0, <1>2, <1>4, <1>5, <1>6, <1>7, <1>8, <1>9, <1>10, <1>11, <1>n DEF WriterInv

LEMMA CopyKeeps ==
  ASSUME WriterInv, Copy
  PROVE  /\ WriterInv' /\ SameChildren(before, before') /\ before'.exact = before.exact
         /\ PrefixOf(before') = PrefixOf(before)
<1>0. /\ ~latch.lock /\ w.writes < MaxWrites /\ before' = node' /\ w' = [w EXCEPT !.writes = @ + 1]
      /\ UNCHANGED <<latch, gone>>
  BY DEF Copy
<1>1. PICK l \in Layouts : Cap[l] >= NumChildren(node) /\ node' = CopyInto(node, l)
  BY DEF Copy
<1>2. /\ w.writes \in 0 .. MaxWrites /\ w.todo = <<>> /\ node = before /\ w.out = Null
      /\ node.layout \in Layouts /\ node \in NodeOf(node.layout)
      /\ Kept(node, node.layout, Used(w.writes) \ gone.sofar)
      /\ gone = [sofar |-> gone.sofar, earlier |-> gone.earlier]
      /\ gone.sofar \in SUBSET (Used(w.writes) \ {Null}) /\ gone.earlier \in SUBSET gone.sofar
      /\ latch \in [ver : Nat, lock : BOOLEAN]
  BY <1>0 DEF WriterInv
<1>3. /\ Sound(node') /\ node'.layout = l /\ node'.exact = node.exact /\ PrefixOf(node') = PrefixOf(node)
      /\ \A b \in Bytes : Child(node', b) = Child(node, b)
  <2>1. node.count <= Cap[l] /\ Sound(node) /\ PrefixOf(node) \in NodePrefixes
    BY <1>1, <1>2, NodeTyped, ConstantsOK DEF Kept
  <2>2. QED
    BY <1>1, <2>1, CopySound
<1>4. /\ Used(w.writes + 1) = Used(w.writes) \cup {w.writes + 1} /\ w.writes + 1 \in 0 .. MaxWrites
      /\ Null \in Used(w.writes) /\ Used(w.writes) \in SUBSET Ptrs
  BY <1>0, <1>2, UsedFacts
<1>5. w' = [todo |-> <<>>, out |-> Null, writes |-> w.writes + 1]
  <2>1. w = [todo |-> w.todo, out |-> w.out, writes |-> w.writes]
    BY DEF WriterInv
  <2>2. QED
    BY <1>0, <1>2, <2>1
<1>6. /\ w'.todo = <<>> /\ w'.out = Null /\ w'.writes = w.writes + 1
      /\ Alive' = Alive
  BY <1>0, <1>5 DEF Alive
<1>7. w' \in [todo : Seq(StoresOf(node'.layout, Alive')), out : Used(w'.writes), writes : 0 .. MaxWrites]
  BY <1>4, <1>5, <1>6
<1>8. MapOf(node') = MapOf(node)
  BY <1>3 DEF MapOf
<1>9. Kept(node', node'.layout, Used(w'.writes) \ gone'.sofar)
  BY <1>0, <1>2, <1>3, <1>4, <1>6, <1>8 DEF Kept
<1>10. node'.children \in [Slots(node'.layout) -> Alive']
  <2>1. PICK A, nd : A = Alive' /\ nd = node'
    OBVIOUS
  <2>2. A \in SUBSET Ptrs /\ Null \in A /\ \A b \in Bytes : Child(nd, b) \in A
    BY <1>2, <1>3, <1>4, <1>6, <2>1 DEF Kept, Alive
  <2>3. nd.children \in [Slots(nd.layout) -> A]
    BY <1>3, <2>1, <2>2, KidsIn
  <2>4. QED
    BY <2>1, <2>3
<1>11. ApplyAll(node', w'.todo) = node'
  BY <1>6, ApplyAllNone
<1>12. Out(node', w'.out)
  BY <1>6 DEF Out
<1>13. gone'.sofar \in SUBSET (Used(w'.writes) \ {Null})
  BY <1>0, <1>2, <1>4, <1>6
<1>14. node'.layout \in Layouts /\ node' \in NodeOf(node'.layout)
  BY <1>3 DEF Sound
<1>15. WriterInv'
  BY <1>0, <1>2, <1>6, <1>7, <1>9, <1>10, <1>11, <1>12, <1>13, <1>14 DEF WriterInv
<1>16. QED
  BY <1>0, <1>2, <1>3, <1>15 DEF SameChildren

\* The reader changes nothing of the writer's.
Reads ==
  \/ BeginRead \/ LoadCount \/ LoadKeys \/ LoadBitmap \/ LoadIndex \/ LoadChild
  \/ LoadPrefixLen \/ LoadPrefix \/ Validate \/ EndRead

LEMMA ReadsKeep ==
  ASSUME WriterInv, Reads \/ Over \/ UNCHANGED vars
  PROVE  WriterInv' /\ UNCHANGED <<node, latch, w, before>>
<1>1. /\ UNCHANGED <<node, latch, w, before>>
      /\ gone' = gone \/ gone' = [gone EXCEPT !.earlier = gone.sofar]
  <2>1. CASE BeginRead
    BY <2>1 DEF BeginRead
  <2>2. CASE LoadCount
    BY <2>2 DEF LoadCount
  <2>3. CASE LoadKeys
    BY <2>3 DEF LoadKeys
  <2>4. CASE LoadBitmap
    BY <2>4 DEF LoadBitmap
  <2>5. CASE LoadIndex
    BY <2>5 DEF LoadIndex
  <2>6. CASE LoadChild
    BY <2>6 DEF LoadChild
  <2>7. CASE LoadPrefixLen
    BY <2>7 DEF LoadPrefixLen
  <2>8. CASE LoadPrefix
    BY <2>8 DEF LoadPrefix
  <2>9. CASE Validate
    BY <2>9 DEF Validate
  <2>10. CASE EndRead
    BY <2>10 DEF EndRead
  <2>11. CASE Over \/ UNCHANGED vars
    BY <2>11 DEF Over, vars
  <2>12. QED
    BY <2>1, <2>2, <2>3, <2>4, <2>5, <2>6, <2>7, <2>8, <2>9, <2>10, <2>11 DEF Reads
<1>3. /\ gone' = [sofar |-> gone'.sofar, earlier |-> gone'.earlier] /\ gone'.sofar = gone.sofar
      /\ gone'.earlier \in SUBSET gone'.sofar
  <2>1. /\ gone = [sofar |-> gone.sofar, earlier |-> gone.earlier] /\ gone.earlier \in SUBSET gone.sofar
    BY DEF WriterInv
  <2>2. CASE gone' = gone
    BY <2>1, <2>2
  <2>3. CASE gone' = [gone EXCEPT !.earlier = gone.sofar]
    <3>1. gone' = [sofar |-> gone.sofar, earlier |-> gone.sofar]
      BY <2>1, <2>3
    <3>2. QED
      BY <3>1
  <2>4. QED
    BY <1>1, <2>2, <2>3
<1>4. Alive' = Alive
  BY <1>3 DEF Alive
<1>5. QED
  BY <1>1, <1>3, <1>4 DEF WriterInv

LEMMA WriterStep ==
  ASSUME WriterInv, [Next]_vars
  PROVE  WriterInv'
BY LockKeeps, StoreKeeps, UnlockKeeps, CopyKeeps, ReadsKeep DEF Next, Reads


-----------------------------------------------------------------------------
(* An unlocked node is sound *)

\* The slots in use.
UsedSlots(nd) == {i \in DOMAIN nd.children : nd.children[i] # Null}

LEMMA UsedSlotsCount ==
  ASSUME NEW nd, Sound(nd)
  PROVE  nd.count = Cardinality(UsedSlots(nd))
<1>1. nd.children \in [Slots(nd.layout) -> Ptrs] /\ DOMAIN nd.children = Slots(nd.layout)
  BY NodeTyped DEF Sound
<1> DEFINE S == Present(nd)
           T == UsedSlots(nd)
           f == [b \in S |-> SlotOf(nd, b)]
<1>2. \A b \in S : b \in Bytes /\ SlotOf(nd, b) \in T /\ Has(nd, b, SlotOf(nd, b))
  <2>1. ASSUME NEW b \in S PROVE b \in Bytes /\ SlotOf(nd, b) \in T /\ Has(nd, b, SlotOf(nd, b))
    <3>1. b \in Bytes /\ Child(nd, b) # Null
      BY DEF Present
    <3>2. PICK i \in Slots(nd.layout) : Has(nd, b, i)
      BY <3>1, ChildHas
    <3>3. nd.children[i] # Null /\ SlotOf(nd, b) = i
      BY <3>1, <3>2, HasSlot
    <3>4. QED
      BY <1>1, <3>1, <3>2, <3>3 DEF UsedSlots
  <2>2. QED
    BY <2>1
<1>3. \A i \in T : \E b \in S : SlotOf(nd, b) = i
  <2>1. ASSUME NEW i \in T PROVE \E b \in S : SlotOf(nd, b) = i
    <3>1. i \in Slots(nd.layout) /\ nd.children[i] # Null
      BY <1>1 DEF UsedSlots
    <3>2. PICK b \in Bytes : Has(nd, b, i)
      BY <3>1, SlotHas
    <3>3. SlotOf(nd, b) = i /\ Child(nd, b) # Null
      BY <3>1, <3>2, HasSlot
    <3>4. QED
      BY <3>3 DEF Present
  <2>2. QED
    BY <2>1
<1>4. IsFiniteSet(S)
  BY BytesFinite DEF Present
<1>5. nd.count = Cardinality(S)
  BY CountIs
<1> HIDE DEF S, T
<1>6. f \in [S -> T] /\ \A t \in T : \E x \in S : f[x] = t
  BY <1>2, <1>3
<1>7. \A x, y \in S : f[x] = f[y] => x = y
  BY <1>2, HasByte
<1> HIDE DEF f
<1>8. Cardinality(T) = Cardinality(S)
  BY <1>4, <1>6, <1>7, SameSize
<1>9. QED
  BY <1>5, <1>8 DEF T

LEMMA SoundLayoutOK ==
  ASSUME Sound(node)
  PROVE  LayoutOK
<1> DEFINE n == node.count
           used == {i \in DOMAIN node.children : node.children[i] # Null}
           bits == {b \in Bytes : node.bitmap[b]}
           mapped == {b \in Bytes : node.index[b] # Empty}
<1>1. /\ n \in Nat /\ n <= Cap[node.layout] /\ Cap[node.layout] \in Nat
      /\ DOMAIN node.children = Slots(node.layout) /\ Slots(node.layout) = 0 .. Cap[node.layout] - 1
      /\ node.keys \in [Slots(node.layout) -> Bytes]
  BY NodeTyped DEF Sound
<1>2. n = Cardinality(used)
  BY UsedSlotsCount DEF UsedSlots
<1>3. ASSUME Sorted(node)
      PROVE  used = 0 .. n - 1 /\ \A i \in 1 .. n - 1 : node.keys[i - 1] < node.keys[i]
  <2>1. SortedOK(node)
    BY <1>3 DEF Sound
  <2>2. used = 0 .. n - 1
    BY <1>1, <2>1 DEF SortedOK
  <2>3. ASSUME NEW i \in 1 .. n - 1 PROVE node.keys[i - 1] < node.keys[i]
    <3>1. i \in 0 .. n - 1 /\ i - 1 \in 0 .. n - 1 /\ i - 1 < i
      BY <1>1
    <3>2. QED
      BY <2>1, <3>1 DEF SortedOK
  <2>4. QED
    BY <2>2, <2>3
<1>4. ASSUME node.layout = "Node48"
      PROVE  bits = mapped /\ used = {node.index[b] : b \in bits} /\ Cardinality(bits) = n
  <2>1. IndexOK(node)
    BY <1>4 DEF Sound
  <2>2. QED
    BY <1>1, <2>1 DEF IndexOK, BitsOf
<1>5. ASSUME node.layout = "Node256" PROVE bits = used
  <2>1. DirectOK(node)
    BY <1>5 DEF Sound
  <2>2. Slots(node.layout) = Bytes
    BY <1>5, LayoutFacts
  <2>3. QED
    BY <1>1, <2>1, <2>2 DEF DirectOK
<1>6. QED
  BY <1>1, <1>2, <1>3, <1>4, <1>5 DEF LayoutOK

LEMMA SoundRestExact ==
  ASSUME Sound(node)
  PROVE  RestExact
<1> SUFFICES ASSUME NEW taken \in {TakenExact, TakenNothing} \cup {b \in Bytes : Child(node, b) # Null}
             PROVE  LET entries == ({b \in Bytes : Child(node, b) # Null}
                        \cup (IF node.exact # Null THEN {TakenExact} ELSE {})) \ {taken}
                    IN  Rest(node, taken) =
                          (CASE entries = {} -> "empty"
                             [] Cardinality(entries) > 1 -> "many"
                             [] OTHER -> IF entries = {TakenExact} THEN "exact" ELSE "child")
  BY DEF RestExact
<1>n. PICK P, n, others, entries :
        /\ P = {b \in Bytes : Child(node, b) # Null} /\ n = node.count /\ others = P \ {taken}
        /\ entries = (P \cup (IF node.exact # Null THEN {TakenExact} ELSE {})) \ {taken}
  OBVIOUS
<1>1. /\ n \in Nat /\ NumChildren(node) = n /\ InUse(node) = P /\ n = Cardinality(P)
      /\ IsFiniteSet(P) /\ IsFiniteSet(others) /\ P \in SUBSET Bytes
  <2>1. n \in Nat /\ NumChildren(node) = n
    BY <1>n, NodeTyped DEF Sound
  <2>2. InUse(node) = P /\ n = Cardinality(P)
    BY <1>n, CountIs DEF Present
  <2>3. IsFiniteSet(P) /\ IsFiniteSet(others) /\ P \in SUBSET Bytes
    BY <1>n, BytesFinite
  <2>4. QED
    BY <2>1, <2>2, <2>3
<1>2. TakenExact \notin Bytes /\ TakenNothing \notin Bytes
  BY ConstantsOK DEF Bytes, TakenExact, TakenNothing
<1>3. PICK m, has, h, left :
        /\ m = Cardinality(others) /\ has = (node.exact # Null /\ taken # TakenExact)
        /\ h = (IF has THEN 1 ELSE 0)
        /\ left = n + h - (IF taken \in Bytes THEN 1 ELSE 0)
  OBVIOUS
<1>h. (h = 1 /\ has) \/ (h = 0 /\ ~has)
  BY <1>3
<1>4. m \in Nat /\ m = n - (IF taken \in Bytes THEN 1 ELSE 0) /\ (m = 0 <=> others = {})
  <2>1. m \in Nat /\ (m = 0 <=> others = {})
    BY <1>1, <1>3, FS_CardinalityType, FS_EmptySet
  <2>2. CASE taken \in Bytes
    <3>1. taken \in P
      BY <1>2, <1>n, <2>2
    <3>2. m = n - 1
      BY <1>1, <1>3, <1>n, <3>1, FS_RemoveElement
    <3>3. QED
      BY <2>1, <2>2, <3>2
  <2>3. CASE taken \notin Bytes
    <3>1. others = P
      BY <1>1, <1>n, <2>3
    <3>2. QED
      BY <1>1, <1>3, <2>1, <2>3, <3>1
  <2>4. QED
    BY <2>2, <2>3
<1>5. /\ has => entries = others \cup {TakenExact} /\ TakenExact \notin others
      /\ ~has => entries = others
  <2>1. TakenExact \notin P
    BY <1>1, <1>2
  <2>2. QED
    BY <1>3, <1>n, <2>1
<1>6. IsFiniteSet(entries) /\ Cardinality(entries) = left /\ left \in Nat /\ left = m + h
  <2>1. left = m + h /\ left \in Nat
    BY <1>1, <1>3, <1>4, <1>h
  <2>2. CASE h = 1 /\ has
    <3>1. entries = others \cup {TakenExact} /\ TakenExact \notin others
      BY <1>5, <2>2
    <3>2. IsFiniteSet(entries) /\ Cardinality(entries) = Cardinality(others) + 1
      BY <1>1, <3>1, FS_AddElement
    <3>3. QED
      BY <1>3, <1>4, <2>1, <2>2, <3>2
  <2>3. CASE h = 0 /\ ~has
    <3>1. entries = others
      BY <1>5, <2>3
    <3>2. left = m
      BY <1>4, <2>1, <2>3
    <3>3. QED
      BY <1>1, <1>3, <2>1, <3>1, <3>2
  <2>4. QED
    BY <1>h, <2>2, <2>3
<1>7. Rest(node, taken) =
        CASE left >= 2 -> "many"
          [] left < 2 /\ has -> IF others = {} THEN "exact" ELSE "many"
          [] left < 2 /\ ~has /\ others = {} -> "empty"
          [] OTHER -> IF Cardinality(others) = 1 THEN "child" ELSE "many"
  BY <1>1, <1>3, <1>h, <1>n DEF Rest
<1>8. Rest(node, taken) = (CASE entries = {} -> "empty"
                             [] Cardinality(entries) > 1 -> "many"
                             [] OTHER -> IF entries = {TakenExact} THEN "exact" ELSE "child")
  <2>1. CASE left >= 2
    <3>1. Rest(node, taken) = "many"
      BY <1>6, <1>7, <2>1
    <3>2. entries # {} /\ Cardinality(entries) > 1
      BY <1>6, <2>1, FS_EmptySet
    <3>3. QED
      BY <3>1, <3>2
  <2>2. CASE left < 2 /\ has
    <3>1. m = 0 /\ others = {}
      <4>1. h = 1
        BY <1>h, <2>2
      <4>2. left < 2 /\ left = m + h /\ m \in Nat
        BY <1>4, <1>6, <2>2
      <4>3. m = 0
        BY <4>1, <4>2
      <4>4. QED
        BY <1>4, <4>3
    <3>2. Rest(node, taken) = "exact"
      BY <1>6, <1>7, <2>2, <3>1
    <3>3. entries = {TakenExact} /\ ~(Cardinality(entries) > 1)
      BY <1>5, <1>6, <2>2, <3>1
    <3>4. QED
      BY <3>2, <3>3
  <2>3. CASE left < 2 /\ ~has /\ others = {}
    <3>1. Rest(node, taken) = "empty"
      BY <1>6, <1>7, <2>3
    <3>2. entries = {} /\ ~(Cardinality(entries) > 1)
      BY <1>5, <1>6, <2>3
    <3>3. QED
      BY <3>1, <3>2
  <2>4. CASE left < 2 /\ ~has /\ others # {}
    <3>1. m = 1 /\ Cardinality(others) = 1
      <4>1. h = 0 /\ m # 0
        BY <1>4, <1>h, <2>4
      <4>2. left < 2 /\ left = m + h /\ m \in Nat
        BY <1>4, <1>6, <2>4
      <4>3. m = 1
        BY <4>1, <4>2
      <4>4. QED
        BY <1>3, <4>3
    <3>2. Rest(node, taken) = "child"
      BY <1>6, <1>7, <2>4, <3>1
    <3>3. entries # {} /\ ~(Cardinality(entries) > 1) /\ entries # {TakenExact}
      <4>1. TakenExact \notin others
        BY <1>1, <1>2, <1>n
      <4>2. QED
        BY <1>5, <1>6, <2>4, <4>1
    <3>4. QED
      BY <3>2, <3>3
  <2>5. QED
    BY <1>6, <2>1, <2>2, <2>3, <2>4
<1>9. QED
  BY <1>8, <1>n

\* An unlocked node is sound in every layout, after any number of inserts,
\* replaces, removes, grows and shrinks: its count, keys, index, bitmap and
\* slots agree, and the counts that merges are decided on are exact.
THEOREM UnlockedNodesSound == Spec => []LayoutSound
<1>1. Init => WriterInv
  BY WriterInit
<1>2. WriterInv /\ [Next]_vars => WriterInv'
  BY WriterStep
<1>3. WriterInv => LayoutSound
  <2>1. ASSUME WriterInv PROVE LayoutSound
    <3>1. CASE latch.lock
      BY <3>1 DEF LayoutSound, LayoutOK, RestExact
    <3>2. CASE ~latch.lock
      <4>1. Sound(node)
        BY <2>1, <3>2 DEF WriterInv, Kept
      <4>2. QED
        BY <4>1, SoundLayoutOK, SoundRestExact DEF LayoutSound
    <3>3. QED
      BY <3>1, <3>2
  <2>2. QED
    BY <2>1
<1>4. QED
  BY <1>1, <1>2, <1>3, PTL DEF Spec


-----------------------------------------------------------------------------
(* The layouts implement the map *)

LEMMA PointersAre ==
  1 .. MaxWrites + 1 + TopByte \cup {Null} = Ptrs
BY ConstantsOK DEF Ptrs, Null

LEMMA SameMap ==
  ASSUME NEW old, NEW new, SameChildren(old, new)
  PROVE  MapOf(new) = MapOf(old)
BY DEF SameChildren, MapOf

\* One change of a node is one step of NodeMap.
LEMMA ChangeMaps ==
  ASSUME Sound(before), Sound(before'), PrefixOf(before') \in NodePrefixes,
         Changed(before, before'), latch'.ver = latch.ver + 1
  PROVE  Abstract!NodeNext
<1>1. CASE /\ \E b \in Bytes, c \in Ptrs : \A x \in Bytes :
                Child(before', x) = IF x = b THEN c ELSE Child(before, x)
           /\ before'.exact = before.exact /\ PrefixOf(before') = PrefixOf(before)
  <2>1. PICK b \in Bytes, c \in Ptrs : \A x \in Bytes :
               Child(before', x) = IF x = b THEN c ELSE Child(before, x)
    BY <1>1
  <2>2. MapOf(before') = [MapOf(before) EXCEPT ![b] = c]
    BY <2>1 DEF MapOf
  <2>3. Abstract!PutChild(b, c)
    BY <1>1, <2>2 DEF Abstract!PutChild
  <2>4. c \in 1 .. MaxWrites + 1 + TopByte \cup {Null}
    BY PointersAre
  <2>5. QED
    BY <2>3, <2>4 DEF Abstract!NodeNext
<1>2. CASE SameChildren(before, before') /\ PrefixOf(before') = PrefixOf(before)
  <2>1. MapOf(before') = MapOf(before)
    BY <1>2, SameMap
  <2>2. before'.exact \in 1 .. MaxWrites + 1 + TopByte \cup {Null}
    BY PointersAre, NodeTyped DEF Sound
  <2>3. Abstract!SetExact(before'.exact)
    BY <1>2, <2>1 DEF Abstract!SetExact
  <2>4. QED
    BY <2>2, <2>3 DEF Abstract!NodeNext
<1>3. CASE SameChildren(before, before') /\ before'.exact = before.exact
  <2>1. MapOf(before') = MapOf(before)
    BY <1>3, SameMap
  <2>2. Abstract!SetPrefix(PrefixOf(before'))
    BY <1>3, <2>1 DEF Abstract!SetPrefix
  <2>3. QED
    BY <2>2 DEF Abstract!NodeNext
<1>4. QED
  BY <1>1, <1>2, <1>3 DEF Changed

LEMMA MapsInit ==
  ASSUME Init
  PROVE  Abstract!NodeInit
<1>1. Kept(before, node.layout, Used(w.writes) \ gone.sofar)
  BY WriterInit DEF WriterInv
<1>2. MapOf(before) \in [Bytes -> Ptrs] /\ before.exact \in Ptrs /\ PrefixOf(before) \in NodePrefixes
  BY <1>1, MapTyped, NodeTyped DEF Kept, Sound
<1>3. latch.ver = 0
  BY DEF Init
<1>4. QED
  BY <1>2, <1>3, PointersAre DEF Abstract!NodeInit

\* The release of the latch is the step of NodeMap; every other step of the
\* writer, and every step of the reader, changes nothing of it.
LEMMA MapsStep ==
  ASSUME WriterInv, [Next]_vars
  PROVE  [Abstract!NodeNext]_(Abstract!NodeVars)
<1>1. CASE Unlock
  <2>1. WriterInv'
    BY <1>1, UnlockKeeps
  <2>2. before' = node /\ w.todo = <<>> /\ latch.lock /\ latch'.ver = latch.ver + 1
    BY <1>1 DEF Unlock
  <2>3. Changed(before, before')
    BY <2>2, ApplyAllNone DEF WriterInv
  <2>4. Sound(before) /\ Sound(before') /\ PrefixOf(before') \in NodePrefixes
    BY <2>1 DEF WriterInv, Kept
  <2>5. QED
    BY <2>2, <2>3, <2>4, ChangeMaps
<1>2. CASE Copy
  <2>1. SameChildren(before, before') /\ before'.exact = before.exact /\ PrefixOf(before') = PrefixOf(before)
    BY <1>2, CopyKeeps
  <2>2. MapOf(before') = MapOf(before) /\ latch' = latch
    BY <1>2, <2>1, SameMap DEF Copy
  <2>3. QED
    BY <2>1, <2>2 DEF Abstract!NodeVars
<1>3. CASE before' = before /\ latch'.ver = latch.ver
  BY <1>3 DEF Abstract!NodeVars, MapOf, PrefixOf, Child, SlotOf
<1>4. CASE Lock
  <2>1. before' = before /\ latch'.ver = latch.ver
    BY <1>4 DEF Lock, WriterInv
  <2>2. QED
    BY <1>3, <2>1
<1>5. CASE Store
  BY <1>3, <1>5 DEF Store
<1>6. CASE Reads \/ Over \/ UNCHANGED vars
  BY <1>3, <1>6, ReadsKeep
<1>7. QED
  BY <1>1, <1>2, <1>4, <1>5, <1>6 DEF Next, Reads

\* The four layouts implement NodeMap: each insert, replace, remove, change
\* of the prefix or of the exact leaf, however many stores it takes and in
\* whatever order, is one atomic step on a map when the latch is released,
\* and a copy into another layout changes nothing.
THEOREM LayoutsImplementNodeMap == Spec => ImplementsNodeMap
<1>1. Init => WriterInv /\ Abstract!NodeInit
  BY WriterInit, MapsInit
<1>2. WriterInv /\ [Next]_vars => WriterInv'
  BY WriterStep
<1>3. WriterInv /\ [Next]_vars => [Abstract!NodeNext]_(Abstract!NodeVars)
  BY MapsStep
<1>4. QED
  BY <1>1, <1>2, <1>3, PTL DEF Spec, ImplementsNodeMap, Abstract!NodeSpec


-----------------------------------------------------------------------------
(* The steps of the reader *)

\* The fields of the reader.
Shape(s) ==
  s = [pc |-> s.pc, op |-> s.op, arg |-> s.arg, ver |-> s.ver, count |-> s.count,
       words |-> s.words, keys |-> s.keys, from |-> s.from, slots |-> s.slots,
       byte |-> s.byte, res |-> s.res, reads |-> s.reads]

\* The search that s does for the version and the bytes that it was begun with.
SameSearch(s, t) == t.op = s.op /\ t.arg = s.arg /\ t.ver = s.ver

\* The field that the search of a layout begins with.
Begins(op, l) ==
  CASE op = "prefix" -> "prefixLen"
    [] op # "prefix" /\ l \in {"Node4", "Node16"} -> "count"
    [] op = "find" /\ l = "Node48" -> "index"
    [] op = "find" /\ l = "Node256" -> "children"
    [] op \in {"next", "prev"} /\ l \in {"Node48", "Node256"} -> "bitmap"

LEMMA FirstIs ==
  ASSUME node.layout \in Layouts, NEW op \in {"find", "next", "prev", "prefix"}
  PROVE  First(op) = Begins(op, node.layout)
BY DEF First, Begins, Sorted, Layouts

LEMMA BeginDoes ==
  ASSUME BeginRead, node.layout \in Layouts
  PROVE  /\ Shape(r') /\ ~latch.lock /\ gone' = [gone EXCEPT !.earlier = gone.sofar]
         /\ UNCHANGED <<node, latch, w, before>>
         /\ r'.op \in {"find", "next", "prev", "prefix"} /\ r'.arg \in Bytes
         /\ r'.ver = latch.ver /\ r'.words = 0 /\ r'.res = NoResult
         /\ r'.from = r'.arg /\ r'.byte = r'.arg
         /\ r'.pc = Begins(r'.op, node.layout)
         /\ r'.pc = "children" => r'.slots = {r'.arg}
<1>1. PICK op \in {"find", "next", "prev", "prefix"}, arg \in Bytes :
        r' = [Idle EXCEPT !.pc = First(op), !.op = op, !.arg = arg, !.from = arg,
                            !.byte = arg, !.ver = latch.ver, !.reads = 1,
                            !.slots = IF First(op) = "children" THEN {arg} ELSE {}]
  BY ZenonT(30) DEF BeginRead
<1>2. r' = [pc |-> First(op), op |-> op, arg |-> arg, ver |-> latch.ver, count |-> 0, words |-> 0,
            keys |-> <<>>, from |-> arg, slots |-> IF First(op) = "children" THEN {arg} ELSE {},
            byte |-> arg, res |-> NoResult, reads |-> 1]
  BY <1>1 DEF Idle
<1>3. First(op) = Begins(op, node.layout)
  BY FirstIs
<1>4. Shape(r')
  BY <1>2 DEF Shape
<1>5. ~latch.lock /\ gone' = [gone EXCEPT !.earlier = gone.sofar] /\ UNCHANGED <<node, latch, w, before>>
  BY DEF BeginRead
<1>6. QED
  BY <1>2, <1>3, <1>4, <1>5

LEMMA CountDoes ==
  ASSUME Shape(r), LoadCount
  PROVE  /\ Shape(r') /\ SameSearch(r, r') /\ UNCHANGED <<node, latch, w, before, gone>>
         /\ r.pc = "count" /\ r'.pc = "keys" /\ r'.count = NumChildren(node)
         /\ r'.keys = [i \in Slots(node.layout) |-> 0] /\ r'.words = r.words /\ r'.res = r.res
BY DEF LoadCount, Shape, SameSearch

\* The keys once the next word is loaded.
WithKeys(s, ws) ==
  [j \in DOMAIN s.keys |-> IF j \in ws[s.words + 1] THEN node.keys[j] ELSE s.keys[j]]
WithWord(s, ws) == [s EXCEPT !.words = s.words + 1, !.keys = WithKeys(s, ws)]

LEMMA WithWordIs ==
  ASSUME Shape(r), NEW ws
  PROVE  LET s == WithWord(r, ws)
         IN  /\ Shape(s) /\ SameSearch(r, s) /\ s.words = r.words + 1 /\ s.keys = WithKeys(r, ws)
             /\ s.count = r.count /\ s.res = r.res /\ s.pc = r.pc
<1>n. PICK n, k, s : n = r.words + 1 /\ k = WithKeys(r, ws) /\ s = WithWord(r, ws)
  OBVIOUS
<1>1. s = [r EXCEPT !.words = n, !.keys = k]
  BY <1>n DEF WithWord
<1>2. /\ Shape(s) /\ SameSearch(r, s) /\ s.words = n /\ s.keys = k
      /\ s.count = r.count /\ s.res = r.res /\ s.pc = r.pc
  BY <1>1 DEF Shape, SameSearch
<1>3. QED
  BY <1>2, <1>n

LEMMA KeysDoes ==
  ASSUME Shape(r), LoadKeys
  PROVE  LET ws == KeyWords(node.layout)
             s == WithWord(r, ws)
         IN  /\ Shape(r') /\ SameSearch(r, r') /\ UNCHANGED <<node, latch, w, before, gone>>
             /\ r.pc = "keys" /\ r'.words = r.words + 1 /\ r'.keys = WithKeys(r, ws)
             /\ r'.count = r.count /\ r'.res = r.res
             /\ r.words + 1 < Len(ws) => r'.pc = "keys"
             /\ ~(r.words + 1 < Len(ws)) =>
                  /\ r'.slots = Candidates(s)
                  /\ r'.pc = IF Candidates(s) = {} THEN "check" ELSE "children"
<1>n. PICK ws, s : ws = KeyWords(node.layout) /\ s = WithWord(r, ws)
  OBVIOUS
<1>1. /\ Shape(s) /\ SameSearch(r, s) /\ s.words = r.words + 1 /\ s.keys = WithKeys(r, ws)
      /\ s.count = r.count /\ s.res = r.res /\ s.pc = r.pc
  BY <1>n, WithWordIs
<1>2. r.pc = "keys" /\ UNCHANGED <<node, latch, w, before, gone>>
  BY DEF LoadKeys
<1>3. r' = IF r.words + 1 < Len(ws) THEN s
           ELSE [s EXCEPT !.pc = IF Candidates(s) = {} THEN "check" ELSE "children",
                          !.slots = Candidates(s)]
  <2>1. s = [r EXCEPT !.words = r.words + 1,
                 !.keys = [j \in DOMAIN @ |-> IF j \in ws[r.words + 1] THEN node.keys[j] ELSE @[j]]]
    BY <1>n DEF WithWord, WithKeys, Shape
  <2>2. QED
    BY <1>n, <2>1 DEF LoadKeys
<1>4. CASE r.words + 1 < Len(ws)
  BY <1>1, <1>2, <1>3, <1>4, <1>n
<1>5. CASE ~(r.words + 1 < Len(ws))
  <2>1. PICK all : all = Candidates(s)
    OBVIOUS
  <2>2. r' = [s EXCEPT !.pc = IF all = {} THEN "check" ELSE "children", !.slots = all]
    BY <1>3, <1>5, <2>1
  <2>3. /\ Shape(r') /\ SameSearch(s, r') /\ r'.words = s.words /\ r'.keys = s.keys
        /\ r'.count = s.count /\ r'.res = s.res /\ r'.slots = all
        /\ r'.pc = IF all = {} THEN "check" ELSE "children"
    BY <1>1, <2>2 DEF Shape, SameSearch
  <2>4. SameSearch(r, r')
    BY <1>1, <2>3 DEF SameSearch
  <2>5. QED
    BY <1>1, <1>2, <1>5, <1>n, <2>1, <2>3, <2>4
<1>6. QED
  BY <1>4, <1>5


LEMMA BitmapDoes ==
  ASSUME Shape(r), LoadBitmap
  PROVE  LET bits == Bits(r)
             b == IF r.op = "next" THEN Min(bits) ELSE Max(bits)
             beyond == IF r.op = "next" THEN Max(InWord(r.from)) + 1 ELSE Min(InWord(r.from)) - 1
         IN  /\ Shape(r') /\ SameSearch(r, r') /\ UNCHANGED <<node, latch, w, before, gone>>
             /\ r.pc = "bitmap" /\ r'.res = r.res /\ r'.keys = r.keys /\ r'.count = r.count
             /\ bits # {} => /\ r'.byte = b /\ r'.slots = {b}
                             /\ r'.pc = IF node.layout = "Node48" THEN "index" ELSE "children"
             /\ bits = {} /\ beyond \in Bytes => r'.from = beyond /\ r'.pc = "bitmap" /\ r'.byte = r.byte
             /\ bits = {} /\ beyond \notin Bytes => r'.pc = "check"
<1>n. PICK bits, b, beyond, next :
        /\ bits = Bits(r) /\ b = (IF r.op = "next" THEN Min(bits) ELSE Max(bits))
        /\ beyond = (IF r.op = "next" THEN Max(InWord(r.from)) + 1 ELSE Min(InWord(r.from)) - 1)
        /\ next = (IF node.layout = "Node48" THEN "index" ELSE "children")
  OBVIOUS
<1>1. r.pc = "bitmap" /\ UNCHANGED <<node, latch, w, before, gone>>
  BY DEF LoadBitmap
<1>2. r' = IF bits # {} THEN [r EXCEPT !.byte = b, !.slots = {b}, !.pc = next]
           ELSE IF beyond \in Bytes THEN [r EXCEPT !.from = beyond]
           ELSE [r EXCEPT !.pc = "check"]
  BY <1>n DEF LoadBitmap
<1>3. /\ Shape(r') /\ SameSearch(r, r') /\ r'.res = r.res /\ r'.keys = r.keys /\ r'.count = r.count
      /\ bits # {} => r'.byte = b /\ r'.slots = {b} /\ r'.pc = next
      /\ bits = {} /\ beyond \in Bytes => r'.from = beyond /\ r'.pc = r.pc /\ r'.byte = r.byte
      /\ bits = {} /\ beyond \notin Bytes => r'.pc = "check"
  BY <1>2 DEF Shape, SameSearch
<1>4. QED
  BY <1>1, <1>3, <1>n

\* Where next and prev go on.
Past(s) == IF s.op = "next" THEN s.byte + 1 ELSE s.byte - 1

LEMMA SkipDoes ==
  ASSUME Shape(r)
  PROVE  LET s == SkipByte(r)
         IN  /\ Shape(s) /\ SameSearch(r, s) /\ s.res = r.res /\ s.keys = r.keys /\ s.count = r.count
             /\ s.byte = r.byte
             /\ r.op # "find" /\ Past(r) \in Bytes => s.pc = "bitmap" /\ s.from = Past(r)
             /\ ~(r.op # "find" /\ Past(r) \in Bytes) => s.pc = "check"
<1>n. PICK on, s : on = Past(r) /\ s = SkipByte(r)
  OBVIOUS
<1>1. s = IF r.op # "find" /\ on \in Bytes THEN [r EXCEPT !.pc = "bitmap", !.from = on, !.slots = {}]
          ELSE [r EXCEPT !.pc = "check", !.slots = {}]
  BY <1>n DEF SkipByte, Past
<1>2. /\ Shape(s) /\ SameSearch(r, s) /\ s.res = r.res /\ s.keys = r.keys /\ s.count = r.count
      /\ s.byte = r.byte
      /\ r.op # "find" /\ on \in Bytes => s.pc = "bitmap" /\ s.from = on
      /\ ~(r.op # "find" /\ on \in Bytes) => s.pc = "check"
  BY <1>1 DEF Shape, SameSearch
<1>3. QED
  BY <1>2, <1>n

LEMMA IndexDoes ==
  ASSUME Shape(r), LoadIndex
  PROVE  /\ r.pc = "index" /\ UNCHANGED <<node, latch, w, before, gone>>
         /\ node.index[r.byte] >= Empty => r' = SkipByte(r)
         /\ ~(node.index[r.byte] >= Empty) =>
              /\ Shape(r') /\ SameSearch(r, r') /\ r'.res = r.res /\ r'.keys = r.keys
              /\ r'.byte = r.byte /\ r'.pc = "children" /\ r'.slots = {node.index[r.byte]}
<1>1. r.pc = "index" /\ UNCHANGED <<node, latch, w, before, gone>>
  BY DEF LoadIndex
<1>2. PICK slot : slot = node.index[r.byte]
  OBVIOUS
<1>3. r' = IF slot >= Empty THEN SkipByte(r) ELSE [r EXCEPT !.pc = "children", !.slots = {slot}]
  BY <1>2 DEF LoadIndex
<1>4. CASE slot >= Empty
  BY <1>1, <1>2, <1>3, <1>4
<1>5. CASE ~(slot >= Empty)
  <2>1. r' = [r EXCEPT !.pc = "children", !.slots = {slot}]
    BY <1>3, <1>5
  <2>2. /\ Shape(r') /\ SameSearch(r, r') /\ r'.res = r.res /\ r'.keys = r.keys
        /\ r'.byte = r.byte /\ r'.pc = "children" /\ r'.slots = {slot}
    BY <2>1 DEF Shape, SameSearch
  <2>3. QED
    BY <1>1, <1>2, <1>5, <2>2
<1>6. QED
  BY <1>4, <1>5

LEMMA ChildDoes ==
  ASSUME Shape(r), LoadChild
  PROVE  LET i == NextSlot(r)
             c == node.children[i]
         IN  /\ r.pc = "children" /\ UNCHANGED <<node, latch, w, before, gone>>
             /\ c # Null =>
                  /\ Shape(r') /\ SameSearch(r, r') /\ r'.pc = "check"
                  /\ r'.res = [byte |-> IF Sorted(node) THEN r.keys[i] ELSE r.byte, child |-> c]
             /\ c = Null /\ ~Sorted(node) => r' = SkipByte(r)
             /\ c = Null /\ Sorted(node) =>
                  /\ Shape(r') /\ SameSearch(r, r') /\ r'.res = r.res /\ r'.keys = r.keys
                  /\ \/ r'.pc = "check" /\ (r.slots = {i} \/ r.op = "find")
                     \/ r'.pc = r.pc /\ r.slots # {i} /\ r'.slots = r.slots \ {i}
<1>n. PICK i, c, b : i = NextSlot(r) /\ c = node.children[i] /\ b = (IF Sorted(node) THEN r.keys[i] ELSE r.byte)
  OBVIOUS
<1>1. r.pc = "children" /\ UNCHANGED <<node, latch, w, before, gone>>
  BY DEF LoadChild
<1>2. r' = IF c # Null THEN [r EXCEPT !.pc = "check", !.res = [byte |-> b, child |-> c]]
           ELSE IF ~Sorted(node) THEN SkipByte(r)
           ELSE IF r.slots = {i} \/ r.op = "find" THEN [r EXCEPT !.pc = "check"]
           ELSE [r EXCEPT !.slots = r.slots \ {i}]
  BY <1>n DEF LoadChild, Shape
<1>3. CASE c # Null
  <2>1. r' = [r EXCEPT !.pc = "check", !.res = [byte |-> b, child |-> c]]
    BY <1>2, <1>3
  <2>2. /\ Shape(r') /\ SameSearch(r, r') /\ r'.pc = "check" /\ r'.res = [byte |-> b, child |-> c]
    BY <2>1 DEF Shape, SameSearch
  <2>3. QED
    BY <1>1, <1>3, <1>n, <2>2
<1>4. CASE c = Null /\ ~Sorted(node)
  BY <1>1, <1>2, <1>4, <1>n
<1>5. CASE c = Null /\ Sorted(node)
  <2>1. /\ Shape(r') /\ SameSearch(r, r') /\ r'.res = r.res /\ r'.keys = r.keys
        /\ \/ r'.pc = "check" /\ (r.slots = {i} \/ r.op = "find")
           \/ r'.pc = r.pc /\ r.slots # {i} /\ r'.slots = r.slots \ {i}
    BY <1>2, <1>5 DEF Shape, SameSearch
  <2>2. QED
    BY <1>1, <1>5, <1>n, <2>1
<1>6. QED
  BY <1>3, <1>4, <1>5

LEMMA PrefixLenDoes ==
  ASSUME Shape(r), LoadPrefixLen
  PROVE  LET n == Clamp(node.prefixLen, MaxPrefix)
         IN  /\ Shape(r') /\ SameSearch(r, r') /\ UNCHANGED <<node, latch, w, before, gone>>
             /\ r.pc = "prefixLen" /\ r'.count = n /\ r'.keys = [i \in 1 .. MaxPrefix |-> 0]
             /\ r'.words = r.words /\ r'.res = r.res /\ r'.pc = IF n = 0 THEN "check" ELSE "prefix"
<1>n. PICK n : n = Clamp(node.prefixLen, MaxPrefix)
  OBVIOUS
<1>1. r' = [r EXCEPT !.count = n, !.keys = [i \in 1 .. MaxPrefix |-> 0],
                        !.pc = IF n = 0 THEN "check" ELSE "prefix"]
  BY <1>n DEF LoadPrefixLen
<1>2. /\ Shape(r') /\ SameSearch(r, r') /\ r'.count = n /\ r'.keys = [i \in 1 .. MaxPrefix |-> 0]
      /\ r'.words = r.words /\ r'.res = r.res /\ r'.pc = IF n = 0 THEN "check" ELSE "prefix"
  BY <1>1 DEF Shape, SameSearch
<1>3. QED
  BY <1>2, <1>n DEF LoadPrefixLen

LEMMA PrefixDoes ==
  ASSUME Shape(r), LoadPrefix
  PROVE  LET i == r.words + 1
         IN  /\ Shape(r') /\ SameSearch(r, r') /\ UNCHANGED <<node, latch, w, before, gone>>
             /\ r.pc = "prefix" /\ r'.count = r.count /\ r'.words = i /\ r'.res = r.res
             /\ r'.keys = [j \in DOMAIN r.keys |-> IF j \in PrefixWords[i] THEN node.prefix[j] ELSE r.keys[j]]
             /\ r'.pc = IF i = 2 THEN "check" ELSE "prefix"
<1>n. PICK i, k : /\ i = r.words + 1
                  /\ k = [j \in DOMAIN r.keys |-> IF j \in PrefixWords[i] THEN node.prefix[j] ELSE r.keys[j]]
  OBVIOUS
<1>0. r.pc = "prefix"
  BY DEF LoadPrefix
<1>1. r' = [r EXCEPT !.words = i, !.pc = IF i = 2 THEN "check" ELSE "prefix", !.keys = k]
  BY <1>0, <1>n DEF LoadPrefix, Shape
<1>2. /\ Shape(r') /\ SameSearch(r, r') /\ r'.count = r.count /\ r'.words = i /\ r'.res = r.res /\ r'.keys = k
      /\ r'.pc = IF i = 2 THEN "check" ELSE "prefix"
  BY <1>1 DEF Shape, SameSearch
<1>3. QED
  BY <1>0, <1>2, <1>n DEF LoadPrefix

LEMMA EndsDo ==
  ASSUME Shape(r), Validate \/ EndRead
  PROVE  /\ Shape(r') /\ UNCHANGED <<node, latch, w, before, gone>>
         /\ \/ r'.pc = "idle" /\ r'.res = NoResult
            \/ /\ r.pc = "check" /\ Valid(r) /\ r'.pc = "done" /\ SameSearch(r, r') /\ r'.res = r.res
               /\ r'.keys = r.keys /\ r'.count = r.count
<1>1. ASSUME r' = [Idle EXCEPT !.reads = 1] PROVE Shape(r') /\ r'.pc = "idle" /\ r'.res = NoResult
  BY <1>1 DEF Shape, Idle
<1>2. CASE EndRead
  BY <1>1, <1>2 DEF EndRead
<1>3. CASE Validate /\ ~Valid(r)
  BY <1>1, <1>3 DEF Validate
<1>4. CASE Validate /\ Valid(r)
  <2>1. r' = [r EXCEPT !.pc = "done"] /\ r.pc = "check" /\ UNCHANGED <<node, latch, w, before, gone>>
    BY <1>4 DEF Validate
  <2>2. /\ Shape(r') /\ r'.pc = "done" /\ SameSearch(r, r') /\ r'.res = r.res
        /\ r'.keys = r.keys /\ r'.count = r.count
    BY <2>1 DEF Shape, SameSearch
  <2>3. QED
    BY <1>4, <2>1, <2>2
<1>5. QED
  BY <1>2, <1>3, <1>4


-----------------------------------------------------------------------------
(* A search never returns a child that left before it began *)

\* The search that r is doing is one of the node's layout, and what it has
\* loaded can be followed in it, whatever the writer stored in between.
ReaderInv ==
  /\ Shape(r)
  /\ r.pc \in {"idle", "count", "keys", "bitmap", "index", "children", "prefixLen", "prefix", "check", "done"}
  /\ r.res.child \notin gone.earlier
  /\ r.pc = "keys" => r.count \in 0 .. Cap[node.layout]
  /\ r.pc \in {"index", "bitmap", "children"} /\ ~Sorted(node) => r.byte \in Bytes
  /\ r.pc = "index" => node.layout = "Node48"
  /\ r.pc = "bitmap" => ~Sorted(node) /\ r.from \in Bytes
  /\ r.pc \in {"count", "keys"} => Sorted(node)
  /\ r.pc = "children" => r.slots # {} /\ r.slots \in SUBSET Slots(node.layout)

\* The least and the greatest of some bytes.
LEMMA ByteExtremes ==
  ASSUME NEW S \in SUBSET Bytes, S # {}
  PROVE  /\ Min(S) \in S /\ \A y \in S : Min(S) <= y
         /\ Max(S) \in S /\ \A y \in S : Max(S) >= y
<1>1. TopByte \in Nat /\ S \in SUBSET (0 .. TopByte) /\ S \in SUBSET Nat
  BY ConstantsOK DEF Bytes
<1>2. QED
  BY <1>1, MinOf, MaxOf

\* The slot that a search tries next is the nearest of those left.
LEMMA NextSlotIs ==
  ASSUME NEW l \in Layouts, r.slots \in SUBSET Slots(l), r.slots # {}
  PROVE  /\ NextSlot(r) \in r.slots
         /\ r.op = "prev" => \A y \in r.slots : y <= NextSlot(r)
         /\ r.op # "prev" => \A y \in r.slots : NextSlot(r) <= y
<1>n. PICK S, n : S = r.slots /\ n = Cap[l] - 1
  OBVIOUS
<1>1. n \in Nat /\ S \in SUBSET (0 .. n) /\ S \in SUBSET Nat /\ S # {}
  BY <1>n, LayoutAssumption DEF Slots
<1>2. Min(S) \in S /\ \A y \in S : Min(S) <= y
  BY <1>1, MinOf
<1>3. Max(S) \in S /\ \A y \in S : Max(S) >= y
  BY <1>1, MaxOf
<1>4. \A x, y \in S : x >= y <=> y <= x
  BY <1>1
<1>5. QED
  BY <1>2, <1>3, <1>4, <1>n DEF NextSlot

LEMMA BitsIn ==
  ASSUME NEW s
  PROVE  Bits(s) \in SUBSET Bytes /\ InWord(s.from) \in SUBSET Bytes
BY DEF Bits, InWord

\* The writer leaves the reader alone, and the layout too while it searches.
LEMMA WriterFrame ==
  ASSUME WriterInv, Lock \/ Store \/ Unlock \/ Copy
  PROVE  /\ r' = r /\ gone'.earlier = gone.earlier
         /\ r.pc # "idle" => node'.layout = node.layout
<1>1. CASE Lock
  BY <1>1 DEF Lock
<1>2. CASE Store
  <2>1. w.todo \in Seq(StoresOf(node.layout, Alive)) /\ w.todo # <<>> /\ Alive \in SUBSET Ptrs
    BY <1>2 DEF Store, WriterInv, Alive
  <2>2. Head(w.todo) \in StoresOf(node.layout, Alive)
    BY <2>1, HeadTailProperties
  <2>3. Apply(node, Head(w.todo)) \in NodeOf(node.layout)
    BY <2>1, <2>2, ApplyType DEF WriterInv
  <2>4. QED
    BY <1>2, <2>3 DEF Store, NodeOf
<1>3. CASE Unlock
  <2>1. gone = [sofar |-> gone.sofar, earlier |-> gone.earlier]
    BY DEF WriterInv
  <2>2. QED
    BY <1>3, <2>1 DEF Unlock
<1>4. CASE Copy
  BY <1>4 DEF Copy
<1>5. QED
  BY <1>1, <1>2, <1>3, <1>4

LEMMA ReaderWriter ==
  ASSUME WriterInv, ReaderInv, Lock \/ Store \/ Unlock \/ Copy \/ Over \/ UNCHANGED vars
  PROVE  ReaderInv'
<1>1. /\ r' = r /\ gone'.earlier = gone.earlier
      /\ r.pc # "idle" => node'.layout = node.layout
  BY WriterFrame DEF Over, vars
<1>2. CASE r.pc = "idle"
  BY <1>1, <1>2 DEF ReaderInv
<1>3. CASE r.pc # "idle"
  <2>1. (Sorted(node))' = Sorted(node)
    BY <1>1, <1>3 DEF Sorted
  <2>2. QED
    BY <1>1, <1>3, <2>1 DEF ReaderInv
<1>4. QED
  BY <1>2, <1>3

\* Nothing at the byte at hand.
LEMMA ReaderSkips ==
  ASSUME WriterInv, ReaderInv, ~Sorted(node), r.byte \in Bytes, r' = SkipByte(r),
         UNCHANGED <<node, gone>>
  PROVE  ReaderInv'
<1>1. /\ Shape(r') /\ r'.res = r.res /\ r'.byte = r.byte
      /\ r'.pc = "check" \/ (r'.pc = "bitmap" /\ r'.from \in Bytes)
  BY SkipDoes DEF ReaderInv
<1>2. r'.res.child \notin gone'.earlier
  BY <1>1 DEF ReaderInv
<1>3. ~(Sorted(node))'
  BY DEF Sorted
<1>4. QED
  BY <1>1, <1>2, <1>3 DEF ReaderInv

LEMMA ReaderBegins ==
  ASSUME WriterInv, ReaderInv, BeginRead
  PROVE  ReaderInv'
<1>1. /\ node.layout \in Layouts /\ gone.sofar \in SUBSET (Used(w.writes) \ {Null})
      /\ gone = [sofar |-> gone.sofar, earlier |-> gone.earlier]
  BY DEF WriterInv
<1>2. /\ Shape(r') /\ gone' = [gone EXCEPT !.earlier = gone.sofar] /\ node' = node
      /\ r'.op \in {"find", "next", "prev", "prefix"} /\ r'.arg \in Bytes
      /\ r'.res = NoResult /\ r'.from = r'.arg /\ r'.byte = r'.arg
      /\ r'.pc = Begins(r'.op, node.layout)
      /\ r'.pc = "children" => r'.slots = {r'.arg}
  BY <1>1, BeginDoes
<1>3. r'.res.child \notin gone'.earlier
  <2>1. gone'.earlier = gone.sofar /\ r'.res.child = Null
    BY <1>1, <1>2 DEF NoResult
  <2>2. QED
    BY <1>1, <2>1
<1>4. /\ r'.pc \in {"prefixLen", "count", "index", "children", "bitmap"}
      /\ r'.pc = "index" => node.layout = "Node48"
      /\ r'.pc = "children" => node.layout = "Node256"
      /\ r'.pc = "bitmap" => node.layout \in {"Node48", "Node256"}
      /\ r'.pc = "count" => node.layout \in {"Node4", "Node16"}
  BY <1>1, <1>2 DEF Begins, Layouts
<1>5. r'.pc = "children" => r'.slots # {} /\ r'.slots \in SUBSET Slots(node'.layout)
  BY <1>2, <1>4, LayoutFacts
<1>6. (Sorted(node))' <=> node.layout \in {"Node4", "Node16"}
  BY <1>2 DEF Sorted
<1>7. QED
  BY <1>2, <1>3, <1>4, <1>5, <1>6 DEF ReaderInv

LEMMA ReaderCounts ==
  ASSUME WriterInv, ReaderInv, LoadCount
  PROVE  ReaderInv'
<1>1. /\ Shape(r') /\ UNCHANGED <<node, gone>> /\ r.pc = "count" /\ r'.pc = "keys"
      /\ r'.count = NumChildren(node) /\ r'.res = r.res
  BY CountDoes DEF ReaderInv
<1>2. NumChildren(node) \in 0 .. Cap[node.layout]
  BY NodeTyped DEF WriterInv
<1>3. (Sorted(node))' /\ r'.res.child \notin gone'.earlier
  BY <1>1 DEF ReaderInv, Sorted
<1>4. QED
  BY <1>1, <1>2, <1>3 DEF ReaderInv

LEMMA ReaderKeys ==
  ASSUME WriterInv, ReaderInv, LoadKeys
  PROVE  ReaderInv'
<1>n. PICK s : s = WithWord(r, KeyWords(node.layout))
  OBVIOUS
<1>1. /\ Shape(r') /\ UNCHANGED <<node, gone>> /\ r.pc = "keys" /\ r'.res = r.res /\ r'.count = r.count
      /\ \/ r'.pc = "keys"
         \/ r'.slots = Candidates(s) /\ r'.pc = IF Candidates(s) = {} THEN "check" ELSE "children"
  BY <1>n, KeysDoes DEF ReaderInv
<1>2. s.count = r.count
  BY <1>n, WithWordIs DEF ReaderInv
<1>3. Candidates(s) \in SUBSET Slots(node.layout)
  <2>1. r.count \in 0 .. Cap[node.layout] /\ Cap[node.layout] \in Nat
    BY <1>1, ConstantsOK DEF ReaderInv, WriterInv
  <2>2. Candidates(s) \in SUBSET (0 .. r.count - 1)
    BY <1>2 DEF Candidates
  <2>3. 0 .. r.count - 1 \in SUBSET (0 .. Cap[node.layout] - 1)
    BY <2>1
  <2>4. QED
    BY <2>2, <2>3 DEF Slots
<1>4. (Sorted(node))' /\ r'.res.child \notin gone'.earlier
  BY <1>1 DEF ReaderInv, Sorted
<1>5. CASE r'.pc = "keys"
  BY <1>1, <1>4, <1>5 DEF ReaderInv
<1>6. CASE r'.pc # "keys"
  BY <1>1, <1>3, <1>4, <1>6 DEF ReaderInv
<1>7. QED
  BY <1>5, <1>6

LEMMA ReaderBitmap ==
  ASSUME WriterInv, ReaderInv, LoadBitmap
  PROVE  ReaderInv'
<1>n. PICK bits, b, beyond :
        /\ bits = Bits(r) /\ b = (IF r.op = "next" THEN Min(bits) ELSE Max(bits))
        /\ beyond = (IF r.op = "next" THEN Max(InWord(r.from)) + 1 ELSE Min(InWord(r.from)) - 1)
  OBVIOUS
<1>1. /\ Shape(r') /\ UNCHANGED <<node, gone>> /\ r.pc = "bitmap" /\ r'.res = r.res
      /\ bits # {} => /\ r'.byte = b /\ r'.slots = {b}
                      /\ r'.pc = IF node.layout = "Node48" THEN "index" ELSE "children"
      /\ bits = {} /\ beyond \in Bytes => r'.from = beyond /\ r'.pc = "bitmap" /\ r'.byte = r.byte
      /\ bits = {} /\ beyond \notin Bytes => r'.pc = "check"
  BY <1>n, BitmapDoes DEF ReaderInv
<1>2. ~Sorted(node) /\ r.byte \in Bytes /\ node.layout \in Layouts
  BY <1>1 DEF ReaderInv, WriterInv
<1>3. ~(Sorted(node))' /\ r'.res.child \notin gone'.earlier
  BY <1>1, <1>2 DEF ReaderInv, Sorted
<1>4. CASE bits # {}
  <2>1. b \in Bytes
    <3>1. bits \in SUBSET Bytes
      BY <1>n, BitsIn
    <3>2. Min(bits) \in bits /\ Max(bits) \in bits
      BY <1>4, <3>1, ByteExtremes
    <3>3. QED
      BY <1>n, <3>1, <3>2
  <2>2. node.layout # "Node48" => Slots(node.layout) = Bytes
    BY <1>2, LayoutFacts DEF Sorted, Layouts
  <2>3. QED
    BY <1>1, <1>3, <1>4, <2>1, <2>2 DEF ReaderInv
<1>5. CASE bits = {}
  BY <1>1, <1>2, <1>3, <1>5 DEF ReaderInv
<1>6. QED
  BY <1>4, <1>5

LEMMA ReaderIndex ==
  ASSUME WriterInv, ReaderInv, LoadIndex
  PROVE  ReaderInv'
<1>1. /\ r.pc = "index" /\ UNCHANGED <<node, gone>>
      /\ node.index[r.byte] >= Empty => r' = SkipByte(r)
      /\ ~(node.index[r.byte] >= Empty) =>
              /\ Shape(r') /\ r'.res = r.res
              /\ r'.byte = r.byte /\ r'.pc = "children" /\ r'.slots = {node.index[r.byte]}
  BY IndexDoes DEF ReaderInv
<1>2. node.layout = "Node48" /\ r.byte \in Bytes /\ ~Sorted(node)
  BY <1>1 DEF ReaderInv, Sorted
<1>3. CASE node.index[r.byte] >= Empty
  BY <1>1, <1>2, <1>3, ReaderSkips
<1>4. CASE ~(node.index[r.byte] >= Empty)
  <2>1. node.index[r.byte] \in 0 .. Empty
    BY <1>2, NodeTyped DEF WriterInv
  <2>2. node.index[r.byte] \in Slots(node.layout)
    BY <1>2, <1>4, <2>1, LayoutFacts, ConstantsOK
  <2>3. ~(Sorted(node))' /\ r'.res.child \notin gone'.earlier
    BY <1>1, <1>2, <1>4 DEF ReaderInv, Sorted
  <2>4. QED
    BY <1>1, <1>2, <1>4, <2>2, <2>3 DEF ReaderInv
<1>5. QED
  BY <1>3, <1>4

LEMMA ReaderChild ==
  ASSUME WriterInv, ReaderInv, LoadChild
  PROVE  ReaderInv'
<1>n. PICK i, c : i = NextSlot(r) /\ c = node.children[i]
  OBVIOUS
<1>1. /\ r.pc = "children" /\ UNCHANGED <<node, gone>>
      /\ c # Null => /\ Shape(r') /\ r'.pc = "check"
                     /\ r'.res = [byte |-> IF Sorted(node) THEN r.keys[i] ELSE r.byte, child |-> c]
      /\ c = Null /\ ~Sorted(node) => r' = SkipByte(r)
      /\ c = Null /\ Sorted(node) =>
           /\ Shape(r') /\ r'.res = r.res
           /\ r'.pc = "check" \/ (r'.pc = "children" /\ r.slots # {i} /\ r'.slots = r.slots \ {i})
  BY <1>n, ChildDoes DEF ReaderInv
<1>2. r.slots # {} /\ r.slots \in SUBSET Slots(node.layout) /\ i \in r.slots
  BY <1>1, <1>n, NextSlotIs DEF ReaderInv, WriterInv
<1>3. CASE c # Null
  <2>1. c \in Alive
    BY <1>2, <1>n DEF WriterInv
  <2>2. c \notin gone.earlier
    BY <2>1 DEF WriterInv, Alive
  <2>3. r'.res.child = c
    BY <1>1, <1>3
  <2>4. QED
    BY <1>1, <1>3, <2>2, <2>3 DEF ReaderInv
<1>4. CASE c = Null /\ ~Sorted(node)
  BY <1>1, <1>4, ReaderSkips DEF ReaderInv
<1>5. CASE c = Null /\ Sorted(node)
  <2>1. (Sorted(node))' /\ r'.res.child \notin gone'.earlier
    BY <1>1, <1>5 DEF ReaderInv, Sorted
  <2>2. QED
    BY <1>1, <1>2, <1>5, <2>1 DEF ReaderInv
<1>6. QED
  BY <1>3, <1>4, <1>5

LEMMA ReaderEnds ==
  ASSUME WriterInv, ReaderInv, LoadPrefixLen \/ LoadPrefix \/ Validate \/ EndRead
  PROVE  ReaderInv'
<1>1. /\ Shape(r') /\ UNCHANGED <<node, gone>> /\ r'.pc \in {"check", "prefix", "idle", "done"}
      /\ r'.res = r.res \/ r'.res = NoResult
  <2>1. CASE LoadPrefixLen
    BY <2>1, PrefixLenDoes DEF ReaderInv
  <2>2. CASE LoadPrefix
    BY <2>2, PrefixDoes DEF ReaderInv
  <2>3. CASE Validate \/ EndRead
    BY <2>3, EndsDo DEF ReaderInv
  <2>4. QED
    BY <2>1, <2>2, <2>3
<1>2. r'.res.child \notin gone'.earlier
  <2>1. Null \notin gone.earlier
    BY DEF WriterInv
  <2>2. QED
    BY <1>1, <2>1 DEF ReaderInv, NoResult
<1>3. QED
  BY <1>1, <1>2 DEF ReaderInv

LEMMA ReaderInit ==
  ASSUME Init
  PROVE  ReaderInv
BY DEF Init, Idle, NoResult, Shape, ReaderInv

LEMMA ReaderStep ==
  ASSUME WriterInv, ReaderInv, [Next]_vars
  PROVE  ReaderInv'
BY ReaderWriter, ReaderBegins, ReaderCounts, ReaderKeys, ReaderBitmap, ReaderIndex, ReaderChild,
   ReaderEnds DEF Next

\* R4: whatever the writer stores between two loads of a search, the child
\* that the search returns, valid or not, is one that was linked when the
\* search began or came later, so that the reader's pin protects it.
THEOREM ReadsNeverStale == Spec => []NeverStaleChild
<1>1. Init => WriterInv /\ ReaderInv
  BY WriterInit, ReaderInit
<1>2. WriterInv /\ ReaderInv /\ [Next]_vars => WriterInv' /\ ReaderInv'
  BY WriterStep, ReaderStep
<1>3. ReaderInv => NeverStaleChild
  BY DEF ReaderInv, NeverStaleChild
<1>4. QED
  BY <1>1, <1>2, <1>3, PTL DEF Spec


-----------------------------------------------------------------------------
(* A validated search is exact *)

\* The bytes of nd that the search s is for, and the one it should find.
Sought(s, nd) ==
  {b \in Bytes : Child(nd, b) # Null /\
     CASE s.op = "find" -> b = s.arg [] s.op = "next" -> b >= s.arg [] OTHER -> b <= s.arg}
Nearest(s, nd, b) ==
  /\ b \in Sought(s, nd)
  /\ \A x \in Sought(s, nd) : IF s.op = "prev" THEN x <= b ELSE b <= x
Found(s, nd) ==
  \/ Sought(s, nd) = {} /\ s.res = NoResult
  \/ \E b \in Bytes : Nearest(s, nd, b) /\ s.res = [byte |-> b, child |-> Child(nd, b)]

\* The words of g that s has loaded.
Loaded(s, words, g) == \A k \in 1 .. s.words : \A j \in words[k] : s.keys[j] = g[j]

\* What s holds in the middle of a search of a layout.
Searching(s, l) ==
  /\ s.pc \in {"count", "keys", "bitmap", "index", "children"} =>
       s.op \in {"find", "next", "prev"} /\ s.res = NoResult /\ s.arg \in Bytes
  /\ s.pc \in {"prefixLen", "prefix"} => s.op = "prefix"
  /\ s.pc \in {"count", "prefixLen"} => s.words = 0
  /\ s.pc = "keys" => s.words \in 0 .. Len(KeyWords(l)) - 1 /\ s.keys \in KeysOf(l)
  /\ s.pc = "bitmap" => s.op \in {"next", "prev"}
  /\ s.pc = "prefix" => s.words \in 0 .. 1 /\ s.keys \in [1 .. MaxPrefix -> Bytes]

\* What s has loaded and excluded so far, if the node did not change since it
\* began: a walk of the bitmap has passed no byte that it is for.
Exact(s, nd) ==
  /\ s.pc = "keys" => s.count = nd.count /\ Loaded(s, KeyWords(nd.layout), nd.keys)
  /\ s.pc = "children" /\ Sorted(nd) =>
       /\ s.keys = nd.keys
       /\ s.slots = {i \in 0 .. nd.count - 1 : nd.keys[i] \in Sought(s, nd)}
  /\ s.pc = "bitmap" =>
       /\ \A x \in Sought(s, nd) : IF s.op = "prev" THEN x <= s.from ELSE s.from <= x
       /\ IF s.op = "prev" THEN s.from <= s.arg ELSE s.arg <= s.from
  /\ s.pc \in {"index", "children"} /\ ~Sorted(nd) =>
       IF s.op = "find" THEN s.byte = s.arg ELSE Nearest(s, nd, s.byte)
  /\ s.pc = "children" /\ nd.layout = "Node48" => s.slots = {nd.index[s.byte]}
  /\ s.pc = "children" /\ nd.layout = "Node256" => s.slots = {s.byte}
  /\ s.pc = "prefix" => s.count = nd.prefixLen /\ Loaded(s, PrefixWords, nd.prefix)
  /\ s.pc \in {"check", "done"} =>
       IF s.op = "prefix" THEN SubSeq(s.keys, 1, s.count) = PrefixOf(nd) ELSE Found(s, nd)

\* The version that r read is still the node's.
Current == latch = [ver |-> r.ver, lock |-> FALSE]

ExactInv ==
  /\ Searching(r, node.layout)
  /\ r.pc # "idle" => r.ver \in Nat /\ r.ver <= latch.ver
  /\ r.pc # "idle" /\ Current => Exact(r, before)

LEMMA SameSought ==
  ASSUME NEW s, NEW t, SameSearch(s, t), NEW nd
  PROVE  Sought(t, nd) = Sought(s, nd) /\ \A b : Nearest(t, nd, b) <=> Nearest(s, nd, b)
<1>1. t.op = s.op /\ t.arg = s.arg
  BY DEF SameSearch
<1>2. Sought(t, nd) = Sought(s, nd)
  BY <1>1 DEF Sought
<1>3. QED
  BY <1>1, <1>2 DEF Nearest

\* What a search finds is what it should find.
LEMMA FoundWanted ==
  ASSUME Found(r, before), Sound(before)
  PROVE  r.res = Wanted
<1>n. PICK map, there, b :
        /\ map = MapOf(before) /\ there = Sought(r, before)
        /\ b = (IF r.op = "prev" THEN Max(there) ELSE Min(there))
  OBVIOUS
<1>1. \A x \in Bytes : map[x] = Child(before, x)
  BY <1>n, MapTyped
<1>2. Wanted = IF there = {} THEN NoResult ELSE [byte |-> b, child |-> map[b]]
  <2>1. there = {x \in Bytes : map[x] # Null /\
                  CASE r.op = "find" -> x = r.arg
                    [] r.op = "next" -> x >= r.arg
                    [] OTHER -> x <= r.arg}
    BY <1>1, <1>n DEF Sought
  <2>2. QED
    BY <1>n, <2>1, Zenon DEF Wanted
<1>3. CASE there = {} /\ r.res = NoResult
  BY <1>2, <1>3
<1>4. ASSUME NEW x \in Bytes, Nearest(r, before, x), r.res = [byte |-> x, child |-> Child(before, x)]
      PROVE  r.res = Wanted
  <2>1. x \in there /\ there \in SUBSET Bytes /\ \A y \in there : IF r.op = "prev" THEN y <= x ELSE x <= y
    BY <1>4, <1>n DEF Nearest, Sought
  <2>2. /\ Min(there) \in there /\ \A y \in there : Min(there) <= y
        /\ Max(there) \in there /\ \A y \in there : Max(there) >= y
    BY <2>1, ByteExtremes
  <2>3. \A y, z \in Bytes : y <= z /\ z <= y => y = z
    BY ConstantsOK DEF Bytes
  <2>4. \A y, z \in Bytes : y >= z => z <= y
    BY ConstantsOK DEF Bytes
  <2>5. b = x
    BY <1>n, <2>1, <2>2, <2>3, <2>4
  <2>6. QED
    BY <1>1, <1>2, <1>4, <2>1, <2>5
<1>5. QED
  BY <1>3, <1>4, <1>n DEF Found

\* In the layouts with a bitmap the bits are those of the children.
LEMMA BitIs ==
  ASSUME NEW nd, Sound(nd), ~Sorted(nd), NEW b \in Bytes
  PROVE  nd.bitmap[b] <=> Child(nd, b) # Null
<1>0. nd.layout \in {"Node48", "Node256"}
  BY DEF Sound, Layouts, Sorted
<1>1. ASSUME nd.bitmap[b] PROVE \E i \in Slots(nd.layout) : Has(nd, b, i)
  <2>1. CASE nd.layout = "Node48"
    <3>1. nd.index[b] \in Slots(nd.layout)
      BY <1>1, <2>1 DEF Sound, IndexOK
    <3>2. QED
      BY <1>1, <2>1, <3>1 DEF Has
  <2>2. CASE nd.layout = "Node256"
    BY <1>1, <2>2, LayoutFacts DEF Has
  <2>3. QED
    BY <1>0, <2>1, <2>2
<1>2. ASSUME NEW i, Has(nd, b, i) PROVE nd.bitmap[b]
  BY <1>2 DEF Has
<1>3. QED
  BY <1>1, <1>2, ChildHas

\* In the sorted layouts the keys below count are those of the children.
LEMMA KeyIs ==
  ASSUME NEW nd, Sound(nd), Sorted(nd)
  PROVE  /\ \A i \in 0 .. nd.count - 1 :
              /\ i \in Slots(nd.layout) /\ nd.keys[i] \in Bytes /\ nd.children[i] # Null
              /\ Child(nd, nd.keys[i]) = nd.children[i]
         /\ \A b \in Bytes : Child(nd, b) # Null => \E i \in 0 .. nd.count - 1 : nd.keys[i] = b
<1>1. /\ nd.count \in Nat /\ nd.count <= Cap[nd.layout] /\ Cap[nd.layout] \in Nat
      /\ nd.keys \in [Slots(nd.layout) -> Bytes]
      /\ Slots(nd.layout) = 0 .. Cap[nd.layout] - 1
  BY NodeTyped DEF Sound
<1>2. ASSUME NEW i \in 0 .. nd.count - 1
      PROVE  /\ i \in Slots(nd.layout) /\ nd.keys[i] \in Bytes /\ nd.children[i] # Null
             /\ Child(nd, nd.keys[i]) = nd.children[i]
  <2>1. i \in Slots(nd.layout)
    BY <1>1
  <2>2. nd.keys[i] \in Bytes /\ Has(nd, nd.keys[i], i)
    BY <1>1, <2>1 DEF Has
  <2>3. QED
    BY <2>1, <2>2, HasSlot
<1>3. ASSUME NEW b \in Bytes, Child(nd, b) # Null PROVE \E i \in 0 .. nd.count - 1 : nd.keys[i] = b
  <2>1. PICK i \in Slots(nd.layout) : Has(nd, b, i)
    BY <1>3, ChildHas
  <2>2. QED
    BY <2>1 DEF Has, Sorted
<1>4. QED
  BY <1>2, <1>3

\* The words of the bitmap ascend.
LEMMA WordsAscend ==
  ASSUME NEW x \in Bytes, NEW y \in Bytes, x <= y
  PROVE  WordOf(x) \in Nat /\ WordOf(y) \in Nat /\ WordOf(x) <= WordOf(y)
<1>n. PICK d, q, p : d = WordBits /\ q = x \div d /\ p = y \div d
  OBVIOUS
<1>1. d \in Nat \ {0} /\ x \in Nat /\ y \in Nat
  BY <1>n, LayoutAssumption DEF Bytes
<1>2. /\ q \in Nat /\ x - d * q \in 0 .. d - 1 /\ p \in Nat /\ y - d * p \in 0 .. d - 1
  BY <1>1, <1>n, SMT
<1>3. q <= p
  <2>1. ASSUME q >= p + 1 PROVE FALSE
    <3>1. d * q >= d * (p + 1)
      BY <1>1, <1>2, <2>1, SMT
    <3>2. d * (p + 1) = d * p + d
      BY <1>1, <1>2, SMT
    <3>3. QED
      BY <1>1, <1>2, <3>1, <3>2, SMT
  <2>2. QED
    BY <1>2, <2>1
<1>4. QED
  BY <1>2, <1>3, <1>n DEF WordOf


\* The slots to try once the keys of a node are loaded.
LEMMA CandidatesExact ==
  ASSUME NEW nd, Sound(nd), Sorted(nd), NEW s, s.op \in {"find", "next", "prev"}, s.arg \in Bytes,
         s.count = nd.count, s.keys = nd.keys
  PROVE  /\ Candidates(s) = {i \in 0 .. nd.count - 1 : nd.keys[i] \in Sought(s, nd)}
         /\ Candidates(s) = {} => Sought(s, nd) = {}
<1>n. PICK n, k, a, op : n = nd.count /\ k = nd.keys /\ a = s.arg /\ op = s.op
  OBVIOUS
<1>0. n \in Nat /\ s.count = n /\ s.keys = k
  BY <1>n, NodeTyped DEF Sound
<1>1. /\ \A i \in 0 .. n - 1 : k[i] \in Bytes /\ Child(nd, k[i]) # Null
      /\ \A b \in Bytes : Child(nd, b) # Null => \E i \in 0 .. n - 1 : k[i] = b
  BY <1>n, KeyIs
<1>2. \A i, j \in 0 .. n - 1 : k[i] = k[j] => i = j
  <2>1. ASSUME NEW i \in 0 .. n - 1, NEW j \in 0 .. n - 1, k[i] = k[j], i # j PROVE FALSE
    <3>1. k[i] \in Nat
      BY <1>1, ConstantsOK DEF Bytes
    <3>2. (i < j => k[i] < k[j]) /\ (j < i => k[j] < k[i])
      BY <1>n DEF Sound, SortedOK
    <3>3. i < j \/ j < i
      BY <1>0, <2>1
    <3>4. QED
      BY <2>1, <3>1, <3>2, <3>3
  <2>2. QED
    BY <2>1
<1>3. ASSUME NEW i \in 0 .. n - 1 PROVE i \in Candidates(s) <=> k[i] \in Sought(s, nd)
  <2>1. k[i] \in Bytes /\ Child(nd, k[i]) # Null
    BY <1>1
  <2>2. CASE op = "find"
    <3>1. i \in Candidates(s) <=> i = Position(k, n, a)
      BY <1>0, <1>n, <2>2 DEF Candidates
    <3>2. k[i] \in Sought(s, nd) <=> k[i] = a
      BY <1>n, <2>1, <2>2 DEF Sought
    <3>3. i = Position(k, n, a) <=> k[i] = a
      <4>1. CASE \E j \in 0 .. n - 1 : k[j] = a
        <5>1. Position(k, n, a) \in 0 .. n - 1 /\ k[Position(k, n, a)] = a
          BY <1>0, <4>1, PositionAt
        <5>2. QED
          BY <1>2, <5>1
      <4>2. CASE \A j \in 0 .. n - 1 : k[j] # a
        <5>1. Position(k, n, a) = -1
          BY <1>0, <4>2, PositionAt
        <5>2. i # -1
          BY <1>0
        <5>3. QED
          BY <4>2, <5>1, <5>2
      <4>3. QED
        BY <4>1, <4>2
    <3>4. QED
      BY <3>1, <3>2, <3>3
  <2>3. CASE op = "next"
    <3>1. i \in Candidates(s) <=> k[i] >= a
      BY <1>0, <1>n, <2>3 DEF Candidates
    <3>2. k[i] \in Sought(s, nd) <=> k[i] >= a
      BY <1>n, <2>1, <2>3 DEF Sought
    <3>3. QED
      BY <3>1, <3>2
  <2>4. CASE op = "prev"
    <3>1. i \in Candidates(s) <=> k[i] <= a
      BY <1>0, <1>n, <2>4 DEF Candidates
    <3>2. k[i] \in Sought(s, nd) <=> k[i] <= a
      BY <1>n, <2>1, <2>4 DEF Sought
    <3>3. QED
      BY <3>1, <3>2
  <2>5. QED
    BY <1>n, <2>2, <2>3, <2>4
<1>4. Candidates(s) \in SUBSET (0 .. n - 1)
  BY <1>0 DEF Candidates
<1>5. Candidates(s) = {i \in 0 .. n - 1 : k[i] \in Sought(s, nd)}
  BY <1>3, <1>4
<1>6. ASSUME NEW x \in Sought(s, nd) PROVE Candidates(s) # {}
  <2>1. x \in Bytes /\ Child(nd, x) # Null
    BY DEF Sought
  <2>2. PICK i \in 0 .. n - 1 : k[i] = x
    BY <1>1, <2>1
  <2>3. QED
    BY <1>3, <2>2
<1>7. QED
  BY <1>5, <1>6, <1>n

\* The words hold all keys, and all bytes of the prefix.
LEMMA WordsCover ==
  ASSUME NEW l \in {"Node4", "Node16"}
  PROVE  /\ Len(KeyWords(l)) \in 1 .. 2
         /\ \A j \in Slots(l) : \E k \in 1 .. Len(KeyWords(l)) : j \in KeyWords(l)[k]
         /\ \A k \in 1 .. Len(KeyWords(l)) : KeyWords(l)[k] \in SUBSET Slots(l)
<1>1. CASE l = "Node4"
  <2>1. KeyWords(l) = <<Slots(l)>>
    BY <1>1 DEF KeyWords
  <2>2. Len(KeyWords(l)) = 1 /\ KeyWords(l)[1] = Slots(l)
    BY <2>1
  <2>3. QED
    BY <2>2
<1>2. CASE l = "Node16"
  <2>n. PICK lo, hi : lo = 0 .. HalfKeys - 1 /\ hi = HalfKeys .. Cap[l] - 1
    OBVIOUS
  <2>1. KeyWords(l) = <<lo, hi>>
    BY <1>2, <2>n DEF KeyWords
  <2>2. Len(KeyWords(l)) = 2 /\ KeyWords(l)[1] = lo /\ KeyWords(l)[2] = hi
    BY <2>1
  <2>3. lo \in SUBSET Slots(l) /\ hi \in SUBSET Slots(l) /\ \A i \in Slots(l) : i \in lo \/ i \in hi
    BY <1>2, <2>n, LayoutAssumption DEF Layouts, Slots
  <2>4. QED
    BY <2>2, <2>3
<1>3. QED
  BY <1>1, <1>2

LEMMA PrefixWordsCover ==
  /\ \A j \in 1 .. MaxPrefix : j \in PrefixWords[1] \/ j \in PrefixWords[2]
<1>n. PICK h : h = (MaxPrefix + 1) \div 2
  OBVIOUS
<1>1. h \in Int /\ MaxPrefix \in Nat
  BY <1>n, LayoutAssumption
<1>2. PrefixWords[1] = 1 .. h /\ PrefixWords[2] = h + 1 .. MaxPrefix
  BY <1>n DEF PrefixWords
<1>3. QED
  BY <1>1, <1>2

\* One word of the bitmap: next.
LEMMA WalkNext ==
  ASSUME NEW nd, Sound(nd), ~Sorted(nd), NEW s, s.op = "next", s.arg \in Bytes, s.from \in Bytes,
         NEW bits, bits = {b \in InWord(s.from) : nd.bitmap[b] /\ b >= s.from},
         \A x \in Sought(s, nd) : s.from <= x, s.arg <= s.from
  PROVE  /\ bits # {} => Nearest(s, nd, Min(bits))
         /\ bits = {} => /\ \A x \in Sought(s, nd) : Max(InWord(s.from)) + 1 <= x
                         /\ s.arg <= Max(InWord(s.from)) + 1
                         /\ Max(InWord(s.from)) + 1 \notin Bytes => Sought(s, nd) = {}
<1>n. PICK f, a, S, W : f = s.from /\ a = s.arg /\ S = Sought(s, nd) /\ W = InWord(f)
  OBVIOUS
<1>1. \A x : x \in S <=> x \in Bytes /\ Child(nd, x) # Null /\ x >= a
  BY <1>n DEF Sought
<1>2. \A x \in Bytes : nd.bitmap[x] <=> Child(nd, x) # Null
  BY BitIs
<1>3. \A x \in Bytes : x \in W <=> WordOf(x) = WordOf(f)
  BY <1>n DEF InWord
<1>4. W \in SUBSET Bytes /\ f \in W /\ f \in Bytes /\ a \in Bytes /\ bits \in SUBSET Bytes
  BY <1>n DEF InWord
<1>5. Bytes \in SUBSET Nat
  BY ConstantsOK DEF Bytes
<1>6. \A x \in S : f <= x /\ x \in Bytes
  BY <1>1, <1>n
<1>7. \A x \in W : x \in S => x \in bits
  BY <1>1, <1>2, <1>4, <1>5, <1>6, <1>n
\* A byte beyond the word is beyond all bytes of the word.
<1>8. ASSUME NEW x \in S, x \notin W, NEW y \in W PROVE y + 1 <= x
  <2>1. x \in Nat /\ y \in Nat /\ f \in Nat /\ x \in Bytes /\ y \in Bytes
    BY <1>4, <1>5, <1>6
  <2>2. WordOf(x) # WordOf(f) /\ WordOf(y) = WordOf(f)
    BY <1>3, <1>8, <2>1
  <2>3. WordOf(f) <= WordOf(x) /\ WordOf(f) \in Nat /\ WordOf(x) \in Nat
    BY <1>4, <1>6, <2>1, WordsAscend
  <2>4. x <= y => WordOf(x) <= WordOf(y)
    BY <2>1, WordsAscend
  <2>5. QED
    BY <2>1, <2>2, <2>3, <2>4
<1>9. CASE bits # {}
  <2>n. PICK m : m = Min(bits)
    OBVIOUS
  <2>1. m \in bits /\ \A y \in bits : m <= y
    BY <1>4, <1>9, <2>n, ByteExtremes
  <2>2. m \in W /\ m \in Bytes /\ nd.bitmap[m] /\ m >= f
    BY <1>4, <1>n, <2>1
  <2>3. m \in S
    BY <1>1, <1>2, <1>4, <1>5, <1>n, <2>2
  <2>4. ASSUME NEW x \in S PROVE m <= x
    <3>1. CASE x \in W
      BY <1>7, <2>1, <3>1
    <3>2. CASE x \notin W
      <4>1. m + 1 <= x
        BY <1>8, <2>2, <3>2
      <4>2. m \in Nat /\ x \in Nat
        BY <1>5, <1>6, <2>2
      <4>3. QED
        BY <4>1, <4>2
    <3>3. QED
      BY <3>1, <3>2
  <2>5. QED
    BY <1>9, <1>n, <2>3, <2>4, <2>n DEF Nearest
<1>10. CASE bits = {}
  <2>n. PICK m : m = Max(W)
    OBVIOUS
  <2>1. m \in W /\ \A y \in W : m >= y
    BY <1>4, <2>n, ByteExtremes
  <2>2. \A x \in S : m + 1 <= x
    BY <1>7, <1>8, <1>10, <2>1
  <2>3. m \in Nat /\ f \in Nat /\ a \in Nat /\ m >= f /\ a <= f
    BY <1>4, <1>5, <1>n, <2>1
  <2>4. a <= m + 1
    BY <2>3
  <2>5. ASSUME m + 1 \notin Bytes, NEW x \in S PROVE FALSE
    <3>1. m + 1 <= x /\ x \in 0 .. TopByte /\ TopByte \in Nat
      BY <1>6, <2>2, ConstantsOK DEF Bytes
    <3>2. m + 1 \in 0 .. TopByte
      BY <2>3, <3>1
    <3>3. QED
      BY <2>5, <3>2 DEF Bytes
  <2>6. QED
    BY <1>10, <1>n, <2>2, <2>4, <2>5, <2>n
<1>11. QED
  BY <1>9, <1>10

\* One word of the bitmap: prev.
LEMMA WalkPrev ==
  ASSUME NEW nd, Sound(nd), ~Sorted(nd), NEW s, s.op = "prev", s.arg \in Bytes, s.from \in Bytes,
         NEW bits, bits = {b \in InWord(s.from) : nd.bitmap[b] /\ b <= s.from},
         \A x \in Sought(s, nd) : x <= s.from, s.from <= s.arg
  PROVE  /\ bits # {} => Nearest(s, nd, Max(bits))
         /\ bits = {} => /\ \A x \in Sought(s, nd) : x <= Min(InWord(s.from)) - 1
                         /\ Min(InWord(s.from)) - 1 <= s.arg
                         /\ Min(InWord(s.from)) - 1 \notin Bytes => Sought(s, nd) = {}
<1>n. PICK f, a, S, W : f = s.from /\ a = s.arg /\ S = Sought(s, nd) /\ W = InWord(f)
  OBVIOUS
<1>1. \A x : x \in S <=> x \in Bytes /\ Child(nd, x) # Null /\ x <= a
  BY <1>n DEF Sought
<1>2. \A x \in Bytes : nd.bitmap[x] <=> Child(nd, x) # Null
  BY BitIs
<1>3. \A x \in Bytes : x \in W <=> WordOf(x) = WordOf(f)
  BY <1>n DEF InWord
<1>4. W \in SUBSET Bytes /\ f \in W /\ f \in Bytes /\ a \in Bytes /\ bits \in SUBSET Bytes
  BY <1>n DEF InWord
<1>5. Bytes \in SUBSET Nat
  BY ConstantsOK DEF Bytes
<1>6. \A x \in S : x <= f /\ x \in Bytes
  BY <1>1, <1>n
<1>7. \A x \in W : x \in S => x \in bits
  BY <1>1, <1>2, <1>4, <1>5, <1>6, <1>n
\* A byte before the word is before all bytes of the word.
<1>8. ASSUME NEW x \in S, x \notin W, NEW y \in W PROVE x <= y - 1
  <2>1. x \in Nat /\ y \in Nat /\ f \in Nat /\ x \in Bytes /\ y \in Bytes
    BY <1>4, <1>5, <1>6
  <2>2. WordOf(x) # WordOf(f) /\ WordOf(y) = WordOf(f)
    BY <1>3, <1>8, <2>1
  <2>3. WordOf(x) <= WordOf(f) /\ WordOf(f) \in Nat /\ WordOf(x) \in Nat
    BY <1>4, <1>6, <2>1, WordsAscend
  <2>4. y <= x => WordOf(y) <= WordOf(x)
    BY <2>1, WordsAscend
  <2>5. QED
    BY <2>1, <2>2, <2>3, <2>4
<1>9. CASE bits # {}
  <2>n. PICK m : m = Max(bits)
    OBVIOUS
  <2>1. m \in bits /\ \A y \in bits : m >= y
    BY <1>4, <1>9, <2>n, ByteExtremes
  <2>2. m \in W /\ m \in Bytes /\ nd.bitmap[m] /\ m <= f
    BY <1>4, <1>n, <2>1
  <2>3. m \in S
    BY <1>1, <1>2, <1>4, <1>5, <1>n, <2>2
  <2>4. ASSUME NEW x \in S PROVE x <= m
    <3>0. m \in Nat /\ x \in Nat
      BY <1>5, <1>6, <2>2
    <3>1. CASE x \in W
      BY <1>7, <2>1, <3>0, <3>1
    <3>2. CASE x \notin W
      <4>1. x <= m - 1
        BY <1>8, <2>2, <3>2
      <4>2. QED
        BY <3>0, <4>1
    <3>3. QED
      BY <3>1, <3>2
  <2>5. QED
    BY <1>9, <1>n, <2>3, <2>4, <2>n DEF Nearest
<1>10. CASE bits = {}
  <2>n. PICK m : m = Min(W)
    OBVIOUS
  <2>1. m \in W /\ \A y \in W : m <= y
    BY <1>4, <2>n, ByteExtremes
  <2>2. \A x \in S : x <= m - 1
    BY <1>7, <1>8, <1>10, <2>1
  <2>3. m \in Nat /\ f \in Nat /\ a \in Nat /\ m <= f /\ f <= a /\ m \in 0 .. TopByte /\ TopByte \in Nat
    BY <1>4, <1>5, <1>n, <2>1, ConstantsOK DEF Bytes
  <2>4. m - 1 <= a
    BY <2>3
  <2>5. ASSUME m - 1 \notin Bytes, NEW x \in S PROVE FALSE
    <3>1. x <= m - 1 /\ x \in 0 .. TopByte
      BY <1>6, <2>2 DEF Bytes
    <3>2. m - 1 \in 0 .. TopByte
      BY <2>3, <3>1
    <3>3. QED
      BY <2>5, <3>2 DEF Bytes
  <2>6. QED
    BY <1>10, <1>n, <2>2, <2>4, <2>5, <2>n
<1>11. QED
  BY <1>9, <1>10


\* A step of a search is exact if it is so on a node that did not change.
LEMMA ExactBy ==
  ASSUME WriterInv, ExactInv, r.pc # "idle", SameSearch(r, r'), UNCHANGED <<node, latch, before>>,
         Searching(r', node.layout),
         node = before /\ Sound(node) /\ Exact(r, node) => Exact(r', node)
  PROVE  ExactInv'
<1>1. r'.ver = r.ver
  BY DEF SameSearch
<1>2. r'.ver \in Nat /\ r'.ver <= latch'.ver
  BY <1>1 DEF ExactInv
<1>3. ASSUME Current' PROVE Exact(r', before')
  <2>1. Current
    BY <1>1, <1>3 DEF Current
  <2>2. ~latch.lock
    BY <2>1 DEF Current
  <2>3. node = before /\ Sound(node)
    BY <2>2 DEF WriterInv, Kept
  <2>4. QED
    BY <2>1, <2>3 DEF ExactInv
<1>4. QED
  BY <1>2, <1>3 DEF ExactInv

\* The writer: whatever it changes, the version that r read is gone.
LEMMA ExactWriter ==
  ASSUME WriterInv, ExactInv, Lock \/ Store \/ Unlock \/ Copy \/ Over \/ UNCHANGED vars
  PROVE  ExactInv'
<1>1. r' = r /\ (r.pc # "idle" => node'.layout = node.layout)
  BY WriterFrame DEF Over, vars
<1>2. CASE r.pc = "idle"
  BY <1>1, <1>2 DEF ExactInv, Searching
<1>3. CASE r.pc # "idle"
  <2>0. latch \in [ver : Nat, lock : BOOLEAN] /\ r.ver \in Nat /\ r.ver <= latch.ver
    BY <1>3 DEF WriterInv, ExactInv
  <2>1. Searching(r', node'.layout)
    BY <1>1, <1>3 DEF ExactInv
  <2>2. r'.ver \in Nat /\ r'.ver <= latch'.ver /\ (Current' => UNCHANGED <<node, latch, before>>)
    <3>1. CASE Lock
      <4>1. latch'.lock /\ latch'.ver = latch.ver
        BY <2>0, <3>1 DEF Lock
      <4>2. QED
        BY <1>1, <2>0, <4>1 DEF Current
    <3>2. CASE Store
      <4>1. latch' = latch /\ latch.lock
        BY <3>2 DEF Store, WriterInv
      <4>2. QED
        BY <1>1, <2>0, <4>1 DEF Current
    <3>3. CASE Unlock
      <4>1. latch'.ver = latch.ver + 1
        BY <3>3 DEF Unlock
      <4>2. latch'.ver # r.ver /\ r.ver <= latch'.ver
        BY <2>0, <4>1
      <4>3. QED
        BY <1>1, <2>0, <4>2 DEF Current
    <3>4. CASE Copy
      BY <1>3, <3>4 DEF Copy
    <3>5. CASE Over \/ UNCHANGED vars
      BY <1>1, <2>0, <3>5 DEF Over, vars
    <3>6. QED
      BY <3>1, <3>2, <3>3, <3>4, <3>5
  <2>3. ASSUME Current' PROVE Exact(r', before')
    <3>1. UNCHANGED <<node, latch, before>>
      BY <2>2, <2>3
    <3>2. Current
      BY <1>1, <2>3, <3>1 DEF Current
    <3>3. QED
      BY <1>1, <1>3, <3>1, <3>2 DEF ExactInv
  <2>4. QED
    BY <2>1, <2>2, <2>3 DEF ExactInv
<1>4. QED
  BY <1>2, <1>3

LEMMA ExactBegins ==
  ASSUME WriterInv, ExactInv, BeginRead
  PROVE  ExactInv'
<1>1. node.layout \in Layouts /\ latch.ver \in Nat
  BY DEF WriterInv
<1>2. /\ ~latch.lock /\ UNCHANGED <<node, latch, before>>
      /\ r'.op \in {"find", "next", "prev", "prefix"} /\ r'.arg \in Bytes
      /\ r'.ver = latch.ver /\ r'.words = 0 /\ r'.res = NoResult
      /\ r'.from = r'.arg /\ r'.byte = r'.arg
      /\ r'.pc = Begins(r'.op, node.layout)
      /\ r'.pc = "children" => r'.slots = {r'.arg}
  BY <1>1, BeginDoes
<1>n. PICK t, nd : t = r' /\ nd = before
  OBVIOUS
<1>3. /\ t.pc \in {"prefixLen", "count", "index", "children", "bitmap"}
      /\ t.pc = "prefixLen" <=> t.op = "prefix"
      /\ t.pc = "index" => node.layout = "Node48" /\ t.op = "find"
      /\ t.pc = "children" => node.layout = "Node256" /\ t.op = "find"
      /\ t.pc = "bitmap" => node.layout \in {"Node48", "Node256"} /\ t.op \in {"next", "prev"}
      /\ t.pc = "count" => node.layout \in {"Node4", "Node16"}
  BY <1>1, <1>2, <1>n DEF Begins, Layouts
<1>4. Searching(t, node.layout)
  BY <1>2, <1>3, <1>n DEF Searching
<1>5. nd.layout = node.layout
  BY <1>2, <1>n DEF WriterInv
<1>6. Exact(t, nd)
  <2>1. t.arg \in Nat
    BY <1>2, <1>n, ConstantsOK DEF Bytes
  <2>2. /\ t.op = "next" => \A x \in Sought(t, nd) : t.from <= x
        /\ t.op = "prev" => \A x \in Sought(t, nd) : x <= t.from
    <3>1. ASSUME NEW x \in Sought(t, nd) PROVE (t.op = "next" => t.from <= x) /\ (t.op = "prev" => x <= t.from)
      <4>1. x \in Nat /\ (t.op = "next" => x >= t.arg) /\ (t.op = "prev" => x <= t.arg)
        BY ConstantsOK DEF Sought, Bytes
      <4>2. t.from = t.arg
        BY <1>2, <1>n
      <4>3. QED
        BY <2>1, <4>1, <4>2
    <3>2. QED
      BY <3>1
  <2>3. t.from <= t.arg /\ t.arg <= t.from
    BY <1>2, <1>n, <2>1
  <2>4. t.pc = "children" => nd.layout # "Node48" /\ ~Sorted(nd)
    BY <1>3, <1>5 DEF Sorted
  <2>5. CASE t.pc = "bitmap"
    BY <1>3, <2>2, <2>3, <2>5 DEF Exact
  <2>6. CASE t.pc = "children"
    <3>1. t.op = "find" /\ t.byte = t.arg /\ t.slots = {t.byte}
      BY <1>2, <1>3, <1>n, <2>6
    <3>2. QED
      BY <2>4, <2>6, <3>1 DEF Exact
  <2>7. CASE t.pc = "index"
    <3>1. t.op = "find" /\ t.byte = t.arg
      BY <1>2, <1>3, <1>n, <2>7
    <3>2. QED
      BY <2>7, <3>1 DEF Exact
  <2>8. CASE t.pc \in {"prefixLen", "count"}
    BY <2>8 DEF Exact
  <2>9. QED
    BY <1>3, <2>5, <2>6, <2>7, <2>8
<1>7. r'.ver \in Nat /\ r'.ver <= latch'.ver
  BY <1>1, <1>2
<1>8. QED
  BY <1>2, <1>4, <1>6, <1>7, <1>n DEF ExactInv

LEMMA ExactCount ==
  ASSUME WriterInv, ReaderInv, ExactInv, LoadCount
  PROVE  ExactInv'
<1>n. PICK s, t, nd : s = r /\ t = r' /\ nd = node
  OBVIOUS
<1>1. /\ SameSearch(s, t) /\ UNCHANGED <<node, latch, before>>
      /\ s.pc = "count" /\ t.pc = "keys" /\ t.count = NumChildren(nd)
      /\ t.keys = [i \in Slots(nd.layout) |-> 0] /\ t.words = s.words /\ t.res = s.res
  BY <1>n, CountDoes DEF ReaderInv
<1>2. s.op \in {"find", "next", "prev"} /\ s.res = NoResult /\ s.arg \in Bytes /\ s.words = 0
  BY <1>1, <1>n DEF ExactInv, Searching
<1>3. nd.layout \in {"Node4", "Node16"}
  BY <1>1, <1>n DEF ReaderInv, Sorted
<1>4. Searching(t, nd.layout)
  <2>1. t.keys \in KeysOf(nd.layout)
    BY <1>1, ConstantsOK DEF KeysOf, Bytes
  <2>2. 0 \in 0 .. Len(KeyWords(nd.layout)) - 1
    BY <1>3, WordsCover
  <2>3. QED
    BY <1>1, <1>2, <2>1, <2>2 DEF Searching, SameSearch
<1>5. ASSUME Sound(nd) PROVE Exact(t, nd)
  <2>1. t.count = nd.count
    BY <1>1, <1>5, NodeTyped DEF Sound
  <2>2. Loaded(t, KeyWords(nd.layout), nd.keys)
    BY <1>1, <1>2 DEF Loaded
  <2>3. QED
    BY <1>1, <2>1, <2>2 DEF Exact
<1>6. QED
  BY <1>1, <1>4, <1>5, <1>n, ExactBy


\* One more word, and the words loaded so far.
LEMMA LoadedMore ==
  ASSUME NEW D, NEW s, NEW t, NEW words, NEW g, s.words \in Nat, t.words = s.words + 1,
         DOMAIN s.keys = D, \A k \in 1 .. t.words : words[k] \in SUBSET D,
         t.keys = [j \in DOMAIN s.keys |-> IF j \in words[s.words + 1] THEN g[j] ELSE s.keys[j]],
         Loaded(s, words, g)
  PROVE  Loaded(t, words, g)
<1>1. ASSUME NEW k \in 1 .. t.words, NEW j \in words[k] PROVE t.keys[j] = g[j]
  <2>1. j \in D
    BY <1>1
  <2>2. t.keys[j] = IF j \in words[s.words + 1] THEN g[j] ELSE s.keys[j]
    BY <2>1
  <2>3. CASE k = s.words + 1
    BY <2>2, <2>3
  <2>4. CASE k \in 1 .. s.words
    <3>1. s.keys[j] = g[j]
      BY <2>4 DEF Loaded
    <3>2. QED
      BY <2>2, <3>1
  <2>5. QED
    BY <2>3, <2>4
<1>2. QED
  BY <1>1 DEF Loaded

LEMMA ExactKeys ==
  ASSUME WriterInv, ReaderInv, ExactInv, LoadKeys
  PROVE  ExactInv'
<1>n. PICK s, t, nd, l, ws, u : /\ s = r /\ t = r' /\ nd = node /\ l = node.layout
                                /\ ws = KeyWords(node.layout) /\ u = WithWord(r, ws)
  OBVIOUS
<1>1. /\ SameSearch(s, t) /\ UNCHANGED <<node, latch, before>>
      /\ s.pc = "keys" /\ t.words = s.words + 1
      /\ t.keys = [j \in DOMAIN s.keys |-> IF j \in ws[s.words + 1] THEN nd.keys[j] ELSE s.keys[j]]
      /\ t.count = s.count /\ t.res = s.res
      /\ s.words + 1 < Len(ws) => t.pc = "keys"
      /\ ~(s.words + 1 < Len(ws)) =>
           /\ t.slots = Candidates(u)
           /\ t.pc = IF Candidates(u) = {} THEN "check" ELSE "children"
  BY <1>n, KeysDoes DEF ReaderInv, WithKeys
<1>2. /\ s.op \in {"find", "next", "prev"} /\ s.res = NoResult /\ s.arg \in Bytes
      /\ s.words \in 0 .. Len(ws) - 1 /\ s.keys \in KeysOf(l)
  BY <1>1, <1>n DEF ExactInv, Searching
<1>3. l \in {"Node4", "Node16"} /\ Sorted(nd) /\ nd.layout = l
  BY <1>1, <1>n DEF ReaderInv, Sorted
<1>4. /\ Len(ws) \in 1 .. 2 /\ \A j \in Slots(l) : \E k \in 1 .. Len(ws) : j \in ws[k]
      /\ \A k \in 1 .. Len(ws) : ws[k] \in SUBSET Slots(l)
  BY <1>3, <1>n, WordsCover
<1>5. nd.keys \in [Slots(l) -> Bytes] /\ s.keys \in [Slots(l) -> Bytes] /\ t.keys \in [Slots(l) -> Bytes]
  <2>1. nd.keys \in [Slots(l) -> Bytes] /\ s.keys \in [Slots(l) -> Bytes]
    BY <1>2, <1>n, NodeTyped DEF WriterInv, KeysOf
  <2>2. QED
    BY <1>1, <2>1
<1>6. s.words \in Nat /\ t.words \in 1 .. Len(ws) /\ (~(s.words + 1 < Len(ws)) => t.words = Len(ws))
  BY <1>1, <1>2, <1>4
<1>7. Searching(t, l)
  <2>1. CASE s.words + 1 < Len(ws)
    <3>1. t.words \in 0 .. Len(ws) - 1
      BY <1>1, <1>4, <1>6, <2>1
    <3>2. QED
      BY <1>1, <1>2, <1>5, <1>n, <2>1, <3>1 DEF Searching, SameSearch, KeysOf
  <2>2. CASE ~(s.words + 1 < Len(ws))
    BY <1>1, <1>2, <2>2 DEF Searching, SameSearch
  <2>3. QED
    BY <2>1, <2>2
<1>8. ASSUME Sound(nd), Exact(s, nd) PROVE Exact(t, nd)
  <2>1. s.count = nd.count /\ Loaded(s, ws, nd.keys)
    BY <1>1, <1>3, <1>8, <1>n DEF Exact
  <2>2. Loaded(t, ws, nd.keys)
    <3>1. DOMAIN s.keys = Slots(l) /\ \A k \in 1 .. t.words : ws[k] \in SUBSET Slots(l)
      BY <1>4, <1>5, <1>6
    <3>2. QED
      BY <1>1, <1>6, <2>1, <3>1, LoadedMore
  <2>3. CASE s.words + 1 < Len(ws)
    BY <1>1, <1>3, <1>n, <2>1, <2>2, <2>3 DEF Exact
  <2>4. CASE ~(s.words + 1 < Len(ws))
    <3>1. t.keys = nd.keys
      <4>1. \A j \in Slots(l) : t.keys[j] = nd.keys[j]
        BY <1>4, <1>6, <2>2, <2>4 DEF Loaded
      <4>2. QED
        BY <1>5, <4>1
    <3>2. SameSearch(s, u) /\ u.keys = t.keys /\ u.count = s.count
      <4>1. SameSearch(s, u) /\ u.keys = WithKeys(r, ws) /\ u.count = s.count
        BY <1>n, WithWordIs DEF ReaderInv
      <4>2. QED
        BY <1>1, <1>n, <4>1 DEF WithKeys
    <3>3. u.op = s.op /\ u.arg = s.arg
      BY <3>2 DEF SameSearch
    <3>4. /\ Candidates(u) = {i \in 0 .. nd.count - 1 : nd.keys[i] \in Sought(u, nd)}
          /\ Candidates(u) = {} => Sought(u, nd) = {}
      BY <1>2, <1>3, <1>8, <2>1, <3>1, <3>2, <3>3, CandidatesExact
    <3>5. Sought(u, nd) = Sought(t, nd)
      BY <1>1, <3>2, SameSought
    <3>6. CASE Candidates(u) = {}
      <4>1. t.pc = "check" /\ t.op # "prefix" /\ t.res = NoResult /\ Sought(t, nd) = {}
        BY <1>1, <1>2, <2>4, <3>4, <3>5, <3>6 DEF SameSearch
      <4>2. QED
        BY <4>1 DEF Exact, Found
    <3>7. CASE Candidates(u) # {}
      <4>1. t.pc = "children" /\ t.slots = {i \in 0 .. nd.count - 1 : nd.keys[i] \in Sought(t, nd)}
        BY <1>1, <2>4, <3>4, <3>5, <3>7
      <4>2. nd.layout # "Node48" /\ nd.layout # "Node256"
        BY <1>3
      <4>3. QED
        BY <1>3, <3>1, <4>1, <4>2 DEF Exact
    <3>8. QED
      BY <3>6, <3>7
  <2>5. QED
    BY <2>3, <2>4
<1>9. QED
  BY <1>1, <1>7, <1>8, <1>n, ExactBy

LEMMA ExactBitmap ==
  ASSUME WriterInv, ReaderInv, ExactInv, LoadBitmap
  PROVE  ExactInv'
<1>n. PICK s, t, nd, bits, b, beyond :
        /\ s = r /\ t = r' /\ nd = node
        /\ bits = Bits(r) /\ b = (IF r.op = "next" THEN Min(bits) ELSE Max(bits))
        /\ beyond = (IF r.op = "next" THEN Max(InWord(r.from)) + 1 ELSE Min(InWord(r.from)) - 1)
  OBVIOUS
<1>1. /\ SameSearch(s, t) /\ UNCHANGED <<node, latch, before>> /\ s.pc = "bitmap" /\ t.res = s.res
      /\ bits # {} => /\ t.byte = b /\ t.slots = {b}
                      /\ t.pc = IF nd.layout = "Node48" THEN "index" ELSE "children"
      /\ bits = {} /\ beyond \in Bytes => t.from = beyond /\ t.pc = "bitmap"
      /\ bits = {} /\ beyond \notin Bytes => t.pc = "check"
  BY <1>n, BitmapDoes DEF ReaderInv
<1>2. s.op \in {"next", "prev"} /\ s.res = NoResult /\ s.arg \in Bytes
  BY <1>1, <1>n DEF ExactInv, Searching
<1>3. ~Sorted(nd) /\ s.from \in Bytes
  BY <1>1, <1>n DEF ReaderInv
<1>4. t.op = s.op /\ t.arg = s.arg
  BY <1>1 DEF SameSearch
<1>5. t.pc \in {"index", "children", "bitmap", "check"}
  BY <1>1
<1>6. Searching(t, nd.layout)
  BY <1>1, <1>2, <1>4, <1>5 DEF Searching
<1>7. ASSUME Sound(nd), Exact(s, nd) PROVE Exact(t, nd)
  <2>1. /\ \A x \in Sought(s, nd) : IF s.op = "prev" THEN x <= s.from ELSE s.from <= x
        /\ IF s.op = "prev" THEN s.from <= s.arg ELSE s.arg <= s.from
    BY <1>1, <1>7 DEF Exact
  <2>2. /\ bits # {} => Nearest(s, nd, b)
        /\ bits = {} => /\ \A x \in Sought(s, nd) : IF s.op = "prev" THEN x <= beyond ELSE beyond <= x
                        /\ IF s.op = "prev" THEN beyond <= s.arg ELSE s.arg <= beyond
                        /\ beyond \notin Bytes => Sought(s, nd) = {}
    <3>1. CASE s.op = "next"
      <4>1. bits = {x \in InWord(s.from) : nd.bitmap[x] /\ x >= s.from}
        BY <1>n, <3>1 DEF Bits
      <4>2. b = Min(bits) /\ beyond = Max(InWord(s.from)) + 1
        BY <1>n, <3>1
      <4>3. (\A x \in Sought(s, nd) : s.from <= x) /\ s.arg <= s.from
        BY <2>1, <3>1
      <4>4. /\ bits # {} => Nearest(s, nd, Min(bits))
            /\ bits = {} => /\ \A x \in Sought(s, nd) : Max(InWord(s.from)) + 1 <= x
                            /\ s.arg <= Max(InWord(s.from)) + 1
                            /\ Max(InWord(s.from)) + 1 \notin Bytes => Sought(s, nd) = {}
        BY <1>2, <1>3, <1>7, <3>1, <4>1, <4>3, WalkNext
      <4>5. QED
        BY <3>1, <4>2, <4>4
    <3>2. CASE s.op = "prev"
      <4>1. bits = {x \in InWord(s.from) : nd.bitmap[x] /\ x <= s.from}
        BY <1>n, <3>2 DEF Bits
      <4>2. b = Max(bits) /\ beyond = Min(InWord(s.from)) - 1
        BY <1>n, <3>2
      <4>3. (\A x \in Sought(s, nd) : x <= s.from) /\ s.from <= s.arg
        BY <2>1, <3>2
      <4>4. /\ bits # {} => Nearest(s, nd, Max(bits))
            /\ bits = {} => /\ \A x \in Sought(s, nd) : x <= Min(InWord(s.from)) - 1
                            /\ Min(InWord(s.from)) - 1 <= s.arg
                            /\ Min(InWord(s.from)) - 1 \notin Bytes => Sought(s, nd) = {}
        BY <1>2, <1>3, <1>7, <3>2, <4>1, <4>3, WalkPrev
      <4>5. QED
        BY <3>2, <4>2, <4>4
    <3>3. QED
      BY <1>2, <3>1, <3>2
  <2>3. Sought(t, nd) = Sought(s, nd) /\ \A x : Nearest(t, nd, x) <=> Nearest(s, nd, x)
    BY <1>1, SameSought
  <2>4. CASE bits # {}
    <3>1. t.byte = b /\ t.slots = {b} /\ Nearest(t, nd, b) /\ t.op # "find"
      BY <1>1, <1>2, <1>4, <2>2, <2>3, <2>4
    <3>2. t.pc \in {"index", "children"} /\ (t.pc = "children" => nd.layout # "Node48")
      BY <1>1, <2>4
    <3>3. QED
      BY <1>3, <3>1, <3>2 DEF Exact
  <2>5. CASE bits = {} /\ beyond \in Bytes
    BY <1>1, <1>4, <2>2, <2>3, <2>5 DEF Exact
  <2>6. CASE bits = {} /\ beyond \notin Bytes
    <3>1. t.pc = "check" /\ t.op # "prefix" /\ t.res = NoResult /\ Sought(t, nd) = {}
      BY <1>1, <1>2, <1>4, <2>2, <2>3, <2>6
    <3>2. QED
      BY <3>1 DEF Exact, Found
  <2>7. QED
    BY <2>4, <2>5, <2>6
<1>8. QED
  BY <1>1, <1>6, <1>7, <1>n, ExactBy

\* A search skips a byte only if the node has changed, or if it is a find.
LEMMA ExactSkips ==
  ASSUME WriterInv, ReaderInv, ExactInv, r.pc \in {"index", "children"}, ~Sorted(node),
         r' = SkipByte(r), UNCHANGED <<node, latch, before>>,
         Sound(node) /\ Exact(r, node) => Child(node, r.byte) = Null
  PROVE  ExactInv'
<1>n. PICK s, t, nd : s = r /\ t = r' /\ nd = node
  OBVIOUS
<1>1. /\ SameSearch(s, t) /\ t.res = s.res
      /\ s.op # "find" /\ Past(s) \in Bytes => t.pc = "bitmap"
      /\ ~(s.op # "find" /\ Past(s) \in Bytes) => t.pc = "check"
  BY <1>n, SkipDoes DEF ReaderInv
<1>2. s.op \in {"find", "next", "prev"} /\ s.res = NoResult /\ s.arg \in Bytes
  BY <1>n DEF ExactInv, Searching
<1>3. Searching(t, nd.layout)
  BY <1>1, <1>2 DEF Searching, SameSearch
<1>4. ASSUME Sound(nd), Exact(s, nd) PROVE Exact(t, nd)
  <2>1. Child(nd, s.byte) = Null
    BY <1>4, <1>n
  <2>2. IF s.op = "find" THEN s.byte = s.arg ELSE Nearest(s, nd, s.byte)
    BY <1>4, <1>n DEF Exact
  <2>3. s.op = "find"
    BY <2>1, <2>2 DEF Nearest, Sought
  <2>4. Sought(s, nd) = {}
    BY <2>1, <2>2, <2>3 DEF Sought
  <2>5. Sought(t, nd) = {}
    BY <1>1, <2>4, SameSought
  <2>6. t.pc = "check" /\ t.res = NoResult /\ t.op # "prefix"
    BY <1>1, <1>2, <2>3 DEF SameSearch
  <2>7. QED
    BY <2>5, <2>6 DEF Exact, Found
<1>5. QED
  BY <1>1, <1>3, <1>4, <1>n, ExactBy

LEMMA ExactIndex ==
  ASSUME WriterInv, ReaderInv, ExactInv, LoadIndex
  PROVE  ExactInv'
<1>n. PICK s, t, nd : s = r /\ t = r' /\ nd = node
  OBVIOUS
<1>1. /\ s.pc = "index" /\ UNCHANGED <<node, latch, before>>
      /\ nd.index[s.byte] >= Empty => r' = SkipByte(r)
      /\ ~(nd.index[s.byte] >= Empty) =>
              /\ SameSearch(s, t) /\ t.res = s.res
              /\ t.byte = s.byte /\ t.pc = "children" /\ t.slots = {nd.index[s.byte]}
  BY <1>n, IndexDoes DEF ReaderInv
<1>2. nd.layout = "Node48" /\ ~Sorted(nd) /\ s.byte \in Bytes
  BY <1>1, <1>n DEF ReaderInv, Sorted
<1>3. CASE nd.index[s.byte] >= Empty
  <2>1. ASSUME Sound(nd) PROVE Child(nd, s.byte) = Null
    <3>1. nd.index[s.byte] \in 0 .. Empty
      BY <1>2, <2>1, NodeTyped DEF Sound
    <3>2. nd.index[s.byte] = Empty
      BY <1>3, <3>1, ConstantsOK
    <3>3. ~nd.bitmap[s.byte]
      BY <1>2, <2>1, <3>2 DEF Sound, IndexOK
    <3>4. QED
      BY <1>2, <2>1, <3>3, BitIs
  <2>2. QED
    BY <1>1, <1>2, <1>3, <1>n, <2>1, ExactSkips
<1>4. CASE ~(nd.index[s.byte] >= Empty)
  <2>1. s.op \in {"find", "next", "prev"} /\ s.res = NoResult /\ s.arg \in Bytes
    BY <1>1, <1>n DEF ExactInv, Searching
  <2>2. Searching(t, nd.layout)
    BY <1>1, <1>4, <2>1 DEF Searching, SameSearch
  <2>3. ASSUME Exact(s, nd) PROVE Exact(t, nd)
    <3>1. IF s.op = "find" THEN s.byte = s.arg ELSE Nearest(s, nd, s.byte)
      BY <1>1, <1>2, <2>3 DEF Exact
    <3>2. IF t.op = "find" THEN t.byte = t.arg ELSE Nearest(t, nd, t.byte)
      BY <1>1, <1>4, <3>1, SameSought DEF SameSearch
    <3>3. QED
      BY <1>1, <1>2, <1>4, <3>2 DEF Exact
  <2>4. QED
    BY <1>1, <1>4, <1>n, <2>2, <2>3, ExactBy
<1>5. QED
  BY <1>3, <1>4

LEMMA ExactChild ==
  ASSUME WriterInv, ReaderInv, ExactInv, LoadChild
  PROVE  ExactInv'
<1>n. PICK s, t, nd, i, c, b : /\ s = r /\ t = r' /\ nd = node /\ i = NextSlot(r) /\ c = node.children[i]
                               /\ b = (IF Sorted(nd) THEN s.keys[i] ELSE s.byte)
  OBVIOUS
<1>1. /\ s.pc = "children" /\ UNCHANGED <<node, latch, before>>
      /\ c # Null => SameSearch(s, t) /\ t.pc = "check" /\ t.res = [byte |-> b, child |-> c]
      /\ c = Null /\ ~Sorted(nd) => r' = SkipByte(r)
      /\ c = Null /\ Sorted(nd) =>
           SameSearch(s, t) /\ t.res = s.res /\ (t.pc = "check" \/ t.pc = s.pc)
  BY <1>n, ChildDoes DEF ReaderInv
<1>2. s.op \in {"find", "next", "prev"} /\ s.res = NoResult /\ s.arg \in Bytes
  BY <1>1, <1>n DEF ExactInv, Searching
<1>3. /\ s.slots \in SUBSET Slots(nd.layout) /\ i \in s.slots /\ (~Sorted(nd) => s.byte \in Bytes)
      /\ s.op = "prev" => \A y \in s.slots : y <= i
      /\ s.op # "prev" => \A y \in s.slots : i <= y
  BY <1>1, <1>n, NextSlotIs DEF ReaderInv, WriterInv
\* In a sound node the slot of a byte.
<1>4. ASSUME Sound(nd), Exact(s, nd), ~Sorted(nd)
      PROVE  /\ c # Null => Nearest(s, nd, b) /\ c = Child(nd, b) /\ b \in Bytes
             /\ c = Null => Child(nd, s.byte) = Null
  <2>0. b = s.byte /\ s.byte \in Bytes /\ i \in Slots(nd.layout) /\ c = nd.children[i]
    BY <1>3, <1>4, <1>n
  <2>1. IF s.op = "find" THEN s.byte = s.arg ELSE Nearest(s, nd, s.byte)
    BY <1>1, <1>4 DEF Exact
  <2>2. ASSUME Child(nd, s.byte) # Null PROVE Nearest(s, nd, s.byte)
    <3>1. CASE s.op = "find"
      <4>1. s.byte = s.arg /\ s.byte \in Nat
        BY <2>0, <2>1, <3>1, ConstantsOK DEF Bytes
      <4>2. Sought(s, nd) = {s.byte}
        BY <2>0, <2>2, <3>1, <4>1 DEF Sought
      <4>3. QED
        BY <3>1, <4>1, <4>2 DEF Nearest
    <3>2. QED
      BY <2>1, <3>1
  <2>3. CASE nd.layout = "Node48"
    <3>1. i = nd.index[s.byte] /\ i \in 0 .. Empty - 1
      BY <1>1, <1>3, <1>4, <2>0, <2>3, LayoutFacts DEF Exact
    <3>2. i # Empty
      BY <3>1, ConstantsOK
    <3>3. nd.bitmap[s.byte]
      BY <1>4, <2>0, <2>3, <3>1, <3>2 DEF Sound, IndexOK
    <3>4. Has(nd, s.byte, i)
      BY <2>3, <3>1, <3>3 DEF Has
    <3>5. nd.children[i] # Null /\ Child(nd, s.byte) = nd.children[i]
      BY <1>4, <2>0, <3>4, HasSlot
    <3>6. QED
      BY <2>0, <2>2, <3>5
  <2>4. CASE nd.layout = "Node256"
    <3>1. i = s.byte
      BY <1>1, <1>3, <1>4, <2>4 DEF Exact
    <3>2. Child(nd, s.byte) = c
      BY <2>0, <2>4, <3>1, ConstantsOK DEF Child, SlotOf, Sorted, Bytes, Null
    <3>3. QED
      BY <2>0, <2>2, <3>2
  <2>5. QED
    BY <1>4, <2>3, <2>4 DEF Sound, Layouts, Sorted
<1>5. ASSUME Sound(nd), Exact(s, nd), Sorted(nd)
      PROVE  c # Null /\ Nearest(s, nd, b) /\ c = Child(nd, b) /\ b \in Bytes
  <2>1. s.keys = nd.keys /\ s.slots = {j \in 0 .. nd.count - 1 : nd.keys[j] \in Sought(s, nd)}
    BY <1>1, <1>5 DEF Exact
  <2>2. b = nd.keys[i] /\ i \in 0 .. nd.count - 1 /\ b \in Sought(s, nd)
    BY <1>3, <1>5, <1>n, <2>1
  <2>3. b \in Bytes /\ nd.children[i] # Null /\ Child(nd, b) = nd.children[i]
    BY <1>5, <2>2, KeyIs
  <2>4. ASSUME NEW x \in Sought(s, nd) PROVE IF s.op = "prev" THEN x <= b ELSE b <= x
    <3>1. x \in Bytes /\ Child(nd, x) # Null
      BY DEF Sought
    <3>2. PICK j \in 0 .. nd.count - 1 : nd.keys[j] = x
      BY <1>5, <3>1, KeyIs
    <3>3. j \in s.slots
      BY <2>1, <2>4, <3>2
    <3>4. (i < j => b < x) /\ (j < i => x < b)
      BY <1>5, <2>2, <3>2 DEF Sound, SortedOK
    <3>5. i = j => b = x
      BY <2>2, <3>2
    <3>6. x \in Nat /\ b \in Nat /\ i \in Nat /\ j \in Nat
      <4>1. nd.count \in Nat
        BY <1>5, NodeTyped DEF Sound
      <4>2. QED
        BY <2>2, <2>3, <3>1, <3>2, <4>1, ConstantsOK DEF Bytes
    <3>7. CASE s.op = "prev"
      <4>1. j <= i
        BY <1>3, <3>3, <3>7
      <4>2. x <= b
        BY <3>4, <3>5, <3>6, <4>1
      <4>3. QED
        BY <3>7, <4>2
    <3>8. CASE s.op # "prev"
      <4>1. i <= j
        BY <1>3, <3>3, <3>8
      <4>2. b <= x
        BY <3>4, <3>5, <3>6, <4>1
      <4>3. QED
        BY <3>8, <4>2
    <3>9. QED
      BY <3>7, <3>8
  <2>5. QED
    BY <1>n, <2>2, <2>3, <2>4 DEF Nearest
<1>6. CASE c # Null
  <2>1. Searching(t, nd.layout)
    BY <1>1, <1>6 DEF Searching
  <2>2. ASSUME Sound(nd), Exact(s, nd) PROVE Exact(t, nd)
    <3>1. Nearest(s, nd, b) /\ c = Child(nd, b) /\ b \in Bytes
      BY <1>4, <1>5, <1>6, <2>2
    <3>2. Nearest(t, nd, b)
      BY <1>1, <1>6, <3>1, SameSought
    <3>3. t.pc = "check" /\ t.op # "prefix" /\ t.res = [byte |-> b, child |-> Child(nd, b)]
      BY <1>1, <1>2, <1>6, <3>1 DEF SameSearch
    <3>4. Found(t, nd)
      BY <3>1, <3>2, <3>3 DEF Found
    <3>5. QED
      BY <3>3, <3>4 DEF Exact
  <2>3. QED
    BY <1>1, <1>6, <1>n, <2>1, <2>2, ExactBy
<1>7. CASE c = Null /\ ~Sorted(nd)
  BY <1>1, <1>4, <1>7, <1>n, ExactSkips
<1>8. CASE c = Null /\ Sorted(nd)
  <2>1. Searching(t, nd.layout)
    BY <1>1, <1>2, <1>8 DEF Searching, SameSearch
  <2>2. QED
    BY <1>1, <1>5, <1>8, <1>n, <2>1, ExactBy
<1>9. QED
  BY <1>6, <1>7, <1>8


LEMMA ExactPrefixLen ==
  ASSUME WriterInv, ReaderInv, ExactInv, LoadPrefixLen
  PROVE  ExactInv'
<1>n. PICK s, t, nd, n : s = r /\ t = r' /\ nd = node /\ n = Clamp(node.prefixLen, MaxPrefix)
  OBVIOUS
<1>1. /\ SameSearch(s, t) /\ UNCHANGED <<node, latch, before>>
      /\ s.pc = "prefixLen" /\ t.count = n /\ t.keys = [i \in 1 .. MaxPrefix |-> 0]
      /\ t.words = s.words /\ t.pc = IF n = 0 THEN "check" ELSE "prefix"
  BY <1>n, PrefixLenDoes DEF ReaderInv
<1>2. s.op = "prefix" /\ s.words = 0
  BY <1>1, <1>n DEF ExactInv, Searching
<1>3. nd.prefixLen \in 0 .. MaxPrefix /\ nd.prefix \in [1 .. MaxPrefix -> Bytes] /\ MaxPrefix \in Nat
  BY <1>n, NodeTyped, LayoutAssumption DEF WriterInv
<1>4. n = nd.prefixLen
  BY <1>3, <1>n DEF Clamp
<1>5. Searching(t, nd.layout)
  <2>1. t.keys \in [1 .. MaxPrefix -> Bytes]
    BY <1>1, ConstantsOK DEF Bytes
  <2>2. QED
    BY <1>1, <1>2, <2>1 DEF Searching, SameSearch
<1>6. Exact(t, nd)
  <2>1. CASE n = 0
    <3>1. SubSeq(t.keys, 1, 0) = SubSeq(nd.prefix, 1, 0)
      <4>1. t.keys \in Seq(Nat) /\ nd.prefix \in Seq(Bytes)
        BY <1>1, <1>3, SeqFrom
      <4>2. QED
        BY <4>1
    <3>2. PrefixOf(nd) = SubSeq(nd.prefix, 1, n)
      BY <1>n DEF PrefixOf
    <3>3. t.pc = "check" /\ t.op = "prefix" /\ SubSeq(t.keys, 1, t.count) = PrefixOf(nd)
      BY <1>1, <1>2, <2>1, <3>1, <3>2 DEF SameSearch
    <3>4. QED
      BY <3>3 DEF Exact
  <2>2. CASE n # 0
    <3>1. t.pc = "prefix" /\ t.count = nd.prefixLen /\ Loaded(t, PrefixWords, nd.prefix)
      BY <1>1, <1>2, <1>4, <2>2 DEF Loaded
    <3>2. QED
      BY <3>1 DEF Exact
  <2>3. QED
    BY <2>1, <2>2
<1>7. QED
  BY <1>1, <1>5, <1>6, <1>n, ExactBy

LEMMA ExactPrefix ==
  ASSUME WriterInv, ReaderInv, ExactInv, LoadPrefix
  PROVE  ExactInv'
<1>n. PICK s, t, nd, D : s = r /\ t = r' /\ nd = node /\ D = 1 .. MaxPrefix
  OBVIOUS
<1>1. /\ SameSearch(s, t) /\ UNCHANGED <<node, latch, before>>
      /\ s.pc = "prefix" /\ t.count = s.count /\ t.words = s.words + 1
      /\ t.keys = [j \in DOMAIN s.keys |-> IF j \in PrefixWords[s.words + 1] THEN nd.prefix[j] ELSE s.keys[j]]
      /\ t.pc = IF s.words + 1 = 2 THEN "check" ELSE "prefix"
  BY <1>n, PrefixDoes DEF ReaderInv
<1>2. s.op = "prefix" /\ s.words \in 0 .. 1 /\ s.keys \in [D -> Bytes]
  BY <1>1, <1>n DEF ExactInv, Searching
<1>3. nd.prefixLen \in 0 .. MaxPrefix /\ nd.prefix \in [D -> Bytes] /\ t.keys \in [D -> Bytes]
  <2>1. nd.prefixLen \in 0 .. MaxPrefix /\ nd.prefix \in [D -> Bytes]
    BY <1>n, NodeTyped DEF WriterInv
  <2>2. QED
    BY <1>1, <1>2, <2>1
<1>4. Searching(t, nd.layout)
  <2>1. t.pc = "prefix" => t.words \in 0 .. 1
    BY <1>1, <1>2
  <2>2. QED
    BY <1>1, <1>2, <1>3, <1>n, <2>1 DEF Searching, SameSearch
<1>5. ASSUME Exact(s, nd) PROVE Exact(t, nd)
  <2>1. s.count = nd.prefixLen /\ Loaded(s, PrefixWords, nd.prefix)
    BY <1>1, <1>5 DEF Exact
  <2>2. Loaded(t, PrefixWords, nd.prefix)
    <3>1. DOMAIN s.keys = D /\ s.words \in Nat /\ \A k \in 1 .. t.words : k \in {1, 2}
      BY <1>1, <1>2
    <3>2. \A k \in {1, 2} : PrefixWords[k] \in SUBSET D
      <4>1. PICK h : h = (MaxPrefix + 1) \div 2
        OBVIOUS
      <4>2. h \in 0 .. MaxPrefix /\ MaxPrefix \in Nat
        BY <4>1, LayoutAssumption
      <4>3. PrefixWords[1] = 1 .. h /\ PrefixWords[2] = h + 1 .. MaxPrefix
        BY <4>1 DEF PrefixWords
      <4>4. 1 .. h \in SUBSET D /\ h + 1 .. MaxPrefix \in SUBSET D
        BY <1>n, <4>2
      <4>5. QED
        BY <4>3, <4>4
    <3>3. QED
      BY <1>1, <2>1, <3>1, <3>2, LoadedMore
  <2>3. CASE s.words + 1 = 2
    <3>1. \A j \in D : t.keys[j] = nd.prefix[j]
      <4>1. 1 \in 1 .. t.words /\ 2 \in 1 .. t.words
        BY <1>1, <2>3
      <4>2. /\ \A j \in PrefixWords[1] : t.keys[j] = nd.prefix[j]
            /\ \A j \in PrefixWords[2] : t.keys[j] = nd.prefix[j]
        BY <2>2, <4>1 DEF Loaded
      <4>3. QED
        BY <1>n, <4>2, PrefixWordsCover
    <3>2. t.keys = nd.prefix
      BY <1>3, <3>1
    <3>3. PrefixOf(nd) = SubSeq(nd.prefix, 1, nd.prefixLen)
      BY <1>3, LayoutAssumption DEF PrefixOf, Clamp
    <3>4. t.pc = "check" /\ t.op = "prefix" /\ SubSeq(t.keys, 1, t.count) = PrefixOf(nd)
      BY <1>1, <1>2, <2>1, <2>3, <3>2, <3>3 DEF SameSearch
    <3>5. QED
      BY <3>4 DEF Exact
  <2>4. CASE s.words + 1 # 2
    BY <1>1, <2>1, <2>2, <2>4 DEF Exact
  <2>5. QED
    BY <2>3, <2>4
<1>6. QED
  BY <1>1, <1>4, <1>5, <1>n, ExactBy

LEMMA ExactEnds ==
  ASSUME WriterInv, ReaderInv, ExactInv, Validate \/ EndRead
  PROVE  ExactInv'
<1>n. PICK s, t, nd : s = r /\ t = r' /\ nd = node
  OBVIOUS
<1>1. /\ UNCHANGED <<node, latch, before>>
      /\ \/ t.pc = "idle"
         \/ /\ s.pc = "check" /\ t.pc = "done" /\ SameSearch(s, t) /\ t.res = s.res
            /\ t.keys = s.keys /\ t.count = s.count
  BY <1>n, EndsDo DEF ReaderInv
<1>2. CASE t.pc = "idle"
  BY <1>1, <1>2, <1>n DEF ExactInv, Searching
<1>3. CASE t.pc # "idle"
  <2>1. Searching(t, nd.layout)
    BY <1>1, <1>3 DEF Searching
  <2>2. ASSUME Exact(s, nd) PROVE Exact(t, nd)
    <3>1. IF s.op = "prefix" THEN SubSeq(s.keys, 1, s.count) = PrefixOf(nd) ELSE Found(s, nd)
      BY <1>1, <1>3, <2>2 DEF Exact
    <3>2. Found(s, nd) => Found(t, nd)
      BY <1>1, <1>3, SameSought DEF Found
    <3>3. QED
      BY <1>1, <1>3, <3>1, <3>2 DEF Exact, SameSearch
  <2>3. QED
    BY <1>1, <1>3, <1>n, <2>1, <2>2, ExactBy
<1>4. QED
  BY <1>2, <1>3

LEMMA ExactInit ==
  ASSUME Init
  PROVE  ExactInv
BY DEF Init, Idle, ExactInv, Searching

LEMMA ExactStep ==
  ASSUME WriterInv, ReaderInv, ExactInv, [Next]_vars
  PROVE  ExactInv'
BY ExactWriter, ExactBegins, ExactCount, ExactKeys, ExactBitmap, ExactIndex, ExactChild,
   ExactPrefixLen, ExactPrefix, ExactEnds DEF Next

\* A search that ends valid has found what it should.
LEMMA ValidExact ==
  ASSUME WriterInv, ReaderInv, ExactInv, [Next]_vars, r.pc = "check", r'.pc = "done"
  PROVE  IF r.op = "prefix" THEN SubSeq(r.keys, 1, r.count) = PrefixOf(before) ELSE r.res = Wanted
<1>1. Validate /\ Valid(r)
  <2>1. Validate
    <3>1. r' # r
      OBVIOUS
    <3>2. ~(Lock \/ Store \/ Unlock \/ Copy \/ Over \/ UNCHANGED vars)
      BY <3>1, WriterFrame DEF Over, vars
    <3>3. QED
      BY <3>2 DEF Next, BeginRead, LoadCount, LoadKeys, LoadBitmap, LoadIndex, LoadChild,
                  LoadPrefixLen, LoadPrefix, EndRead
  <2>2. QED
    BY <2>1 DEF Validate, Idle
<1>2. Current
  BY <1>1 DEF Valid, Current
<1>3. Sound(before)
  BY DEF WriterInv, Kept
<1>4. IF r.op = "prefix" THEN SubSeq(r.keys, 1, r.count) = PrefixOf(before) ELSE Found(r, before)
  BY <1>2 DEF ExactInv, Exact
<1>5. QED
  BY <1>3, <1>4, FoundWanted

\* A validated find, next or prev is exact in every layout: it returns the
\* child at the byte, the first at or after it, the last at or before it, or
\* none, of the node as it was unlocked, although its loads happened one
\* after another under a writer; and a validated prefix is the node's.
THEOREM ValidReadsExact == Spec => ReadExact
<1>1. Init => WriterInv /\ ReaderInv /\ ExactInv
  BY WriterInit, ReaderInit, ExactInit
<1>2. WriterInv /\ ReaderInv /\ ExactInv /\ [Next]_vars => WriterInv' /\ ReaderInv' /\ ExactInv'
  BY WriterStep, ReaderStep, ExactStep
<1>3. WriterInv /\ ReaderInv /\ ExactInv /\ [Next]_vars =>
        [r.pc = "check" /\ r'.pc = "done" =>
           IF r.op = "prefix" THEN SubSeq(r.keys, 1, r.count) = PrefixOf(before)
           ELSE r.res = Wanted]_vars
  BY ValidExact
<1>4. QED
  BY <1>1, <1>2, <1>3, PTL DEF Spec, ReadExact

=============================================================================
