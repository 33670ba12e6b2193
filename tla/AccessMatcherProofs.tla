------------------------- MODULE AccessMatcherProofs -------------------------
(***************************************************************************)
(* Theorems about AccessMatcher, for every set of problems: how allOf lays *)
(* out the lists it is given; the safety of match; then that it returns    *)
(* every assignment of MatchSpec and nothing else, that is, that           *)
(* AccessMatcher implements MatchSpec.                                     *)
(***************************************************************************)
EXTENDS AccessMatcher, WellFoundedInduction, TLAPS, SequenceTheorems

-----------------------------------------------------------------------------
(* Natural numbers *)

\* A non-empty set of natural numbers has a least element: what a CHOOSE of the
\* least position with some property selects exists.
LEMMA LeastElement ==
  ASSUME NEW S, S \subseteq Nat, S # {}
  PROVE  \E x \in S : \A y \in S : x <= y
<1>. DEFINE Less == OpToRel(<, Nat)
<1>1. IsWellFoundedOn(Less, Nat)
  BY NatLessThanWellFounded
<1>2. \A a, b \in Nat : a < b => <<a, b>> \in Less
  BY DEF OpToRel
<1>. HIDE DEF Less
<1>3. PICK x \in S : \A y \in S : ~ (<<y, x>> \in Less)
  BY <1>1, WFMin
<1>4. \A y \in S : ~ (y < x)
  BY <1>2, <1>3
<1>. QED  BY <1>4

\* Induction over an interval, for the set of the numbers with some property.
LEMMA IntervalInduction ==
  ASSUME NEW m \in Nat, NEW n \in Nat, NEW S, m \in S,
         \A k \in (m + 1)..n : k - 1 \in S => k \in S
  PROVE  m..n \subseteq S
<1>. DEFINE Bad == {k \in m..n : k \notin S}
<1>. SUFFICES ASSUME Bad # {} PROVE FALSE
  OBVIOUS
<1>1. Bad \subseteq Nat
  OBVIOUS
<1>2. PICK k \in Bad : \A j \in Bad : k <= j
  BY <1>1, LeastElement
<1>3. k \in (m + 1)..n /\ k - 1 \in m..n /\ k - 1 \notin Bad
  BY <1>2
<1>. QED  BY <1>2, <1>3

-----------------------------------------------------------------------------
(* Concatenation of sequences, which FlattenSeq defines by recursion *)

IsFlatten(f, seqs, n) ==
  f = [i \in 1..n |-> IF i = 1 THEN seqs[i] ELSE f[i - 1] \o seqs[i]]

FlattenStep(f, seqs, i) == f[i] = IF i = 1 THEN seqs[i] ELSE f[i - 1] \o seqs[i]

LEMMA FlattenAt ==
  ASSUME NEW f, NEW seqs, NEW n, IsFlatten(f, seqs, n), NEW i \in 1..n
  PROVE  FlattenStep(f, seqs, i)
BY DEF IsFlatten, FlattenStep

LEMMA FlattenExists ==
  ASSUME NEW seqs, NEW n \in Nat
  PROVE  \E f : IsFlatten(f, seqs, n)
<1>. DEFINE S == {m \in Nat : ~ \E f : IsFlatten(f, seqs, m)}
<1>. SUFFICES ASSUME S # {} PROVE FALSE
  OBVIOUS
<1>1. PICK m \in S : \A k \in S : m <= k
  BY LeastElement
<1>2. CASE m = 0
  <2>. DEFINE f == [i \in 1..0 |-> seqs]
  <2>1. IsFlatten(f, seqs, 0)
    BY DEF IsFlatten
  <2>. QED  BY <1>1, <1>2, <2>1
<1>3. CASE m # 0
  <2>1. m - 1 \in Nat /\ m - 1 \notin S
    BY <1>1, <1>3
  <2>2. PICK g : IsFlatten(g, seqs, m - 1)
    BY <2>1
  <2>. DEFINE last == IF m = 1 THEN seqs[m] ELSE g[m - 1] \o seqs[m]
              f == [i \in 1..m |-> IF i = m THEN last ELSE g[i]]
  <2>3. \A i \in 1..(m - 1) : g[i] = IF i = 1 THEN seqs[i] ELSE g[i - 1] \o seqs[i]
    BY <2>2 DEF IsFlatten
  <2>4. ASSUME NEW i \in 1..m
        PROVE  f[i] = IF i = 1 THEN seqs[i] ELSE f[i - 1] \o seqs[i]
    BY <1>1, <2>3
  <2>. HIDE DEF f
  <2>5. DOMAIN f = 1..m /\ f = [i \in DOMAIN f |-> f[i]]
    BY DEF f
  <2>6. IsFlatten(f, seqs, m)
    BY <2>4, <2>5 DEF IsFlatten
  <2>. QED  BY <1>1, <2>6
<1>. QED  BY <1>2, <1>3

SameUpTo(k, s, t) == \A i \in 1..k : s[i] = t[i]

\* The first k values depend on the first k sequences only.
LEMMA FlattenUnique ==
  ASSUME NEW f, NEW s, NEW m \in Nat, IsFlatten(f, s, m),
         NEW g, NEW t, NEW n \in Nat, IsFlatten(g, t, n),
         NEW k \in Nat, k <= m, k <= n, SameUpTo(k, s, t)
  PROVE  SameUpTo(k, f, g)
<1>. USE DEF SameUpTo
<1>. DEFINE S == {i \in 1..k : f[i] # g[i]}
<1>. SUFFICES ASSUME S # {} PROVE FALSE
  OBVIOUS
<1>0. S \subseteq Nat
  OBVIOUS
<1>1. PICK i \in S : \A j \in S : i <= j
  BY <1>0, LeastElement
<1>2. i \in 1..k /\ i \in 1..m /\ i \in 1..n /\ f[i] # g[i] /\ s[i] = t[i]
  BY <1>1
<1>3. f[i] = IF i = 1 THEN s[i] ELSE f[i - 1] \o s[i]
  BY <1>2, FlattenAt DEF FlattenStep
<1>4. g[i] = IF i = 1 THEN t[i] ELSE g[i - 1] \o t[i]
  BY <1>2, FlattenAt DEF FlattenStep
<1>5. i # 1 => f[i - 1] = g[i - 1]
  <2>1. i # 1 => i - 1 \in 1..k /\ i - 1 \notin S
    BY <1>1, <1>2
  <2>. QED  BY <2>1
<1>. QED  BY <1>2, <1>3, <1>4, <1>5

LEMMA FlattenIsFlatten ==
  ASSUME NEW seqs, Len(seqs) \in Nat, Len(seqs) # 0
  PROVE  \E f : IsFlatten(f, seqs, Len(seqs)) /\ FlattenSeq(seqs) = f[Len(seqs)]
<1>. DEFINE f == CHOOSE h : h = [i \in 1..Len(seqs) |->
                                   IF i = 1 THEN seqs[i] ELSE h[i - 1] \o seqs[i]]
<1>1. \E h : h = [i \in 1..Len(seqs) |-> IF i = 1 THEN seqs[i] ELSE h[i - 1] \o seqs[i]]
  BY FlattenExists, Zenon DEF IsFlatten
<1>2. IsFlatten(f, seqs, Len(seqs))
  BY <1>1, Zenon DEF IsFlatten
<1>3. FlattenSeq(seqs) = f[Len(seqs)]
  BY Zenon DEF FlattenSeq
<1>. QED  BY <1>2, <1>3

LEMMA FlattenAppend ==
  ASSUME NEW X, NEW seqs \in Seq(Seq(X)), NEW s \in Seq(X)
  PROVE  /\ FlattenSeq(<< >>) = << >>
         /\ FlattenSeq(Append(seqs, s)) =
              IF seqs = << >> THEN s ELSE FlattenSeq(seqs) \o s
<1>1. FlattenSeq(<< >>) = << >>
  BY DEF FlattenSeq
<1>. DEFINE n == Len(seqs)
            all == Append(seqs, s)
<1>2. /\ n \in Nat /\ all \in Seq(Seq(X)) /\ Len(all) = n + 1
      /\ \A i \in 1..n : all[i] = seqs[i]
      /\ all[n + 1] = s
      /\ seqs = << >> <=> n = 0
  OBVIOUS
<1>. HIDE DEF n, all
<1>3. PICK f : IsFlatten(f, all, n + 1) /\ FlattenSeq(all) = f[n + 1]
  BY <1>2, FlattenIsFlatten
<1>4. f[n + 1] = IF n = 0 THEN s ELSE f[n] \o s
  <2>1. n + 1 \in 1..(n + 1) /\ n + 1 - 1 = n /\ (n + 1 = 1 <=> n = 0)
    BY <1>2
  <2>2. FlattenStep(f, all, n + 1)
    BY <1>3, <2>1, FlattenAt
  <2>. QED  BY <1>2, <2>1, <2>2 DEF FlattenStep
<1>5. CASE n = 0
  BY <1>1, <1>2, <1>3, <1>4, <1>5 DEF all
<1>6. CASE n # 0
  <2>1. PICK g : IsFlatten(g, seqs, n) /\ FlattenSeq(seqs) = g[n]
    BY <1>2, <1>6, FlattenIsFlatten DEF n
  <2>2. f[n] = g[n]
    <3>1. n + 1 \in Nat /\ n <= n + 1 /\ n <= n /\ SameUpTo(n, all, seqs)
      BY <1>2 DEF SameUpTo
    <3>2. SameUpTo(n, f, g)
      BY <1>2, <1>3, <2>1, <3>1, FlattenUnique
    <3>3. n \in 1..n
      BY <1>2, <1>6
    <3>. QED  BY <3>2, <3>3 DEF SameUpTo
  <2>. QED  BY <1>1, <1>2, <1>3, <1>4, <1>6, <2>1, <2>2 DEF all
<1>. QED  BY <1>5, <1>6

\* The first n lists, one after the other.
Flat(lists, n) == FlattenSeq(SubSeq(lists, 1, n))

LEMMA PrefixStep ==
  ASSUME NEW Y, NEW s \in Seq(Y), NEW n \in 1..Len(s)
  PROVE  /\ SubSeq(s, 1, n - 1) \in Seq(Y)
         /\ Len(SubSeq(s, 1, n - 1)) = n - 1
         /\ SubSeq(s, 1, n) = Append(SubSeq(s, 1, n - 1), s[n])
         /\ s[n] \in Y
         /\ n \in Nat /\ n - 1 \in Nat /\ n - 1 \in 0..Len(s)
OBVIOUS

LEMMA FlatStep ==
  ASSUME NEW X, NEW lists \in Seq(Seq(X)), NEW n \in 1..Len(lists),
         Flat(lists, n - 1) \in Seq(X)
  PROVE  Flat(lists, n) = Flat(lists, n - 1) \o lists[n]
<1>. DEFINE before == SubSeq(lists, 1, n - 1)
<1>1. before \in Seq(Seq(X)) /\ lists[n] \in Seq(X)
      /\ SubSeq(lists, 1, n) = Append(before, lists[n])
  BY PrefixStep
<1>. HIDE DEF before
<1>2. CASE before = << >>
  <2>1. Flat(lists, n - 1) = << >> /\ Flat(lists, n) = lists[n]
    BY <1>1, <1>2, FlattenAppend DEF Flat, before
  <2>. QED  BY <1>1, <2>1, ConcatEmptySeq
<1>3. CASE before # << >>
  BY <1>1, <1>3, FlattenAppend DEF Flat, before
<1>. QED  BY <1>2, <1>3

LEMMA FlatType ==
  ASSUME NEW X, NEW lists \in Seq(Seq(X))
  PROVE  /\ Flat(lists, 0) = << >>
         /\ \A n \in 0..Len(lists) : Flat(lists, n) \in Seq(X)
<1>1. Flat(lists, 0) = << >>
  <2>1. SubSeq(lists, 1, 0) = << >>
    OBVIOUS
  <2>. QED  BY <2>1 DEF Flat, FlattenSeq
<1>2. SUFFICES ASSUME {n \in 0..Len(lists) : Flat(lists, n) \notin Seq(X)} # {}
               PROVE  FALSE
  BY <1>1
<1>. DEFINE S == {n \in 0..Len(lists) : Flat(lists, n) \notin Seq(X)}
<1>3. S \subseteq Nat /\ S # {}
  BY <1>2
<1>4. PICK n \in S : \A m \in S : n <= m
  BY <1>3, LeastElement
<1>5. << >> \in Seq(X)
  OBVIOUS
<1>6. n # 0
  BY <1>1, <1>4, <1>5
<1>7. n \in 1..Len(lists) /\ n - 1 \in 0..Len(lists) /\ n - 1 \notin S
  <2>1. n \in 0..Len(lists) /\ Len(lists) \in Nat
    OBVIOUS
  <2>2. n - 1 \in 0..Len(lists) /\ n - 1 < n /\ n \in 1..Len(lists)
    BY <1>6, <2>1
  <2>3. n - 1 \notin S
    <3>. HIDE DEF S
    <3>. QED  BY <1>3, <1>4, <2>1, <2>2
  <2>. QED  BY <2>2, <2>3
<1>8. Flat(lists, n) = Flat(lists, n - 1) \o lists[n]
  BY <1>7, FlatStep
<1>9. lists[n] \in Seq(X) /\ Flat(lists, n - 1) \in Seq(X)
  BY <1>7
<1>10. Flat(lists, n - 1) \o lists[n] \in Seq(X)
  <2>. HIDE DEF S
  <2>. QED  BY <1>9, ConcatProperties
<1>. QED  BY <1>4, <1>8, <1>10

\* What is laid out stays where it is when more lists follow.
LEMMA FlatGrows ==
  ASSUME NEW X, NEW lists \in Seq(Seq(X)), NEW m \in 0..Len(lists),
         NEW n \in 0..Len(lists), m <= n
  PROVE  /\ Len(Flat(lists, m)) <= Len(Flat(lists, n))
         /\ \A i \in DOMAIN Flat(lists, m) : Flat(lists, n)[i] = Flat(lists, m)[i]
<1>. DEFINE Grown(k) == /\ Len(Flat(lists, m)) <= Len(Flat(lists, k))
                        /\ \A i \in DOMAIN Flat(lists, m) :
                             Flat(lists, k)[i] = Flat(lists, m)[i]
            S == {k \in m..Len(lists) : ~ Grown(k)}
<1>1. SUFFICES ASSUME S # {} PROVE FALSE
  <2>. HIDE DEF Grown
  <2>1. n \in m..Len(lists)
    OBVIOUS
  <2>2. S = {} => Grown(n)
    BY <2>1
  <2>. QED  BY <2>2 DEF Grown
<1>2. S \subseteq Nat
  OBVIOUS
<1>3. PICK k \in S : \A j \in S : k <= j
  BY <1>1, <1>2, LeastElement
<1>4. k # m
  <2>1. Flat(lists, m) \in Seq(X)
    BY FlatType
  <2>. QED  BY <1>3, <2>1
<1>5. /\ k \in 1..Len(lists) /\ k - 1 \in m..Len(lists) /\ k - 1 \in 0..Len(lists)
      /\ k - 1 \notin S
  BY <1>3, <1>4
<1>. DEFINE a == Flat(lists, m)
            b == Flat(lists, k - 1)
            c == lists[k]
<1>6. Grown(k - 1)
  BY <1>5
<1>7. /\ a \in Seq(X) /\ b \in Seq(X) /\ c \in Seq(X)
      /\ Flat(lists, k) = b \o c
  <2>1. a \in Seq(X) /\ b \in Seq(X)
    BY <1>5, FlatType
  <2>2. c \in Seq(X)
    BY <1>5
  <2>. QED  BY <1>5, <2>1, <2>2, FlatStep
<1>8. Len(a) <= Len(b) /\ \A i \in DOMAIN a : b[i] = a[i]
  BY <1>6
<1>9. ~ (Len(a) <= Len(b \o c) /\ \A i \in DOMAIN a : (b \o c)[i] = a[i])
  BY <1>3, <1>7
<1>. HIDE DEF a, b, c
<1>. QED  BY <1>7, <1>8, <1>9

-----------------------------------------------------------------------------
(* The lists that are kept, which NonEmptyLists defines by recursion *)

IsKept(f, lists, n) ==
  f = [i \in 0..n |->
         IF i = 0 THEN << >>
         ELSE IF lists[i] = << >> THEN f[i - 1] ELSE Append(f[i - 1], lists[i])]

LEMMA KeptAt ==
  ASSUME NEW f, NEW lists, NEW n, IsKept(f, lists, n), NEW i \in 0..n
  PROVE  f[i] = IF i = 0 THEN << >>
                ELSE IF lists[i] = << >> THEN f[i - 1] ELSE Append(f[i - 1], lists[i])
BY DEF IsKept

LEMMA KeptExists ==
  ASSUME NEW lists, NEW n \in Nat
  PROVE  \E f : IsKept(f, lists, n)
<1>. DEFINE S == {m \in Nat : ~ \E f : IsKept(f, lists, m)}
<1>. SUFFICES ASSUME S # {} PROVE FALSE
  OBVIOUS
<1>1. PICK m \in S : \A k \in S : m <= k
  BY LeastElement
<1>2. CASE m = 0
  <2>. DEFINE f == [i \in 0..0 |-> << >>]
  <2>1. IsKept(f, lists, 0)
    BY DEF IsKept
  <2>. QED  BY <1>1, <1>2, <2>1
<1>3. CASE m # 0
  <2>1. m - 1 \in Nat /\ m - 1 \notin S
    BY <1>1, <1>3
  <2>2. PICK g : IsKept(g, lists, m - 1)
    BY <2>1
  <2>. DEFINE last == IF lists[m] = << >> THEN g[m - 1] ELSE Append(g[m - 1], lists[m])
              f == [i \in 0..m |-> IF i = m THEN last ELSE g[i]]
  <2>3. \A i \in 0..(m - 1) :
          g[i] = IF i = 0 THEN << >>
                 ELSE IF lists[i] = << >> THEN g[i - 1] ELSE Append(g[i - 1], lists[i])
    BY <2>2, KeptAt
  <2>4. ASSUME NEW i \in 0..m
        PROVE  f[i] = IF i = 0 THEN << >>
                      ELSE IF lists[i] = << >> THEN f[i - 1] ELSE Append(f[i - 1], lists[i])
    BY <1>1, <1>3, <2>3
  <2>. HIDE DEF f
  <2>5. DOMAIN f = 0..m /\ f = [i \in DOMAIN f |-> f[i]]
    BY DEF f
  <2>6. IsKept(f, lists, m)
    BY <2>4, <2>5 DEF IsKept
  <2>. QED  BY <1>1, <2>6
<1>. QED  BY <1>2, <1>3

\* The values up to k depend on the first k lists only.
LEMMA KeptUnique ==
  ASSUME NEW f, NEW s, NEW m \in Nat, IsKept(f, s, m),
         NEW g, NEW t, NEW n \in Nat, IsKept(g, t, n),
         NEW k \in Nat, k <= m, k <= n, SameUpTo(k, s, t)
  PROVE  f[k] = g[k]
<1>. DEFINE S == {i \in 0..k : f[i] # g[i]}
<1>. SUFFICES ASSUME S # {} PROVE FALSE
  OBVIOUS
<1>0. S \subseteq Nat
  OBVIOUS
<1>1. PICK i \in S : \A j \in S : i <= j
  BY <1>0, LeastElement
<1>2. /\ i \in 0..k /\ i \in 0..m /\ i \in 0..n /\ f[i] # g[i]
      /\ i # 0 => s[i] = t[i]
  BY <1>1 DEF SameUpTo
<1>3. f[i] = IF i = 0 THEN << >>
             ELSE IF s[i] = << >> THEN f[i - 1] ELSE Append(f[i - 1], s[i])
  BY <1>2, KeptAt
<1>4. g[i] = IF i = 0 THEN << >>
             ELSE IF t[i] = << >> THEN g[i - 1] ELSE Append(g[i - 1], t[i])
  BY <1>2, KeptAt
<1>5. i # 0 => f[i - 1] = g[i - 1]
  <2>1. i # 0 => i - 1 \in 0..k /\ i - 1 \notin S
    BY <1>1, <1>2
  <2>. QED  BY <2>1
<1>. QED  BY <1>2, <1>3, <1>4, <1>5

LEMMA KeptIsKept ==
  ASSUME NEW lists, Len(lists) \in Nat
  PROVE  \E f : IsKept(f, lists, Len(lists)) /\ NonEmptyLists(lists) = f[Len(lists)]
<1>. DEFINE f == CHOOSE h : h = [i \in 0..Len(lists) |->
                   IF i = 0 THEN << >>
                   ELSE IF lists[i] = << >> THEN h[i - 1] ELSE Append(h[i - 1], lists[i])]
<1>1. \E h : h = [i \in 0..Len(lists) |->
                   IF i = 0 THEN << >>
                   ELSE IF lists[i] = << >> THEN h[i - 1] ELSE Append(h[i - 1], lists[i])]
  BY KeptExists, Zenon DEF IsKept
<1>2. IsKept(f, lists, Len(lists))
  BY <1>1, Zenon DEF IsKept
<1>3. NonEmptyLists(lists) = f[Len(lists)]
  BY Zenon DEF NonEmptyLists
<1>. QED  BY <1>2, <1>3

\* What is kept of the first n lists.
Kept(lists, n) == NonEmptyLists(SubSeq(lists, 1, n))

LEMMA KeptStep ==
  ASSUME NEW Y, NEW lists \in Seq(Y)
  PROVE  /\ Kept(lists, 0) = << >>
         /\ \A n \in 1..Len(lists) :
              Kept(lists, n) = IF lists[n] = << >> THEN Kept(lists, n - 1)
                               ELSE Append(Kept(lists, n - 1), lists[n])
         /\ NonEmptyLists(lists) = Kept(lists, Len(lists))
<1>. DEFINE N == Len(lists)
<1>1. N \in Nat
  OBVIOUS
<1>2. PICK f : IsKept(f, lists, N) /\ NonEmptyLists(lists) = f[N]
  BY <1>1, KeptIsKept
<1>3. ASSUME NEW n \in 0..N PROVE Kept(lists, n) = f[n]
  <2>. DEFINE s == SubSeq(lists, 1, n)
  <2>1. Len(s) = n /\ n \in Nat /\ n <= N /\ n <= n /\ SameUpTo(n, lists, s)
    BY DEF SameUpTo
  <2>2. PICK g : IsKept(g, s, n) /\ NonEmptyLists(s) = g[n]
    BY <2>1, KeptIsKept
  <2>. HIDE DEF s
  <2>3. f[n] = g[n]
    BY <1>1, <1>2, <2>1, <2>2, KeptUnique
  <2>. QED  BY <2>2, <2>3 DEF Kept, s
<1>. HIDE DEF N
<1>4. /\ f[0] = << >>
      /\ \A n \in 1..N : f[n] = IF lists[n] = << >> THEN f[n - 1]
                                ELSE Append(f[n - 1], lists[n])
  BY <1>1, <1>2, KeptAt
<1>5. 0 \in 0..N /\ N \in 0..N /\ \A n \in 1..N : n \in 0..N /\ n - 1 \in 0..N
  BY <1>1
<1>. QED  BY <1>2, <1>3, <1>4, <1>5 DEF N

\* Keeping only the lists that are not empty leaves their concatenation alone.
LEMMA KeptType ==
  ASSUME NEW X, NEW lists \in Seq(Seq(X)), NEW n \in 0..Len(lists)
  PROVE  /\ Kept(lists, n) \in Seq(Seq(X))
         /\ FlattenSeq(Kept(lists, n)) = Flat(lists, n)
<1>. DEFINE Same(k) == /\ Kept(lists, k) \in Seq(Seq(X))
                       /\ FlattenSeq(Kept(lists, k)) = Flat(lists, k)
            S == {k \in 0..Len(lists) : Same(k)}
<1>1. 0 \in S
  <2>1. Kept(lists, 0) = << >> /\ Flat(lists, 0) = << >>
    BY KeptStep, FlatType
  <2>2. FlattenSeq(<< >>) = << >> /\ << >> \in Seq(Seq(X))
    BY DEF FlattenSeq
  <2>3. Same(0)
    BY <2>1, <2>2
  <2>. HIDE DEF Same
  <2>. QED  BY <2>3
<1>2. ASSUME NEW k \in 1..Len(lists), k - 1 \in S PROVE k \in S
  <2>. DEFINE a == Kept(lists, k - 1)
              b == Flat(lists, k - 1)
              s == lists[k]
  <2>1. k \in 0..Len(lists) /\ k - 1 \in 0..Len(lists) /\ s \in Seq(X)
    OBVIOUS
  <2>2. a \in Seq(Seq(X)) /\ FlattenSeq(a) = b
    BY <1>2
  <2>3. b \in Seq(X)
    BY <2>1, FlatType
  <2>4. Kept(lists, k) = IF s = << >> THEN a ELSE Append(a, s)
    BY KeptStep
  <2>5. Flat(lists, k) = b \o s
    BY <2>3, FlatStep
  <2>. HIDE DEF a, b, s
  <2>6. CASE s = << >>
    BY <2>1, <2>2, <2>3, <2>4, <2>5, <2>6, ConcatEmptySeq
  <2>7. CASE s # << >>
    <3>1. Append(a, s) \in Seq(Seq(X))
      BY <2>1, <2>2
    <3>2. FlattenSeq(Append(a, s)) = IF a = << >> THEN s ELSE b \o s
      BY <2>1, <2>2, FlattenAppend
    <3>3. a = << >> => b = << >> /\ b \o s = s
      <4>1. a = << >> => b = << >>
        BY <2>2, FlattenAppend DEF FlattenSeq
      <4>. QED  BY <2>1, <4>1, ConcatEmptySeq
    <3>. QED  BY <2>1, <2>4, <2>5, <2>7, <3>1, <3>2, <3>3
  <2>. QED  BY <2>6, <2>7
<1>3. 0 \in Nat /\ Len(lists) \in Nat
  OBVIOUS
<1>. HIDE DEF S
<1>4. \A k \in (0 + 1)..Len(lists) : k - 1 \in S => k \in S
  BY <1>2
<1>5. 0..Len(lists) \subseteq S
  BY <1>1, <1>3, <1>4, IntervalInduction
<1>. QED  BY <1>5 DEF S

\* The group that is made of the l-th list, if that is not empty.
GroupOf(lists, l) == Len(Kept(lists, l))

\* Groups that are made stay where they are when more lists follow.
LEMMA KeptGrows ==
  ASSUME NEW X, NEW lists \in Seq(Seq(X)), NEW m \in 0..Len(lists),
         NEW n \in 0..Len(lists), m <= n
  PROVE  /\ GroupOf(lists, m) <= GroupOf(lists, n)
         /\ \A i \in 1..GroupOf(lists, m) : Kept(lists, n)[i] = Kept(lists, m)[i]
<1>. DEFINE Grown(k) == /\ GroupOf(lists, m) <= GroupOf(lists, k)
                        /\ \A i \in 1..GroupOf(lists, m) :
                             Kept(lists, k)[i] = Kept(lists, m)[i]
            S == {k \in m..Len(lists) : Grown(k)}
<1>1. m \in S
  <2>1. Kept(lists, m) \in Seq(Seq(X))
    BY KeptType
  <2>. QED  BY <2>1 DEF GroupOf
<1>2. ASSUME NEW k \in (m + 1)..Len(lists), k - 1 \in S PROVE k \in S
  <2>. DEFINE a == Kept(lists, m)
              b == Kept(lists, k - 1)
              s == lists[k]
  <2>1. k \in 1..Len(lists) /\ k \in m..Len(lists) /\ k - 1 \in 0..Len(lists)
    OBVIOUS
  <2>2. s \in Seq(X)
    BY <2>1
  <2>3. a \in Seq(Seq(X)) /\ b \in Seq(Seq(X))
    BY <2>1, KeptType
  <2>4. Kept(lists, k) = IF s = << >> THEN b ELSE Append(b, s)
    BY <2>1, KeptStep
  <2>5. Len(a) <= Len(b) /\ \A i \in 1..Len(a) : b[i] = a[i]
    BY <1>2 DEF GroupOf
  <2>6. SUFFICES /\ Len(a) <= Len(Kept(lists, k))
                 /\ \A i \in 1..Len(a) : Kept(lists, k)[i] = a[i]
    BY <2>1 DEF GroupOf
  <2>. HIDE DEF a, b, s
  <2>7. CASE s = << >>
    BY <2>4, <2>5, <2>7
  <2>8. CASE s # << >>
    BY <2>2, <2>3, <2>4, <2>5, <2>8
  <2>. QED  BY <2>7, <2>8
<1>3. m \in Nat /\ Len(lists) \in Nat
  OBVIOUS
<1>. HIDE DEF S
<1>4. m..Len(lists) \subseteq S
  BY <1>1, <1>2, <1>3, IntervalInduction
<1>. QED  BY <1>4 DEF S

\* A list that is not empty makes a group of its own.
LEMMA GroupsAreNew ==
  ASSUME NEW X, NEW lists \in Seq(Seq(X)), NEW l \in 1..Len(lists), lists[l] # << >>
  PROVE  /\ GroupOf(lists, l) = GroupOf(lists, l - 1) + 1
         /\ Kept(lists, l)[GroupOf(lists, l)] = lists[l]
         /\ GroupOf(lists, l - 1) \in Nat
<1>. DEFINE a == Kept(lists, l - 1)
            s == lists[l]
<1>1. l - 1 \in 0..Len(lists) /\ s \in Seq(X)
  OBVIOUS
<1>2. a \in Seq(Seq(X))
  BY <1>1, KeptType
<1>3. Kept(lists, l) = Append(a, s)
  BY KeptStep
<1>. HIDE DEF a, s
<1>4. Len(Append(a, s)) = Len(a) + 1 /\ Append(a, s)[Len(a) + 1] = s /\ Len(a) \in Nat
  BY <1>1, <1>2
<1>. QED  BY <1>3, <1>4 DEF GroupOf, a, s

LEMMA GroupsAreOrdered ==
  ASSUME NEW X, NEW lists \in Seq(Seq(X)), NEW l \in 1..Len(lists), NEW m \in 1..Len(lists),
         l < m, lists[m] # << >>
  PROVE  GroupOf(lists, l) < GroupOf(lists, m)
<1>1. l \in 0..Len(lists) /\ m - 1 \in 0..Len(lists) /\ l <= m - 1
  OBVIOUS
<1>2. GroupOf(lists, l) <= GroupOf(lists, m - 1)
  BY <1>1, KeptGrows
<1>3. GroupOf(lists, l) \in Nat
  BY <1>1, KeptType DEF GroupOf
<1>. QED  BY <1>2, <1>3, GroupsAreNew

-----------------------------------------------------------------------------
(* What allOf makes of its lists *)

NonEmpty(lists) == {l \in DOMAIN lists : lists[l] # << >>}

\* What the positions of the l-th list are counted from.
Offset(lists, l) == Len(Flat(lists, l - 1))

LEMMA OffsetProperties ==
  ASSUME NEW X, NEW lists \in Seq(Seq(X)), NEW l \in 1..Len(lists)
  PROVE  /\ Offset(lists, l) \in Nat /\ Len(lists[l]) \in Nat
         /\ Len(Flat(lists, l)) \in Nat
         /\ Len(Flat(lists, l)) = Offset(lists, l) + Len(lists[l])
         /\ PositionsOf(lists, l) = (Offset(lists, l) + 1)..Len(Flat(lists, l))
         /\ \A k \in 1..Len(lists[l]) : Flat(lists, l)[Offset(lists, l) + k] = lists[l][k]
<1>. DEFINE b == Flat(lists, l - 1)
            s == lists[l]
<1>1. l - 1 \in 0..Len(lists) /\ s \in Seq(X)
  OBVIOUS
<1>2. b \in Seq(X)
  BY <1>1, FlatType
<1>3. Flat(lists, l) = b \o s
  BY <1>2, FlatStep
<1>4. PositionsOf(lists, l) = (Len(b) + 1)..(Len(b) + Len(s))
  BY DEF PositionsOf, Flat
<1>. HIDE DEF b, s
<1>5. /\ Len(b) \in Nat /\ Len(s) \in Nat /\ Len(b \o s) = Len(b) + Len(s)
      /\ \A k \in 1..Len(s) : (b \o s)[Len(b) + k] = s[k]
  <2>1. /\ Len(b) \in Nat /\ Len(s) \in Nat /\ Len(b \o s) = Len(b) + Len(s)
        /\ \A i \in 1..(Len(b) + Len(s)) :
             (b \o s)[i] = IF i <= Len(b) THEN b[i] ELSE s[i - Len(b)]
    BY <1>1, <1>2, ConcatProperties
  <2>2. \A k \in 1..Len(s) : /\ Len(b) + k \in 1..(Len(b) + Len(s))
                             /\ ~ (Len(b) + k <= Len(b)) /\ Len(b) + k - Len(b) = k
    BY <2>1
  <2>. QED  BY <2>1, <2>2
<1>6. Len(b) + Len(s) \in Nat
  BY <1>5
<1>. QED  BY <1>3, <1>4, <1>5, <1>6 DEF Offset, b, s

LEMMA PositionsAreDisjoint ==
  ASSUME NEW X, NEW lists \in Seq(Seq(X)), NEW l \in 1..Len(lists), NEW m \in 1..Len(lists),
         l # m
  PROVE  PositionsOf(lists, l) \cap PositionsOf(lists, m) = {}
<1>1. ASSUME NEW a \in 1..Len(lists), NEW b \in 1..Len(lists), a < b
      PROVE  PositionsOf(lists, a) \cap PositionsOf(lists, b) = {}
  <2>1. a \in 0..Len(lists) /\ b - 1 \in 0..Len(lists) /\ a <= b - 1
    BY <1>1
  <2>2. Len(Flat(lists, a)) <= Offset(lists, b)
    BY <2>1, FlatGrows DEF Offset
  <2>3. /\ Offset(lists, a) \in Nat /\ Offset(lists, b) \in Nat
        /\ Len(Flat(lists, a)) = Offset(lists, a) + Len(lists[a]) /\ Len(lists[a]) \in Nat
        /\ Len(Flat(lists, b)) = Offset(lists, b) + Len(lists[b]) /\ Len(lists[b]) \in Nat
        /\ Len(Flat(lists, a)) \in Nat
        /\ PositionsOf(lists, a) = (Offset(lists, a) + 1)..Len(Flat(lists, a))
        /\ PositionsOf(lists, b) = (Offset(lists, b) + 1)..Len(Flat(lists, b))
    BY OffsetProperties
  <2>4. ASSUME NEW i \in PositionsOf(lists, a), i \in PositionsOf(lists, b) PROVE FALSE
    <3>1. i \in Nat /\ i <= Len(Flat(lists, a))
      BY <2>3
    <3>2. i > Offset(lists, b)
      BY <2>3, <2>4
    <3>3. Len(Flat(lists, a)) \in Nat /\ Offset(lists, b) \in Nat
      BY <2>3
    <3>. QED  BY <2>2, <3>1, <3>2, <3>3
  <2>. QED  BY <2>4
<1>2. l < m \/ m < l
  OBVIOUS
<1>. QED  BY <1>1, <1>2

LEMMA EveryPositionIsInAList ==
  ASSUME NEW X, NEW lists \in Seq(Seq(X)), NEW i \in 1..Len(Flat(lists, Len(lists)))
  PROVE  \E l \in NonEmpty(lists) : i \in PositionsOf(lists, l)
<1>. DEFINE S == {n \in 0..Len(lists) : i <= Len(Flat(lists, n))}
<1>1. Len(lists) \in S /\ S \subseteq Nat
  <2>1. Flat(lists, Len(lists)) \in Seq(X)
    BY FlatType
  <2>. QED  BY <2>1
<1>2. PICK l \in S : \A n \in S : l <= n
  BY <1>1, LeastElement
<1>3. i \in Nat /\ i >= 1
  <2>1. Flat(lists, Len(lists)) \in Seq(X)
    BY FlatType
  <2>. QED  BY <2>1
<1>4. l # 0
  <2>1. Flat(lists, 0) = << >>
    BY FlatType
  <2>. QED  BY <1>2, <1>3, <2>1
<1>5. l \in 1..Len(lists) /\ l - 1 \in 0..Len(lists) /\ l - 1 \notin S
  BY <1>2, <1>4
<1>6. /\ Offset(lists, l) \in Nat /\ Len(lists[l]) \in Nat
      /\ Len(Flat(lists, l)) \in Nat
      /\ Len(Flat(lists, l)) = Offset(lists, l) + Len(lists[l])
      /\ PositionsOf(lists, l) = (Offset(lists, l) + 1)..Len(Flat(lists, l))
  BY <1>5, OffsetProperties
<1>7. i <= Len(Flat(lists, l)) /\ i > Offset(lists, l)
  <2>1. i <= Len(Flat(lists, l))
    BY <1>2
  <2>2. ~ (i <= Offset(lists, l))
    BY <1>5 DEF Offset
  <2>. QED  BY <1>3, <1>6, <2>1, <2>2
<1>8. lists[l] # << >>
  BY <1>3, <1>6, <1>7
<1>9. l \in NonEmpty(lists)
  BY <1>5, <1>8 DEF NonEmpty
<1>. QED  BY <1>3, <1>6, <1>7, <1>9

\* The group of a list has its positions.
LEMMA GroupOfList ==
  ASSUME NEW X, NEW lists \in Seq(Seq(X)), NEW l \in NonEmpty(lists)
  PROVE  /\ GroupOf(lists, l) \in DOMAIN NonEmptyLists(lists)
         /\ PositionsOf(NonEmptyLists(lists), GroupOf(lists, l)) = PositionsOf(lists, l)
<1>. DEFINE N == Len(lists)
            kept == Kept(lists, N)
            g == GroupOf(lists, l)
            before == Kept(lists, l - 1)
<1>1. /\ l \in 1..N /\ l \in 0..N /\ l - 1 \in 0..N /\ N \in 0..N /\ l <= N /\ l - 1 <= N
      /\ lists[l] # << >> /\ NonEmptyLists(lists) = kept
  BY KeptStep DEF NonEmpty
<1>2. kept \in Seq(Seq(X)) /\ before \in Seq(Seq(X)) /\ FlattenSeq(before) = Flat(lists, l - 1)
  BY <1>1, KeptType
<1>3. g = Len(before) + 1 /\ Len(before) \in Nat /\ Kept(lists, l)[g] = lists[l]
  BY <1>1, GroupsAreNew DEF GroupOf
<1>4. g <= Len(kept) /\ kept[g] = lists[l]
  <2>1. g <= Len(kept) /\ \A i \in 1..g : kept[i] = Kept(lists, l)[i]
    BY <1>1, KeptGrows DEF GroupOf
  <2>2. g \in 1..g
    BY <1>3
  <2>. QED  BY <1>3, <2>1, <2>2
<1>5. \A i \in 1..Len(before) : kept[i] = before[i]
  BY <1>1, KeptGrows DEF GroupOf
<1>. HIDE DEF kept, g, before
<1>6. SubSeq(kept, 1, g - 1) = before
  BY <1>2, <1>3, <1>4, <1>5
<1>7. PositionsOf(kept, g) = PositionsOf(lists, l)
  BY <1>2, <1>4, <1>6 DEF PositionsOf, Flat
<1>8. g \in DOMAIN kept
  BY <1>2, <1>3, <1>4
<1>. QED  BY <1>1, <1>7, <1>8 DEF g

\* Every group is that of a list.
LEMMA ListOfGroup ==
  ASSUME NEW X, NEW lists \in Seq(Seq(X)), NEW g \in DOMAIN NonEmptyLists(lists)
  PROVE  \E l \in NonEmpty(lists) : g = GroupOf(lists, l)
<1>. DEFINE S == {n \in 0..Len(lists) : g <= GroupOf(lists, n)}
<1>0. NonEmptyLists(lists) = Kept(lists, Len(lists)) /\ Kept(lists, 0) = << >>
  BY KeptStep
<1>1. g \in 1..GroupOf(lists, Len(lists)) /\ GroupOf(lists, Len(lists)) \in Nat
  <2>1. Kept(lists, Len(lists)) \in Seq(Seq(X))
    BY KeptType
  <2>. QED  BY <1>0, <2>1 DEF GroupOf
<1>2. Len(lists) \in S /\ S \subseteq Nat
  BY <1>1
<1>3. PICK l \in S : \A n \in S : l <= n
  BY <1>2, LeastElement
<1>4. GroupOf(lists, 0) = 0
  BY <1>0 DEF GroupOf
<1>5. l # 0
  BY <1>1, <1>3, <1>4
<1>6. l \in 1..Len(lists) /\ l - 1 \in 0..Len(lists) /\ l - 1 \notin S
  BY <1>3, <1>5
<1>7. lists[l] # << >>
  <2>1. ASSUME lists[l] = << >> PROVE FALSE
    <3>1. Kept(lists, l) = Kept(lists, l - 1)
      BY <1>6, <2>1, KeptStep
    <3>. QED  BY <1>3, <1>6, <3>1 DEF GroupOf
  <2>. QED  BY <2>1
<1>8. GroupOf(lists, l) = GroupOf(lists, l - 1) + 1 /\ GroupOf(lists, l - 1) \in Nat
  BY <1>6, <1>7, GroupsAreNew
<1>9. g = GroupOf(lists, l)
  BY <1>1, <1>3, <1>6, <1>8
<1>. QED  BY <1>6, <1>7, <1>9 DEF NonEmpty

\* The placeholders of the lists one after the other, a group for each list that
\* is not empty, with the positions of its placeholders.
THEOREM AllOfLayout ==
  ASSUME NEW X, NEW lists \in Seq(Seq(X))
  PROVE  LET ps == AllOf(lists) IN
         /\ ps.placeholders \in Seq(X)
         /\ \A l \in NonEmpty(lists) :
              /\ PositionsOf(lists, l) # {}
              /\ PositionsOf(lists, l) \subseteq DOMAIN ps.placeholders
              /\ \A k \in 1..Len(lists[l]) :
                   /\ Offset(lists, l) + k \in PositionsOf(lists, l)
                   /\ ps.placeholders[Offset(lists, l) + k] = lists[l][k]
              /\ \A i \in PositionsOf(lists, l) :
                   \E k \in 1..Len(lists[l]) : i = Offset(lists, l) + k
              /\ GroupOf(lists, l) \in DOMAIN ps.groups
              /\ ps.groups[GroupOf(lists, l)] = PositionsOf(lists, l)
         /\ \A i \in DOMAIN ps.placeholders :
              \E l \in NonEmpty(lists) : i \in PositionsOf(lists, l)
         /\ \A l, m \in NonEmpty(lists) :
              l # m => PositionsOf(lists, l) \cap PositionsOf(lists, m) = {}
         /\ \A g \in DOMAIN ps.groups : \E l \in NonEmpty(lists) : g = GroupOf(lists, l)
<1>. DEFINE ps == AllOf(lists)
            kept == NonEmptyLists(lists)
            all == Flat(lists, Len(lists))
<1>1. kept = Kept(lists, Len(lists)) /\ Len(lists) \in 0..Len(lists)
  BY KeptStep
<1>2. ps.placeholders = all /\ all \in Seq(X)
  BY <1>1, KeptType, FlatType DEF AllOf
<1>3. ps.groups = [g \in DOMAIN kept |-> PositionsOf(kept, g)]
  BY DEF AllOf
<1>. HIDE DEF ps, kept, all
<1>4. ASSUME NEW l \in NonEmpty(lists)
      PROVE  /\ PositionsOf(lists, l) # {}
             /\ PositionsOf(lists, l) \subseteq DOMAIN ps.placeholders
             /\ \A k \in 1..Len(lists[l]) :
                  /\ Offset(lists, l) + k \in PositionsOf(lists, l)
                  /\ ps.placeholders[Offset(lists, l) + k] = lists[l][k]
             /\ \A i \in PositionsOf(lists, l) :
                  \E k \in 1..Len(lists[l]) : i = Offset(lists, l) + k
  <2>1. l \in 1..Len(lists) /\ l \in 0..Len(lists) /\ l <= Len(lists) /\ lists[l] # << >>
        /\ lists[l] \in Seq(X)
    BY DEF NonEmpty
  <2>2. /\ Offset(lists, l) \in Nat /\ Len(lists[l]) \in Nat
        /\ Len(Flat(lists, l)) \in Nat
        /\ Len(Flat(lists, l)) = Offset(lists, l) + Len(lists[l])
        /\ PositionsOf(lists, l) = (Offset(lists, l) + 1)..Len(Flat(lists, l))
        /\ \A k \in 1..Len(lists[l]) : Flat(lists, l)[Offset(lists, l) + k] = lists[l][k]
    BY <2>1, OffsetProperties
  <2>3. /\ Len(Flat(lists, l)) <= Len(all)
        /\ \A i \in DOMAIN Flat(lists, l) : all[i] = Flat(lists, l)[i]
    BY <1>1, <2>1, FlatGrows DEF all
  <2>4. Len(lists[l]) # 0 /\ Len(Flat(lists, l)) > Offset(lists, l)
    <3>1. Len(lists[l]) # 0
      BY <2>1
    <3>. QED  BY <2>2, <3>1
  <2>5. DOMAIN Flat(lists, l) = 1..Len(Flat(lists, l))
    <3>1. Flat(lists, l) \in Seq(X)
      BY <2>1, FlatType
    <3>. QED  BY <3>1
  <2>6. DOMAIN all = 1..Len(all) /\ Len(all) \in Nat
    BY <1>2
  <2>7. PositionsOf(lists, l) # {} /\ PositionsOf(lists, l) \subseteq DOMAIN all
    <3>1. ASSUME NEW o \in Nat, NEW n \in Nat, NEW m \in Nat, o < n, n <= m
          PROVE  (o + 1)..n # {} /\ (o + 1)..n \subseteq 1..m
      <4>1. o + 1 \in (o + 1)..n
        BY <3>1
      <4>2. \A i \in (o + 1)..n : i \in 1..m
        BY <3>1
      <4>. QED  BY <4>1, <4>2
    <3>. QED  BY <2>2, <2>3, <2>4, <2>6, <3>1
  <2>8. ASSUME NEW k \in 1..Len(lists[l])
        PROVE  /\ Offset(lists, l) + k \in PositionsOf(lists, l)
               /\ all[Offset(lists, l) + k] = lists[l][k]
    <3>1. /\ Offset(lists, l) + k \in PositionsOf(lists, l)
          /\ Offset(lists, l) + k \in 1..Len(Flat(lists, l))
      BY <2>2
    <3>. QED  BY <2>2, <2>3, <2>5, <3>1
  <2>9. ASSUME NEW i \in PositionsOf(lists, l)
        PROVE  \E k \in 1..Len(lists[l]) : i = Offset(lists, l) + k
    <3>1. i - Offset(lists, l) \in 1..Len(lists[l])
      BY <2>2
    <3>2. i = Offset(lists, l) + (i - Offset(lists, l))
      BY <2>2
    <3>. QED  BY <3>1, <3>2
  <2>. QED  BY <1>2, <2>7, <2>8, <2>9
<1>5. ASSUME NEW l \in NonEmpty(lists)
      PROVE  /\ GroupOf(lists, l) \in DOMAIN ps.groups
             /\ ps.groups[GroupOf(lists, l)] = PositionsOf(lists, l)
  BY <1>3, GroupOfList DEF kept
<1>6. \A i \in DOMAIN ps.placeholders :
        \E l \in NonEmpty(lists) : i \in PositionsOf(lists, l)
  <2>1. DOMAIN ps.placeholders = 1..Len(all)
    BY <1>2
  <2>. QED  BY <2>1, EveryPositionIsInAList DEF all
<1>7. \A l, m \in NonEmpty(lists) :
        l # m => PositionsOf(lists, l) \cap PositionsOf(lists, m) = {}
  <2>1. NonEmpty(lists) \subseteq 1..Len(lists)
    BY DEF NonEmpty
  <2>. QED  BY <2>1, PositionsAreDisjoint
<1>8. \A g \in DOMAIN ps.groups : \E l \in NonEmpty(lists) : g = GroupOf(lists, l)
  BY <1>3, ListOfGroup DEF kept
<1>. QED  BY <1>2, <1>4, <1>5, <1>6, <1>7, <1>8 DEF ps

\* As many groups as lists: no list was empty, and each is its own group.
LEMMA NoneIsSkipped ==
  ASSUME NEW X, NEW lists \in Seq(Seq(X)), DOMAIN NonEmptyLists(lists) = DOMAIN lists
  PROVE  /\ NonEmpty(lists) = DOMAIN lists
         /\ \A l \in DOMAIN lists : GroupOf(lists, l) = l
<1>. DEFINE N == Len(lists)
            None(n) == \A k \in 1..n : lists[k] # << >> /\ GroupOf(lists, k) = k
            S == {n \in 0..N : /\ GroupOf(lists, n) <= n
                               /\ GroupOf(lists, n) = n => None(n)}
<1>1. 0 \in S
  <2>1. GroupOf(lists, 0) = 0
    BY KeptStep DEF GroupOf
  <2>. QED  BY <2>1
<1>2. ASSUME NEW k \in 1..N, k - 1 \in S PROVE k \in S
  <2>1. k \in 0..N /\ k - 1 \in 0..N /\ k \in Nat
    OBVIOUS
  <2>2. GroupOf(lists, k - 1) \in Nat
    BY <2>1, KeptType DEF GroupOf
  <2>3. GroupOf(lists, k - 1) <= k - 1 /\ (GroupOf(lists, k - 1) = k - 1 => None(k - 1))
    BY <1>2
  <2>4. CASE lists[k] = << >>
    <3>1. GroupOf(lists, k) = GroupOf(lists, k - 1)
      BY <2>4, KeptStep DEF GroupOf
    <3>. QED  BY <2>1, <2>2, <2>3, <3>1
  <2>5. CASE lists[k] # << >>
    <3>1. GroupOf(lists, k) = GroupOf(lists, k - 1) + 1
      BY <2>5, GroupsAreNew
    <3>2. \A i \in 1..k : i = k \/ i \in 1..(k - 1)
      OBVIOUS
    <3>3. GroupOf(lists, k) <= k
      BY <2>1, <2>2, <2>3, <3>1
    <3>4. ASSUME GroupOf(lists, k) = k PROVE None(k)
      <4>. DEFINE before == GroupOf(lists, k - 1)
      <4>2. before \in Nat /\ k = before + 1
        BY <2>2, <3>1, <3>4
      <4>. HIDE DEF before
      <4>3. before = k - 1
        BY <4>2
      <4>1. GroupOf(lists, k - 1) = k - 1
        BY <4>3 DEF before
      <4>. QED  BY <2>3, <2>5, <3>2, <3>4, <4>1
    <3>. QED  BY <2>1, <3>3, <3>4
  <2>. QED  BY <2>4, <2>5
<1>3. 0 \in Nat /\ N \in Nat /\ N \in 0..N
  OBVIOUS
<1>. HIDE DEF S
<1>4. \A k \in (0 + 1)..N : k - 1 \in S => k \in S
  BY <1>2
<1>5. 0..N \subseteq S
  BY <1>1, <1>3, <1>4, IntervalInduction
<1>6. GroupOf(lists, N) = N
  <2>1. NonEmptyLists(lists) = Kept(lists, N) /\ Kept(lists, N) \in Seq(Seq(X))
    BY <1>3, KeptStep, KeptType
  <2>2. 1..GroupOf(lists, N) = 1..N /\ GroupOf(lists, N) \in Nat
    BY <2>1 DEF GroupOf
  <2>3. ASSUME NEW a \in Nat, NEW b \in Nat, 1..a = 1..b PROVE a = b
    <3>1. a \in 1..b \/ a = 0
      BY <2>3
    <3>2. b \in 1..a \/ b = 0
      BY <2>3
    <3>. QED  BY <3>1, <3>2
  <2>. QED  BY <1>3, <2>2, <2>3
<1>7. None(N)
  <2>1. N \in S
    BY <1>3, <1>5
  <2>. QED  BY <1>6, <2>1 DEF S
<1>8. DOMAIN lists = 1..N
  OBVIOUS
<1>. QED  BY <1>7, <1>8 DEF NonEmpty

\* allOf of one list keeps it as it is, in one group.
LEMMA AllOfOne ==
  ASSUME NEW X, NEW list \in Seq(X), list # << >>
  PROVE  /\ AllOf(<<list>>).placeholders = list
         /\ AllOf(<<list>>).groups = <<1..Len(list)>>
         /\ AllOf(<<list>>).folds = SetupFolds(IdsOf(list))
         /\ AllOf(<<list>>).grouped = FALSE
<1>. DEFINE lists == <<list>>
<1>1. lists \in Seq(Seq(X)) /\ Len(lists) = 1 /\ lists[1] = list
      /\ lists = Append(<< >>, list) /\ << >> \in Seq(Seq(X)) /\ DOMAIN lists = {1}
      /\ SubSeq(lists, 1, 1 - 1) = << >>
  OBVIOUS
<1>. HIDE DEF lists
<1>2. NonEmptyLists(lists) = lists
  <2>1. /\ NonEmptyLists(lists) = Kept(lists, 1) /\ Kept(lists, 0) = << >>
        /\ \A n \in 1..1 :
             Kept(lists, n) = IF lists[n] = << >> THEN Kept(lists, n - 1)
                              ELSE Append(Kept(lists, n - 1), lists[n])
    BY <1>1, KeptStep
  <2>2. Kept(lists, 1) = Append(Kept(lists, 0), list)
    BY <1>1, <2>1
  <2>. QED  BY <1>1, <2>1, <2>2
<1>3. FlattenSeq(lists) = list /\ FlattenSeq(<< >>) = << >>
  BY <1>1, FlattenAppend
<1>4. PositionsOf(lists, 1) = 1..Len(list)
  <2>0. FlattenSeq(SubSeq(lists, 1, 1 - 1)) = << >>
    BY <1>1, <1>3, Zenon
  <2>1. Len(FlattenSeq(SubSeq(lists, 1, 1 - 1))) = 0
    BY <2>0
  <2>2. PositionsOf(lists, 1) = (0 + 1)..(0 + Len(list))
    BY <1>1, <2>1 DEF PositionsOf
  <2>. QED  BY <2>2
<1>5. [g \in DOMAIN lists |-> PositionsOf(lists, g)] = <<1..Len(list)>>
  BY <1>1, <1>4
<1>. QED  BY <1>2, <1>3, <1>5 DEF AllOf, lists

-----------------------------------------------------------------------------
(* Placeholder sets *)

\* setupFolds: two positions share a fold exactly if their ids are equal.
LEMMA FoldsReflectIds ==
  ASSUME NEW ids, NEW n \in Nat, DOMAIN ids = 1..n,
         NEW i \in 1..n, NEW j \in 1..n
  PROVE  SetupFolds(ids)[i] = SetupFolds(ids)[j] <=> ids[i] = ids[j]
<1>. DEFINE First(f, k) ==
         f \in 1..k /\ ids[f] = ids[k] /\ \A m \in 1..(f-1) : ids[m] # ids[k]
<1>1. ASSUME NEW k \in 1..n PROVE First(SetupFolds(ids)[k], k)
  <2>. DEFINE S == {f \in 1..k : ids[f] = ids[k]}
  <2>1. S \subseteq Nat /\ S # {}
    OBVIOUS
  <2>2. PICK x \in S : \A y \in S : x <= y
    BY <2>1, LeastElement
  <2>3. First(x, k)
    BY <2>2
  <2>4. \E f \in 1..k : ids[f] = ids[k] /\ \A m \in 1..(f-1) : ids[m] # ids[k]
    BY <2>3
  <2>. QED  BY <2>4 DEF SetupFolds
<1>2. First(SetupFolds(ids)[i], i) /\ First(SetupFolds(ids)[j], j)
  BY <1>1
<1>3. CASE ids[i] = ids[j]
  <2>1. ~ (SetupFolds(ids)[i] < SetupFolds(ids)[j])
    BY <1>2, <1>3
  <2>2. ~ (SetupFolds(ids)[j] < SetupFolds(ids)[i])
    BY <1>2, <1>3
  <2>. QED  BY <1>2, <1>3, <2>1, <2>2
<1>4. CASE ids[i] # ids[j]
  BY <1>2, <1>4
<1>. QED  BY <1>3, <1>4

\* findSpace: null for a group with nothing assigned, otherwise the space of
\* one of the group's assigned placeholders.
LEMMA FindSpaceProperties ==
  ASSUME NEW group, group \subseteq Nat, NEW c \in Seq(Candidate)
  PROVE  /\ group \cap DOMAIN c = {} => FindSpace(group, c) = NullSpace
         /\ group \cap DOMAIN c # {} =>
              /\ FindSpace(group, c) \in Space
              /\ FindSpace(group, c) # NullSpace
              /\ \E i \in group \cap DOMAIN c : FindSpace(group, c) = c[i].space
<1>. DEFINE assigned == group \cap DOMAIN c
<1>1. CASE assigned = {}
  BY <1>1 DEF FindSpace
<1>2. CASE assigned # {}
  <2>1. PICK x \in assigned : \A y \in assigned : x <= y
    BY <1>2, LeastElement
  <2>. DEFINE k == CHOOSE i \in assigned : \A j \in assigned : i <= j
  <2>2. k \in assigned
    BY <2>1
  <2>3. FindSpace(group, c) = c[k].space
    BY <1>2 DEF FindSpace
  <2>4. c[k] \in Candidate
    BY <2>2
  <2>. QED  BY <1>2, <2>2, <2>3, <2>4, SpaceAssumption DEF Candidate
<1>. QED  BY <1>1, <1>2

\* On full combinations the filter decides exactly the documented constraints.
LEMMA SuitableIffValid ==
  ASSUME NEW p \in Problems, NEW c \in Seq(Candidate),
         Len(c) = Len(p.ps.placeholders)
  PROVE  IsSuitableCombination(p.ps, c) <=> IsValidCombination(p, c)
<1>. DEFINE n == Len(p.ps.placeholders)
            ids == IdsOf(p.ps.placeholders)
            G == p.ps.groups
<1>1. IsProblem(p)
  BY ProblemsAssumption
<1>2. /\ n \in Nat
      /\ DOMAIN c = 1..n
      /\ DOMAIN p.ps.placeholders = 1..n
      /\ \A i \in 1..n : c[i] \in Candidate
  BY <1>1 DEF IsProblem, IsPlaceholderSet
<1>3. /\ p.ps.folds = SetupFolds(ids)
      /\ p.ps.grouped <=> p.arrays # << >>
      /\ p.arrays # << >> => p.ps.groupFolds = SetupFolds(p.arrays)
  BY <1>1 DEF IsProblem, PlaceholderSetFor, AllOf, AllOfArrays
<1>4. /\ G \in Seq(SUBSET Nat)
      /\ UNION {G[g] : g \in DOMAIN G} = 1..n
      /\ \A g, h \in DOMAIN G : g # h => G[g] \cap G[h] = {}
  BY <1>1 DEF IsProblem, IsPlaceholderSet, IsPartition
<1>5. HasNoDuplicateAssignments(p.ps, c)
        <=> \A i, j \in 1..n : p.ps.placeholders[i].id = p.ps.placeholders[j].id
                                <=> c[i].payload = c[j].payload
  <2>1. DOMAIN ids = 1..n /\ \A i \in 1..n : ids[i] = p.ps.placeholders[i].id
    BY <1>2 DEF IdsOf
  <2>2. \A i, j \in 1..n : p.ps.folds[i] = p.ps.folds[j] <=> ids[i] = ids[j]
    BY <1>2, <1>3, <2>1, FoldsReflectIds
  <2>3. HasNoDuplicateAssignments(p.ps, c)
          <=> \A i, j \in 1..n : i < j =>
                IF p.ps.folds[i] = p.ps.folds[j]
                  THEN c[i].payload = c[j].payload
                  ELSE c[i].payload # c[j].payload
    BY <1>2 DEF HasNoDuplicateAssignments, AreFoldsValid, IsEqualModuloMap
  <2>. QED  BY <1>2, <2>1, <2>2, <2>3
<1>6. \A g \in DOMAIN G : G[g] \subseteq 1..n /\ G[g] \subseteq Nat
  BY <1>4
<1>7. \A g \in DOMAIN G : \A i \in G[g] : FindSpace(G[g], c) # NullSpace
  BY <1>2, <1>6, FindSpaceProperties
<1>8. \A g \in DOMAIN G : G[g] = {} => FindSpace(G[g], c) = NullSpace
  BY <1>2, <1>6, FindSpaceProperties
<1>9. GroupsAreProperlyFormed(p.ps, c)
        <=> \A i, j \in 1..n : InOneGroup(p.ps, i, j) <=> c[i].space = c[j].space
  <2>1. ASSUME GroupsAreProperlyFormed(p.ps, c), NEW i \in 1..n, NEW j \in 1..n
        PROVE  InOneGroup(p.ps, i, j) <=> c[i].space = c[j].space
    <3>1. PICK g \in DOMAIN G : i \in G[g]
      BY <1>4
    <3>2. PICK h \in DOMAIN G : j \in G[h]
      BY <1>4
    <3>3. c[i].space = FindSpace(G[g], c) /\ c[j].space = FindSpace(G[h], c)
      BY <2>1, <3>1, <3>2, <1>2 DEF GroupsAreProperlyFormed
    <3>4. CASE g = h
      BY <3>1, <3>2, <3>3, <3>4 DEF InOneGroup
    <3>5. CASE g # h
      <4>1. g \in Nat /\ h \in Nat /\ (g < h \/ h < g) /\ g >= 1 /\ h >= 1
        BY <1>4, <3>5, SMTT(30)
      <4>2. FindSpace(G[g], c) # FindSpace(G[h], c)
        BY <2>1, <4>1, <1>7, <3>1, <3>2 DEF GroupsAreProperlyFormed
      <4>3. ~ InOneGroup(p.ps, i, j)
        BY <1>4, <3>1, <3>2, <3>5 DEF InOneGroup
      <4>. QED  BY <3>3, <4>2, <4>3
    <3>. QED  BY <3>4, <3>5
  <2>2. ASSUME \A i, j \in 1..n : InOneGroup(p.ps, i, j)
                                    <=> c[i].space = c[j].space,
               NEW g \in DOMAIN G
        PROVE  /\ \A i \in G[g] : c[i].space = FindSpace(G[g], c)
               /\ FindSpace(G[g], c) # NullSpace =>
                    \A h \in 1..(g-1) : FindSpace(G[h], c) # FindSpace(G[g], c)
    <3>1. ASSUME NEW i \in G[g] PROVE c[i].space = FindSpace(G[g], c)
      <4>1. PICK k \in G[g] \cap DOMAIN c : FindSpace(G[g], c) = c[k].space
        BY <1>2, <1>6, FindSpaceProperties
      <4>2. InOneGroup(p.ps, i, k)
        BY <4>1 DEF InOneGroup
      <4>. QED  BY <2>2, <4>1, <4>2, <1>2, <1>6
    <3>2. ASSUME FindSpace(G[g], c) # NullSpace, NEW h \in 1..(g-1)
          PROVE  FindSpace(G[h], c) # FindSpace(G[g], c)
      <4>1. h \in DOMAIN G /\ h # g
        BY <1>4
      <4>2. CASE G[h] = {}
        BY <1>8, <3>2, <4>1, <4>2
      <4>3. CASE G[h] # {}
        <5>1. PICK k \in G[h] \cap DOMAIN c : FindSpace(G[h], c) = c[k].space
          BY <1>2, <1>6, <4>1, <4>3, FindSpaceProperties
        <5>2. PICK m \in G[g] \cap DOMAIN c : FindSpace(G[g], c) = c[m].space
          BY <1>2, <1>6, <3>2, FindSpaceProperties
        <5>3. ~ InOneGroup(p.ps, k, m)
          BY <1>4, <4>1, <5>1, <5>2 DEF InOneGroup
        <5>. QED  BY <2>2, <5>1, <5>2, <5>3, <1>2
      <4>. QED  BY <4>2, <4>3
    <3>. QED  BY <3>1, <3>2
  <2>3. (\A i, j \in 1..n : InOneGroup(p.ps, i, j) <=> c[i].space = c[j].space)
          => GroupsAreProperlyFormed(p.ps, c)
    BY <2>2 DEF GroupsAreProperlyFormed
  <2>. QED  BY <2>1, <2>3
<1>10. ASSUME p.arrays # << >>, GroupsAreProperlyFormed(p.ps, c)
       PROVE  GroupFoldsAreValid(p.ps, c)
                <=> \A g, h \in DOMAIN G : \A i \in G[g], j \in G[h] :
                      p.arrays[g] = p.arrays[h]
                        <=> ArrayOf[c[i].space] = ArrayOf[c[j].space]
  <2>1. DOMAIN p.arrays = 1..Len(G) /\ Len(G) \in Nat /\ DOMAIN G = 1..Len(G)
    BY <1>1, <1>4, <1>10 DEF IsProblem
  <2>2. \A g, h \in 1..Len(G) : p.ps.groupFolds[g] = p.ps.groupFolds[h]
                                 <=> p.arrays[g] = p.arrays[h]
    BY <1>3, <1>10, <2>1, FoldsReflectIds
  <2>3. \A g \in DOMAIN G : \A i \in G[g] : c[i].space = FindSpace(G[g], c)
    BY <1>2, <1>6, <1>10 DEF GroupsAreProperlyFormed
  <2>. DEFINE Ar(g) == ArrayOf[FindSpace(G[g], c)]
              Matched(g) == FindSpace(G[g], c) # NullSpace
  <2>4. GroupFoldsAreValid(p.ps, c)
          <=> \A g, h \in 1..Len(G) : g < h /\ Matched(g) /\ Matched(h) =>
                (p.ps.groupFolds[g] = p.ps.groupFolds[h] <=> Ar(g) = Ar(h))
    BY DEF GroupFoldsAreValid, AreFoldsValid, CompareGroupsBelongToSameArray
  <2>5. \A g \in DOMAIN G : Matched(g) <=> G[g] # {}
    BY <1>7, <1>8
  <2>. DEFINE Agree(g, h) == p.arrays[g] = p.arrays[h] <=> Ar(g) = Ar(h)
  <2>6. GroupFoldsAreValid(p.ps, c)
          <=> \A g, h \in 1..Len(G) : g < h /\ G[g] # {} /\ G[h] # {} => Agree(g, h)
    BY <2>1, <2>2, <2>4, <2>5, SMTT(30)
  <2>7. \A g, h \in 1..Len(G) : Agree(g, g) /\ (Agree(g, h) <=> Agree(h, g))
    OBVIOUS
  <2>8. ASSUME NEW g \in DOMAIN G, NEW h \in DOMAIN G
        PROVE  (\A i \in G[g], j \in G[h] :
                  p.arrays[g] = p.arrays[h]
                    <=> ArrayOf[c[i].space] = ArrayOf[c[j].space])
               <=> (G[g] # {} /\ G[h] # {} => Agree(g, h))
    BY <2>3
  <2>. HIDE DEF Agree
  <2>9. GroupFoldsAreValid(p.ps, c)
          <=> \A g, h \in 1..Len(G) : G[g] # {} /\ G[h] # {} => Agree(g, h)
    BY <2>1, <2>6, <2>7
  <2>. QED  BY <2>1, <2>8, <2>9, SMTT(30)
<1>. QED
  BY <1>2, <1>3, <1>5, <1>9, <1>10, SMTT(30)
     DEF IsSuitableCombination, IsValidCombination

\* "The filter must work on incomplete candidates for the branch-and-cut to
\* work": cutting a combination never loses a suitable one, because every prefix
\* of a suitable combination is suitable.
THEOREM PrefixOfSuitable ==
  ASSUME NEW p \in Problems, NEW c \in Seq(Candidate), NEW k \in 0..Len(c),
         IsSuitableCombination(p.ps, c)
  PROVE  IsSuitableCombination(p.ps, SubSeq(c, 1, k))
<1>. DEFINE d == SubSeq(c, 1, k)
            G == p.ps.groups
<1>1. /\ d \in Seq(Candidate)
      /\ Len(d) = k /\ k <= Len(c) /\ Len(c) \in Nat /\ k \in Nat
      /\ DOMAIN d = 1..k /\ DOMAIN c = 1..Len(c)
      /\ \A i \in 1..k : d[i] = c[i]
  OBVIOUS
<1>. HIDE DEF d
<1>2. \A g \in DOMAIN G : G[g] \subseteq Nat
  BY ProblemsAssumption DEF IsProblem, IsPlaceholderSet
\* A group's space on the prefix is its space on the whole, or null.
<1>3. ASSUME NEW g \in DOMAIN G, FindSpace(G[g], d) # NullSpace
      PROVE  FindSpace(G[g], d) = FindSpace(G[g], c)
  <2>1. \A i \in G[g] \cap DOMAIN c : c[i].space = FindSpace(G[g], c)
    BY DEF IsSuitableCombination, GroupsAreProperlyFormed
  <2>2. PICK i \in G[g] \cap DOMAIN d : FindSpace(G[g], d) = d[i].space
    BY <1>1, <1>2, <1>3, FindSpaceProperties
  <2>. QED  BY <1>1, <2>1, <2>2
<1>4. HasNoDuplicateAssignments(p.ps, d)
  <2>1. HasNoDuplicateAssignments(p.ps, c)
    BY DEF IsSuitableCombination
  <2>. QED
    BY <1>1, <2>1 DEF HasNoDuplicateAssignments, AreFoldsValid, IsEqualModuloMap
<1>5. GroupsAreProperlyFormed(p.ps, d)
  <2>1. GroupsAreProperlyFormed(p.ps, c)
    BY DEF IsSuitableCombination
  <2>2. ASSUME NEW g \in DOMAIN G, NEW i \in G[g] \cap DOMAIN d
        PROVE  d[i].space = FindSpace(G[g], d)
    <3>1. FindSpace(G[g], d) # NullSpace
      BY <1>1, <1>2, <2>2, FindSpaceProperties
    <3>. QED  BY <1>1, <1>3, <2>1, <2>2, <3>1 DEF GroupsAreProperlyFormed
  <2>3. ASSUME NEW g \in DOMAIN G, FindSpace(G[g], d) # NullSpace, NEW h \in 1..(g-1)
        PROVE  FindSpace(G[h], d) # FindSpace(G[g], d)
    <3>1. FindSpace(G[h], c) # FindSpace(G[g], c)
      BY <1>3, <2>1, <2>3 DEF GroupsAreProperlyFormed
    <3>2. h \in DOMAIN G
      BY <2>3, ProblemsAssumption DEF IsProblem, IsPlaceholderSet
    <3>. QED  BY <1>3, <2>3, <3>1, <3>2
  <2>. QED  BY <2>2, <2>3 DEF GroupsAreProperlyFormed
<1>6. ASSUME p.ps.grouped PROVE GroupFoldsAreValid(p.ps, d)
  <2>1. GroupFoldsAreValid(p.ps, c)
    BY <1>6 DEF IsSuitableCombination
  <2>2. DOMAIN G = 1..Len(G)
    BY ProblemsAssumption DEF IsProblem, IsPlaceholderSet
  <2>. QED
    BY <1>3, <2>1, <2>2
       DEF GroupFoldsAreValid, AreFoldsValid, CompareGroupsBelongToSameArray
<1>. QED  BY <1>4, <1>5, <1>6 DEF IsSuitableCombination, d

-----------------------------------------------------------------------------
(* The inductive invariant *)

\* Facts about the problem being solved that every step uses.
LEMMA ProblemFacts ==
  ASSUME problem \in Problems
  PROVE  /\ Size \in Nat
         /\ DOMAIN PS.placeholders = 1..Size
         /\ \A i \in 1..Size : PS.placeholders[i].pattern \in Pattern
         /\ Accesses \in Seq(Space)
         /\ \A k \in 1..Len(Accesses) :
              /\ Accesses[k] \in Space
              /\ Accesses[k] \in DOMAIN problem.umap
              /\ problem.umap[Accesses[k]] \in Relation
<1>1. IsProblem(problem)
  BY ProblemsAssumption
<1>2. PS.placeholders \in Seq(Placeholder(IdsIn(PS)))
  BY <1>1 DEF IsProblem, IsPlaceholderSet, PS
<1>3. \A i \in 1..Size : PS.placeholders[i] \in Placeholder(IdsIn(PS))
  BY <1>2 DEF Size
<1>. QED  BY <1>1, <1>2, <1>3 DEF IsProblem, Placeholder, Size, Accesses

\* What stage 1 adds to a candidate list in one step.
LEMMA FoundInProperties ==
  ASSUME problem \in Problems, ph \in 1..Size, NEW k \in 1..Len(Accesses)
  PROVE  /\ FoundIn(Accesses[k]) \in Seq(Candidate)
         /\ \A i \in DOMAIN FoundIn(Accesses[k]) :
              IsOffered(FoundIn(Accesses[k])[i], PS.placeholders[ph])
<1>. DEFINE space == Accesses[k]
            found == Candidates(problem.umap[space], PS.placeholders[ph].pattern)
<1>1. space \in Space /\ space \in DOMAIN problem.umap
  BY ProblemFacts
<1>2. found \in Seq(Payload)
  BY ProblemFacts, CandidatesAssumption
<1>3. FoundIn(space) = [i \in DOMAIN found |-> [payload |-> found[i], space |-> space]]
  BY DEF FoundIn
<1>4. \A i \in DOMAIN found : found[i] \in Payload
  BY <1>2
<1>. HIDE DEF space, found
<1>5. FoundIn(space) \in Seq(Candidate)
  <2>1. DOMAIN found = 1..Len(found) /\ Len(found) \in Nat
    BY <1>2
  <2>2. \A i \in 1..Len(found) : [payload |-> found[i], space |-> space] \in Candidate
    BY <1>1, <1>4, <2>1 DEF Candidate
  <2>3. FoundIn(space) = [i \in 1..Len(found) |-> [payload |-> found[i], space |-> space]]
    BY <1>3, <2>1
  <2>. QED  BY <2>1, <2>2, <2>3
<1>6. ASSUME NEW i \in DOMAIN FoundIn(space)
      PROVE  IsOffered(FoundIn(space)[i], PS.placeholders[ph])
  BY <1>1, <1>3, <1>6 DEF IsOffered, found
<1>. QED  BY <1>5, <1>6 DEF space

\* What a full suitable combination contributes to the result.
LEMMA MatchOfProperties ==
  ASSUME problem \in Problems, partialCombination \in Seq(Candidate),
         Len(partialCombination) = Size
  PROVE  LET match == MatchOf(PS, partialCombination)
         IN  /\ match \in Seq([id : IdsIn(PS), candidate : Candidate])
             /\ DOMAIN match = 1..Size
             /\ CombinationOf(match) = partialCombination
             /\ \A i \in 1..Size :
                  /\ match[i].id = PS.placeholders[i].id
                  /\ match[i].candidate = partialCombination[i]
<1>. DEFINE match == MatchOf(PS, partialCombination)
            entry(i) == [id |-> PS.placeholders[i].id,
                         candidate |-> partialCombination[i]]
<1>1. Size \in Nat /\ DOMAIN partialCombination = 1..Size
  BY ProblemFacts
<1>2. match = [i \in 1..Size |-> entry(i)]
  BY <1>1 DEF MatchOf
<1>3. \A i \in 1..Size : entry(i) \in [id : IdsIn(PS), candidate : Candidate]
  BY <1>1, ProblemFacts DEF IdsIn
<1>4. \A i \in 1..Size : /\ entry(i).id = PS.placeholders[i].id
                         /\ entry(i).candidate = partialCombination[i]
  OBVIOUS
<1>. DEFINE Entries == [id : IdsIn(PS), candidate : Candidate]
<1>. HIDE DEF match, entry, Entries
<1>5. match \in Seq(Entries)
  <2>1. /\ Size \in Nat
        /\ \A i \in 1..Size : entry(i) \in Entries
    BY <1>1, <1>3 DEF Entries
  <2>. QED  BY <2>1, <1>2
<1>6. CombinationOf(match) = [i \in 1..Size |-> partialCombination[i]]
  BY <1>2, <1>4 DEF CombinationOf
<1>7. CombinationOf(match) = partialCombination
  BY <1>1, <1>6
<1>. QED  BY <1>2, <1>4, <1>5, <1>7 DEF match, Entries

LEMMA InitIInv == Init => problem \in Problems /\ IInv
<1>. SUFFICES ASSUME Init PROVE problem \in Problems /\ IInv
  OBVIOUS
<1>1. problem \in Problems
  BY DEF Init
<1>2. TypeOK
  BY <1>1, ProblemFacts DEF Init, TypeOK
<1>3. StackMatchesCombination
  BY DEF Init, StackMatchesCombination
<1>4. CandidatesAreOffered
  BY DEF Init, CandidatesAreOffered
<1>5. MatchesAreSound
  BY DEF Init, MatchesAreSound
<1>. QED  BY <1>1, <1>2, <1>3, <1>4, <1>5 DEF IInv

LEMMA TypeStep ==
  ASSUME problem \in Problems, TypeOK, StackMatchesCombination, [Next]_vars
  PROVE  problem' \in Problems /\ TypeOK'
<1>. USE ProblemFacts DEF TypeOK, Size, PS, Accesses
<1>1. CASE FillCandidates
  <2>1. ph \in 1..Size /\ acc \in 1..Len(Accesses)
    BY <1>1 DEF FillCandidates
  <2>2. FoundIn(Accesses[acc]) \in Seq(Candidate)
    BY ONLY <2>1, FoundInProperties, problem \in Problems DEF Size, PS, Accesses
  <2>3. candidates[ph] \o FoundIn(Accesses[acc]) \in Seq(Candidate)
    BY <2>1, <2>2
  <2>. QED  BY <1>1, <2>1, <2>3, SMTT(30) DEF FillCandidates
<1>2. CASE EarlyExit
  BY <1>2 DEF EarlyExit
<1>3. CASE NextPlaceholder
  BY <1>3, SMTT(30) DEF NextPlaceholder
<1>4. CASE StartSearch
  BY <1>4 DEF StartSearch
<1>5. CASE Reject
  BY <1>5 DEF Reject
<1>6. CASE Accept
  <2>1. MatchOf(PS, partialCombination) \in Seq([id : IdsIn(PS), candidate : Candidate])
    BY <1>6, MatchOfProperties DEF Accept
  <2>. QED  BY <1>6, <2>1 DEF Accept
<1>7. CASE Branch
  BY <1>7 DEF Branch
<1>8. CASE Try
  <2>1. Depth = Len(partialCombination) + 1 /\ Depth <= Size
    BY <1>8 DEF Try, StackMatchesCombination
  <2>2. candidates[Depth] \in Seq(Candidate) /\ frames[Depth] \in Nat \ {0}
    BY <2>1 DEF Depth
  <2>3. candidates[Depth][frames[Depth]] \in Candidate
    BY <1>8, <2>2 DEF Try
  <2>. QED  BY <1>8, <2>1, <2>3, SMTT(30) DEF Try
<1>9. CASE Exhausted
  <2>1. Depth = Len(partialCombination) + 1
    BY <1>9 DEF Exhausted, StackMatchesCombination
  <2>2. Front(frames) \in Seq(Nat \ {0})
    BY <2>1 DEF Front, Depth
  <2>. QED  BY <1>9, <2>2 DEF Exhausted
<1>10. CASE Resume
  <2>1. Depth = Len(partialCombination) /\ Depth # 0
    BY <1>10 DEF Resume, StackMatchesCombination, Depth
  <2>2. /\ Front(partialCombination) \in Seq(Candidate)
        /\ Len(Front(partialCombination)) <= Size
    BY <2>1, SMTT(30) DEF Front, Depth
  <2>3. [frames EXCEPT ![Depth] = @ + 1] \in Seq(Nat \ {0})
    BY <2>1, SMTT(30) DEF Depth
  <2>. QED  BY <1>10, <2>2, <2>3 DEF Resume
<1>11. CASE Finish
  BY <1>11 DEF Finish
<1>12. CASE UNCHANGED vars
  BY <1>12 DEF vars
<1>. QED
  BY <1>1, <1>2, <1>3, <1>4, <1>5, <1>6, <1>7, <1>8, <1>9, <1>10, <1>11, <1>12
     DEF Next

\* Only Branch, Try, Exhausted and Resume touch the call stack.
LEMMA StackStep ==
  ASSUME problem \in Problems, TypeOK, StackMatchesCombination, [Next]_vars
  PROVE  StackMatchesCombination'
<1>. USE ProblemFacts DEF TypeOK, StackMatchesCombination, Size, PS, Accesses, Depth
<1>1. CASE FillCandidates
  BY <1>1 DEF FillCandidates
<1>2. CASE EarlyExit
  BY <1>2 DEF EarlyExit
<1>3. CASE NextPlaceholder
  BY <1>3 DEF NextPlaceholder
<1>4. CASE StartSearch
  BY <1>4 DEF StartSearch
<1>5. CASE Reject
  BY <1>5 DEF Reject
<1>6. CASE Accept
  BY <1>6 DEF Accept
<1>7. CASE Branch
  <2>1. /\ Len(frames') = Len(frames) + 1
        /\ frames'[Len(frames')] = 1
        /\ \A i \in 1..Len(frames) : frames'[i] = frames[i]
    BY <1>7 DEF Branch
  <2>2. candidates[Len(frames')] \in Seq(Candidate)
    BY <1>7, <2>1, SMTT(30) DEF Branch
  <2>. QED  BY <1>7, <2>1, <2>2 DEF Branch
<1>8. CASE Try
  <2>. DEFINE d == Len(frames)
  <2>0. /\ pc = "loop" /\ pc' = "check"
        /\ partialCombination' = Append(partialCombination, candidates[d][frames[d]])
        /\ frames' = frames /\ candidates' = candidates /\ problem' = problem
        /\ frames[d] <= Len(candidates[d])
    BY ONLY <1>8 DEF Try, Depth
  <2>1. d = Len(partialCombination) + 1 /\ d \in 1..Len(PS.placeholders)
    BY ONLY <2>0, TypeOK, StackMatchesCombination, ProblemFacts
       DEF TypeOK, StackMatchesCombination, Depth, Size, PS
  <2>2. candidates[d] \in Seq(Candidate) /\ frames[d] \in Nat \ {0}
    BY ONLY <2>1, TypeOK DEF TypeOK, Size, PS
  <2>3. frames[d] \in DOMAIN candidates[d] /\ candidates[d][frames[d]] \in Candidate
    BY ONLY <2>0, <2>2
  <2>4. /\ Len(partialCombination') = d
        /\ partialCombination'[d] = candidates[d][frames[d]]
        /\ \A i \in DOMAIN partialCombination :
             partialCombination'[i] = partialCombination[i]
        /\ DOMAIN partialCombination' = DOMAIN partialCombination \cup {d}
    BY ONLY <2>0, <2>1, <2>3, TypeOK, SMTT(30) DEF TypeOK
  <2>5. \A i \in DOMAIN partialCombination' :
          /\ frames'[i] \in DOMAIN candidates'[i]
          /\ partialCombination'[i] = candidates'[i][frames'[i]]
    BY ONLY <2>0, <2>3, <2>4, StackMatchesCombination
       DEF StackMatchesCombination
  <2>. QED
    BY ONLY <2>0, <2>4, <2>5 DEF StackMatchesCombination, Depth
<1>9. CASE Exhausted
  <2>1. /\ Len(frames') = Len(partialCombination)
        /\ \A i \in 1..Len(partialCombination) : frames'[i] = frames[i]
    BY <1>9, SMTT(30) DEF Exhausted, Front
  <2>. QED  BY <1>9, <2>1, SMTT(30) DEF Exhausted
<1>10. CASE Resume
  <2>1. Len(frames) = Len(partialCombination) /\ Len(frames) # 0
    BY <1>10 DEF Resume
  <2>2. /\ Len(partialCombination') = Len(frames) - 1
        /\ \A i \in 1..(Len(frames) - 1) :
             partialCombination'[i] = partialCombination[i]
    BY <1>10, <2>1 DEF Resume, Front
  <2>3. /\ Len(frames') = Len(frames)
        /\ frames'[Len(frames)] = frames[Len(frames)] + 1
        /\ \A i \in 1..(Len(frames) - 1) : frames'[i] = frames[i]
    BY <1>10, <2>1 DEF Resume
  <2>4. frames[Len(frames)] \in DOMAIN candidates[Len(frames)]
    <3>1. pc = "return" /\ Len(frames) \in DOMAIN partialCombination
      BY <1>10, <2>1 DEF Resume
    <3>. QED  BY <3>1
  <2>5. frames[Len(frames)] <= Len(candidates[Len(frames)])
    <3>1. Len(frames) \in 1..Size
      BY <2>1
    <3>2. candidates[Len(frames)] \in Seq(Candidate)
      BY <3>1
    <3>. QED  BY <2>4, <3>2
  <2>6. \A i \in DOMAIN partialCombination' :
          /\ frames'[i] \in DOMAIN candidates'[i]
          /\ partialCombination'[i] = candidates'[i][frames'[i]]
    <3>1. /\ DOMAIN partialCombination' = 1..(Len(frames) - 1)
          /\ candidates' = candidates
      BY <1>10, <2>1, <2>2 DEF Resume, Front
    <3>2. DOMAIN partialCombination = 1..Len(frames)
      BY <2>1
    <3>3. ASSUME NEW i \in DOMAIN partialCombination'
          PROVE  /\ frames'[i] \in DOMAIN candidates'[i]
                 /\ partialCombination'[i] = candidates'[i][frames'[i]]
      <4>1. /\ i \in DOMAIN partialCombination
            /\ frames'[i] = frames[i]
            /\ partialCombination'[i] = partialCombination[i]
        BY ONLY <2>1, <2>2, <2>3, <3>1, <3>2, <3>3, TypeOK, SMTT(30) DEF TypeOK
      <4>. QED  BY <3>1, <4>1
    <3>. QED  BY <3>3
  <2>. QED  BY <1>10, <2>1, <2>2, <2>3, <2>5, <2>6, SMTT(30) DEF Resume
<1>11. CASE Finish
  BY <1>11 DEF Finish
<1>12. CASE UNCHANGED vars
  BY <1>12 DEF vars
<1>. QED
  BY <1>1, <1>2, <1>3, <1>4, <1>5, <1>6, <1>7, <1>8, <1>9, <1>10, <1>11, <1>12
     DEF Next

\* Only FillCandidates touches the candidate lists.
LEMMA OfferedStep ==
  ASSUME problem \in Problems, TypeOK, CandidatesAreOffered, [Next]_vars
  PROVE  CandidatesAreOffered'
<1>1. CASE FillCandidates
  <2>1. /\ problem' = problem /\ ph \in 1..Size /\ acc \in 1..Len(Accesses)
        /\ candidates' = [candidates EXCEPT ![ph] = @ \o FoundIn(Accesses[acc])]
        /\ candidates \in [1..Size -> Seq(Candidate)]
    BY <1>1, ProblemFacts DEF FillCandidates, TypeOK
  <2>. DEFINE old == candidates[ph]
              new == FoundIn(Accesses[acc])
  <2>2. old \in Seq(Candidate) /\ new \in Seq(Candidate)
    BY <2>1, FoundInProperties
  <2>3. /\ \A k \in DOMAIN old : IsOffered(old[k], PS.placeholders[ph])
        /\ \A k \in DOMAIN new : IsOffered(new[k], PS.placeholders[ph])
    BY <2>1, FoundInProperties DEF CandidatesAreOffered
  <2>. HIDE DEF old, new
  <2>4. ASSUME NEW k \in DOMAIN (old \o new)
        PROVE  IsOffered((old \o new)[k], PS.placeholders[ph])
    <3>1. /\ Len(old) \in Nat /\ Len(new) \in Nat
          /\ DOMAIN old = 1..Len(old) /\ DOMAIN new = 1..Len(new)
          /\ k \in 1..(Len(old) + Len(new))
      BY <2>2, <2>4
    <3>2. CASE k <= Len(old)
      <4>1. (old \o new)[k] = old[k]
        BY <2>2, <3>1, <3>2
      <4>. QED  BY <2>3, <3>1, <3>2, <4>1
    <3>3. CASE k > Len(old)
      <4>1. (old \o new)[k] = new[k - Len(old)] /\ k - Len(old) \in 1..Len(new)
        BY <2>2, <3>1, <3>3
      <4>. QED  BY <2>3, <3>1, <4>1
    <3>. QED  BY <3>1, <3>2, <3>3
  <2>5. ASSUME NEW i \in 1..Size, NEW k \in DOMAIN candidates'[i]
        PROVE  IsOffered(candidates'[i][k], PS.placeholders[i])
    <3>1. CASE i = ph
      <4>1. candidates'[i] = old \o new
        BY <2>1, <3>1 DEF old, new
      <4>. QED  BY <2>4, <2>5, <3>1, <4>1
    <3>2. CASE i # ph
      <4>1. candidates'[i] = candidates[i]
        BY <2>1, <2>5, <3>2
      <4>. QED  BY <2>5, <4>1 DEF CandidatesAreOffered
    <3>. QED  BY <3>1, <3>2
  <2>6. Size' = Size /\ PS' = PS
    BY <2>1 DEF Size, PS
  <2>7. \A x, y : IsOffered(x, y)' <=> IsOffered(x, y)
    BY <2>1 DEF IsOffered
  <2>. QED  BY <2>5, <2>6, <2>7 DEF CandidatesAreOffered
<1>2. CASE UNCHANGED <<problem, candidates>>
  BY <1>2 DEF CandidatesAreOffered, IsOffered, Size, PS
<1>. QED
  BY <1>1, <1>2 DEF Next, vars, EarlyExit, NextPlaceholder, StartSearch, Reject,
                    Accept, Branch, Try, Exhausted, Resume, Finish

\* Only Accept adds a match, and it has just checked the combination.
LEMMA SoundStep ==
  ASSUME problem \in Problems, IInv, [Next]_vars
  PROVE  MatchesAreSound'
<1>. USE DEF IInv
<1>1. CASE Accept
  <2>. DEFINE match == MatchOf(PS, partialCombination)
  <2>1. /\ problem' = problem
        /\ suitableCandidates' = Append(suitableCandidates, match)
        /\ IsSuitableCombination(PS, partialCombination)
        /\ Len(partialCombination) = Size
        /\ partialCombination \in Seq(Candidate)
        /\ suitableCandidates \in Seq(Seq([id : IdsIn(PS), candidate : Candidate]))
    BY <1>1 DEF Accept, Suitable, TypeOK
  <2>2. /\ match \in Seq([id : IdsIn(PS), candidate : Candidate])
        /\ DOMAIN match = 1..Size
        /\ CombinationOf(match) = partialCombination
        /\ \A i \in 1..Size : /\ match[i].id = PS.placeholders[i].id
                              /\ match[i].candidate = partialCombination[i]
    BY <2>1, MatchOfProperties
  <2>3. IsValidCombination(problem, partialCombination)
    BY <2>1, SuitableIffValid DEF PS, Size
  <2>4. \A i \in 1..Size : IsOffered(partialCombination[i], PS.placeholders[i])
    <3>1. ASSUME NEW i \in 1..Size
          PROVE  /\ frames[i] \in DOMAIN candidates[i]
                 /\ partialCombination[i] = candidates[i][frames[i]]
      <4>1. i \in DOMAIN partialCombination
        BY ONLY <2>1, <3>1
      <4>. QED  BY ONLY <4>1, StackMatchesCombination DEF StackMatchesCombination
    <3>. QED  BY ONLY <3>1, CandidatesAreOffered DEF CandidatesAreOffered
  <2>. HIDE DEF match
  <2>5. ASSUME NEW m \in DOMAIN suitableCandidates'
        PROVE  /\ IsValidCombination(problem, CombinationOf(suitableCandidates'[m]))
               /\ \A i \in DOMAIN suitableCandidates'[m] :
                    /\ suitableCandidates'[m][i].id = PS.placeholders[i].id
                    /\ IsOffered(suitableCandidates'[m][i].candidate,
                                 PS.placeholders[i])
    <3>1. CASE m \in DOMAIN suitableCandidates
      <4>1. suitableCandidates'[m] = suitableCandidates[m]
        BY <2>1, <2>2, <3>1
      <4>. QED  BY <3>1, <4>1 DEF MatchesAreSound
    <3>2. CASE m \notin DOMAIN suitableCandidates
      <4>1. suitableCandidates'[m] = match
        BY <2>1, <2>2, <2>5, <3>2
      <4>. QED  BY <2>2, <2>3, <2>4, <4>1
    <3>. QED  BY <3>1, <3>2
  <2>6. PS' = PS
    BY ONLY <2>1 DEF PS
  <2>7. \A x, y : IsOffered(x, y)' <=> IsOffered(x, y)
    BY ONLY <2>1 DEF IsOffered
  <2>. QED  BY ONLY <2>1, <2>5, <2>6, <2>7 DEF MatchesAreSound
<1>2. CASE UNCHANGED <<problem, suitableCandidates>>
  BY <1>2 DEF MatchesAreSound, IsOffered, PS
<1>. QED
  BY <1>1, <1>2 DEF Next, vars, FillCandidates, EarlyExit, NextPlaceholder,
                    StartSearch, Reject, Branch, Try, Exhausted, Resume, Finish

\* The inductive invariant holds in every reachable state.
THEOREM Invariance == Spec => [](problem \in Problems /\ IInv)
<1>1. Init => problem \in Problems /\ IInv
  BY InitIInv
<1>2. (problem \in Problems /\ IInv) /\ [Next]_vars => (problem \in Problems /\ IInv)'
  BY TypeStep, StackStep, OfferedStep, SoundStep DEF IInv
<1>. QED  BY <1>1, <1>2, PTL DEF Spec

\* Every variable of match keeps its type; in particular the recursion never
\* goes deeper than the pattern has placeholders.
THEOREM TypeCorrectness == Spec => []TypeOK
BY Invariance, PTL DEF IInv

\* The combination a call works on is the one its callers' loops selected, and
\* no loop index runs past its candidate list.
THEOREM StackCorrectness == Spec => []StackMatchesCombination
BY Invariance, PTL DEF IInv

\* Whatever the union map, the pattern and the candidate function, every match
\* returned is made of candidates of the union map and satisfies the
\* constraints documented at PlaceholderSet::isSuitableCombination.
THEOREM Soundness == Spec => []MatchesAreSound
BY Invariance, PTL DEF IInv

\* Lookups in sound matches succeed.
LEMMA LookupsAreSafe == problem \in Problems /\ IInv => LookupsSucceed
<1>. SUFFICES ASSUME problem \in Problems, IInv,
                     NEW m \in DOMAIN suitableCandidates, NEW i \in 1..Size
              PROVE  LookupSucceeds(suitableCandidates[m], PS.placeholders[i].id)
  BY DEF LookupsSucceed
<1>. DEFINE match == suitableCandidates[m]
            c == CombinationOf(match)
<1>1. /\ IsValidCombination(problem, c)
      /\ \A j \in DOMAIN match : match[j].id = PS.placeholders[j].id
  BY DEF IInv, MatchesAreSound
<1>2. DOMAIN c = DOMAIN match /\ \A j \in DOMAIN match : c[j] = match[j].candidate
  BY DEF CombinationOf
<1>. HIDE DEF match, c
<1>3. DOMAIN match = 1..Size
  BY <1>1, <1>2, ProblemFacts DEF IsValidCombination, PS
<1>4. i \in EntriesFor(match, PS.placeholders[i].id)
  BY <1>1, <1>3 DEF EntriesFor
<1>5. ASSUME NEW j \in DOMAIN match, NEW k \in DOMAIN match,
             match[j].id = match[k].id
      PROVE  match[j].candidate.payload = match[k].candidate.payload
  BY <1>1, <1>2, <1>5 DEF IsValidCombination, PS
<1>. QED  BY <1>4, <1>5 DEF LookupSucceeds, EntriesFor, match

\* operator[] of a returned match terminates the program for no placeholder of
\* the pattern: all positions of one placeholder carry the same payload.
THEOREM LookupSafety == Spec => []LookupsSucceed
BY LookupsAreSafe, Invariance, PTL

-----------------------------------------------------------------------------
(* Lists and positions *)

LEMMA ProblemLayout ==
  ASSUME problem \in Problems
  PROVE  /\ UsedLists = NonEmpty(problem.lists)
         /\ \A l \in UsedLists :
              /\ PositionsOf(problem.lists, l) # {}
              /\ PositionsOf(problem.lists, l) \subseteq 1..Size
              /\ \A k \in DOMAIN problem.lists[l] :
                   /\ Offset(problem.lists, l) + k \in PositionsOf(problem.lists, l)
                   /\ PS.placeholders[Offset(problem.lists, l) + k] = problem.lists[l][k]
              /\ \A i \in PositionsOf(problem.lists, l) :
                   \E k \in DOMAIN problem.lists[l] : i = Offset(problem.lists, l) + k
         /\ \A i \in 1..Size : \E l \in UsedLists : i \in PositionsOf(problem.lists, l)
         /\ \A l, m \in UsedLists :
              l # m => PositionsOf(problem.lists, l) \cap PositionsOf(problem.lists, m) = {}
         /\ \A i, j \in 1..Size :
              InOneGroup(PS, i, j)
                <=> \E l \in UsedLists : {i, j} \subseteq PositionsOf(problem.lists, l)
         /\ problem.arrays # << >> =>
              /\ UsedLists = DOMAIN PS.groups
              /\ \A l \in UsedLists : PS.groups[l] = PositionsOf(problem.lists, l)
<1>. DEFINE lists == problem.lists
            X == Placeholder(IdsIn(problem.ps))
            ps == AllOf(lists)
<1>1. IsProblem(problem)
  BY ProblemsAssumption
<1>2. lists \in Seq(Seq(X)) /\ UsedLists = NonEmpty(lists)
  BY <1>1 DEF IsProblem, UsedLists, NonEmpty
<1>3. /\ PS.placeholders = ps.placeholders /\ PS.groups = ps.groups
  BY <1>1 DEF IsProblem, PS, PlaceholderSetFor, AllOfArrays, AllOf
<1>. HIDE DEF ps, X, lists
<1>4. /\ ps.placeholders \in Seq(X)
      /\ \A l \in NonEmpty(lists) :
           /\ PositionsOf(lists, l) # {}
           /\ PositionsOf(lists, l) \subseteq DOMAIN ps.placeholders
           /\ \A k \in 1..Len(lists[l]) :
                /\ Offset(lists, l) + k \in PositionsOf(lists, l)
                /\ ps.placeholders[Offset(lists, l) + k] = lists[l][k]
           /\ \A i \in PositionsOf(lists, l) :
                \E k \in 1..Len(lists[l]) : i = Offset(lists, l) + k
           /\ GroupOf(lists, l) \in DOMAIN ps.groups
           /\ ps.groups[GroupOf(lists, l)] = PositionsOf(lists, l)
      /\ \A i \in DOMAIN ps.placeholders :
           \E l \in NonEmpty(lists) : i \in PositionsOf(lists, l)
      /\ \A l, m \in NonEmpty(lists) :
           l # m => PositionsOf(lists, l) \cap PositionsOf(lists, m) = {}
      /\ \A g \in DOMAIN ps.groups : \E l \in NonEmpty(lists) : g = GroupOf(lists, l)
  BY <1>2, AllOfLayout, SMTT(30) DEF ps
<1>5. DOMAIN ps.placeholders = 1..Size
  BY <1>3, ProblemFacts
<1>6. \A l \in NonEmpty(lists) : DOMAIN lists[l] = 1..Len(lists[l])
  <2>1. \A l \in DOMAIN lists : lists[l] \in Seq(X)
    BY <1>2
  <2>. QED  BY <2>1 DEF NonEmpty
<1>7. \A i, j \in 1..Size :
        InOneGroup(PS, i, j)
          <=> \E l \in NonEmpty(lists) : {i, j} \subseteq PositionsOf(lists, l)
  BY <1>3, <1>4 DEF InOneGroup
<1>8. ASSUME problem.arrays # << >>
      PROVE  /\ NonEmpty(lists) = DOMAIN PS.groups
             /\ \A l \in NonEmpty(lists) : PS.groups[l] = PositionsOf(lists, l)
  <2>1. DOMAIN PS.groups = DOMAIN lists
    BY <1>1, <1>8 DEF IsProblem, PS, lists
  <2>2. DOMAIN ps.groups = DOMAIN NonEmptyLists(lists)
    BY DEF ps, AllOf
  <2>3. /\ NonEmpty(lists) = DOMAIN lists
        /\ \A l \in DOMAIN lists : GroupOf(lists, l) = l
    BY <1>2, <1>3, <2>1, <2>2, NoneIsSkipped
  <2>4. \A l \in NonEmpty(lists) : ps.groups[GroupOf(lists, l)] = PositionsOf(lists, l)
    BY <1>4
  <2>5. \A l \in NonEmpty(lists) : GroupOf(lists, l) = l
    BY <2>3
  <2>6. \A l \in NonEmpty(lists) : PS.groups[l] = PositionsOf(lists, l)
    BY <1>3, <2>4, <2>5
  <2>. QED  BY <2>1, <2>3, <2>6
<1>9. \A l \in NonEmpty(lists) :
        /\ PositionsOf(lists, l) # {}
        /\ PositionsOf(lists, l) \subseteq 1..Size
        /\ \A k \in DOMAIN lists[l] :
             /\ Offset(lists, l) + k \in PositionsOf(lists, l)
             /\ PS.placeholders[Offset(lists, l) + k] = lists[l][k]
        /\ \A i \in PositionsOf(lists, l) :
             \E k \in DOMAIN lists[l] : i = Offset(lists, l) + k
  <2>. SUFFICES ASSUME NEW l \in NonEmpty(lists)
                PROVE  /\ PositionsOf(lists, l) # {}
                       /\ PositionsOf(lists, l) \subseteq 1..Size
                       /\ \A k \in DOMAIN lists[l] :
                            /\ Offset(lists, l) + k \in PositionsOf(lists, l)
                            /\ PS.placeholders[Offset(lists, l) + k] = lists[l][k]
                       /\ \A i \in PositionsOf(lists, l) :
                            \E k \in DOMAIN lists[l] : i = Offset(lists, l) + k
    OBVIOUS
  <2>1. DOMAIN lists[l] = 1..Len(lists[l])
    BY <1>6
  <2>2. PositionsOf(lists, l) # {} /\ PositionsOf(lists, l) \subseteq 1..Size
    BY <1>4, <1>5
  <2>3. \A k \in 1..Len(lists[l]) :
          /\ Offset(lists, l) + k \in PositionsOf(lists, l)
          /\ PS.placeholders[Offset(lists, l) + k] = lists[l][k]
    BY <1>3, <1>4
  <2>4. \A i \in PositionsOf(lists, l) :
          \E k \in 1..Len(lists[l]) : i = Offset(lists, l) + k
    BY <1>4
  <2>. QED  BY <2>1, <2>2, <2>3, <2>4
<1>10. /\ \A i \in 1..Size : \E l \in NonEmpty(lists) : i \in PositionsOf(lists, l)
       /\ \A l, m \in NonEmpty(lists) :
            l # m => PositionsOf(lists, l) \cap PositionsOf(lists, m) = {}
  BY <1>4, <1>5
<1>11. UsedLists = NonEmpty(lists)
  BY <1>2
<1>. QED  BY <1>7, <1>8, <1>9, <1>10, <1>11 DEF lists

\* The list that a position belongs to.
ListAt(i) == CHOOSE l \in UsedLists : i \in PositionsOf(problem.lists, l)

LEMMA ListAtProperties ==
  ASSUME problem \in Problems
  PROVE  /\ \A i \in 1..Size : /\ ListAt(i) \in UsedLists
                               /\ i \in PositionsOf(problem.lists, ListAt(i))
         /\ \A l \in UsedLists : \A i \in PositionsOf(problem.lists, l) :
              i \in 1..Size /\ ListAt(i) = l
         /\ \A i, j \in 1..Size : InOneGroup(PS, i, j) <=> ListAt(i) = ListAt(j)
<1>1. \A i \in 1..Size : /\ ListAt(i) \in UsedLists
                         /\ i \in PositionsOf(problem.lists, ListAt(i))
  BY ProblemLayout DEF ListAt
<1>2. \A l \in UsedLists : \A i \in PositionsOf(problem.lists, l) :
        i \in 1..Size /\ ListAt(i) = l
  <2>1. \A l \in UsedLists : PositionsOf(problem.lists, l) \subseteq 1..Size
    BY ProblemLayout
  <2>2. \A l, m \in UsedLists :
          l # m => PositionsOf(problem.lists, l) \cap PositionsOf(problem.lists, m) = {}
    BY ProblemLayout
  <2>. QED  BY <1>1, <2>1, <2>2
<1>3. \A i, j \in 1..Size :
        InOneGroup(PS, i, j)
          <=> \E l \in UsedLists : {i, j} \subseteq PositionsOf(problem.lists, l)
  BY ProblemLayout
<1>. QED  BY <1>1, <1>2, <1>3

IdAt(i) == PS.placeholders[i].id

\* The placeholder at a position is one of the list that the position belongs to.
LEMMA PlaceholderAt ==
  ASSUME problem \in Problems
  PROVE  /\ \A i \in 1..Size : \E k \in DOMAIN problem.lists[ListAt(i)] :
              PS.placeholders[i] = problem.lists[ListAt(i)][k]
         /\ \A l \in UsedLists : \A k \in DOMAIN problem.lists[l] :
              \E i \in 1..Size : /\ ListAt(i) = l
                                 /\ PS.placeholders[i] = problem.lists[l][k]
         /\ Abstract!UsedLists(problem) = UsedLists
         /\ Abstract!IdsIn(problem) = {IdAt(i) : i \in 1..Size}
<1>1. \A l \in UsedLists :
        /\ \A k \in DOMAIN problem.lists[l] :
             /\ Offset(problem.lists, l) + k \in PositionsOf(problem.lists, l)
             /\ PS.placeholders[Offset(problem.lists, l) + k] = problem.lists[l][k]
        /\ \A i \in PositionsOf(problem.lists, l) :
             \E k \in DOMAIN problem.lists[l] : i = Offset(problem.lists, l) + k
  BY ProblemLayout
<1>2. \A i \in 1..Size : \E k \in DOMAIN problem.lists[ListAt(i)] :
        PS.placeholders[i] = problem.lists[ListAt(i)][k]
  BY <1>1, ListAtProperties
<1>3. \A l \in UsedLists : \A k \in DOMAIN problem.lists[l] :
        \E i \in 1..Size : ListAt(i) = l /\ PS.placeholders[i] = problem.lists[l][k]
  BY <1>1, ListAtProperties
<1>4. Abstract!UsedLists(problem) = UsedLists
  BY DEF Abstract!UsedLists, UsedLists
<1>5. Abstract!IdsIn(problem)
        = UNION {{problem.lists[l][k].id : k \in DOMAIN problem.lists[l]} : l \in UsedLists}
  BY <1>4 DEF Abstract!IdsIn
<1>6. \A i \in 1..Size : ListAt(i) \in UsedLists
  BY ListAtProperties
<1>7. Abstract!IdsIn(problem) = {IdAt(i) : i \in 1..Size}
  BY <1>2, <1>3, <1>5, <1>6 DEF IdAt
<1>. QED  BY <1>2, <1>3, <1>4, <1>7

-----------------------------------------------------------------------------
(* Assignments and full combinations *)

\* The candidates that an assignment selects.
CombinationFor(a) ==
  [i \in 1..Size |-> [payload |-> a.value[IdAt(i)], space |-> a.place[ListAt(i)]]]

\* What makes a pair of functions an assignment, position by position.
LEMMA AssignmentProperties ==
  ASSUME problem \in Problems, NEW a \in Abstract!Assignments(problem)
  PROVE  /\ a = [place |-> a.place, value |-> a.value]
         /\ a.place \in [UsedLists -> DOMAIN problem.umap]
         /\ a.value \in [{IdAt(i) : i \in 1..Size} -> Payload]
         /\ \A l, m \in UsedLists : a.place[l] = a.place[m] => l = m
         /\ \A i, j \in 1..Size : a.value[IdAt(i)] = a.value[IdAt(j)] => IdAt(i) = IdAt(j)
         /\ problem.arrays # << >> => \A l, m \in UsedLists :
              problem.arrays[l] = problem.arrays[m]
                <=> ArrayOf[a.place[l]] = ArrayOf[a.place[m]]
         /\ \A i \in 1..Size : IsOffered(CombinationFor(a)[i], PS.placeholders[i])
<1>. DEFINE Places == {f \in [UsedLists -> DOMAIN problem.umap] :
                         Abstract!OneToOne(f) /\ Abstract!ArraysAgree(problem, f)}
            Values == {f \in [{IdAt(i) : i \in 1..Size} -> Payload] : Abstract!OneToOne(f)}
<1>1. /\ a \in [place : Places, value : Values]
      /\ \A l \in UsedLists : \A k \in DOMAIN problem.lists[l] :
           Abstract!Offers(problem, a, l, k)
  BY PlaceholderAt DEF Abstract!Assignments
<1>2. a = [place |-> a.place, value |-> a.value] /\ a.place \in Places /\ a.value \in Values
  BY <1>1
<1>3. /\ a.place \in [UsedLists -> DOMAIN problem.umap] /\ Abstract!OneToOne(a.place)
      /\ Abstract!ArraysAgree(problem, a.place)
  BY <1>2
<1>4. /\ a.value \in [{IdAt(i) : i \in 1..Size} -> Payload] /\ Abstract!OneToOne(a.value)
  BY <1>2
<1>5. \A l, m \in UsedLists : a.place[l] = a.place[m] => l = m
  BY <1>3 DEF Abstract!OneToOne
<1>6. \A i, j \in 1..Size : a.value[IdAt(i)] = a.value[IdAt(j)] => IdAt(i) = IdAt(j)
  BY <1>4 DEF Abstract!OneToOne
<1>7. problem.arrays # << >> => \A l, m \in UsedLists :
        problem.arrays[l] = problem.arrays[m]
          <=> ArrayOf[a.place[l]] = ArrayOf[a.place[m]]
  BY <1>3 DEF Abstract!ArraysAgree
<1>8. ASSUME NEW i \in 1..Size PROVE IsOffered(CombinationFor(a)[i], PS.placeholders[i])
  <2>. DEFINE l == ListAt(i)
  <2>1. l \in UsedLists
    BY ListAtProperties
  <2>2. PICK k \in DOMAIN problem.lists[l] : PS.placeholders[i] = problem.lists[l][k]
    BY PlaceholderAt
  <2>3. Abstract!Offers(problem, a, l, k)
    BY <1>1, <2>1
  <2>4. a.place[l] \in DOMAIN problem.umap
    BY <1>3, <2>1
  <2>5. CombinationFor(a)[i] = [payload |-> a.value[IdAt(i)], space |-> a.place[l]]
    BY DEF CombinationFor
  <2>. HIDE DEF l
  <2>6. PICK c \in DOMAIN Candidates(problem.umap[a.place[l]], PS.placeholders[i].pattern) :
          Candidates(problem.umap[a.place[l]], PS.placeholders[i].pattern)[c]
            = a.value[IdAt(i)]
    BY <2>2, <2>3, Zenon DEF Abstract!Offers, IdAt
  <2>7. /\ CombinationFor(a)[i].space = a.place[l]
        /\ CombinationFor(a)[i].payload = a.value[IdAt(i)]
    BY <2>5
  <2>. QED  BY <2>4, <2>6, <2>7, Zenon DEF IsOffered
<1>. QED  BY <1>2, <1>3, <1>4, <1>5, <1>6, <1>7, <1>8

\* An assignment selects a full combination that satisfies the constraints.
LEMMA AssignmentIsValid ==
  ASSUME problem \in Problems, NEW a \in Abstract!Assignments(problem)
  PROVE  /\ CombinationFor(a) \in Seq(Candidate)
         /\ Len(CombinationFor(a)) = Size
         /\ IsValidCombination(problem, CombinationFor(a))
<1>. DEFINE c == CombinationFor(a)
<1>1. /\ a.place \in [UsedLists -> DOMAIN problem.umap]
      /\ a.value \in [{IdAt(i) : i \in 1..Size} -> Payload]
      /\ \A l, m \in UsedLists : a.place[l] = a.place[m] => l = m
      /\ \A i, j \in 1..Size : a.value[IdAt(i)] = a.value[IdAt(j)] => IdAt(i) = IdAt(j)
      /\ problem.arrays # << >> => \A l, m \in UsedLists :
           problem.arrays[l] = problem.arrays[m]
             <=> ArrayOf[a.place[l]] = ArrayOf[a.place[m]]
  BY AssignmentProperties
<1>2. Size \in Nat /\ DOMAIN PS.placeholders = 1..Size
  BY ProblemFacts
<1>3. DOMAIN problem.umap \subseteq Space
  BY ProblemsAssumption DEF IsProblem
<1>4. \A i \in 1..Size : ListAt(i) \in UsedLists
  BY ListAtProperties
<1>5. /\ DOMAIN c = 1..Size
      /\ \A i \in 1..Size : /\ c[i].payload = a.value[IdAt(i)]
                            /\ c[i].space = a.place[ListAt(i)]
                            /\ c[i] \in Candidate
  BY <1>1, <1>3, <1>4 DEF CombinationFor, Candidate
<1>6. c \in Seq(Candidate) /\ Len(c) = Size
  <2>1. c = [i \in 1..Size |-> c[i]]
    BY <1>5 DEF CombinationFor
  <2>. HIDE DEF c
  <2>. QED  BY <1>2, <1>5, <2>1
<1>. HIDE DEF c
<1>7. \A i, j \in 1..Size : IdAt(i) = IdAt(j) <=> c[i].payload = c[j].payload
  BY <1>1, <1>5
<1>8. \A i, j \in 1..Size : InOneGroup(PS, i, j) <=> c[i].space = c[j].space
  BY <1>1, <1>4, <1>5, ListAtProperties
<1>9. ASSUME problem.arrays # << >>,
             NEW g \in DOMAIN PS.groups, NEW h \in DOMAIN PS.groups,
             NEW i \in PS.groups[g], NEW j \in PS.groups[h]
      PROVE  problem.arrays[g] = problem.arrays[h]
               <=> ArrayOf[c[i].space] = ArrayOf[c[j].space]
  <2>1. /\ g \in UsedLists /\ i \in PositionsOf(problem.lists, g)
        /\ h \in UsedLists /\ j \in PositionsOf(problem.lists, h)
    BY <1>9, ProblemLayout
  <2>2. i \in 1..Size /\ ListAt(i) = g /\ j \in 1..Size /\ ListAt(j) = h
    BY <2>1, ListAtProperties
  <2>. QED  BY <1>1, <1>5, <1>9, <2>1, <2>2
<1>10. IsValidCombination(problem, c)
  BY <1>2, <1>5, <1>7, <1>8, <1>9 DEF IsValidCombination, PS, IdAt
<1>. QED  BY <1>6, <1>10 DEF c

\* A partial combination that an assignment extends is a prefix of the full one.
LEMMA ExtendsIsPrefix ==
  ASSUME problem \in Problems, NEW a \in Abstract!Assignments(problem),
         NEW c \in Seq(Candidate), Len(c) <= Size, Extends(c, a)
  PROVE  c = SubSeq(CombinationFor(a), 1, Len(c))
<1>. DEFINE d == CombinationFor(a)
<1>1. d \in Seq(Candidate) /\ Len(d) = Size /\ Size \in Nat
  BY AssignmentIsValid, ProblemFacts
<1>2. DOMAIN a.place = UsedLists
  BY AssignmentProperties
<1>3. ASSUME NEW i \in 1..Len(c) PROVE c[i] = d[i]
  <2>1. i \in DOMAIN c /\ i \in 1..Size /\ c[i] \in Candidate
    BY <1>1
  <2>2. ListAt(i) \in UsedLists /\ i \in PositionsOf(problem.lists, ListAt(i))
    BY <2>1, ListAtProperties
  <2>3. c[i].payload = a.value[IdAt(i)] /\ c[i].space = a.place[ListAt(i)]
    BY <1>2, <2>1, <2>2 DEF Extends, IdAt
  <2>4. c[i] = [payload |-> c[i].payload, space |-> c[i].space]
    BY <2>1 DEF Candidate
  <2>. QED  BY <2>1, <2>3, <2>4 DEF CombinationFor
<1>. HIDE DEF d
<1>4. Len(c) \in Nat /\ Len(c) <= Len(d)
  BY <1>1
<1>5. SubSeq(d, 1, Len(c)) \in Seq(Candidate) /\ Len(SubSeq(d, 1, Len(c))) = Len(c)
      /\ \A i \in 1..Len(c) : SubSeq(d, 1, Len(c))[i] = d[i]
  BY <1>1, <1>4
<1>6. \A i \in 1..Len(c) : SubSeq(d, 1, Len(c))[i] = c[i]
  BY <1>3, <1>5
<1>7. c = SubSeq(d, 1, Len(c))
  BY <1>5, <1>6, SeqEqual
<1>. QED  BY <1>7 DEF d

\* A combination that is cut off is the prefix of no assignment.
LEMMA CutsAreSafe ==
  ASSUME problem \in Problems, TypeOK
  PROVE  CutsLoseNothing
<1>. SUFFICES ASSUME NEW a \in Abstract!Assignments(problem), Extends(partialCombination, a)
              PROVE  Suitable
  BY DEF CutsLoseNothing
<1>. DEFINE d == CombinationFor(a)
            n == Len(partialCombination)
<1>1. partialCombination \in Seq(Candidate) /\ n <= Size /\ n \in Nat
  BY DEF TypeOK
<1>2. d \in Seq(Candidate) /\ Len(d) = Size /\ IsValidCombination(problem, d)
  BY AssignmentIsValid
<1>3. IsSuitableCombination(PS, d)
  BY <1>2, SuitableIffValid DEF PS, Size
<1>4. partialCombination = SubSeq(d, 1, n)
  BY <1>1, ExtendsIsPrefix
<1>5. n \in 0..Len(d)
  BY <1>1, <1>2, ProblemFacts
<1>. HIDE DEF d, n
<1>6. IsSuitableCombination(PS, SubSeq(d, 1, n))
  BY <1>2, <1>3, <1>5, PrefixOfSuitable DEF PS
<1>. QED  BY <1>4, <1>6 DEF Suitable

\* Branch and cut loses nothing: whatever the search abandons is the beginning of
\* no assignment, for placeholder sets of any size, with groups and arrays.
THEOREM CutsAreCorrect == Spec => []CutsLoseNothing
<1>1. problem \in Problems /\ IInv => CutsLoseNothing
  BY CutsAreSafe DEF IInv
<1>. QED  BY <1>1, Invariance, PTL

\* Two assignments that select the same candidates are the same.
LEMMA CombinationForInjective ==
  ASSUME problem \in Problems, NEW a \in Abstract!Assignments(problem),
         NEW b \in Abstract!Assignments(problem), CombinationFor(a) = CombinationFor(b)
  PROVE  a = b
<1>1. /\ a = [place |-> a.place, value |-> a.value]
      /\ a.place \in [UsedLists -> DOMAIN problem.umap]
      /\ a.value \in [{IdAt(i) : i \in 1..Size} -> Payload]
      /\ b = [place |-> b.place, value |-> b.value]
      /\ b.place \in [UsedLists -> DOMAIN problem.umap]
      /\ b.value \in [{IdAt(i) : i \in 1..Size} -> Payload]
  BY AssignmentProperties
<1>2. ASSUME NEW i \in 1..Size
      PROVE  a.place[ListAt(i)] = b.place[ListAt(i)] /\ a.value[IdAt(i)] = b.value[IdAt(i)]
  <2>1. CombinationFor(a)[i] = CombinationFor(b)[i]
    OBVIOUS
  <2>. QED  BY <2>1 DEF CombinationFor
<1>3. ASSUME NEW l \in UsedLists PROVE a.place[l] = b.place[l]
  <2>1. PICK i \in PositionsOf(problem.lists, l) : TRUE
    BY ProblemLayout
  <2>2. i \in 1..Size /\ ListAt(i) = l
    BY ListAtProperties
  <2>. QED  BY <1>2, <2>2
<1>4. a.place = b.place
  BY <1>1, <1>3
<1>5. a.value = b.value
  BY <1>1, <1>2
<1>. QED  BY <1>1, <1>4, <1>5

\* A match with sound candidates, position by position.
LEMMA MatchProperties ==
  ASSUME problem \in Problems, TypeOK, MatchesAreSound, NEW m \in DOMAIN suitableCandidates
  PROVE  LET match == suitableCandidates[m]
             c == CombinationOf(match)
         IN  /\ DOMAIN match = 1..Size /\ DOMAIN c = 1..Size
             /\ IsValidCombination(problem, c)
             /\ c \in Seq(Candidate)
             /\ \A i \in 1..Size : /\ match[i].id = IdAt(i) /\ match[i].candidate = c[i]
                                   /\ IsOffered(c[i], PS.placeholders[i])
<1>. DEFINE match == suitableCandidates[m]
            c == CombinationOf(match)
            Entries == [id : IdsIn(PS), candidate : Candidate]
<1>1. match \in Seq(Entries)
  BY DEF TypeOK
<1>2. /\ IsValidCombination(problem, c)
      /\ \A i \in DOMAIN match : /\ match[i].id = PS.placeholders[i].id
                                 /\ IsOffered(match[i].candidate, PS.placeholders[i])
  BY DEF MatchesAreSound
<1>3. c = [i \in DOMAIN match |-> match[i].candidate]
  BY DEF CombinationOf
<1>. HIDE DEF match, c, Entries
<1>4. DOMAIN c = 1..Size /\ DOMAIN match = 1..Size
  BY <1>2, <1>3, ProblemFacts DEF IsValidCombination, PS
<1>5. \A i \in 1..Size : match[i] \in Entries
  <2>1. \A i \in DOMAIN match : match[i] \in Entries
    BY <1>1
  <2>. QED  BY <1>4, <2>1
<1>6. \A i \in 1..Size : c[i] = match[i].candidate /\ c[i] \in Candidate
  BY <1>3, <1>4, <1>5 DEF Entries
<1>7. c \in Seq(Candidate)
  <2>1. c = [i \in 1..Size |-> c[i]]
    BY <1>3, <1>4
  <2>. QED  BY <1>6, <2>1, ProblemFacts
<1>. QED  BY <1>2, <1>4, <1>6, <1>7 DEF match, c, IdAt

\* What AssignmentOf reads off a match, position by position.
LEMMA AssignmentOfMatch ==
  ASSUME problem \in Problems, TypeOK, MatchesAreSound, NEW m \in DOMAIN suitableCandidates
  PROVE  LET a == AssignmentOf(suitableCandidates[m])
             c == CombinationOf(suitableCandidates[m])
         IN  /\ a = [place |-> a.place, value |-> a.value]
             /\ a.place = [l \in UsedLists |-> a.place[l]]
             /\ a.value = [id \in {IdAt(i) : i \in 1..Size} |-> a.value[id]]
             /\ \A i \in 1..Size : /\ a.place[ListAt(i)] = c[i].space
                                   /\ a.value[IdAt(i)] = c[i].payload
<1>. DEFINE match == suitableCandidates[m]
            a == AssignmentOf(match)
            c == CombinationOf(match)
            First(l) == CHOOSE i \in PositionsOf(problem.lists, l) : TRUE
<1>1. /\ DOMAIN match = 1..Size /\ DOMAIN c = 1..Size
      /\ IsValidCombination(problem, c)
      /\ \A i \in 1..Size : match[i].id = IdAt(i) /\ match[i].candidate = c[i]
  BY MatchProperties
<1>2. a = [place |-> [l \in UsedLists |-> match[First(l)].candidate.space],
           value |-> [id \in {match[i].id : i \in DOMAIN match} |-> LookupPayload(match, id)]]
  BY DEF AssignmentOf
<1>. HIDE DEF match, a, c
<1>3. /\ a = [place |-> a.place, value |-> a.value]
      /\ a.place = [l \in UsedLists |-> match[First(l)].candidate.space]
      /\ a.value = [id \in {match[i].id : i \in DOMAIN match} |-> LookupPayload(match, id)]
  BY <1>2
<1>4. {match[i].id : i \in DOMAIN match} = {IdAt(i) : i \in 1..Size}
  BY <1>1
<1>5. ASSUME NEW i \in 1..Size PROVE a.place[ListAt(i)] = c[i].space
  <2>. DEFINE j == First(ListAt(i))
  <2>1. ListAt(i) \in UsedLists
    BY ListAtProperties
  <2>2. j \in PositionsOf(problem.lists, ListAt(i))
    BY <2>1, ProblemLayout
  <2>3. j \in 1..Size /\ ListAt(j) = ListAt(i)
    BY <2>1, <2>2, ListAtProperties
  <2>4. a.place[ListAt(i)] = match[j].candidate.space
    BY <1>3, <2>1
  <2>. HIDE DEF j
  <2>5. InOneGroup(PS, i, j)
    BY <2>3, ListAtProperties
  <2>6. c[i].space = c[j].space
    BY <1>1, <2>3, <2>5 DEF IsValidCombination, PS
  <2>. QED  BY <1>1, <2>3, <2>4, <2>6
<1>6. ASSUME NEW i \in 1..Size PROVE a.value[IdAt(i)] = c[i].payload
  <2>. DEFINE E == EntriesFor(match, IdAt(i))
              j == CHOOSE k \in E : TRUE
  <2>1. i \in E /\ E \subseteq 1..Size /\ \A k \in E : match[k].id = IdAt(i)
    BY <1>1 DEF EntriesFor
  <2>2. j \in E
    BY <2>1
  <2>3. LookupPayload(match, IdAt(i)) = match[j].candidate.payload
    BY DEF LookupPayload
  <2>. HIDE DEF j, E
  <2>4. j \in 1..Size /\ IdAt(j) = IdAt(i)
    <3>1. j \in 1..Size /\ match[j].id = IdAt(i)
      BY <2>1, <2>2
    <3>. QED  BY <1>1, <3>1
  <2>5. c[i].payload = c[j].payload
    BY <1>1, <2>4 DEF IsValidCombination, IdAt, PS
  <2>. QED  BY <1>1, <1>3, <1>4, <2>3, <2>4, <2>5
<1>7. a.place = [l \in UsedLists |-> a.place[l]]
  BY <1>3
<1>8. a.value = [id \in {IdAt(i) : i \in 1..Size} |-> a.value[id]]
  BY <1>3, <1>4
<1>. QED  BY <1>3, <1>5, <1>6, <1>7, <1>8 DEF match, a, c

\* A match that was returned stands for an assignment, which selects its candidates.
LEMMA MatchIsAssignment ==
  ASSUME problem \in Problems, TypeOK, MatchesAreSound, NEW m \in DOMAIN suitableCandidates
  PROVE  /\ AssignmentOf(suitableCandidates[m]) \in Abstract!Assignments(problem)
         /\ CombinationFor(AssignmentOf(suitableCandidates[m]))
              = CombinationOf(suitableCandidates[m])
<1>. DEFINE a == AssignmentOf(suitableCandidates[m])
            c == CombinationOf(suitableCandidates[m])
<1>1. /\ a = [place |-> a.place, value |-> a.value]
      /\ a.place = [l \in UsedLists |-> a.place[l]]
      /\ a.value = [id \in {IdAt(i) : i \in 1..Size} |-> a.value[id]]
      /\ \A i \in 1..Size : /\ a.place[ListAt(i)] = c[i].space
                            /\ a.value[IdAt(i)] = c[i].payload
  BY AssignmentOfMatch
<1>2. /\ DOMAIN c = 1..Size
      /\ IsValidCombination(problem, c)
      /\ c \in Seq(Candidate)
      /\ \A i \in 1..Size : IsOffered(c[i], PS.placeholders[i])
  BY MatchProperties
<1>. HIDE DEF a, c
<1>3. \A i \in 1..Size : /\ c[i] \in Candidate
                         /\ c[i].space \in DOMAIN problem.umap /\ c[i].payload \in Payload
  <2>1. \A i \in DOMAIN c : c[i] \in Candidate
    <3>1. c \in Seq(Candidate)
      BY <1>2
    <3>. QED  BY <3>1
  <2>2. \A i \in 1..Size : c[i].payload \in Payload
    BY <1>2, <2>1 DEF Candidate
  <2>3. \A i \in 1..Size : c[i].space \in DOMAIN problem.umap
    BY <1>2 DEF IsOffered
  <2>. QED  BY <1>2, <2>1, <2>2, <2>3
<1>4. ASSUME NEW l \in UsedLists
      PROVE  \E i \in 1..Size : ListAt(i) = l
  BY ProblemLayout, ListAtProperties
<1>5. a.place \in [UsedLists -> DOMAIN problem.umap]
  <2>1. ASSUME NEW l \in UsedLists PROVE a.place[l] \in DOMAIN problem.umap
    <3>1. PICK i \in 1..Size : ListAt(i) = l
      BY <1>4
    <3>. QED  BY <1>1, <1>3, <3>1
  <2>. QED  BY <1>1, <2>1
<1>6. a.value \in [{IdAt(i) : i \in 1..Size} -> Payload]
  <2>1. \A id \in {IdAt(i) : i \in 1..Size} : a.value[id] \in Payload
    BY <1>1, <1>3
  <2>. QED  BY <1>1, <2>1
<1>7. Abstract!OneToOne(a.place)
  <2>1. ASSUME NEW l \in UsedLists, NEW n \in UsedLists, a.place[l] = a.place[n]
        PROVE  l = n
    <3>1. PICK i \in 1..Size : ListAt(i) = l
      BY <1>4
    <3>2. PICK j \in 1..Size : ListAt(j) = n
      BY <1>4
    <3>3. c[i].space = c[j].space
      BY <1>1, <2>1, <3>1, <3>2
    <3>4. InOneGroup(PS, i, j)
      BY <1>2, <3>3 DEF IsValidCombination, PS
    <3>. QED  BY <3>1, <3>2, <3>4, ListAtProperties
  <2>. QED  BY <1>5, <2>1 DEF Abstract!OneToOne
<1>8. Abstract!OneToOne(a.value)
  <2>1. ASSUME NEW i \in 1..Size, NEW j \in 1..Size, a.value[IdAt(i)] = a.value[IdAt(j)]
        PROVE  IdAt(i) = IdAt(j)
    <3>1. c[i].payload = c[j].payload
      BY <1>1, <2>1
    <3>. QED  BY <1>2, <3>1 DEF IsValidCombination, PS, IdAt
  <2>. QED  BY <1>6, <2>1 DEF Abstract!OneToOne
<1>9. Abstract!ArraysAgree(problem, a.place)
  <2>1. ASSUME problem.arrays # << >>, NEW l \in UsedLists, NEW n \in UsedLists
        PROVE  problem.arrays[l] = problem.arrays[n]
                 <=> ArrayOf[a.place[l]] = ArrayOf[a.place[n]]
    <3>1. PICK i \in PositionsOf(problem.lists, l) : i \in 1..Size /\ ListAt(i) = l
      BY ProblemLayout, ListAtProperties
    <3>2. PICK j \in PositionsOf(problem.lists, n) : j \in 1..Size /\ ListAt(j) = n
      BY ProblemLayout, ListAtProperties
    <3>3. /\ l \in DOMAIN PS.groups /\ PS.groups[l] = PositionsOf(problem.lists, l)
          /\ n \in DOMAIN PS.groups /\ PS.groups[n] = PositionsOf(problem.lists, n)
      BY <2>1, ProblemLayout
    <3>4. problem.arrays[l] = problem.arrays[n] <=> ArrayOf[c[i].space] = ArrayOf[c[j].space]
      BY <1>2, <2>1, <3>1, <3>2, <3>3 DEF IsValidCombination, PS
    <3>. QED  BY <1>1, <3>1, <3>2, <3>4
  <2>. QED  BY <1>5, <2>1 DEF Abstract!ArraysAgree
<1>10. ASSUME NEW l \in UsedLists, NEW k \in DOMAIN problem.lists[l]
       PROVE  Abstract!Offers(problem, a, l, k)
  <2>1. PICK i \in 1..Size : ListAt(i) = l /\ PS.placeholders[i] = problem.lists[l][k]
    BY PlaceholderAt
  <2>2. IsOffered(c[i], PS.placeholders[i])
    BY <1>2
  <2>3. c[i].space = a.place[l] /\ c[i].payload = a.value[problem.lists[l][k].id]
    BY <1>1, <2>1 DEF IdAt
  <2>. QED  BY <2>1, <2>2, <2>3 DEF IsOffered, Abstract!Offers
<1>11. a \in Abstract!Assignments(problem)
  <2>. DEFINE Places == {f \in [UsedLists -> DOMAIN problem.umap] :
                           Abstract!OneToOne(f) /\ Abstract!ArraysAgree(problem, f)}
              Values == {f \in [{IdAt(i) : i \in 1..Size} -> Payload] : Abstract!OneToOne(f)}
  <2>1. a.place \in Places /\ a.value \in Values
    BY <1>5, <1>6, <1>7, <1>8, <1>9
  <2>2. a \in [place : Places, value : Values]
    <3>. HIDE DEF Places, Values
    <3>. QED  BY <1>1, <2>1
  <2>. QED  BY <1>10, <2>2, PlaceholderAt DEF Abstract!Assignments
<1>12. CombinationFor(a) = c
  <2>1. \A i \in 1..Size : c[i] = [payload |-> c[i].payload, space |-> c[i].space]
    BY <1>3 DEF Candidate
  <2>2. CombinationFor(a) = [i \in 1..Size |-> c[i]]
    BY <1>1, <2>1 DEF CombinationFor
  <2>3. c = [i \in 1..Size |-> c[i]]
    BY <1>2
  <2>. QED  BY <2>2, <2>3
<1>. QED  BY <1>11, <1>12 DEF a, c

-----------------------------------------------------------------------------
(* Stage 1 finds every candidate *)

FoundAt(i, s) == Candidates(problem.umap[Accesses[s]], PS.placeholders[i].pattern)

\* Relation s was searched for candidates of placeholder i.
Scanned(i, s) == i < ph \/ (i = ph /\ s < acc)

Listed(i, s) ==
  \A k \in DOMAIN FoundAt(i, s) : \E n \in DOMAIN candidates[i] :
    candidates[i][n] = [payload |-> FoundAt(i, s)[k], space |-> Accesses[s]]

\* What was searched is in the lists; the search only begins when all was, and a
\* list that is still empty when its placeholder is done ends the call.
ScannedAreListed ==
  \A i \in 1..Size, s \in 1..Len(Accesses) : Scanned(i, s) => Listed(i, s)

CandidatesAreComplete ==
  /\ ScannedAreListed
  /\ \/ pc = "fill"
     \/ ph = Size + 1
     \/ /\ pc = "done" /\ ph \in 1..Size /\ acc = Len(Accesses) + 1
        /\ candidates[ph] = << >>

LEMMA CompleteInit == problem \in Problems /\ Init => CandidatesAreComplete
BY ProblemFacts DEF Init, CandidatesAreComplete, ScannedAreListed, Scanned

LEMMA CompleteStep ==
  ASSUME problem \in Problems, TypeOK, CandidatesAreComplete, [Next]_vars
  PROVE  CandidatesAreComplete'
<1>1. /\ Size \in Nat /\ Len(Accesses) \in Nat
      /\ ph \in 1..(Size + 1) /\ acc \in 1..(Len(Accesses) + 1)
  BY ProblemFacts DEF TypeOK
<1>0. ASSUME UNCHANGED <<problem, ph, acc, candidates>>
      PROVE  ScannedAreListed' /\ Size' = Size /\ Accesses' = Accesses
  <2>1. /\ Size' = Size /\ Accesses' = Accesses
        /\ \A i, s : (Listed(i, s)' <=> Listed(i, s)) /\ (Scanned(i, s)' <=> Scanned(i, s))
    BY <1>0 DEF Size, PS, Accesses, FoundAt, Listed, Scanned
  <2>. QED  BY <2>1 DEF CandidatesAreComplete, ScannedAreListed
<1>2. CASE FillCandidates
  <2>1. /\ problem' = problem /\ ph' = ph /\ acc' = acc + 1 /\ pc' = pc /\ pc = "fill"
        /\ ph \in 1..Size /\ acc \in 1..Len(Accesses)
        /\ candidates' = [candidates EXCEPT ![ph] = @ \o FoundIn(Accesses[acc])]
        /\ candidates \in [1..Size -> Seq(Candidate)]
    BY <1>1, <1>2 DEF FillCandidates, TypeOK
  <2>2. /\ Size' = Size /\ Accesses' = Accesses
        /\ \A i, s : FoundAt(i, s)' = FoundAt(i, s)
    BY <2>1 DEF Size, PS, Accesses, FoundAt
  <2>. DEFINE old == candidates[ph]
              new == FoundIn(Accesses[acc])
  <2>3. old \in Seq(Candidate) /\ new \in Seq(Candidate)
    BY <2>1, FoundInProperties
  <2>4. new = [k \in DOMAIN FoundAt(ph, acc) |->
                 [payload |-> FoundAt(ph, acc)[k], space |-> Accesses[acc]]]
    BY DEF FoundIn, FoundAt
  <2>5. /\ candidates'[ph] = old \o new
        /\ \A i \in 1..Size : i # ph => candidates'[i] = candidates[i]
    BY <2>1
  <2>. HIDE DEF old, new
  <2>6. /\ \A n \in DOMAIN old : n \in DOMAIN (old \o new) /\ (old \o new)[n] = old[n]
        /\ \A n \in DOMAIN new : /\ Len(old) + n \in DOMAIN (old \o new)
                                 /\ (old \o new)[Len(old) + n] = new[n]
    BY <2>3
  <2>7. ASSUME NEW i \in 1..Size, NEW s \in 1..Len(Accesses), Scanned(i, s)',
               NEW k \in DOMAIN FoundAt(i, s)
        PROVE  \E n \in DOMAIN candidates'[i] :
                 candidates'[i][n] = [payload |-> FoundAt(i, s)[k], space |-> Accesses[s]]
    <3>1. CASE i = ph /\ s = acc
      <4>1. k \in DOMAIN new
            /\ new[k] = [payload |-> FoundAt(i, s)[k], space |-> Accesses[s]]
        BY <2>4, <2>7, <3>1
      <4>2. /\ Len(old) + k \in DOMAIN candidates'[i]
            /\ candidates'[i][Len(old) + k] = new[k]
        BY <2>5, <2>6, <3>1, <4>1
      <4>. QED  BY <4>1, <4>2
    <3>2. CASE ~ (i = ph /\ s = acc)
      <4>1. Scanned(i, s)
        BY <1>1, <2>1, <2>7, <3>2 DEF Scanned
      <4>2. PICK n \in DOMAIN candidates[i] :
              candidates[i][n] = [payload |-> FoundAt(i, s)[k], space |-> Accesses[s]]
        BY <2>7, <4>1 DEF CandidatesAreComplete, ScannedAreListed, Listed
      <4>3. CASE i = ph
        BY <2>5, <2>6, <4>2, <4>3 DEF old
      <4>4. CASE i # ph
        BY <2>5, <4>2, <4>4
      <4>. QED  BY <4>3, <4>4
    <3>. QED  BY <3>1, <3>2
  <2>8. \A i \in 1..Size, s \in 1..Len(Accesses) : Scanned(i, s)' => Listed(i, s)'
    BY <2>2, <2>7 DEF Listed
  <2>. QED  BY <2>1, <2>2, <2>8 DEF CandidatesAreComplete, ScannedAreListed
<1>3. CASE EarlyExit
  <2>1. /\ UNCHANGED <<problem, ph, acc, candidates>>
        /\ pc' = "done" /\ candidates[ph] = << >> /\ ph <= Size /\ acc > Len(Accesses)
    BY <1>3 DEF EarlyExit
  <2>2. ph \in 1..Size /\ acc = Len(Accesses) + 1
    BY <1>1, <2>1
  <2>. QED  BY <1>0, <2>1, <2>2 DEF CandidatesAreComplete
<1>4. CASE NextPlaceholder
  <2>1. /\ problem' = problem /\ ph' = ph + 1 /\ pc' = pc /\ pc = "fill"
        /\ acc' = 1 /\ acc > Len(Accesses) /\ candidates' = candidates
    BY <1>4 DEF NextPlaceholder
  <2>2. /\ Size' = Size /\ Accesses' = Accesses
        /\ \A i, s : Listed(i, s)' <=> Listed(i, s)
    BY <2>1 DEF Size, PS, Accesses, FoundAt, Listed
  <2>3. ASSUME NEW i \in 1..Size, NEW s \in 1..Len(Accesses), Scanned(i, s)'
        PROVE  Scanned(i, s)
    BY <1>1, <2>1, <2>3 DEF Scanned
  <2>. QED  BY <2>1, <2>2, <2>3 DEF CandidatesAreComplete, ScannedAreListed
<1>5. CASE StartSearch
  <2>1. UNCHANGED <<problem, ph, acc, candidates>> /\ ph > Size
    BY <1>5 DEF StartSearch
  <2>. QED  BY <1>0, <1>1, <2>1 DEF CandidatesAreComplete
<1>6. CASE /\ UNCHANGED <<problem, ph, acc, candidates>>
           /\ pc \in {"check", "loop", "return"}
  BY <1>0, <1>6 DEF CandidatesAreComplete
<1>7. CASE UNCHANGED vars
  BY <1>0, <1>7 DEF vars, CandidatesAreComplete
<1>. QED
  BY <1>2, <1>3, <1>4, <1>5, <1>6, <1>7
     DEF Next, Reject, Accept, Branch, Try, Exhausted, Resume, Finish
-----------------------------------------------------------------------------
(* Stage 2 tries every combination *)

\* A combination by the positions of its candidates in their lists.
IndexSequences ==
  {x \in [1..Size -> Nat] : \A i \in 1..Size : x[i] \in DOMAIN candidates[i]}

Chosen(x) == [i \in 1..Size |-> candidates[i][x[i]]]

\* If it is suitable, it is among the matches.
Covered(x) ==
  IsSuitableCombination(PS, Chosen(x)) =>
    \E m \in DOMAIN suitableCandidates :
      CombinationOf(suitableCandidates[m]) = Chosen(x)

\* The call stack as a place in the lexicographic order of index sequences: the
\* ones that come before it, and the ones that begin with it.
Before(x) ==
  \E j \in 1..Depth : (\A k \in 1..(j - 1) : x[k] = frames[k]) /\ x[j] < frames[j]

Below(x) == \A k \in 1..Depth : x[k] = frames[k]

\* The search is through with a combination.
IsTried(x) ==
  \/ pc \in {"check", "loop", "return"} /\ Before(x)
  \/ pc = "return" /\ Below(x)
  \/ pc = "done"

TriedAreCovered == \A x \in IndexSequences : IsTried(x) => Covered(x)

LEMMA ChosenProperties ==
  ASSUME problem \in Problems, TypeOK, NEW x \in IndexSequences
  PROVE  /\ Chosen(x) \in Seq(Candidate) /\ Len(Chosen(x)) = Size
         /\ x \in [1..Size -> Nat]
         /\ \A i \in 1..Size : /\ candidates[i] \in Seq(Candidate)
                               /\ x[i] \in 1..Len(candidates[i])
<1>1. candidates \in [1..Size -> Seq(Candidate)] /\ Size \in Nat
  BY ProblemFacts DEF TypeOK
<1>2. x \in [1..Size -> Nat] /\ \A i \in 1..Size : x[i] \in DOMAIN candidates[i]
  BY DEF IndexSequences
<1>3. \A i \in 1..Size : /\ candidates[i] \in Seq(Candidate)
                         /\ x[i] \in 1..Len(candidates[i])
                         /\ candidates[i][x[i]] \in Candidate
  BY <1>1, <1>2
<1>4. Chosen(x) \in Seq(Candidate) /\ Len(Chosen(x)) = Size
  <2>1. Chosen(x) = [i \in 1..Size |-> candidates[i][x[i]]]
    BY DEF Chosen
  <2>. QED  BY <1>1, <1>3, <2>1
<1>. QED  BY <1>2, <1>3, <1>4

\* The combination under construction is the beginning of those below it.
LEMMA BelowIsPrefix ==
  ASSUME problem \in Problems, TypeOK, StackMatchesCombination, pc = "check",
         NEW x \in IndexSequences, Below(x)
  PROVE  partialCombination = SubSeq(Chosen(x), 1, Len(partialCombination))
<1>. DEFINE d == Chosen(x)
            n == Len(partialCombination)
<1>1. partialCombination \in Seq(Candidate) /\ n \in Nat /\ n <= Size /\ Size \in Nat
  BY ProblemFacts DEF TypeOK
<1>2. d \in Seq(Candidate) /\ Len(d) = Size
  BY ChosenProperties
<1>3. ASSUME NEW i \in 1..n PROVE partialCombination[i] = d[i]
  <2>1. i \in DOMAIN partialCombination /\ i \in 1..Size /\ i \in 1..Depth
    BY <1>1 DEF StackMatchesCombination
  <2>2. partialCombination[i] = candidates[i][frames[i]] /\ x[i] = frames[i]
    BY <2>1 DEF StackMatchesCombination, Below
  <2>. QED  BY <2>1, <2>2 DEF Chosen
<1>. HIDE DEF d
<1>4. /\ SubSeq(d, 1, n) \in Seq(Candidate) /\ Len(SubSeq(d, 1, n)) = n
      /\ \A i \in 1..n : SubSeq(d, 1, n)[i] = d[i]
  BY <1>1, <1>2
<1>. HIDE DEF n
<1>5. partialCombination = SubSeq(d, 1, n)
  BY <1>1, <1>3, <1>4, SeqEqual DEF n
<1>. QED  BY <1>5 DEF d, n

\* What pop_back leaves of the loop indices.
LEMMA FrontProperties ==
  ASSUME NEW s \in Seq(Nat \ {0}), Len(s) # 0
  PROVE  /\ Len(Front(s)) = Len(s) - 1
         /\ \A k \in 1..(Len(s) - 1) : Front(s)[k] = s[k]
<1>1. Len(s) \in Nat \ {0} /\ Front(s) = SubSeq(s, 1, Len(s) - 1)
  BY DEF Front
<1>. DEFINE n == Len(s) - 1
<1>2. n \in Nat /\ \A i \in 1..n : s[i] \in Nat \ {0}
  BY <1>1
<1>3. Front(s) = SubSeq(s, 1, n)
  BY <1>1
<1>. HIDE DEF n
<1>4. /\ Len(SubSeq(s, 1, n)) = n
      /\ \A i \in 1..n : SubSeq(s, 1, n)[i] = s[i]
  BY <1>2, SubSeqProperties
<1>. QED  BY <1>3, <1>4 DEF n

LEMMA CoverInit == problem \in Problems /\ Init => TriedAreCovered
BY DEF Init, TriedAreCovered, IsTried

LEMMA CoverStep ==
  ASSUME problem \in Problems, TypeOK, StackMatchesCombination, TriedAreCovered,
         [Next]_vars
  PROVE  TriedAreCovered'
<1>. SUFFICES ASSUME NEW x \in IndexSequences', IsTried(x)' PROVE Covered(x)'
  BY DEF TriedAreCovered
<1>1. Size \in Nat /\ frames \in Seq(Nat \ {0}) /\ Depth \in Nat
      /\ \A k \in 1..Depth : frames[k] \in Nat \ {0}
  BY ProblemFacts DEF TypeOK, Depth
<1>2. ASSUME UNCHANGED <<problem, candidates>>
      PROVE  /\ x \in IndexSequences /\ Size' = Size /\ Chosen(x)' = Chosen(x)
             /\ \A i \in 1..Size : x[i] \in Nat \ {0} /\ x[i] <= Len(candidates[i])
             /\ suitableCandidates' = suitableCandidates /\ Covered(x) => Covered(x)'
  <2>1. x \in IndexSequences /\ Size' = Size /\ Chosen(x)' = Chosen(x)
    BY <1>2 DEF IndexSequences, Size, PS, Chosen
  <2>2. \A i \in 1..Size : x[i] \in Nat \ {0} /\ x[i] <= Len(candidates[i])
    BY <2>1, ChosenProperties
  <2>3. suitableCandidates' = suitableCandidates /\ Covered(x) => Covered(x)'
    BY <1>2, <2>1 DEF Covered, PS, Chosen
  <2>. QED  BY <2>1, <2>2, <2>3
<1>3. ASSUME UNCHANGED <<problem, candidates, suitableCandidates>>, IsTried(x)
      PROVE  Covered(x)'
  BY <1>2, <1>3 DEF TriedAreCovered
<1>4. CASE FillCandidates \/ NextPlaceholder
  BY <1>4 DEF FillCandidates, NextPlaceholder, IsTried
<1>5. CASE EarlyExit
  <2>1. ph \in 1..Size /\ candidates[ph] = << >> /\ UNCHANGED <<problem, candidates>>
    BY <1>1, <1>5 DEF EarlyExit, TypeOK
  <2>2. x[ph] \in DOMAIN candidates[ph]
    BY <1>2, <2>1 DEF IndexSequences
  <2>. QED  BY <2>1, <2>2
<1>6. CASE StartSearch
  <2>1. frames' = << >> /\ pc' = "check"
    BY <1>6 DEF StartSearch, StackMatchesCombination
  <2>. QED  BY <2>1 DEF IsTried, Before, Depth
<1>7. CASE Reject
  <2>1. /\ UNCHANGED <<problem, candidates, frames, suitableCandidates>>
        /\ pc = "check" /\ pc' = "return" /\ ~ Suitable
    BY <1>7 DEF Reject
  <2>2. (Before(x)' <=> Before(x)) /\ (Below(x)' <=> Below(x))
    BY <2>1 DEF Before, Below, Depth
  <2>3. CASE Before(x)
    BY <1>3, <2>1, <2>3 DEF IsTried
  <2>4. CASE Below(x)
    <3>1. x \in IndexSequences /\ Chosen(x)' = Chosen(x)
      BY <1>2, <2>1
    <3>2. /\ partialCombination = SubSeq(Chosen(x), 1, Len(partialCombination))
          /\ Chosen(x) \in Seq(Candidate) /\ Len(partialCombination) \in 0..Len(Chosen(x))
      BY <1>1, <2>1, <2>4, <3>1, BelowIsPrefix, ChosenProperties, SMTT(30) DEF TypeOK
    <3>3. ~ IsSuitableCombination(PS, Chosen(x))
      BY <2>1, <3>2, PrefixOfSuitable DEF Suitable, PS
    <3>. QED  BY <2>1, <3>1, <3>3 DEF Covered, PS
  <2>. QED  BY <2>1, <2>2, <2>3, <2>4 DEF IsTried
<1>8. CASE Accept
  <2>1. /\ UNCHANGED <<problem, candidates, frames>>
        /\ suitableCandidates' = Append(suitableCandidates, MatchOf(PS, partialCombination))
        /\ pc = "check" /\ pc' = "return" /\ Len(partialCombination) = Size
    BY <1>8 DEF Accept
  <2>2. (Before(x)' <=> Before(x)) /\ (Below(x)' <=> Below(x))
    BY <2>1 DEF Before, Below, Depth
  <2>3. x \in IndexSequences /\ Chosen(x)' = Chosen(x)
    BY <1>2, <2>1
  <2>. DEFINE n == Len(suitableCandidates)
  <2>4. /\ suitableCandidates \in Seq(Seq([id : IdsIn(PS), candidate : Candidate]))
        /\ partialCombination \in Seq(Candidate)
    BY DEF TypeOK
  <2>5. /\ n + 1 \in DOMAIN suitableCandidates'
        /\ suitableCandidates'[n + 1] = MatchOf(PS, partialCombination)
        /\ \A m \in DOMAIN suitableCandidates :
             m \in DOMAIN suitableCandidates' /\ suitableCandidates'[m] = suitableCandidates[m]
    BY <2>1, <2>4
  <2>6. CASE Before(x)
    <3>1. Covered(x)
      BY <2>1, <2>3, <2>6 DEF TriedAreCovered, IsTried
    <3>. QED  BY <2>1, <2>3, <2>5, <3>1 DEF Covered, PS
  <2>7. CASE Below(x)
    <3>1. /\ partialCombination = SubSeq(Chosen(x), 1, Len(partialCombination))
          /\ Chosen(x) \in Seq(Candidate) /\ Len(Chosen(x)) = Size
      BY <2>1, <2>3, <2>7, BelowIsPrefix, ChosenProperties
    <3>2. partialCombination = Chosen(x)
      BY <2>1, <3>1
    <3>3. CombinationOf(suitableCandidates'[n + 1]) = Chosen(x)'
      BY <2>1, <2>3, <2>4, <2>5, <3>2, MatchOfProperties
    <3>. QED  BY <2>5, <3>3 DEF Covered
  <2>. QED  BY <2>1, <2>2, <2>6, <2>7 DEF IsTried
<1>9. CASE Branch
  <2>1. /\ UNCHANGED <<problem, candidates, suitableCandidates>>
        /\ frames' = Append(frames, 1) /\ pc = "check" /\ pc' = "loop"
        /\ Depth \in 0..(Size - 1)
    BY <1>1, <1>9 DEF Branch, TypeOK, StackMatchesCombination
  <2>2. /\ Len(frames') = Depth + 1 /\ frames'[Depth + 1] = 1
        /\ \A k \in 1..Depth : frames'[k] = frames[k]
    BY <1>1, <2>1 DEF Depth
  <2>3. PICK j \in 1..(Depth + 1) :
          (\A k \in 1..(j - 1) : x[k] = frames'[k]) /\ x[j] < frames'[j]
    BY <2>1, <2>2 DEF IsTried, Before, Depth
  <2>4. j \in 1..Depth
    <3>1. Depth + 1 \in 1..Size
      BY <1>1, <2>1
    <3>2. x[Depth + 1] \in Nat \ {0}
      BY <1>2, <2>1, <3>1
    <3>. QED  BY <1>1, <2>2, <2>3, <3>2
  <2>5. Before(x)
    BY <1>1, <2>2, <2>3, <2>4 DEF Before
  <2>. QED  BY <1>3, <2>1, <2>5 DEF IsTried
<1>10. CASE Try
  BY <1>3, <1>10 DEF Try, IsTried, Before, Depth
<1>11. CASE Exhausted
  <2>1. /\ UNCHANGED <<problem, candidates, suitableCandidates>>
        /\ frames' = Front(frames) /\ pc = "loop" /\ pc' = "return"
        /\ Depth \in 1..Size /\ frames[Depth] > Len(candidates[Depth])
    BY <1>1, <1>11 DEF Exhausted, TypeOK, StackMatchesCombination
  <2>2. Len(frames') = Depth - 1 /\ \A k \in 1..(Depth - 1) : frames'[k] = frames[k]
    <3>1. Len(frames) # 0 /\ frames \in Seq(Nat \ {0})
      BY <1>1, <2>1 DEF Depth
    <3>. QED  BY <2>1, <3>1, FrontProperties DEF Depth
  <2>3. Before(x)
    <3>1. CASE Before(x)'
      <4>1. PICK j \in 1..(Depth - 1) :
              (\A k \in 1..(j - 1) : x[k] = frames'[k]) /\ x[j] < frames'[j]
        BY <2>2, <3>1 DEF Before, Depth
      <4>. QED  BY <1>1, <2>2, <4>1 DEF Before
    <3>2. CASE Below(x)'
      <4>1. \A k \in 1..(Depth - 1) : x[k] = frames[k]
        BY <2>2, <3>2 DEF Below, Depth
      <4>2. x[Depth] < frames[Depth]
        <5>1. x[Depth] \in Nat /\ x[Depth] <= Len(candidates[Depth])
          BY <1>2, <2>1
        <5>2. Len(candidates[Depth]) \in Nat /\ frames[Depth] \in Nat
          BY <1>1, <2>1 DEF TypeOK
        <5>. QED  BY <2>1, <5>1, <5>2
      <4>. QED  BY <2>1, <4>1, <4>2 DEF Before
    <3>. QED  BY <2>1, <3>1, <3>2 DEF IsTried
  <2>. QED  BY <1>3, <2>1, <2>3 DEF IsTried
<1>12. CASE Resume
  <2>1. /\ UNCHANGED <<problem, candidates, suitableCandidates>>
        /\ frames' = [frames EXCEPT ![Depth] = @ + 1] /\ pc = "return" /\ pc' = "loop"
        /\ Depth \in 1..Size
    BY <1>1, <1>12 DEF Resume, TypeOK, StackMatchesCombination, Depth
  <2>2. /\ Len(frames') = Depth /\ frames'[Depth] = frames[Depth] + 1
        /\ \A k \in 1..(Depth - 1) : frames'[k] = frames[k]
    BY <1>1, <2>1 DEF Depth
  <2>3. PICK j \in 1..Depth :
          (\A k \in 1..(j - 1) : x[k] = frames'[k]) /\ x[j] < frames'[j]
    BY <2>1, <2>2 DEF IsTried, Before, Depth
  <2>4. \A k \in 1..(j - 1) : x[k] = frames[k]
    BY <1>1, <2>2, <2>3
  <2>5. Before(x) \/ Below(x)
    <3>1. CASE j < Depth
      BY <1>1, <2>2, <2>3, <2>4, <3>1, SMTT(30) DEF Before
    <3>2. CASE j = Depth
      <4>1. x[Depth] < frames[Depth] + 1
        BY <2>2, <2>3, <3>2
      <4>2. x[Depth] \in Nat /\ frames[Depth] \in Nat
        BY <1>1, <1>2, <2>1
      <4>3. CASE x[Depth] < frames[Depth]
        BY <2>3, <2>4, <3>2, <4>3 DEF Before
      <4>4. CASE x[Depth] = frames[Depth]
        BY <1>1, <2>4, <3>2, <4>4 DEF Below
      <4>. QED  BY <4>1, <4>2, <4>3, <4>4
    <3>. QED  BY <1>1, <2>3, <3>1, <3>2
  <2>. QED  BY <1>3, <2>1, <2>5 DEF IsTried
<1>13. CASE Finish
  BY <1>3, <1>13 DEF Finish, IsTried, Below, Depth
<1>14. CASE UNCHANGED vars
  BY <1>3, <1>14 DEF vars, IsTried, Before, Below, Depth
<1>. QED
  BY <1>4, <1>5, <1>6, <1>7, <1>8, <1>9, <1>10, <1>11, <1>12, <1>13, <1>14 DEF Next
-----------------------------------------------------------------------------
(* No combination is found twice *)

\* The relations searched for candidates of placeholder i.
Searched(i) == {Accesses[s] : s \in {t \in 1..Len(Accesses) : Scanned(i, t)}}

\* A candidate comes from a relation that was searched, and is listed once.
CandidatesAreDistinct ==
  \A i \in 1..Size :
    /\ Injective(candidates[i])
    /\ \A n \in DOMAIN candidates[i] : candidates[i][n].space \in Searched(i)

\* The candidates that one relation contributes.
LEMMA FoundInDistinct ==
  ASSUME problem \in Problems, ph \in 1..Size, NEW s \in 1..Len(Accesses)
  PROVE  /\ Injective(FoundIn(Accesses[s]))
         /\ \A n \in DOMAIN FoundIn(Accesses[s]) :
              FoundIn(Accesses[s])[n].space = Accesses[s]
<1>. DEFINE space == Accesses[s]
            found == Candidates(problem.umap[space], PS.placeholders[ph].pattern)
<1>1. Injective(found)
  BY ProblemFacts, CandidatesAssumption
<1>2. FoundIn(space) = [i \in DOMAIN found |-> [payload |-> found[i], space |-> space]]
  BY DEF FoundIn
<1>. HIDE DEF space, found
<1>. QED  BY <1>1, <1>2 DEF Injective, space

LEMMA DistinctInit == problem \in Problems /\ Init => CandidatesAreDistinct
BY ProblemFacts DEF Init, CandidatesAreDistinct, Injective

LEMMA DistinctStep ==
  ASSUME problem \in Problems, TypeOK, CandidatesAreDistinct, [Next]_vars
  PROVE  CandidatesAreDistinct'
<1>1. /\ Size \in Nat /\ Len(Accesses) \in Nat
      /\ ph \in 1..(Size + 1) /\ acc \in 1..(Len(Accesses) + 1)
      /\ \A s, t \in 1..Len(Accesses) : Accesses[s] = Accesses[t] => s = t
  <2>1. IsProblem(problem)
    BY ProblemsAssumption
  <2>. QED  BY <2>1, ProblemFacts, SMTT(30) DEF TypeOK, IsProblem, Injective, Accesses
<1>2. CASE FillCandidates
  <2>1. /\ problem' = problem /\ ph' = ph /\ acc' = acc + 1
        /\ ph \in 1..Size /\ acc \in 1..Len(Accesses)
        /\ candidates' = [candidates EXCEPT ![ph] = @ \o FoundIn(Accesses[acc])]
        /\ candidates \in [1..Size -> Seq(Candidate)]
    BY <1>1, <1>2 DEF FillCandidates, TypeOK
  <2>2. Size' = Size /\ Accesses' = Accesses
    BY <2>1 DEF Size, PS, Accesses
  <2>. DEFINE old == candidates[ph]
              new == FoundIn(Accesses[acc])
  <2>3. /\ old \in Seq(Candidate) /\ new \in Seq(Candidate)
        /\ Injective(old) /\ Injective(new)
        /\ \A n \in DOMAIN new : new[n].space = Accesses[acc]
        /\ \A n \in DOMAIN old : old[n].space \in Searched(ph)
    BY <2>1, FoundInProperties, FoundInDistinct DEF CandidatesAreDistinct
  <2>4. /\ candidates'[ph] = old \o new
        /\ \A i \in 1..Size : i # ph => candidates'[i] = candidates[i]
    BY <2>1
  <2>. HIDE DEF old, new
  <2>5. /\ Len(old) \in Nat /\ DOMAIN old = 1..Len(old)
        /\ Len(new) \in Nat /\ DOMAIN new = 1..Len(new)
        /\ DOMAIN (old \o new) = 1..(Len(old) + Len(new))
        /\ \A n \in 1..Len(old) : (old \o new)[n] = old[n]
        /\ \A n \in (Len(old) + 1)..(Len(old) + Len(new)) :
             (old \o new)[n] = new[n - Len(old)]
    BY <2>3
  <2>6. \A n \in DOMAIN old : old[n].space # Accesses[acc]
    <3>1. \A s \in 1..Len(Accesses) : Scanned(ph, s) => s # acc
      BY <1>1, <2>1 DEF Scanned
    <3>2. Accesses[acc] \notin Searched(ph)
      BY <1>1, <2>1, <3>1 DEF Searched
    <3>. QED  BY <2>3, <3>2
  <2>7. Injective(old \o new)
    <3>. SUFFICES ASSUME NEW j \in DOMAIN (old \o new), NEW k \in DOMAIN (old \o new),
                         (old \o new)[j] = (old \o new)[k]
                  PROVE  j = k
      BY DEF Injective
    <3>1. CASE j \in DOMAIN old /\ k \in DOMAIN old
      BY <2>3, <2>5, <3>1 DEF Injective
    <3>2. CASE j \notin DOMAIN old /\ k \notin DOMAIN old
      <4>1. /\ j - Len(old) \in DOMAIN new /\ k - Len(old) \in DOMAIN new
            /\ new[j - Len(old)] = new[k - Len(old)]
        BY <2>5, <3>2
      <4>2. j - Len(old) = k - Len(old)
        BY <2>3, <4>1 DEF Injective
      <4>. QED  BY <2>5, <4>2
    <3>3. CASE j \in DOMAIN old /\ k \notin DOMAIN old
      <4>1. k - Len(old) \in DOMAIN new /\ old[j] = new[k - Len(old)]
        BY <2>5, <3>3
      <4>. QED  BY <2>3, <2>6, <3>3, <4>1
    <3>4. CASE j \notin DOMAIN old /\ k \in DOMAIN old
      <4>1. j - Len(old) \in DOMAIN new /\ old[k] = new[j - Len(old)]
        BY <2>5, <3>4
      <4>. QED  BY <2>3, <2>6, <3>4, <4>1
    <3>. QED  BY <3>1, <3>2, <3>3, <3>4
  <2>8. ASSUME NEW i \in 1..Size
        PROVE  /\ Searched(i) \subseteq Searched(i)'
               /\ i = ph => Accesses[acc] \in Searched(i)'
    BY <1>1, <2>1, <2>2 DEF Searched, Scanned
  <2>9. ASSUME NEW i \in 1..Size, i = ph, NEW n \in DOMAIN (old \o new)
        PROVE  (old \o new)[n].space \in Searched(i)'
    <3>1. CASE n \in DOMAIN old
      BY <2>3, <2>5, <2>8, <2>9, <3>1
    <3>2. CASE n \notin DOMAIN old
      <4>1. (old \o new)[n].space = Accesses[acc]
        BY <2>3, <2>5, <3>2
      <4>. QED  BY <2>8, <2>9, <4>1
    <3>. QED  BY <3>1, <3>2
  <2>10. ASSUME NEW i \in 1..Size
         PROVE  /\ Injective(candidates'[i])
                /\ \A n \in DOMAIN candidates'[i] : candidates'[i][n].space \in Searched(i)'
    <3>1. CASE i = ph
      BY <2>4, <2>7, <2>9, <3>1
    <3>2. CASE i # ph
      BY <2>4, <2>8, <3>2 DEF CandidatesAreDistinct
    <3>. QED  BY <3>1, <3>2
  <2>. QED  BY <2>2, <2>10 DEF CandidatesAreDistinct
<1>3. CASE NextPlaceholder
  <2>1. problem' = problem /\ candidates' = candidates /\ ph' = ph + 1
    BY <1>3 DEF NextPlaceholder
  <2>2. /\ Size' = Size /\ Accesses' = Accesses
        /\ \A i \in 1..Size : Searched(i) \subseteq Searched(i)'
    BY <1>1, <2>1 DEF Size, PS, Accesses, Searched, Scanned
  <2>. QED  BY <2>1, <2>2 DEF CandidatesAreDistinct
<1>4. CASE UNCHANGED <<problem, ph, acc, candidates>>
  <2>1. Size' = Size /\ \A i : Searched(i)' = Searched(i)
    BY <1>4 DEF Size, PS, Accesses, Searched, Scanned
  <2>. QED  BY <1>4, <2>1 DEF CandidatesAreDistinct
<1>. QED
  BY <1>2, <1>3, <1>4 DEF Next, EarlyExit, StartSearch, Reject, Accept, Branch, Try,
                          Exhausted, Resume, Finish, vars

\* Every match was chosen by an index sequence that the search is through with.
Selected(match, x) == CombinationOf(match) = Chosen(x) /\ IsTried(x)

MatchesAreTried ==
  /\ pc = "fill" => suitableCandidates = << >>
  /\ \A m \in DOMAIN suitableCandidates :
       \E x \in IndexSequences : Selected(suitableCandidates[m], x)

LEMMA TriedInit == Init => MatchesAreTried
BY DEF Init, MatchesAreTried

\* At a full combination the call stack is its index sequence.
LEMMA FramesChoose ==
  ASSUME problem \in Problems, TypeOK, StackMatchesCombination, pc = "check",
         Len(partialCombination) = Size
  PROVE  /\ frames \in IndexSequences /\ Depth = Size
         /\ Chosen(frames) = partialCombination
<1>1. /\ Size \in Nat /\ Depth = Size
      /\ frames \in [1..Size -> Nat]
      /\ DOMAIN partialCombination = 1..Size
      /\ \A i \in 1..Size : /\ frames[i] \in DOMAIN candidates[i]
                            /\ partialCombination[i] = candidates[i][frames[i]]
  <2>1. /\ Size \in Nat /\ frames \in Seq(Nat \ {0}) /\ Len(frames) = Size /\ Depth = Size
        /\ partialCombination \in Seq(Candidate)
    BY ProblemFacts DEF TypeOK, StackMatchesCombination, Depth
  <2>2. DOMAIN partialCombination = 1..Size
    BY <2>1
  <2>. QED  BY <2>1, <2>2 DEF StackMatchesCombination
<1>2. partialCombination = [i \in 1..Size |-> partialCombination[i]]
  BY <1>1 DEF TypeOK
<1>3. Chosen(frames) = [i \in 1..Size |-> partialCombination[i]]
  BY <1>1 DEF Chosen
<1>. QED  BY <1>1, <1>2, <1>3 DEF IndexSequences

\* It was not found before: the matches were selected by index sequences that come
\* earlier, and different candidates of a placeholder are different.
LEMMA AcceptsNewCombination ==
  ASSUME problem \in Problems, TypeOK, StackMatchesCombination, pc = "check",
         Len(partialCombination) = Size, CandidatesAreDistinct, MatchesAreTried,
         NEW m \in DOMAIN suitableCandidates
  PROVE  CombinationOf(suitableCandidates[m]) # partialCombination
<1>1. PICK x \in IndexSequences : CombinationOf(suitableCandidates[m]) = Chosen(x) /\ IsTried(x)
  BY DEF MatchesAreTried, Selected
<1>2. frames \in IndexSequences /\ Depth = Size /\ Chosen(frames) = partialCombination
  BY FramesChoose
<1>3. PICK j \in 1..Depth : x[j] < frames[j]
  BY <1>1 DEF IsTried, Before
<1>4. /\ j \in 1..Size /\ x[j] \in DOMAIN candidates[j] /\ frames[j] \in DOMAIN candidates[j]
      /\ x[j] \in Nat /\ frames[j] \in Nat /\ x[j] # frames[j]
  BY <1>1, <1>2, <1>3 DEF IndexSequences
<1>5. candidates[j][x[j]] # candidates[j][frames[j]]
  BY <1>4 DEF CandidatesAreDistinct, Injective
<1>6. Chosen(x)[j] = candidates[j][x[j]] /\ Chosen(frames)[j] = candidates[j][frames[j]]
  BY <1>4 DEF Chosen
<1>. QED  BY <1>1, <1>2, <1>5, <1>6

LEMMA TriedStep ==
  ASSUME problem \in Problems, TypeOK, StackMatchesCombination, MatchesAreTried, [Next]_vars
  PROVE  MatchesAreTried'
<1>0. /\ Size \in Nat /\ frames \in Seq(Nat \ {0}) /\ Depth \in Nat
      /\ \A k \in 1..Depth : frames[k] \in Nat \ {0}
  BY ProblemFacts DEF TypeOK, Depth
<1>1. ASSUME UNCHANGED <<problem, candidates>>
      PROVE  /\ IndexSequences' = IndexSequences
             /\ \A x : Chosen(x)' = Chosen(x)
  BY <1>1 DEF IndexSequences, Chosen, Size, PS
<1>2. ASSUME UNCHANGED <<problem, candidates, suitableCandidates>>, pc' # "fill",
             \A x \in IndexSequences : IsTried(x) => IsTried(x)'
      PROVE  MatchesAreTried'
  BY <1>1, <1>2 DEF MatchesAreTried, Selected
<1>3. CASE pc = "fill" /\ UNCHANGED suitableCandidates
  BY <1>3 DEF MatchesAreTried
<1>4. CASE Reject \/ Try \/ Finish
  BY <1>2, <1>4 DEF Reject, Try, Finish, IsTried, Before, Below, Depth
<1>5. CASE Accept
  <2>1. /\ UNCHANGED <<problem, candidates, frames>>
        /\ suitableCandidates' = Append(suitableCandidates, MatchOf(PS, partialCombination))
        /\ pc = "check" /\ pc' = "return" /\ Len(partialCombination) = Size
        /\ suitableCandidates \in Seq(Seq([id : IdsIn(PS), candidate : Candidate]))
    BY <1>5 DEF Accept, TypeOK
  <2>2. \A m \in DOMAIN suitableCandidates' :
          \/ m \in DOMAIN suitableCandidates /\ suitableCandidates'[m] = suitableCandidates[m]
          \/ suitableCandidates'[m] = MatchOf(PS, partialCombination)
    BY <2>1
  <2>3. \A x : Before(x) => IsTried(x)'
    BY <2>1 DEF Before, Depth, IsTried
  <2>4. ASSUME NEW m \in DOMAIN suitableCandidates
        PROVE  \E x \in IndexSequences : CombinationOf(suitableCandidates[m]) = Chosen(x) /\ IsTried(x)'
    <3>1. PICK x \in IndexSequences :
            CombinationOf(suitableCandidates[m]) = Chosen(x) /\ IsTried(x)
      BY DEF MatchesAreTried, Selected
    <3>2. IsTried(x)'
      BY <2>1, <2>3, <3>1 DEF IsTried
    <3>. QED  BY <3>1, <3>2
  <2>5. \E x \in IndexSequences :
          CombinationOf(MatchOf(PS, partialCombination)) = Chosen(x) /\ IsTried(x)'
    <3>1. frames \in IndexSequences /\ Chosen(frames) = partialCombination
      BY <2>1, FramesChoose
    <3>2. CombinationOf(MatchOf(PS, partialCombination)) = partialCombination
      BY <2>1, MatchOfProperties DEF TypeOK
    <3>3. \A x : x = frames => IsTried(x)'
      BY <2>1 DEF IsTried, Below, Depth
    <3>. QED  BY <3>1, <3>2, <3>3
  <2>6. ASSUME NEW m \in DOMAIN suitableCandidates'
        PROVE  \E x \in IndexSequences :
                 CombinationOf(suitableCandidates'[m]) = Chosen(x) /\ IsTried(x)'
    BY <2>2, <2>4, <2>5
  <2>. QED  BY <1>1, <2>1, <2>6 DEF MatchesAreTried, Selected
<1>6. CASE Branch
  <2>1. /\ UNCHANGED <<problem, candidates, suitableCandidates>>
        /\ frames' = Append(frames, 1) /\ pc = "check" /\ pc' = "loop"
    BY <1>6 DEF Branch
  <2>2. Len(frames') = Depth + 1 /\ \A k \in 1..Depth : frames'[k] = frames[k]
    BY <1>0, <2>1 DEF Depth
  <2>3. \A x : Before(x) => Before(x)'
    BY <1>0, <2>2, SMTT(30) DEF Before, Depth
  <2>. QED  BY <1>2, <2>1, <2>3 DEF IsTried
<1>7. CASE Exhausted
  <2>1. /\ UNCHANGED <<problem, candidates, suitableCandidates>>
        /\ frames' = Front(frames) /\ pc = "loop" /\ pc' = "return" /\ Depth \in Nat \ {0}
    BY <1>0, <1>7 DEF Exhausted, StackMatchesCombination, TypeOK
  <2>2. Len(frames') = Depth - 1 /\ \A k \in 1..(Depth - 1) : frames'[k] = frames[k]
    BY <1>0, <2>1, FrontProperties DEF Depth
  <2>3. ASSUME NEW x, Before(x) PROVE Before(x)' \/ Below(x)'
    <3>1. PICK j \in 1..Depth : (\A k \in 1..(j - 1) : x[k] = frames[k]) /\ x[j] < frames[j]
      BY <2>3 DEF Before
    <3>2. CASE j < Depth
      BY <1>0, <2>2, <3>1, <3>2, SMTT(30) DEF Before, Depth
    <3>3. CASE j = Depth
      BY <1>0, <2>2, <3>1, <3>3 DEF Below, Depth
    <3>. QED  BY <1>0, <3>1, <3>2, <3>3
  <2>. QED  BY <1>2, <2>1, <2>3 DEF IsTried
<1>8. CASE Resume
  <2>1. /\ UNCHANGED <<problem, candidates, suitableCandidates>>
        /\ frames' = [frames EXCEPT ![Depth] = @ + 1] /\ pc = "return" /\ pc' = "loop"
        /\ Depth \in Nat \ {0}
    BY <1>0, <1>8 DEF Resume, Depth
  <2>2. /\ Len(frames') = Depth /\ frames'[Depth] = frames[Depth] + 1
        /\ \A k \in 1..(Depth - 1) : frames'[k] = frames[k]
    BY <1>0, <2>1 DEF Depth
  <2>3. ASSUME NEW x \in IndexSequences, Before(x) \/ Below(x) PROVE Before(x)'
    <3>1. CASE Before(x)
      <4>1. PICK j \in 1..Depth : (\A k \in 1..(j - 1) : x[k] = frames[k]) /\ x[j] < frames[j]
        BY <3>1 DEF Before
      <4>2. \A k \in 1..(j - 1) : x[k] = frames'[k]
        BY <1>0, <2>2, <4>1
      <4>3. x[j] < frames'[j]
        <5>1. CASE j < Depth
          BY <1>0, <2>2, <4>1, <5>1
        <5>2. CASE j = Depth
          <6>1. x[j] < frames[j] /\ frames'[j] = frames[j] + 1 /\ frames[j] \in Nat
            BY <1>0, <2>2, <4>1, <5>2
          <6>2. x[j] \in Nat
            <7>1. Depth \in 1..Size
              BY <1>0, <2>1 DEF TypeOK, StackMatchesCombination
            <7>. QED  BY <5>2, <7>1 DEF IndexSequences
          <6>. QED  BY <6>1, <6>2
        <5>. QED  BY <1>0, <5>1, <5>2
      <4>. QED  BY <2>2, <4>2, <4>3 DEF Before, Depth
    <3>2. CASE Below(x)
      <4>1. \A k \in 1..(Depth - 1) : x[k] = frames'[k]
        BY <1>0, <2>1, <2>2, <3>2 DEF Below
      <4>2. x[Depth] < frames'[Depth]
        <5>1. Depth \in 1..Depth
          BY <2>1
        <5>2. x[Depth] = frames[Depth] /\ frames[Depth] \in Nat
          BY <1>0, <3>2, <5>1 DEF Below
        <5>. QED  BY <2>2, <5>2
      <4>3. Depth' = Depth
        BY <2>2 DEF Depth
      <4>4. Depth \in 1..Depth
        BY <2>1
      <4>. QED  BY <4>1, <4>2, <4>3, <4>4 DEF Before
    <3>. QED  BY <2>3, <3>1, <3>2
  <2>. QED  BY <1>2, <2>1, <2>3 DEF IsTried
<1>9. CASE UNCHANGED vars
  <2>1. IndexSequences' = IndexSequences /\ \A x : Chosen(x)' = Chosen(x) /\ (IsTried(x)' <=> IsTried(x))
    BY <1>1, <1>9 DEF vars, IsTried, Before, Below, Depth
  <2>. QED  BY <1>9, <2>1 DEF vars, MatchesAreTried, Selected
<1>. QED
  BY <1>3, <1>4, <1>5, <1>6, <1>7, <1>8, <1>9
  DEF Next, FillCandidates, EarlyExit, NextPlaceholder, StartSearch
-----------------------------------------------------------------------------
(* The refinement *)

Found == {AssignmentOf(suitableCandidates[m]) : m \in DOMAIN suitableCandidates}

\* The value of "found" in the refinement.
FoundList == [m \in DOMAIN suitableCandidates |-> AssignmentOf(suitableCandidates[m])]

LEMMA FoundInList == Found = Abstract!Found /\ DOMAIN FoundList = DOMAIN suitableCandidates
BY DEF Found, Abstract!Found, FoundList

\* Every match stands for an assignment, different combinations for different ones.
FoundAreAssignments ==
  /\ Found \subseteq Abstract!Assignments(problem)
  /\ \A k, m \in DOMAIN suitableCandidates :
       AssignmentOf(suitableCandidates[k]) = AssignmentOf(suitableCandidates[m])
         => CombinationOf(suitableCandidates[k]) = CombinationOf(suitableCandidates[m])

\* What an assignment selects for a placeholder that was searched is in its list.
LEMMA AssignmentsAreListed ==
  ASSUME problem \in Problems, ScannedAreListed, NEW a \in Abstract!Assignments(problem),
         NEW i \in 1..Size, \A s \in 1..Len(Accesses) : Scanned(i, s)
  PROVE  \E n \in DOMAIN candidates[i] : candidates[i][n] = CombinationFor(a)[i]
<1>. DEFINE c == CombinationFor(a)[i]
<1>1. IsOffered(c, PS.placeholders[i])
  BY AssignmentProperties
<1>2. PICK s \in 1..Len(Accesses) : c.space = Accesses[s]
  <2>1. c.space \in DOMAIN problem.umap
    BY <1>1 DEF IsOffered
  <2>2. DOMAIN problem.umap = {Accesses[s] : s \in DOMAIN Accesses}
    BY ProblemsAssumption DEF IsProblem, Accesses
  <2>3. DOMAIN Accesses = 1..Len(Accesses)
    BY ProblemFacts
  <2>. QED  BY <2>1, <2>2, <2>3
<1>3. PICK k \in DOMAIN FoundAt(i, s) : FoundAt(i, s)[k] = c.payload
  BY <1>1, <1>2 DEF IsOffered, FoundAt
<1>4. c = [payload |-> c.payload, space |-> c.space]
  BY DEF CombinationFor
<1>5. Listed(i, s)
  BY DEF ScannedAreListed
<1>. QED  BY <1>2, <1>3, <1>4, <1>5 DEF Listed

\* When the search has nothing left to try, every assignment was found: stage 1
\* listed what it selects and stage 2 tried that combination.
LEMMA AllAreFound ==
  ASSUME problem \in Problems, IInv, ScannedAreListed,
         \A x \in IndexSequences : Covered(x),
         \/ ph = Size + 1
         \/ ph \in 1..Size /\ acc = Len(Accesses) + 1 /\ candidates[ph] = << >>
  PROVE  Found = Abstract!Assignments(problem)
<1>1. Size \in Nat /\ Len(Accesses) \in Nat
  BY ProblemFacts
<1>2. Found \subseteq Abstract!Assignments(problem)
  BY MatchIsAssignment DEF IInv, Found
<1>3. ASSUME NEW a \in Abstract!Assignments(problem) PROVE a \in Found
  <2>. DEFINE c == CombinationFor(a)
  <2>1. /\ c \in Seq(Candidate) /\ Len(c) = Size
        /\ IsSuitableCombination(PS, c)
    BY AssignmentIsValid, SuitableIffValid DEF PS, Size
  <2>2. CASE ph \in 1..Size /\ acc = Len(Accesses) + 1 /\ candidates[ph] = << >>
    <3>1. \A s \in 1..Len(Accesses) : Scanned(ph, s)
      BY <1>1, <2>2 DEF Scanned
    <3>2. \E n \in DOMAIN candidates[ph] : candidates[ph][n] = c[ph]
      BY <2>2, <3>1, AssignmentsAreListed
    <3>. QED  BY <2>2, <3>2
  <2>3. CASE ph = Size + 1
    <3>. DEFINE x == [i \in 1..Size |->
                        CHOOSE n \in DOMAIN candidates[i] : candidates[i][n] = c[i]]
    <3>1. ASSUME NEW i \in 1..Size
          PROVE  x[i] \in DOMAIN candidates[i] /\ candidates[i][x[i]] = c[i]
                 /\ x[i] \in Nat
      <4>1. \A s \in 1..Len(Accesses) : Scanned(i, s)
        BY <1>1, <2>3 DEF Scanned
      <4>2. \E n \in DOMAIN candidates[i] : candidates[i][n] = c[i]
        BY <4>1, AssignmentsAreListed
      <4>. HIDE DEF c
      <4>3. x[i] \in DOMAIN candidates[i] /\ candidates[i][x[i]] = c[i]
        BY <4>2
      <4>4. candidates[i] \in Seq(Candidate)
        BY DEF IInv, TypeOK
      <4>. QED  BY <4>3, <4>4
    <3>2. x = [i \in 1..Size |-> x[i]]
      OBVIOUS
    <3>. HIDE DEF x, c
    <3>3. x \in IndexSequences
      BY <3>1, <3>2 DEF IndexSequences
    <3>4. Chosen(x) = c
      <4>1. Chosen(x) = [i \in 1..Size |-> c[i]]
        BY <3>1 DEF Chosen
      <4>2. c = [i \in 1..Size |-> c[i]]
        BY <2>1
      <4>. QED  BY <4>1, <4>2
    <3>5. PICK m \in DOMAIN suitableCandidates :
            CombinationOf(suitableCandidates[m]) = c
      BY <2>1, <3>3, <3>4 DEF Covered
    <3>6. /\ AssignmentOf(suitableCandidates[m]) \in Abstract!Assignments(problem)
          /\ CombinationFor(AssignmentOf(suitableCandidates[m])) = CombinationFor(a)
      BY <3>5, MatchIsAssignment DEF IInv, c
    <3>. QED  BY <3>6, CombinationForInjective DEF Found
  <2>. QED  BY <2>2, <2>3
<1>. QED  BY <1>2, <1>3

\* The invariant of the whole search: what is returned is right (IInv), stage 1
\* lists every candidate once and stage 2 tries every combination once.
SearchInv ==
  /\ problem \in Problems
  /\ IInv
  /\ CandidatesAreComplete
  /\ CandidatesAreDistinct
  /\ TriedAreCovered
  /\ MatchesAreTried

THEOREM SearchInvariance == Spec => []SearchInv
<1>1. Init => SearchInv
  BY InitIInv, CompleteInit, DistinctInit, CoverInit, TriedInit DEF SearchInv
<1>2. SearchInv /\ [Next]_vars => SearchInv'
  BY TypeStep, StackStep, OfferedStep, SoundStep, CompleteStep, DistinctStep, CoverStep,
     TriedStep DEF SearchInv, IInv
<1>. QED  BY <1>1, <1>2, PTL DEF Spec

\* Every step is a step of MatchSpec: Accept finds an assignment, the end of the
\* search and the early exit finish with all of them, all others stutter.
LEMMA StepSimulation ==
  ASSUME SearchInv, FoundAreAssignments', [Next]_vars
  PROVE  [Abstract!Next]_(Abstract!specVars)
<1>. DEFINE finished == pc = "done"
            goal == [Abstract!Next]_(Abstract!specVars)
<1>1. ASSUME UNCHANGED <<problem, suitableCandidates>> PROVE Found' = Found /\ FoundList' = FoundList
  BY <1>1 DEF Found, FoundList, AssignmentOf, UsedLists
<1>2. ASSUME UNCHANGED <<problem, suitableCandidates>>, finished' <=> finished
      PROVE  goal
  BY <1>1, <1>2 DEF FoundList, Abstract!specVars
<1>3. ASSUME UNCHANGED <<problem, suitableCandidates>>, ~ finished, finished',
             Found = Abstract!Assignments(problem)
      PROVE  goal
  BY <1>1, <1>3, FoundInList DEF FoundList, Abstract!Next, Abstract!Finish
<1>4. CASE FillCandidates \/ NextPlaceholder \/ StartSearch
  BY <1>2, <1>4 DEF FillCandidates, NextPlaceholder, StartSearch
<1>5. CASE EarlyExit
  <2>1. /\ UNCHANGED <<problem, suitableCandidates>> /\ ~ finished /\ finished'
        /\ ph \in 1..Size /\ acc = Len(Accesses) + 1 /\ candidates[ph] = << >>
    <3>1. /\ Size \in Nat /\ Len(Accesses) \in Nat
          /\ ph \in 1..(Size + 1) /\ acc \in 1..(Len(Accesses) + 1)
      BY ProblemFacts DEF SearchInv, IInv, TypeOK
    <3>2. /\ UNCHANGED <<problem, suitableCandidates>> /\ ~ finished /\ finished'
          /\ ph <= Size /\ acc > Len(Accesses) /\ candidates[ph] = << >>
      BY <1>5 DEF EarlyExit
    <3>. QED  BY <3>1, <3>2
  <2>2. IndexSequences = {}
    BY <2>1 DEF IndexSequences
  <2>3. Found = Abstract!Assignments(problem)
    BY <2>1, <2>2, AllAreFound DEF SearchInv, CandidatesAreComplete
  <2>. QED  BY <1>3, <2>1, <2>3
<1>6. CASE Accept
  <2>. DEFINE n == Len(suitableCandidates)
              a == AssignmentOf(suitableCandidates[n + 1])'
  <2>1. /\ problem' = problem /\ ~ finished /\ ~ finished'
        /\ suitableCandidates' = Append(suitableCandidates, MatchOf(PS, partialCombination))
        /\ suitableCandidates \in Seq(Seq([id : IdsIn(PS), candidate : Candidate]))
    BY <1>6 DEF Accept, SearchInv, IInv, TypeOK
  <2>2. /\ DOMAIN suitableCandidates' = DOMAIN suitableCandidates \cup {n + 1}
        /\ \A m \in DOMAIN suitableCandidates :
             suitableCandidates'[m] = suitableCandidates[m]
    BY <2>1
  <2>. DEFINE With(lists, match) ==
                [place |-> [l \in {k \in DOMAIN lists : lists[k] # << >>} |->
                   match[CHOOSE i \in PositionsOf(lists, l) : TRUE].candidate.space],
                 value |-> [id \in {match[i].id : i \in DOMAIN match} |->
                   LookupPayload(match, id)]]
  <2>0. \A m : /\ AssignmentOf(suitableCandidates[m])
                     = With(problem.lists, suitableCandidates[m])
               /\ AssignmentOf(suitableCandidates[m])'
                     = With(problem'.lists, suitableCandidates'[m])
    BY DEF AssignmentOf, UsedLists
  <2>. HIDE DEF With
  <2>3. \A m \in DOMAIN suitableCandidates :
          AssignmentOf(suitableCandidates[m])' = AssignmentOf(suitableCandidates[m])
    BY <2>0, <2>1, <2>2
  <2>. DEFINE old(m) == AssignmentOf(suitableCandidates[m])
              new(m) == AssignmentOf(suitableCandidates[m])'
  <2>4. /\ Found = {old(m) : m \in DOMAIN suitableCandidates}
        /\ Found' = {new(m) : m \in DOMAIN suitableCandidates'}
        /\ \A m \in DOMAIN suitableCandidates : new(m) = old(m)
        /\ a = new(n + 1)
    BY <2>3 DEF Found
  <2>. HIDE DEF old, new, a, n
  <2>5. a \in Abstract!Assignments(problem)
    <3>1. Found' \subseteq Abstract!Assignments(problem)
      BY <2>1 DEF FoundAreAssignments, Abstract!Assignments
    <3>. QED  BY <2>2, <2>4, <3>1
  <2>6. a \notin Found
    <3>1. /\ CombinationOf(suitableCandidates'[n + 1]) = partialCombination
          /\ n + 1 \in DOMAIN suitableCandidates'
      BY <1>6, <2>1, MatchOfProperties DEF Accept, SearchInv, IInv, TypeOK, n
    <3>2. ASSUME NEW m \in DOMAIN suitableCandidates
          PROVE  CombinationOf(suitableCandidates'[m]) # partialCombination
      BY <1>6, <2>2, AcceptsNewCombination DEF Accept, SearchInv, IInv
    <3>3. \A k, m \in DOMAIN suitableCandidates' :
            new(k) = new(m) => CombinationOf(suitableCandidates'[k])
                                 = CombinationOf(suitableCandidates'[m])
      BY DEF FoundAreAssignments, new, CombinationOf
    <3>. QED  BY <2>2, <2>4, <3>1, <3>2, <3>3
  <2>7. FoundList' = Append(FoundList, a)
    <3>1. n \in Nat /\ DOMAIN suitableCandidates = 1..n /\ DOMAIN suitableCandidates' = 1..(n + 1)
      BY <2>1 DEF n
    <3>2. /\ FoundList = [m \in 1..n |-> old(m)]
          /\ FoundList' = [m \in 1..(n + 1) |-> new(m)]
      BY <3>1 DEF FoundList, old, new
    <3>3. FoundList \in Seq({old(m) : m \in 1..n}) /\ Len(FoundList) = n
      BY <3>1, <3>2
    <3>. QED  BY <2>4, <3>1, <3>2, <3>3
  <2>. QED
    BY <2>1, <2>5, <2>6, <2>7, FoundInList
    DEF FoundList, Abstract!Next, Abstract!Find, Abstract!specVars
<1>7. CASE Reject \/ Branch \/ Try \/ Exhausted \/ Resume
  BY <1>2, <1>7 DEF Reject, Branch, Try, Exhausted, Resume
<1>8. CASE Finish
  <2>1. /\ UNCHANGED <<problem, suitableCandidates>> /\ ~ finished /\ finished'
        /\ pc = "return" /\ frames = << >>
    BY <1>8 DEF Finish
  <2>2. \A x \in IndexSequences : Covered(x)
    BY <2>1 DEF SearchInv, TriedAreCovered, IsTried, Below, Depth
  <2>3. ph = Size + 1 /\ ScannedAreListed
    BY <2>1 DEF SearchInv, CandidatesAreComplete
  <2>4. Found = Abstract!Assignments(problem)
    BY <2>2, <2>3, AllAreFound DEF SearchInv
  <2>. QED  BY <1>3, <2>1, <2>4
<1>9. CASE UNCHANGED vars
  BY <1>2, <1>9 DEF vars
<1>. QED
  BY <1>4, <1>5, <1>6, <1>7, <1>8, <1>9 DEF Next

\* match returns each assignment of MatchSpec exactly once and nothing else,
\* whatever the union map, the pattern and the candidate function: no match is
\* lost to the early exit, to the order of the search or to branch and cut, and
\* none is returned twice.
THEOREM MatchIsComplete == Spec => ImplementsMatchSpec
<1>1. Init => Abstract!Init
  BY DEF Init, Abstract!Init
<1>2. SearchInv => FoundAreAssignments
  <2>. SUFFICES ASSUME SearchInv PROVE FoundAreAssignments
    OBVIOUS
  <2>1. \A m \in DOMAIN suitableCandidates :
          /\ AssignmentOf(suitableCandidates[m]) \in Abstract!Assignments(problem)
          /\ CombinationFor(AssignmentOf(suitableCandidates[m]))
               = CombinationOf(suitableCandidates[m])
    BY MatchIsAssignment DEF SearchInv, IInv
  <2>. HIDE DEF AssignmentOf
  <2>. QED  BY <2>1 DEF Found, FoundAreAssignments
<1>3. SearchInv /\ FoundAreAssignments' /\ [Next]_vars
        => [Abstract!Next]_(Abstract!specVars)
  BY StepSimulation
<1>. QED
  BY <1>1, <1>2, <1>3, SearchInvariance, PTL DEF Spec, ImplementsMatchSpec, Abstract!Spec

\* When match returns, its matches are all the assignments there are.
LEMMA DoneIsComplete ==
  ASSUME SearchInv, pc = "done"
  PROVE  Found = Abstract!Assignments(problem)
<1>1. \A x \in IndexSequences : Covered(x)
  BY DEF SearchInv, TriedAreCovered, IsTried
<1>2. /\ ScannedAreListed
      /\ \/ ph = Size + 1
         \/ ph \in 1..Size /\ acc = Len(Accesses) + 1 /\ candidates[ph] = << >>
  BY DEF SearchInv, CandidatesAreComplete
<1>. QED  BY <1>1, <1>2, AllAreFound DEF SearchInv

\* No combination is returned twice.
MatchesAreDistinct ==
  \A k, m \in DOMAIN suitableCandidates :
    CombinationOf(suitableCandidates[k]) = CombinationOf(suitableCandidates[m]) => k = m

LEMMA DistinctMatchesStep ==
  ASSUME SearchInv, MatchesAreDistinct, [Next]_vars
  PROVE  MatchesAreDistinct'
<1>1. CASE UNCHANGED suitableCandidates
  BY <1>1 DEF MatchesAreDistinct, CombinationOf
<1>2. CASE Accept
  <2>. DEFINE n == Len(suitableCandidates)
              old(m) == CombinationOf(suitableCandidates[m])
              new(m) == CombinationOf(suitableCandidates'[m])
  <2>1. /\ suitableCandidates' = Append(suitableCandidates, MatchOf(PS, partialCombination))
        /\ suitableCandidates \in Seq(Seq([id : IdsIn(PS), candidate : Candidate]))
    BY <1>2 DEF Accept, SearchInv, IInv, TypeOK
  <2>2. /\ DOMAIN suitableCandidates' = DOMAIN suitableCandidates \cup {n + 1}
        /\ \A m \in DOMAIN suitableCandidates : suitableCandidates'[m] = suitableCandidates[m]
        /\ suitableCandidates'[n + 1] = MatchOf(PS, partialCombination)
    BY <2>1
  <2>3. CombinationOf(MatchOf(PS, partialCombination)) = partialCombination
    BY <1>2, MatchOfProperties DEF Accept, SearchInv, IInv, TypeOK
  <2>4. \A m \in DOMAIN suitableCandidates : old(m) # partialCombination
    BY <1>2, AcceptsNewCombination DEF Accept, SearchInv, IInv
  <2>5. /\ \A m \in DOMAIN suitableCandidates : new(m) = old(m)
        /\ new(n + 1) = partialCombination
    BY <2>2, <2>3
  <2>6. \A k, m \in DOMAIN suitableCandidates : old(k) = old(m) => k = m
    BY DEF MatchesAreDistinct
  <2>. HIDE DEF old, new, n
  <2>7. \A k, m \in DOMAIN suitableCandidates' : new(k) = new(m) => k = m
    BY <2>2, <2>4, <2>5, <2>6
  <2>. QED  BY <2>7 DEF MatchesAreDistinct, new, CombinationOf
<1>3. CASE Reject \/ Branch \/ Try \/ Exhausted \/ Resume \/ Finish
  BY <1>1, <1>3 DEF Reject, Branch, Try, Exhausted, Resume, Finish
<1>4. CASE FillCandidates \/ EarlyExit \/ NextPlaceholder \/ StartSearch
  BY <1>1, <1>4 DEF FillCandidates, EarlyExit, NextPlaceholder, StartSearch
<1>5. CASE UNCHANGED vars
  BY <1>1, <1>5 DEF vars
<1>. QED
  BY <1>2, <1>3, <1>4, <1>5 DEF Next

\* match returns no combination twice, whatever the union map and the pattern.
THEOREM NoMatchTwice == Spec => []MatchesAreDistinct
<1>1. Init => MatchesAreDistinct
  BY DEF Init, MatchesAreDistinct
<1>2. SearchInv /\ MatchesAreDistinct /\ [Next]_vars => MatchesAreDistinct'
  BY DistinctMatchesStep
<1>. QED
  BY <1>1, <1>2, SearchInvariance, PTL DEF Spec

=============================================================================
