------------------------- MODULE StrideMatchingProofs -------------------------
(***************************************************************************)
(* Theorems about matching with stride patterns: that the test on          *)
(* successive iterations is right about whole runs of the innermost loop,  *)
(* for loops of any bounds and depth, any accesses and any active points,  *)
(* and what follows for the matches.                                       *)
(***************************************************************************)
EXTENDS StrideMatching, AccessMatcherProofs, FiniteSetTheorems

-----------------------------------------------------------------------------
(* Boxes *)

LEMMA DimOfBox ==
  ASSUME NEW box, IsBox(box)
  PROVE  /\ NDims(box) \in Nat
         /\ \A p \in box : p \in Seq(Int) /\ Len(p) = NDims(box)
BY DEF IsBox, NDims

\* In a loop nest the last index is an integer, and a row with one index is
\* one point.
LEMMA PointOfRow ==
  ASSUME NEW box, IsBox(box), NDims(box) # 0, NEW p \in box, NEW q \in box
  PROVE  /\ Last(p) \in Int /\ Last(p) = p[NDims(box)]
         /\ SameRow(p, q) /\ Last(p) = Last(q) => p = q
<1>1. NDims(box) \in Nat \ {0}
  BY DimOfBox
<1>2. /\ p \in Seq(Int) /\ Len(p) = NDims(box)
      /\ q \in Seq(Int) /\ Len(q) = NDims(box)
  BY DimOfBox
<1>3. Last(p) \in Int /\ Last(p) = p[NDims(box)] /\ Last(q) = q[NDims(box)]
  BY <1>1, <1>2 DEF Last
<1>4. ASSUME SameRow(p, q), Last(p) = Last(q) PROVE p = q
  <2>1. \A d \in 1..(NDims(box) - 1) : p[d] = q[d]
    BY <1>2, <1>4 DEF SameRow
  <2>2. p[NDims(box)] = q[NDims(box)]
    BY <1>3, <1>4
  <2>3. \A d \in 1..NDims(box) : d \in 1..(NDims(box) - 1) \/ d = NDims(box)
    BY <1>1
  <2>4. \A d \in 1..NDims(box) : p[d] = q[d]
    BY <2>1, <2>2, <2>3
  <2>. QED  BY <1>2, <2>4
<1>. QED  BY <1>3, <1>4

LEMMA RowsAreEqual ==
  ASSUME NEW box, IsBox(box), NEW p \in box, NEW q \in box, NEW r \in box
  PROVE  /\ SameRow(p, p)
         /\ SameRow(p, q) => SameRow(q, p)
         /\ SameRow(p, q) /\ SameRow(q, r) => SameRow(p, r)
<1>1. Len(p) = NDims(box) /\ Len(q) = NDims(box) /\ Len(r) = NDims(box)
  BY DimOfBox
<1>. QED  BY <1>1 DEF SameRow

\* A row has no holes.
LEMMA RowIsConvex ==
  ASSUME NEW box, IsBox(box), NDims(box) # 0, NEW p \in box, NEW q \in box,
         SameRow(p, q), NEW v \in Last(p)..Last(q)
  PROVE  \E r \in box : SameRow(p, r) /\ Last(r) = v
<1>1. NDims(box) \in Nat \ {0} /\ p \in Seq(Int) /\ Len(p) = NDims(box)
  BY DimOfBox
<1>0. p # << >>
  BY <1>1
<1>2. PICK r \in box : r = [p EXCEPT ![Len(p)] = v]
  <2>1. [p EXCEPT ![Len(p)] = v] \in box
    BY <1>0 DEF IsBox
  <2>. QED  BY <2>1
<1>3. /\ Len(r) = NDims(box) /\ r[NDims(box)] = v
      /\ \A d \in 1..(NDims(box) - 1) : r[d] = p[d]
  BY <1>1, <1>2
<1>. QED  BY <1>1, <1>3 DEF SameRow, Last

-----------------------------------------------------------------------------
(* Successive iterations *)

LEMMA SamePairs ==
  ASSUME NEW S, NEW A, NEW B, A \subseteq S \X S, B \subseteq S \X S,
         \A p, q \in S : <<p, q>> \in A <=> <<p, q>> \in B
  PROVE  A = B
<1>1. \A pq \in S \X S : pq[1] \in S /\ pq[2] \in S /\ pq = <<pq[1], pq[2]>>
  OBVIOUS
<1>2. \A pq \in S \X S : pq \in A <=> pq \in B
  BY <1>1
<1>. QED  BY <1>2

\* What Successors computes by makers of maps and lexicographic minima: pairs
\* of iterations of a row without another one between them.
Adjacent(points) ==
  {pq \in points \X points :
     /\ SameRow(pq[1], pq[2]) /\ Last(pq[1]) < Last(pq[2])
     /\ \A r \in points : SameRow(pq[1], r) /\ Last(pq[1]) < Last(r)
                            => Last(pq[2]) <= Last(r)}

LEMMA NextInRow ==
  ASSUME NEW box, IsBox(box), NDims(box) # 0, NEW p \in box, NEW q \in box
  PROVE  /\ <<p, q>> \in MapToNext(box, FALSE)
              <=> SameRow(p, q) /\ Last(q) = Last(p) + 1
         /\ <<p, q>> \in MapToNext(box, TRUE)
              <=> SameRow(p, q) /\ Last(p) < Last(q)
<1>. DEFINE dim == NDims(box)
            var(d) == [x \in box |-> x[d]]
            next == [x \in box |-> x[dim] + 1]
            rows == {pq \in box \X box : \A d \in 1..(dim - 1) :
                       pq \in MapMaker("==", var(d), var(d))}
<1>1. \A d : <<p, q>> \in MapMaker("==", var(d), var(d)) <=> p[d] = q[d]
  BY DEF MapMaker, EqMap, Pairs
<1>2. <<p, q>> \in MapMaker("==", next, var(dim)) <=> p[dim] + 1 = q[dim]
  BY DEF MapMaker, EqMap, Pairs
<1>3. <<p, q>> \in MapMaker("<", var(dim), var(dim)) <=> p[dim] < q[dim]
  BY DEF MapMaker, LtMap, Pairs
<1>4. /\ MapToNext(box, FALSE) = {pq \in MapMaker("==", next, var(dim)) :
           \A d \in 1..(dim - 1) : pq \in MapMaker("==", var(d), var(d))}
      /\ MapToNext(box, TRUE) = {pq \in MapMaker("<", var(dim), var(dim)) :
           \A d \in 1..(dim - 1) : pq \in MapMaker("==", var(d), var(d))}
  BY DEF MapToNext
<1>. HIDE DEF var, next
<1>5. /\ <<p, q>> \in MapToNext(box, FALSE) <=>
           p[dim] + 1 = q[dim] /\ \A d \in 1..(dim - 1) : p[d] = q[d]
      /\ <<p, q>> \in MapToNext(box, TRUE) <=>
           p[dim] < q[dim] /\ \A d \in 1..(dim - 1) : p[d] = q[d]
  BY <1>1, <1>2, <1>3, <1>4
<1>6. SameRow(p, q) <=> \A d \in 1..(dim - 1) : p[d] = q[d]
  BY DimOfBox DEF SameRow
<1>7. Last(p) = p[dim] /\ Last(q) = q[dim] /\ Last(p) \in Int /\ Last(q) \in Int
  BY PointOfRow
<1>. HIDE DEF dim
<1>. QED  BY <1>5, <1>6, <1>7

LEMMA MapToNextInBox ==
  ASSUME NEW box, IsBox(box), NDims(box) # 0
  PROVE  /\ MapToNext(box, FALSE) \subseteq box \X box
         /\ MapToNext(box, TRUE) \subseteq box \X box
BY DEF MapToNext, MapMaker, EqMap, LtMap, Pairs

\* The points that Successors relates: all, or the active ones.
LEMMA SuccessorsAreAdjacent ==
  ASSUME NEW map, NEW pattern, IsBox(Box(map)), NDims(Box(map)) # 0
  PROVE  Successors(Box(map), pattern.active) = Adjacent(Iterations(map, pattern))
<1>. DEFINE box == Box(map)
            points == Iterations(map, pattern)
            all == MapToNext(box, TRUE)
<1>. HIDE DEF box
<1>0. IsBox(box) /\ NDims(box) # 0
  BY DEF box
<1>1. CASE pattern.active = << >>
  <2>1. points = box /\ Successors(box, pattern.active) = MapToNext(box, FALSE)
    BY <1>1 DEF Iterations, Successors, box
  <2>2. ASSUME NEW p \in box, NEW q \in box
        PROVE  <<p, q>> \in MapToNext(box, FALSE) <=> <<p, q>> \in Adjacent(box)
    <3>1. Last(p) \in Int /\ Last(q) \in Int /\ \A r \in box : Last(r) \in Int
      BY <1>0, PointOfRow
    <3>2. ASSUME SameRow(p, q), Last(p) < Last(q),
                 \A r \in box : SameRow(p, r) /\ Last(p) < Last(r) => Last(q) <= Last(r)
          PROVE  Last(q) = Last(p) + 1
      <4>1. Last(p) + 1 \in Last(p)..Last(q)
        BY <3>1, <3>2
      <4>2. PICK r \in box : SameRow(p, r) /\ Last(r) = Last(p) + 1
        BY <1>0, <3>2, <4>1, RowIsConvex
      <4>. QED  BY <3>1, <3>2, <4>2
    <3>3. <<p, q>> \in MapToNext(box, FALSE) <=> SameRow(p, q) /\ Last(q) = Last(p) + 1
      BY <1>0, NextInRow
    <3>4. <<p, q>> \in Adjacent(box) <=>
            /\ SameRow(p, q) /\ Last(p) < Last(q)
            /\ \A r \in box : SameRow(p, r) /\ Last(p) < Last(r) => Last(q) <= Last(r)
      BY DEF Adjacent
    <3>5. Last(q) = Last(p) + 1 =>
            /\ Last(p) < Last(q)
            /\ \A r \in box : Last(p) < Last(r) => Last(q) <= Last(r)
      BY <3>1
    <3>. QED  BY <3>2, <3>3, <3>4, <3>5
  <2>3. MapToNext(box, FALSE) \subseteq box \X box /\ Adjacent(box) \subseteq box \X box
    BY <1>0, MapToNextInBox DEF Adjacent
  <2>4. MapToNext(box, FALSE) = Adjacent(box)
    BY <2>2, <2>3, SamePairs
  <2>. QED  BY <2>1, <2>4 DEF box
<1>2. CASE pattern.active # << >>
  <2>. DEFINE S == pattern.active[1]
              pairs == all \cap (S \X S)
  <2>1. points = S \cap box /\ Successors(box, pattern.active) = Lexmin(pairs)
    <3>1. points = S \cap Box(map)
      BY <1>2 DEF Iterations
    <3>2. Successors(box, pattern.active)
            = Lexmin(MapToNext(box, TRUE) \cap (pattern.active[1] \X pattern.active[1]))
      BY <1>2, Zenon DEF Successors
    <3>. QED  BY <3>1, <3>2, Zenon DEF box
  <2>2. pairs \subseteq points \X points
    <3>1. all \subseteq box \X box
      BY <1>0, MapToNextInBox
    <3>. HIDE DEF all, points, S
    <3>. QED  BY <2>1, <3>1
  <2>3. ASSUME NEW p \in points, NEW q \in points
        PROVE  <<p, q>> \in pairs <=> SameRow(p, q) /\ Last(p) < Last(q)
    BY <1>0, <2>1, <2>3, NextInRow
  <2>. HIDE DEF pairs, points
  <2>4. ASSUME NEW p \in points, NEW q \in points
        PROVE  <<p, q>> \in Lexmin(pairs) <=> <<p, q>> \in Adjacent(points)
    <3>1. /\ Last(p) \in Int /\ Last(q) \in Int /\ \A r \in points : Last(r) \in Int
          /\ p \in box /\ q \in box /\ \A r \in points : r \in box
      BY <1>0, <2>1, PointOfRow
    <3>2. <<p, q>> \in Lexmin(pairs) <=>
            /\ SameRow(p, q) /\ Last(p) < Last(q)
            /\ \A r \in points : SameRow(p, r) /\ Last(p) < Last(r)
                                   => r = q \/ Last(q) < Last(r)
      <4>1. <<p, q>> \in Lexmin(pairs) <=>
              /\ <<p, q>> \in pairs
              /\ \A pr \in pairs : pr[1] = p => pr[2] = q \/ Last(q) < Last(pr[2])
        BY DEF Lexmin
      <4>2. (\A pr \in pairs : pr[1] = p => pr[2] = q \/ Last(q) < Last(pr[2]))
              <=> \A r \in points : <<p, r>> \in pairs => r = q \/ Last(q) < Last(r)
        <5>1. \A pr \in pairs : pr[1] = p => pr[2] \in points /\ <<p, pr[2]>> \in pairs
          BY <2>2
        <5>2. \A r \in points : <<p, r>>[1] = p /\ <<p, r>>[2] = r
          OBVIOUS
        <5>. QED  BY <5>1, <5>2
      <4>. QED  BY <2>3, <4>1, <4>2
    <3>3. <<p, q>> \in Adjacent(points) <=>
            /\ SameRow(p, q) /\ Last(p) < Last(q)
            /\ \A r \in points : SameRow(p, r) /\ Last(p) < Last(r)
                                   => Last(q) <= Last(r)
      BY DEF Adjacent
    <3>4. ASSUME SameRow(p, q), NEW r \in points, SameRow(p, r), Last(q) = Last(r)
          PROVE  r = q
      <4>1. SameRow(q, r)
        BY <1>0, <3>1, <3>4, RowsAreEqual
      <4>. QED  BY <1>0, <3>1, <3>4, <4>1, PointOfRow
    <3>. QED  BY <3>1, <3>2, <3>3, <3>4
  <2>5. Lexmin(pairs) \subseteq points \X points /\ Adjacent(points) \subseteq points \X points
    BY <2>2 DEF Lexmin, Adjacent
  <2>6. Lexmin(pairs) = Adjacent(points)
    BY <2>4, <2>5, SamePairs
  <2>. QED  BY <2>1, <2>6 DEF box, points
<1>. QED  BY <1>1, <1>2

-----------------------------------------------------------------------------
(* Runs *)

\* A one-dimensional map over a box and a stride pattern.
IsStrideMap(map, pattern) ==
  /\ IsBox(Box(map)) /\ NDims(Box(map)) # 0
  /\ \A p \in Box(map) : map[p] \subseteq Int
  /\ pattern.stride \in Int

LEMMA IterationsOfMap ==
  ASSUME NEW map, NEW pattern, IsStrideMap(map, pattern)
  PROVE  /\ Iterations(map, pattern) \subseteq Box(map)
         /\ IsFiniteSet(Iterations(map, pattern))
         /\ \A p \in Iterations(map, pattern) :
              /\ p \in Box(map) /\ map[p] \subseteq Int /\ Last(p) \in Int
              /\ \A q \in Iterations(map, pattern) :
                   SameRow(p, q) /\ Last(p) = Last(q) => p = q
         /\ \A p, q \in Iterations(map, pattern) : SameRow(p, q) => SameRow(q, p)
         /\ \A p, q, r \in Iterations(map, pattern) :
              SameRow(p, q) /\ SameRow(q, r) => SameRow(p, r)
<1>1. Iterations(map, pattern) \subseteq Box(map)
  BY DEF Iterations
<1>2. IsBox(Box(map)) /\ NDims(Box(map)) # 0 /\ \A p \in Box(map) : map[p] \subseteq Int
  BY DEF IsStrideMap
<1>3. IsFiniteSet(Box(map))
  BY <1>2 DEF IsBox
<1>4. IsFiniteSet(Iterations(map, pattern))
  BY <1>1, <1>3, FS_Subset
<1>5. ASSUME NEW p \in Iterations(map, pattern), NEW q \in Iterations(map, pattern)
      PROVE  /\ p \in Box(map) /\ map[p] \subseteq Int /\ Last(p) \in Int
             /\ SameRow(p, q) /\ Last(p) = Last(q) => p = q
             /\ SameRow(p, q) => SameRow(q, p)
  <2>1. p \in Box(map) /\ q \in Box(map)
    BY <1>1
  <2>. QED  BY <1>2, <2>1, PointOfRow, RowsAreEqual
<1>6. ASSUME NEW p \in Iterations(map, pattern), NEW q \in Iterations(map, pattern),
             NEW r \in Iterations(map, pattern), SameRow(p, q), SameRow(q, r)
      PROVE  SameRow(p, r)
  <2>1. p \in Box(map) /\ q \in Box(map) /\ r \in Box(map)
    BY <1>1
  <2>. QED  BY <1>2, <1>6, <2>1, RowsAreEqual
<1>. QED  BY <1>1, <1>4, <1>5, <1>6

\* Between adjacent iterations there is only the second one.
LEMMA BetweenAdjacent ==
  ASSUME NEW map, NEW pattern, IsStrideMap(map, pattern),
         NEW p, NEW q, <<p, q>> \in Adjacent(Iterations(map, pattern))
  PROVE  /\ p \in Iterations(map, pattern) /\ q \in Iterations(map, pattern)
         /\ SameRow(p, q) /\ Last(p) < Last(q)
         /\ Between(map, pattern, p, q) = {q}
<1>. DEFINE I == Iterations(map, pattern)
<1>1. /\ p \in I /\ q \in I /\ SameRow(p, q) /\ Last(p) < Last(q)
      /\ \A r \in I : SameRow(p, r) /\ Last(p) < Last(r) => Last(q) <= Last(r)
  BY DEF Adjacent
<1>2. /\ \A r \in I : /\ Last(r) \in Int
                      /\ SameRow(r, q) /\ Last(r) = Last(q) => r = q
      /\ \A r \in I : SameRow(q, r) => SameRow(r, q)
      /\ SameRow(q, q)
  <2>1. q \in Box(map) /\ IsBox(Box(map))
    BY <1>1, IterationsOfMap DEF IsStrideMap
  <2>2. SameRow(q, q)
    BY <2>1, RowsAreEqual
  <2>. QED  BY <1>1, <2>2, IterationsOfMap
<1>3. ASSUME NEW r \in Between(map, pattern, p, q) PROVE r = q
  <2>1. /\ r \in I /\ SameRow(p, r) /\ SameRow(r, q)
        /\ Last(p) < Last(r) /\ Last(r) <= Last(q)
    BY <1>3 DEF Between
  <2>. HIDE DEF I
  <2>. QED  BY <1>1, <1>2, <2>1
<1>4. q \in Between(map, pattern, p, q)
  <2>1. Last(q) <= Last(q)
    BY <1>1, <1>2
  <2>. QED  BY <1>1, <1>2, <2>1 DEF Between
<1>. QED  BY <1>1, <1>3, <1>4

\* The iteration of a row that comes right before q, if there is one after p.
LEMMA Predecessor ==
  ASSUME NEW map, NEW pattern, IsStrideMap(map, pattern),
         NEW p \in Iterations(map, pattern), NEW q \in Iterations(map, pattern),
         SameRow(p, q), Last(p) < Last(q)
  PROVE  \E r \in Iterations(map, pattern) :
           /\ <<r, q>> \in Adjacent(Iterations(map, pattern))
           /\ SameRow(p, r) /\ Last(p) <= Last(r) /\ Last(r) < Last(q)
<1>. DEFINE I == Iterations(map, pattern)
            before == {r \in I : SameRow(p, r) /\ Last(p) <= Last(r) /\ Last(r) < Last(q)}
            distances == {Last(q) - Last(r) : r \in before}
<1>1. /\ \A r \in I : Last(r) \in Int
      /\ \A r, s \in I : SameRow(r, s) => SameRow(s, r)
      /\ \A r, s, t \in I : SameRow(r, s) /\ SameRow(s, t) => SameRow(r, t)
      /\ SameRow(p, p)
  <2>1. p \in Box(map) /\ IsBox(Box(map))
    BY IterationsOfMap DEF IsStrideMap
  <2>2. SameRow(p, p)
    BY <2>1, RowsAreEqual
  <2>. QED  BY <2>2, IterationsOfMap
<1>. HIDE DEF I
<1>0. p \in I /\ q \in I
  BY DEF I
<1>2. p \in before
  BY <1>0, <1>1
<1>3. distances \subseteq Nat /\ distances # {}
  BY <1>0, <1>1, <1>2
<1>. HIDE DEF distances
<1>4. PICK d \in distances : \A e \in distances : d <= e
  BY <1>3, LeastElement
<1>5. PICK r \in before : d = Last(q) - Last(r)
  BY <1>4 DEF distances
<1>6. \A s \in before : Last(q) - Last(s) \in distances
  BY DEF distances
<1>7. \A s \in before : Last(s) <= Last(r)
  BY <1>0, <1>1, <1>4, <1>5, <1>6
<1>8. ASSUME NEW s \in I, SameRow(r, s), Last(r) < Last(s)
      PROVE  Last(q) <= Last(s)
  <2>1. SameRow(p, s)
    BY <1>0, <1>1, <1>5, <1>8
  <2>. QED  BY <1>0, <1>1, <1>5, <1>7, <1>8, <2>1
<1>9. SameRow(r, q)
  BY <1>0, <1>1, <1>5
<1>10. <<r, q>> \in Adjacent(I)
  BY <1>0, <1>5, <1>8, <1>9 DEF Adjacent
<1>. QED  BY <1>5, <1>10 DEF I

\* The iteration that comes right after p.
LEMMA Successor ==
  ASSUME NEW map, NEW pattern, IsStrideMap(map, pattern),
         NEW p \in Iterations(map, pattern), NEW q \in Iterations(map, pattern),
         SameRow(p, q), Last(p) < Last(q)
  PROVE  \E r \in Between(map, pattern, p, q) :
           <<p, r>> \in Adjacent(Iterations(map, pattern))
<1>. DEFINE I == Iterations(map, pattern)
            after == {r \in I : SameRow(p, r) /\ Last(p) < Last(r)}
            distances == {Last(r) - Last(p) : r \in after}
<1>1. /\ \A r \in I : Last(r) \in Int
      /\ \A r, s \in I : SameRow(r, s) => SameRow(s, r)
      /\ \A r, s, t \in I : SameRow(r, s) /\ SameRow(s, t) => SameRow(r, t)
  BY IterationsOfMap
<1>. HIDE DEF I
<1>0. p \in I /\ q \in I
  BY DEF I
<1>2. q \in after
  BY <1>0
<1>3. distances \subseteq Nat /\ distances # {}
  BY <1>0, <1>1, <1>2
<1>. HIDE DEF distances
<1>4. PICK d \in distances : \A e \in distances : d <= e
  BY <1>3, LeastElement
<1>5. PICK r \in after : d = Last(r) - Last(p)
  BY <1>4 DEF distances
<1>6. \A s \in after : Last(s) - Last(p) \in distances
  BY DEF distances
<1>7. \A s \in after : Last(r) <= Last(s)
  BY <1>0, <1>1, <1>4, <1>5, <1>6
<1>8. <<p, r>> \in Adjacent(I)
  BY <1>0, <1>5, <1>7 DEF Adjacent
<1>9. Last(r) <= Last(q) /\ SameRow(r, q)
  BY <1>0, <1>1, <1>2, <1>5, <1>7
<1>10. r \in Between(map, pattern, p, q)
  BY <1>5, <1>9 DEF Between, I
<1>. QED  BY <1>8, <1>10 DEF I

\* How the iterations between two are those up to the one before last and the last.
LEMMA BetweenUpTo ==
  ASSUME NEW map, NEW pattern, IsStrideMap(map, pattern),
         NEW p \in Iterations(map, pattern), NEW q \in Iterations(map, pattern),
         NEW r \in Iterations(map, pattern), SameRow(p, q),
         <<r, q>> \in Adjacent(Iterations(map, pattern)),
         SameRow(p, r), Last(p) < Last(r)
  PROVE  /\ Between(map, pattern, p, q) = Between(map, pattern, p, r) \cup {q}
         /\ q \notin Between(map, pattern, p, r)
         /\ r \in Between(map, pattern, p, r)
         /\ IsFiniteSet(Between(map, pattern, p, r))
<1>. DEFINE I == Iterations(map, pattern)
<1>1. /\ \A s \in I : Last(s) \in Int
      /\ \A s, t \in I : SameRow(s, t) /\ Last(s) = Last(t) => s = t
      /\ \A s, t \in I : SameRow(s, t) => SameRow(t, s)
      /\ \A s, t, u \in I : SameRow(s, t) /\ SameRow(t, u) => SameRow(s, u)
      /\ IsFiniteSet(I)
  BY IterationsOfMap
<1>2. /\ SameRow(r, q) /\ Last(r) < Last(q)
      /\ \A s \in I : SameRow(r, s) /\ Last(r) < Last(s) => Last(q) <= Last(s)
  BY DEF Adjacent
<1>3. \A s, t : s \in Between(map, pattern, p, t) <=>
        /\ s \in I /\ SameRow(p, s) /\ SameRow(s, t)
        /\ Last(p) < Last(s) /\ Last(s) <= Last(t)
  BY DEF Between
<1>. HIDE DEF I
<1>0. p \in I /\ q \in I /\ r \in I
  BY DEF I
<1>4. SameRow(r, r) /\ SameRow(q, q)
  BY <1>0, <1>1, <1>2
<1>5. ASSUME NEW s \in I, SameRow(p, s), Last(p) < Last(s)
      PROVE  (SameRow(s, q) /\ Last(s) <= Last(q))
               <=> (SameRow(s, r) /\ Last(s) <= Last(r)) \/ s = q
  <2>1. SameRow(r, s) /\ SameRow(s, r) /\ SameRow(s, q)
    BY <1>0, <1>1, <1>2, <1>5
  <2>2. Last(s) \in Int /\ Last(q) \in Int /\ Last(r) \in Int
    BY <1>0, <1>1
  <2>3. Last(r) < Last(s) => Last(q) <= Last(s)
    BY <1>2, <2>1
  <2>4. Last(s) = Last(q) => s = q
    BY <1>0, <1>1, <2>1
  <2>. QED  BY <1>2, <2>1, <2>2, <2>3, <2>4
<1>6. Last(p) < Last(q)
  BY <1>0, <1>1, <1>2
<1>7. Between(map, pattern, p, q) = Between(map, pattern, p, r) \cup {q}
  <2>1. ASSUME NEW s
        PROVE  s \in Between(map, pattern, p, q)
                 <=> s \in Between(map, pattern, p, r) \cup {q}
    BY <1>0, <1>3, <1>5, <1>6
  <2>. QED  BY <2>1
<1>8. q \notin Between(map, pattern, p, r)
  <2>1. ~ (Last(q) <= Last(r))
    BY <1>0, <1>1, <1>2
  <2>. QED  BY <1>3, <2>1
<1>9. r \in Between(map, pattern, p, r)
  <2>1. Last(r) <= Last(r)
    BY <1>0, <1>1
  <2>. QED  BY <1>0, <1>3, <1>4, <2>1
<1>10. IsFiniteSet(Between(map, pattern, p, r))
  BY <1>1, FS_Subset DEF Between, I
<1>. QED  BY <1>7, <1>8, <1>9, <1>10

-----------------------------------------------------------------------------
(* The test on successors and what it says of runs *)

LEMMA DeltasOfPairs ==
  ASSUME NEW map, NEW pairs
  PROVE  \A v : v \in Deltas(map, pairs) <=>
           \E pq \in pairs : \E a \in map[pq[1]], b \in map[pq[2]] : v = b - a
BY DEF Deltas

LEMMA HasStrideMeans ==
  ASSUME NEW map, NEW pattern
  PROVE  HasStride(map, pattern) <=>
           LET deltas == Deltas(map, Successors(Box(map), pattern.active))
           IN  deltas # {} /\ \A v \in deltas : v = pattern.stride
<1>. DEFINE deltas == Deltas(map, Successors(Box(map), pattern.active))
            strided == SetMaker("==", [v \in deltas |-> pattern.stride], [v \in deltas |-> v])
<1>1. HasStride(map, pattern) <=> deltas # {} /\ deltas \subseteq strided
  BY DEF HasStride
<1>. HIDE DEF deltas
<1>2. strided = {v \in deltas : v = pattern.stride}
  BY DEF SetMaker, EqSet, Common
<1>. QED  BY <1>1, <1>2 DEF deltas

LEMMA NextMultiple ==
  ASSUME NEW s \in Int, NEW n \in Nat
  PROVE  s * (n + 1) = s * n + s
OBVIOUS

\* Along a run every step between successive iterations adds the stride.
LEMMA StepsAddUp ==
  ASSUME NEW map, NEW pattern, IsStrideMap(map, pattern),
         \A v \in Deltas(map, Adjacent(Iterations(map, pattern))) : v = pattern.stride
  PROVE  Advances(map, pattern)
<1>. DEFINE I == Iterations(map, pattern)
            card(p, q) == Cardinality(Between(map, pattern, p, q))
            Good(p, q) == \A a \in map[p], b \in map[q] :
                            b - a = pattern.stride * card(p, q)
            bad == {pq \in Runs(map, pattern) : ~ Good(pq[1], pq[2])}
            lengths == {Last(pq[2]) - Last(pq[1]) : pq \in bad}
<1>. SUFFICES ASSUME bad # {} PROVE FALSE
  BY DEF Advances
<1>1. /\ \A p \in I : map[p] \subseteq Int /\ Last(p) \in Int
      /\ \A p, q \in I : SameRow(p, q) => SameRow(q, p)
      /\ \A p, q, r \in I : SameRow(p, q) /\ SameRow(q, r) => SameRow(p, r)
  BY IterationsOfMap
<1>2. pattern.stride \in Int
  BY DEF IsStrideMap
<1>3. \A p, q : <<p, q>> \in Runs(map, pattern) <=>
        /\ p \in I /\ q \in I
        /\ SameRow(p, q) /\ Last(p) < Last(q)
        /\ p \in Domain(map) /\ Between(map, pattern, p, q) \subseteq Domain(map)
  BY DEF Runs
<1>4. \A pq \in bad : pq = <<pq[1], pq[2]>> /\ pq \in Runs(map, pattern)
  BY DEF Runs
<1>5. \A p, q \in I : <<p, q>> \in Adjacent(I) =>
        \A a \in map[p], b \in map[q] : b - a = pattern.stride
  <2>1. ASSUME NEW p \in I, NEW q \in I, <<p, q>> \in Adjacent(I),
               NEW a \in map[p], NEW b \in map[q]
        PROVE  b - a = pattern.stride
    <3>1. <<p, q>>[1] = p /\ <<p, q>>[2] = q
      OBVIOUS
    <3>2. b - a \in Deltas(map, Adjacent(I))
      BY <2>1, <3>1, DeltasOfPairs
    <3>. QED  BY <3>2
  <2>. QED  BY <2>1
<1>6. lengths \subseteq Nat /\ lengths # {}
  <2>1. \A pq \in bad : /\ Last(pq[1]) \in Int /\ Last(pq[2]) \in Int
                        /\ Last(pq[1]) < Last(pq[2])
    BY <1>1, <1>3, <1>4
  <2>. HIDE DEF bad
  <2>. QED  BY <2>1
<1>. HIDE DEF I, lengths, card
<1>7. PICK least \in lengths : \A n \in lengths : least <= n
  BY <1>6, LeastElement
<1>8. PICK pq \in bad : least = Last(pq[2]) - Last(pq[1])
  BY <1>7 DEF lengths
<1>. DEFINE p == pq[1]
            q == pq[2]
<1>9. <<p, q>> \in Runs(map, pattern) /\ ~ Good(p, q)
  <2>1. pq = <<p, q>> /\ pq \in bad
    BY <1>4
  <2>. QED  BY <2>1
<1>. HIDE DEF p, q
<1>10. /\ p \in I /\ q \in I
       /\ SameRow(p, q) /\ Last(p) < Last(q)
       /\ p \in Domain(map) /\ Between(map, pattern, p, q) \subseteq Domain(map)
  BY <1>3, <1>9
<1>11. PICK r \in I : /\ <<r, q>> \in Adjacent(I)
                      /\ SameRow(p, r) /\ Last(p) <= Last(r) /\ Last(r) < Last(q)
  BY <1>10, Predecessor DEF I
<1>12. CASE Last(r) = Last(p)
  <2>1. r = p
    BY <1>10, <1>11, <1>12, IterationsOfMap DEF I
  <2>2. Between(map, pattern, p, q) = {q}
    BY <1>11, <2>1, BetweenAdjacent DEF I
  <2>3. card(p, q) = 1
    BY <2>2, FS_Singleton DEF card
  <2>4. pattern.stride * card(p, q) = pattern.stride
    BY <1>2, <2>3
  <2>. QED  BY <1>5, <1>9, <1>10, <1>11, <2>1, <2>4
<1>13. CASE Last(p) < Last(r)
  <2>1. /\ Between(map, pattern, p, q) = Between(map, pattern, p, r) \cup {q}
        /\ q \notin Between(map, pattern, p, r)
        /\ r \in Between(map, pattern, p, r)
        /\ IsFiniteSet(Between(map, pattern, p, r))
    BY <1>10, <1>11, <1>13, BetweenUpTo DEF I
  <2>2. card(p, q) = card(p, r) + 1 /\ card(p, r) \in Nat
    <3>. DEFINE B == Between(map, pattern, p, r)
    <3>1. IsFiniteSet(B) /\ q \notin B
      BY <2>1
    <3>. HIDE DEF B
    <3>2. Cardinality(B \cup {q}) = Cardinality(B) + 1 /\ Cardinality(B) \in Nat
      BY <3>1, FS_AddElement, FS_CardinalityType
    <3>. QED  BY <2>1, <3>2 DEF card, B
  <2>3. <<p, r>> \in Runs(map, pattern)
    BY <1>3, <1>10, <1>11, <1>13, <2>1
  <2>4. Good(p, r)
    <3>1. SUFFICES ASSUME ~ Good(p, r) PROVE FALSE
      OBVIOUS
    <3>2. <<p, r>> \in bad
      BY <2>3, <3>1
    <3>3. Last(r) - Last(p) \in lengths
      BY <3>2 DEF lengths
    <3>4. least <= Last(r) - Last(p)
      BY <1>7, <3>3
    <3>5. least = Last(q) - Last(p)
      BY <1>8 DEF p, q
    <3>. QED  BY <1>1, <1>10, <1>11, <3>4, <3>5
  <2>5. PICK c : c \in map[r]
    BY <1>10, <2>1 DEF Domain
  <2>6. ASSUME NEW a \in map[p], NEW b \in map[q]
        PROVE  b - a = pattern.stride * card(p, q)
    <3>1. a \in Int /\ b \in Int /\ c \in Int
      BY <1>1, <1>10, <1>11, <2>5, <2>6
    <3>2. c - a = pattern.stride * card(p, r)
      BY <2>4, <2>5
    <3>3. b - c = pattern.stride
      BY <1>5, <1>10, <1>11, <2>5
    <3>4. pattern.stride * card(p, q) = pattern.stride * card(p, r) + pattern.stride
      BY <1>2, <2>2, NextMultiple
    <3>5. b - a = (b - c) + (c - a)
      BY <3>1
    <3>6. pattern.stride * card(p, r) \in Int
      BY <1>2, <2>2
    <3>. QED  BY <1>2, <3>2, <3>3, <3>4, <3>5, <3>6
  <2>. QED  BY <1>9, <2>6
<1>14. Last(p) \in Int /\ Last(r) \in Int
  BY <1>1, <1>10, <1>11
<1>. QED  BY <1>11, <1>12, <1>13, <1>14

\* If both perform the access, adjacent iterations are a run of their own.
LEMMA AdjacentIsRun ==
  ASSUME NEW map, NEW pattern, IsStrideMap(map, pattern),
         NEW p, NEW q, <<p, q>> \in Adjacent(Iterations(map, pattern)),
         map[p] # {}, map[q] # {}
  PROVE  <<p, q>> \in Runs(map, pattern)
<1>1. /\ p \in Iterations(map, pattern) /\ q \in Iterations(map, pattern)
      /\ SameRow(p, q) /\ Last(p) < Last(q)
      /\ Between(map, pattern, p, q) = {q}
  BY BetweenAdjacent
<1>2. p \in Box(map) /\ q \in Box(map)
  BY <1>1, IterationsOfMap
<1>3. p \in Domain(map) /\ q \in Domain(map)
  BY <1>2 DEF Box, Domain
<1>. QED  BY <1>1, <1>3 DEF Runs

LEMMA StrideOfNest ==
  ASSUME NEW map, NEW pattern, IsStrideMap(map, pattern)
  PROVE  HasStride(map, pattern) <=> Runs(map, pattern) # {} /\ Advances(map, pattern)
<1>. DEFINE I == Iterations(map, pattern)
            deltas == Deltas(map, Adjacent(I))
<1>1. HasStride(map, pattern) <=> deltas # {} /\ \A v \in deltas : v = pattern.stride
  <2>1. Successors(Box(map), pattern.active) = Adjacent(I)
    BY SuccessorsAreAdjacent DEF IsStrideMap
  <2>. QED  BY <2>1, HasStrideMeans
<1>2. \A v : v \in deltas <=>
        \E pq \in Adjacent(I) : \E a \in map[pq[1]], b \in map[pq[2]] : v = b - a
  BY DeltasOfPairs
<1>3. \A pq \in Adjacent(I) : pq = <<pq[1], pq[2]>>
  BY DEF Adjacent
<1>. HIDE DEF deltas
<1>4. ASSUME deltas # {} PROVE Runs(map, pattern) # {}
  <2>1. PICK pq \in Adjacent(I) : map[pq[1]] # {} /\ map[pq[2]] # {}
    BY <1>2, <1>4
  <2>2. <<pq[1], pq[2]>> \in Adjacent(I)
    BY <1>3
  <2>3. <<pq[1], pq[2]>> \in Runs(map, pattern)
    BY <2>1, <2>2, AdjacentIsRun
  <2>. QED  BY <2>3
<1>5. ASSUME Runs(map, pattern) # {} PROVE deltas # {}
  <2>1. PICK pq \in Runs(map, pattern) : TRUE
    BY <1>5
  <2>2. /\ pq[1] \in I /\ pq[2] \in I
        /\ SameRow(pq[1], pq[2]) /\ Last(pq[1]) < Last(pq[2])
        /\ pq[1] \in Domain(map)
        /\ Between(map, pattern, pq[1], pq[2]) \subseteq Domain(map)
    BY <2>1 DEF Runs
  <2>3. PICK r \in Between(map, pattern, pq[1], pq[2]) : <<pq[1], r>> \in Adjacent(I)
    BY <2>2, Successor
  <2>4. map[pq[1]] # {} /\ map[r] # {}
    BY <2>2, <2>3 DEF Domain
  <2>5. PICK a \in map[pq[1]] : TRUE
    BY <2>4
  <2>6. PICK b \in map[r] : TRUE
    BY <2>4
  <2>7. /\ <<pq[1], r>>[1] = pq[1] /\ <<pq[1], r>>[2] = r
    OBVIOUS
  <2>8. b - a \in deltas
    BY <1>2, <2>3, <2>5, <2>6, <2>7
  <2>. QED  BY <2>8
<1>6. ASSUME Advances(map, pattern), NEW v \in deltas PROVE v = pattern.stride
  <2>1. PICK pq \in Adjacent(I) : \E a \in map[pq[1]], b \in map[pq[2]] : v = b - a
    BY <1>2, <1>6
  <2>2. PICK a \in map[pq[1]], b \in map[pq[2]] : v = b - a
    BY <2>1
  <2>3. <<pq[1], pq[2]>> \in Adjacent(I)
    BY <1>3
  <2>4. <<pq[1], pq[2]>> \in Runs(map, pattern)
    BY <2>2, <2>3, AdjacentIsRun
  <2>5. Between(map, pattern, pq[1], pq[2]) = {pq[2]}
    BY <2>3, BetweenAdjacent
  <2>6. Cardinality(Between(map, pattern, pq[1], pq[2])) = 1
    BY <2>5, FS_Singleton
  <2>7. b - a = pattern.stride * Cardinality(Between(map, pattern, pq[1], pq[2]))
    <3>1. /\ <<pq[1], pq[2]>>[1] = pq[1] /\ <<pq[1], pq[2]>>[2] = pq[2]
      OBVIOUS
    <3>. QED  BY <1>6, <2>2, <2>4, <3>1 DEF Advances
  <2>8. pattern.stride \in Int
    BY DEF IsStrideMap
  <2>. QED  BY <2>2, <2>6, <2>7, <2>8
<1>7. (\A v \in deltas : v = pattern.stride) => Advances(map, pattern)
  BY StepsAddUp DEF deltas
<1>. QED  BY <1>1, <1>4, <1>5, <1>6, <1>7

\* A statement without loops has one iteration, which succeeds itself.
LEMMA StrideOfScalar ==
  ASSUME NEW map, NEW pattern, IsBox(Box(map)), NDims(Box(map)) = 0,
         \A p \in Box(map) : map[p] \subseteq Int, pattern.stride \in Int
  PROVE  HasStride(map, pattern) <=>
           /\ pattern.stride = 0 /\ Iterations(map, pattern) # {}
           /\ \A p \in Iterations(map, pattern) : \E v \in map[p] : map[p] = {v}
<1>. DEFINE I == Iterations(map, pattern)
            box == Box(map)
            e == << >>
            deltas == Deltas(map, I \X I)
<1>1. box = {e}
  <2>1. \A p \in box : p = e
    <3>1. \A p \in box : p \in Seq(Int) /\ Len(p) = 0
      BY DimOfBox
    <3>. QED  BY <3>1
  <2>2. box # {}
    BY DEF IsBox
  <2>. QED  BY <2>1, <2>2
<1>2. I = {} \/ I = {e}
  BY <1>1 DEF Iterations
<1>3. Successors(box, pattern.active) = I \X I
  <2>1. MapToNext(box, FALSE) = box \X box /\ MapToNext(box, TRUE) = box \X box
    BY DEF MapToNext
  <2>2. CASE pattern.active = << >>
    <3>1. I = box
      BY <2>2 DEF Iterations
    <3>. QED  BY <2>1, <2>2, <3>1 DEF Successors
  <2>3. CASE pattern.active # << >>
    <3>1. I = pattern.active[1] \cap box
      BY <2>3 DEF Iterations
    <3>. HIDE DEF box, I
    <3>2. Successors(box, pattern.active)
            = Lexmin((box \X box) \cap (pattern.active[1] \X pattern.active[1]))
      BY <2>1, <2>3, Zenon DEF Successors
    <3>3. (box \X box) \cap (pattern.active[1] \X pattern.active[1]) = I \X I
      BY <3>1
    <3>4. Lexmin(I \X I) = I \X I
      BY <1>2 DEF Lexmin
    <3>. QED  BY <3>2, <3>3, <3>4
  <2>. QED  BY <2>2, <2>3
<1>4. HasStride(map, pattern) <=> deltas # {} /\ \A v \in deltas : v = pattern.stride
  BY <1>3, HasStrideMeans
<1>5. \A v : v \in deltas <=>
        \E pq \in I \X I : \E a \in map[pq[1]], b \in map[pq[2]] : v = b - a
  <2>. DEFINE pairs == I \X I
  <2>. HIDE DEF pairs
  <2>1. \A v : v \in Deltas(map, pairs) <=>
          \E pq \in pairs : \E a \in map[pq[1]], b \in map[pq[2]] : v = b - a
    BY DeltasOfPairs
  <2>. QED  BY <2>1 DEF pairs
<1>. HIDE DEF deltas, I, box
<1>6. CASE I = {}
  <2>1. I \X I = {}
    BY <1>6
  <2>2. deltas = {}
    BY <1>5, <2>1
  <2>3. ~ HasStride(map, pattern)
    BY <1>4, <2>2
  <2>4. Iterations(map, pattern) = {}
    BY <1>6 DEF I
  <2>. QED  BY <2>3, <2>4
<1>7. CASE I = {e}
  <2>1. \A v : v \in deltas <=> \E a \in map[e], b \in map[e] : v = b - a
    <3>. HIDE DEF e
    <3>1. \A pq : pq \in I \X I <=> pq = <<e, e>>
      BY <1>7
    <3>2. <<e, e>>[1] = e /\ <<e, e>>[2] = e
      OBVIOUS
    <3>. DEFINE IsDelta(v, p, q) == \E a \in map[p], b \in map[q] : v = b - a
    <3>3. \A v : v \in deltas <=> \E pq \in I \X I : IsDelta(v, pq[1], pq[2])
      BY <1>5
    <3>. HIDE DEF IsDelta
    <3>4. \A v : v \in deltas <=> IsDelta(v, e, e)
      <4>1. ASSUME NEW v \in deltas PROVE IsDelta(v, e, e)
        <5>1. PICK pq \in I \X I : IsDelta(v, pq[1], pq[2])
          BY <3>3
        <5>2. pq[1] = e /\ pq[2] = e
          BY <3>1
        <5>. QED  BY <5>1, <5>2
      <4>2. ASSUME NEW v, IsDelta(v, e, e) PROVE v \in deltas
        <5>1. <<e, e>> \in I \X I
          BY <3>1
        <5>. QED  BY <3>2, <3>3, <4>2, <5>1
      <4>. QED  BY <4>1, <4>2
    <3>. QED  BY <3>4 DEF IsDelta
  <2>2. map[e] \subseteq Int
    BY <1>1 DEF box
  <2>3. ASSUME deltas # {}, \A v \in deltas : v = pattern.stride
        PROVE  pattern.stride = 0 /\ \E v \in map[e] : map[e] = {v}
    <3>1. PICK a \in map[e] : TRUE
      BY <2>1, <2>3
    <3>2. a - a \in deltas
      BY <2>1, <3>1
    <3>3. pattern.stride = 0
      BY <2>2, <2>3, <3>1, <3>2
    <3>4. ASSUME NEW b \in map[e] PROVE b = a
      <4>1. b - a \in deltas
        BY <2>1, <3>1
      <4>. QED  BY <2>2, <2>3, <3>1, <3>3, <4>1
    <3>. QED  BY <3>1, <3>3, <3>4
  <2>4. ASSUME pattern.stride = 0, NEW v \in map[e], map[e] = {v}
        PROVE  deltas # {} /\ \A w \in deltas : w = pattern.stride
    <3>1. v - v \in deltas
      BY <2>1
    <3>2. \A w \in deltas : w = v - v
      BY <2>1, <2>4
    <3>3. v - v = 0
      BY <2>2
    <3>. QED  BY <2>4, <3>1, <3>2, <3>3
  <2>5. (\A p \in I : \E v \in map[p] : map[p] = {v}) <=> \E v \in map[e] : map[e] = {v}
    BY <1>7
  <2>6. I # {}
    BY <1>7
  <2>. QED  BY <1>4, <2>3, <2>4, <2>5, <2>6 DEF I
<1>. QED  BY <1>2, <1>6, <1>7

\* A stride pattern has a candidate exactly in the relations that advance by
\* its stride along every run of the innermost loop: the test compares only
\* successive iterations, but the sum of its steps covers runs of any length.
THEOREM CandidatesAreStrided ==
  ASSUME NEW relation, NEW pattern, IsRelation(relation), IsStridePattern(pattern)
  PROVE  /\ IsStrided(relation, pattern) =>
              StrideCandidates(relation, pattern) = <<StrideCandidate>>
         /\ ~ IsStrided(relation, pattern) =>
              StrideCandidates(relation, pattern) = << >>
<1>. DEFINE map == AtPosition(relation, pattern)
            pos == Position(relation, pattern)
<1>1. /\ StrideCandidates(relation, pattern)
           = IF InRange(relation, pattern) /\ HasStride(map, pattern)
               THEN <<StrideCandidate>> ELSE << >>
  BY DEF StrideCandidates
<1>2. IsStrided(relation, pattern) <=>
        /\ InRange(relation, pattern)
        /\ IF NDims(Box(map)) = 0
             THEN /\ pattern.stride = 0 /\ Iterations(map, pattern) # {}
                  /\ \A p \in Iterations(map, pattern) :
                       \E v \in map[p] : map[p] = {v}
             ELSE Runs(map, pattern) # {} /\ Advances(map, pattern)
  BY DEF IsStrided
<1>3. ASSUME InRange(relation, pattern)
      PROVE  /\ IsBox(Box(map)) /\ pattern.stride \in Int
             /\ \A p \in Box(map) : map[p] \subseteq Int
  <2>1. pattern.stride \in Int /\ IsBox(DOMAIN relation.at)
    BY DEF IsRelation, IsStridePattern
  <2>2. pos + 1 \in 1..relation.dim
    BY <1>3 DEF InRange, IsRelation
  <2>3. Box(map) = DOMAIN relation.at
    BY DEF Box, AtPosition, ProjectOnto
  <2>4. ASSUME NEW p \in DOMAIN relation.at PROVE map[p] \subseteq Int
    <3>1. map[p] = {t[pos + 1] : t \in relation.at[p]}
      BY DEF AtPosition, ProjectOnto
    <3>2. \A t \in relation.at[p] : t \in Seq(Int) /\ Len(t) = relation.dim
      BY DEF IsRelation
    <3>. HIDE DEF pos, map
    <3>3. \A t \in relation.at[p] : t[pos + 1] \in Int
      BY <2>2, <3>2
    <3>. QED  BY <3>1, <3>3
  <2>. QED  BY <2>1, <2>3, <2>4
<1>. HIDE DEF map
<1>4. ASSUME InRange(relation, pattern)
      PROVE  HasStride(map, pattern) <=> IsStrided(relation, pattern)
  <2>1. CASE NDims(Box(map)) = 0
    BY <1>2, <1>3, <1>4, <2>1, StrideOfScalar
  <2>2. CASE NDims(Box(map)) # 0
    <3>1. IsStrideMap(map, pattern)
      BY <1>3, <1>4, <2>2 DEF IsStrideMap
    <3>. QED  BY <1>2, <1>4, <2>2, <3>1, StrideOfNest
  <2>. QED  BY <2>1, <2>2
<1>. QED  BY <1>1, <1>2, <1>4

-----------------------------------------------------------------------------
(* Matches *)

\* Being offered for a stride placeholder means to have its stride.
LEMMA OfferedMeansStrided ==
  ASSUME problem \in Problems, NEW c, NEW i \in 1..Size
  PROVE  IsOffered(c, PS.placeholders[i]) <=>
           /\ c.space \in DOMAIN problem.umap
           /\ IsStrided(problem.umap[c.space], PS.placeholders[i].pattern)
           /\ c.payload = StrideCandidate
<1>. DEFINE relation == problem.umap[c.space]
            pattern == PS.placeholders[i].pattern
            found == Candidates(relation, pattern)
<1>1. IsOffered(c, PS.placeholders[i]) <=>
        /\ c.space \in DOMAIN problem.umap
        /\ \E k \in DOMAIN found : found[k] = c.payload
  BY DEF IsOffered
<1>2. ASSUME c.space \in DOMAIN problem.umap
      PROVE  relation \in Relation /\ pattern \in Pattern
  BY <1>2, ProblemFacts, ProblemsAssumption DEF IsProblem
<1>. HIDE DEF relation, pattern
<1>3. ASSUME relation \in Relation, pattern \in Pattern
      PROVE  /\ IsStrided(relation, pattern) => found = <<StrideCandidate>>
             /\ ~ IsStrided(relation, pattern) => found = << >>
  BY <1>3, StrideAssumption, CandidatesAreStrided
<1>. HIDE DEF found
<1>4. /\ found = << >> => ~ \E k \in DOMAIN found : found[k] = c.payload
      /\ found = <<StrideCandidate>> =>
           ((\E k \in DOMAIN found : found[k] = c.payload) <=> c.payload = StrideCandidate)
  OBVIOUS
<1>5. CASE c.space \in DOMAIN problem.umap
  BY <1>1, <1>2, <1>3, <1>4, <1>5 DEF relation, pattern
<1>6. CASE c.space \notin DOMAIN problem.umap
  BY <1>1, <1>6
<1>. QED  BY <1>5, <1>6

LEMMA MatchesAdvance ==
  ASSUME SearchInv
  PROVE  MatchedAccessesAdvance
<1>1. ASSUME NEW m \in DOMAIN suitableCandidates, NEW i \in DOMAIN suitableCandidates[m]
      PROVE  IsStrided(problem.umap[suitableCandidates[m][i].candidate.space],
                       PS.placeholders[i].pattern)
  <2>. DEFINE c == CombinationOf(suitableCandidates[m])
  <2>1. /\ DOMAIN suitableCandidates[m] = 1..Size
        /\ suitableCandidates[m][i].candidate = c[i]
        /\ IsOffered(c[i], PS.placeholders[i])
    BY MatchProperties DEF SearchInv, IInv
  <2>. HIDE DEF c
  <2>. QED  BY <2>1, OfferedMeansStrided DEF SearchInv
<1>. QED  BY <1>1 DEF MatchedAccessesAdvance

\* A match with a stride placeholder vouches for the whole run: the accesses it
\* is made of form an arithmetic progression along the innermost loop.
THEOREM MatchesAreStrided == Spec => []MatchedAccessesAdvance
<1>1. SearchInv => MatchedAccessesAdvance
  BY MatchesAdvance
<1>. QED  BY <1>1, SearchInvariance, PTL

\* All placeholders are one: relations that have the strides of the lists make
\* an assignment.
LEMMA UniformAssignment ==
  ASSUME problem \in Problems,
         NEW place \in [UsedLists -> DOMAIN problem.umap],
         Injective(place), Abstract!ArraysAgree(problem, place),
         \A i, j \in 1..Size : IdAt(i) = IdAt(j),
         \A l \in UsedLists : \A k \in DOMAIN problem.lists[l] :
           IsStrided(problem.umap[place[l]], problem.lists[l][k].pattern)
  PROVE  [place |-> place, value |-> [id \in {IdAt(i) : i \in 1..Size} |-> StrideCandidate]]
           \in Abstract!Assignments(problem)
<1>. DEFINE Ids == {IdAt(i) : i \in 1..Size}
            value == [id \in Ids |-> StrideCandidate]
            a == [place |-> place, value |-> value]
<1>1. /\ Abstract!UsedLists(problem) = UsedLists
      /\ Abstract!IdsIn(problem) = Ids
  BY PlaceholderAt
<1>2. ASSUME NEW l \in UsedLists, NEW k \in DOMAIN problem.lists[l]
      PROVE  /\ problem.lists[l][k].id \in Ids
             /\ Candidates(problem.umap[place[l]], problem.lists[l][k].pattern)
                  = <<StrideCandidate>>
             /\ StrideCandidate \in Payload
  <2>1. PICK i \in 1..Size : ListAt(i) = l /\ PS.placeholders[i] = problem.lists[l][k]
    BY PlaceholderAt
  <2>2. problem.umap[place[l]] \in Relation /\ problem.lists[l][k].pattern \in Pattern
    BY <2>1, ProblemFacts, ProblemsAssumption DEF IsProblem
  <2>3. IsStrided(problem.umap[place[l]], problem.lists[l][k].pattern)
    OBVIOUS
  <2>. DEFINE r == problem.umap[place[l]]
              p == problem.lists[l][k].pattern
  <2>. HIDE DEF r, p
  <2>4. Candidates(r, p) = <<StrideCandidate>>
    BY <2>2, <2>3, StrideAssumption, CandidatesAreStrided DEF r, p
  <2>5. Candidates(r, p) \in Seq(Payload)
    BY <2>2, CandidatesAssumption DEF r, p
  <2>6. StrideCandidate \in Payload
    BY <2>4, <2>5
  <2>7. problem.lists[l][k].id \in Ids
    BY <2>1 DEF IdAt
  <2>. QED  BY <2>4, <2>6, <2>7 DEF r, p
<1>3. value \in [Ids -> Payload]
  <2>1. ASSUME NEW i \in 1..Size PROVE StrideCandidate \in Payload
    <3>1. ListAt(i) \in UsedLists /\ \E k \in DOMAIN problem.lists[ListAt(i)] : TRUE
      BY ListAtProperties, PlaceholderAt
    <3>. QED  BY <1>2, <3>1
  <2>. QED  BY <2>1
<1>4. Abstract!OneToOne(value)
  BY DEF Abstract!OneToOne
<1>5. Abstract!OneToOne(place)
  BY DEF Abstract!OneToOne, Injective
<1>6. ASSUME NEW l \in UsedLists, NEW k \in DOMAIN problem.lists[l]
      PROVE  Abstract!Offers(problem, a, l, k)
  <2>1. a.place[l] = place[l] /\ a.value[problem.lists[l][k].id] = StrideCandidate
    BY <1>2
  <2>. HIDE DEF a, value, Ids
  <2>. QED  BY <1>2, <2>1 DEF Abstract!Offers
<1>. HIDE DEF value, Ids
<1>7. a \in [place : {f \in [UsedLists -> DOMAIN problem.umap] :
                        Abstract!OneToOne(f) /\ Abstract!ArraysAgree(problem, f)},
             value : {f \in [Ids -> Payload] : Abstract!OneToOne(f)}]
  BY <1>3, <1>4, <1>5
<1>. HIDE DEF a
<1>8. a \in Abstract!Assignments(problem)
  BY <1>1, <1>6, <1>7 DEF Abstract!Assignments
<1>. QED  BY <1>8 DEF a, value, Ids

\* Nothing matches two different stride placeholders.
LEMMA DifferentIdsExclude ==
  ASSUME SearchInv, Cardinality(IdsIn(PS)) > 1
  PROVE  suitableCandidates = << >>
<1>1. PICK i \in 1..Size, j \in 1..Size : IdAt(i) # IdAt(j)
  <2>1. SUFFICES ASSUME \A i, j \in 1..Size : IdAt(i) = IdAt(j) PROVE FALSE
    OBVIOUS
  <2>2. IdsIn(PS) = {IdAt(i) : i \in 1..Size}
    BY ProblemFacts DEF IdsIn, IdAt, SearchInv
  <2>. HIDE DEF IdAt, PS, Size
  <2>3. CASE 1..Size = {}
    <3>1. IdsIn(PS) = {}
      BY <2>2, <2>3
    <3>2. Cardinality(IdsIn(PS)) = 0
      BY <3>1, FS_EmptySet
    <3>. QED  BY <3>2
  <2>4. CASE 1..Size # {}
    <3>1. PICK i \in 1..Size : TRUE
      BY <2>4
    <3>2. IdsIn(PS) = {IdAt(i)}
      BY <2>1, <2>2, <3>1
    <3>3. Cardinality(IdsIn(PS)) = 1
      BY <3>2, FS_Singleton
    <3>. QED  BY <3>3
  <2>. QED  BY <2>3, <2>4
<1>2. ASSUME NEW m \in DOMAIN suitableCandidates PROVE FALSE
  <2>. DEFINE c == CombinationOf(suitableCandidates[m])
  <2>1. /\ DOMAIN c = 1..Size
        /\ IsValidCombination(problem, c)
        /\ IsOffered(c[i], PS.placeholders[i]) /\ IsOffered(c[j], PS.placeholders[j])
    BY MatchProperties DEF SearchInv, IInv
  <2>. HIDE DEF c
  <2>2. c[i].payload = c[j].payload
    BY <2>1, OfferedMeansStrided DEF SearchInv
  <2>3. problem.ps.placeholders[i].id = problem.ps.placeholders[j].id
          <=> c[i].payload = c[j].payload
    BY <2>1 DEF IsValidCombination
  <2>. QED  BY <1>1, <2>2, <2>3 DEF IdAt, PS
<1>3. suitableCandidates \in Seq(Seq([id : IdsIn(PS), candidate : Candidate]))
  BY DEF SearchInv, IInv, TypeOK
<1>. DEFINE T == Seq([id : IdsIn(PS), candidate : Candidate])
<1>4. suitableCandidates \in Seq(T)
  BY <1>3
<1>. HIDE DEF T
<1>5. Len(suitableCandidates) = 0
  <2>1. Len(suitableCandidates) \in Nat /\ DOMAIN suitableCandidates = 1..Len(suitableCandidates)
    BY <1>4
  <2>2. CASE Len(suitableCandidates) # 0
    <3>1. 1 \in DOMAIN suitableCandidates
      BY <2>1, <2>2
    <3>. QED  BY <3>1, <1>2
  <2>. QED  BY <2>2
<1>. QED  BY <1>4, <1>5

\* An assignment is found by a match.
LEMMA AssignmentIsMatched ==
  ASSUME SearchInv, pc = "done", NEW a \in Abstract!Assignments(problem)
  PROVE  \E m \in DOMAIN suitableCandidates :
           CombinationOf(suitableCandidates[m]) = CombinationFor(a)
<1>1. PICK m \in DOMAIN suitableCandidates : AssignmentOf(suitableCandidates[m]) = a
  BY DoneIsComplete DEF Found
<1>2. CombinationFor(AssignmentOf(suitableCandidates[m])) = CombinationOf(suitableCandidates[m])
  BY MatchIsAssignment DEF SearchInv, IInv
<1>. QED  BY <1>1, <1>2

LEMMA StridesExclude ==
  ASSUME SearchInv
  PROVE  DifferentStridesExclude
<1>1. ASSUME pc = "done", IdsIn(PS) # {}, Cardinality(IdsIn(PS)) = 1,
             NEW place \in [UsedLists -> DOMAIN problem.umap],
             Injective(place), Abstract!ArraysAgree(problem, place),
             \A l \in UsedLists : \A k \in DOMAIN problem.lists[l] :
               IsStrided(problem.umap[place[l]], problem.lists[l][k].pattern)
      PROVE  suitableCandidates # << >>
  <2>1. IdsIn(PS) = {IdAt(i) : i \in 1..Size} /\ Size \in Nat
    BY ProblemFacts DEF IdsIn, IdAt, SearchInv
  <2>2. IsFiniteSet(IdsIn(PS))
    <3>. DEFINE f == [i \in 1..Size |-> IdAt(i)]
    <3>1. f \in Surjection(1..Size, IdsIn(PS))
      BY <2>1 DEF Surjection
    <3>2. IsFiniteSet(1..Size)
      BY <2>1, FS_Interval
    <3>. HIDE DEF f
    <3>. QED  BY <3>1, <3>2, FS_Surjection
  <2>3. PICK id : IdsIn(PS) = {id}
    BY <1>1, <2>2, FS_Singleton
  <2>4. \A i, j \in 1..Size : IdAt(i) = IdAt(j)
    BY <2>1, <2>3
  <2>5. [place |-> place, value |-> [n \in {IdAt(i) : i \in 1..Size} |-> StrideCandidate]]
          \in Abstract!Assignments(problem)
    BY <1>1, <2>4, UniformAssignment DEF SearchInv
  <2>6. \E m \in DOMAIN suitableCandidates : TRUE
    BY <1>1, <2>5, AssignmentIsMatched
  <2>. QED  BY <2>6
<1>2. Cardinality(IdsIn(PS)) > 1 => suitableCandidates = << >>
  BY DifferentIdsExclude
<1>. QED  BY <1>1, <1>2 DEF DifferentStridesExclude

\* Two stride placeholders exclude each other whatever the accesses; one that is
\* used several times matches whenever there are accesses for it.
THEOREM StridesAreExclusive == Spec => []DifferentStridesExclude
<1>1. SearchInv => DifferentStridesExclude
  BY StridesExclude
<1>. QED  BY <1>1, SearchInvariance, PTL

\* With one placeholder, matches and accesses with its stride are in bijection.
LEMMA StridedAreCounted ==
  ASSUME SearchInv, MatchesAreDistinct
  PROVE  CountsStridedAccesses
<1>. SUFFICES ASSUME pc = "done", Size = 1
              PROVE  Len(suitableCandidates) =
                       Cardinality({s \in DOMAIN problem.umap :
                         IsStrided(problem.umap[s], PS.placeholders[1].pattern)})
  BY DEF CountsStridedAccesses
<1>. DEFINE S == {s \in DOMAIN problem.umap :
                    IsStrided(problem.umap[s], PS.placeholders[1].pattern)}
            n == Len(suitableCandidates)
            c(m) == CombinationOf(suitableCandidates[m])
            f == [m \in 1..n |-> c(m)[1].space]
<1>1. n \in Nat /\ DOMAIN suitableCandidates = 1..n
  BY DEF SearchInv, IInv, TypeOK
<1>2. ASSUME NEW m \in 1..n
      PROVE  /\ c(m) \in Seq(Candidate) /\ DOMAIN c(m) = 1..1
             /\ c(m)[1].space \in S /\ c(m)[1].payload = StrideCandidate
  <2>1. /\ c(m) \in Seq(Candidate) /\ DOMAIN c(m) = 1..1
        /\ IsOffered(c(m)[1], PS.placeholders[1])
    BY <1>1, MatchProperties DEF SearchInv, IInv
  <2>2. /\ c(m)[1].space \in DOMAIN problem.umap
        /\ IsStrided(problem.umap[c(m)[1].space], PS.placeholders[1].pattern)
        /\ c(m)[1].payload = StrideCandidate
    BY <2>1, OfferedMeansStrided DEF SearchInv
  <2>. QED  BY <2>1, <2>2
<1>3. \A k, m \in 1..n : c(k) = c(m) => k = m
  BY <1>1 DEF MatchesAreDistinct
<1>4. ASSUME NEW s \in S PROVE \E m \in 1..n : c(m)[1].space = s
  <2>. DEFINE place == [l \in UsedLists |-> s]
              a == [place |-> place,
                    value |-> [id \in {IdAt(i) : i \in 1..Size} |-> StrideCandidate]]
  <2>1. \A l \in UsedLists : l = ListAt(1)
    <3>1. ASSUME NEW l \in UsedLists PROVE l = ListAt(1)
      <4>1. PICK i \in PositionsOf(problem.lists, l) : TRUE
        BY ProblemLayout DEF SearchInv
      <4>2. i \in 1..Size /\ ListAt(i) = l
        BY <4>1, ListAtProperties DEF SearchInv
      <4>. QED  BY <4>2
    <3>. QED  BY <3>1
  <2>2. \A i, j \in 1..Size : IdAt(i) = IdAt(j)
    OBVIOUS
  <2>3. \A l \in UsedLists : \A k \in DOMAIN problem.lists[l] :
          IsStrided(problem.umap[place[l]], problem.lists[l][k].pattern)
    <3>1. ASSUME NEW l \in UsedLists, NEW k \in DOMAIN problem.lists[l]
          PROVE  IsStrided(problem.umap[s], problem.lists[l][k].pattern)
      <4>1. PICK i \in 1..Size : PS.placeholders[i] = problem.lists[l][k]
        BY PlaceholderAt DEF SearchInv
      <4>2. i = 1
        OBVIOUS
      <4>. QED  BY <4>1, <4>2
    <3>. QED  BY <3>1
  <2>4. place \in [UsedLists -> DOMAIN problem.umap] /\ DOMAIN place = UsedLists
    OBVIOUS
  <2>5. Injective(place)
    BY <2>1, <2>4 DEF Injective
  <2>6. Abstract!ArraysAgree(problem, place)
    BY <2>1, <2>4 DEF Abstract!ArraysAgree
  <2>. HIDE DEF place
  <2>7. a \in Abstract!Assignments(problem)
    BY <2>2, <2>3, <2>4, <2>5, <2>6, UniformAssignment DEF SearchInv
  <2>8. CombinationFor(a)[1].space = s
    <3>1. ListAt(1) \in UsedLists
      BY ListAtProperties DEF SearchInv
    <3>2. CombinationFor(a)[1].space = place[ListAt(1)]
      BY DEF CombinationFor
    <3>. QED  BY <3>1, <3>2 DEF place
  <2>. HIDE DEF a, c
  <2>9. PICK m \in DOMAIN suitableCandidates : c(m) = CombinationFor(a)
    BY <2>7, AssignmentIsMatched DEF c
  <2>. QED  BY <1>1, <2>8, <2>9
<1>. HIDE DEF c, S, n
<1>5. f \in Bijection(1..n, S)
  <2>1. f \in [1..n -> S]
    BY <1>2
  <2>2. ASSUME NEW k \in 1..n, NEW m \in 1..n, f[k] = f[m] PROVE k = m
    <3>1. c(k)[1] = c(m)[1]
      <4>1. c(k)[1] \in Candidate /\ c(m)[1] \in Candidate
        BY <1>2
      <4>2. c(k)[1].space = c(m)[1].space /\ c(k)[1].payload = c(m)[1].payload
        BY <1>2, <2>2
      <4>. QED  BY <4>1, <4>2 DEF Candidate
    <3>2. c(k) = c(m)
      BY <1>2, <3>1
    <3>. QED  BY <1>3, <3>2
  <2>3. \A s \in S : \E m \in 1..n : f[m] = s
    BY <1>4
  <2>. HIDE DEF f
  <2>. QED  BY <2>1, <2>2, <2>3 DEF Bijection, Injection, Surjection, IsInjective
<1>6. ExistsBijection(1..n, S)
  BY <1>5 DEF ExistsBijection
<1>7. Cardinality(S) = n
  BY <1>1, <1>6, FS_CountingElements
<1>. QED  BY <1>7 DEF S, n

\* A caller that counts the matches of one stride placeholder counts the accesses
\* that have the stride, no more and no fewer.
THEOREM StridedAccessesAreCounted == Spec => []CountsStridedAccesses
<1>1. SearchInv /\ MatchesAreDistinct => CountsStridedAccesses
  BY StridedAreCounted
<1>. QED  BY <1>1, SearchInvariance, NoMatchTwice, PTL

=============================================================================
