-------------------------- MODULE MCFindAndReplace --------------------------
(***************************************************************************)
(* Instances of FindAndReplace: accesses of one statement to arrays A (two *)
(* of them) and B, and the replacements of the tests and of the comments.  *)
(***************************************************************************)
EXTENDS FindAndReplace

CONSTANTS MaxDim, a1, a2, b1, A, B

MCSpace == {a1, a2, b1}
MCArrayOf == (a1 :> A) @@ (a2 :> A) @@ (b1 :> B)
MCPayload == 0..MaxDim

\* The origin and the unit points: enough to tell the input dimensions apart.
Points == {p \in [1..(MaxDim + 1) -> 0..1] :
             \A i, j \in DOMAIN p : p[i] = 1 /\ p[j] = 1 => i = j}
Only(points, images(_)) ==
  [dim |-> Len(CHOOSE t \in images(CHOOSE p \in points : TRUE) : TRUE),
   at  |-> [p \in Points |-> IF p \in points THEN images(p) ELSE {}]]

\* A[i][j], A[j][i], A[j][k], A[i][i] in a part of the domain, and a vector; and,
\* for one or two relations, sums of variables, of which one is zero on the domain,
\* and a three-dimensional access that touches a whole diagonal.
Frequent ==
  {Only(Points, LAMBDA p : {<<p[1], p[2]>>}),
   Only(Points, LAMBDA p : {<<p[2], p[1]>>}),
   Only(Points, LAMBDA p : {<<p[2], p[3]>>}),
   Only({p \in Points : p[1] <= p[2]}, LAMBDA p : {<<p[1], p[1]>>}),
   Only(Points, LAMBDA p : {<<p[1]>>})}
MCInput == Frequent \cup
  {Only({p \in Points : p[3] = 0}, LAMBDA p : {<<p[1] + p[3], p[2]>>}),
   Only({p \in Points : p[3] = 0}, LAMBDA p : {<<p[1] + p[2], p[2]>>}),
   Only(Points, LAMBDA p : {<<p[1], a, a>> : a \in 0..1})}
MCRelation == MCInput

Plain(id) == PlaceholderOf(id)
Shifted(id) == Plus(Plain(id), 1)
FromLast(id) == AtDim(-1, Plain(id))
MCPattern ==
  {AtDim(pos, p).pattern : p \in {Plain(1), Shifted(1), Times(2, Minus(Plain(1), 1))}, pos \in -2..2}

Row == Access(<<Plain(1), Plain(2)>>)
Column == Access(<<Plain(2), Plain(1)>>)
Replace(from, to) == [pattern |-> from, replacement |-> to]

\* Transpose every access; scale and shift it; transpose the two factors of a chain; swap
\* two patterns that fit the same accesses; a diagonal; an unknown placeholder.
MCReplacements ==
  { << Replace(Row, Column) >>,
    << Replace(Row, Access(<<Times(2, Minus(Plain(1), 1)), Plain(2)>>)) >>,
    << Replace(Row, Column),
       Replace(Access(<<Plain(2), Plain(3)>>), Access(<<Plain(3), Plain(2)>>)) >>,
    << Replace(Row, Column), Replace(Access(<<Plain(3), Plain(3)>>), Row) >>,
    << Replace(<<FromLast(1)>>, <<Plus(FromLast(1), 1)>>) >>,
    << Replace(Access(<<Plain(1)>>), Access(<<Shifted(1), Plain(1)>>)) >>,
    << Replace(Access(<<Plain(1), Plain(1)>>), Access(<<Plain(1), Plain(4)>>)) >> }

Orders == {<<a1>>, <<a1, a2>>, <<b1, a2, a1>>}

MCProblems ==
  UNION {UNION {LET lists == [r \in DOMAIN reps |-> reps[r].pattern] IN
                [umap         : [{o[i] : i \in DOMAIN o} ->
                                 IF Len(o) = 3 THEN Frequent ELSE MCInput],
                 accesses     : {o},
                 lists        : {lists},
                 arrays       : {<< >>},
                 ps           : {PlaceholderSetFor(lists, << >>)},
                 replacements : {reps}] :
                o \in Orders} : reps \in MCReplacements}
=============================================================================
