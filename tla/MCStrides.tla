------------------------------ MODULE MCStrides ------------------------------
(***************************************************************************)
(* Instances of StrideMatching: every partial access of two elements in a  *)
(* loop of four iterations and in a nest of two by two, affine accesses in *)
(* any of the iterations, with and without a set of active points, several *)
(* indices per iteration, statements without loops, and pairs of accesses. *)
(***************************************************************************)
EXTENDS StrideMatching

CONSTANTS a1, a2, A

MCSpace == {a1, a2}
MCArrayOf == (a1 :> A) @@ (a2 :> A)
MCPayload == -2..2

Line == [1..1 -> 0..3]
Nest == [1..2 -> 0..1]
NoLoop == {<< >>}

\* The set of indices a point accesses; the result has one dimension.
Single(at) == [dim |-> 1, at |-> [p \in DOMAIN at |-> {<<v>> : v \in at[p]}]]
Below(at, v) == [dim |-> 2, at |-> [p \in DOMAIN at |-> {<<v, w>> : w \in at[p]}]]

Few == {{}, {0}, {1}}
Lines == {Single(at) : at \in [Line -> Few]} \cup
         {Single([p \in Line |-> IF p \in performed THEN {c * p[1]} ELSE {}]) :
            performed \in SUBSET Line, c \in {-1, 2}}
Nests == {Single(at) : at \in [Nest -> Few]}
Multiple == {Single([p \in Line |-> {p[1], p[1] + k}]) : k \in {1, 2}}
Scalars == {Single([p \in NoLoop |-> {v}]) : v \in 0..1} \cup
           {[dim |-> 0, at |-> [p \in NoLoop |-> {<< >>}]]}
Affine(c) == [p \in Line |-> {c * p[1]}]
Pairs1 == {Below(Affine(c), v) : c \in {0, 1, 2}, v \in {0, 1}} \cup {Single(Affine(1))}

Odd == {p \in Line : p[1] \in {1, 3}}
NotTwo == {p \in Line : p[1] # 2}
Actives(box) ==
  IF box = Line THEN {<< >>, <<Line>>, <<Odd>>, <<NotTwo>>, <<{}>>}
                ELSE {<< >>, <<box>>, <<{}>>}

Strides == {-1, 0, 1, 2}
Problem(umap, order, lists) ==
  [umap |-> umap, accesses |-> order, lists |-> lists, arrays |-> << >>,
   ps |-> PlaceholderSetFor(lists, << >>)]

Alone ==
  UNION {{Problem(a1 :> r, <<a1>>, << <<AtDim(-1, StrideOf(1, s, active))>> >>) :
            active \in Actives(DOMAIN r.at), s \in Strides} :
           r \in Lines \cup Nests \cup Multiple \cup Scalars}

Last1(id, s) == AtDim(-1, StrideOf(id, s, << >>))
PairLists ==
  { << <<Last1(1, s)>>, <<Last1(id, t)>> >> : id \in {1, 2}, s \in {0, 1}, t \in {0, 1} }
  \cup { << <<AtDim(0, StrideOf(1, 0, << >>)), AtDim(pos, StrideOf(id, s, << >>))>> >> :
           id \in {1, 2}, pos \in {-2, 1, 2}, s \in {0, 1} }
  \cup { << <<Last1(1, s)>> >> : s \in Strides }
Together ==
  {Problem((a1 :> r) @@ (a2 :> q), <<a2, a1>>, lists) :
     r \in Pairs1, q \in Pairs1, lists \in PairLists}

MCProblems == Alone \cup Together
MCRelation == {p.umap[a1] : p \in MCProblems}
MCPattern == UNION {{p.ps.placeholders[i].pattern : i \in DOMAIN p.ps.placeholders} :
                      p \in MCProblems}

\* The operators of Locus build what they are named for, the not-equal set
\* maker excepted.
Partial == UNION {[d -> 0..2] : d \in SUBSET {0, 1}}
ASSUME MakersAssumption ==
  \A f, g \in Partial, op \in {"==", "!=", "<=", "<", ">=", ">"} :
    /\ MapMaker(op, f, g) = {p \in Pairs(f, g) : Holds(op, f[p[1]], g[p[2]])}
    /\ op # "!=" => SetMaker(op, f, g) = {p \in Common(f, g) : Holds(op, f[p], g[p])}

=============================================================================
