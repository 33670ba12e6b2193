--------------------------- MODULE MCAccessMatcher ---------------------------
(***************************************************************************)
(* Instances of AccessMatcher: two accesses to array A and one to array B, *)
(* of a statement in a loop nest of depth MaxDim + 1, matched against the  *)
(* shapes of pattern lists that the tests and the BLAS matchers use.       *)
(***************************************************************************)
EXTENDS AccessMatcher, AccessPatterns

CONSTANTS MaxDim, a1, a2, b1, A, B

MCSpace == {a1, a2, b1}
MCArrayOf == (a1 :> A) @@ (a2 :> A) @@ (b1 :> B)
MCPayload == 0..MaxDim
Points == [1..(MaxDim + 1) -> 0..1]

\* Access relations by name: where they are defined and what they access.
Only(points, image(_)) ==
  [dim |-> Len(image(CHOOSE p \in points : TRUE)),
   at  |-> [p \in Points |-> IF p \in points THEN {image(p)} ELSE {}]]
Denotation ==
  [ij      |-> Only(Points, LAMBDA p : <<p[1], p[2]>>),
   ji      |-> Only(Points, LAMBDA p : <<p[2], p[1]>>),
   ii      |-> Only(Points, LAMBDA p : <<p[1], p[1]>>),
   jk      |-> Only(Points, LAMBDA p : <<p[2], p[3]>>),
   shifted |-> Only(Points, LAMBDA p : <<p[1] + 1, p[2]>>),
   square  |-> Only({p \in Points : p[1] = p[2]}, LAMBDA p : <<p[1], p[2]>>),
   sum     |-> Only(Points, LAMBDA p : <<p[1] + p[2], p[2]>>),
   i       |-> Only(Points, LAMBDA p : <<p[1]>>)]
MCRelation == DOMAIN Denotation

Plain(id) == PlaceholderOf(id)
Shifted(id) == Plus(Plain(id), 1)
FromLast(id) == AtDim(-1, Plain(id))
MCPattern == {AtDim(pos, p).pattern : p \in {Plain(1), Shifted(1)}, pos \in -2..2}

\* SingleInputDimCandidates, computed once for every relation and pattern.
CandidateTable ==
  [r \in MCRelation |->
     [q \in MCPattern |-> SingleInputDimCandidates(Denotation[r], q)]]
MCCandidates(r, q) == CandidateTable[r][q]

\* access(_1, _2); a transposition; a product chain; a stencil pair; a row and
\* its diagonal; a pattern counting from the last dimension.
MCLists ==
  { << Access(<<Plain(1), Plain(2)>>) >>,
    << Access(<<Plain(1), Plain(2)>>), Access(<<Plain(2), Plain(1)>>) >>,
    << Access(<<Plain(1), Plain(2)>>), Access(<<Plain(2), Plain(3)>>) >>,
    << Access(<<Plain(1), Plain(2)>>), Access(<<Shifted(1), Plain(2)>>) >>,
    << Access(<<Plain(1), Plain(1)>>), << >>, <<FromLast(2)>> >>,
    << <<FromLast(1)>>, Access(<<Plain(1), Plain(2)>>), Access(<<Plain(1)>>) >> }

\* Array placeholders: none, all equal, all different, or first and last equal.
MCArrays(lists) ==
  {<< >>} \cup
  IF \E l \in DOMAIN lists : lists[l] = << >> THEN {}
  ELSE {[l \in DOMAIN lists |-> 1], [l \in DOMAIN lists |-> l],
        [l \in DOMAIN lists |-> IF l = Len(lists) THEN 1 ELSE l]}

\* The relations of the union map, in the order foreach_map visits them.
Orders == {<<a1, a2>>, <<b1, a1>>, <<b1, a2, a1>>}

MCProblems ==
  UNION {UNION {[umap     : [{o[i] : i \in DOMAIN o} -> MCRelation],
                 accesses : {o},
                 lists    : {lists},
                 arrays   : {arrays},
                 ps       : {PlaceholderSetFor(lists, arrays)}] :
                o \in Orders, arrays \in MCArrays(lists)} : lists \in MCLists}
=============================================================================
