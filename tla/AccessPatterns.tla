---------------------------- MODULE AccessPatterns ----------------------------
(***************************************************************************)
(* Patterns at a fixed output dimension, islutils/access_patterns.h and    *)
(* .cc: SimpleAff patterns with SingleInputDim candidates, and strides.    *)
(*                                                                         *)
(* A relation is [dim, at]: "at" maps every point of the input space, a    *)
(* finite box, to the set of index tuples of length "dim" it is related    *)
(* to, which is empty outside the relation's domain.  A map to one         *)
(* dimension is a function from the box to sets of integers.  A pattern is *)
(* [coefficient, constant, outDimPos], or [stride, active, outDimPos] with *)
(* "active" << >> for the null set, otherwise <<the set of points>>.       *)
(***************************************************************************)
EXTENDS Locus, Sequences, FiniteSets, SequencesExt

Box(map) == DOMAIN map
Domain(map) == {p \in DOMAIN map : map[p] # {}}
NDims(box) == Len(CHOOSE p \in box : TRUE)

(* FixedOutDimPattern *)

\* Negative positions count from the end of the output space, -1 is the last.
Position(relation, pattern) ==
  IF pattern.outDimPos < 0 THEN relation.dim + pattern.outDimPos
                           ELSE pattern.outDimPos

InRange(relation, pattern) == Position(relation, pattern) \in 0..(relation.dim - 1)

ProjectOnto(relation, pos) ==
  [p \in DOMAIN relation.at |-> {t[pos + 1] : t \in relation.at[p]}]

AtPosition(relation, pattern) == ProjectOnto(relation, Position(relation, pattern))

\* dim(pos, placeholder)
AtDim(pos, placeholder) == [placeholder EXCEPT !.pattern.outDimPos = pos]

\* access(_1, _2, ...): the k-th placeholder is pinned to output dimension k.
Access(unfixed) ==
  [k \in DOMAIN unfixed |-> AtDim(k - 1, unfixed[k])]

(* SingleInputDim *)

\* INT_MAX marks a placeholder that is not yet pinned to a dimension.
Unfixed == 2147483647
PlaceholderOf(id) ==
  [id |-> id, pattern |-> [coefficient |-> 1, constant |-> 0, outDimPos |-> Unfixed]]

\* The operators * and +: a factor does not apply to the constant.
Times(i, placeholder) == [placeholder EXCEPT !.pattern.coefficient = @ * i]
Plus(placeholder, i) == [placeholder EXCEPT !.pattern.constant = @ + i]
Minus(placeholder, i) == [placeholder EXCEPT !.pattern.constant = @ - i]

Aff(box, pattern, dim) ==
  [p \in box |-> pattern.coefficient * p[dim + 1] + pattern.constant]

\* The input dimensions, in the order of the loop, whose affine form equals
\* the map on its domain.  One form for the whole domain is one piece for isl;
\* an empty map has none.
InputDims(map, pattern) ==
  IF Domain(map) = {} \/ \E p \in Box(map) : Cardinality(map[p]) > 1 THEN << >>
  ELSE SetToSortSeq({d \in 0..(NDims(Box(map)) - 1) :
                       \A p \in Domain(map) : map[p] = {Aff(Box(map), pattern, d)[p]}}, <)

\* A position out of range is no error: the pattern just has no candidate.
SingleInputDimCandidates(relation, pattern) ==
  IF InRange(relation, pattern) THEN InputDims(AtPosition(relation, pattern), pattern)
                                ELSE << >>

(* transformMap *)

ListOf1DMaps(relation) == [k \in 1..relation.dim |-> ProjectOnto(relation, k - 1)]

\* flat_range_product, one map after the other: any value of each.
FlatRangeProduct(list, p) ==
  FoldLeft(LAMBDA tuples, map : {Append(t, v) : t \in tuples, v \in map[p]},
           {<< >>}, list)

MapFrom1DMaps(box, list) ==
  [dim |-> Len(list), at |-> [p \in box |-> FlatRangeProduct(list, p)]]

\* Built by the map maker, without the domain of the map it replaces.
AffMap(box, payload, pattern) ==
  LET lhs == Aff(box, pattern, payload)
      values == {lhs[p] : p \in box}
      equal == MapMaker("==", lhs, [v \in values |-> v])
  IN  [p \in box |-> {v \in values : <<p, v>> \in equal}]

\* Variant: negative positions are taken as they are given.
TransformFirst(relation, payload, pattern) ==
  LET box == DOMAIN relation.at
  IN  MapFrom1DMaps(box, [ListOf1DMaps(relation) EXCEPT
        ![IF pattern.outDimPos < 0 THEN 1 ELSE pattern.outDimPos + 1] =
          AffMap(box, payload, pattern)])

TransformMap(relation, payload, pattern) ==
  LET box == DOMAIN relation.at
  IN  IF relation.dim = 0 THEN relation
      ELSE MapFrom1DMaps(box, [ListOf1DMaps(relation) EXCEPT
             ![Position(relation, pattern) + 1] = AffMap(box, payload, pattern)])

(* StridePattern *)

\* stride(ctx, s), with its set of points assigned afterwards.
StrideOf(id, s, active) ==
  [id |-> id, pattern |-> [stride |-> s,
                           active |-> active, outDimPos |-> Unfixed]]

\* Successors along the last dimension, all others equal: the next or all.
MapToNext(box, all) ==
  LET dim == NDims(box)
      var(d) == [p \in box |-> p[d]]
      next == [p \in box |-> p[dim] + 1]
  IN  IF dim = 0 THEN box \X box
      ELSE {pq \in IF all THEN MapMaker("<", var(dim), var(dim))
                          ELSE MapMaker("==", next, var(dim)) :
              \A d \in 1..(dim - 1) : pq \in MapMaker("==", var(d), var(d))}

\* Of pairs that agree in all but the innermost dimension, the closest.
Lexmin(pairs) ==
  {pq \in pairs : \A r \in pairs :
     r[1] = pq[1] => r[2] = pq[2] \/ Last(pq[2]) < Last(r[2])}

Successors(box, active) ==
  IF active = << >> THEN MapToNext(box, FALSE)
  ELSE Lexmin(MapToNext(box, TRUE) \cap (active[1] \X active[1]))

Deltas(map, successors) ==
  UNION {{b - a : a \in map[pq[1]], b \in map[pq[2]]} : pq \in successors}

\* Variant: no deltas at all are deltas of any value.
HasStrideOrNone(map, pattern) ==
  Deltas(map, Successors(Box(map), pattern.active)) \subseteq {pattern.stride}

\* Variant: some of the deltas are the stride.
HasStrideSomewhere(map, pattern) ==
  pattern.stride \in Deltas(map, Successors(Box(map), pattern.active))

HasStride(map, pattern) ==
  LET deltas == Deltas(map, Successors(Box(map), pattern.active))
      strided == SetMaker("==", [v \in deltas |-> pattern.stride], [v \in deltas |-> v])
  IN  deltas # {} /\ deltas \subseteq strided

\* All stride candidates are equal.
StrideCandidate == 0

\* Variant: candidates of different strides differ.
StrideCandidatesByValue(relation, pattern) ==
  IF InRange(relation, pattern) /\ HasStride(AtPosition(relation, pattern), pattern)
    THEN <<pattern.stride>> ELSE << >>

StrideCandidates(relation, pattern) ==
  IF InRange(relation, pattern) /\ HasStride(AtPosition(relation, pattern), pattern)
    THEN <<StrideCandidate>> ELSE << >>

=============================================================================
