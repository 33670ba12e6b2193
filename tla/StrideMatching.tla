---------------------------- MODULE StrideMatching ----------------------------
(***************************************************************************)
(* match with stride patterns: what a match says of the accesses, in terms *)
(* of the iterations that perform them.                                    *)
(***************************************************************************)
EXTENDS AccessMatcher, AccessPatterns

(* Iterations.  A row is what the innermost loop runs through; without     *)
(* active points given, all of its points are iterations.                  *)

SameRow(p, q) == \A d \in 1..(Len(p) - 1) : p[d] = q[d]

\* Input spaces are finite sets of integer tuples of one length, in which the
\* innermost loop has constant bounds and a step of one; results are tuples too.
IsBox(box) ==
  /\ box # {} /\ IsFiniteSet(box)
  /\ \A p, q \in box :
       /\ p \in Seq(Int) /\ Len(p) = Len(q)
       /\ p # << >> /\ SameRow(p, q) =>
            \A v \in Last(p)..Last(q) : [p EXCEPT ![Len(p)] = v] \in box

IsRelation(relation) ==
  /\ relation.dim \in Nat
  /\ IsBox(DOMAIN relation.at)
  /\ \A p \in DOMAIN relation.at : \A t \in relation.at[p] :
       t \in Seq(Int) /\ Len(t) = relation.dim

IsStridePattern(pattern) ==
  /\ pattern.stride \in Int /\ pattern.outDimPos \in Int
  /\ pattern.active # << >> => Len(pattern.active) = 1

\* Matching is done with stride patterns.
ASSUME StrideAssumption ==
  /\ \A r \in Relation : IsRelation(r)
  /\ \A p \in Pattern : IsStridePattern(p)
  /\ \A r \in Relation, p \in Pattern : Candidates(r, p) = StrideCandidates(r, p)

Iterations(map, pattern) ==
  IF pattern.active = << >> THEN Box(map) ELSE pattern.active[1] \cap Box(map)

\* The iterations of a row from p on, up to q.
Between(map, pattern, p, q) ==
  {r \in Iterations(map, pattern) :
     SameRow(p, r) /\ SameRow(r, q) /\ Last(p) < Last(r) /\ Last(r) <= Last(q)}

\* Pairs of different iterations of a row between which each one performs the
\* access, and no step of the innermost loop is missing.
Runs(map, pattern) ==
  {pq \in Iterations(map, pattern) \X Iterations(map, pattern) :
     /\ SameRow(pq[1], pq[2]) /\ Last(pq[1]) < Last(pq[2])
     /\ {pq[1]} \cup Between(map, pattern, pq[1], pq[2]) \subseteq Domain(map)}

\* Along each run the index advances by the stride in every iteration.
Advances(map, pattern) ==
  \A pq \in Runs(map, pattern) :
    \A a \in map[pq[1]], b \in map[pq[2]] :
      b - a = pattern.stride
                * Cardinality(Between(map, pattern, pq[1], pq[2]))

\* A statement without loops counts as an access of stride zero.
IsStrided(relation, pattern) ==
  /\ InRange(relation, pattern)
  /\ LET map == AtPosition(relation, pattern)
     IN  IF NDims(Box(map)) = 0
           THEN /\ pattern.stride = 0 /\ Iterations(map, pattern) # {}
                /\ \A p \in Iterations(map, pattern) :
                     \E v \in map[p] : map[p] = {v}
           ELSE Runs(map, pattern) # {} /\ Advances(map, pattern)
-----------------------------------------------------------------------------
(* Properties *)

\* Candidates only compare successive iterations, yet a match vouches for whole
\* runs of the innermost loop: the accesses of a vector of iterations are an
\* arithmetic progression with the stride asked for.
MatchedAccessesAdvance ==
  \A m \in DOMAIN suitableCandidates : \A i \in DOMAIN suitableCandidates[m] :
    IsStrided(problem.umap[suitableCandidates[m][i].candidate.space],
              PS.placeholders[i].pattern)

\* Callers count the matches of one stride placeholder (test_transformer.cc) to
\* see how many accesses have the stride: no more and no fewer are counted.
CountsStridedAccesses ==
  pc = "done" /\ Size = 1 =>
    Len(suitableCandidates) =
      Cardinality({s \in DOMAIN problem.umap :
                     IsStrided(problem.umap[s], PS.placeholders[1].pattern)})

\* Two placeholders never match together, whatever their strides and however
\* many accesses there are: stride candidates are all equal, which different
\* placeholders must not be.  One placeholder may be used twice.
DifferentStridesExclude ==
  pc = "done" =>
    /\ Cardinality(IdsIn(PS)) > 1 => suitableCandidates = << >>
    /\ (IdsIn(PS) # {} /\ Cardinality(IdsIn(PS)) = 1
        /\ \E place \in [UsedLists -> DOMAIN problem.umap] :
             /\ Injective(place) /\ Abstract!ArraysAgree(problem, place)
             /\ \A l \in UsedLists : \A k \in DOMAIN problem.lists[l] :
                  IsStrided(problem.umap[place[l]], problem.lists[l][k].pattern))
       => suitableCandidates # << >>

=============================================================================
