--------------------------- MODULE PlaceholderSets ---------------------------
(***************************************************************************)
(* Placeholder sets and the filter on combinations of candidates:          *)
(* allOf, setupFolds and isSuitableCombination of islutils/access-inl.h.   *)
(*                                                                         *)
(* A placeholder is a record [id, pattern], a candidate (DimCandidate) a   *)
(* record [payload, space]: the space identifies the relation of the union *)
(* map that the candidate was found in.  A combination is a sequence of    *)
(* candidates co-indexed with the placeholders, possibly shorter.          *)
(* Positions, folds and groups are 1-based; a group is the set of its      *)
(* positions, which the code always lists in ascending order.              *)
(***************************************************************************)
EXTENDS Naturals, Sequences, FiniteSets, SequencesExt

CONSTANTS
  Space,          \* spaces of the access relations in the union map
  NullSpace,      \* isl::space(), "no space"
  ArrayOf         \* Space -> id of the accessed array (or one "absent" id)

ASSUME SpaceAssumption ==
  /\ NullSpace \notin Space
  /\ DOMAIN ArrayOf = Space

-----------------------------------------------------------------------------
(* Construction: access(...) gives a list of placeholders, allOf(...) lays *)
(* the lists out one after the other and remembers groups and folds.       *)

\* Variant: ids are not looked up, every placeholder gets its own fold.
SetupFoldsNoSharing(ids) == [i \in DOMAIN ids |-> i]

\* The fold of a placeholder is the position of the first one with its id.
SetupFolds(ids) ==
  [i \in DOMAIN ids |->
     CHOOSE j \in 1..i : ids[j] = ids[i] /\ \A k \in 1..(j-1) : ids[k] # ids[i]]

IdsOf(placeholders) == [i \in DOMAIN placeholders |-> placeholders[i].id]

\* Positions that the g-th of the given lists occupies after concatenation.
PositionsOf(lists, g) ==
  LET before == Len(FlattenSeq(SubSeq(lists, 1, g - 1)))
  IN  (before + 1)..(before + Len(lists[g]))

\* The lists that the loop of allOf does not skip, after its first n steps.
NonEmptyLists(lists) ==
  LET kept[n \in 0..Len(lists)] ==
        IF n = 0 THEN << >>
        ELSE IF lists[n] = << >> THEN kept[n - 1] ELSE Append(kept[n - 1], lists[n])
  IN  kept[Len(lists)]

\* allOf for PlaceholderLists: a PlaceholderSet without group folds.
AllOf(lists) ==
  LET kept == NonEmptyLists(lists)
      placeholders == FlattenSeq(kept)
  IN  [placeholders |-> placeholders,
       groups       |-> [g \in DOMAIN kept |-> PositionsOf(kept, g)],
       folds        |-> SetupFolds(IdsOf(placeholders)),
       grouped      |-> FALSE,
       groupFolds   |-> << >>]

\* allOf for ArrayPlaceholderLists: a PlaceholderGroupedSet.  Group folds are
\* computed from the array placeholders of all lists, the empty ones included.
AllOfArrays(arrays, lists) ==
  [AllOf(lists) EXCEPT !.grouped = TRUE, !.groupFolds = SetupFolds(arrays)]

-----------------------------------------------------------------------------
(* The filter.                                                             *)

IsEqualModuloMap(left, right) == left.payload = right.payload

\* Positions in one fold must not compare different, positions in different
\* folds must not compare equal.  Eq and Ne need not be each other's negation.
AreFoldsValid(size, folds, Eq(_, _), Ne(_, _)) ==
  \A i, j \in 1..size :
    i < j => IF folds[i] = folds[j] THEN ~ Ne(i, j) ELSE ~ Eq(i, j)

HasNoDuplicateAssignments(ps, combination) ==
  AreFoldsValid(Len(combination), ps.folds,
                LAMBDA i, j : IsEqualModuloMap(combination[i], combination[j]),
                LAMBDA i, j : ~ IsEqualModuloMap(combination[i], combination[j]))

\* The space matched by a group: that of its first assigned placeholder.
FindSpace(group, combination) ==
  LET assigned == group \cap DOMAIN combination
  IN  IF assigned = {} THEN NullSpace
      ELSE combination[CHOOSE i \in assigned : \A j \in assigned : i <= j].space

\* Variant: previouslyMatchedSpaces is not consulted.
GroupsUniformOnly(ps, combination) ==
  \A g \in DOMAIN ps.groups : \A i \in ps.groups[g] \cap DOMAIN combination :
    combination[i].space = FindSpace(ps.groups[g], combination)

\* Each group matched one relation, and no relation of an earlier group.
GroupsAreProperlyFormed(ps, combination) ==
  \A g \in DOMAIN ps.groups :
    LET matchedSpace == FindSpace(ps.groups[g], combination)
    IN  /\ \A i \in ps.groups[g] \cap DOMAIN combination :
             combination[i].space = matchedSpace
        /\ matchedSpace # NullSpace =>
             \A h \in 1..(g-1) :
               FindSpace(ps.groups[h], combination) # matchedSpace

\* Variant: a group that has matched nothing yet counts as a different array.
CompareGroupsNullDiffers(group1, group2, combination, equality) ==
  LET space1 == FindSpace(group1, combination)
      space2 == FindSpace(group2, combination)
  IN  IF space1 = NullSpace \/ space2 = NullSpace THEN ~ equality
      ELSE (ArrayOf[space1] = ArrayOf[space2]) = equality

\* Both comparisons are false while one of the groups has matched nothing.
CompareGroupsBelongToSameArray(group1, group2, combination, equality) ==
  LET space1 == FindSpace(group1, combination)
      space2 == FindSpace(group2, combination)
  IN  /\ space1 # NullSpace
      /\ space2 # NullSpace
      /\ (ArrayOf[space1] = ArrayOf[space2]) = equality

GroupFoldsAreValid(ps, combination) ==
  LET Same(g, h) == CompareGroupsBelongToSameArray(
                      ps.groups[g], ps.groups[h], combination, TRUE)
      Differ(g, h) == CompareGroupsBelongToSameArray(
                        ps.groups[g], ps.groups[h], combination, FALSE)
  IN  AreFoldsValid(Len(ps.groups), ps.groupFolds, Same, Differ)

\* isSuitableCombination of PlaceholderSet and of PlaceholderGroupedSet.
IsSuitableCombination(ps, combination) ==
  /\ HasNoDuplicateAssignments(ps, combination)
  /\ GroupsAreProperlyFormed(ps, combination)
  /\ ps.grouped => GroupFoldsAreValid(ps, combination)

-----------------------------------------------------------------------------
(* A returned match: Match pairs each candidate with its placeholder's id. *)

MatchOf(ps, combination) ==
  [i \in DOMAIN combination |->
     [id |-> ps.placeholders[i].id, candidate |-> combination[i]]]

\* Entries of the match that operator[] looks at for a placeholder.
EntriesFor(match, id) == {i \in DOMAIN match : match[i].id = id}

\* operator[] terminates the program unless the placeholder is in the match
\* and all its entries carry the same payload.
LookupSucceeds(match, id) ==
  /\ EntriesFor(match, id) # {}
  /\ \A i, j \in EntriesFor(match, id) :
       match[i].candidate.payload = match[j].candidate.payload

LookupPayload(match, id) ==
  match[CHOOSE i \in EntriesFor(match, id) : TRUE].candidate.payload

LookupSpaces(match, id) ==
  {match[i].candidate.space : i \in EntriesFor(match, id)}

=============================================================================
