------------------------- MODULE FindAndReplaceProofs -------------------------
(***************************************************************************)
(* Theorems about findAndReplace, for every union map, every list of       *)
(* replacements and every candidate function.                              *)
(***************************************************************************)
EXTENDS FindAndReplace, AccessMatcherProofs, FiniteSetTheorems

-----------------------------------------------------------------------------
(* Sequences of anything *)

IsSequence(s) == s \in Seq(ToSet(s))

LEMMA SequenceProperties ==
  ASSUME NEW s, IsSequence(s)
  PROVE  /\ Len(s) \in Nat /\ DOMAIN s = 1..Len(s)
         /\ \A x : /\ IsSequence(Append(s, x))
                   /\ Len(Append(s, x)) = Len(s) + 1
                   /\ DOMAIN Append(s, x) = 1..(Len(s) + 1)
                   /\ \A k \in 1..Len(s) : Append(s, x)[k] = s[k]
                   /\ Append(s, x)[Len(s) + 1] = x
<1>1. Len(s) \in Nat /\ DOMAIN s = 1..Len(s)
  BY DEF IsSequence
<1>2. ASSUME NEW x
      PROVE  /\ IsSequence(Append(s, x))
             /\ Len(Append(s, x)) = Len(s) + 1
             /\ DOMAIN Append(s, x) = 1..(Len(s) + 1)
             /\ \A k \in 1..Len(s) : Append(s, x)[k] = s[k]
             /\ Append(s, x)[Len(s) + 1] = x
  <2>. DEFINE S == ToSet(s) \cup {x}
              t == Append(s, x)
  <2>1. s \in Seq(S)
    BY <1>1 DEF IsSequence, ToSet
  <2>2. /\ t \in Seq(S) /\ Len(t) = Len(s) + 1 /\ DOMAIN t = 1..(Len(s) + 1)
        /\ \A k \in 1..Len(s) : t[k] = s[k]
        /\ t[Len(s) + 1] = x
    <3>. HIDE DEF S
    <3>1. x \in S
      BY DEF S
    <3>. QED  BY <1>1, <2>1, <3>1
  <2>. HIDE DEF t, S
  <2>3. IsSequence(t)
    <3>1. Len(t) \in Nat /\ t = [k \in 1..Len(t) |-> t[k]]
      BY <2>2
    <3>2. \A k \in 1..Len(t) : t[k] \in ToSet(t)
      BY <1>1, <2>2 DEF ToSet
    <3>. QED  BY <3>1, <3>2 DEF IsSequence
  <2>. QED  BY <2>2, <2>3 DEF t
<1>. QED  BY <1>1, <1>2

LEMMA JoinedProperties ==
  ASSUME NEW s, IsSequence(s), NEW t, IsSequence(t)
  PROVE  /\ IsSequence(s \o t)
         /\ DOMAIN (s \o t) = 1..(Len(s) + Len(t))
         /\ \A k \in 1..Len(s) : (s \o t)[k] = s[k]
         /\ \A k \in (Len(s) + 1)..(Len(s) + Len(t)) : (s \o t)[k] = t[k - Len(s)]
<1>. DEFINE S == ToSet(s) \cup ToSet(t)
            u == s \o t
<1>1. s \in Seq(S) /\ t \in Seq(S)
  <2>1. \A k \in DOMAIN s : s[k] \in S
    BY DEF ToSet
  <2>2. \A k \in DOMAIN t : t[k] \in S
    BY DEF ToSet
  <2>. QED  BY <2>1, <2>2 DEF IsSequence
<1>. HIDE DEF S
<1>2. /\ u \in Seq(S) /\ DOMAIN u = 1..(Len(s) + Len(t)) /\ Len(u) = Len(s) + Len(t)
      /\ \A k \in 1..Len(s) : u[k] = s[k]
      /\ \A k \in (Len(s) + 1)..(Len(s) + Len(t)) : u[k] = t[k - Len(s)]
  BY <1>1
<1>. HIDE DEF u
<1>3. IsSequence(u)
  <2>1. Len(u) \in Nat /\ u = [k \in 1..Len(u) |-> u[k]]
    BY <1>1, <1>2
  <2>2. \A k \in 1..Len(u) : u[k] \in ToSet(u)
    BY <1>1, <1>2 DEF ToSet
  <2>. QED  BY <2>1, <2>2 DEF IsSequence
<1>. QED  BY <1>2, <1>3 DEF u

\* SetToSeq lists every element of a finite set once.
LEMMA SetToSeqProperties ==
  ASSUME NEW S, IsFiniteSet(S)
  PROVE  /\ IsSequence(SetToSeq(S))
         /\ ToSet(SetToSeq(S)) = S
         /\ \A j, k \in DOMAIN SetToSeq(S) : SetToSeq(S)[j] = SetToSeq(S)[k] => j = k
<1>. DEFINE n == Cardinality(S)
            f == SetToSeq(S)
<1>1. n \in Nat
  BY FS_CardinalityType
<1>2. \E g \in [1..n -> S] : IsInjective(g)
  <2>1. ExistsBijection(1..n, S)
    BY FS_CardinalityType
  <2>2. PICK g \in Bijection(1..n, S) : TRUE
    BY <2>1 DEF ExistsBijection
  <2>3. g \in [1..n -> S] /\ \A i, j \in 1..n : g[i] = g[j] => i = j
    BY <2>2 DEF Bijection, Injection, IsInjective
  <2>4. IsInjective(g)
    BY <2>3 DEF IsInjective
  <2>. QED  BY <2>3, <2>4
<1>3. f \in [1..n -> S] /\ IsInjective(f)
  BY <1>2 DEF SetToSeq
<1>. HIDE DEF f
<1>4. f \in Injection(1..n, S)
  BY <1>3 DEF Injection
<1>5. Cardinality(1..n) = n
  BY <1>1, FS_Interval
<1>6. f \in Surjection(1..n, S)
  BY <1>4, <1>5, FS_Injection
<1>7. ToSet(f) = S /\ DOMAIN f = 1..n
  BY <1>3, <1>6 DEF Surjection, ToSet
<1>8. \A j, k \in DOMAIN f : f[j] = f[k] => j = k
  BY <1>3 DEF IsInjective
<1>9. IsSequence(f)
  <2>1. f \in Seq(S)
    BY <1>1, <1>3
  <2>. QED  BY <1>7, <2>1 DEF IsSequence
<1>. QED  BY <1>7, <1>8, <1>9 DEF f
-----------------------------------------------------------------------------
(* The problem and its matches *)

LEMMA ReplaceFacts ==
  ASSUME problem \in Problems
  PROVE  /\ Len(problem.lists) \in Nat /\ DOMAIN Replacements = 1..Len(problem.lists)
         /\ UsedLists \subseteq DOMAIN Replacements
         /\ \A r \in DOMAIN Replacements :
              /\ Replacements[r].pattern = problem.lists[r]
              /\ Len(Replacements[r].replacement) \in Nat
              /\ DOMAIN Replacements[r].replacement = 1..Len(Replacements[r].replacement)
         /\ IsFiniteSet(DOMAIN problem.umap)
         /\ \A s \in DOMAIN problem.umap : problem.umap[s].dim \in Nat
<1>1. IsProblem(problem) /\ IsReplaceProblem(problem)
  BY ProblemsAssumption, ReplaceAssumption
<1>2. problem.lists = [r \in DOMAIN Replacements |-> Replacements[r].pattern]
  BY <1>1 DEF IsReplaceProblem, Replacements
<1>3. problem.lists \in Seq(Seq(Placeholder(IdsIn(problem.ps))))
  BY <1>1 DEF IsProblem
<1>4. Len(problem.lists) \in Nat /\ DOMAIN Replacements = 1..Len(problem.lists)
  BY <1>2, <1>3
<1>5. \A r \in DOMAIN Replacements : Replacements[r].pattern = problem.lists[r]
  BY <1>2
<1>6. ASSUME NEW r \in DOMAIN Replacements
      PROVE  /\ Len(Replacements[r].replacement) \in Nat
             /\ DOMAIN Replacements[r].replacement = 1..Len(Replacements[r].replacement)
  <2>. DEFINE plhs == Replacements[r].replacement
  <2>1. plhs \in Seq(Placeholder({plhs[k].id : k \in DOMAIN plhs}))
    BY <1>1 DEF IsReplaceProblem, Replacements
  <2>. QED  BY <2>1
<1>7. IsFiniteSet(DOMAIN problem.umap)
  <2>1. DOMAIN problem.umap = {Accesses[i] : i \in 1..Len(Accesses)} /\ Len(Accesses) \in Nat
    BY <1>1, ProblemFacts DEF IsProblem, Accesses
  <2>2. IsFiniteSet(1..Len(Accesses))
    BY <2>1, FS_Interval
  <2>3. IsFiniteSet({Accesses[i] : i \in 1..Len(Accesses)})
    <3>. DEFINE f == [i \in 1..Len(Accesses) |-> Accesses[i]]
                T == {Accesses[i] : i \in 1..Len(Accesses)}
    <3>1. f \in Surjection(1..Len(Accesses), T)
      BY DEF Surjection
    <3>. QED  BY <2>2, <3>1, FS_Surjection
  <2>. QED  BY <2>1, <2>3
<1>8. \A s \in DOMAIN problem.umap : problem.umap[s].dim \in Nat
  BY <1>1, RelationAssumption DEF IsProblem
<1>9. UsedLists \subseteq DOMAIN Replacements
  BY <1>2 DEF UsedLists
<1>. QED  BY <1>4, <1>5, <1>6, <1>7, <1>8, <1>9

\* The relations of a match.
SpacesOf(m) == {suitableCandidates[m][i].candidate.space : i \in 1..Size}

LEMMA SpacesOfProperties ==
  ASSUME problem \in Problems, IInv, NEW m \in DOMAIN suitableCandidates
  PROVE  /\ SpacesOf(m) \subseteq DOMAIN problem.umap
         /\ \A s \in SpacesOf(m) : PlacedOn(suitableCandidates[m], s) # {}
         /\ SpacesOf(m) \subseteq MatchedSpaces
         /\ UNION {LookupSpaces(suitableCandidates[m], PS.placeholders[i].id) : i \in 1..Size}
              = SpacesOf(m)
<1>. DEFINE match == suitableCandidates[m]
<1>1. /\ DOMAIN match = 1..Size
      /\ \A i \in 1..Size : /\ match[i].id = PS.placeholders[i].id
                            /\ IsOffered(match[i].candidate, PS.placeholders[i])
  BY MatchProperties DEF IInv, IdAt
<1>. HIDE DEF match
<1>2. {match[i].candidate.space : i \in 1..Size} \subseteq DOMAIN problem.umap
  BY <1>1 DEF IsOffered
<1>3. ASSUME NEW i \in 1..Size PROVE PlacedOn(match, match[i].candidate.space) # {}
  <2>1. ListAt(i) \in UsedLists /\ i \in PositionsOf(problem.lists, ListAt(i))
    BY ListAtProperties
  <2>2. ListAt(i) \in PlacedOn(match, match[i].candidate.space)
    BY <2>1 DEF PlacedOn
  <2>. QED  BY <2>2
<1>4. UNION {LookupSpaces(match, PS.placeholders[i].id) : i \in 1..Size}
        = {match[i].candidate.space : i \in 1..Size}
  <2>1. \A i \in 1..Size : \A s \in LookupSpaces(match, PS.placeholders[i].id) :
          \E j \in 1..Size : s = match[j].candidate.space
    BY <1>1 DEF LookupSpaces, EntriesFor
  <2>2. \A i \in 1..Size :
          match[i].candidate.space \in LookupSpaces(match, PS.placeholders[i].id)
    BY <1>1 DEF LookupSpaces, EntriesFor
  <2>. QED  BY <2>1, <2>2
<1>5. SpacesOf(m) = {match[i].candidate.space : i \in 1..Size}
  BY DEF SpacesOf, match
<1>6. SpacesOf(m) \subseteq MatchedSpaces
  BY <1>2, <1>3, <1>5 DEF MatchedSpaces, match
<1>. QED  BY <1>2, <1>3, <1>4, <1>5, <1>6 DEF match

\* A combination of candidates of one relation suits allOf of one list if it
\* gives different placeholders different payloads.
LEMMA SingleListSuitable ==
  ASSUME NEW S, NEW list \in Seq(S), list # << >>, NEW c, DOMAIN c = 1..Len(list),
         NEW space, \A i \in 1..Len(list) : c[i].space = space,
         \A i, j \in 1..Len(list) : list[i].id = list[j].id <=> c[i].payload = c[j].payload,
         Len(c) = Len(list)
  PROVE  IsSuitableCombination(AllOf(<<list>>), c)
<1>. DEFINE ps == AllOf(<<list>>)
            n == Len(list)
            ids == IdsOf(list)
<1>1. n \in Nat \ {0} /\ DOMAIN list = 1..n
  OBVIOUS
<1>2. /\ ps.placeholders = list /\ ps.groups = <<1..n>>
      /\ ps.folds = SetupFolds(ids) /\ ps.grouped = FALSE
  BY AllOfOne
<1>. HIDE DEF ps, n
<1>3. DOMAIN ids = 1..n /\ \A i \in 1..n : ids[i] = list[i].id
  BY <1>1 DEF IdsOf
<1>4. \A i, j \in 1..n : ps.folds[i] = ps.folds[j] <=> ids[i] = ids[j]
  BY <1>1, <1>2, <1>3, FoldsReflectIds
<1>5. HasNoDuplicateAssignments(ps, c)
  BY <1>1, <1>3, <1>4 DEF HasNoDuplicateAssignments, AreFoldsValid, IsEqualModuloMap, n
<1>6. FindSpace(1..n, c) = space
  <2>. DEFINE assigned == 1..n \cap DOMAIN c
              k == CHOOSE i \in assigned : \A j \in assigned : i <= j
  <2>1. assigned \subseteq Nat /\ 1 \in assigned
    BY <1>1 DEF n
  <2>2. k \in assigned
    <3>. HIDE DEF assigned
    <3>. QED  BY <2>1, LeastElement
  <2>3. FindSpace(1..n, c) = c[k].space
    BY <2>1 DEF FindSpace
  <2>. HIDE DEF k
  <2>. QED  BY <2>2, <2>3 DEF n
<1>7. GroupsAreProperlyFormed(ps, c)
  BY <1>2, <1>6 DEF GroupsAreProperlyFormed, n
<1>. QED  BY <1>2, <1>5, <1>7 DEF IsSuitableCombination, ps

\* The placeholders of one list of a match, matched against one relation alone:
\* the part of the match that belongs to the list is a match of its own.
LEMMA ListMatchesAlone ==
  ASSUME problem \in Problems, IInv, NEW m \in DOMAIN suitableCandidates, NEW l \in UsedLists,
         NEW space, \A i \in PositionsOf(problem.lists, l) :
                      suitableCandidates[m][i].candidate.space = space
  PROVE  MatchesAlone(space, problem.lists[l])
<1>. DEFINE match == suitableCandidates[m]
            list == problem.lists[l]
            n == Len(list)
            at(k) == Offset(problem.lists, l) + k
            c == [k \in 1..n |-> match[at(k)].candidate]
            X == Placeholder(IdsIn(problem.ps))
<1>1. list \in Seq(X) /\ list # << >> /\ n \in Nat /\ DOMAIN list = 1..n
  <2>1. problem.lists \in Seq(Seq(X)) /\ l \in DOMAIN problem.lists /\ list # << >>
    BY ProblemsAssumption DEF IsProblem, UsedLists
  <2>. HIDE DEF X
  <2>. QED  BY <2>1
<1>2. \A k \in 1..n : /\ at(k) \in PositionsOf(problem.lists, l) /\ at(k) \in 1..Size
                       /\ PS.placeholders[at(k)] = list[k]
  BY <1>1, ProblemLayout
<1>3. /\ \A i \in 1..Size : /\ match[i].candidate \in Candidate
                             /\ IsOffered(match[i].candidate, PS.placeholders[i])
      /\ \A i, j \in 1..Size : PS.placeholders[i].id = PS.placeholders[j].id
                                <=> match[i].candidate.payload = match[j].candidate.payload
  <2>. DEFINE d == CombinationOf(match)
  <2>1. /\ DOMAIN d = 1..Size
        /\ IsValidCombination(problem, d)
        /\ d \in Seq(Candidate)
        /\ \A i \in 1..Size : /\ match[i].candidate = d[i]
                               /\ IsOffered(d[i], PS.placeholders[i])
    BY MatchProperties DEF IInv
  <2>. HIDE DEF match, d
  <2>2. \A i \in 1..Size : d[i] \in Candidate
    <3>1. d \in Seq(Candidate)
      BY <2>1
    <3>2. \A i \in DOMAIN d : d[i] \in Candidate
      BY <3>1
    <3>. QED  BY <2>1, <3>2
  <2>. QED  BY <2>1, <2>2 DEF IsValidCombination, PS
<1>. HIDE DEF at, X
<1>4. /\ DOMAIN c = 1..n /\ Len(c) = n
      /\ \A k \in 1..n : c[k] = match[at(k)].candidate
  <2>1. \A k \in 1..n : c[k] \in Candidate
    <3>1. \A k \in 1..n : c[k] = match[at(k)].candidate
      OBVIOUS
    <3>. HIDE DEF c, match, n
    <3>. QED  BY <1>2, <1>3, <3>1
  <2>2. c = [k \in 1..n |-> c[k]]
    OBVIOUS
  <2>3. c \in Seq(Candidate) /\ DOMAIN c = 1..n /\ Len(c) = n
    <3>. HIDE DEF c, n
    <3>1. n \in Nat
      BY <1>1 DEF n
    <3>. QED  BY <2>1, <2>2, <3>1
  <2>. QED  BY <2>3
<1>. HIDE DEF c, match
<1>5. \A k \in 1..n : /\ c[k] \in Candidate /\ c[k].space = space
                       /\ IsOffered(c[k], list[k])
  <2>1. \A i \in PositionsOf(problem.lists, l) : match[i].candidate.space = space
    BY DEF match
  <2>. HIDE DEF list, n
  <2>2. ASSUME NEW k \in 1..n
        PROVE  c[k] \in Candidate /\ c[k].space = space /\ IsOffered(c[k], list[k])
    <3>1. /\ at(k) \in PositionsOf(problem.lists, l) /\ at(k) \in 1..Size
          /\ PS.placeholders[at(k)] = list[k] /\ c[k] = match[at(k)].candidate
      BY <1>2, <1>4
    <3>2. /\ match[at(k)].candidate \in Candidate
          /\ IsOffered(match[at(k)].candidate, PS.placeholders[at(k)])
      BY <1>3, <3>1
    <3>. QED  BY <2>1, <3>1, <3>2
  <2>. QED  BY <2>2
<1>6. \A j, k \in 1..n : list[j].id = list[k].id <=> c[j].payload = c[k].payload
  <2>. HIDE DEF list, n
  <2>. SUFFICES ASSUME NEW j \in 1..n, NEW k \in 1..n
                PROVE  list[j].id = list[k].id <=> c[j].payload = c[k].payload
    OBVIOUS
  <2>1. /\ at(j) \in 1..Size /\ PS.placeholders[at(j)] = list[j]
        /\ at(k) \in 1..Size /\ PS.placeholders[at(k)] = list[k]
        /\ c[j] = match[at(j)].candidate /\ c[k] = match[at(k)].candidate
    BY <1>2, <1>4
  <2>. QED  BY <1>3, <2>1
<1>. HIDE DEF list, n
<1>7. AllOf(<<list>>).placeholders = list
  BY <1>1, AllOfOne
<1>8. IsSuitableCombination(AllOf(<<list>>), c)
  BY <1>1, <1>4, <1>5, <1>6, SingleListSuitable DEF n
<1>9. c \in CombinationsIn(space, AllOf(<<list>>))
  <2>1. \A k \in 1..n : c[k] \in [payload : Payload, space : {space}]
    BY <1>5 DEF Candidate
  <2>2. c = [k \in 1..n |-> c[k]]
    BY <1>4 DEF c
  <2>3. c \in [1..n -> [payload : Payload, space : {space}]]
    BY <2>1, <2>2
  <2>. QED  BY <1>1, <1>4, <1>5, <1>7, <2>3 DEF CombinationsIn
<1>. QED  BY <1>8, <1>9 DEF MatchesAlone, list

\* So a pattern that a match places on a relation matches the relation alone.
LEMMA PlacedMatchesAlone ==
  ASSUME problem \in Problems, IInv, NEW m \in DOMAIN suitableCandidates,
         NEW s, NEW l \in PlacedOn(suitableCandidates[m], s)
  PROVE  l \in MatchingReplacements(s)
<1>. DEFINE match == suitableCandidates[m]
<1>1. l \in UsedLists /\ \E i \in PositionsOf(problem.lists, l) : match[i].candidate.space = s
  BY DEF PlacedOn
<1>2. PICK i \in PositionsOf(problem.lists, l) : match[i].candidate.space = s
  BY <1>1
<1>3. \A j \in PositionsOf(problem.lists, l) : j \in 1..Size /\ InOneGroup(PS, i, j)
  BY <1>1, <1>2, ListAtProperties
<1>4. ASSUME NEW j \in PositionsOf(problem.lists, l) PROVE match[j].candidate.space = s
  <2>. DEFINE d == CombinationOf(match)
  <2>1. /\ DOMAIN d = 1..Size /\ IsValidCombination(problem, d)
        /\ \A k \in 1..Size : match[k].candidate = d[k]
    BY MatchProperties DEF IInv
  <2>2. i \in 1..Size /\ j \in 1..Size /\ InOneGroup(PS, i, j)
    BY <1>3
  <2>3. d[i].space = d[j].space
    BY <2>1, <2>2 DEF IsValidCombination, PS
  <2>. QED  BY <1>2, <2>1, <2>2, <2>3
<1>5. MatchesAlone(s, problem.lists[l])
  BY <1>1, <1>4, ListMatchesAlone
<1>6. l \in DOMAIN Replacements /\ Replacements[l].pattern = problem.lists[l]
  BY <1>1, ReplaceFacts
<1>. QED  BY <1>5, <1>6 DEF MatchingReplacements

LEMMA SpacesMatchAlone ==
  ASSUME problem \in Problems, IInv, NEW m \in DOMAIN suitableCandidates,
         NEW s \in SpacesOf(m)
  PROVE  MatchingReplacements(s) # {}
BY SpacesOfProperties, PlacedMatchesAlone
-----------------------------------------------------------------------------
(* The inductive invariant *)

\* How far findAndReplace is: the relations to be processed belong to the current
\* match, transformOneMap is at work for the first replacement that fits, and the
\* relations that are no longer original are those of the earlier matches and those
\* that the current match has already given up.
Progress ==
  /\ IsSequence(transformedMaps)
  /\ stage = "match" =>
       current = 1 /\ originalMaps = DOMAIN problem.umap /\ toTransform = {} /\ result = << >>
  /\ stage = "select" => toTransform = {} /\ result = << >>
  /\ stage = "transform" =>
       current \in DOMAIN suitableCandidates /\ toTransform \subseteq SpacesOf(current)
  /\ result # << >> =>
       /\ result = [space |-> result.space, by |-> result.by, next |-> result.next,
                    relation |-> result.relation]
       /\ result.by = FirstMatching(result.space)
       /\ result.relation.dim = problem.umap[result.space].dim
  /\ stage \in {"select", "transform"} =>
       \A s \in DOMAIN problem.umap : s \notin originalMaps <=>
         \/ \E m \in 1..(current - 1) : s \in SpacesOf(m)
         \/ stage = "transform" /\ s \in SpacesOf(current) /\ s \notin toTransform

\* A relation that no match placed a pattern on comes out as it went in.
OnlyMatchesAreRewritten ==
  \A k \in DOMAIN transformedMaps :
    transformedMaps[k].space \notin MatchedSpaces =>
      transformedMaps[k].relation = problem.umap[transformedMaps[k].space]

ReplaceInv ==
  /\ problem \in Problems
  /\ IInv
  /\ ReplaceTypeOK
  /\ EveryRelationOnce
  /\ OnlyMatchesAreRewritten
  /\ Progress

\* What only depends on the call and on its matches.
LEMMA MatchesAreFixed ==
  ASSUME UNCHANGED vars
  PROVE  /\ problem' = problem /\ suitableCandidates' = suitableCandidates
         /\ Size' = Size /\ PS' = PS /\ Replacements' = Replacements
         /\ \A s : MatchingReplacements(s)' = MatchingReplacements(s)
         /\ \A s : FirstMatching(s)' = FirstMatching(s)
         /\ \A m : SpacesOf(m)' = SpacesOf(m)
         /\ MatchedSpaces' = MatchedSpaces
         /\ \A m, s : PlacedOn(suitableCandidates[m], s)' = PlacedOn(suitableCandidates[m], s)
<1>1. /\ problem' = problem /\ suitableCandidates' = suitableCandidates
      /\ Size' = Size /\ PS' = PS /\ Replacements' = Replacements
  BY DEF vars, Size, PS, Replacements
<1>2. \A c, p : IsOffered(c, p)' <=> IsOffered(c, p)
  BY <1>1 DEF IsOffered
<1>3. \A s, r : MatchesAlone(s, Replacements[r].pattern)'
                  <=> MatchesAlone(s, Replacements[r].pattern)
  BY <1>1, <1>2 DEF MatchesAlone, CombinationsIn
<1>4. \A s : MatchingReplacements(s)' = MatchingReplacements(s)
  BY <1>1, <1>3 DEF MatchingReplacements
<1>5. \A s : FirstMatching(s)' = FirstMatching(s)
  BY <1>4 DEF FirstMatching
<1>6. \A m : SpacesOf(m)' = SpacesOf(m)
  BY <1>1 DEF SpacesOf
<1>7. \A m, s : PlacedOn(suitableCandidates[m], s)' = PlacedOn(suitableCandidates[m], s)
  BY <1>1 DEF PlacedOn, UsedLists
<1>8. MatchedSpaces' = MatchedSpaces
  BY <1>1, <1>7 DEF MatchedSpaces
<1>. QED  BY <1>1, <1>4, <1>5, <1>6, <1>7, <1>8

\* The first matching replacement is one, if there is any.
LEMMA FirstMatchingProperties ==
  ASSUME problem \in Problems, NEW s, MatchingReplacements(s) # {}
  PROVE  /\ FirstMatching(s) \in MatchingReplacements(s)
         /\ FirstMatching(s) \in DOMAIN Replacements
         /\ MatchingReplacements(s) # {FirstMatching(s)} => Cardinality(MatchingReplacements(s)) > 1
<1>. DEFINE S == MatchingReplacements(s)
            k == Min(S)
<1>1. S \subseteq DOMAIN Replacements /\ DOMAIN Replacements = 1..Len(problem.lists)
      /\ Len(problem.lists) \in Nat
  BY ReplaceFacts DEF MatchingReplacements
<1>. HIDE DEF S
<1>2. k \in S
  <2>1. S # {} /\ S \subseteq Nat
    BY <1>1 DEF S
  <2>. QED  BY <2>1, LeastElement DEF Min
<1>3. ASSUME S # {k} PROVE Cardinality(S) > 1
  <2>1. PICK r \in S : r # k
    BY <1>2, <1>3
  <2>2. IsFiniteSet(S)
    <3>1. IsFiniteSet(1..Len(problem.lists))
      BY <1>1, FS_Interval
    <3>2. S \subseteq 1..Len(problem.lists)
      BY <1>1
    <3>. QED  BY <3>1, <3>2, FS_Subset
  <2>. HIDE DEF k
  <2>3. IsFiniteSet({k}) /\ Cardinality({k}) = 1
    BY FS_Singleton
  <2>4. Cardinality({k}) <= Cardinality(S) /\ Cardinality({k}) # Cardinality(S)
    BY <1>2, <1>3, <2>2, FS_Subset
  <2>5. Cardinality(S) \in Nat
    BY <2>2, FS_CardinalityType
  <2>. QED  BY <2>3, <2>4, <2>5
<1>. QED  BY <1>1, <1>2, <1>3 DEF S, FirstMatching

\* A rewritten relation has as many dimensions as before.
LEMMA TransformKeepsDim ==
  ASSUME NEW relation, relation.dim \in Nat, NEW payload, NEW pattern
  PROVE  TransformMap(relation, payload, pattern).dim = relation.dim
<1>1. CASE relation.dim = 0
  BY <1>1 DEF TransformMap
<1>2. CASE relation.dim # 0
  <2>. DEFINE list == [ListOf1DMaps(relation) EXCEPT ![Position(relation, pattern) + 1] =
                         AffMap(DOMAIN relation.at, payload, pattern)]
  <2>1. TransformMap(relation, payload, pattern).dim = Len(list)
    <3>1. TransformMap(relation, payload, pattern) = MapFrom1DMaps(DOMAIN relation.at, list)
      BY <1>2, Zenon DEF TransformMap
    <3>. QED  BY <3>1 DEF MapFrom1DMaps
  <2>2. DOMAIN list = 1..relation.dim
    BY DEF ListOf1DMaps
  <2>3. list = [k \in 1..relation.dim |-> list[k]]
    BY DEF ListOf1DMaps
  <2>. HIDE DEF list
  <2>. QED  BY <2>1, <2>3
<1>. QED  BY <1>1, <1>2

LEMMA ReplaceInitInv == ReplaceInit => ReplaceInv
<1>. SUFFICES ASSUME ReplaceInit PROVE ReplaceInv
  OBVIOUS
<1>1. /\ problem \in Problems /\ IInv /\ stage = "match" /\ current = 1 /\ toTransform = {}
      /\ result = << >> /\ originalMaps = DOMAIN problem.umap /\ transformedMaps = << >>
      /\ died = "no" /\ suitableCandidates = << >>
  BY InitIInv DEF ReplaceInit, Init
<1>2. DOMAIN transformedMaps = {} /\ TransformedSpaces = {}
  BY <1>1 DEF TransformedSpaces
<1>3. ReplaceTypeOK
  BY <1>1, <1>2 DEF ReplaceTypeOK
<1>4. EveryRelationOnce
  BY <1>1, <1>2 DEF EveryRelationOnce
<1>5. Progress
  BY <1>1 DEF Progress, IsSequence
<1>6. OnlyMatchesAreRewritten
  BY <1>2 DEF OnlyMatchesAreRewritten
<1>. QED  BY <1>1, <1>3, <1>4, <1>5, <1>6 DEF ReplaceInv

(* Every step of findAndReplace preserves the invariant. *)

LEMMA MatchStepInv ==
  ASSUME problem \in Problems, IInv, [Next]_vars
  PROVE  problem' = problem /\ problem' \in Problems /\ IInv'
<1>1. problem' = problem
  BY DEF Next, FillCandidates, EarlyExit, NextPlaceholder, StartSearch, Reject, Accept, Branch,
         Try, Exhausted, Resume, Finish, vars
<1>2. IInv'
  BY TypeStep, StackStep, OfferedStep, SoundStep DEF IInv
<1>. QED  BY <1>1, <1>2

LEMMA RunMatchInv == ReplaceInv /\ RunMatch => ReplaceInv'
<1>. SUFFICES ASSUME ReplaceInv, RunMatch PROVE ReplaceInv'
  OBVIOUS
<1>1. problem' = problem /\ problem' \in Problems /\ IInv'
  BY MatchStepInv DEF ReplaceInv, RunMatch
<1>2. /\ stage = "match" /\ stage' = "match" /\ current' = current /\ toTransform' = toTransform
      /\ result' = result /\ originalMaps' = originalMaps /\ died' = died
      /\ transformedMaps' = transformedMaps
  BY DEF RunMatch, replaceVars
<1>3. current = 1 /\ toTransform = {} /\ result = << >>
  BY <1>2 DEF ReplaceInv, Progress
<1>4. ReplaceTypeOK'
  <2>1. Len(suitableCandidates') \in Nat
    BY <1>1 DEF IInv, TypeOK
  <2>. QED  BY <1>1, <1>2, <1>3, <2>1 DEF ReplaceInv, ReplaceTypeOK
<1>5. EveryRelationOnce'
  BY <1>1, <1>2 DEF ReplaceInv, EveryRelationOnce, TransformedSpaces
<1>6. Progress'
  BY <1>1, <1>2, <1>3 DEF ReplaceInv, Progress
<1>7. OnlyMatchesAreRewritten'
  <2>1. TransformedSpaces = {}
    BY <1>2 DEF ReplaceInv, Progress, EveryRelationOnce
  <2>2. DOMAIN transformedMaps = {}
    BY <2>1 DEF TransformedSpaces
  <2>. QED  BY <1>2, <2>2 DEF OnlyMatchesAreRewritten
<1>. QED  BY <1>1, <1>4, <1>5, <1>6, <1>7 DEF ReplaceInv

\* All other steps leave the matches alone: what remains to be shown of them.
LEMMA FixedMatchesInv ==
  ASSUME ReplaceInv, UNCHANGED vars, ReplaceTypeOK', EveryRelationOnce',
         OnlyMatchesAreRewritten', Progress'
  PROVE  ReplaceInv'
BY MatchStepInv DEF ReplaceInv

\* Steps that neither take nor rewrite a relation.
LEMMA KeepsRelations ==
  ASSUME ReplaceInv, UNCHANGED <<vars, originalMaps, transformedMaps>>
  PROVE  EveryRelationOnce' /\ OnlyMatchesAreRewritten' /\ IsSequence(transformedMaps)'
<1>1. EveryRelationOnce' /\ IsSequence(transformedMaps)'
  BY MatchesAreFixed DEF ReplaceInv, EveryRelationOnce, TransformedSpaces, Progress
<1>2. OnlyMatchesAreRewritten'
  BY MatchesAreFixed DEF ReplaceInv, OnlyMatchesAreRewritten
<1>. QED  BY <1>1, <1>2

LEMMA MatchReturnedInv == ReplaceInv /\ MatchReturned => ReplaceInv'
<1>. SUFFICES ASSUME ReplaceInv, MatchReturned PROVE ReplaceInv'
  OBVIOUS
<1>1. /\ UNCHANGED <<vars, current, toTransform, result, originalMaps, transformedMaps, died>>
      /\ stage = "match" /\ stage' = "select"
  BY DEF MatchReturned
<1>2. problem' = problem /\ suitableCandidates' = suitableCandidates
  BY <1>1, MatchesAreFixed
<1>3. /\ current = 1 /\ originalMaps = DOMAIN problem.umap /\ toTransform = {}
      /\ result = << >>
  BY <1>1 DEF ReplaceInv, Progress
<1>4. ReplaceTypeOK'
  BY <1>1, <1>2, <1>3 DEF ReplaceInv, ReplaceTypeOK
<1>5. Progress'
  BY <1>1, <1>2, <1>3, KeepsRelations DEF Progress
<1>. QED  BY <1>1, <1>4, <1>5, KeepsRelations, FixedMatchesInv

LEMMA SelectMapsInv == ReplaceInv /\ SelectMaps => ReplaceInv'
<1>. SUFFICES ASSUME ReplaceInv, SelectMaps PROVE ReplaceInv'
  OBVIOUS
<1>1. /\ UNCHANGED <<vars, current, result, originalMaps, transformedMaps, died>>
      /\ stage = "select" /\ stage' = "transform"
      /\ current <= Len(suitableCandidates)
      /\ toTransform' = UNION {LookupSpaces(CurrentMatch, PS.placeholders[i].id) : i \in 1..Size}
  BY DEF SelectMaps
<1>2. /\ problem' = problem /\ suitableCandidates' = suitableCandidates
      /\ \A m : SpacesOf(m)' = SpacesOf(m)
  BY <1>1, MatchesAreFixed
<1>3. current \in DOMAIN suitableCandidates
  BY <1>1 DEF ReplaceInv, ReplaceTypeOK, IInv, TypeOK
<1>4. toTransform' = SpacesOf(current) /\ SpacesOf(current) \subseteq DOMAIN problem.umap
  BY <1>1, <1>3, SpacesOfProperties DEF ReplaceInv, CurrentMatch
<1>5. result = << >>
  BY <1>1 DEF ReplaceInv, Progress
<1>6. ReplaceTypeOK'
  BY <1>1, <1>2, <1>4, <1>5 DEF ReplaceInv, ReplaceTypeOK
<1>7. Progress'
  <2>1. \A s \in DOMAIN problem.umap : s \notin originalMaps <=>
          \E m \in 1..(current - 1) : s \in SpacesOf(m)
    BY <1>1 DEF ReplaceInv, Progress
  <2>2. \A s \in DOMAIN problem'.umap : s \notin originalMaps' <=>
          \E m \in 1..(current' - 1) : s \in SpacesOf(m)'
    BY <1>1, <1>2, <2>1
  <2>. QED  BY <1>1, <1>2, <1>3, <1>4, <1>5, <2>2, KeepsRelations DEF Progress
<1>. QED  BY <1>1, <1>6, <1>7, KeepsRelations, FixedMatchesInv

LEMMA DieInv ==
  ASSUME ReplaceInv, NEW message, message # "no", Die(message)
  PROVE  ReplaceInv'
<1>1. /\ UNCHANGED <<vars, current, toTransform, result, originalMaps, transformedMaps>>
      /\ stage' = "died" /\ died' = message
  BY DEF Die
<1>2. /\ problem' = problem /\ suitableCandidates' = suitableCandidates
      /\ Replacements' = Replacements /\ Replacement' = Replacement
      /\ FirstMatching(result.space)' = FirstMatching(result.space)
  BY <1>1, MatchesAreFixed DEF Replacement, FirstMatching
<1>3. ReplaceTypeOK'
  BY <1>1, <1>2 DEF ReplaceInv, ReplaceTypeOK
<1>4. Progress'
  BY <1>1, <1>2, KeepsRelations DEF ReplaceInv, Progress
<1>. QED  BY <1>1, <1>3, <1>4, KeepsRelations, FixedMatchesInv

LEMMA MatchOneMapInv == ReplaceInv /\ MatchOneMap => ReplaceInv'
<1>. SUFFICES ASSUME ReplaceInv, MatchOneMap PROVE ReplaceInv'
  OBVIOUS
<1>1. PICK space \in toTransform \cap originalMaps :
        result' = [space |-> space, by |-> FirstMatching(space), next |-> 1,
                   relation |-> problem.umap[space]]
  BY DEF MatchOneMap
<1>2. /\ UNCHANGED <<vars, stage, current, toTransform, originalMaps, transformedMaps, died>>
      /\ stage = "transform"
  BY DEF MatchOneMap
<1>3. /\ problem' = problem /\ suitableCandidates' = suitableCandidates
      /\ Replacements' = Replacements
      /\ \A s : FirstMatching(s)' = FirstMatching(s)
      /\ \A m : SpacesOf(m)' = SpacesOf(m)
  BY <1>2, MatchesAreFixed
<1>4. space \in SpacesOf(current) /\ current \in DOMAIN suitableCandidates
  BY <1>2 DEF ReplaceInv, Progress
<1>5. MatchingReplacements(space) # {}
  BY <1>4, SpacesMatchAlone DEF ReplaceInv
<1>6. FirstMatching(space) \in DOMAIN Replacements
  BY <1>5, FirstMatchingProperties DEF ReplaceInv
<1>7. /\ result'.space = space /\ result'.by = FirstMatching(space) /\ result'.next = 1
      /\ result'.relation = problem.umap[space]
  BY <1>1
<1>8. FirstMatching(result.space)' = FirstMatching(space)
  BY <1>3, <1>7 DEF FirstMatching, MatchingReplacements
<1>9. ReplaceTypeOK'
  <2>1. Len(Replacement') \in Nat
    BY <1>3, <1>6, <1>7, ReplaceFacts DEF Replacement, ReplaceInv
  <2>. QED  BY <1>2, <1>3, <1>6, <1>7, <2>1 DEF ReplaceInv, ReplaceTypeOK
<1>10. Progress'
  <2>1. IsSequence(transformedMaps)'
    BY <1>2, KeepsRelations
  <2>2. \A s \in DOMAIN problem'.umap : s \notin originalMaps' <=>
          \/ \E m \in 1..(current' - 1) : s \in SpacesOf(m)'
          \/ s \in SpacesOf(current)' /\ s \notin toTransform'
    BY <1>2, <1>3 DEF ReplaceInv, Progress
  <2>. QED  BY <1>1, <1>2, <1>3, <1>7, <1>8, <2>1, <2>2 DEF ReplaceInv, Progress
<1>. QED  BY <1>2, <1>9, <1>10, KeepsRelations, FixedMatchesInv

LEMMA ApplyPlaceholderInv == ReplaceInv /\ ApplyPlaceholder => ReplaceInv'
<1>. SUFFICES ASSUME ReplaceInv, ApplyPlaceholder PROVE ReplaceInv'
  OBVIOUS
<1>1. /\ UNCHANGED <<vars, stage, current, toTransform, originalMaps, transformedMaps, died>>
      /\ stage = "transform" /\ result # << >> /\ result.next \in DOMAIN Replacement
      /\ result' = [result EXCEPT !.next = @ + 1, !.relation = Rewrite(@, Placeholder1)]
  BY DEF ApplyPlaceholder, Rewriting
<1>2. /\ problem' = problem /\ suitableCandidates' = suitableCandidates
      /\ Replacements' = Replacements
      /\ \A s : FirstMatching(s)' = FirstMatching(s)
      /\ \A m : SpacesOf(m)' = SpacesOf(m)
  BY <1>1, MatchesAreFixed
<1>3. /\ result = [space |-> result.space, by |-> result.by, next |-> result.next,
                   relation |-> result.relation]
      /\ result.by = FirstMatching(result.space)
      /\ result.relation.dim = problem.umap[result.space].dim
      /\ result.space \in toTransform \cap originalMaps /\ result.by \in DOMAIN Replacements
      /\ result.space \in DOMAIN problem.umap
  BY <1>1 DEF ReplaceInv, ReplaceTypeOK, Progress
<1>4. result' = [space |-> result.space, by |-> result.by, next |-> result.next + 1,
                 relation |-> Rewrite(result.relation, Placeholder1)]
  BY <1>1, <1>3
<1>5. /\ result'.space = result.space /\ result'.by = result.by
      /\ result'.next = result.next + 1
      /\ result'.relation = Rewrite(result.relation, Placeholder1) /\ result' # << >>
  BY <1>4
<1>6. Rewrite(result.relation, Placeholder1).dim = result.relation.dim
  BY <1>3, ReplaceFacts, TransformKeepsDim DEF ReplaceInv, Rewrite
<1>7. FirstMatching(result.space)' = FirstMatching(result.space) /\ Replacement' = Replacement
  BY <1>2, <1>5 DEF FirstMatching, MatchingReplacements, Replacement
<1>8. ReplaceTypeOK'
  <2>1. result.next + 1 \in 1..(Len(Replacement) + 1)
    BY <1>1, <1>3, ReplaceFacts DEF ReplaceInv, Replacement
  <2>. QED  BY <1>1, <1>2, <1>3, <1>5, <1>7, <2>1 DEF ReplaceInv, ReplaceTypeOK
<1>9. Progress'
  <2>1. IsSequence(transformedMaps)'
    BY <1>1, KeepsRelations
  <2>2. \A s \in DOMAIN problem'.umap : s \notin originalMaps' <=>
          \/ \E m \in 1..(current' - 1) : s \in SpacesOf(m)'
          \/ s \in SpacesOf(current)' /\ s \notin toTransform'
    BY <1>1, <1>2 DEF ReplaceInv, Progress
  <2>3. result' = [space |-> result'.space, by |-> result'.by, next |-> result'.next,
                   relation |-> result'.relation]
    BY <1>4
  <2>4. /\ current' \in DOMAIN suitableCandidates' /\ toTransform' \subseteq SpacesOf(current)'
    BY <1>1, <1>2 DEF ReplaceInv, Progress
  <2>. QED  BY <1>1, <1>2, <1>3, <1>5, <1>6, <1>7, <2>1, <2>2, <2>3, <2>4 DEF Progress
<1>. QED  BY <1>1, <1>8, <1>9, KeepsRelations, FixedMatchesInv

LEMMA NextMatchInv == ReplaceInv /\ NextMatch => ReplaceInv'
<1>. SUFFICES ASSUME ReplaceInv, NextMatch PROVE ReplaceInv'
  OBVIOUS
<1>1. /\ UNCHANGED <<vars, toTransform, result, originalMaps, transformedMaps, died>>
      /\ stage = "transform" /\ stage' = "select" /\ toTransform = {} /\ current' = current + 1
  BY DEF NextMatch
<1>2. /\ problem' = problem /\ suitableCandidates' = suitableCandidates
      /\ \A m : SpacesOf(m)' = SpacesOf(m)
  BY <1>1, MatchesAreFixed
<1>3. result = << >>
  BY <1>1 DEF ReplaceInv, ReplaceTypeOK
<1>4. current \in 1..Len(suitableCandidates) /\ Len(suitableCandidates) \in Nat
  BY <1>1 DEF ReplaceInv, Progress, IInv, TypeOK
<1>5. ReplaceTypeOK'
  BY <1>1, <1>2, <1>3, <1>4 DEF ReplaceInv, ReplaceTypeOK
<1>6. Progress'
  <2>1. \A s \in DOMAIN problem.umap : s \notin originalMaps <=>
          \/ \E m \in 1..(current - 1) : s \in SpacesOf(m)
          \/ s \in SpacesOf(current)
    BY <1>1 DEF ReplaceInv, Progress
  <2>2. \A s \in DOMAIN problem'.umap : s \notin originalMaps' <=>
          \E m \in 1..(current' - 1) : s \in SpacesOf(m)'
    BY <1>1, <1>2, <1>4, <2>1
  <2>. QED  BY <1>1, <1>2, <1>3, <2>2, KeepsRelations DEF Progress
<1>. QED  BY <1>1, <1>5, <1>6, KeepsRelations, FixedMatchesInv

\* What appending one relation to transformedMaps does to the properties.
SpacesIn(maps) == {maps[k].space : k \in DOMAIN maps}

LEMMA AppendOne ==
  ASSUME NEW maps, IsSequence(maps), NEW new
  PROVE  /\ IsSequence(Append(maps, new))
         /\ SpacesIn(Append(maps, new)) = SpacesIn(maps) \cup {new.space}
         /\ \A k \in DOMAIN Append(maps, new) :
              \/ k \in DOMAIN maps /\ Append(maps, new)[k] = maps[k]
              \/ k = Len(maps) + 1 /\ Append(maps, new)[k] = new
<1>. DEFINE maps2 == Append(maps, new)
            n == Len(maps)
<1>1. /\ n \in Nat /\ DOMAIN maps = 1..n /\ IsSequence(maps2) /\ DOMAIN maps2 = 1..(n + 1)
      /\ \A k \in 1..n : maps2[k] = maps[k]
      /\ maps2[n + 1] = new
  BY SequenceProperties
<1>. HIDE DEF maps2, n
<1>2. \A k \in DOMAIN maps2 : (k \in DOMAIN maps /\ maps2[k] = maps[k])
                                \/ (k = n + 1 /\ maps2[k] = new)
  BY <1>1
<1>3. SpacesIn(maps2) \subseteq SpacesIn(maps) \cup {new.space}
  BY <1>2 DEF SpacesIn
<1>4. \A k \in DOMAIN maps : k \in DOMAIN maps2 /\ maps2[k].space = maps[k].space
  BY <1>1
<1>5. n + 1 \in DOMAIN maps2 /\ maps2[n + 1].space = new.space
  BY <1>1
<1>6. SpacesIn(maps) \cup {new.space} \subseteq SpacesIn(maps2)
  BY <1>4, <1>5 DEF SpacesIn
<1>. QED  BY <1>1, <1>2, <1>3, <1>6 DEF maps2, n

LEMMA TransformOneMapInv == ReplaceInv /\ TransformOneMap => ReplaceInv'
<1>. SUFFICES ASSUME ReplaceInv, TransformOneMap PROVE ReplaceInv'
  OBVIOUS
<1>. DEFINE new == [space |-> result.space, relation |-> result.relation]
<1>1. /\ UNCHANGED <<vars, stage, current, died>>
      /\ stage = "transform" /\ result # << >>
      /\ toTransform' = toTransform \ {result.space}
      /\ originalMaps' = originalMaps \ {result.space}
      /\ transformedMaps' = Append(transformedMaps, new)
      /\ result' = << >>
  BY DEF TransformOneMap, Rewritten
<1>2. /\ problem' = problem /\ suitableCandidates' = suitableCandidates
      /\ \A m : SpacesOf(m)' = SpacesOf(m)
  BY <1>1, MatchesAreFixed
<1>3. /\ result.relation.dim = problem.umap[result.space].dim
      /\ result.space \in toTransform /\ result.space \in originalMaps
      /\ result.space \in DOMAIN problem.umap
      /\ current \in DOMAIN suitableCandidates /\ toTransform \subseteq SpacesOf(current)
  BY <1>1 DEF ReplaceInv, ReplaceTypeOK, Progress
<1>4. /\ IsSequence(transformedMaps')
      /\ TransformedSpaces' = TransformedSpaces \cup {result.space}
      /\ \A k \in DOMAIN transformedMaps' :
           \/ k \in DOMAIN transformedMaps /\ transformedMaps'[k] = transformedMaps[k]
           \/ k = Len(transformedMaps) + 1 /\ transformedMaps'[k] = new
  <2>1. IsSequence(transformedMaps)
    BY DEF ReplaceInv, Progress
  <2>2. new.space = result.space
    OBVIOUS
  <2>. HIDE DEF new
  <2>3. /\ TransformedSpaces = SpacesIn(transformedMaps)
        /\ TransformedSpaces' = SpacesIn(transformedMaps')
    BY DEF TransformedSpaces, SpacesIn
  <2>. QED  BY <1>1, <2>1, <2>2, <2>3, AppendOne
<1>5. new.space = result.space /\ new.relation = result.relation
  OBVIOUS
<1>. HIDE DEF new
<1>6. ReplaceTypeOK'
  <2>1. \A k \in DOMAIN transformedMaps' :
          transformedMaps'[k].relation.dim = problem'.umap[transformedMaps'[k].space].dim
    BY <1>2, <1>3, <1>4, <1>5 DEF ReplaceInv, ReplaceTypeOK
  <2>. QED  BY <1>1, <1>2, <2>1 DEF ReplaceInv, ReplaceTypeOK
<1>7. EveryRelationOnce'
  <2>1. \A k \in DOMAIN transformedMaps : transformedMaps[k].space # result.space
    BY <1>3 DEF ReplaceInv, EveryRelationOnce, TransformedSpaces
  <2>2. \A j, k \in DOMAIN transformedMaps' :
          transformedMaps'[j].space = transformedMaps'[k].space => j = k
    BY <1>4, <1>5, <2>1 DEF ReplaceInv, EveryRelationOnce
  <2>. QED  BY <1>1, <1>2, <1>3, <1>4, <2>2 DEF ReplaceInv, EveryRelationOnce
<1>8. Progress'
  <2>1. \A s \in DOMAIN problem.umap : s \notin originalMaps <=>
          \/ \E m \in 1..(current - 1) : s \in SpacesOf(m)
          \/ s \in SpacesOf(current) /\ s \notin toTransform
    BY <1>1 DEF ReplaceInv, Progress
  <2>2. \A s \in DOMAIN problem'.umap : s \notin originalMaps' <=>
          \/ \E m \in 1..(current' - 1) : s \in SpacesOf(m)'
          \/ s \in SpacesOf(current)' /\ s \notin toTransform'
    BY <1>1, <1>2, <1>3, <2>1
  <2>3. current' \in DOMAIN suitableCandidates' /\ toTransform' \subseteq SpacesOf(current)'
    BY <1>1, <1>2, <1>3
  <2>. QED  BY <1>1, <1>2, <1>4, <2>2, <2>3 DEF Progress
<1>9. OnlyMatchesAreRewritten'
  <2>1. result.space \in MatchedSpaces /\ MatchedSpaces' = MatchedSpaces
    BY <1>1, <1>3, SpacesOfProperties, MatchesAreFixed DEF ReplaceInv
  <2>. QED  BY <1>2, <1>4, <1>5, <2>1 DEF ReplaceInv, OnlyMatchesAreRewritten
<1>. QED  BY <1>1, <1>6, <1>7, <1>8, <1>9, FixedMatchesInv

LEMMA CopyRemainingInv == ReplaceInv /\ CopyRemaining => ReplaceInv'
<1>. SUFFICES ASSUME ReplaceInv, CopyRemaining PROVE ReplaceInv'
  OBVIOUS
<1>. DEFINE copy(s) == [space |-> s, relation |-> problem.umap[s]]
            Rest == {copy(s) : s \in originalMaps}
            rest == SetToSeq(Rest)
            maps == transformedMaps
            n == Len(maps)
<1>1. /\ UNCHANGED <<vars, current, toTransform, result, died>>
      /\ stage = "select" /\ stage' = "done" /\ originalMaps' = {}
      /\ transformedMaps' = maps \o rest
  BY DEF CopyRemaining
<1>2. problem' = problem /\ suitableCandidates' = suitableCandidates
  BY <1>1, MatchesAreFixed
<1>3. toTransform = {} /\ result = << >> /\ IsSequence(maps)
  BY <1>1 DEF ReplaceInv, Progress
<1>4. IsFiniteSet(Rest)
  <2>1. IsFiniteSet(originalMaps)
    BY ReplaceFacts, FS_Subset DEF ReplaceInv, ReplaceTypeOK
  <2>. DEFINE f == [s \in originalMaps |-> copy(s)]
  <2>2. f \in Surjection(originalMaps, Rest)
    BY DEF Surjection
  <2>. QED  BY <2>1, <2>2, FS_Surjection
<1>5. /\ IsSequence(rest) /\ ToSet(rest) = Rest
      /\ \A j, k \in DOMAIN rest : rest[j] = rest[k] => j = k
  BY <1>4, SetToSeqProperties
<1>. HIDE DEF rest
<1>6. /\ n \in Nat /\ DOMAIN maps = 1..n /\ Len(rest) \in Nat /\ DOMAIN rest = 1..Len(rest)
      /\ IsSequence(transformedMaps') /\ DOMAIN transformedMaps' = 1..(n + Len(rest))
      /\ \A k \in 1..n : transformedMaps'[k] = maps[k]
      /\ \A k \in (n + 1)..(n + Len(rest)) : transformedMaps'[k] = rest[k - n]
  BY <1>1, <1>3, <1>5, JoinedProperties, SequenceProperties
<1>7. \A k \in DOMAIN rest : rest[k].space \in originalMaps /\ rest[k] = copy(rest[k].space)
  <2>1. \A k \in DOMAIN rest : \E s \in originalMaps : rest[k] = copy(s)
    BY <1>5 DEF ToSet
  <2>. QED  BY <2>1
<1>8. \A k \in DOMAIN rest : rest[k].relation = problem.umap[rest[k].space]
  BY <1>7
<1>9. \A s \in originalMaps : \E k \in DOMAIN rest : rest[k].space = s
  <2>1. \A s \in originalMaps : copy(s) \in ToSet(rest)
    BY <1>5
  <2>2. \A s \in originalMaps : \E k \in DOMAIN rest : rest[k] = copy(s)
    BY <2>1 DEF ToSet
  <2>. QED  BY <2>2
<1>10. \A j, k \in DOMAIN rest : rest[j].space = rest[k].space => j = k
  BY <1>5, <1>7
<1>. HIDE DEF Rest, copy, maps, n
<1>11. \A k \in DOMAIN transformedMaps' :
         \/ k \in DOMAIN maps /\ transformedMaps'[k] = maps[k]
         \/ k \notin DOMAIN maps /\ k - n \in DOMAIN rest /\ transformedMaps'[k] = rest[k - n]
  BY <1>6
<1>12. \A k \in DOMAIN maps : k \in DOMAIN transformedMaps' /\ transformedMaps'[k] = maps[k]
  BY <1>6
<1>13. \A k \in DOMAIN rest : n + k \in DOMAIN transformedMaps' /\ transformedMaps'[n + k] = rest[k]
  BY <1>6
<1>14. TransformedSpaces' = TransformedSpaces \cup originalMaps
  <2>1. TransformedSpaces' \subseteq TransformedSpaces \cup originalMaps
    BY <1>7, <1>11 DEF TransformedSpaces, maps
  <2>2. TransformedSpaces \subseteq TransformedSpaces'
    BY <1>12 DEF TransformedSpaces, maps
  <2>3. originalMaps \subseteq TransformedSpaces'
    BY <1>9, <1>13 DEF TransformedSpaces
  <2>. QED  BY <2>1, <2>2, <2>3
<1>15. ReplaceTypeOK'
  <2>1. \A k \in DOMAIN transformedMaps' :
          transformedMaps'[k].relation.dim = problem'.umap[transformedMaps'[k].space].dim
    BY <1>2, <1>8, <1>11 DEF ReplaceInv, ReplaceTypeOK, maps
  <2>. QED  BY <1>1, <1>2, <1>3, <2>1 DEF ReplaceInv, ReplaceTypeOK
<1>16. EveryRelationOnce'
  <2>1. \A k \in DOMAIN maps : maps[k].space \notin originalMaps
    BY DEF ReplaceInv, EveryRelationOnce, TransformedSpaces, maps
  <2>2. ASSUME NEW j \in DOMAIN transformedMaps', NEW k \in DOMAIN transformedMaps',
               transformedMaps'[j].space = transformedMaps'[k].space
        PROVE  j = k
    <3>1. CASE j \in DOMAIN maps /\ k \in DOMAIN maps
      BY <1>12, <2>2, <3>1 DEF ReplaceInv, EveryRelationOnce, maps
    <3>2. CASE j \notin DOMAIN maps /\ k \notin DOMAIN maps
      <4>1. j - n \in DOMAIN rest /\ k - n \in DOMAIN rest /\ j - n = k - n
        BY <1>10, <1>11, <2>2, <3>2
      <4>. QED  BY <1>6, <4>1
    <3>3. CASE (j \in DOMAIN maps) # (k \in DOMAIN maps)
      BY <1>7, <1>11, <2>1, <2>2, <3>3
    <3>. QED  BY <3>1, <3>2, <3>3
  <2>. QED  BY <1>1, <1>2, <1>14, <2>2 DEF ReplaceInv, EveryRelationOnce
<1>17. Progress'
  BY <1>1, <1>3, <1>6 DEF Progress
<1>18. OnlyMatchesAreRewritten'
  <2>1. MatchedSpaces' = MatchedSpaces
    BY <1>1, MatchesAreFixed
  <2>. QED  BY <1>2, <1>8, <1>11, <2>1 DEF ReplaceInv, OnlyMatchesAreRewritten, maps
<1>. QED  BY <1>1, <1>15, <1>16, <1>17, <1>18, FixedMatchesInv

LEMMA ReplaceStep == ReplaceInv /\ [ReplaceNext]_<<vars, replaceVars>> => ReplaceInv'
<1>. SUFFICES ASSUME ReplaceInv, [ReplaceNext]_<<vars, replaceVars>> PROVE ReplaceInv'
  OBVIOUS
<1>1. CASE RunMatch
  BY <1>1, RunMatchInv
<1>2. CASE MatchReturned
  BY <1>2, MatchReturnedInv
<1>3. CASE SelectMaps
  BY <1>3, SelectMapsInv
<1>4. CASE DieMatchedTwice
  BY <1>4, DieInv DEF DieMatchedTwice
<1>5. CASE DieMultiplePatterns
  BY <1>5, DieInv DEF DieMultiplePatterns
<1>6. CASE DieUnknownPlaceholder
  BY <1>6, DieInv DEF DieUnknownPlaceholder
<1>7. CASE MatchOneMap
  BY <1>7, MatchOneMapInv
<1>8. CASE ApplyPlaceholder
  BY <1>8, ApplyPlaceholderInv
<1>9. CASE IndexOutOfRange
  BY <1>9, DieInv DEF IndexOutOfRange
<1>10. CASE TransformOneMap
  BY <1>10, TransformOneMapInv
<1>11. CASE NextMatch
  BY <1>11, NextMatchInv
<1>12. CASE CopyRemaining
  BY <1>12, CopyRemainingInv
<1>13. CASE UNCHANGED <<vars, replaceVars>>
  <2>1. /\ UNCHANGED <<vars, stage, current, toTransform, result, originalMaps,
                       transformedMaps, died>>
        /\ problem' = problem /\ suitableCandidates' = suitableCandidates
        /\ Replacements' = Replacements /\ Replacement' = Replacement
        /\ FirstMatching(result.space)' = FirstMatching(result.space)
        /\ \A m : SpacesOf(m)' = SpacesOf(m)
    BY <1>13, MatchesAreFixed DEF replaceVars, Replacement, FirstMatching
  <2>2. ReplaceTypeOK'
    BY <2>1 DEF ReplaceInv, ReplaceTypeOK
  <2>3. Progress'
    BY <2>1 DEF ReplaceInv, Progress
  <2>. QED  BY <2>1, <2>2, <2>3, KeepsRelations, FixedMatchesInv
<1>. QED
  BY <1>1, <1>2, <1>3, <1>4, <1>5, <1>6, <1>7, <1>8, <1>9, <1>10, <1>11, <1>12, <1>13
  DEF ReplaceNext
-----------------------------------------------------------------------------
(* The theorems *)

\* The inductive invariant holds in every state of every call.
THEOREM ReplaceInvariance == ReplaceSpec => []ReplaceInv
BY ReplaceInitInv, ReplaceStep, PTL DEF ReplaceSpec

\* Every variable keeps its type: relations keep their dimensions while they are
\* rewritten, and transformOneMap only ever works on a relation of the match that
\* no match has taken yet.
THEOREM ReplaceTypeCorrect == ReplaceSpec => []ReplaceTypeOK
<1>1. ReplaceInv => ReplaceTypeOK
  BY DEF ReplaceInv
<1>. QED  BY <1>1, ReplaceInvariance, PTL

\* No relation is lost or duplicated on the way from originalMaps to
\* transformedMaps, whatever the replacements and however the matches overlap.
THEOREM NoRelationIsLost == ReplaceSpec => []EveryRelationOnce
<1>1. ReplaceInv => EveryRelationOnce
  BY DEF ReplaceInv
<1>. QED  BY <1>1, ReplaceInvariance, PTL

\* Relations outside of all matches are copied to the result unchanged.
THEOREM UnmatchedAreCopied == ReplaceSpec => []OnlyMatchesAreRewritten
<1>1. ReplaceInv => OnlyMatchesAreRewritten
  BY DEF ReplaceInv
<1>. QED  BY <1>1, ReplaceInvariance, PTL

\* transformOneMap always finds a replacement: a relation of a match of all the
\* patterns also matches, alone, the pattern the match placed on it.
THEOREM RematchingSucceeds == ReplaceSpec => []MatchedAloneToo
<1>1. ReplaceInv => MatchedAloneToo
  <2>. SUFFICES ASSUME ReplaceInv, stage = "transform", NEW s \in toTransform
                PROVE  MatchingReplacements(s) # {}
    BY DEF MatchedAloneToo
  <2>1. current \in DOMAIN suitableCandidates /\ s \in SpacesOf(current)
    BY DEF ReplaceInv, Progress
  <2>. QED  BY <2>1, SpacesMatchAlone DEF ReplaceInv
<1>. QED  BY <1>1, ReplaceInvariance, PTL

\* The replacement transformOneMap applies is found by matching the relation once
\* more, alone.  When the program is not ended for it, it is the replacement whose
\* pattern, and the only one, the match of all the patterns placed on the relation.
AppliesWhatWasMatched ==
  Rewritten /\ MatchingReplacements(result.space) = {result.by} =>
    PlacedOn(CurrentMatch, result.space) = {result.by}

THEOREM ReplacesAsMatched == ReplaceSpec => []AppliesWhatWasMatched
<1>1. ReplaceInv => AppliesWhatWasMatched
  <2>. SUFFICES ASSUME ReplaceInv, Rewritten,
                       MatchingReplacements(result.space) = {result.by}
                PROVE  PlacedOn(CurrentMatch, result.space) = {result.by}
    BY DEF AppliesWhatWasMatched
  <2>1. current \in DOMAIN suitableCandidates /\ result.space \in SpacesOf(current)
    BY DEF ReplaceInv, ReplaceTypeOK, Progress, Rewritten
  <2>2. PlacedOn(CurrentMatch, result.space) # {}
    BY <2>1, SpacesOfProperties DEF ReplaceInv, CurrentMatch
  <2>3. \A l \in PlacedOn(CurrentMatch, result.space) : l = result.by
    BY <2>1, PlacedMatchesAlone DEF ReplaceInv, CurrentMatch
  <2>. QED  BY <2>2, <2>3
<1>. QED  BY <1>1, ReplaceInvariance, PTL

\* Having a pattern of a match placed on it makes a relation one of its relations.
LEMMA PlacedSpaces ==
  ASSUME problem \in Problems, NEW m, NEW s, PlacedOn(suitableCandidates[m], s) # {}
  PROVE  s \in SpacesOf(m)
<1>1. PICK l \in UsedLists : \E i \in PositionsOf(problem.lists, l) :
        suitableCandidates[m][i].candidate.space = s
  BY DEF PlacedOn
<1>. QED  BY <1>1, ListAtProperties DEF SpacesOf

\* Each of the ways to end the program has its reason in the input.
LEMMA DieReasons ==
  ASSUME ReplaceInv
  PROVE  /\ DieMatchedTwice => \E s \in MatchedSpaces : TakenTwice(s)
         /\ DieMultiplePatterns => \E s \in MatchedSpaces : FitsTwo(s)
         /\ DieUnknownPlaceholder => \E s \in MatchedSpaces : UsesUnknown(s)
         /\ IndexOutOfRange => \E s \in MatchedSpaces : LacksDimension(s)
<1>1. ASSUME DieMatchedTwice PROVE \E s \in MatchedSpaces : TakenTwice(s)
  <2>1. PICK s \in toTransform : s \notin originalMaps
    BY <1>1 DEF DieMatchedTwice
  <2>2. /\ current \in DOMAIN suitableCandidates /\ s \in SpacesOf(current)
        /\ s \in DOMAIN problem.umap
    BY <1>1, <2>1 DEF DieMatchedTwice, ReplaceInv, ReplaceTypeOK, Progress
  <2>3. PICK m \in 1..(current - 1) : s \in SpacesOf(m)
    BY <1>1, <2>1, <2>2 DEF DieMatchedTwice, ReplaceInv, Progress
  <2>4. m \in DOMAIN suitableCandidates /\ m # current
    BY <2>2, <2>3 DEF ReplaceInv, IInv, TypeOK
  <2>5. /\ PlacedOn(suitableCandidates[current], s) # {} /\ s \in MatchedSpaces
        /\ PlacedOn(suitableCandidates[m], s) # {}
    BY <2>2, <2>3, <2>4, SpacesOfProperties DEF ReplaceInv
  <2>. QED  BY <2>2, <2>4, <2>5 DEF TakenTwice
<1>2. ASSUME stage = "transform", result # << >>
      PROVE  /\ result.space \in DOMAIN problem.umap /\ result.space \in MatchedSpaces
             /\ result.by \in MatchingReplacements(result.space)
             /\ result.by \in DOMAIN Replacements
             /\ result.relation.dim = problem.umap[result.space].dim
             /\ current \in DOMAIN suitableCandidates
             /\ MatchingReplacements(result.space) # {result.by} =>
                  Cardinality(MatchingReplacements(result.space)) > 1
  <2>1. /\ current \in DOMAIN suitableCandidates /\ result.space \in SpacesOf(current)
        /\ result.by = FirstMatching(result.space)
        /\ result.relation.dim = problem.umap[result.space].dim
    BY <1>2 DEF ReplaceInv, ReplaceTypeOK, Progress
  <2>2. MatchingReplacements(result.space) # {}
    BY <2>1, SpacesMatchAlone DEF ReplaceInv
  <2>3. result.space \in DOMAIN problem.umap /\ result.space \in MatchedSpaces
    BY <2>1, SpacesOfProperties DEF ReplaceInv
  <2>. QED  BY <2>1, <2>2, <2>3, FirstMatchingProperties DEF ReplaceInv
<1>3. ASSUME DieMultiplePatterns PROVE \E s \in MatchedSpaces : FitsTwo(s)
  BY <1>2, <1>3 DEF DieMultiplePatterns, Rewritten, FitsTwo
<1>4. ASSUME DieUnknownPlaceholder PROVE \E s \in MatchedSpaces : UsesUnknown(s)
  <2>1. /\ stage = "transform" /\ result # << >> /\ result.next \in DOMAIN Replacement
        /\ ~ LookupSucceeds(CurrentMatch, Placeholder1.id)
    BY <1>4 DEF DieUnknownPlaceholder, Rewriting
  <2>2. Placeholder1.id \notin IdsIn(PS)
    <3>1. \A i \in 1..Size : LookupSucceeds(CurrentMatch, PS.placeholders[i].id)
      BY <1>2, <2>1, LookupsAreSafe DEF ReplaceInv, LookupsSucceed, CurrentMatch
    <3>2. DOMAIN PS.placeholders = 1..Size
      BY ProblemFacts DEF ReplaceInv
    <3>. QED  BY <2>1, <3>1, <3>2 DEF IdsIn
  <2>. QED  BY <1>2, <2>1, <2>2 DEF UsesUnknown, Placeholder1, Replacement
<1>5. ASSUME IndexOutOfRange PROVE \E s \in MatchedSpaces : LacksDimension(s)
  <2>1. /\ stage = "transform" /\ result # << >> /\ result.next \in DOMAIN Replacement
        /\ ~ CanIndex(result.relation, Placeholder1.pattern)
    BY <1>5 DEF IndexOutOfRange, Rewriting
  <2>2. ~ CanIndex(problem.umap[result.space], Placeholder1.pattern)
    <3>1. result.relation.dim = problem.umap[result.space].dim
      BY <1>2, <2>1
    <3>. QED  BY <2>1, <3>1 DEF CanIndex, InRange, Position
  <2>. QED  BY <1>2, <2>1, <2>2 DEF LacksDimension, Placeholder1, Replacement
<1>. QED  BY <1>1, <1>3, <1>4, <1>5

\* What transformOneMap has found out about a relation it did not die for.
IsFit(s) ==
  /\ MatchingReplacements(s) = {FirstMatching(s)}
  /\ \A k \in DOMAIN Replacements[FirstMatching(s)].replacement :
       Replacements[FirstMatching(s)].replacement[k].id \in IdsIn(PS)

\* The invariant behind the other direction: what was taken was fit, and was
\* taken by one of the matches passed so far only.
PassedAreFit ==
  /\ stage \in {"select", "transform"} =>
       /\ \A s \in DOMAIN problem.umap : s \notin originalMaps => IsFit(s)
       /\ \A m, n \in 1..(current - 1) : m # n => SpacesOf(m) \cap SpacesOf(n) = {}
  /\ stage = "transform" =>
       \A m \in 1..(current - 1) : SpacesOf(m) \cap SpacesOf(current) \subseteq toTransform
  /\ result # << >> =>
       \A k \in 1..(result.next - 1) : Replacement[k].id \in IdsIn(PS)

LEMMA FitIsNotAmbiguous ==
  ASSUME NEW s, IsFit(s)
  PROVE  ~ FitsTwo(s) /\ ~ UsesUnknown(s)
<1>1. Cardinality({FirstMatching(s)}) = 1
  BY FS_Singleton
<1>. QED  BY <1>1 DEF IsFit, FitsTwo, UsesUnknown

LEMMA FitIsFixed ==
  ASSUME UNCHANGED vars
  PROVE  /\ IdsIn(PS)' = IdsIn(PS)
         /\ \A s : IsFit(s)' = IsFit(s)
         /\ \A s : TakenTwice(s)' = TakenTwice(s)
         /\ \A s : FitsTwo(s)' = FitsTwo(s)
         /\ \A s : UsesUnknown(s)' = UsesUnknown(s)
         /\ \A s : LacksDimension(s)' = LacksDimension(s)
<1>1. /\ problem' = problem /\ suitableCandidates' = suitableCandidates
      /\ PS' = PS /\ Replacements' = Replacements
      /\ \A s : MatchingReplacements(s)' = MatchingReplacements(s)
      /\ \A s : FirstMatching(s)' = FirstMatching(s)
      /\ \A m, s : PlacedOn(suitableCandidates[m], s)' = PlacedOn(suitableCandidates[m], s)
  BY MatchesAreFixed
<1>2. IdsIn(PS)' = IdsIn(PS)
  BY <1>1 DEF IdsIn
<1>3. \A s : TakenTwice(s)' = TakenTwice(s)
  BY <1>1, Zenon DEF TakenTwice
<1>4. \A s : IsFit(s)' = IsFit(s) /\ FitsTwo(s)' = FitsTwo(s) /\ UsesUnknown(s)' = UsesUnknown(s)
  BY <1>1, <1>2, Zenon DEF IsFit, FitsTwo, UsesUnknown
<1>5. \A s : LacksDimension(s)' = LacksDimension(s)
  BY <1>1, Zenon DEF LacksDimension
<1>. QED  BY <1>2, <1>3, <1>4, <1>5

LEMMA PassedStep ==
  ASSUME ReplaceInv, PassedAreFit, [ReplaceNext]_<<vars, replaceVars>>
  PROVE  PassedAreFit'
<1>1. CASE RunMatch
  <2>1. stage' = "match" /\ result' = result /\ result = << >>
    BY <1>1 DEF RunMatch, replaceVars, ReplaceInv, Progress
  <2>. QED  BY <2>1 DEF PassedAreFit
<1>2. CASE DieMatchedTwice \/ DieMultiplePatterns \/ DieUnknownPlaceholder \/ IndexOutOfRange
  <2>1. UNCHANGED <<vars, result>> /\ stage' = "died"
    BY <1>2 DEF DieMatchedTwice, DieMultiplePatterns, DieUnknownPlaceholder,
                IndexOutOfRange, Die
  <2>2. Replacement' = Replacement /\ IdsIn(PS)' = IdsIn(PS)
    BY <2>1, MatchesAreFixed, FitIsFixed DEF Replacement
  <2>. QED  BY <2>1, <2>2 DEF PassedAreFit
<1>3. ASSUME UNCHANGED vars
      PROVE  /\ problem' = problem /\ \A m : SpacesOf(m)' = SpacesOf(m)
             /\ \A s : IsFit(s)' = IsFit(s)
             /\ IdsIn(PS)' = IdsIn(PS)
             /\ result'.by = result.by => Replacement' = Replacement
  BY <1>3, MatchesAreFixed, FitIsFixed DEF Replacement
<1>4. CASE MatchReturned
  <2>1. /\ UNCHANGED <<vars, current, result, originalMaps>> /\ stage' = "select"
        /\ current = 1 /\ originalMaps = DOMAIN problem.umap /\ result = << >>
    BY <1>4 DEF MatchReturned, ReplaceInv, Progress
  <2>. QED  BY <1>3, <2>1 DEF PassedAreFit
<1>5. CASE SelectMaps
  <2>1. /\ UNCHANGED <<vars, current, result, originalMaps>>
        /\ stage = "select" /\ stage' = "transform" /\ result = << >>
        /\ current <= Len(suitableCandidates)
        /\ toTransform' = UNION {LookupSpaces(CurrentMatch, PS.placeholders[i].id) : i \in 1..Size}
    BY <1>5 DEF SelectMaps, ReplaceInv, Progress
  <2>2. current \in DOMAIN suitableCandidates
    BY <2>1 DEF ReplaceInv, ReplaceTypeOK, IInv, TypeOK
  <2>3. toTransform' = SpacesOf(current)
    BY <2>1, <2>2, SpacesOfProperties DEF ReplaceInv, CurrentMatch
  <2>. QED  BY <1>3, <2>1, <2>3 DEF PassedAreFit
<1>6. CASE MatchOneMap
  <2>1. /\ UNCHANGED <<vars, stage, current, toTransform, originalMaps>>
        /\ stage = "transform" /\ result'.next = 1
    BY <1>6 DEF MatchOneMap
  <2>. QED  BY <1>3, <2>1 DEF PassedAreFit
<1>7. CASE ApplyPlaceholder
  <2>1. /\ UNCHANGED <<vars, stage, current, toTransform, originalMaps>>
        /\ stage = "transform" /\ result # << >> /\ result.next \in DOMAIN Replacement
        /\ LookupSucceeds(CurrentMatch, Placeholder1.id)
        /\ result' = [result EXCEPT !.next = @ + 1, !.relation = Rewrite(@, Placeholder1)]
    BY <1>7 DEF ApplyPlaceholder, Rewriting
  <2>2. /\ result = [space |-> result.space, by |-> result.by, next |-> result.next,
                     relation |-> result.relation]
        /\ current \in DOMAIN suitableCandidates /\ result.by \in DOMAIN Replacements
    BY <2>1 DEF ReplaceInv, ReplaceTypeOK, Progress
  <2>3. result'.by = result.by /\ result'.next = result.next + 1
    BY <2>1, <2>2
  <2>4. Placeholder1.id \in IdsIn(PS)
    <3>1. /\ DOMAIN CurrentMatch = 1..Size
          /\ \A i \in 1..Size : CurrentMatch[i].id = PS.placeholders[i].id
      BY <2>2, MatchProperties DEF ReplaceInv, IInv, IdAt, CurrentMatch
    <3>2. DOMAIN PS.placeholders = 1..Size
      BY ProblemFacts DEF ReplaceInv
    <3>. QED  BY <2>1, <3>1, <3>2 DEF LookupSucceeds, EntriesFor, IdsIn
  <2>5. result.next \in Nat
    BY <2>1, <2>2, ReplaceFacts DEF Replacement, ReplaceInv
  <2>6. \A k \in 1..(result'.next - 1) : Replacement[k].id \in IdsIn(PS)
    BY <2>1, <2>3, <2>4, <2>5 DEF PassedAreFit, Placeholder1
  <2>. QED  BY <1>3, <2>1, <2>3, <2>6 DEF PassedAreFit
<1>8. CASE TransformOneMap
  <2>. DEFINE s == result.space
  <2>1. /\ UNCHANGED <<vars, stage, current>>
        /\ stage = "transform" /\ result # << >> /\ result.next > Len(Replacement)
        /\ MatchingReplacements(s) = {result.by} /\ result' = << >>
        /\ toTransform' = toTransform \ {s} /\ originalMaps' = originalMaps \ {s}
    BY <1>8 DEF TransformOneMap, Rewritten
  <2>2. /\ s \in originalMaps /\ s \in DOMAIN problem.umap /\ result.by = FirstMatching(s)
        /\ result.by \in DOMAIN Replacements /\ result.next \in 1..(Len(Replacement) + 1)
    BY <2>1 DEF ReplaceInv, ReplaceTypeOK, Progress
  <2>3. IsFit(s)
    <3>1. Len(Replacement) \in Nat /\ DOMAIN Replacement = 1..Len(Replacement)
      BY <2>2, ReplaceFacts DEF Replacement, ReplaceInv
    <3>2. \A k \in DOMAIN Replacement : k \in 1..(result.next - 1)
      BY <2>1, <2>2, <3>1
    <3>. QED  BY <2>1, <2>2, <3>2 DEF PassedAreFit, IsFit, Replacement
  <2>4. \A m \in 1..(current - 1) : s \notin SpacesOf(m)
    BY <2>1, <2>2 DEF ReplaceInv, Progress
  <2>. HIDE DEF s
  <2>5. \A m \in 1..(current - 1) : SpacesOf(m) \cap SpacesOf(current) \subseteq toTransform'
    BY <2>1, <2>4 DEF PassedAreFit
  <2>6. \A t \in DOMAIN problem.umap : t \notin originalMaps' => IsFit(t)
    BY <2>1, <2>3 DEF PassedAreFit
  <2>. QED  BY <1>3, <2>1, <2>5, <2>6 DEF PassedAreFit
<1>9. CASE NextMatch
  <2>1. /\ UNCHANGED <<vars, result, originalMaps>> /\ toTransform = {}
        /\ stage = "transform" /\ stage' = "select" /\ current' = current + 1
    BY <1>9 DEF NextMatch
  <2>2. current \in Nat /\ result = << >>
    BY <2>1 DEF ReplaceInv, ReplaceTypeOK, IInv, TypeOK
  <2>3. \A m, n \in 1..current : m # n => SpacesOf(m) \cap SpacesOf(n) = {}
    <3>1. \A m \in 1..(current - 1) : SpacesOf(m) \cap SpacesOf(current) = {}
      BY <2>1 DEF PassedAreFit
    <3>2. \A m \in 1..current : m \in 1..(current - 1) \/ m = current
      BY <2>2
    <3>. QED  BY <2>1, <3>1, <3>2 DEF PassedAreFit
  <2>. QED  BY <1>3, <2>1, <2>2, <2>3 DEF PassedAreFit
<1>10. CASE CopyRemaining
  <2>1. stage' = "done" /\ result' = result /\ result = << >>
    BY <1>10 DEF CopyRemaining, ReplaceInv, Progress
  <2>. QED  BY <2>1 DEF PassedAreFit
<1>11. CASE UNCHANGED <<vars, replaceVars>>
  <2>1. UNCHANGED <<vars, stage, current, toTransform, result, originalMaps>>
    BY <1>11 DEF replaceVars
  <2>. QED  BY <1>3, <2>1 DEF PassedAreFit
<1>. QED
  BY <1>1, <1>2, <1>4, <1>5, <1>6, <1>7, <1>8, <1>9, <1>10, <1>11 DEF ReplaceNext

\* When the last match is passed, nothing ambiguous was.
LEMMA PassedToTheEnd ==
  ASSUME ReplaceInv, PassedAreFit, stage = "select", current > Len(suitableCandidates),
         NEW s \in MatchedSpaces
  PROVE  ~ TakenTwice(s) /\ ~ FitsTwo(s) /\ ~ UsesUnknown(s)
<1>1. /\ Len(suitableCandidates) \in Nat /\ current \in Nat
      /\ DOMAIN suitableCandidates = 1..Len(suitableCandidates)
  BY DEF ReplaceInv, ReplaceTypeOK, IInv, TypeOK
<1>2. DOMAIN suitableCandidates \subseteq 1..(current - 1)
  BY <1>1
<1>3. ~ TakenTwice(s)
  <2>1. ASSUME NEW m \in DOMAIN suitableCandidates, NEW n \in DOMAIN suitableCandidates,
               m # n, PlacedOn(suitableCandidates[m], s) # {},
               PlacedOn(suitableCandidates[n], s) # {}
        PROVE  FALSE
    <3>1. s \in SpacesOf(m) /\ s \in SpacesOf(n)
      BY <2>1, PlacedSpaces DEF ReplaceInv
    <3>. QED  BY <1>2, <2>1, <3>1 DEF PassedAreFit
  <2>. QED  BY <2>1 DEF TakenTwice
<1>4. IsFit(s)
  <2>1. PICK m \in DOMAIN suitableCandidates : PlacedOn(suitableCandidates[m], s) # {}
    BY DEF MatchedSpaces
  <2>2. s \in SpacesOf(m) /\ s \in DOMAIN problem.umap
    BY <2>1, PlacedSpaces DEF ReplaceInv, MatchedSpaces
  <2>3. s \notin originalMaps
    BY <1>2, <2>2 DEF ReplaceInv, Progress
  <2>. QED  BY <2>2, <2>3 DEF PassedAreFit
<1>. QED  BY <1>3, <1>4, FitIsNotAmbiguous

\* findAndReplace ends the program exactly for the calls that have no meaning.  It
\* never ends because of a placeholder of the pattern itself, nor with a message
\* that is true of no relation; and it never returns a result for which it had
\* to choose between two matches or two patterns of one relation.
THEOREM EndsExactlyForUndefinedInput == ReplaceSpec => []EndsExactlyWhenAmbiguous
<1>1. ReplaceInit => EndsExactlyWhenAmbiguous /\ PassedAreFit
  BY DEF ReplaceInit, EndsExactlyWhenAmbiguous, PassedAreFit
<1>2. ReplaceInv /\ PassedAreFit /\ EndsExactlyWhenAmbiguous
        /\ [ReplaceNext]_<<vars, replaceVars>> => EndsExactlyWhenAmbiguous'
  <2>. SUFFICES ASSUME ReplaceInv, PassedAreFit, EndsExactlyWhenAmbiguous,
                       [ReplaceNext]_<<vars, replaceVars>>
                PROVE  EndsExactlyWhenAmbiguous'
    OBVIOUS
  <2>0. ASSUME UNCHANGED vars
        PROVE  /\ MatchedSpaces' = MatchedSpaces
               /\ \A s : TakenTwice(s)' = TakenTwice(s) /\ FitsTwo(s)' = FitsTwo(s)
                         /\ UsesUnknown(s)' = UsesUnknown(s)
               /\ \A s, message : IsReason(message, s)' = IsReason(message, s)
    BY <2>0, MatchesAreFixed, FitIsFixed DEF IsReason
  <2>1. CASE DieMatchedTwice \/ DieMultiplePatterns \/ DieUnknownPlaceholder \/ IndexOutOfRange
    <3>1. PICK message : /\ Die(message)
                         /\ \E s \in MatchedSpaces : IsReason(message, s)
      BY <2>1, DieReasons, Zenon DEF DieMatchedTwice, DieMultiplePatterns,
                              DieUnknownPlaceholder, IndexOutOfRange, IsReason
    <3>2. UNCHANGED vars /\ stage' = "died" /\ died' = message
      BY <3>1 DEF Die
    <3>3. \A s : IsReason(died, s)' = IsReason(message, s)
      BY <2>0, <3>2, FitIsFixed DEF IsReason
    <3>. QED  BY <2>0, <3>1, <3>2, <3>3 DEF EndsExactlyWhenAmbiguous
  <2>2. CASE UNCHANGED <<vars, replaceVars>>
    <3>1. UNCHANGED <<vars, stage, died>>
      BY <2>2 DEF replaceVars
    <3>2. \A s : IsReason(died, s)' = IsReason(died, s)
      BY <3>1, FitIsFixed DEF IsReason
    <3>. QED  BY <2>0, <3>1, <3>2 DEF EndsExactlyWhenAmbiguous
  <2>3. CASE CopyRemaining
    <3>1. /\ UNCHANGED vars /\ stage = "select" /\ stage' = "done"
          /\ current > Len(suitableCandidates)
      BY <2>3 DEF CopyRemaining
    <3>. QED  BY <2>0, <3>1, PassedToTheEnd DEF EndsExactlyWhenAmbiguous
  <2>4. CASE \/ RunMatch \/ MatchReturned \/ SelectMaps \/ MatchOneMap \/ ApplyPlaceholder
             \/ TransformOneMap \/ NextMatch
    <3>1. stage' \notin {"died", "done"}
      BY <2>4 DEF RunMatch, replaceVars, MatchReturned, SelectMaps, MatchOneMap,
                  ApplyPlaceholder, Rewriting, TransformOneMap, Rewritten, NextMatch
    <3>. QED  BY <3>1 DEF EndsExactlyWhenAmbiguous
  <2>. QED  BY <2>1, <2>2, <2>3, <2>4 DEF ReplaceNext
<1>3. ReplaceInv /\ PassedAreFit /\ [ReplaceNext]_<<vars, replaceVars>> => PassedAreFit'
  BY PassedStep
<1>. QED  BY <1>1, <1>2, <1>3, ReplaceInvariance, PTL DEF ReplaceSpec

=============================================================================
