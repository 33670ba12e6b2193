---------------------------- MODULE FindAndReplace ----------------------------
(***************************************************************************)
(* findAndReplace(umap, replacements...) of islutils/access-inl.h, on top  *)
(* of AccessMatcher: the patterns of all replacements are matched as one   *)
(* set, then, match by match, the matched relations move from originalMaps *)
(* to transformedMaps, rewritten by the replacement whose pattern matches  *)
(* the relation alone.  The problem has a field "replacements" of records  *)
(* [pattern, replacement]; its "lists" are their patterns.                 *)
(*                                                                         *)
(* A relation is known by its space, so originalMaps is a set of spaces.   *)
(* Candidates and transformMap are those of AccessPatterns: only           *)
(* SingleInputDim has both.                                                *)
(* The order in which the relations of one match are processed is left     *)
(* open: it only decides the order of transformedMaps, which is united.    *)
(* ISLUTILS_DIE ends the program: "died" records which one did.  Indexing  *)
(* the list of dimensions out of range is undefined, and ends it here too. *)
(***************************************************************************)
EXTENDS AccessMatcher, AccessPatterns

VARIABLES
  stage,            \* "match", "select", "transform", "done" or "died"
  current,          \* index of the match being processed
  toTransform,      \* its relations that are still to be processed
  originalMaps,     \* relations not yet taken by a match
  transformedMaps,  \* records [space, relation], in the order of push_back
  result,           \* transformOneMap at work: [space, by, next, relation], or << >>
  died              \* the message of the ISLUTILS_DIE reached, or "no"

replaceVars == <<stage, current, toTransform, result, originalMaps, transformedMaps, died>>

Replacements == problem.replacements

IsReplaceProblem(p) ==
  /\ p.arrays = << >>
  /\ p.replacements # << >>
  /\ p.lists = [r \in DOMAIN p.replacements |-> p.replacements[r].pattern]
  /\ \A r \in DOMAIN p.replacements :
       LET plhs == p.replacements[r].replacement
       IN  plhs \in Seq(Placeholder({plhs[k].id : k \in DOMAIN plhs}))

ASSUME ReplaceAssumption == \A p \in Problems : IsReplaceProblem(p)
ASSUME RelationAssumption == \A r \in Relation : r.dim \in Nat
-----------------------------------------------------------------------------
(* Re-matching one relation: match(isl::union_map(map), allOf(pattern)).   *)

\* Full combinations of candidates of that one relation.
CombinationsIn(space, ps) ==
  {c \in [DOMAIN ps.placeholders -> [payload : Payload, space : {space}]] :
     \A i \in DOMAIN c : IsOffered(c[i], ps.placeholders[i])}

\* Variant: the relation is matched against all the patterns together.
MatchesTogether(space, pattern) ==
  \E c \in CombinationsIn(space, PS) : IsSuitableCombination(PS, c)

\* The set is bound rather than defined by LET: TLC then computes it once.
MatchesAlone(space, pattern) ==
  \E ps \in {AllOf(<<pattern>>)} :
    \E c \in CombinationsIn(space, ps) : IsSuitableCombination(ps, c)

MatchingReplacements(space) ==
  {r \in DOMAIN Replacements : MatchesAlone(space, Replacements[r].pattern)}

\* Replacements are tried in order.
FirstMatching(space) == Min(MatchingReplacements(space))

\* transformMap does not check its position, as candidates does.
CanIndex(relation, pattern) == relation.dim = 0 \/ InRange(relation, pattern)
-----------------------------------------------------------------------------
ReplaceInit ==
  /\ Init
  /\ stage = "match"
  /\ current = 1
  /\ toTransform = {}
  /\ result = << >>
  /\ originalMaps = DOMAIN problem.umap
  /\ transformedMaps = << >>
  /\ died = "no"

RunMatch ==
  /\ stage = "match" /\ Next
  /\ UNCHANGED replaceVars

MatchReturned ==
  /\ stage = "match" /\ pc = "done"
  /\ stage' = "select"
  /\ UNCHANGED <<vars, current, toTransform, result, originalMaps, transformedMaps, died>>

CurrentMatch == suitableCandidates[current]

\* All relations of the match, each once although its placeholders share it.
SelectMaps ==
  /\ stage = "select" /\ current <= Len(suitableCandidates)
  /\ toTransform' = UNION {LookupSpaces(CurrentMatch, PS.placeholders[i].id) :
                             i \in 1..Size}
  /\ stage' = "transform"
  /\ UNCHANGED <<vars, current, result, originalMaps, transformedMaps, died>>

\* Variant: the message gets lost.
DieSilently(message) ==
  /\ stage' = "died"
  /\ UNCHANGED <<vars, current, toTransform, result, originalMaps, transformedMaps, died>>

Die(message) ==
  /\ stage' = "died"
  /\ died' = message
  /\ UNCHANGED <<vars, current, toTransform, result, originalMaps, transformedMaps>>

\* The relation was already taken by an earlier match.
DieMatchedTwice ==
  /\ stage = "transform" /\ result = << >>
  /\ \E space \in toTransform : space \notin originalMaps
  /\ Die("map matched more than once")

(* transformOneMap *)

\* The first replacement whose pattern matches the relation when it is alone.
MatchOneMap ==
  /\ stage = "transform" /\ result = << >>
  /\ \E space \in toTransform \cap originalMaps :
       result' = [space |-> space, by |-> FirstMatching(space), next |-> 1,
                  relation |-> problem.umap[space]]
  /\ UNCHANGED <<vars, stage, current, toTransform, originalMaps, transformedMaps, died>>

Replacement == Replacements[result.by].replacement
Placeholder1 == Replacement[result.next]
Rewriting == stage = "transform" /\ result # << >> /\ result.next \in DOMAIN Replacement
Rewritten == stage = "transform" /\ result # << >> /\ result.next > Len(Replacement)

\* Variant: every step starts from the original map again.
RewriteOriginal(relation, plh) ==
  TransformMap(problem.umap[result.space], LookupPayload(CurrentMatch, plh.id), plh.pattern)

Rewrite(relation, plh) ==
  TransformMap(relation, LookupPayload(CurrentMatch, plh.id), plh.pattern)

\* The placeholders of the replacement are applied one after the other.
ApplyPlaceholder ==
  /\ Rewriting
  /\ LookupSucceeds(CurrentMatch, Placeholder1.id)
  /\ CanIndex(result.relation, Placeholder1.pattern)
  /\ result' = [result EXCEPT !.next = @ + 1, !.relation = Rewrite(@, Placeholder1)]
  /\ UNCHANGED <<vars, stage, current, toTransform, originalMaps, transformedMaps, died>>

\* A replacement uses a placeholder that is in none of the patterns.
DieUnknownPlaceholder ==
  /\ Rewriting
  /\ ~ LookupSucceeds(CurrentMatch, Placeholder1.id)
  /\ Die("no match for the placeholder")

\* The list of dimensions is indexed by a position it does not have.
IndexOutOfRange ==
  /\ Rewriting
  /\ LookupSucceeds(CurrentMatch, Placeholder1.id)
  /\ ~ CanIndex(result.relation, Placeholder1.pattern)
  /\ Die("undefined behaviour")

\* Another pattern matches the relation when it is matched alone.
DieMultiplePatterns ==
  /\ Rewritten
  /\ MatchingReplacements(result.space) # {result.by}
  /\ Die("one relation matched multiple patterns")

\* Variant: the first pattern that fits the relation is good enough.
TransformByFirst ==
  /\ Rewritten
  /\ toTransform' = toTransform \ {result.space}
  /\ originalMaps' = originalMaps \ {result.space}
  /\ transformedMaps' = Append(transformedMaps,
       [space |-> result.space, relation |-> result.relation])
  /\ result' = << >>
  /\ UNCHANGED <<vars, stage, current, died>>

\* Variant: the rewritten relation is not taken out of originalMaps.
TransformKeepingOriginal ==
  /\ Rewritten
  /\ MatchingReplacements(result.space) = {result.by}
  /\ toTransform' = toTransform \ {result.space}
  /\ transformedMaps' = Append(transformedMaps,
       [space |-> result.space, relation |-> result.relation])
  /\ result' = << >>
  /\ UNCHANGED <<vars, stage, current, originalMaps, died>>

TransformOneMap ==
  /\ Rewritten
  /\ MatchingReplacements(result.space) = {result.by}
  /\ toTransform' = toTransform \ {result.space}
  /\ originalMaps' = originalMaps \ {result.space}
  /\ transformedMaps' = Append(transformedMaps,
       [space |-> result.space, relation |-> result.relation])
  /\ result' = << >>
  /\ UNCHANGED <<vars, stage, current, died>>

NextMatch ==
  /\ stage = "transform" /\ toTransform = {}
  /\ stage' = "select"
  /\ current' = current + 1
  /\ UNCHANGED <<vars, toTransform, result, originalMaps, transformedMaps, died>>

\* Variant: nothing happens when no relation is left over.
CopyIfAnyRemain ==
  /\ stage = "select" /\ current > Len(suitableCandidates)
  /\ originalMaps # {}
  /\ transformedMaps' = transformedMaps \o
       SetToSeq({[space |-> s, relation |-> problem.umap[s]] : s \in originalMaps})
  /\ originalMaps' = {}
  /\ stage' = "done"
  /\ UNCHANGED <<vars, current, toTransform, result, died>>

\* Relations no match took are copied to the result as they are.
CopyRemaining ==
  /\ stage = "select" /\ current > Len(suitableCandidates)
  /\ transformedMaps' = transformedMaps \o
       SetToSeq({[space |-> s, relation |-> problem.umap[s]] : s \in originalMaps})
  /\ originalMaps' = {}
  /\ stage' = "done"
  /\ UNCHANGED <<vars, current, toTransform, result, died>>

ReplaceNext ==
  \/ RunMatch \/ MatchReturned \/ SelectMaps
  \/ DieMatchedTwice \/ DieMultiplePatterns \/ DieUnknownPlaceholder
  \/ MatchOneMap \/ ApplyPlaceholder \/ IndexOutOfRange
  \/ TransformOneMap \/ NextMatch \/ CopyRemaining

ReplaceSpec ==
  /\ ReplaceInit
  /\ [][ReplaceNext]_<<vars, replaceVars>>
  /\ WF_<<vars, replaceVars>>(ReplaceNext)
-----------------------------------------------------------------------------
(* Properties *)

TransformedSpaces == {transformedMaps[k].space : k \in DOMAIN transformedMaps}

ReplaceTypeOK ==
  /\ stage \in {"match", "select", "transform", "done", "died"}
  /\ current \in 1..(Len(suitableCandidates) + 1)
  /\ toTransform \subseteq DOMAIN problem.umap
  /\ originalMaps \subseteq DOMAIN problem.umap
  /\ \A k \in DOMAIN transformedMaps :
       transformedMaps[k].relation.dim = problem.umap[transformedMaps[k].space].dim
  /\ result # << >> => /\ result.space \in toTransform \cap originalMaps
                       /\ result.by \in DOMAIN Replacements
                       /\ result.next \in 1..(Len(Replacement) + 1)
  /\ stage = "died" <=> died # "no"

\* No relation is lost or duplicated on the way: at any time each relation of
\* the union map is either still original or transformed, exactly once.
EveryRelationOnce ==
  /\ originalMaps \cap TransformedSpaces = {}
  /\ originalMaps \cup TransformedSpaces = DOMAIN problem.umap
  /\ \A j, k \in DOMAIN transformedMaps :
       transformedMaps[j].space = transformedMaps[k].space => j = k

\* The lists of the pattern that a match places on a relation.
PlacedOn(match, space) ==
  {l \in UsedLists : \E i \in PositionsOf(problem.lists, l) :
                       match[i].candidate.space = space}

MatchedSpaces ==
  {s \in DOMAIN problem.umap : \E m \in DOMAIN suitableCandidates :
     PlacedOn(suitableCandidates[m], s) # {}}

\* The replacement that transformOneMap finds by matching the relation alone
\* is the one whose pattern matched it as part of the whole set, and it is
\* applied with the payloads of that match; all other relations are unchanged.
ResultIsAsMatched ==
  stage = "done" =>
    \A k \in DOMAIN transformedMaps :
      LET s == transformedMaps[k].space IN
      IF s \notin MatchedSpaces
      THEN transformedMaps[k].relation = problem.umap[s]
      ELSE \E m \in DOMAIN suitableCandidates :
             \E l \in PlacedOn(suitableCandidates[m], s) :
               \A p \in DOMAIN Replacements[l].replacement :
                 LET plh == Replacements[l].replacement[p]
                     value == AssignmentOf(suitableCandidates[m]).value[plh.id]
                     found == Candidates(transformedMaps[k].relation, plh.pattern)
                 IN  \E c \in DOMAIN found : found[c] = value

\* What a replacement makes of one access, index by index.
Replaced(tuple, point, match, replacement) ==
  [d \in DOMAIN tuple |->
     LET on == {k \in DOMAIN replacement :
                  Position([dim |-> Len(tuple)], replacement[k].pattern) = d - 1}
         plh == replacement[Max(on)]
     IN  IF on = {} THEN tuple[d]
         ELSE plh.pattern.constant + plh.pattern.coefficient
                * point[AssignmentOf(match).value[plh.id] + 1]]

\* transformMap takes the relation apart and forgets the domain of what it
\* replaces.  Still, every access of the original is there, rewritten; none is
\* added to a single-valued relation on its domain; and outside of it only when
\* no subscript was kept that knows the domain.
AccessesAreReplaced ==
  stage = "done" =>
    \A n \in DOMAIN transformedMaps :
      LET s == transformedMaps[n].space
          old == problem.umap[s].at
          new == transformedMaps[n].relation.at
      IN  s \in MatchedSpaces =>
            \E m \in DOMAIN suitableCandidates :
              \E l \in PlacedOn(suitableCandidates[m], s) :
                LET replacement == Replacements[l].replacement
                    wanted(p) == {Replaced(t, p, suitableCandidates[m], replacement) :
                                    t \in old[p]}
                IN  \A p \in DOMAIN old :
                      /\ wanted(p) \subseteq new[p]
                      /\ Cardinality(old[p]) = 1 => new[p] = wanted(p)
                      /\ old[p] = {} /\ new[p] # {} =>
                           {Position(problem.umap[s], replacement[k].pattern) :
                              k \in DOMAIN replacement} = 0..(problem.umap[s].dim - 1)

\* A relation of a match always matches some pattern alone as well: without
\* this, transformOneMap would return a null map and spoil the whole result.
MatchedAloneToo ==
  stage = "transform" =>
    \A s \in toTransform : MatchingReplacements(s) # {}

\* What access.h leaves undefined, for one relation: two matches contain it, or
\* the patterns of two replacements fit it; and what a replacement may not do to
\* it: use a placeholder without value, or a dimension it does not have.
TakenTwice(s) ==
  \E m, n \in DOMAIN suitableCandidates :
    m # n /\ PlacedOn(suitableCandidates[m], s) # {} /\ PlacedOn(suitableCandidates[n], s) # {}

FitsTwo(s) == Cardinality(MatchingReplacements(s)) > 1

UsesUnknown(s) ==
  \E r \in MatchingReplacements(s) : \E k \in DOMAIN Replacements[r].replacement :
    Replacements[r].replacement[k].id \notin IdsIn(PS)

LacksDimension(s) ==
  \E r \in MatchingReplacements(s) : \E k \in DOMAIN Replacements[r].replacement :
    ~ CanIndex(problem.umap[s], Replacements[r].replacement[k].pattern)

IsReason(message, s) ==
  \/ message = "map matched more than once" /\ TakenTwice(s)
  \/ message = "one relation matched multiple patterns" /\ FitsTwo(s)
  \/ message = "no match for the placeholder" /\ UsesUnknown(s)
  \/ message = "undefined behaviour" /\ LacksDimension(s)

\* The checks scattered over the loops find exactly the calls that have no
\* meaning: the program is ended with a message that is true of some matched
\* relation, and a call that returns had no relation in two matches, none that
\* two patterns fit, of which it would have applied the first, and no unknown
\* placeholder.
EndsExactlyWhenAmbiguous ==
  /\ stage = "died" => \E s \in MatchedSpaces : IsReason(died, s)
  /\ stage = "done" =>
       \A s \in MatchedSpaces : ~ TakenTwice(s) /\ ~ FitsTwo(s) /\ ~ UsesUnknown(s)

\* findAndReplace always ends, with a result or with a message.
ReplaceReturns == <>(stage \in {"done", "died"})

=============================================================================
