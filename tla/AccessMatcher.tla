---------------------------- MODULE AccessMatcher ----------------------------
(***************************************************************************)
(* match(access, ps) of islutils/access-inl.h.  Stage 1 fills the          *)
(* candidate list of every placeholder, in order, and gives up as soon as  *)
(* one stays empty.  Stage 2 enumerates the combinations by depth-first    *)
(* search, abandoning a partial combination as soon as it is unsuitable.   *)
(*                                                                         *)
(* "frames" is the call stack of recursivelyCheckCombinations: for every   *)
(* call that is inside its loop, the index of the candidate it is trying.  *)
(* The combination is passed by value, so the copy of the innermost call   *)
(* is the only one that matters: "partialCombination".                     *)
(***************************************************************************)
EXTENDS PlaceholderSets

CONSTANTS
  Relation,           \* values of the access relations
  Pattern,            \* pattern payloads of placeholders
  Payload,            \* candidate payloads
  Candidates(_, _),   \* CandidateTy::candidates(relation, pattern)
  Problems            \* the calls of match considered

Injective(s) == \A i, j \in DOMAIN s : s[i] = s[j] => i = j

ASSUME CandidatesAssumption ==
  \A r \in Relation, p \in Pattern :
    Candidates(r, p) \in Seq(Payload) /\ Injective(Candidates(r, p))

\* A problem: the union map, the order foreach_map visits its maps in, the
\* arguments of allOf and the set it returns.  Array placeholders are given for
\* all lists or none.
PlaceholderSetFor(lists, arrays) ==
  IF arrays = << >> THEN AllOf(lists) ELSE AllOfArrays(arrays, lists)

IdsIn(ps) == {ps.placeholders[i].id : i \in DOMAIN ps.placeholders}

Placeholder(Id) == [id : Id, pattern : Pattern]

\* Every position belongs to one group.
IsPartition(groups, positions) ==
  /\ UNION {groups[g] : g \in DOMAIN groups} = positions
  /\ \A g, h \in DOMAIN groups : g # h => groups[g] \cap groups[h] = {}

IsPlaceholderSet(ps) ==
  /\ ps.placeholders \in Seq(Placeholder(IdsIn(ps)))
  /\ ps.groups \in Seq(SUBSET Nat)
  /\ IsPartition(ps.groups, 1..Len(ps.placeholders))

IsProblem(p) ==
  /\ p.accesses \in Seq(Space)
  /\ Injective(p.accesses)
  /\ DOMAIN p.umap = {p.accesses[i] : i \in DOMAIN p.accesses}
  /\ \A s \in DOMAIN p.umap : p.umap[s] \in Relation
  /\ p.lists \in Seq(Seq(Placeholder(IdsIn(p.ps))))
  /\ p.arrays # << >> => /\ DOMAIN p.arrays = DOMAIN p.lists
                         /\ DOMAIN p.arrays = DOMAIN p.ps.groups
  /\ p.ps = PlaceholderSetFor(p.lists, p.arrays)
  /\ IsPlaceholderSet(p.ps)

ASSUME ProblemsAssumption == \A p \in Problems : IsProblem(p)

VARIABLES
  problem,             \* the call being executed
  pc,                  \* "fill", "check", "loop", "return" or "done"
  ph, acc,             \* stage 1: current placeholder and relation
  candidates,          \* candidates_ of each placeholder
  frames,              \* stage 2: loop indices of the active calls
  partialCombination,  \* argument of the innermost call
  suitableCandidates   \* the matches collected so far

vars == <<problem, pc, ph, acc, candidates, frames, partialCombination,
          suitableCandidates>>

PS == problem.ps
Size == Len(PS.placeholders)
Accesses == problem.accesses
Candidate == [payload : Payload, space : Space]
-----------------------------------------------------------------------------
Init ==
  /\ problem \in Problems
  /\ pc = "fill"
  /\ ph = 1
  /\ acc = 1
  /\ candidates = [i \in 1..Size |-> << >>]
  /\ frames = << >>
  /\ partialCombination = << >>
  /\ suitableCandidates = << >>

(* Stage 1 *)

FoundIn(space) ==
  LET found == Candidates(problem.umap[space], PS.placeholders[ph].pattern)
  IN  [k \in DOMAIN found |-> [payload |-> found[k], space |-> space]]

FillCandidates ==
  /\ pc = "fill" /\ ph <= Size /\ acc <= Len(Accesses)
  /\ candidates' = [candidates EXCEPT ![ph] = @ \o FoundIn(Accesses[acc])]
  /\ acc' = acc + 1
  /\ UNCHANGED <<problem, pc, ph, frames, partialCombination,
                 suitableCandidates>>

EarlyExit ==
  /\ pc = "fill" /\ ph <= Size /\ acc > Len(Accesses)
  /\ candidates[ph] = << >>
  /\ pc' = "done"
  /\ UNCHANGED <<problem, ph, acc, candidates, frames, partialCombination,
                 suitableCandidates>>

NextPlaceholder ==
  /\ pc = "fill" /\ ph <= Size /\ acc > Len(Accesses)
  /\ candidates[ph] # << >>
  /\ ph' = ph + 1
  /\ acc' = 1
  /\ UNCHANGED <<problem, pc, candidates, frames, partialCombination,
                 suitableCandidates>>

StartSearch ==
  /\ pc = "fill" /\ ph > Size
  /\ pc' = "check"
  /\ UNCHANGED <<problem, ph, acc, candidates, frames, partialCombination,
                 suitableCandidates>>

(* Stage 2: one call of recursivelyCheckCombinations *)

Suitable == IsSuitableCombination(PS, partialCombination)

Reject ==
  /\ pc = "check" /\ ~ Suitable
  /\ pc' = "return"
  /\ UNCHANGED <<problem, ph, acc, candidates, frames, partialCombination,
                 suitableCandidates>>

\* Variant: the first match ends the search.
AcceptAndStop ==
  /\ pc = "check" /\ Suitable /\ Len(partialCombination) = Size
  /\ suitableCandidates' =
       Append(suitableCandidates, MatchOf(PS, partialCombination))
  /\ pc' = "done"
  /\ UNCHANGED <<problem, ph, acc, candidates, frames, partialCombination>>

Accept ==
  /\ pc = "check" /\ Suitable /\ Len(partialCombination) = Size
  /\ suitableCandidates' =
       Append(suitableCandidates, MatchOf(PS, partialCombination))
  /\ pc' = "return"
  /\ UNCHANGED <<problem, ph, acc, candidates, frames, partialCombination>>

\* Variant: the loop starts one candidate too early.
BranchFromZero ==
  /\ pc = "check" /\ Suitable /\ Len(partialCombination) # Size
  /\ frames' = Append(frames, 0)
  /\ pc' = "loop"
  /\ UNCHANGED <<problem, ph, acc, candidates, partialCombination,
                 suitableCandidates>>

Branch ==
  /\ pc = "check" /\ Suitable /\ Len(partialCombination) # Size
  /\ frames' = Append(frames, 1)
  /\ pc' = "loop"
  /\ UNCHANGED <<problem, ph, acc, candidates, partialCombination,
                 suitableCandidates>>

Depth == Len(frames)

Try ==
  /\ pc = "loop" /\ frames[Depth] <= Len(candidates[Depth])
  /\ partialCombination' =
       Append(partialCombination, candidates[Depth][frames[Depth]])
  /\ pc' = "check"
  /\ UNCHANGED <<problem, ph, acc, candidates, frames, suitableCandidates>>

\* Variant: the loop ends one candidate too late.
ExhaustedTooLate ==
  /\ pc = "loop" /\ frames[Depth] > Len(candidates[Depth]) + 1
  /\ frames' = Front(frames)
  /\ pc' = "return"
  /\ UNCHANGED <<problem, ph, acc, candidates, partialCombination,
                 suitableCandidates>>

Exhausted ==
  /\ pc = "loop" /\ frames[Depth] > Len(candidates[Depth])
  /\ frames' = Front(frames)
  /\ pc' = "return"
  /\ UNCHANGED <<problem, ph, acc, candidates, partialCombination,
                 suitableCandidates>>

\* Variant: the pop_back is forgotten.
ResumeWithoutPop ==
  /\ pc = "return" /\ frames # << >>
  /\ frames' = [frames EXCEPT ![Depth] = @ + 1]
  /\ pc' = "loop"
  /\ UNCHANGED <<problem, ph, acc, candidates, partialCombination,
                 suitableCandidates>>

\* The caller's loop undoes its push_back and goes on to its next candidate.
Resume ==
  /\ pc = "return" /\ frames # << >>
  /\ partialCombination' = Front(partialCombination)
  /\ frames' = [frames EXCEPT ![Depth] = @ + 1]
  /\ pc' = "loop"
  /\ UNCHANGED <<problem, ph, acc, candidates, suitableCandidates>>

Finish ==
  /\ pc = "return" /\ frames = << >>
  /\ pc' = "done"
  /\ UNCHANGED <<problem, ph, acc, candidates, frames, partialCombination,
                 suitableCandidates>>

Next == \/ FillCandidates \/ EarlyExit \/ NextPlaceholder \/ StartSearch
        \/ Reject \/ Accept \/ Branch \/ Try \/ Exhausted \/ Resume \/ Finish

Spec == Init /\ [][Next]_vars /\ WF_vars(Next)

-----------------------------------------------------------------------------
(* Properties *)

TypeOK ==
  /\ pc \in {"fill", "check", "loop", "return", "done"}
  /\ ph \in 1..(Size + 1)
  /\ acc \in 1..(Len(Accesses) + 1)
  /\ candidates \in [1..Size -> Seq(Candidate)]
  /\ frames \in Seq(Nat \ {0})
  /\ partialCombination \in Seq(Candidate)
  /\ Len(partialCombination) <= Size
  /\ suitableCandidates \in Seq(Seq([id : IdsIn(PS), candidate : Candidate]))

\* The combination under construction is the one the loop indices of the active
\* calls select, and the innermost call never runs past its candidate list:
\* what push_back, the by-value argument and pop_back maintain together.
StackMatchesCombination ==
  /\ pc = "fill" => frames = << >> /\ partialCombination = << >>
  /\ pc = "loop" => /\ Depth = Len(partialCombination) + 1
                    /\ Depth <= Size
                    /\ frames[Depth] <= Len(candidates[Depth]) + 1
  /\ pc \in {"check", "return"} => Depth = Len(partialCombination)
  /\ \A i \in DOMAIN partialCombination :
       /\ frames[i] \in DOMAIN candidates[i]
       /\ partialCombination[i] = candidates[i][frames[i]]

\* The candidate was found for this placeholder in a relation of the union map.
IsOffered(candidate, placeholder) ==
  /\ candidate.space \in DOMAIN problem.umap
  /\ LET found == Candidates(problem.umap[candidate.space], placeholder.pattern)
     IN  \E k \in DOMAIN found : found[k] = candidate.payload

InOneGroup(ps, i, j) == \E g \in DOMAIN ps.groups : {i, j} \subseteq ps.groups[g]

\* The constraints stated at PlaceholderSet::isSuitableCombination, on a full
\* combination and without folds: a placeholder has one payload and shares it
\* with no other, a group has one relation and shares it with no other, an
\* array placeholder stands for one array, different from all others'.
IsValidCombination(p, combination) ==
  /\ DOMAIN combination = DOMAIN p.ps.placeholders
  /\ \A i, j \in DOMAIN combination :
       p.ps.placeholders[i].id = p.ps.placeholders[j].id
         <=> combination[i].payload = combination[j].payload
  /\ \A i, j \in DOMAIN combination :
       InOneGroup(p.ps, i, j) <=> combination[i].space = combination[j].space
  /\ p.arrays # << >> =>
       \A g, h \in DOMAIN p.ps.groups :
         \A i \in p.ps.groups[g], j \in p.ps.groups[h] :
           p.arrays[g] = p.arrays[h]
             <=> ArrayOf[combination[i].space] = ArrayOf[combination[j].space]

CombinationOf(match) == [i \in DOMAIN match |-> match[i].candidate]

\* Every match returned so far is made of candidates found in the union map and
\* satisfies those constraints.
MatchesAreSound ==
  \A m \in DOMAIN suitableCandidates :
    /\ IsValidCombination(problem, CombinationOf(suitableCandidates[m]))
    /\ \A i \in DOMAIN suitableCandidates[m] :
         /\ suitableCandidates[m][i].id = PS.placeholders[i].id
         /\ IsOffered(suitableCandidates[m][i].candidate, PS.placeholders[i])

\* Match::operator[] cannot reach "different payloads for the same placeholder"
\* or "no match for the placeholder" for a placeholder of the pattern.
LookupsSucceed ==
  \A m \in DOMAIN suitableCandidates : \A i \in 1..Size :
    LookupSucceeds(suitableCandidates[m], PS.placeholders[i].id)

\* Stage 1 only puts candidates of the right placeholder into its list.
CandidatesAreOffered ==
  \A i \in 1..Size : \A k \in DOMAIN candidates[i] :
    IsOffered(candidates[i][k], PS.placeholders[i])

\* The inductive invariant behind the safety properties.
IInv == /\ TypeOK
        /\ StackMatchesCombination
        /\ CandidatesAreOffered
        /\ MatchesAreSound

\* A partial combination that is cut off is the prefix of no assignment: "the
\* filter must work on incomplete candidates for the branch-and-cut to work".
Extends(combination, a) ==
  \A i \in DOMAIN combination :
    /\ combination[i].payload = a.value[PS.placeholders[i].id]
    /\ \A l \in DOMAIN a.place :
         i \in PositionsOf(problem.lists, l) => combination[i].space = a.place[l]

\* The assignment a match stands for: the relation of each list and the
\* payload of each placeholder.
UsedLists == {l \in DOMAIN problem.lists : problem.lists[l] # << >>}

AssignmentOf(match) ==
  [place |-> [l \in UsedLists |->
       match[CHOOSE i \in PositionsOf(problem.lists, l) : TRUE].candidate.space],
   value |-> [id \in {match[i].id : i \in DOMAIN match} |->
       LookupPayload(match, id)]]

Abstract == INSTANCE MatchSpec WITH
  found    <- [m \in DOMAIN suitableCandidates |-> AssignmentOf(suitableCandidates[m])],
  finished <- pc = "done"

CutsLoseNothing ==
  pc = "check" /\ ~ Suitable =>
    \A a \in Abstract!Assignments(problem) : ~ Extends(partialCombination, a)

\* match returns every assignment of the abstract specification exactly once,
\* and only those; giving up early is right because there are none.
ImplementsMatchSpec == Abstract!Spec

\* The call returns: the search is finite whatever the union map and pattern.
Returns == <>(pc = "done")

=============================================================================
