------------------------------ MODULE MatchSpec ------------------------------
(***************************************************************************)
(* What match promises, without candidate lists, positions or folds.       *)
(*                                                                         *)
(* An assignment gives every access list a relation ("place") and every    *)
(* placeholder a payload ("value").  The comments of access.h ask that     *)
(* different lists match different relations, that a placeholder has one   *)
(* value wherever it is used and shares it with no other placeholder, and  *)
(* that array placeholders stand for different arrays.  match returns each *)
(* such assignment exactly once, and nothing else.                         *)
(***************************************************************************)
EXTENDS Naturals, Sequences, FiniteSets

CONSTANTS ArrayOf, Payload, Candidates(_, _)

VARIABLES
  problem,    \* the input: umap, lists and arrays; it may be any, and stays
  found,      \* assignments returned so far, in the order of their discovery
  finished

specVars == <<problem, found, finished>>

UsedLists(p) == {l \in DOMAIN p.lists : p.lists[l] # << >>}

IdsIn(p) ==
  UNION {{p.lists[l][k].id : k \in DOMAIN p.lists[l]} : l \in UsedLists(p)}

OneToOne(f) == \A x, y \in DOMAIN f : f[x] = f[y] => x = y

\* The relation chosen for list l offers the value of its k-th placeholder.
Offers(p, a, l, k) ==
  LET placeholder == p.lists[l][k]
      found_ == Candidates(p.umap[a.place[l]], placeholder.pattern)
  IN  \E c \in DOMAIN found_ : found_[c] = a.value[placeholder.id]

ArraysAgree(p, place) ==
  p.arrays # << >> =>
    \A l, m \in DOMAIN place :
      p.arrays[l] = p.arrays[m] <=> ArrayOf[place[l]] = ArrayOf[place[m]]

Assignments(p) ==
  {a \in [place : {f \in [UsedLists(p) -> DOMAIN p.umap] :
                     OneToOne(f) /\ ArraysAgree(p, f)},
          value : {f \in [IdsIn(p) -> Payload] : OneToOne(f)}] :
     \A l \in UsedLists(p) : \A k \in DOMAIN p.lists[l] : Offers(p, a, l, k)}

Found == {found[k] : k \in DOMAIN found}

Init ==
  /\ found = << >>
  /\ finished = FALSE

\* The order is left open.
Find ==
  /\ ~ finished
  /\ found # found'
  /\ \E a \in Assignments(problem) \ Found : found' = Append(found, a)
  /\ UNCHANGED <<problem, finished>>

Finish ==
  /\ ~ finished
  /\ finished'
  /\ Found = Assignments(problem)
  /\ UNCHANGED <<problem, found>>

Next == Find \/ Finish

Spec == Init /\ [][Next]_specVars

LiveSpec == Spec /\ WF_specVars(Next)
=============================================================================
