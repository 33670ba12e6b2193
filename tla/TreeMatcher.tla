----------------------------- MODULE TreeMatcher -----------------------------
(***************************************************************************)
(* ScheduleNodeMatcher::isMatching (islutils/matchers.cc) and the          *)
(* callbacks hasPreviousSibling, hasNextSibling, hasSibling and            *)
(* hasDescendant, each of which starts matches of its own while the match  *)
(* that called it is under way.                                            *)
(*                                                                         *)
(* A tree is flat: type[n] and kids[n] of the nodes 1..n, numbered in      *)
(* preorder, the order foreach_descendant_top_down visits them in.  A      *)
(* matcher is flat too: current[m], kids[m], callback[m].  A callback that *)
(* searches refers to the root "sub" of another matcher of the same table. *)
(*                                                                         *)
(* Every matcher node is given a capture of its own: captures[m] stands    *)
(* for capture_ and forest[m] for multiCapture_.  "stack" is the call      *)
(* stack; "i" is the loop index of isMatching (0 before the loop) and the  *)
(* node last tried in a search.  "ret" is the value of the call that just  *)
(* ended, "none" while a call is being executed.                           *)
(***************************************************************************)
EXTENDS Integers, SequencesExt

CONSTANTS
  Problems,   \* the calls isMatching(matcher, node)
  Nil         \* the null schedule node

Searches == {"previous", "next", "sibling", "descendant"}

Parents(kids, n) == {p \in DOMAIN kids : n \in ToSet(kids[p])}

\* Each node with the nodes above it and itself.
Lineage(kids) ==
  LET up[n \in DOMAIN kids] == {n} \cup UNION {up[p] : p \in Parents(kids, n)}
  IN  up

IslTypes == {"band", "context", "domain", "extension", "filter", "guard",
             "mark", "leaf", "sequence", "set"}
NodeTypes == IslTypes \cup {"expansion"}

\* Children come after their parent and, together, make one tree below 1.  In
\* preorder, a node is a child of the node before it or of one above that.
IsTree(tree) ==
  /\ tree.kids \in Seq(Seq(DOMAIN tree.kids))
  /\ tree.type \in [DOMAIN tree.kids -> NodeTypes]
  /\ \A n \in DOMAIN tree.kids :
       /\ \A k \in DOMAIN tree.kids[n] : tree.kids[n][k] > n
       /\ IsInjective(tree.kids[n])
       /\ n > 1 => \E p \in Lineage(tree.kids)[n - 1] : Parents(tree.kids, n) = {p}
       /\ tree.type[n] = "leaf" <=> tree.kids[n] = << >>

\* The matchers that a matcher is part of, as a child or in a callback.
Users(matcher, m) ==
  Parents(matcher.kids, m) \cup
  {u \in DOMAIN matcher.kids :
     matcher.callback[u].fn \in Searches /\ matcher.callback[u].sub = m}

\* The children of a matcher, and the matcher its callback searches for, come
\* after it in the table, and are no part of another one.
IsMatcherTable(matcher) ==
  /\ matcher.kids \in Seq(Seq(DOMAIN matcher.kids)) /\ matcher.kids # << >>
  /\ matcher.current \in [DOMAIN matcher.kids -> NodeTypes \cup {"anyTree", "anyForest"}]
  /\ \A m \in DOMAIN matcher.kids :
       /\ \A k \in DOMAIN matcher.kids[m] : matcher.kids[m][k] > m
       /\ IsInjective(matcher.kids[m])
       /\ \A u, v \in Users(matcher, m) : u = v
       /\ matcher.callback[m].fn \in {"none", "holds"} \cup Searches
       /\ matcher.current[m] \in {"anyTree", "anyForest"} =>
            matcher.kids[m] = << >> /\ matcher.callback[m].fn = "none"
       /\ matcher.callback[m].fn \in Searches =>
            /\ matcher.callback[m].sub \in (m + 1)..Len(matcher.kids)
            /\ Parents(matcher.kids, matcher.callback[m].sub) = {}

ASSUME ProblemsAssumption ==
  \A p \in Problems :
    IsTree(p.tree) /\ IsMatcherTable(p.matcher) /\ p.node \in DOMAIN p.tree.kids

VARIABLES
  problem,    \* the tree, the matcher table and the node matched
  stack,      \* active calls, innermost last
  ret,        \* "none", "yes" or "no"
  status,     \* "running", "yes", "no", "died" or "aborted"
  captures,   \* capture_ of each matcher node
  forest      \* multiCapture_ of each matcher node

vars == <<problem, stack, ret, status, captures, forest>>

Type    == problem.tree.type
Kids    == problem.tree.kids
Node    == DOMAIN Kids
Current == problem.matcher.current
Subs    == problem.matcher.kids
Call    == problem.matcher.callback
Matcher == DOMAIN Subs

Parent(n) == CHOOSE p \in Parents(Kids, n) : TRUE
Siblings(n) == IF Parents(Kids, n) = {} THEN <<n>> ELSE Kids[Parent(n)]
Place(n) == CHOOSE k \in DOMAIN Siblings(n) : Siblings(n)[k] = n
HasPrevious(n) == Place(n) > 1
HasNext(n) == Place(n) < Len(Siblings(n))

\* The nodes of the subtree at n.
Descendants(n) == {d \in Node : n \in Lineage(Kids)[d]}

OnlyForest(m) == Len(Subs[m]) = 1 /\ Current[Subs[m][1]] = "anyForest"

Match(m, n) == [fn |-> "match", m |-> m, n |-> n, i |-> 0]
\* The search starts just before its first candidate.
Search(m, n) ==
  [fn |-> Call[m].fn, m |-> Call[m].sub, n |-> n,
   i |-> IF Call[m].fn = "descendant" THEN n - 1 ELSE n]
-----------------------------------------------------------------------------
Init ==
  /\ problem \in Problems
  /\ stack = <<Match(1, problem.node)>>
  /\ ret = "none"
  /\ status = "running"
  /\ captures = [m \in Matcher |-> Nil]
  /\ forest = [m \in Matcher |-> << >>]

Top == Last(stack)
M == Top.m
N == Top.n

Return(v) ==
  /\ stack' = Front(stack)
  /\ ret' = v
  /\ status' = IF Len(stack) = 1 THEN v ELSE status

Push(top, callee) ==
  /\ stack' = Append(Front(stack), top) \o <<callee>>
  /\ ret' = "none"
  /\ UNCHANGED status

\* capture_ = node; return true
ReturnMatch ==
  /\ captures' = [captures EXCEPT ![M] = N]
  /\ Return("yes")

Entering(current) ==
  /\ stack # << >> /\ ret = "none" /\ Top.fn = "match" /\ Top.i = 0
  /\ Current[M] \in current

MatchAnyTree ==
  /\ Entering({"anyTree"})
  /\ ReturnMatch
  /\ UNCHANGED <<problem, forest>>

\* Variant: the node itself is left out of the captures.
MatchAnyForestAfter ==
  /\ Entering({"anyForest"}) /\ ~ HasPrevious(N)
  /\ forest' = [forest EXCEPT ![M] = SubSeq(Siblings(N), 2, Len(Siblings(N)))]
  /\ Return("yes")
  /\ UNCHANGED <<problem, captures>>

MatchAnyForest ==
  /\ Entering({"anyForest"}) /\ ~ HasPrevious(N)
  /\ forest' = [forest EXCEPT ![M] = Siblings(N)]
  /\ Return("yes")
  /\ UNCHANGED <<problem, captures>>

\* Variant: the program goes on after its assertion.
AbortButContinue ==
  /\ Entering({"expansion"})
  /\ status' = "aborted"
  /\ UNCHANGED <<problem, stack, ret, captures, forest>>

\* Variant: next siblings are taken for previous ones.
DieIfNext ==
  /\ Entering({"anyForest"}) /\ HasNext(N)
  /\ stack' = << >>
  /\ status' = "died"
  /\ UNCHANGED <<problem, ret, captures, forest>>

DieCombined ==
  /\ Entering({"anyForest"}) /\ HasPrevious(N)
  /\ stack' = << >>
  /\ status' = "died"
  /\ UNCHANGED <<problem, ret, captures, forest>>

\* toIslType has no case for Expansion: its assertion fails.
AbortConversion ==
  /\ Entering({"expansion"})
  /\ stack' = << >>
  /\ status' = "aborted"
  /\ UNCHANGED <<problem, ret, captures, forest>>

RejectType ==
  /\ Entering(IslTypes) /\ Current[M] # Type[N]
  /\ Return("no")
  /\ UNCHANGED <<problem, captures, forest>>

\* A callback that inspects nothing but the node itself.
RejectByCallback ==
  /\ Entering(IslTypes) /\ Current[M] = Type[N]
  /\ Call[M].fn = "holds" /\ N \notin Call[M].on
  /\ Return("no")
  /\ UNCHANGED <<problem, captures, forest>>

StartCallback ==
  /\ Entering(IslTypes) /\ Current[M] = Type[N]
  /\ Call[M].fn \in Searches
  /\ Push(Top, Search(M, N))
  /\ UNCHANGED <<problem, captures, forest>>

CallbackRejects ==
  /\ stack # << >> /\ ret = "no" /\ Top.fn = "match" /\ Top.i = 0
  /\ Return("no")
  /\ UNCHANGED <<problem, captures, forest>>

\* The node itself is accepted: no callback, or one that returned true.
Accepted ==
  /\ stack # << >> /\ Top.fn = "match" /\ Top.i = 0
  /\ \/ /\ Entering(IslTypes) /\ Current[M] = Type[N]
        /\ \/ Call[M].fn = "none"
           \/ Call[M].fn = "holds" /\ N \in Call[M].on
     \/ ret = "yes"

ArityFits(m, n) ==
  IF OnlyForest(m) THEN Kids[n] # << >> ELSE Len(Subs[m]) = Len(Kids[n])

RejectArity ==
  /\ Accepted /\ ~ ArityFits(M, N)
  /\ Return("no")
  /\ UNCHANGED <<problem, captures, forest>>

MatchChildless ==
  /\ Accepted /\ ArityFits(M, N) /\ Kids[N] = << >>
  /\ ReturnMatch
  /\ UNCHANGED <<problem, forest>>

Descend(i) == Push([Top EXCEPT !.i = i], Match(Subs[M][i], Kids[N][i]))

\* Variant: the node is captured before its children have matched.
CaptureThenDescend ==
  /\ Accepted /\ ArityFits(M, N) /\ Kids[N] # << >>
  /\ captures' = [captures EXCEPT ![M] = N]
  /\ Descend(1)
  /\ UNCHANGED <<problem, forest>>

FirstChild ==
  /\ Accepted /\ ArityFits(M, N) /\ Kids[N] # << >>
  /\ Descend(1)
  /\ UNCHANGED <<problem, captures, forest>>

Answered(v) ==
  /\ stack # << >> /\ ret = v /\ Top.fn = "match" /\ Top.i > 0

ChildRejects ==
  /\ Answered("no")
  /\ Return("no")
  /\ UNCHANGED <<problem, captures, forest>>

\* The forest took all the siblings: the loop, and the capture after it, are
\* skipped.
ForestMatched ==
  /\ Answered("yes") /\ OnlyForest(M)
  /\ Return("yes")
  /\ UNCHANGED <<problem, captures, forest>>

\* Variant: every second child is visited.
SkipChild ==
  /\ Answered("yes") /\ ~ OnlyForest(M) /\ Top.i + 1 < Len(Kids[N])
  /\ Descend(Top.i + 2)
  /\ UNCHANGED <<problem, captures, forest>>

NextChild ==
  /\ Answered("yes") /\ ~ OnlyForest(M) /\ Top.i < Len(Kids[N])
  /\ Descend(Top.i + 1)
  /\ UNCHANGED <<problem, captures, forest>>

\* Variant: the loop ends one child early.
AllButOneMatched ==
  /\ Answered("yes") /\ ~ OnlyForest(M) /\ Top.i + 1 >= Len(Kids[N])
  /\ ReturnMatch
  /\ UNCHANGED <<problem, forest>>

ChildrenMatched ==
  /\ Answered("yes") /\ ~ OnlyForest(M) /\ Top.i = Len(Kids[N])
  /\ ReturnMatch
  /\ UNCHANGED <<problem, forest>>

(* The searches started by callbacks *)

Searching(fn) == stack # << >> /\ ret # "yes" /\ Top.fn \in fn

Try(n) == Push([Top EXCEPT !.i = n], Match(M, n))

\* Variant: only the closest previous sibling is tried.
TryClosest ==
  /\ Searching({"previous", "sibling"}) /\ HasPrevious(Top.i) /\ Top.i = N
  /\ Try(Siblings(N)[Place(Top.i) - 1])
  /\ UNCHANGED <<problem, captures, forest>>

TryPrevious ==
  /\ Searching({"previous", "sibling"}) /\ HasPrevious(Top.i)
  /\ Try(Siblings(N)[Place(Top.i) - 1])
  /\ UNCHANGED <<problem, captures, forest>>

TryNext ==
  /\ Searching({"next"}) /\ HasNext(Top.i)
  /\ Try(Siblings(N)[Place(Top.i) + 1])
  /\ UNCHANGED <<problem, captures, forest>>

\* The node itself is the first of the nodes visited.
TryDescendant ==
  /\ Searching({"descendant"}) /\ Top.i + 1 \in Descendants(N)
  /\ Try(Top.i + 1)
  /\ UNCHANGED <<problem, captures, forest>>

\* hasSibling: no previous sibling matches, so the next ones are tried, from
\* the node the callback was given.
TurnToNext ==
  /\ Searching({"sibling"}) /\ ~ HasPrevious(Top.i)
  /\ stack' = Append(Front(stack), [Top EXCEPT !.fn = "next", !.i = N])
  /\ ret' = "none"
  /\ UNCHANGED <<problem, status, captures, forest>>

SearchFails ==
  /\ \/ Searching({"previous"}) /\ ~ HasPrevious(Top.i)
     \/ Searching({"next"}) /\ ~ HasNext(Top.i)
     \/ Searching({"descendant"}) /\ Top.i + 1 \notin Descendants(N)
  /\ Return("no")
  /\ UNCHANGED <<problem, captures, forest>>

SearchSucceeds ==
  /\ stack # << >> /\ ret = "yes" /\ Top.fn \in Searches
  /\ Return("yes")
  /\ UNCHANGED <<problem, captures, forest>>

Next ==
  \/ MatchAnyTree \/ MatchAnyForest \/ DieCombined \/ AbortConversion
  \/ RejectType \/ RejectByCallback \/ StartCallback \/ CallbackRejects
  \/ RejectArity \/ MatchChildless \/ FirstChild
  \/ ChildRejects \/ ForestMatched \/ NextChild \/ ChildrenMatched
  \/ TryPrevious \/ TryNext \/ TryDescendant \/ TurnToNext
  \/ SearchFails \/ SearchSucceeds

Spec == Init /\ [][Next]_vars /\ WF_vars(Next)
-----------------------------------------------------------------------------
(* Properties *)

Frame == [fn : {"match"} \cup Searches, m : Matcher, n : Node, i : Nat]

TypeOK ==
  /\ stack \in Seq(Frame)
  /\ ret \in {"none", "yes", "no"}
  /\ status \in {"running", "yes", "no", "died", "aborted"}
  /\ stack = << >> <=> status # "running"
  /\ captures \in [Matcher -> Node \cup {Nil}]
  /\ forest \in [Matcher -> Seq(Node)]

\* The nodes a search goes through.
Related(fn, n) ==
  LET before == {Siblings(n)[k] : k \in 1..(Place(n) - 1)}
      after  == {Siblings(n)[k] : k \in (Place(n) + 1)..Len(Siblings(n))}
  IN  CASE fn = "previous"   -> before
        [] fn = "next"       -> after
        [] fn = "sibling"    -> before \cup after
        [] fn = "descendant" -> Descendants(n)

\* Whether a matcher matches a node, from the nodes its children and the
\* matcher of its callback match: "the same types of nodes and parent/child
\* relationships".  A forest starts at a node without previous sibling.
Allows(m, n, matched) ==
  \/ Call[m].fn = "none"
  \/ Call[m].fn = "holds" /\ n \in Call[m].on
  \/ /\ Call[m].fn \in Searches
     /\ Related(Call[m].fn, n) \cap matched[Call[m].sub] # {}

ChildrenFit(m, n, matched) ==
  /\ OnlyForest(m) \/ Len(Kids[n]) = Len(Subs[m])
  /\ \A k \in DOMAIN Subs[m] :
       k \in DOMAIN Kids[n] /\ Kids[n][k] \in matched[Subs[m][k]]

Fits(m, n, matched) ==
  \/ Current[m] = "anyTree"
  \/ Current[m] = "anyForest" /\ ~ HasPrevious(n)
  \/ /\ Current[m] \in NodeTypes /\ Current[m] = Type[n]
     /\ Allows(m, n, matched) /\ ChildrenFit(m, n, matched)

MatchedBy[m \in Matcher] == {n \in Node : Fits(m, n, MatchedBy)}

\* The depth-first search with its early returns answers exactly whether the
\* subtree has the structure of the matcher.
VerdictIsStructural ==
  /\ status = "yes" => problem.node \in MatchedBy[1]
  /\ status = "no" => problem.node \notin MatchedBy[1]

\* Every call that is visiting children does so for a reason: the types agree,
\* its callback let it pass, and all the children before the current one
\* matched; the callee is at the child or on a node the search goes through.
ActiveCallsAreJustified ==
  \A f \in DOMAIN stack :
    /\ stack[f].fn = "match" /\ stack[f].i > 0 =>
         /\ Type[stack[f].n] = Current[stack[f].m]
         /\ \A k \in 1..(stack[f].i - 1) :
              Kids[stack[f].n][k] \in MatchedBy[Subs[stack[f].m][k]]
         /\ f < Len(stack) =>
              /\ stack[f + 1].m = Subs[stack[f].m][stack[f].i]
              /\ stack[f + 1].n = Kids[stack[f].n][stack[f].i]
    /\ stack[f].fn \in Searches /\ f < Len(stack) =>
         /\ stack[f + 1].m = stack[f].m
         /\ stack[f + 1].n \in Related(stack[f].fn, stack[f].n)

\* The matcher proper, without the matchers of callbacks, and the node of the
\* tree that a successful match puts each of its nodes at.
Proper == {m \in Matcher : 1 \in Lineage(Subs)[m]}
Image[m \in Proper] ==
  IF m = 1 THEN problem.node
  ELSE LET p == CHOOSE q \in Parents(Subs, m) : TRUE
           k == CHOOSE j \in DOMAIN Subs[p] : Subs[p][j] = m
       IN  Kids[Image[p]][k]

\* After a successful match the captures are the nodes of that match and not
\* those of a call that failed on the way: a matcher node has the node at its
\* own place, a forest all the children, and the matcher of a callback a node
\* found from there.  A node whose only child is a forest captures nothing.
CapturesFollowTheMatch ==
  status = "yes" =>
    \A m \in Proper :
      IF Current[m] = "anyForest" THEN forest[m] = Siblings(Image[m])
      ELSE /\ captures[m] = IF OnlyForest(m) THEN Nil ELSE Image[m]
           /\ Call[m].fn \in Searches =>
                LET sub == Call[m].sub
                IN  \/ Current[sub] = "anyForest" \/ OnlyForest(sub)
                    \/ captures[sub] \in Related(Call[m].fn, Image[m])

\* Whatever the outcome, a capture that was written is a node its matcher
\* matches, even when the match as a whole failed.
CapturesAreMatches ==
  \A m \in Matcher : captures[m] # Nil => captures[m] \in MatchedBy[m]

\* The call gives up with "AnyForest matcher combined with other types" only
\* for a forest after other children or at the top of a match.
DiesOnlyForMisplacedForest ==
  status = "died" =>
    \E m \in Matcher :
      /\ Current[m] = "anyForest"
      /\ \A p \in Parents(Subs, m) : Subs[p][1] # m

\* The call returns.
Returns == <>(status # "running")

\* "Currently, AnyForest cannot be combined with other matchers": a match that
\* succeeds has no forest among several children.
ForestsStandAlone ==
  status = "yes" =>
    \A m \in Matcher : Len(Subs[m]) > 1 =>
      \A k \in DOMAIN Subs[m] : Current[Subs[m][k]] # "anyForest"

\* assert(false && "cannot convert the given node type") is never reached.
ConversionSucceeds == status # "aborted"

=============================================================================
