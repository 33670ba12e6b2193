-------------------------- MODULE TreeMatcherProofs --------------------------
(***************************************************************************)
(* That isMatching decides exactly whether a tree has the structure of a   *)
(* matcher, and that the captures it leaves are the nodes of that match,   *)
(* for every tree and every table of matchers.                             *)
(***************************************************************************)
EXTENDS TreeMatcher, WellFoundedInduction, TLAPS, SequenceTheorems

-----------------------------------------------------------------------------
(* Natural numbers *)

\* A non-empty set of natural numbers has a least element: what a CHOOSE of the
\* least position with some property selects exists.
LEMMA LeastElement ==
  ASSUME NEW S, S \subseteq Nat, S # {}
  PROVE  \E x \in S : \A y \in S : x <= y
<1>. DEFINE Less == OpToRel(<, Nat)
<1>1. IsWellFoundedOn(Less, Nat)
  BY NatLessThanWellFounded
<1>2. \A a, b \in Nat : a < b => <<a, b>> \in Less
  BY DEF OpToRel
<1>. HIDE DEF Less
<1>3. PICK x \in S : \A y \in S : ~ (<<y, x>> \in Less)
  BY <1>1, WFMin
<1>4. \A y \in S : ~ (y < x)
  BY <1>2, <1>3
<1>. QED  BY <1>4

\* Induction over an interval, for the set of the numbers with some property.
LEMMA IntervalInduction ==
  ASSUME NEW m \in Nat, NEW n \in Nat, NEW S, m \in S,
         \A k \in (m + 1)..n : k - 1 \in S => k \in S
  PROVE  m..n \subseteq S
<1>. DEFINE Bad == {k \in m..n : k \notin S}
<1>. SUFFICES ASSUME Bad # {} PROVE FALSE
  OBVIOUS
<1>1. Bad \subseteq Nat
  OBVIOUS
<1>2. PICK k \in Bad : \A j \in Bad : k <= j
  BY <1>1, LeastElement
<1>3. k \in (m + 1)..n /\ k - 1 \in m..n /\ k - 1 \notin Bad
  BY <1>2
<1>. QED  BY <1>2, <1>3

(* Trees *)

Up(kids, f, n) == {n} \cup UNION {f[p] : p \in Parents(kids, n)}

\* A table in which what is below an entry comes after it.
IsTable(kids) ==
  /\ kids \in Seq(Seq(DOMAIN kids))
  /\ \A n \in DOMAIN kids : \A k \in DOMAIN kids[n] : kids[n][k] > n

LEMMA TableFacts ==
  ASSUME NEW kids, IsTable(kids)
  PROVE  /\ Len(kids) \in Nat /\ DOMAIN kids = 1..Len(kids)
         /\ \A n, p : p \in Parents(kids, n) => p \in 1..Len(kids) /\ p < n
<1>1. Len(kids) \in Nat /\ DOMAIN kids = 1..Len(kids)
  BY DEF IsTable
<1>2. \A n, p : p \in Parents(kids, n) => p \in 1..Len(kids) /\ p < n
  BY <1>1 DEF Parents, ToSet, IsTable
<1>. QED  BY <1>1, <1>2

LEMMA LineageUnfolds ==
  ASSUME NEW kids, IsTable(kids)
  PROVE  \A n \in DOMAIN kids : Lineage(kids)[n] = Up(kids, Lineage(kids), n)
<1>. DEFINE L == Len(kids)
            S == {j \in 0..L : \E f : \A n \in 1..j : f[n] = Up(kids, f, n)}
<1>1. L \in Nat /\ DOMAIN kids = 1..L
  BY TableFacts
<1>2. \A n, p : p \in Parents(kids, n) => p \in 1..L /\ p < n
  BY TableFacts
<1>3. \A f, g, n : (\A p \in 1..L : p < n => f[p] = g[p]) => Up(kids, f, n) = Up(kids, g, n)
  BY <1>2 DEF Up
<1>4. ASSUME NEW j \in 1..L, j - 1 \in S PROVE j \in S
  <2>1. PICK f : \A n \in 1..(j - 1) : f[n] = Up(kids, f, n)
    BY <1>4
  <2>. DEFINE g == [n \in 1..L |-> IF n = j THEN Up(kids, f, j) ELSE f[n]]
  <2>2. \A n \in 1..j : g[n] = Up(kids, f, n)
    BY <1>1, <2>1
  <2>3. \A n \in 1..j : Up(kids, g, n) = Up(kids, f, n)
    <3>1. \A n \in 1..j : \A p \in 1..L : p < n => g[p] = f[p]
      BY <1>1
    <3>. QED  BY <1>1, <1>3, <3>1
  <2>4. \A n \in 1..j : g[n] = Up(kids, g, n)
    BY <2>2, <2>3
  <2>. HIDE DEF g
  <2>. QED  BY <1>1, <2>4
<1>5. L \in S
  <2>1. 0 \in S
    BY <1>1
  <2>. HIDE DEF S
  <2>2. \A k \in (0 + 1)..L : k - 1 \in S => k \in S
    BY <1>4
  <2>. HIDE DEF L
  <2>3. 0..L \subseteq S
    BY <1>1, <2>1, <2>2, IntervalInduction
  <2>. QED  BY <1>1, <2>3
<1>6. PICK f : \A n \in 1..L : f[n] = Up(kids, f, n)
  BY <1>5
<1>. DEFINE up == [n \in DOMAIN kids |-> f[n]]
<1>7. \A n \in DOMAIN kids : Up(kids, up, n) = Up(kids, f, n)
  BY <1>1, <1>3
<1>8. up = [n \in DOMAIN kids |-> Up(kids, up, n)]
  BY <1>1, <1>6, <1>7
<1>. HIDE DEF up
<1>9. Lineage(kids) = [n \in DOMAIN kids |-> Up(kids, Lineage(kids), n)]
  BY <1>8 DEF Lineage, Up
<1>. QED  BY <1>9

LEMMA LineageOf ==
  ASSUME NEW kids, IsTable(kids), NEW n \in DOMAIN kids
  PROVE  Lineage(kids)[n] = {n} \cup UNION {Lineage(kids)[p] : p \in Parents(kids, n)}
  BY LineageUnfolds DEF Up

\* What is above a node above n is above n.
LEMMA LineageIsTransitive ==
  ASSUME NEW kids, IsTable(kids), NEW n \in DOMAIN kids, NEW a \in Lineage(kids)[n],
         NEW b \in Lineage(kids)[a]
  PROVE  b \in Lineage(kids)[n]
<1>. DEFINE Bad == {d \in DOMAIN kids : a \in Lineage(kids)[d] /\ b \notin Lineage(kids)[d]}
<1>. SUFFICES ASSUME Bad # {} PROVE FALSE
  OBVIOUS
<1>1. Bad \subseteq Nat
  BY TableFacts
<1>2. PICK d \in Bad : \A e \in Bad : d <= e
  <2>. HIDE DEF Bad
  <2>. QED  BY <1>1, LeastElement
<1>3. PICK p \in Parents(kids, d) : a \in Lineage(kids)[p]
  BY <1>2, LineageOf
<1>4. p \in DOMAIN kids /\ p < d /\ p \in Nat /\ d \in Nat
  BY <1>1, <1>2, <1>3, TableFacts
<1>5. p \notin Bad
  BY <1>2, <1>4
<1>6. b \in Lineage(kids)[p]
  BY <1>3, <1>4, <1>5
<1>. QED  BY <1>2, <1>3, <1>6, LineageOf

LEMMA LineageIsAbove ==
  ASSUME NEW kids, IsTable(kids), NEW n \in DOMAIN kids, NEW a \in Lineage(kids)[n]
  PROVE  a \in DOMAIN kids /\ a <= n
<1>. DEFINE Bad == {d \in DOMAIN kids :
                      \E x \in Lineage(kids)[d] : ~ (x \in DOMAIN kids /\ x <= d)}
<1>. SUFFICES ASSUME Bad # {} PROVE FALSE
  OBVIOUS
<1>1. Bad \subseteq Nat
  BY TableFacts
<1>2. PICK d \in Bad : \A e \in Bad : d <= e
  <2>. HIDE DEF Bad
  <2>. QED  BY <1>1, LeastElement
<1>3. PICK x \in Lineage(kids)[d] : ~ (x \in DOMAIN kids /\ x <= d)
  BY <1>2
<1>4. d \in Nat
  BY <1>1
<1>5. PICK p \in Parents(kids, d) : x \in Lineage(kids)[p]
  BY <1>2, <1>3, <1>4, LineageOf
<1>6. p \in DOMAIN kids /\ p < d /\ p \in Nat
  BY <1>2, <1>5, TableFacts
<1>7. p \notin Bad
  BY <1>1, <1>2, <1>6
<1>8. x \in DOMAIN kids /\ x <= p
  BY <1>5, <1>6, <1>7
<1>9. x \in Nat
  BY <1>8, TableFacts
<1>. QED  BY <1>3, <1>4, <1>6, <1>8, <1>9

\* What IsTree says of the tree matched, and its node.
TreeIsLaidOut ==
  /\ Kids \in Seq(Seq(Node)) /\ Node = 1..Len(Kids) /\ problem.node \in Node
  /\ \A n \in Node : \A k \in DOMAIN Kids[n] : Kids[n][k] > n
  /\ \A n \in Node : IsInjective(Kids[n])
  /\ \A n \in Node : n > 1 =>
       \E p \in Lineage(Kids)[n - 1] : Parents(Kids, n) = {p}

LEMMA TreeLaidOut ==
  ASSUME problem \in Problems
  PROVE  TreeIsLaidOut
<1>1. IsTree(problem.tree) /\ problem.node \in Node
  BY ProblemsAssumption DEF Node, Kids
<1>2. Kids \in Seq(Seq(Node))
  BY <1>1 DEF IsTree, Node, Kids
<1>3. Node = 1..Len(Kids)
  BY <1>2 DEF Node
<1>. QED  BY <1>1, <1>2, <1>3 DEF TreeIsLaidOut, IsTree, Node, Kids

LEMMA KidsAreNodes ==
  ASSUME TreeIsLaidOut, NEW n \in Node
  PROVE  /\ Kids[n] \in Seq(Node) /\ Len(Kids[n]) \in Nat
         /\ DOMAIN Kids[n] = 1..Len(Kids[n])
         /\ \A k \in DOMAIN Kids[n] : Kids[n][k] \in Node
<1>1. Kids[n] \in Seq(Node)
  BY DEF TreeIsLaidOut
<1>. QED  BY <1>1

LEMMA ParentIsUnique ==
  ASSUME TreeIsLaidOut, NEW p \in Node, NEW k \in DOMAIN Kids[p]
  PROVE  /\ Parents(Kids, Kids[p][k]) = {p} /\ Kids[p][k] > 1
         /\ Parent(Kids[p][k]) = p
<1>. DEFINE n == Kids[p][k]
<1>1. p \in Nat /\ p >= 1
  BY DEF TreeIsLaidOut
<1>2. n \in Node /\ n > p
  BY KidsAreNodes DEF TreeIsLaidOut
<1>3. n > 1
  BY <1>1, <1>2 DEF TreeIsLaidOut
<1>4. p \in Parents(Kids, n)
  BY DEF Parents, ToSet, Node
<1>5. PICK q : Parents(Kids, n) = {q}
  BY <1>2, <1>3 DEF TreeIsLaidOut
<1>6. Parents(Kids, n) = {p}
  BY <1>4, <1>5
<1>. QED  BY <1>3, <1>6 DEF Parent

LEMMA PlaceOfChild ==
  ASSUME TreeIsLaidOut, NEW p \in Node, NEW k \in DOMAIN Kids[p]
  PROVE  Siblings(Kids[p][k]) = Kids[p] /\ Place(Kids[p][k]) = k
<1>1. Siblings(Kids[p][k]) = Kids[p]
  BY ParentIsUnique DEF Siblings
<1>2. \A j \in DOMAIN Kids[p] : Kids[p][j] = Kids[p][k] => j = k
  BY DEF TreeIsLaidOut, IsInjective
<1>. QED  BY <1>1, <1>2 DEF Place

\* Every node is somewhere among its siblings, which have the same siblings.
LEMMA SiblingsOfNode ==
  ASSUME TreeIsLaidOut, NEW n \in Node
  PROVE  /\ Siblings(n) \in Seq(Node) /\ Len(Siblings(n)) \in Nat
         /\ Place(n) \in 1..Len(Siblings(n))
         /\ Siblings(n)[Place(n)] = n
         /\ \A k \in 1..Len(Siblings(n)) :
              /\ Siblings(n)[k] \in Node
              /\ Siblings(Siblings(n)[k]) = Siblings(n)
              /\ Place(Siblings(n)[k]) = k
<1>1. CASE Parents(Kids, n) = {}
  <2>1. Siblings(n) = <<n>>
    BY <1>1 DEF Siblings
  <2>2. Place(n) = 1
    BY <2>1 DEF Place
  <2>. QED  BY <2>1, <2>2
<1>2. CASE Parents(Kids, n) # {}
  <2>1. PICK p \in Node : \E k \in DOMAIN Kids[p] : Kids[p][k] = n
    BY <1>2 DEF Parents, ToSet, Node
  <2>0. PICK k \in DOMAIN Kids[p] : Kids[p][k] = n
    BY <2>1
  <2>2. Siblings(n) = Kids[p] /\ Place(n) = k
    BY <2>0, PlaceOfChild
  <2>3. \A j \in DOMAIN Kids[p] : Siblings(Kids[p][j]) = Kids[p] /\ Place(Kids[p][j]) = j
    BY PlaceOfChild
  <2>. QED  BY <2>0, <2>2, <2>3, KidsAreNodes
<1>. QED  BY <1>1, <1>2

\* The nodes below n are numbered without a gap, from n on.
LEMMA DescendantsFollow ==
  ASSUME TreeIsLaidOut, NEW n \in Node
  PROVE  /\ n \in Descendants(n)
         /\ \A d \in Descendants(n) :
              d \in Node /\ n <= d /\ (n < d => d - 1 \in Descendants(n))
<1>0. IsTable(Kids) /\ Node = DOMAIN Kids
  BY DEF TreeIsLaidOut, IsTable, Node
<1>1. n \in Descendants(n)
  BY <1>0, LineageOf DEF Descendants
<1>2. ASSUME NEW d \in Descendants(n)
      PROVE  d \in Node /\ n <= d
  BY <1>0, <1>2, LineageIsAbove DEF Descendants
<1>3. ASSUME NEW d \in Descendants(n), n < d
      PROVE  d - 1 \in Descendants(n)
  <2>1. d \in Node /\ n \in Lineage(Kids)[d] /\ d > 1 /\ d - 1 \in Node
    BY <1>3 DEF Descendants, TreeIsLaidOut
  <2>2. PICK p \in Lineage(Kids)[d - 1] : Parents(Kids, d) = {p}
    BY <2>1 DEF TreeIsLaidOut
  <2>3. n \in Lineage(Kids)[p]
    <3>1. Lineage(Kids)[d] = {d} \cup Lineage(Kids)[p]
      BY <1>0, <2>1, <2>2, LineageOf
    <3>. QED  BY <1>3, <2>1, <3>1 DEF TreeIsLaidOut
  <2>. QED  BY <1>0, <2>1, <2>2, <2>3, LineageIsTransitive DEF Descendants
<1>. QED  BY <1>1, <1>2, <1>3

(* Matchers *)

\* What IsMatcherTable says of the matchers.
MatchersAreLaidOut ==
  /\ Subs \in Seq(Seq(Matcher)) /\ Matcher = 1..Len(Subs) /\ 1 \in Matcher
  /\ \A m \in Matcher : \A k \in DOMAIN Subs[m] : Subs[m][k] > m
  /\ \A m \in Matcher : IsInjective(Subs[m])
  /\ \A m \in Matcher : \A u, v \in Parents(Subs, m) : u = v
  /\ \A m \in Matcher : \A u, v \in Users(problem.matcher, m) : u = v
  /\ \A m \in Matcher : Call[m].fn \in Searches =>
       Call[m].sub \in (m + 1)..Len(Subs) /\ Parents(Subs, Call[m].sub) = {}
  /\ \A m \in Matcher : Current[m] \in {"anyTree", "anyForest"} =>
       Subs[m] = << >> /\ Call[m].fn = "none"

LEMMA MatchersLaidOut ==
  ASSUME problem \in Problems
  PROVE  MatchersAreLaidOut
<1>1. IsMatcherTable(problem.matcher)
  BY ProblemsAssumption
<1>2. Subs \in Seq(Seq(Matcher)) /\ Subs # << >>
  BY <1>1 DEF IsMatcherTable, Matcher, Subs
<1>3. Matcher = 1..Len(Subs) /\ 1 \in Matcher
  BY <1>2 DEF Matcher
<1>4. \A m \in Matcher : \A u, v \in Parents(Subs, m) : u = v
  BY <1>1, Zenon DEF IsMatcherTable, Users, Matcher, Subs
<1>5. \A m \in Matcher : \A u, v \in Users(problem.matcher, m) : u = v
  BY <1>1, Zenon DEF IsMatcherTable, Matcher, Subs
<1>6. \A m \in Matcher : Current[m] \in {"anyTree", "anyForest"} =>
        Subs[m] = << >> /\ Call[m].fn = "none"
  BY <1>1 DEF IsMatcherTable, Matcher, Subs, Call, Current
<1>7. /\ \A m \in Matcher : \A k \in DOMAIN Subs[m] : Subs[m][k] > m
      /\ \A m \in Matcher : IsInjective(Subs[m])
      /\ \A m \in Matcher : Call[m].fn \in Searches =>
           Call[m].sub \in (m + 1)..Len(Subs) /\ Parents(Subs, Call[m].sub) = {}
  BY <1>1 DEF IsMatcherTable, Matcher, Subs, Call
<1>. QED  BY <1>2, <1>3, <1>4, <1>5, <1>6, <1>7 DEF MatchersAreLaidOut

LEMMA SubsAreMatchers ==
  ASSUME MatchersAreLaidOut, NEW m \in Matcher
  PROVE  /\ Subs[m] \in Seq(Matcher) /\ Len(Subs[m]) \in Nat
         /\ DOMAIN Subs[m] = 1..Len(Subs[m])
         /\ \A k \in DOMAIN Subs[m] : Subs[m][k] \in Matcher
<1>1. Subs[m] \in Seq(Matcher)
  BY DEF MatchersAreLaidOut
<1>. QED  BY <1>1

\* Whether a matcher fits depends on later matchers only.
LEMMA FitsLooksAhead ==
  ASSUME MatchersAreLaidOut, NEW m \in Matcher, NEW n, NEW f, NEW g,
         \A k \in Matcher : k > m => f[k] = g[k]
  PROVE  Fits(m, n, f) <=> Fits(m, n, g)
<1>1. \A k \in DOMAIN Subs[m] : f[Subs[m][k]] = g[Subs[m][k]]
  BY SubsAreMatchers DEF MatchersAreLaidOut
<1>2. Call[m].fn \in Searches => f[Call[m].sub] = g[Call[m].sub]
  <2>. SUFFICES ASSUME Call[m].fn \in Searches
                PROVE  f[Call[m].sub] = g[Call[m].sub]
    OBVIOUS
  <2>. DEFINE sub == Call[m].sub
  <2>1. sub \in (m + 1)..Len(Subs)
    BY DEF MatchersAreLaidOut
  <2>. HIDE DEF sub
  <2>2. sub \in Matcher /\ sub > m
    BY <2>1 DEF MatchersAreLaidOut
  <2>3. f[sub] = g[sub]
    BY <2>2
  <2>. QED  BY <2>3 DEF sub
<1>. QED  BY <1>1, <1>2 DEF Fits, Allows, ChildrenFit

\* The nodes a matcher matches are those that fit it.
LEMMA MatchedByUnfolds ==
  ASSUME MatchersAreLaidOut, NEW m \in Matcher
  PROVE  MatchedBy[m] = {n \in Node : Fits(m, n, MatchedBy)}
<1>. DEFINE L == Len(Subs)
            Body(f, k) == {n \in Node : Fits(k, n, f)}
            S == {j \in 0..L : \E f : \A k \in (L + 1 - j)..L : f[k] = Body(f, k)}
<1>1. L \in Nat /\ Matcher = 1..L
  BY DEF MatchersAreLaidOut
<1>2. \A f, g : \A k \in 1..L : (\A i \in 1..L : i > k => f[i] = g[i]) => Body(f, k) = Body(g, k)
  BY <1>1, FitsLooksAhead
<1>. HIDE DEF Body
<1>3. ASSUME NEW j \in 1..L, j - 1 \in S PROVE j \in S
  <2>1. PICK f : \A k \in (L + 1 - (j - 1))..L : f[k] = Body(f, k)
    BY <1>3
  <2>. DEFINE g == [k \in 1..L |-> IF k = L + 1 - j THEN Body(f, k) ELSE f[k]]
  <2>2. \A k \in (L + 1 - j)..L : g[k] = Body(f, k)
    BY <1>1, <2>1, SMTT(30)
  <2>3. \A k \in (L + 1 - j)..L : \A i \in 1..L : i > k => g[i] = f[i]
    BY <1>1
  <2>. HIDE DEF g
  <2>4. \A k \in (L + 1 - j)..L : Body(g, k) = Body(f, k)
    BY <1>1, <1>2, <2>3
  <2>5. \A k \in (L + 1 - j)..L : g[k] = Body(g, k)
    BY <2>2, <2>4
  <2>. QED  BY <1>1, <2>5
<1>4. L \in S
  <2>1. 0 \in S
    BY <1>1
  <2>2. \A k \in (0 + 1)..L : k - 1 \in S => k \in S
    BY <1>3
  <2>. HIDE DEF S, L
  <2>3. 0..L \subseteq S
    BY <1>1, <2>1, <2>2, IntervalInduction
  <2>. QED  BY <1>1, <2>3
<1>5. PICK f : \A k \in 1..L : f[k] = Body(f, k)
  BY <1>1, <1>4
<1>. DEFINE by == [k \in Matcher |-> f[k]]
<1>6. \A k \in Matcher : Body(by, k) = Body(f, k)
  BY <1>1, <1>2
<1>7. by = [k \in Matcher |-> Body(by, k)]
  BY <1>1, <1>5, <1>6
<1>. HIDE DEF by
<1>8. MatchedBy = [k \in Matcher |-> Body(MatchedBy, k)]
  BY <1>7 DEF MatchedBy, Body
<1>9. MatchedBy[m] = Body(MatchedBy, m)
  BY <1>8
<1>. QED  BY <1>9 DEF Body

(* The inductive invariant *)

\* The candidates that a search has gone by, those up to the last one left out.
Passed(a, k) ==
  \/ /\ a.fn \in {"previous", "sibling"}
     /\ k \in Related("previous", a.n) /\ Place(k) > Place(a.i)
  \/ a.fn = "next" /\ k \in Related("next", a.n) /\ Place(k) < Place(a.i)
  \/ a.fn = "descendant" /\ k \in Related("descendant", a.n) /\ k < a.i

\* Where a search starts, and where it may be afterwards.
Start(a) == IF a.fn = "descendant" THEN a.n - 1 ELSE a.n
Tried(a) == IF a.fn = "sibling" THEN Related("previous", a.n) ELSE Related(a.fn, a.n)

\* What a call has established to be where it is.
Visits(a) ==
  /\ Current[a.m] \in IslTypes /\ Current[a.m] = Type[a.n]
  /\ Allows(a.m, a.n, MatchedBy) /\ ArityFits(a.m, a.n)
  /\ a.i \in DOMAIN Kids[a.n] /\ a.i \in DOMAIN Subs[a.m]
  /\ \A k \in 1..(a.i - 1) : Kids[a.n][k] \in MatchedBy[Subs[a.m][k]]

Seeks(a) ==
  /\ \E u \in Matcher : Call[u].fn \in Searches /\ Call[u].sub = a.m
  /\ a.i = Start(a) \/ a.i \in Tried(a)
  /\ \A k \in MatchedBy[a.m] : ~ Passed(a, k)

JustifiedFrames ==
  {a \in Frame : /\ a.fn = "match" /\ a.i > 0 => Visits(a)
                 /\ a.fn \in Searches => Seeks(a)}

\* The node was found fit for a search for the matcher of its callback.
Asks(a) ==
  /\ Current[a.m] \in IslTypes /\ Current[a.m] = Type[a.n]
  /\ Call[a.m].fn \in Searches

\* What a call may call.  hasSibling goes on to the next siblings when none of
\* the previous ones matches.
Calls(a, b) ==
  \/ /\ a.fn = "match" /\ a.i = 0 /\ Asks(a)
     /\ b.m = Call[a.m].sub /\ b.n = a.n /\ b.fn \in Searches
     /\ \/ b.fn = Call[a.m].fn
        \/ /\ b.fn = "next" /\ Call[a.m].fn = "sibling"
           /\ Related("previous", b.n) \cap MatchedBy[b.m] = {}
  \/ /\ a.fn = "match" /\ a.i > 0
     /\ b.fn = "match" /\ b.m = Subs[a.m][a.i] /\ b.n = Kids[a.n][a.i]
  \/ /\ a.fn \in Searches /\ a.i \in Tried(a)
     /\ b.fn = "match" /\ b.m = a.m /\ b.n = a.i

CallPairs == {c \in Frame \X Frame : Calls(c[1], c[2])}

\* What the answer of the call it made tells a call.
Learned(a, v) ==
  \/ /\ a.fn = "match" /\ a.i = 0 /\ Asks(a)
     /\ v = "yes" <=> Allows(a.m, a.n, MatchedBy)
  \/ /\ a.fn = "match" /\ a.i > 0
     /\ v = "yes" <=> Kids[a.n][a.i] \in MatchedBy[Subs[a.m][a.i]]
  \/ /\ a.fn \in Searches /\ a.i \in Tried(a)
     /\ v = "yes" <=> a.i \in MatchedBy[a.m]

Answers == {c \in Frame \X {"yes", "no"} : Learned(c[1], c[2])}

\* The answer a call is to give.
Result(a, v) ==
  IF a.fn = "match" THEN v = "yes" <=> a.n \in MatchedBy[a.m]
  ELSE v = "yes" <=> Related(a.fn, a.n) \cap MatchedBy[a.m] # {}

Fresh(a) == a.i = IF a.fn = "match" THEN 0 ELSE Start(a)

StackOK(s, r) ==
  /\ s \in Seq(Frame)
  /\ \A f \in DOMAIN s : s[f] \in JustifiedFrames
  /\ \A f \in DOMAIN s : f < Len(s) => <<s[f], s[f + 1]>> \in CallPairs
  /\ s # << >> =>
       /\ s[1].fn = "match" /\ s[1].m = 1 /\ s[1].n = problem.node
       /\ IF r = "none" THEN Fresh(s[Len(s)]) ELSE <<s[Len(s)], r>> \in Answers

SearchState ==
  /\ problem \in Problems
  /\ TypeOK
  /\ StackOK(stack, ret)
-----------------------------------------------------------------------------
(* The problem does not change, nor does what depends on it alone *)

LEMMA RelatedIsFixed ==
  ASSUME problem' = problem, NEW fn, NEW n
  PROVE  Related(fn, n)' = Related(fn, n) /\ Place(n)' = Place(n)
  BY DEF Related, Descendants, Siblings, Place, Parent, Node, Kids

LEMMA FitsIsFixed ==
  ASSUME problem' = problem, NEW m, NEW n, NEW f
  PROVE  /\ Fits(m, n, f)' <=> Fits(m, n, f)
         /\ Allows(m, n, f)' <=> Allows(m, n, f)
<1>1. Related(Call[m].fn, n)' = Related(Call[m].fn, n)
  BY RelatedIsFixed DEF Call
<1>. QED
  BY <1>1 DEF Fits, Allows, ChildrenFit, HasPrevious, Place, Siblings, Parent,
     Call, Subs, Current, Type, Kids, OnlyForest

LEMMA MatchedByIsFixed ==
  ASSUME problem' = problem
  PROVE  MatchedBy' = MatchedBy
<1>1. \A m, n, f : Fits(m, n, f)' <=> Fits(m, n, f)
  BY FitsIsFixed
<1>2. Matcher' = Matcher /\ Node' = Node
  BY DEF Matcher, Node, Subs, Kids
<1>. QED  BY <1>1, <1>2 DEF MatchedBy

LEMMA FramesAreFixed ==
  ASSUME problem' = problem
  PROVE  /\ Frame' = Frame /\ JustifiedFrames' = JustifiedFrames
         /\ CallPairs' = CallPairs /\ Answers' = Answers
<1>1. /\ Matcher' = Matcher /\ Node' = Node /\ Kids' = Kids /\ Subs' = Subs
      /\ Type' = Type /\ Current' = Current /\ Call' = Call
  BY DEF Matcher, Node, Subs, Kids, Type, Current, Call
<1>2. Frame' = Frame
  BY <1>1 DEF Frame
<1>3. MatchedBy' = MatchedBy
  BY MatchedByIsFixed
<1>4. \A m, n : Allows(m, n, MatchedBy)' <=> Allows(m, n, MatchedBy)
  <2>1. \A m, n : Related(Call[m].fn, n)' = Related(Call[m].fn, n)
    BY RelatedIsFixed DEF Call
  <2>. QED  BY <1>1, <1>3, <2>1 DEF Allows
<1>5. \A a : Tried(a)' = Tried(a)
  BY RelatedIsFixed DEF Tried
<1>6. \A a, k : Passed(a, k)' <=> Passed(a, k)
  <2>1. \A fn, n : Related(fn, n)' = Related(fn, n) /\ Place(n)' = Place(n)
    BY RelatedIsFixed
  <2>. QED  BY <2>1 DEF Passed
<1>7. \A a : Visits(a)' <=> Visits(a)
  BY <1>1, <1>3, <1>4 DEF Visits, ArityFits, OnlyForest
<1>8. \A a : Seeks(a)' <=> Seeks(a)
  BY <1>1, <1>3, <1>5, <1>6 DEF Seeks, Start
<1>9. \A a, b : Calls(a, b)' <=> Calls(a, b)
  <2>1. \A fn, n : Related(fn, n)' = Related(fn, n)
    BY RelatedIsFixed
  <2>. QED  BY <1>1, <1>3, <1>5, <2>1 DEF Calls, Asks
<1>10. \A a, v : Learned(a, v)' <=> Learned(a, v)
  BY <1>1, <1>3, <1>4, <1>5 DEF Learned, Asks
<1>. QED  BY <1>2, <1>7, <1>8, <1>9, <1>10 DEF JustifiedFrames, CallPairs, Answers
-----------------------------------------------------------------------------
(* The stack *)

LEMMA FrontAndLast ==
  ASSUME NEW S, NEW s \in Seq(S), s # << >>
  PROVE  /\ Len(s) \in Nat \ {0} /\ DOMAIN s = 1..Len(s) /\ Last(s) = s[Len(s)]
         /\ Front(s) \in Seq(S) /\ Len(Front(s)) = Len(s) - 1
         /\ \A k \in 1..(Len(s) - 1) : Front(s)[k] = s[k]
<1>1. Len(s) \in Nat \ {0} /\ DOMAIN s = 1..Len(s) /\ \A i \in 1..Len(s) : s[i] \in S
  BY EmptySeq
<1>. DEFINE n == Len(s) - 1
<1>2. n \in Nat /\ \A i \in 1..n : s[i] \in S
  BY <1>1
<1>3. Front(s) = SubSeq(s, 1, n)
  BY DEF Front
<1>. HIDE DEF n
<1>4. /\ SubSeq(s, 1, n) \in Seq(S) /\ Len(SubSeq(s, 1, n)) = n
      /\ \A i \in 1..n : SubSeq(s, 1, n)[i] = s[i]
  BY <1>2, SubSeqProperties
<1>. QED  BY <1>1, <1>3, <1>4 DEF Last, n

LEMMA Appended ==
  ASSUME NEW S, NEW s \in Seq(S), NEW e \in S
  PROVE  /\ Append(s, e) \in Seq(S) /\ Append(s, e) # << >>
         /\ Len(Append(s, e)) = Len(s) + 1 /\ Append(s, e)[Len(s) + 1] = e
         /\ \A k \in 1..Len(s) : Append(s, e)[k] = s[k]
  BY AppendProperties

LEMMA Replaced ==
  ASSUME NEW S, NEW s \in Seq(S), s # << >>, NEW a \in S
  PROVE  LET t == Append(Front(s), a)
         IN  /\ t \in Seq(S) /\ t # << >> /\ Len(t) = Len(s) /\ t[Len(s)] = a
             /\ \A k \in 1..(Len(s) - 1) : t[k] = s[k]
<1>. DEFINE f == Front(s)
<1>1. /\ Len(s) \in Nat \ {0} /\ f \in Seq(S) /\ Len(f) = Len(s) - 1
      /\ \A k \in 1..(Len(s) - 1) : f[k] = s[k]
  BY FrontAndLast
<1>. HIDE DEF f
<1>2. /\ Append(f, a) \in Seq(S) /\ Append(f, a) # << >>
      /\ Len(Append(f, a)) = Len(f) + 1 /\ Append(f, a)[Len(f) + 1] = a
      /\ \A k \in 1..Len(f) : Append(f, a)[k] = f[k]
  BY <1>1, Appended
<1>. DEFINE t == Append(f, a)
<1>. HIDE DEF t
<1>3. /\ t \in Seq(S) /\ t # << >> /\ Len(t) = Len(s) /\ t[Len(s)] = a
      /\ \A k \in 1..(Len(s) - 1) : t[k] = s[k]
  BY <1>1, <1>2 DEF t
<1>. QED  BY <1>3 DEF t, f

\* A frame replaced by another and one above it.
LEMMA Pushed ==
  ASSUME NEW S, NEW s \in Seq(S), s # << >>, NEW a \in S, NEW b \in S
  PROVE  LET t == Append(Front(s), a) \o <<b>>
         IN  /\ t \in Seq(S) /\ t # << >> /\ Len(t) = Len(s) + 1
             /\ \A k \in 1..(Len(s) - 1) : t[k] = s[k]
             /\ t[Len(s)] = a /\ t[Len(s) + 1] = b
<1>. DEFINE g == Append(Front(s), a)
<1>1. /\ Len(s) \in Nat \ {0}
      /\ g \in Seq(S) /\ Len(g) = Len(s) /\ g[Len(s)] = a
      /\ \A k \in 1..(Len(s) - 1) : g[k] = s[k]
  BY FrontAndLast, Replaced
<1>. HIDE DEF g
<1>2. /\ Append(g, b) \in Seq(S) /\ Append(g, b) # << >>
      /\ Len(Append(g, b)) = Len(g) + 1 /\ Append(g, b)[Len(g) + 1] = b
      /\ \A k \in 1..Len(g) : Append(g, b)[k] = g[k]
  BY <1>1, Appended
<1>3. g \o <<b>> = Append(g, b)
  BY <1>1, AppendIsConcat
<1>. DEFINE t == g \o <<b>>
<1>. HIDE DEF t
<1>4. /\ t \in Seq(S) /\ t # << >> /\ Len(t) = Len(s) + 1
      /\ \A k \in 1..(Len(s) - 1) : t[k] = s[k]
      /\ t[Len(s)] = a /\ t[Len(s) + 1] = b
  BY <1>1, <1>2, <1>3 DEF t
<1>. QED  BY <1>4 DEF t, g

\* What is known of the innermost call.
LEMMA TopFacts ==
  ASSUME SearchState, stack # << >>
  PROVE  /\ Len(stack) \in Nat \ {0} /\ Top = stack[Len(stack)]
         /\ Top \in Frame /\ Top \in JustifiedFrames
         /\ M \in Matcher /\ N \in Node /\ Top.i \in Nat
         /\ Top.fn \in {"match"} \cup Searches
         /\ ret = "none" => Fresh(Top)
         /\ ret # "none" => Learned(Top, ret)
         /\ Len(stack) = 1 => Top.fn = "match" /\ M = 1 /\ N = problem.node
         /\ Len(stack) > 1 => Calls(stack[Len(stack) - 1], Top)
<1>1. /\ stack \in Seq(Frame)
      /\ \A f \in DOMAIN stack : stack[f] \in JustifiedFrames
      /\ \A f \in DOMAIN stack : f < Len(stack) => <<stack[f], stack[f + 1]>> \in CallPairs
  BY DEF SearchState, StackOK
<1>2. Len(stack) \in Nat \ {0} /\ DOMAIN stack = 1..Len(stack) /\ Top = stack[Len(stack)]
  BY <1>1, FrontAndLast DEF Top
<1>3. Top \in Frame /\ Top \in JustifiedFrames
  BY <1>1, <1>2
<1>4. ret = "none" => Fresh(Top)
  BY <1>2 DEF SearchState, StackOK
<1>5. ret # "none" => Learned(Top, ret)
  BY <1>2 DEF SearchState, StackOK, Answers
<1>6. Len(stack) = 1 => Top.fn = "match" /\ M = 1 /\ N = problem.node
  BY <1>2 DEF SearchState, StackOK, M, N
<1>7. ASSUME Len(stack) > 1 PROVE Calls(stack[Len(stack) - 1], Top)
  <2>. DEFINE f == Len(stack) - 1
  <2>1. f \in DOMAIN stack /\ f < Len(stack) /\ f + 1 = Len(stack)
    BY <1>2, <1>7
  <2>2. <<stack[f], stack[f + 1]>> \in CallPairs
    BY <1>1, <2>1
  <2>. QED  BY <1>2, <2>1, <2>2 DEF CallPairs
<1>. QED  BY <1>2, <1>3, <1>4, <1>5, <1>6, <1>7 DEF Frame, M, N

\* A call that gives its answer leaves its caller with what that answer means.
LEMMA AnswerIsUnderstood ==
  ASSUME NEW a, NEW b, NEW v \in {"yes", "no"}, Calls(a, b), Result(b, v)
  PROVE  Learned(a, v)
<1>1. CASE a.fn = "match" /\ a.i = 0
  <2>1. /\ Asks(a) /\ b.m = Call[a.m].sub /\ b.n = a.n /\ b.fn \in Searches
        /\ \/ b.fn = Call[a.m].fn
           \/ /\ b.fn = "next" /\ Call[a.m].fn = "sibling"
              /\ Related("previous", b.n) \cap MatchedBy[b.m] = {}
    BY <1>1 DEF Calls, Searches
  <2>2. v = "yes" <=> Related(b.fn, b.n) \cap MatchedBy[b.m] # {}
    BY <2>1 DEF Result, Searches
  <2>3. Allows(a.m, a.n, MatchedBy)
          <=> Related(Call[a.m].fn, a.n) \cap MatchedBy[Call[a.m].sub] # {}
    BY <2>1 DEF Allows, Asks, Searches
  <2>4. CASE b.fn = Call[a.m].fn
    BY <1>1, <2>1, <2>2, <2>3, <2>4 DEF Learned
  <2>5. CASE b.fn = "next" /\ Call[a.m].fn = "sibling"
    <3>1. Related("sibling", a.n) = Related("previous", a.n) \cup Related("next", a.n)
      BY DEF Related
    <3>. QED  BY <1>1, <2>1, <2>2, <2>3, <2>5, <3>1 DEF Learned
  <2>. QED  BY <2>1, <2>4, <2>5
<1>2. CASE a.fn = "match" /\ a.i > 0
  <2>1. b.fn = "match" /\ b.m = Subs[a.m][a.i] /\ b.n = Kids[a.n][a.i]
    BY <1>2 DEF Calls, Searches
  <2>. QED  BY <1>2, <2>1 DEF Learned, Result
<1>3. CASE a.fn \in Searches /\ a.i \in Tried(a)
  <2>1. b.fn = "match" /\ b.m = a.m /\ b.n = a.i
    BY <1>3 DEF Calls, Searches
  <2>. QED  BY <1>3, <2>1 DEF Learned, Result
<1>. QED  BY <1>1, <1>2, <1>3 DEF Calls

\* Whoever returns the right answer keeps the stack in order; when nobody is
\* left, the answer is that of the match.
LEMMA ReturnKeeps ==
  ASSUME SearchState, stack # << >>, NEW v \in {"yes", "no"}, Return(v), Result(Top, v)
  PROVE  /\ StackOK(stack', ret') /\ ret' = v /\ stack' \in Seq(Frame)
         /\ Len(stack) = 1 =>
              stack' = << >> /\ status' = v /\ (v = "yes" <=> problem.node \in MatchedBy[1])
         /\ Len(stack) # 1 => stack' # << >> /\ status' = status
<1>1. /\ stack \in Seq(Frame)
      /\ \A f \in DOMAIN stack : stack[f] \in JustifiedFrames
      /\ \A f \in DOMAIN stack : f < Len(stack) => <<stack[f], stack[f + 1]>> \in CallPairs
      /\ stack[1].fn = "match" /\ stack[1].m = 1 /\ stack[1].n = problem.node
  BY DEF SearchState, StackOK
<1>2. PICK t : t = stack'
  OBVIOUS
<1>3. t = Front(stack) /\ ret' = v /\ status' = IF Len(stack) = 1 THEN v ELSE status
  BY <1>2 DEF Return
<1>4. /\ Len(stack) \in Nat \ {0} /\ DOMAIN stack = 1..Len(stack)
      /\ t \in Seq(Frame) /\ Len(t) = Len(stack) - 1
      /\ \A k \in 1..(Len(stack) - 1) : t[k] = stack[k]
  BY <1>1, <1>3, FrontAndLast
<1>5. CASE Len(stack) = 1
  <2>1. t = << >>
    BY <1>4, <1>5
  <2>2. v = "yes" <=> problem.node \in MatchedBy[1]
    BY <1>5, TopFacts DEF Result, M, N
  <2>. QED  BY <1>2, <1>3, <1>4, <1>5, <2>1, <2>2 DEF StackOK
<1>6. CASE Len(stack) # 1
  <2>. DEFINE d == Len(stack) - 1
  <2>1. d \in Nat \ {0} /\ Len(t) = d /\ DOMAIN t = 1..d /\ d + 1 = Len(stack)
    BY <1>4, <1>6
  <2>2. Calls(stack[d], Top)
    BY <1>4, <1>6, TopFacts
  <2>3. Learned(stack[d], v)
    BY <2>2, AnswerIsUnderstood
  <2>4. stack[d] \in Frame
    BY <1>1, <1>4, <2>1
  <2>5. <<stack[d], v>> \in Answers
    BY <2>3, <2>4 DEF Answers
  <2>. HIDE DEF d
  <2>6. \A f \in DOMAIN t : t[f] \in JustifiedFrames
    BY <1>1, <1>4, <2>1
  <2>7. \A f \in DOMAIN t : f < Len(t) => <<t[f], t[f + 1]>> \in CallPairs
    <3>. SUFFICES ASSUME NEW f \in 1..d, f < d PROVE <<t[f], t[f + 1]>> \in CallPairs
      BY <2>1
    <3>1. t[f] = stack[f] /\ t[f + 1] = stack[f + 1] /\ f \in DOMAIN stack /\ f < Len(stack)
      BY <1>4, <2>1
    <3>. QED  BY <1>1, <3>1
  <2>8. t # << >> /\ t[1] = stack[1] /\ t[Len(t)] = stack[d]
    BY <1>4, <2>1
  <2>9. StackOK(t, v)
    BY <1>1, <1>4, <2>5, <2>6, <2>7, <2>8 DEF StackOK
  <2>. QED  BY <1>2, <1>3, <1>4, <1>6, <2>8, <2>9
<1>. QED  BY <1>5, <1>6

\* A caller that stays the same but for its loop index is the same to its own
\* caller.
SameCall(a, b) == a.fn = b.fn /\ a.m = b.m /\ a.n = b.n

LEMMA PushKeeps ==
  ASSUME SearchState, stack # << >>, NEW a \in JustifiedFrames, NEW b \in JustifiedFrames,
         Push(a, b), SameCall(a, Top), Calls(a, b), Fresh(b)
  PROVE  /\ StackOK(stack', ret') /\ stack' # << >> /\ ret' = "none" /\ status' = status
<1>1. /\ stack \in Seq(Frame)
      /\ \A f \in DOMAIN stack : stack[f] \in JustifiedFrames
      /\ \A f \in DOMAIN stack : f < Len(stack) => <<stack[f], stack[f + 1]>> \in CallPairs
      /\ stack[1].fn = "match" /\ stack[1].m = 1 /\ stack[1].n = problem.node
  BY DEF SearchState, StackOK
<1>2. PICK t : t = stack'
  OBVIOUS
<1>3. t = Append(Front(stack), a) \o <<b>> /\ ret' = "none" /\ status' = status
  BY <1>2 DEF Push
<1>4. a \in Frame /\ b \in Frame
  BY DEF JustifiedFrames
<1>. DEFINE d == Len(stack)
<1>. HIDE DEF d
<1>5. d \in Nat \ {0} /\ DOMAIN stack = 1..d /\ Top = stack[d]
  BY <1>1, FrontAndLast, TopFacts DEF d
<1>6. /\ t \in Seq(Frame) /\ t # << >> /\ Len(t) = d + 1
      /\ \A k \in 1..(d - 1) : t[k] = stack[k]
      /\ t[d] = a /\ t[d + 1] = b
  <2>1. t = Append(Front(stack), a) \o <<b>> /\ stack \in Seq(Frame)
    BY <1>1, <1>3
  <2>. HIDE DEF Frame
  <2>2. /\ t \in Seq(Frame) /\ t # << >> /\ Len(t) = Len(stack) + 1
        /\ \A k \in 1..(Len(stack) - 1) : t[k] = stack[k]
        /\ t[Len(stack)] = a /\ t[Len(stack) + 1] = b
    BY <1>4, <2>1, Pushed
  <2>. QED  BY <2>2 DEF d
<1>7. DOMAIN t = 1..(d + 1)
  BY <1>5, <1>6
<1>8. \A f \in DOMAIN t : t[f] \in JustifiedFrames
  BY <1>1, <1>5, <1>6, <1>7
<1>9. ASSUME NEW f \in 1..d
      PROVE  <<t[f], t[f + 1]>> \in CallPairs
  <2>1. CASE f = d
    BY <1>4, <1>6, <2>1 DEF CallPairs
  <2>2. CASE f < d - 1
    <3>1. t[f] = stack[f] /\ t[f + 1] = stack[f + 1] /\ f \in DOMAIN stack /\ f < d
      BY <1>5, <1>6, <2>2
    <3>. QED  BY <1>1, <3>1 DEF d
  <2>3. CASE f = d - 1
    <3>1. t[f] = stack[f] /\ t[f + 1] = a /\ f \in DOMAIN stack /\ f < d
      BY <1>5, <1>6, <2>3
    <3>2. <<stack[f], stack[f + 1]>> \in CallPairs
      BY <1>1, <3>1 DEF d
    <3>5. f + 1 = d
      BY <1>5, <2>3
    <3>3. Calls(stack[f], a)
      BY <1>5, <3>2, <3>5 DEF CallPairs, Calls, SameCall
    <3>4. stack[f] \in Frame
      BY <1>1, <3>1
    <3>. QED  BY <1>4, <3>1, <3>3, <3>4 DEF CallPairs
  <2>. QED  BY <1>5, <2>1, <2>2, <2>3
<1>10. t[1].fn = "match" /\ t[1].m = 1 /\ t[1].n = problem.node
  <2>1. CASE d = 1
    BY <1>1, <1>5, <1>6, <2>1 DEF SameCall
  <2>2. CASE d # 1
    <3>1. 1 \in 1..(d - 1)
      BY <1>5, <2>2
    <3>. QED  BY <1>1, <1>6, <3>1
  <2>. QED  BY <2>1, <2>2
<1>11. \A f \in DOMAIN t : f < Len(t) => <<t[f], t[f + 1]>> \in CallPairs
  BY <1>5, <1>6, <1>7, <1>9
<1>12. StackOK(t, "none")
  BY <1>6, <1>8, <1>10, <1>11 DEF StackOK
<1>. QED  BY <1>2, <1>3, <1>6, <1>12

\* TurnToNext replaces the innermost call.
LEMMA ReplaceKeeps ==
  ASSUME SearchState, stack # << >>, Len(stack) > 1,
         NEW a \in JustifiedFrames, stack' = Append(Front(stack), a), ret' = "none",
         Calls(stack[Len(stack) - 1], a), Fresh(a)
  PROVE  StackOK(stack', ret') /\ stack' # << >>
<1>1. /\ stack \in Seq(Frame)
      /\ \A f \in DOMAIN stack : stack[f] \in JustifiedFrames
      /\ \A f \in DOMAIN stack : f < Len(stack) => <<stack[f], stack[f + 1]>> \in CallPairs
      /\ stack[1].fn = "match" /\ stack[1].m = 1 /\ stack[1].n = problem.node
  BY DEF SearchState, StackOK
<1>2. PICK t : t = stack'
  OBVIOUS
<1>3. a \in Frame
  BY DEF JustifiedFrames
<1>. DEFINE d == Len(stack)
<1>. HIDE DEF d
<1>4. d \in Nat \ {0} /\ DOMAIN stack = 1..d /\ d > 1
  BY <1>1, FrontAndLast DEF d
<1>5. /\ t \in Seq(Frame) /\ t # << >> /\ Len(t) = d /\ t[d] = a
      /\ \A k \in 1..(d - 1) : t[k] = stack[k]
  <2>. HIDE DEF Frame
  <2>1. t = Append(Front(stack), a)
    BY <1>2
  <2>. QED  BY <1>1, <1>3, <2>1, Replaced DEF d
<1>6. DOMAIN t = 1..d
  BY <1>5
<1>7. \A f \in DOMAIN t : t[f] \in JustifiedFrames
  BY <1>1, <1>4, <1>5, <1>6
<1>8. ASSUME NEW f \in 1..d, f < d
      PROVE  <<t[f], t[f + 1]>> \in CallPairs
  <2>1. CASE f < d - 1
    <3>1. t[f] = stack[f] /\ t[f + 1] = stack[f + 1] /\ f \in DOMAIN stack /\ f < d
      BY <1>4, <1>5, <2>1
    <3>. QED  BY <1>1, <3>1 DEF d
  <2>2. CASE f = d - 1
    <3>1. t[f] = stack[f] /\ t[f + 1] = a /\ stack[f] \in Frame
      BY <1>1, <1>4, <1>5, <2>2
    <3>2. Calls(stack[f], a)
      BY <2>2 DEF d
    <3>. QED  BY <1>3, <3>1, <3>2 DEF CallPairs
  <2>. QED  BY <1>4, <1>8, <2>1, <2>2
<1>9. t[1] = stack[1]
  BY <1>4, <1>5
<1>10. \A f \in DOMAIN t : f < Len(t) => <<t[f], t[f + 1]>> \in CallPairs
  BY <1>5, <1>6, <1>8
<1>11. StackOK(t, "none")
  BY <1>1, <1>5, <1>7, <1>9, <1>10 DEF StackOK
<1>. QED  BY <1>2, <1>5, <1>11
-----------------------------------------------------------------------------
(* What the calls know *)

LEMMA Laid ==
  ASSUME SearchState
  PROVE  /\ TreeIsLaidOut /\ MatchersAreLaidOut
         /\ \A m \in Matcher, n \in Node : n \in MatchedBy[m] <=> Fits(m, n, MatchedBy)
         /\ \A m \in Matcher : MatchedBy[m] \subseteq Node
<1>1. TreeIsLaidOut /\ MatchersAreLaidOut
  BY TreeLaidOut, MatchersLaidOut DEF SearchState
<1>. QED  BY <1>1, MatchedByUnfolds

\* Siblings share their list and have a place each.
LEMMA RowOf ==
  ASSUME TreeIsLaidOut, NEW n \in Node
  PROVE  /\ Place(n) \in Nat \ {0}
         /\ \A k : k \in Related("previous", n) <=>
              k \in Node /\ Siblings(k) = Siblings(n) /\ Place(k) < Place(n)
         /\ \A k : k \in Related("next", n) <=>
              k \in Node /\ Siblings(k) = Siblings(n) /\ Place(k) > Place(n)
         /\ \A k \in Node :
              Siblings(k) = Siblings(n) /\ Place(k) = Place(n) => k = n
<1>1. /\ Len(Siblings(n)) \in Nat /\ Place(n) \in 1..Len(Siblings(n))
      /\ Siblings(n)[Place(n)] = n
      /\ \A k \in 1..Len(Siblings(n)) :
           /\ Siblings(n)[k] \in Node
           /\ Siblings(Siblings(n)[k]) = Siblings(n) /\ Place(Siblings(n)[k]) = k
  BY SiblingsOfNode
<1>2. \A k \in Node : Place(k) \in 1..Len(Siblings(k)) /\ Siblings(k)[Place(k)] = k
  BY SiblingsOfNode
<1>3. Related("previous", n) = {Siblings(n)[k] : k \in 1..(Place(n) - 1)}
  BY DEF Related
<1>4. Related("next", n) = {Siblings(n)[k] : k \in (Place(n) + 1)..Len(Siblings(n))}
  BY DEF Related
<1>5. \A k : k \in Related("previous", n) <=>
               k \in Node /\ Siblings(k) = Siblings(n) /\ Place(k) < Place(n)
  BY <1>1, <1>2, <1>3
<1>6. \A k : k \in Related("next", n) <=>
               k \in Node /\ Siblings(k) = Siblings(n) /\ Place(k) > Place(n)
  BY <1>1, <1>2, <1>4
<1>7. \A k \in Node : Siblings(k) = Siblings(n) /\ Place(k) = Place(n) => k = n
  BY <1>1, <1>2
<1>. QED  BY <1>1, <1>5, <1>6, <1>7

LEMMA RelatedNodes ==
  /\ \A n : Related("sibling", n) = Related("previous", n) \cup Related("next", n)
  /\ \A n : Related("descendant", n) = Descendants(n)
  BY DEF Related

\* A search that goes on has nothing to show for the candidates it went by.
LEMMA SearchedInVain ==
  ASSUME SearchState, stack # << >>, ret # "yes", Top.fn \in Searches
  PROVE  \/ \A k \in MatchedBy[M] : ~ Passed(Top, k) /\ k # Top.i
         \/ Top.i = Start(Top) /\ \A k \in MatchedBy[M] : ~ Passed(Top, k)
<1>1. \A k \in MatchedBy[M] : ~ Passed(Top, k)
  BY TopFacts DEF JustifiedFrames, Seeks, M
<1>2. CASE ret = "none"
  BY <1>1, <1>2, TopFacts DEF Fresh, Searches
<1>3. CASE ret # "none"
  <2>1. ret = "no"
    BY <1>3 DEF SearchState, TypeOK
  <2>2. Learned(Top, "no")
    BY <1>3, <2>1, TopFacts
  <2>3. Top.i \notin MatchedBy[M]
    BY <2>2 DEF Learned, Searches, M
  <2>. QED  BY <1>1, <2>3
<1>. QED  BY <1>2, <1>3
-----------------------------------------------------------------------------
(* Each step keeps the stack in order and gives no wrong verdict *)

StepOK ==
  /\ StackOK(stack', ret')
  /\ ret' \in {"none", "yes", "no"}
  /\ status' \in {"running", "yes", "no", "died", "aborted"}
  /\ stack' = << >> <=> status' # "running"
  /\ status' = "yes" => problem.node \in MatchedBy[1]
  /\ status' = "no" => problem.node \notin MatchedBy[1]

LEMMA ReturnIsOK ==
  ASSUME SearchState, stack # << >>, NEW v \in {"yes", "no"}, Return(v), Result(Top, v)
  PROVE  StepOK
<1>1. status = "running"
  BY DEF SearchState, TypeOK
<1>2. CASE Len(stack) = 1
  BY <1>2, ReturnKeeps DEF StepOK
<1>3. CASE Len(stack) # 1
  BY <1>1, <1>3, ReturnKeeps DEF StepOK
<1>. QED  BY <1>2, <1>3

LEMMA PushIsOK ==
  ASSUME SearchState, stack # << >>, NEW a \in JustifiedFrames, NEW b \in JustifiedFrames,
         Push(a, b), SameCall(a, Top), Calls(a, b), Fresh(b)
  PROVE  StepOK
<1>1. status = "running"
  BY DEF SearchState, TypeOK
<1>. QED  BY <1>1, PushKeeps DEF StepOK

LEMMA TypesApart ==
  /\ "anyTree" \notin NodeTypes /\ "anyForest" \notin NodeTypes
  /\ "expansion" \notin IslTypes /\ IslTypes \subseteq NodeTypes
  /\ "anyTree" \notin IslTypes /\ "anyForest" \notin IslTypes
  BY DEF NodeTypes, IslTypes

\* For an ordinary type, to be matched is to fit.
LEMMA OrdinaryFits ==
  ASSUME SearchState, NEW m \in Matcher, NEW n \in Node, Current[m] \in IslTypes
  PROVE  n \in MatchedBy[m] <=>
           Current[m] = Type[n] /\ Allows(m, n, MatchedBy) /\ ChildrenFit(m, n, MatchedBy)
  BY Laid, TypesApart DEF Fits

LEMMA MatchAnyTreeOK == ASSUME SearchState, MatchAnyTree PROVE StepOK /\ N \in MatchedBy[M]
<1>1. stack # << >> /\ Top.fn = "match" /\ Current[M] = "anyTree" /\ Return("yes")
  BY DEF MatchAnyTree, Entering, ReturnMatch
<1>2. N \in MatchedBy[M]
  BY <1>1, TopFacts, Laid DEF Fits
<1>. QED  BY <1>1, <1>2, ReturnIsOK DEF Result, M, N

LEMMA MatchAnyForestOK == ASSUME SearchState, MatchAnyForest PROVE StepOK
<1>1. stack # << >> /\ Top.fn = "match" /\ Current[M] = "anyForest" /\ ~ HasPrevious(N)
      /\ Return("yes")
  BY DEF MatchAnyForest, Entering
<1>2. N \in MatchedBy[M]
  BY <1>1, TopFacts, Laid DEF Fits
<1>. QED  BY <1>1, <1>2, ReturnIsOK DEF Result, M, N

LEMMA GivesUpOK ==
  ASSUME SearchState, DieCombined \/ AbortConversion
  PROVE  StepOK
<1>1. stack' = << >> /\ ret' = ret /\ status' \in {"died", "aborted"}
  BY DEF DieCombined, AbortConversion
<1>2. StackOK(<< >>, ret)
  BY DEF StackOK
<1>. QED  BY <1>1, <1>2 DEF StepOK, SearchState, TypeOK

LEMMA RejectOK ==
  ASSUME SearchState, RejectType \/ RejectByCallback
  PROVE  StepOK
<1>1. stack # << >> /\ Top.fn = "match" /\ Current[M] \in IslTypes /\ Return("no")
  BY DEF RejectType, RejectByCallback, Entering
<1>2. M \in Matcher /\ N \in Node
  BY <1>1, TopFacts
<1>3. N \notin MatchedBy[M]
  <2>1. CASE RejectType
    BY <1>1, <1>2, <2>1, OrdinaryFits DEF RejectType
  <2>2. CASE RejectByCallback
    <3>1. ~ Allows(M, N, MatchedBy)
      BY <2>2 DEF RejectByCallback, Allows, Searches
    <3>. QED  BY <1>1, <1>2, <3>1, OrdinaryFits
  <2>. QED  BY <2>1, <2>2
<1>. QED  BY <1>1, <1>3, ReturnIsOK DEF Result, M, N

LEMMA CallbackRejectsOK == ASSUME SearchState, CallbackRejects PROVE StepOK
<1>1. stack # << >> /\ Top.fn = "match" /\ Top.i = 0 /\ ret = "no" /\ Return("no")
  BY DEF CallbackRejects
<1>2. M \in Matcher /\ N \in Node /\ Learned(Top, "no")
  BY <1>1, TopFacts
<1>3. Current[M] \in IslTypes /\ ~ Allows(M, N, MatchedBy)
  BY <1>1, <1>2 DEF Learned, Asks, Searches, M, N
<1>4. N \notin MatchedBy[M]
  BY <1>2, <1>3, OrdinaryFits
<1>. QED  BY <1>1, <1>4, ReturnIsOK DEF Result, M, N

\* A call that is past its callback is at a node that its matcher allows.
LEMMA AcceptedIsAllowed ==
  ASSUME SearchState, Accepted
  PROVE  /\ stack # << >> /\ Top.fn = "match" /\ Top.i = 0
         /\ M \in Matcher /\ N \in Node
         /\ Current[M] \in IslTypes /\ Current[M] = Type[N] /\ Allows(M, N, MatchedBy)
<1>1. stack # << >> /\ Top.fn = "match" /\ Top.i = 0
  BY DEF Accepted
<1>2. M \in Matcher /\ N \in Node
  BY <1>1, TopFacts
<1>3. CASE ret = "yes"
  <2>1. Learned(Top, "yes")
    BY <1>1, <1>3, TopFacts
  <2>. QED  BY <1>1, <1>2, <2>1 DEF Learned, Asks, Searches, M, N
<1>4. CASE ret # "yes"
  BY <1>1, <1>2, <1>4 DEF Accepted, Entering, Allows
<1>. QED  BY <1>3, <1>4

LEMMA ArityOf ==
  ASSUME SearchState, NEW m \in Matcher, NEW n \in Node
  PROVE  /\ Len(Subs[m]) \in Nat /\ DOMAIN Subs[m] = 1..Len(Subs[m])
         /\ Len(Kids[n]) \in Nat /\ DOMAIN Kids[n] = 1..Len(Kids[n])
         /\ Kids[n] = << >> <=> Len(Kids[n]) = 0
         /\ \A k \in DOMAIN Subs[m] : Subs[m][k] \in Matcher
         /\ \A k \in DOMAIN Kids[n] : Kids[n][k] \in Node
         /\ ChildrenFit(m, n, MatchedBy) => ArityFits(m, n)
<1>1. /\ Len(Subs[m]) \in Nat /\ DOMAIN Subs[m] = 1..Len(Subs[m])
      /\ Kids[n] \in Seq(Node)
      /\ Len(Kids[n]) \in Nat /\ DOMAIN Kids[n] = 1..Len(Kids[n])
      /\ \A k \in DOMAIN Subs[m] : Subs[m][k] \in Matcher
      /\ \A k \in DOMAIN Kids[n] : Kids[n][k] \in Node
  BY Laid, SubsAreMatchers, KidsAreNodes
<1>2. Kids[n] = << >> <=> Len(Kids[n]) = 0
  BY <1>1, EmptySeq
<1>3. ASSUME ChildrenFit(m, n, MatchedBy) PROVE ArityFits(m, n)
  <2>1. CASE OnlyForest(m)
    <3>1. 1 \in DOMAIN Subs[m]
      BY <1>1, <2>1 DEF OnlyForest
    <3>2. 1 \in DOMAIN Kids[n]
      BY <1>3, <3>1 DEF ChildrenFit
    <3>. QED  BY <1>1, <1>2, <2>1, <3>2 DEF ArityFits
  <2>2. CASE ~ OnlyForest(m)
    BY <1>3, <2>2 DEF ChildrenFit, ArityFits
  <2>. QED  BY <2>1, <2>2
<1>. QED  BY <1>1, <1>2, <1>3

LEMMA RejectArityOK == ASSUME SearchState, RejectArity PROVE StepOK
<1>1. Accepted /\ ~ ArityFits(M, N) /\ Return("no")
  BY DEF RejectArity
<1>2. N \notin MatchedBy[M]
  BY <1>1, AcceptedIsAllowed, ArityOf, OrdinaryFits
<1>. QED  BY <1>1, <1>2, AcceptedIsAllowed, ReturnIsOK DEF Result, M, N

LEMMA MatchChildlessOK == ASSUME SearchState, MatchChildless PROVE StepOK /\ N \in MatchedBy[M]
<1>1. Accepted /\ ArityFits(M, N) /\ Kids[N] = << >> /\ Return("yes")
  BY DEF MatchChildless, ReturnMatch
<1>2. M \in Matcher /\ N \in Node
  BY <1>1, AcceptedIsAllowed
<1>3. ChildrenFit(M, N, MatchedBy)
  BY <1>1, <1>2, ArityOf DEF ArityFits, ChildrenFit
<1>4. N \in MatchedBy[M]
  BY <1>1, <1>3, AcceptedIsAllowed, OrdinaryFits
<1>. QED  BY <1>1, <1>4, AcceptedIsAllowed, ReturnIsOK DEF Result, M, N

\* Going to child i, when all the children before it match.
LEMMA DescendOK ==
  ASSUME SearchState, stack # << >>, Top.fn = "match", NEW i \in Nat \ {0}, Descend(i),
         Visits([Top EXCEPT !.i = i])
  PROVE  StepOK
<1>. DEFINE a == [Top EXCEPT !.i = i]
            b == Match(Subs[M][i], Kids[N][i])
<1>1. Top \in Frame /\ M \in Matcher /\ N \in Node
  BY TopFacts
<1>2. a \in Frame /\ a.fn = "match" /\ a.m = M /\ a.n = N /\ a.i = i
  BY <1>1 DEF Frame, M, N
<1>3. a \in JustifiedFrames
  BY <1>2 DEF JustifiedFrames, Searches
<1>4. Subs[M][i] \in Matcher /\ Kids[N][i] \in Node
  BY <1>1, <1>2, ArityOf DEF Visits
<1>5. /\ b \in Frame /\ b.fn = "match" /\ b.i = 0
      /\ b.m = Subs[M][i] /\ b.n = Kids[N][i]
  BY <1>4 DEF Frame, Match
<1>6. b \in JustifiedFrames
  BY <1>5 DEF JustifiedFrames, Searches
<1>7. Push(a, b)
  BY DEF Descend
<1>. HIDE DEF a, b
<1>8. SameCall(a, Top) /\ Calls(a, b) /\ Fresh(b)
  BY <1>2, <1>5 DEF SameCall, Calls, Fresh, M, N
<1>. QED  BY <1>3, <1>6, <1>7, <1>8, PushIsOK

LEMMA FirstChildOK == ASSUME SearchState, FirstChild PROVE StepOK
<1>1. Accepted /\ ArityFits(M, N) /\ Kids[N] # << >> /\ Descend(1)
  BY DEF FirstChild
<1>2. /\ stack # << >> /\ Top.fn = "match" /\ M \in Matcher /\ N \in Node
      /\ Current[M] \in IslTypes /\ Current[M] = Type[N] /\ Allows(M, N, MatchedBy)
  BY <1>1, AcceptedIsAllowed
<1>. DEFINE a == [Top EXCEPT !.i = 1]
<1>3. a.m = M /\ a.n = N /\ a.i = 1
  BY <1>2, TopFacts DEF M, N, Frame
<1>4. 1 \in DOMAIN Kids[N] /\ 1 \in DOMAIN Subs[M]
  BY <1>1, <1>2, ArityOf DEF ArityFits, OnlyForest
<1>. HIDE DEF a
<1>5. Visits(a)
  BY <1>1, <1>2, <1>3, <1>4 DEF Visits
<1>. QED  BY <1>1, <1>2, <1>5, DescendOK DEF a

\* What a call knows when a child has answered.
LEMMA ChildAnswered ==
  ASSUME SearchState, NEW v \in {"yes", "no"}, Answered(v)
  PROVE  /\ stack # << >> /\ Top.fn = "match" /\ M \in Matcher /\ N \in Node
         /\ Top.i \in Nat \ {0} /\ Visits(Top)
         /\ v = "yes" <=> Kids[N][Top.i] \in MatchedBy[Subs[M][Top.i]]
<1>1. stack # << >> /\ ret = v /\ Top.fn = "match" /\ Top.i > 0
  BY DEF Answered
<1>2. M \in Matcher /\ N \in Node /\ Top.i \in Nat /\ Top \in JustifiedFrames /\ Learned(Top, v)
  BY <1>1, TopFacts
<1>3. Visits(Top)
  BY <1>1, <1>2 DEF JustifiedFrames
<1>4. v = "yes" <=> Kids[N][Top.i] \in MatchedBy[Subs[M][Top.i]]
  BY <1>1, <1>2 DEF Learned, Searches, M, N
<1>. QED  BY <1>1, <1>2, <1>3, <1>4

LEMMA ChildRejectsOK == ASSUME SearchState, ChildRejects PROVE StepOK
<1>1. Answered("no") /\ Return("no")
  BY DEF ChildRejects
<1>2. /\ stack # << >> /\ Top.fn = "match" /\ M \in Matcher /\ N \in Node /\ Visits(Top)
      /\ Kids[N][Top.i] \notin MatchedBy[Subs[M][Top.i]]
  BY <1>1, ChildAnswered
<1>3. Current[M] \in IslTypes /\ Top.i \in DOMAIN Subs[M]
  BY <1>2 DEF Visits, M
<1>4. N \notin MatchedBy[M]
  BY <1>2, <1>3, OrdinaryFits DEF ChildrenFit
<1>. QED  BY <1>1, <1>2, <1>4, ReturnIsOK DEF Result, M, N

\* All the children of the matcher have matched.
LEMMA ChildrenMatch ==
  ASSUME SearchState, Answered("yes"), OnlyForest(M) \/ Top.i = Len(Kids[N])
  PROVE  N \in MatchedBy[M]
<1>1. /\ stack # << >> /\ Top.fn = "match" /\ M \in Matcher /\ N \in Node /\ Visits(Top)
      /\ Top.i \in Nat \ {0} /\ Kids[N][Top.i] \in MatchedBy[Subs[M][Top.i]]
  BY ChildAnswered
<1>2. /\ Current[M] \in IslTypes /\ Current[M] = Type[N]
      /\ Allows(M, N, MatchedBy) /\ ArityFits(M, N)
      /\ Top.i \in DOMAIN Kids[N] /\ Top.i \in DOMAIN Subs[M]
      /\ \A k \in 1..(Top.i - 1) : Kids[N][k] \in MatchedBy[Subs[M][k]]
  BY <1>1 DEF Visits, M, N
<1>3. /\ Len(Subs[M]) \in Nat /\ DOMAIN Subs[M] = 1..Len(Subs[M])
      /\ Len(Kids[N]) \in Nat /\ DOMAIN Kids[N] = 1..Len(Kids[N])
  BY <1>1, ArityOf
<1>4. Top.i = Len(Subs[M]) /\ (OnlyForest(M) \/ Len(Kids[N]) = Len(Subs[M]))
  <2>1. CASE OnlyForest(M)
    <3>1. Len(Subs[M]) = 1
      BY <2>1 DEF OnlyForest
    <3>2. Top.i \in 1..1
      BY <1>2, <1>3, <3>1
    <3>. QED  BY <2>1, <3>1, <3>2
  <2>2. CASE ~ OnlyForest(M)
    BY <1>2, <1>3, <2>2 DEF ArityFits
  <2>. QED  BY <2>1, <2>2
<1>5. ASSUME NEW k \in DOMAIN Subs[M]
      PROVE  k \in DOMAIN Kids[N] /\ Kids[N][k] \in MatchedBy[Subs[M][k]]
  <2>1. k = Top.i \/ k \in 1..(Top.i - 1)
    BY <1>1, <1>3, <1>4
  <2>2. k \in DOMAIN Kids[N]
    BY <1>2, <1>3, <2>1
  <2>. QED  BY <1>1, <1>2, <2>1, <2>2
<1>6. ChildrenFit(M, N, MatchedBy)
  BY <1>4, <1>5 DEF ChildrenFit
<1>. QED  BY <1>1, <1>2, <1>6, OrdinaryFits

LEMMA ForestMatchedOK == ASSUME SearchState, ForestMatched PROVE StepOK
<1>1. Answered("yes") /\ OnlyForest(M) /\ Return("yes")
  BY DEF ForestMatched
<1>2. N \in MatchedBy[M]
  BY <1>1, ChildrenMatch
<1>. QED  BY <1>1, <1>2, ChildAnswered, ReturnIsOK DEF Result, M, N

LEMMA ChildrenMatchedOK == ASSUME SearchState, ChildrenMatched PROVE StepOK /\ N \in MatchedBy[M]
<1>1. Answered("yes") /\ Top.i = Len(Kids[N]) /\ Return("yes")
  BY DEF ChildrenMatched, ReturnMatch
<1>2. N \in MatchedBy[M]
  BY <1>1, ChildrenMatch
<1>. QED  BY <1>1, <1>2, ChildAnswered, ReturnIsOK DEF Result, M, N

LEMMA NextChildOK == ASSUME SearchState, NextChild PROVE StepOK
<1>1. Answered("yes") /\ ~ OnlyForest(M) /\ Top.i < Len(Kids[N]) /\ Descend(Top.i + 1)
  BY DEF NextChild
<1>2. /\ stack # << >> /\ Top.fn = "match" /\ M \in Matcher /\ N \in Node /\ Visits(Top)
      /\ Top.i \in Nat \ {0} /\ Kids[N][Top.i] \in MatchedBy[Subs[M][Top.i]]
  BY <1>1, ChildAnswered
<1>3. /\ Current[M] \in IslTypes /\ Current[M] = Type[N]
      /\ Allows(M, N, MatchedBy) /\ ArityFits(M, N)
      /\ \A k \in 1..(Top.i - 1) : Kids[N][k] \in MatchedBy[Subs[M][k]]
  BY <1>2 DEF Visits, M, N
<1>. DEFINE j == Top.i + 1
            a == [Top EXCEPT !.i = j]
<1>4. j \in Nat \ {0} /\ j \in DOMAIN Kids[N] /\ j \in DOMAIN Subs[M]
  BY <1>1, <1>2, <1>3, ArityOf DEF ArityFits
<1>5. \A k \in 1..(j - 1) : Kids[N][k] \in MatchedBy[Subs[M][k]]
  BY <1>2, <1>3
<1>6. a.m = M /\ a.n = N /\ a.i = j
  BY <1>2, TopFacts DEF M, N, Frame
<1>. HIDE DEF a, j
<1>7. Visits(a)
  BY <1>3, <1>4, <1>5, <1>6 DEF Visits
<1>8. Descend(j)
  BY <1>1 DEF j
<1>. QED  BY <1>2, <1>4, <1>7, <1>8, DescendOK DEF a

(* Searches *)

LEMMA SearchFrames ==
  ASSUME SearchState, stack # << >>, Top.fn \in Searches
  PROVE  /\ TreeIsLaidOut /\ M \in Matcher /\ N \in Node /\ MatchedBy[M] \subseteq Node
         /\ Len(stack) > 1 /\ Calls(stack[Len(stack) - 1], Top)
         /\ \E u \in Matcher : Call[u].fn \in Searches /\ Call[u].sub = M
         /\ Top.i = Start(Top) \/ Top.i \in Tried(Top)
<1>1. Top.fn # "match"
  BY DEF Searches
<1>2. Len(stack) \in Nat \ {0} /\ Len(stack) # 1
  BY <1>1, TopFacts
<1>3. Seeks(Top)
  BY TopFacts DEF JustifiedFrames
<1>4. Len(stack) > 1
  <2>. DEFINE d == Len(stack)
  <2>1. d \in Nat /\ d # 0 /\ d # 1
    BY <1>2
  <2>. HIDE DEF d
  <2>2. d > 1
    BY <2>1
  <2>. QED  BY <2>2 DEF d
<1>5. TreeIsLaidOut /\ M \in Matcher /\ N \in Node /\ MatchedBy[M] \subseteq Node
  BY TopFacts, Laid
<1>. QED  BY <1>3, <1>4, <1>5, TopFacts DEF Seeks, M

\* The next candidate is one the search may go to, and leaves out none that
\* matches.
LEMMA TryOK ==
  ASSUME SearchState, stack # << >>, Top.fn \in Searches, NEW n \in Node, Try(n),
         n \in Tried(Top),
         \A k \in MatchedBy[M] : ~ Passed([Top EXCEPT !.i = n], k)
  PROVE  StepOK
<1>. DEFINE a == [Top EXCEPT !.i = n]
            b == Match(M, n)
<1>1. Top \in Frame /\ M \in Matcher /\ N \in Node /\ n \in Nat
  BY TopFacts, SearchFrames DEF TreeIsLaidOut
<1>2. a \in Frame /\ a.fn = Top.fn /\ a.m = M /\ a.n = N /\ a.i = n
  BY <1>1 DEF Frame, M, N
<1>3. a.fn \in Searches /\ a.fn # "match" /\ a.i \in Tried(a)
  BY <1>2 DEF Tried, Searches, N
<1>4. \A k \in MatchedBy[a.m] : ~ Passed(a, k)
  BY <1>2
<1>. HIDE DEF a
<1>5. Seeks(a)
  BY <1>2, <1>3, <1>4, SearchFrames DEF Seeks
<1>6. a \in JustifiedFrames
  BY <1>2, <1>3, <1>5 DEF JustifiedFrames
<1>7. b \in Frame /\ b.fn = "match" /\ b.i = 0 /\ b.m = M /\ b.n = n
  BY <1>1 DEF Frame, Match
<1>8. b \in JustifiedFrames
  BY <1>7 DEF JustifiedFrames, Searches
<1>9. Push(a, b)
  BY DEF Try, a
<1>. HIDE DEF b
<1>10. SameCall(a, Top) /\ Calls(a, b) /\ Fresh(b)
  BY <1>2, <1>3, <1>7 DEF SameCall, Calls, Fresh, M, N
<1>. QED  BY <1>6, <1>8, <1>9, <1>10, PushIsOK

LEMMA TryPreviousOK == ASSUME SearchState, TryPrevious PROVE StepOK
<1>1. /\ stack # << >> /\ ret # "yes" /\ Top.fn \in {"previous", "sibling"}
      /\ HasPrevious(Top.i) /\ Try(Siblings(N)[Place(Top.i) - 1])
  BY DEF TryPrevious, Searching
<1>. DEFINE n == Siblings(N)[Place(Top.i) - 1]
            i == Top.i
<1>2. /\ Top.fn \in Searches /\ TreeIsLaidOut /\ N \in Node
      /\ i = Start(Top) \/ i \in Tried(Top)
      /\ MatchedBy[M] \subseteq Node
  BY <1>1, SearchFrames DEF Searches
<1>3. Start(Top) = N /\ Tried(Top) = Related("previous", N)
  BY <1>1 DEF Start, Tried, N
<1>4. i \in Node /\ Siblings(i) = Siblings(N) /\ Place(i) <= Place(N)
  BY <1>2, <1>3, RowOf
<1>5. Place(i) \in Nat /\ Place(i) > 1 /\ Place(N) \in 1..Len(Siblings(N)) /\ Len(Siblings(N)) \in Nat
  BY <1>1, <1>2, <1>4, RowOf, SiblingsOfNode DEF HasPrevious
<1>6. n \in Node /\ Siblings(n) = Siblings(N) /\ Place(n) = Place(i) - 1
  <2>1. Place(i) - 1 \in 1..Len(Siblings(N))
    BY <1>4, <1>5
  <2>. QED  BY <1>2, <2>1, SiblingsOfNode
<1>. HIDE DEF n, i
<1>7. n \in Related("previous", N)
  BY <1>2, <1>4, <1>5, <1>6, RowOf
<1>8. ASSUME NEW k \in MatchedBy[M], k \in Related("previous", N), Place(k) > Place(n)
      PROVE  FALSE
  <2>1. k \in Node /\ Siblings(k) = Siblings(N) /\ Place(k) < Place(N) /\ Place(k) \in Nat
    BY <1>2, <1>8, RowOf
  <2>2. CASE Place(k) > Place(i)
    <3>1. Passed(Top, k)
      BY <1>1, <1>8, <2>2 DEF Passed, N, i
    <3>. QED  BY <1>1, <1>2, <1>8, <3>1, SearchedInVain
  <2>3. CASE Place(k) = Place(i)
    <3>1. k = i
      BY <1>2, <1>4, <2>1, <2>3, RowOf
    <3>2. i # N
      BY <1>5, <2>1, <3>1
    <3>. QED  BY <1>1, <1>2, <1>3, <1>8, <3>1, <3>2, SearchedInVain DEF i
  <2>. QED  BY <1>5, <1>6, <1>8, <2>1, <2>2, <2>3
<1>9. ASSUME NEW k \in MatchedBy[M] PROVE ~ Passed([Top EXCEPT !.i = n], k)
  <2>1. Top \in Frame
    BY <1>1, TopFacts
  <2>. DEFINE a == [Top EXCEPT !.i = n]
  <2>2. a.fn \in {"previous", "sibling"} /\ a.n = N /\ a.i = n
    BY <1>1, <2>1 DEF Frame, N
  <2>. HIDE DEF a
  <2>3. ~ Passed(a, k)
    BY <1>8, <2>2 DEF Passed
  <2>. QED  BY <2>3 DEF a
<1>. QED  BY <1>1, <1>2, <1>3, <1>6, <1>7, <1>9, TryOK DEF n, i

LEMMA TryNextOK == ASSUME SearchState, TryNext PROVE StepOK
<1>1. /\ stack # << >> /\ ret # "yes" /\ Top.fn = "next"
      /\ HasNext(Top.i) /\ Try(Siblings(N)[Place(Top.i) + 1])
  BY DEF TryNext, Searching
<1>. DEFINE n == Siblings(N)[Place(Top.i) + 1]
            i == Top.i
<1>2. /\ Top.fn \in Searches /\ TreeIsLaidOut /\ N \in Node
      /\ i = Start(Top) \/ i \in Tried(Top)
      /\ MatchedBy[M] \subseteq Node
  BY <1>1, SearchFrames DEF Searches
<1>3. Start(Top) = N /\ Tried(Top) = Related("next", N)
  BY <1>1 DEF Start, Tried, N
<1>4. i \in Node /\ Siblings(i) = Siblings(N) /\ Place(i) >= Place(N)
  BY <1>2, <1>3, RowOf
<1>5. /\ Place(i) \in Nat /\ Len(Siblings(N)) \in Nat /\ Place(i) < Len(Siblings(N))
      /\ Place(N) \in Nat \ {0}
  BY <1>1, <1>2, <1>4, RowOf, SiblingsOfNode DEF HasNext
<1>6. n \in Node /\ Siblings(n) = Siblings(N) /\ Place(n) = Place(i) + 1
  <2>1. Place(i) + 1 \in 1..Len(Siblings(N))
    BY <1>4, <1>5
  <2>. QED  BY <1>2, <2>1, SiblingsOfNode
<1>. HIDE DEF n, i
<1>7. n \in Related("next", N)
  BY <1>2, <1>4, <1>5, <1>6, RowOf
<1>8. ASSUME NEW k \in MatchedBy[M], k \in Related("next", N), Place(k) < Place(n)
      PROVE  FALSE
  <2>1. k \in Node /\ Siblings(k) = Siblings(N) /\ Place(k) > Place(N) /\ Place(k) \in Nat
    BY <1>2, <1>8, RowOf
  <2>2. CASE Place(k) < Place(i)
    <3>1. Passed(Top, k)
      BY <1>1, <1>8, <2>2 DEF Passed, N, i
    <3>. QED  BY <1>1, <1>2, <1>8, <3>1, SearchedInVain
  <2>3. CASE Place(k) = Place(i)
    <3>1. k = i
      BY <1>2, <1>4, <2>1, <2>3, RowOf
    <3>2. i # N
      BY <1>5, <2>1, <3>1
    <3>. QED  BY <1>1, <1>2, <1>3, <1>8, <3>1, <3>2, SearchedInVain DEF i
  <2>. QED  BY <1>5, <1>6, <1>8, <2>1, <2>2, <2>3
<1>9. ASSUME NEW k \in MatchedBy[M] PROVE ~ Passed([Top EXCEPT !.i = n], k)
  <2>1. Top \in Frame
    BY <1>1, TopFacts
  <2>. DEFINE a == [Top EXCEPT !.i = n]
  <2>2. a.fn = "next" /\ a.n = N /\ a.i = n
    BY <1>1, <2>1 DEF Frame, N
  <2>. HIDE DEF a
  <2>3. ~ Passed(a, k)
    BY <1>8, <2>2 DEF Passed
  <2>. QED  BY <2>3 DEF a
<1>. QED  BY <1>1, <1>2, <1>3, <1>6, <1>7, <1>9, TryOK DEF n, i

LEMMA TryDescendantOK == ASSUME SearchState, TryDescendant PROVE StepOK
<1>1. /\ stack # << >> /\ ret # "yes" /\ Top.fn = "descendant"
      /\ Top.i + 1 \in Descendants(N) /\ Try(Top.i + 1)
  BY DEF TryDescendant, Searching
<1>. DEFINE i == Top.i
            n == Top.i + 1
<1>2. /\ Top.fn \in Searches /\ TreeIsLaidOut /\ N \in Node /\ N \in Nat
      /\ i = Start(Top) \/ i \in Tried(Top)
      /\ Node \subseteq Nat /\ i \in Nat
  <2>1. Top.fn \in Searches
    BY <1>1 DEF Searches
  <2>2. TreeIsLaidOut /\ N \in Node /\ (i = Start(Top) \/ i \in Tried(Top)) /\ i \in Nat
    BY <1>1, <2>1, SearchFrames, TopFacts
  <2>3. Node \subseteq Nat
    BY <2>2 DEF TreeIsLaidOut
  <2>. QED  BY <2>1, <2>2, <2>3
<1>3. Start(Top) = N - 1 /\ Tried(Top) = Descendants(N)
  BY <1>1, RelatedNodes DEF Start, Tried, N
<1>4. n \in Node /\ n \in Tried(Top)
  BY <1>1, <1>2, <1>3, DescendantsFollow
<1>. HIDE DEF n
<1>5. ASSUME NEW k \in MatchedBy[M], k \in Related("descendant", N), k < n
      PROVE  FALSE
  <2>1. k \in Nat /\ N <= k
    BY <1>2, <1>5, RelatedNodes, DescendantsFollow
  <2>2. CASE k < i
    <3>1. Passed(Top, k)
      BY <1>1, <1>5, <2>2 DEF Passed, N
    <3>. QED  BY <1>1, <1>2, <1>5, <3>1, SearchedInVain
  <2>3. CASE k = i
    <3>1. i # Start(Top)
      BY <1>2, <1>3, <2>1, <2>3
    <3>. QED  BY <1>1, <1>2, <1>5, <2>3, <3>1, SearchedInVain
  <2>. QED  BY <1>2, <1>5, <2>1, <2>2, <2>3 DEF n
<1>6. ASSUME NEW k \in MatchedBy[M] PROVE ~ Passed([Top EXCEPT !.i = n], k)
  <2>1. Top \in Frame
    BY <1>1, TopFacts
  <2>. DEFINE a == [Top EXCEPT !.i = n]
  <2>2. a.fn = "descendant" /\ a.n = N /\ a.i = n
    BY <1>1, <2>1 DEF Frame, N
  <2>. HIDE DEF a
  <2>3. ~ Passed(a, k)
    BY <1>5, <2>2 DEF Passed
  <2>. QED  BY <2>3 DEF a
<1>. QED  BY <1>1, <1>2, <1>4, <1>6, TryOK DEF n

\* None of the previous siblings, next siblings or descendants matches.
LEMMA NonePrevious ==
  ASSUME SearchState, stack # << >>, ret # "yes", Top.fn \in {"previous", "sibling"},
         ~ HasPrevious(Top.i)
  PROVE  Related("previous", N) \cap MatchedBy[M] = {}
<1>. DEFINE i == Top.i
<1>1. /\ Top.fn \in Searches /\ TreeIsLaidOut /\ N \in Node
      /\ i = Start(Top) \/ i \in Tried(Top)
      /\ MatchedBy[M] \subseteq Node
  BY SearchFrames DEF Searches
<1>2. Start(Top) = N /\ Tried(Top) = Related("previous", N)
  BY DEF Start, Tried, N
<1>3. i \in Node /\ Siblings(i) = Siblings(N)
  BY <1>1, <1>2, RowOf
<1>4. Place(i) = 1
  BY <1>1, <1>3, RowOf DEF HasPrevious
<1>5. ASSUME NEW k \in MatchedBy[M], k \in Related("previous", N) PROVE FALSE
  <2>1. k \in Node /\ Siblings(k) = Siblings(N) /\ Place(k) < Place(N)
        /\ Place(k) \in Nat \ {0}
    BY <1>1, <1>5, RowOf
  <2>2. CASE Place(k) > 1
    <3>1. Passed(Top, k)
      BY <1>4, <1>5, <2>2 DEF Passed, N
    <3>. QED  BY <1>1, <1>5, <3>1, SearchedInVain
  <2>3. CASE Place(k) = 1
    <3>1. k = i
      BY <1>1, <1>3, <1>4, <2>1, <2>3, RowOf
    <3>2. i # N
      BY <1>1, <1>4, <2>1, <3>1, RowOf
    <3>. QED  BY <1>1, <1>2, <1>5, <3>1, <3>2, SearchedInVain
  <2>. QED  BY <2>1, <2>2, <2>3
<1>. QED  BY <1>5

LEMMA NoneNext ==
  ASSUME SearchState, stack # << >>, ret # "yes", Top.fn = "next", ~ HasNext(Top.i)
  PROVE  Related("next", N) \cap MatchedBy[M] = {}
<1>. DEFINE i == Top.i
<1>1. /\ Top.fn \in Searches /\ TreeIsLaidOut /\ N \in Node
      /\ i = Start(Top) \/ i \in Tried(Top)
      /\ MatchedBy[M] \subseteq Node
  BY SearchFrames DEF Searches
<1>2. Start(Top) = N /\ Tried(Top) = Related("next", N)
  BY DEF Start, Tried, N
<1>3. i \in Node /\ Siblings(i) = Siblings(N)
  BY <1>1, <1>2, RowOf
<1>4. Place(i) = Len(Siblings(N)) /\ Len(Siblings(N)) \in Nat
  <2>1. Place(i) \in 1..Len(Siblings(N)) /\ Len(Siblings(N)) \in Nat
    BY <1>1, <1>3, SiblingsOfNode
  <2>2. ~ (Place(i) < Len(Siblings(N)))
    BY <1>3 DEF HasNext
  <2>. QED  BY <2>1, <2>2
<1>5. ASSUME NEW k \in MatchedBy[M], k \in Related("next", N) PROVE FALSE
  <2>1. k \in Node /\ Siblings(k) = Siblings(N) /\ Place(k) > Place(N)
    BY <1>1, <1>5, RowOf
  <2>2. Place(k) \in 1..Len(Siblings(N)) /\ Place(N) \in Nat
    BY <1>1, <2>1, SiblingsOfNode
  <2>3. CASE Place(k) < Place(i)
    <3>1. Passed(Top, k)
      BY <1>5, <2>3 DEF Passed, N
    <3>. QED  BY <1>1, <1>5, <3>1, SearchedInVain
  <2>4. CASE Place(k) = Place(i)
    <3>1. k = i
      BY <1>1, <1>3, <2>1, <2>4, RowOf
    <3>2. i # N
      BY <2>1, <2>2, <3>1
    <3>. QED  BY <1>1, <1>2, <1>5, <3>1, <3>2, SearchedInVain
  <2>. QED  BY <1>4, <2>2, <2>3, <2>4
<1>. QED  BY <1>5

LEMMA NoneDescends ==
  ASSUME SearchState, stack # << >>, ret # "yes", Top.fn = "descendant",
         Top.i + 1 \notin Descendants(N)
  PROVE  Related("descendant", N) \cap MatchedBy[M] = {}
<1>. DEFINE i == Top.i
<1>1. /\ Top.fn \in Searches /\ TreeIsLaidOut /\ N \in Node /\ N \in Nat
      /\ i = Start(Top) \/ i \in Tried(Top)
      /\ Node \subseteq Nat /\ i \in Nat
  <2>1. Top.fn \in Searches
    BY DEF Searches
  <2>2. TreeIsLaidOut /\ N \in Node /\ (i = Start(Top) \/ i \in Tried(Top)) /\ i \in Nat
    BY <2>1, SearchFrames, TopFacts
  <2>3. Node \subseteq Nat
    BY <2>2 DEF TreeIsLaidOut
  <2>. QED  BY <2>1, <2>2, <2>3
<1>2. Start(Top) = N - 1 /\ Tried(Top) = Descendants(N)
  BY RelatedNodes DEF Start, Tried, N
<1>3. i \in Descendants(N)
  <2>1. N \in Descendants(N)
    BY <1>1, DescendantsFollow
  <2>. QED  BY <1>1, <1>2, <2>1
<1>4. ASSUME NEW k \in Descendants(N), k > i PROVE FALSE
  <2>. DEFINE Beyond == {d \in Descendants(N) : d > i}
  <2>1. Beyond \subseteq Nat /\ N <= i
    BY <1>1, <1>3, DescendantsFollow
  <2>. HIDE DEF Beyond
  <2>2. Beyond # {}
    BY <1>4 DEF Beyond
  <2>3. PICK d \in Beyond : \A e \in Beyond : d <= e
    BY <2>1, <2>2, LeastElement
  <2>4. d \in Descendants(N) /\ d > i /\ d \in Nat
    BY <2>1, <2>3 DEF Beyond
  <2>5. d - 1 \in Descendants(N)
    BY <1>1, <2>1, <2>4, DescendantsFollow
  <2>6. d - 1 \notin Beyond
    BY <2>1, <2>3, <2>4
  <2>7. d - 1 <= i
    BY <1>1, <2>4, <2>5, <2>6 DEF Beyond
  <2>8. d = i + 1
    BY <1>1, <2>4, <2>7
  <2>. QED  BY <2>4, <2>8
<1>5. ASSUME NEW k \in MatchedBy[M], k \in Descendants(N) PROVE FALSE
  <2>1. k \in Nat /\ k <= i
    <3>1. k \in Nat
      BY <1>1, <1>5, DescendantsFollow
    <3>. QED  BY <1>1, <1>4, <1>5, <3>1
  <2>2. CASE k < i
    <3>1. Passed(Top, k)
      BY <1>5, <2>2, RelatedNodes DEF Passed, N
    <3>. QED  BY <1>1, <1>5, <3>1, SearchedInVain
  <2>3. CASE k = i
    <3>1. i # Start(Top)
      BY <1>1, <1>2, <1>3, DescendantsFollow
    <3>. QED  BY <1>1, <1>5, <2>3, <3>1, SearchedInVain
  <2>. QED  BY <1>1, <2>1, <2>2, <2>3
<1>. QED  BY <1>5, RelatedNodes

LEMMA SearchFailsOK == ASSUME SearchState, SearchFails PROVE StepOK
<1>1. stack # << >> /\ ret # "yes" /\ Return("no")
      /\ \/ Top.fn = "previous" /\ ~ HasPrevious(Top.i)
         \/ Top.fn = "next" /\ ~ HasNext(Top.i)
         \/ Top.fn = "descendant" /\ Top.i + 1 \notin Descendants(N)
  BY DEF SearchFails, Searching
<1>2. Related(Top.fn, N) \cap MatchedBy[M] = {}
  BY <1>1, NonePrevious, NoneNext, NoneDescends
<1>. QED  BY <1>1, <1>2, ReturnIsOK DEF Result, M, N

LEMMA SearchSucceedsOK == ASSUME SearchState, SearchSucceeds PROVE StepOK
<1>1. stack # << >> /\ ret = "yes" /\ Top.fn \in Searches /\ Return("yes")
  BY DEF SearchSucceeds
<1>2. Learned(Top, "yes")
  BY <1>1, TopFacts
<1>3. Top.i \in Tried(Top) /\ Top.i \in MatchedBy[M]
  BY <1>1, <1>2 DEF Learned, Searches, M
<1>4. Tried(Top) \subseteq Related(Top.fn, N)
  BY RelatedNodes DEF Tried, N
<1>. QED  BY <1>1, <1>3, <1>4, ReturnIsOK DEF Result, Searches, M, N

\* A search for the matcher of a callback, started beside its first candidate.
LEMMA SearchStarts ==
  ASSUME SearchState, NEW fn \in Searches, NEW n \in Node, NEW m \in Matcher,
         \E u \in Matcher : Call[u].fn \in Searches /\ Call[u].sub = m,
         NEW b \in Frame, b.fn = fn, b.m = m, b.n = n, b.i = Start(b)
  PROVE  b \in JustifiedFrames /\ Fresh(b)
<1>1. b.fn # "match"
  BY DEF Searches
<1>2. TreeIsLaidOut /\ n \in Nat
  <2>1. TreeIsLaidOut
    BY Laid
  <2>2. n \in Nat
    BY <2>1 DEF TreeIsLaidOut
  <2>. QED  BY <2>1, <2>2
<1>3. ASSUME NEW k, Passed(b, k) PROVE FALSE
  <2>1. CASE fn \in {"previous", "sibling"}
    <3>1. k \in Related("previous", n) /\ Place(k) > Place(n)
      BY <1>3, <2>1 DEF Passed, Start
    <3>2. k \in Node /\ Place(k) < Place(n)
      BY <1>2, <3>1, RowOf
    <3>3. Place(k) \in Nat /\ Place(n) \in Nat
      BY <1>2, <3>2, RowOf
    <3>. QED  BY <3>1, <3>2, <3>3
  <2>2. CASE fn = "next"
    <3>1. k \in Related("next", n) /\ Place(k) < Place(n)
      BY <1>3, <2>2 DEF Passed, Start
    <3>2. k \in Node /\ Place(k) > Place(n)
      BY <1>2, <3>1, RowOf
    <3>3. Place(k) \in Nat /\ Place(n) \in Nat
      BY <1>2, <3>2, RowOf
    <3>. QED  BY <3>1, <3>2, <3>3
  <2>3. CASE fn = "descendant"
    <3>1. k \in Descendants(n) /\ k < n - 1
      BY <1>3, <2>3, RelatedNodes DEF Passed, Start
    <3>2. k \in Node /\ n <= k
      BY <1>2, <3>1, DescendantsFollow
    <3>3. k \in Nat
      BY <1>2, <3>2 DEF TreeIsLaidOut
    <3>. QED  BY <1>2, <3>1, <3>2, <3>3
  <2>. QED  BY <2>1, <2>2, <2>3 DEF Searches
<1>4. Seeks(b)
  BY <1>3 DEF Seeks
<1>. QED  BY <1>1, <1>4 DEF JustifiedFrames, Fresh

LEMMA StartCallbackOK == ASSUME SearchState, StartCallback PROVE StepOK
<1>1. /\ stack # << >> /\ ret = "none" /\ Top.fn = "match" /\ Top.i = 0
      /\ Current[M] \in IslTypes /\ Current[M] = Type[N] /\ Call[M].fn \in Searches
      /\ Push(Top, Search(M, N))
  BY DEF StartCallback, Entering
<1>2. Top \in Frame /\ Top \in JustifiedFrames /\ M \in Matcher /\ N \in Node /\ N \in Nat \ {0}
  BY <1>1, TopFacts, Laid DEF TreeIsLaidOut
<1>3. Call[M].sub \in Matcher
  BY <1>1, <1>2, Laid DEF MatchersAreLaidOut
<1>. DEFINE b == Search(M, N)
<1>4. /\ b \in Frame /\ b.fn = Call[M].fn /\ b.m = Call[M].sub /\ b.n = N
      /\ b.i = Start(b)
  BY <1>1, <1>2, <1>3 DEF Search, Frame, Start
<1>. HIDE DEF b
<1>5. b \in JustifiedFrames /\ Fresh(b)
  BY <1>1, <1>2, <1>3, <1>4, SearchStarts
<1>6. Calls(Top, b)
  BY <1>1, <1>4 DEF Calls, Asks, M, N
<1>. QED  BY <1>1, <1>2, <1>5, <1>6, PushIsOK DEF SameCall, b

LEMMA TurnToNextOK == ASSUME SearchState, TurnToNext PROVE StepOK
<1>1. /\ stack # << >> /\ ret # "yes" /\ Top.fn = "sibling" /\ ~ HasPrevious(Top.i)
      /\ stack' = Append(Front(stack), [Top EXCEPT !.fn = "next", !.i = N])
      /\ ret' = "none" /\ status' = status
  BY DEF TurnToNext, Searching
<1>. DEFINE b == [Top EXCEPT !.fn = "next", !.i = N]
            c == stack[Len(stack) - 1]
<1>2. Top.fn \in Searches
  BY <1>1 DEF Searches
<1>3. /\ TreeIsLaidOut /\ M \in Matcher /\ N \in Node /\ Len(stack) > 1 /\ Calls(c, Top)
      /\ \E u \in Matcher : Call[u].fn \in Searches /\ Call[u].sub = M
  BY <1>1, <1>2, SearchFrames
<1>4. Top \in Frame /\ N \in Nat
  BY <1>1, <1>3, TopFacts DEF TreeIsLaidOut
<1>5. /\ b \in Frame /\ b.fn = "next" /\ b.m = M /\ b.n = N /\ b.i = N
      /\ b.fn \in Searches
  BY <1>3, <1>4 DEF Frame, M, N, Searches
<1>6. stack' = Append(Front(stack), b)
  BY <1>1
<1>. HIDE DEF b, c
<1>7. b \in JustifiedFrames /\ Fresh(b)
  <2>1. b.i = Start(b)
    BY <1>5 DEF Start
  <2>. QED  BY <1>3, <1>5, <2>1, SearchStarts
<1>8. Related("previous", N) \cap MatchedBy[M] = {}
  BY <1>1, NonePrevious
<1>9. Calls(c, b)
  <2>1. /\ c.fn = "match" /\ c.i = 0 /\ Asks(c)
        /\ M = Call[c.m].sub /\ N = c.n /\ Call[c.m].fn = "sibling"
    BY <1>1, <1>3 DEF Calls, Searches, M, N
  <2>. QED  BY <1>5, <1>8, <2>1 DEF Calls
<1>10. StackOK(stack', ret') /\ stack' # << >>
  BY <1>1, <1>3, <1>6, <1>7, <1>9, ReplaceKeeps DEF c
<1>11. status = "running"
  BY <1>1 DEF SearchState, TypeOK
<1>. QED  BY <1>1, <1>10, <1>11 DEF StepOK

\* Every step but those that give up leaves the stack in order with the right
\* answers.
LEMMA StepIsOK ==
  ASSUME SearchState, Next
  PROVE  StepOK
<1>1. CASE MatchAnyTree  BY <1>1, MatchAnyTreeOK
<1>2. CASE MatchAnyForest  BY <1>2, MatchAnyForestOK
<1>3. CASE DieCombined \/ AbortConversion  BY <1>3, GivesUpOK
<1>4. CASE RejectType \/ RejectByCallback  BY <1>4, RejectOK
<1>5. CASE StartCallback  BY <1>5, StartCallbackOK
<1>6. CASE CallbackRejects  BY <1>6, CallbackRejectsOK
<1>7. CASE RejectArity  BY <1>7, RejectArityOK
<1>8. CASE MatchChildless  BY <1>8, MatchChildlessOK
<1>9. CASE FirstChild  BY <1>9, FirstChildOK
<1>10. CASE ChildRejects  BY <1>10, ChildRejectsOK
<1>11. CASE ForestMatched  BY <1>11, ForestMatchedOK
<1>12. CASE NextChild  BY <1>12, NextChildOK
<1>13. CASE ChildrenMatched  BY <1>13, ChildrenMatchedOK
<1>14. CASE TryPrevious  BY <1>14, TryPreviousOK
<1>15. CASE TryNext  BY <1>15, TryNextOK
<1>16. CASE TryDescendant  BY <1>16, TryDescendantOK
<1>17. CASE TurnToNext  BY <1>17, TurnToNextOK
<1>18. CASE SearchFails  BY <1>18, SearchFailsOK
<1>19. CASE SearchSucceeds  BY <1>19, SearchSucceedsOK
<1>. QED
  BY <1>1, <1>2, <1>3, <1>4, <1>5, <1>6, <1>7, <1>8, <1>9, <1>10, <1>11, <1>12,
     <1>13, <1>14, <1>15, <1>16, <1>17, <1>18, <1>19 DEF Next

\* What a step writes into the captures.
LEMMA CapturesStep ==
  ASSUME SearchState, Next
  PROVE  /\ problem' = problem
         /\ \/ captures' = captures
            \/ /\ M \in Matcher /\ N \in MatchedBy[M] /\ N \in Node
               /\ captures' = [captures EXCEPT ![M] = N]
         /\ \/ forest' = forest
            \/ M \in Matcher /\ N \in Node /\ forest' = [forest EXCEPT ![M] = Siblings(N)]
<1>1. CASE MatchAnyTree
  <2>1. stack # << >> /\ captures' = [captures EXCEPT ![M] = N] /\ forest' = forest
        /\ problem' = problem
    BY <1>1 DEF MatchAnyTree, Entering, ReturnMatch
  <2>. QED  BY <1>1, <2>1, MatchAnyTreeOK, TopFacts
<1>2. CASE MatchAnyForest
  <2>1. stack # << >> /\ captures' = captures /\ forest' = [forest EXCEPT ![M] = Siblings(N)]
        /\ problem' = problem
    BY <1>2 DEF MatchAnyForest, Entering
  <2>. QED  BY <2>1, TopFacts
<1>3. CASE MatchChildless
  <2>1. stack # << >> /\ captures' = [captures EXCEPT ![M] = N] /\ forest' = forest
        /\ problem' = problem
    BY <1>3 DEF MatchChildless, Accepted, ReturnMatch
  <2>. QED  BY <1>3, <2>1, MatchChildlessOK, TopFacts
<1>4. CASE ChildrenMatched
  <2>1. stack # << >> /\ captures' = [captures EXCEPT ![M] = N] /\ forest' = forest
        /\ problem' = problem
    BY <1>4 DEF ChildrenMatched, Answered, ReturnMatch
  <2>. QED  BY <1>4, <2>1, ChildrenMatchedOK, TopFacts
<1>5. CASE ~ (MatchAnyTree \/ MatchAnyForest \/ MatchChildless \/ ChildrenMatched)
  <2>1. problem' = problem /\ captures' = captures /\ forest' = forest
    BY <1>5 DEF Next, DieCombined, AbortConversion, RejectType, RejectByCallback,
       StartCallback, CallbackRejects, RejectArity, FirstChild, ChildRejects,
       ForestMatched, NextChild, TryPrevious, TryNext, TryDescendant, TurnToNext,
       SearchFails, SearchSucceeds
  <2>. QED  BY <2>1
<1>. QED  BY <1>1, <1>2, <1>3, <1>4, <1>5

LEMMA SearchStateStep ==
  ASSUME SearchState, [Next]_vars
  PROVE  SearchState'
<1>1. CASE Next
  <2>1. StepOK /\ problem' = problem
    BY <1>1, StepIsOK, CapturesStep
  <2>2. /\ Frame' = Frame /\ JustifiedFrames' = JustifiedFrames
        /\ CallPairs' = CallPairs /\ Answers' = Answers
    BY <2>1, FramesAreFixed
  <2>3. StackOK(stack, ret)'
    BY <2>1, <2>2 DEF StackOK, StepOK, Fresh, Start
  <2>4. Matcher' = Matcher /\ Node' = Node
    BY <2>1 DEF Matcher, Node, Subs, Kids
  <2>5. captures' \in [Matcher -> Node \cup {Nil}] /\ forest' \in [Matcher -> Seq(Node)]
    <3>1. captures \in [Matcher -> Node \cup {Nil}] /\ forest \in [Matcher -> Seq(Node)]
      BY DEF SearchState, TypeOK
    <3>2. \A n \in Node : Siblings(n) \in Seq(Node)
      BY Laid, SiblingsOfNode
    <3>. QED  BY <1>1, <3>1, <3>2, CapturesStep
  <2>6. TypeOK'
    BY <2>1, <2>2, <2>4, <2>5 DEF TypeOK, StepOK, StackOK
  <2>. QED  BY <2>1, <2>3, <2>6 DEF SearchState
<1>2. CASE UNCHANGED vars
  <2>1. problem' = problem /\ stack' = stack /\ ret' = ret
        /\ status' = status /\ captures' = captures /\ forest' = forest
    BY <1>2 DEF vars
  <2>2. /\ Frame' = Frame /\ JustifiedFrames' = JustifiedFrames
        /\ CallPairs' = CallPairs /\ Answers' = Answers
    BY <2>1, FramesAreFixed
  <2>3. Matcher' = Matcher /\ Node' = Node
    BY <2>1 DEF Matcher, Node, Subs, Kids
  <2>4. StackOK(stack, ret)'
    BY <2>1, <2>2 DEF SearchState, StackOK, Fresh, Start
  <2>5. TypeOK'
    BY <2>1, <2>2, <2>3 DEF SearchState, TypeOK
  <2>. QED  BY <2>1, <2>4, <2>5 DEF SearchState
<1>. QED  BY <1>1, <1>2
-----------------------------------------------------------------------------
(* The theorems *)

LEMMA SearchStateHolds == Spec => [](SearchState)
<1>1. Init => SearchState
  <2>. SUFFICES ASSUME Init PROVE SearchState
    OBVIOUS
  <2>1. TreeIsLaidOut /\ MatchersAreLaidOut
    BY TreeLaidOut, MatchersLaidOut DEF Init
  <2>. DEFINE a == Match(1, problem.node)
  <2>2. a \in Frame /\ a.fn = "match" /\ a.i = 0 /\ a.m = 1 /\ a.n = problem.node
    BY <2>1 DEF Match, Frame, TreeIsLaidOut, MatchersAreLaidOut
  <2>3. a \in JustifiedFrames
    BY <2>2 DEF JustifiedFrames, Searches
  <2>4. stack = <<a>> /\ ret = "none"
    BY DEF Init
  <2>. HIDE DEF a
  <2>5. StackOK(stack, ret)
    BY <2>2, <2>3, <2>4 DEF StackOK, Fresh
  <2>6. TypeOK
    BY <2>2, <2>4 DEF Init, TypeOK
  <2>. QED  BY <2>5, <2>6 DEF SearchState, Init
<1>. QED  BY <1>1, SearchStateStep, PTL DEF Spec

\* The types of the variables: in particular no call looks for a child or a
\* sibling that is not there, and the calls end exactly when a verdict is given.
THEOREM TypeCorrect == Spec => []TypeOK
<1>1. SearchState => TypeOK
  BY DEF SearchState
<1>. QED  BY <1>1, SearchStateHolds, PTL

\* isMatching answers true exactly for the nodes that its matcher matches in
\* the sense of MatchedBy, for every tree, every matcher and every nesting of
\* callbacks.
THEOREM VerdictIsRight == Spec => []VerdictIsStructural
<1>1. Init => VerdictIsStructural
  BY DEF Init, VerdictIsStructural
<1>2. SearchState /\ VerdictIsStructural /\ [Next]_vars => VerdictIsStructural'
  <2>. SUFFICES ASSUME SearchState, VerdictIsStructural, [Next]_vars
                PROVE  VerdictIsStructural'
    OBVIOUS
  <2>1. CASE Next
    <3>1. StepOK /\ problem' = problem
      BY <2>1, StepIsOK, CapturesStep
    <3>2. MatchedBy' = MatchedBy
      BY <3>1, MatchedByIsFixed
    <3>. QED  BY <3>1, <3>2 DEF VerdictIsStructural, StepOK
  <2>2. CASE UNCHANGED vars
    <3>1. problem' = problem /\ status' = status
      BY <2>2 DEF vars
    <3>2. MatchedBy' = MatchedBy
      BY <3>1, MatchedByIsFixed
    <3>. QED  BY <3>1, <3>2 DEF VerdictIsStructural
  <2>. QED  BY <2>1, <2>2
<1>. QED  BY <1>1, <1>2, SearchStateHolds, PTL DEF Spec

\* At every moment of the search the calls under way are where they are for a
\* reason: what is above a call agrees with the tree, and so does everything
\* before it.
THEOREM CallsAreJustified == Spec => []ActiveCallsAreJustified
<1>1. SearchState => ActiveCallsAreJustified
  <2>. SUFFICES ASSUME SearchState PROVE ActiveCallsAreJustified
    OBVIOUS
  <2>1. /\ stack \in Seq(Frame)
        /\ \A f \in DOMAIN stack : stack[f] \in JustifiedFrames
        /\ \A f \in DOMAIN stack : f < Len(stack) => <<stack[f], stack[f + 1]>> \in CallPairs
    BY DEF SearchState, StackOK
  <2>2. ASSUME NEW f \in DOMAIN stack, stack[f].fn = "match", stack[f].i > 0
        PROVE  /\ Type[stack[f].n] = Current[stack[f].m]
               /\ \A k \in 1..(stack[f].i - 1) :
                    Kids[stack[f].n][k] \in MatchedBy[Subs[stack[f].m][k]]
               /\ f < Len(stack) =>
                    /\ stack[f + 1].m = Subs[stack[f].m][stack[f].i]
                    /\ stack[f + 1].n = Kids[stack[f].n][stack[f].i]
    <3>1. Visits(stack[f])
      BY <2>1, <2>2 DEF JustifiedFrames
    <3>2. f < Len(stack) => Calls(stack[f], stack[f + 1])
      BY <2>1 DEF CallPairs
    <3>. QED  BY <2>2, <3>1, <3>2 DEF Visits, Calls, Searches
  <2>3. ASSUME NEW f \in DOMAIN stack, stack[f].fn \in Searches, f < Len(stack)
        PROVE  /\ stack[f + 1].m = stack[f].m
               /\ stack[f + 1].n \in Related(stack[f].fn, stack[f].n)
    <3>1. Calls(stack[f], stack[f + 1])
      BY <2>1, <2>3 DEF CallPairs
    <3>2. /\ stack[f + 1].m = stack[f].m /\ stack[f + 1].n = stack[f].i
          /\ stack[f].i \in Tried(stack[f])
      BY <2>3, <3>1 DEF Calls, Searches
    <3>. QED  BY <3>2, RelatedNodes DEF Tried
  <2>. QED  BY <2>2, <2>3 DEF ActiveCallsAreJustified
<1>. QED  BY <1>1, SearchStateHolds, PTL

\* A capture is only ever a node that its matcher matches, whatever happens to
\* the match it was taken in.
THEOREM CapturesMatch == Spec => []CapturesAreMatches
<1>1. Init => CapturesAreMatches
  BY DEF Init, CapturesAreMatches
<1>2. SearchState /\ CapturesAreMatches /\ [Next]_vars => CapturesAreMatches'
  <2>. SUFFICES ASSUME SearchState, CapturesAreMatches, [Next]_vars
                PROVE  CapturesAreMatches'
    OBVIOUS
  <2>1. /\ problem' = problem
        /\ \/ captures' = captures
           \/ N \in MatchedBy[M] /\ captures' = [captures EXCEPT ![M] = N]
    BY CapturesStep DEF vars
  <2>2. MatchedBy' = MatchedBy /\ Matcher' = Matcher
    BY <2>1, MatchedByIsFixed DEF Matcher, Subs
  <2>3. captures \in [Matcher -> Node \cup {Nil}]
    BY DEF SearchState, TypeOK
  <2>4. \A m \in Matcher : captures'[m] # Nil => captures'[m] \in MatchedBy[m]
    BY <2>1, <2>3 DEF CapturesAreMatches
  <2>. QED  BY <2>2, <2>4 DEF CapturesAreMatches
<1>. QED  BY <1>1, <1>2, SearchStateHolds, PTL DEF Spec

\* A forest that has a previous sibling is not the first child of its matcher:
\* the tree gives children the places that the matcher gives them.
LEMMA ForestIsMisplaced ==
  ASSUME SearchState, stack # << >>, Top.fn = "match", HasPrevious(N),
         NEW p \in Parents(Subs, M)
  PROVE  Subs[p][1] # M
<1>1. TreeIsLaidOut /\ MatchersAreLaidOut /\ M \in Matcher /\ N \in Node
  BY Laid, TopFacts
<1>2. p \in Matcher /\ \E k \in DOMAIN Subs[p] : Subs[p][k] = M
  BY DEF Parents, ToSet, Matcher
<1>3. p \in Nat \ {0} /\ DOMAIN Subs[p] = 1..Len(Subs[p]) /\ Len(Subs[p]) \in Nat
  <2>1. Matcher = 1..Len(Subs)
    BY <1>1 DEF MatchersAreLaidOut
  <2>2. Subs[p] \in Seq(Matcher)
    BY <1>1, <1>2, SubsAreMatchers
  <2>. QED  BY <1>2, <2>1, <2>2
<1>4. M > p /\ 1 \in DOMAIN Subs[p]
  <2>1. PICK k \in DOMAIN Subs[p] : Subs[p][k] = M
    BY <1>2
  <2>2. \A j \in DOMAIN Subs[p] : Subs[p][j] > p
    BY <1>1, <1>2 DEF MatchersAreLaidOut
  <2>. QED  BY <1>3, <2>1, <2>2
<1>5. M # 1
  BY <1>3, <1>4
<1>. DEFINE a == stack[Len(stack) - 1]
<1>6. Calls(a, Top) /\ a \in JustifiedFrames
  <2>1. Len(stack) \in Nat \ {0} /\ Len(stack) # 1
    BY <1>5, TopFacts
  <2>. DEFINE d == Len(stack)
  <2>2. d - 1 \in 1..d /\ d > 1
    <3>1. d \in Nat /\ d # 0 /\ d # 1
      BY <2>1
    <3>. HIDE DEF d
    <3>. QED  BY <3>1
  <2>3. \A f \in 1..d : stack[f] \in JustifiedFrames
    BY DEF SearchState, StackOK
  <2>4. a \in JustifiedFrames
    <3>. HIDE DEF d
    <3>1. stack[d - 1] \in JustifiedFrames
      BY <2>2, <2>3
    <3>. QED  BY <3>1 DEF d
  <2>. QED  BY <2>2, <2>4, TopFacts
<1>. HIDE DEF a
<1>7. CASE a.fn = "match"
  <2>1. a.i > 0 /\ M = Subs[a.m][a.i] /\ N = Kids[a.n][a.i]
    BY <1>6, <1>7 DEF Calls, Searches, M, N
  <2>2. a \in Frame /\ Visits(a)
    BY <1>6, <1>7, <2>1 DEF JustifiedFrames
  <2>3. /\ a.m \in Matcher /\ a.n \in Node /\ a.i \in Nat
        /\ a.i \in DOMAIN Kids[a.n] /\ a.i \in DOMAIN Subs[a.m]
    BY <2>2 DEF Frame, Visits
  <2>4. a.i # 1
    <3>1. Place(N) = a.i
      BY <1>1, <2>1, <2>3, PlaceOfChild
    <3>2. Place(N) > 1
      BY DEF HasPrevious
    <3>. QED  BY <2>3, <3>1, <3>2
  <2>5. a.m \in Parents(Subs, M)
    BY <2>1, <2>3 DEF Parents, ToSet, Matcher
  <2>6. p = a.m
    BY <1>1, <2>5 DEF MatchersAreLaidOut
  <2>7. IsInjective(Subs[p])
    BY <1>1, <1>2 DEF MatchersAreLaidOut
  <2>. QED  BY <1>4, <2>1, <2>3, <2>4, <2>6, <2>7 DEF IsInjective
<1>8. CASE a.fn \in Searches
  <2>1. M = a.m
    BY <1>6, <1>8 DEF Calls, Searches, M
  <2>2. \E u \in Matcher : Call[u].fn \in Searches /\ Call[u].sub = a.m
    BY <1>6, <1>8 DEF JustifiedFrames, Seeks
  <2>3. Parents(Subs, M) = {}
    BY <1>1, <2>1, <2>2 DEF MatchersAreLaidOut
  <2>. QED  BY <2>3
<1>. QED  BY <1>6, <1>7, <1>8 DEF Calls

LEMMA DiesByForest ==
  ASSUME SearchState, [Next]_vars, status # "died", ~ DieCombined
  PROVE  status' # "died"
<1>1. CASE UNCHANGED vars
  BY <1>1 DEF vars
<1>2. CASE AbortConversion \/ TurnToNext
  BY <1>2 DEF AbortConversion, TurnToNext
<1>3. ASSUME NEW v \in {"yes", "no"}, Return(v)
      PROVE  status' # "died"
  BY <1>3 DEF Return
<1>4. CASE MatchAnyTree \/ MatchAnyForest \/ RejectType \/ RejectByCallback
           \/ CallbackRejects \/ RejectArity \/ MatchChildless \/ ChildRejects
           \/ ForestMatched \/ ChildrenMatched \/ SearchFails \/ SearchSucceeds
  <2>1. \E v \in {"yes", "no"} : Return(v)
    BY <1>4 DEF MatchAnyTree, MatchAnyForest, RejectType, RejectByCallback,
       CallbackRejects, RejectArity, MatchChildless, ChildRejects,
       ForestMatched, ChildrenMatched, SearchFails, SearchSucceeds, ReturnMatch
  <2>. QED  BY <1>3, <2>1
<1>5. CASE StartCallback \/ FirstChild \/ NextChild \/ TryPrevious \/ TryNext \/ TryDescendant
  BY <1>5 DEF StartCallback, FirstChild, NextChild, TryPrevious, TryNext, TryDescendant,
     Push, Descend, Try
<1>. QED  BY <1>1, <1>2, <1>4, <1>5 DEF Next

\* The program gives up over a forest only when the matcher, not the tree, is
\* to blame: some forest is not the first child of its matcher.
THEOREM DiesOnlyForForest == Spec => []DiesOnlyForMisplacedForest
<1>1. Init => DiesOnlyForMisplacedForest
  BY DEF Init, DiesOnlyForMisplacedForest
<1>2. SearchState /\ DiesOnlyForMisplacedForest /\ [Next]_vars => DiesOnlyForMisplacedForest'
  <2>. SUFFICES ASSUME SearchState, DiesOnlyForMisplacedForest, [Next]_vars
                PROVE  DiesOnlyForMisplacedForest'
    OBVIOUS
  <2>0. problem' = problem
    BY CapturesStep DEF vars
  <2>1. CASE status = "died"
    BY <2>0, <2>1 DEF DiesOnlyForMisplacedForest, Matcher, Current, Subs
  <2>2. CASE DieCombined
    <3>1. /\ stack # << >> /\ Top.fn = "match" /\ Current[M] = "anyForest"
          /\ HasPrevious(N)
      BY <2>2 DEF DieCombined, Entering
    <3>2. M \in Matcher /\ TreeIsLaidOut /\ MatchersAreLaidOut
      BY <3>1, TopFacts, Laid
    <3>3. \A p \in Parents(Subs, M) : Subs[p][1] # M
      BY <3>1, <3>2, ForestIsMisplaced
    <3>. QED
      BY <2>0, <3>1, <3>2, <3>3 DEF DiesOnlyForMisplacedForest, Matcher, Current, Subs
  <2>3. CASE status # "died" /\ ~ DieCombined
    <3>1. status' # "died"
      BY <2>3, DiesByForest
    <3>. QED  BY <3>1 DEF DiesOnlyForMisplacedForest
  <2>. QED  BY <2>1, <2>2, <2>3
<1>. QED  BY <1>1, <1>2, SearchStateHolds, PTL DEF Spec
-----------------------------------------------------------------------------
(* What a match leaves in the captures *)

\* The matchers each matcher is made of: its children and that of its callback.
\* "Above[m]" are the matchers that m is a part of.
Uses ==
  [m \in Matcher |->
     IF Call[m].fn \in Searches THEN Append(Subs[m], Call[m].sub) ELSE Subs[m]]

Above == Lineage(Uses)

LEMMA CallbackIsMatcher ==
  ASSUME MatchersAreLaidOut, NEW m \in Matcher, Call[m].fn \in Searches
  PROVE  Call[m].sub \in Matcher /\ Parents(Subs, Call[m].sub) = {}
<1>1. Call[m].sub \in (m + 1)..Len(Subs) /\ Parents(Subs, Call[m].sub) = {}
  BY DEF MatchersAreLaidOut
<1>2. Matcher = 1..Len(Subs) /\ Len(Subs) \in Nat /\ m \in Matcher
  BY DEF MatchersAreLaidOut
<1>. QED  BY <1>1, <1>2

LEMMA UsedBy ==
  ASSUME MatchersAreLaidOut, NEW m \in Matcher
  PROVE  /\ Uses[m] \in Seq(Matcher)
         /\ \A k \in DOMAIN Uses[m] : Uses[m][k] > m
         /\ Call[m].fn \in Searches =>
              \A x : x \in ToSet(Uses[m]) <=> x \in ToSet(Subs[m]) \/ x = Call[m].sub
         /\ Call[m].fn \notin Searches => Uses[m] = Subs[m]
<1>. DEFINE s == Subs[m]
            e == Call[m].sub
            t == Append(s, e)
<1>1. s \in Seq(Matcher) /\ \A k \in DOMAIN s : s[k] > m
  BY SubsAreMatchers DEF MatchersAreLaidOut
<1>2. CASE Call[m].fn \notin Searches
  BY <1>1, <1>2 DEF Uses
<1>3. CASE Call[m].fn \in Searches
  <2>1. Uses[m] = t
    BY <1>3 DEF Uses
  <2>2. e \in (m + 1)..Len(Subs)
    BY <1>3 DEF MatchersAreLaidOut
  <2>. HIDE DEF s, e
  <2>3. e \in Matcher /\ e > m
    BY <2>2 DEF MatchersAreLaidOut
  <2>4. /\ t \in Seq(Matcher)
        /\ Len(t) = Len(s) + 1 /\ t[Len(s) + 1] = e
        /\ \A k \in 1..Len(s) : t[k] = s[k]
    BY <1>1, <2>3, Appended
  <2>. HIDE DEF t
  <2>5. /\ Len(s) \in Nat /\ DOMAIN s = 1..Len(s) /\ DOMAIN t = 1..(Len(s) + 1)
        /\ t[Len(s) + 1] = e /\ \A k \in 1..Len(s) : t[k] = s[k]
    BY <1>1, <2>4
  <2>6. \A k \in DOMAIN t : t[k] > m
    BY <1>1, <2>3, <2>5
  <2>7. \A x : x \in ToSet(t) <=> x \in ToSet(s) \/ x = e
    BY <2>5 DEF ToSet
  <2>. QED  BY <1>3, <2>1, <2>4, <2>6, <2>7 DEF s, e
<1>. QED  BY <1>2, <1>3

LEMMA UsesAreLaidOut ==
  ASSUME MatchersAreLaidOut
  PROVE  /\ IsTable(Uses) /\ DOMAIN Uses = Matcher /\ Matcher \subseteq Nat
         /\ \A m \in Matcher : \A u, v \in Parents(Uses, m) : u = v
         /\ \A u \in Matcher : \A k \in DOMAIN Subs[u] : u \in Parents(Uses, Subs[u][k])
         /\ \A u \in Matcher : Call[u].fn \in Searches => u \in Parents(Uses, Call[u].sub)
<1>1. Matcher = 1..Len(Subs) /\ Len(Subs) \in Nat /\ DOMAIN Uses = Matcher
  BY DEF MatchersAreLaidOut, Uses
<1>2. Uses \in Seq(Seq(Matcher))
  <2>1. \A m \in 1..Len(Subs) : Uses[m] \in Seq(Matcher)
    BY <1>1, UsedBy
  <2>2. Uses = [m \in 1..Len(Subs) |-> Uses[m]]
    BY <1>1 DEF Uses
  <2>. HIDE DEF Uses
  <2>. QED  BY <1>1, <2>1, <2>2
<1>3. IsTable(Uses)
  BY <1>1, <1>2, UsedBy DEF IsTable
<1>4. ASSUME NEW m, NEW u
      PROVE  u \in Parents(Uses, m) <=>
               /\ u \in Matcher
               /\ m \in ToSet(Subs[u]) \/ (Call[u].fn \in Searches /\ m = Call[u].sub)
  <2>1. u \in Parents(Uses, m) <=> u \in Matcher /\ m \in ToSet(Uses[u])
    BY <1>1 DEF Parents
  <2>. HIDE DEF Uses
  <2>. QED  BY <2>1, UsedBy
<1>5. ASSUME NEW m, NEW u
      PROVE  u \in Users(problem.matcher, m) <=>
               /\ u \in Matcher
               /\ m \in ToSet(Subs[u]) \/ (Call[u].fn \in Searches /\ m = Call[u].sub)
  <2>1. /\ Matcher = DOMAIN problem.matcher.kids /\ Subs = problem.matcher.kids
        /\ Call = problem.matcher.callback
    BY DEF Matcher, Subs, Call
  <2>2. u \in Users(problem.matcher, m) <=>
          \/ u \in DOMAIN problem.matcher.kids /\ m \in ToSet(problem.matcher.kids[u])
          \/ /\ u \in DOMAIN problem.matcher.kids
             /\ problem.matcher.callback[u].fn \in Searches
             /\ problem.matcher.callback[u].sub = m
    BY DEF Users, Parents
  <2>. QED  BY <2>1, <2>2
<1>6. \A m \in Matcher : \A u, v \in Parents(Uses, m) : u = v
  <2>1. \A m \in Matcher : \A u, v \in Users(problem.matcher, m) : u = v
    BY DEF MatchersAreLaidOut
  <2>2. \A m, u : u \in Parents(Uses, m) => u \in Users(problem.matcher, m)
    BY <1>4, <1>5
  <2>. QED  BY <2>1, <2>2, Zenon
<1>7. \A u \in Matcher : \A k \in DOMAIN Subs[u] : Subs[u][k] \in ToSet(Subs[u])
  BY DEF ToSet
<1>8. Matcher \subseteq Nat
  BY <1>1
<1>. QED  BY <1>1, <1>3, <1>4, <1>6, <1>7, <1>8

\* Two different parts of one matcher are not above the same matcher.
LEMMA PartsAreApart ==
  ASSUME MatchersAreLaidOut, NEW u \in Matcher, NEW x \in Matcher, NEW y \in Matcher,
         x # y, u \in Parents(Uses, x), u \in Parents(Uses, y),
         NEW t \in Matcher, y \in Above[t]
  PROVE  x \notin Above[t]
<1>. DEFINE Bad == {d \in Matcher : x \in Above[d] /\ y \in Above[d]}
<1>. SUFFICES ASSUME Bad # {} PROVE FALSE
  OBVIOUS
<1>1. Bad \subseteq Nat /\ IsTable(Uses) /\ DOMAIN Uses = Matcher /\ Matcher \subseteq Nat
  BY UsesAreLaidOut
<1>2. PICK d \in Bad : \A e \in Bad : d <= e
  <2>. HIDE DEF Bad
  <2>. QED  BY <1>1, LeastElement
<1>3. Above[d] = {d} \cup UNION {Above[p] : p \in Parents(Uses, d)}
  BY <1>1, LineageOf DEF Above
<1>4. \A p \in Parents(Uses, d) : p \in Matcher /\ p < d /\ p \in Nat /\ d \in Nat
  BY <1>1, TableFacts
<1>5. u < x /\ u < y /\ u \in Nat /\ x \in Nat /\ y \in Nat
  BY <1>1, TableFacts
<1>6. x # d
  <2>. SUFFICES ASSUME x = d PROVE FALSE
    OBVIOUS
  <2>1. PICK p \in Parents(Uses, d) : y \in Above[p]
    BY <1>2, <1>3
  <2>2. p = u
    BY <2>1, UsesAreLaidOut
  <2>3. y <= u
    BY <1>1, <2>1, <2>2, LineageIsAbove DEF Above
  <2>. QED  BY <1>5, <2>3
<1>7. y # d
  <2>. SUFFICES ASSUME y = d PROVE FALSE
    OBVIOUS
  <2>1. PICK p \in Parents(Uses, d) : x \in Above[p]
    BY <1>2, <1>3
  <2>2. p = u
    BY <2>1, UsesAreLaidOut
  <2>3. x <= u
    BY <1>1, <2>1, <2>2, LineageIsAbove DEF Above
  <2>. QED  BY <1>5, <2>3
<1>8. PICK p \in Parents(Uses, d) : x \in Above[p]
  BY <1>2, <1>3, <1>6
<1>9. PICK q \in Parents(Uses, d) : y \in Above[q]
  BY <1>2, <1>3, <1>7
<1>10. p = q
  BY <1>8, <1>9, UsesAreLaidOut
<1>11. p \in Bad /\ p < d /\ p \in Nat /\ d \in Nat
  BY <1>4, <1>8, <1>9, <1>10
<1>. QED  BY <1>2, <1>11

\* The matchers of all the calls under way are above that of the innermost one.
LEMMA CallersAreAbove ==
  ASSUME SearchState, stack # << >>
  PROVE  \A f \in DOMAIN stack : stack[f].m \in Matcher /\ stack[f].m \in Above[M]
<1>1. MatchersAreLaidOut /\ IsTable(Uses) /\ DOMAIN Uses = Matcher
  BY Laid, UsesAreLaidOut
<1>2. /\ stack \in Seq(Frame)
      /\ \A f \in DOMAIN stack : stack[f] \in JustifiedFrames
      /\ \A f \in DOMAIN stack : f < Len(stack) => <<stack[f], stack[f + 1]>> \in CallPairs
  BY DEF SearchState, StackOK
<1>. DEFINE d == Len(stack)
<1>3. d \in Nat \ {0} /\ DOMAIN stack = 1..d /\ Top = stack[d]
  BY <1>2, TopFacts
<1>. HIDE DEF d
<1>4. \A f \in 1..d : stack[f] \in Frame /\ stack[f].m \in Matcher
  <2>1. \A f \in 1..d : stack[f] \in Frame
    BY <1>2, <1>3
  <2>. QED  BY <2>1 DEF Frame
<1>5. ASSUME NEW f \in 1..d, f < d, stack[f + 1].m \in Above[M]
      PROVE  stack[f].m \in Above[M]
  <2>. DEFINE a == stack[f]
              b == stack[f + 1]
  <2>1. Calls(a, b) /\ a.m \in Matcher /\ b.m \in Matcher
    <3>1. f \in 1..d /\ f + 1 \in 1..d
      BY <1>3, <1>5
    <3>2. <<a, b>> \in CallPairs
      BY <1>2, <1>3, <1>5 DEF d
    <3>. QED  BY <1>4, <3>1, <3>2 DEF CallPairs
  <2>. HIDE DEF a, b
  <2>2. a.m = b.m \/ a.m \in Parents(Uses, b.m)
    <3>1. CASE a.fn = "match" /\ a.i > 0
      <4>1. b.m = Subs[a.m][a.i]
        BY <2>1, <3>1 DEF Calls, Searches
      <4>2. a \in JustifiedFrames
        BY <1>2, <1>3 DEF a
      <4>3. a.i \in DOMAIN Subs[a.m]
        BY <3>1, <4>2 DEF JustifiedFrames, Visits
      <4>. QED  BY <1>1, <2>1, <4>1, <4>3, UsesAreLaidOut
    <3>2. CASE ~ (a.fn = "match" /\ a.i > 0)
      BY <1>1, <2>1, <3>2, UsesAreLaidOut DEF Calls, Asks
    <3>. QED  BY <3>1, <3>2
  <2>3. a.m \in Above[b.m]
    BY <1>1, <2>1, <2>2, LineageOf DEF Above
  <2>. QED  BY <1>1, <1>5, <2>3, TopFacts, LineageIsTransitive DEF Above, a, b
<1>. DEFINE Bad == {k \in 0..d : k < d /\ stack[d - k].m \notin Above[M]}
<1>. SUFFICES ASSUME Bad # {} PROVE FALSE
  <2>1. ASSUME NEW f \in 1..d, d - f \notin Bad PROVE stack[f].m \in Above[M]
    <3>1. d - f \in 0..d /\ d - f < d /\ d - (d - f) = f
      BY <1>3
    <3>. QED  BY <2>1, <3>1
  <2>. QED  BY <1>3, <1>4, <2>1
<1>6. Bad \subseteq Nat
  OBVIOUS
<1>7. PICK k \in Bad : \A j \in Bad : k <= j
  <2>. HIDE DEF Bad
  <2>. QED  BY <1>6, LeastElement
<1>8. k # 0
  <2>1. M \in Above[M]
    BY <1>1, TopFacts, LineageOf DEF Above
  <2>. QED  BY <1>3, <1>7, <2>1 DEF M
<1>9. k - 1 \notin Bad /\ k \in Nat
  BY <1>3, <1>7, <1>8
<1>10. stack[(d - k) + 1].m \in Above[M]
  <2>1. k - 1 \in 0..d /\ k - 1 < d /\ d - (k - 1) = (d - k) + 1
    BY <1>3, <1>7, <1>8
  <2>. QED  BY <1>9, <2>1
<1>11. d - k \in 1..d /\ d - k < d
  BY <1>3, <1>7, <1>8
<1>. QED  BY <1>5, <1>7, <1>10, <1>11

\* The search of a callback has left a node of its kind in the capture of its
\* matcher, unless that is one that captures nothing.
Reached(m, n, c) == Current[m] = "anyForest" \/ OnlyForest(m) \/ c[m] = n

Caught(m, n, c) ==
  Call[m].fn \in Searches =>
    \/ Current[Call[m].sub] = "anyForest" \/ OnlyForest(Call[m].sub)
    \/ c[Call[m].sub] \in Related(Call[m].fn, n)

\* The captures have matcher m at node n, and its children where W has them.
PlacedIn(m, n, W, c, fo) ==
  IF Current[m] = "anyForest" THEN fo[m] = Siblings(n)
  ELSE /\ c[m] = IF OnlyForest(m) THEN Nil ELSE n
       /\ Caught(m, n, c)
       /\ \A k \in DOMAIN Subs[m] :
            k \in DOMAIN Kids[n] /\ <<Subs[m][k], Kids[n][k]>> \in W

\* W is a part of a match: pairs of matchers and the nodes that they are at.
IsFollowed(W, c, fo) ==
  /\ W \in SUBSET (Matcher \X Node)
  /\ \A m \in Matcher, n \in Node : <<m, n>> \in W => PlacedIn(m, n, W, c, fo)

\* What a call under way has behind it is in the captures.
Settled(a, W, c) ==
  a.fn = "match" /\ a.i > 0 =>
    /\ Caught(a.m, a.n, c)
    /\ \A k \in 1..(a.i - 1) : <<Subs[a.m][k], Kids[a.n][k]>> \in W

\* So is what the call it made has just found.
Told(a, W, c) ==
  /\ a.fn = "match" /\ a.i = 0 => Caught(a.m, a.n, c)
  /\ a.fn = "match" /\ a.i > 0 => <<Subs[a.m][a.i], Kids[a.n][a.i]>> \in W
  /\ a.fn \in Searches => Reached(a.m, a.i, c)

CapturesOK(s, r, st, c, fo, W) ==
  /\ IsFollowed(W, c, fo)
  /\ \A m \in Matcher : OnlyForest(m) => c[m] = Nil
  /\ \A f \in DOMAIN s : Settled(s[f], W, c)
  /\ s # << >> /\ r = "yes" => Told(s[Len(s)], W, c)
  /\ st = "yes" => <<1, problem.node>> \in W

CaptureState == \E W : CapturesOK(stack, ret, status, captures, forest, W)

\* The callers of a match are not about what it writes: what they have behind
\* them belongs to other parts of their matchers.
LEMMA CallersStaySettled ==
  ASSUME SearchState, stack # << >>, NEW f \in DOMAIN stack, f < Len(stack),
         NEW W, NEW c, NEW V, NEW c2,
         Settled(stack[f], W, c),
         \A y \in Matcher : y \notin Above[M] => c2[y] = c[y],
         \A y \in Matcher : \A n : <<y, n>> \in W /\ y \notin Above[M] => <<y, n>> \in V
  PROVE  Settled(stack[f], V, c2)
<1>. DEFINE a == stack[f]
<1>. SUFFICES ASSUME a.fn = "match", a.i > 0
              PROVE  /\ Caught(a.m, a.n, c2)
                     /\ \A k \in 1..(a.i - 1) : <<Subs[a.m][k], Kids[a.n][k]>> \in V
  BY DEF Settled
<1>1. MatchersAreLaidOut /\ M \in Matcher
  BY Laid, TopFacts
<1>2. /\ a \in JustifiedFrames /\ a \in Frame /\ stack[f + 1] \in Frame
      /\ Calls(a, stack[f + 1])
  BY DEF SearchState, StackOK, CallPairs
<1>3. a.m \in Matcher
  BY <1>2 DEF Frame
<1>4. a.i \in DOMAIN Subs[a.m] /\ stack[f + 1].m = Subs[a.m][a.i]
  BY <1>2 DEF JustifiedFrames, Visits, Calls, Searches
<1>. DEFINE y == Subs[a.m][a.i]
<1>5. y \in Matcher /\ y \in Above[M] /\ a.m \in Parents(Uses, y)
  <2>1. f + 1 \in DOMAIN stack
    BY TopFacts
  <2>2. stack[f + 1].m \in Matcher /\ stack[f + 1].m \in Above[M]
    BY <2>1, CallersAreAbove
  <2>3. a.m \in Parents(Uses, y)
    BY <1>1, <1>3, <1>4, UsesAreLaidOut
  <2>. QED  BY <1>4, <2>2, <2>3
<1>. HIDE DEF a, y
<1>6. ASSUME NEW x \in Matcher, x # y, a.m \in Parents(Uses, x) PROVE x \notin Above[M]
  BY <1>1, <1>3, <1>5, <1>6, PartsAreApart
<1>7. ASSUME NEW k \in 1..(a.i - 1) PROVE <<Subs[a.m][k], Kids[a.n][k]>> \in V
  <2>1. k \in DOMAIN Subs[a.m] /\ k # a.i
    BY <1>1, <1>3, <1>4, SubsAreMatchers
  <2>2. Subs[a.m][k] \in Matcher /\ Subs[a.m][k] # y
    BY <1>1, <1>3, <1>4, <2>1, SubsAreMatchers DEF MatchersAreLaidOut, IsInjective, y
  <2>3. Subs[a.m][k] \notin Above[M]
    BY <1>1, <1>3, <1>6, <2>1, <2>2, UsesAreLaidOut
  <2>4. <<Subs[a.m][k], Kids[a.n][k]>> \in W
    BY <1>7 DEF Settled, a
  <2>. QED  BY <2>2, <2>3, <2>4
<1>8. Caught(a.m, a.n, c2)
  <2>1. CASE Call[a.m].fn \notin Searches
    BY <2>1 DEF Caught
  <2>2. CASE Call[a.m].fn \in Searches
    <3>. DEFINE x == Call[a.m].sub
    <3>1. x \in Matcher /\ Parents(Subs, x) = {}
      BY <1>1, <1>3, <2>2, CallbackIsMatcher
    <3>2. x # y
      BY <1>3, <1>4, <3>1 DEF Parents, ToSet, Matcher, y
    <3>3. x \notin Above[M]
      BY <1>1, <1>3, <1>6, <2>2, <3>1, <3>2, UsesAreLaidOut
    <3>4. c2[x] = c[x]
      BY <3>1, <3>3
    <3>5. Caught(a.m, a.n, c)
      BY DEF Settled, a
    <3>. QED  BY <3>4, <3>5 DEF Caught
  <2>. QED  BY <2>1, <2>2
<1>. QED  BY <1>7, <1>8 DEF a

\* A call that has matched its node: its caller is told that it is at that node,
\* and what the callers knew before still holds.
LEMMA MatchReturns ==
  ASSUME SearchState, stack # << >>, Top.fn = "match", Return("yes"),
         NEW W, CapturesOK(stack, ret, status, captures, forest, W),
         NEW c, NEW fo,
         \A y \in Matcher : y # M => c[y] = captures[y] /\ fo[y] = forest[y],
         OnlyForest(M) => c[M] = Nil,
         PlacedIn(M, N, W, c, fo)
  PROVE  \E V : CapturesOK(stack', ret', status', c, fo, V)
<1>. DEFINE V == {p \in W : p[1] \notin Above[M]} \cup {<<M, N>>}
<1>1. /\ MatchersAreLaidOut /\ M \in Matcher /\ N \in Node
      /\ IsTable(Uses) /\ DOMAIN Uses = Matcher /\ Matcher \subseteq Nat
      /\ M \in Above[M]
  <2>1. MatchersAreLaidOut /\ M \in Matcher /\ N \in Node
    BY Laid, TopFacts
  <2>2. IsTable(Uses) /\ DOMAIN Uses = Matcher /\ Matcher \subseteq Nat
    BY <2>1, UsesAreLaidOut
  <2>. QED  BY <2>1, <2>2, LineageOf DEF Above
<1>2. /\ W \in SUBSET (Matcher \X Node)
      /\ \A m \in Matcher, n \in Node :
           <<m, n>> \in W => PlacedIn(m, n, W, captures, forest)
      /\ \A m \in Matcher : OnlyForest(m) => captures[m] = Nil
      /\ \A f \in DOMAIN stack : Settled(stack[f], W, captures)
  BY DEF CapturesOK, IsFollowed
<1>3. \A m \in Matcher, n \in Node :
        <<m, n>> \in V <=> (<<m, n>> \in W /\ m \notin Above[M]) \/ (m = M /\ n = N)
  OBVIOUS
<1>4. V \in SUBSET (Matcher \X Node)
  BY <1>1, <1>2
<1>. HIDE DEF V
\* What a matcher uses is not above M, unless the matcher is.
<1>5. ASSUME NEW m \in Matcher, m \notin Above[M] \/ m = M
      PROVE  /\ \A k \in DOMAIN Subs[m] :
                  Subs[m][k] \in Matcher /\ Subs[m][k] \notin Above[M] /\ Subs[m][k] # M
             /\ Call[m].fn \in Searches =>
                  /\ Call[m].sub \in Matcher
                  /\ Call[m].sub \notin Above[M] /\ Call[m].sub # M
  <2>1. ASSUME NEW x \in Matcher, m \in Parents(Uses, x) PROVE x \notin Above[M]
    <3>1. m \in Above[x]
      <4>1. m \in Above[m]
        BY <1>1, LineageOf DEF Above
      <4>. QED  BY <1>1, <2>1, <4>1, LineageOf DEF Above
    <3>2. m < x /\ m \in Nat /\ x \in Nat
      BY <1>1, <2>1, TableFacts
    <3>3. CASE m = M
      <4>1. x \in Above[M] => x <= M
        BY <1>1, LineageIsAbove DEF Above
      <4>. QED  BY <3>2, <3>3, <4>1
    <3>4. CASE m \notin Above[M]
      <4>1. x \in Above[M] => m \in Above[M]
        BY <1>1, <3>1, LineageIsTransitive DEF Above
      <4>. QED  BY <3>4, <4>1
    <3>. QED  BY <1>5, <3>3, <3>4
  <2>2. \A k \in DOMAIN Subs[m] : Subs[m][k] \in Matcher /\ m \in Parents(Uses, Subs[m][k])
    BY <1>1, SubsAreMatchers, UsesAreLaidOut
  <2>3. Call[m].fn \in Searches =>
          Call[m].sub \in Matcher /\ m \in Parents(Uses, Call[m].sub)
    BY <1>1, CallbackIsMatcher, UsesAreLaidOut
  <2>. QED  BY <1>1, <2>1, <2>2, <2>3
<1>6. PlacedIn(M, N, V, c, fo)
  <2>1. \A k \in DOMAIN Subs[M] : Subs[M][k] \in Matcher /\ Subs[M][k] \notin Above[M]
    BY <1>1, <1>5
  <2>2. \A k \in DOMAIN Subs[M] : \A n :
          <<Subs[M][k], n>> \in W => <<Subs[M][k], n>> \in V
    BY <1>2, <1>3, <2>1
  <2>. QED  BY <2>2 DEF PlacedIn
<1>7. ASSUME NEW m \in Matcher, NEW n \in Node, <<m, n>> \in V, m # M
      PROVE  PlacedIn(m, n, V, c, fo)
  <2>1. <<m, n>> \in W /\ m \notin Above[M]
    BY <1>3, <1>7
  <2>2. PlacedIn(m, n, W, captures, forest)
    BY <1>2, <2>1
  <2>3. c[m] = captures[m] /\ fo[m] = forest[m]
    BY <1>7
  <2>4. \A k \in DOMAIN Subs[m] : Subs[m][k] \in Matcher /\ Subs[m][k] \notin Above[M]
    BY <1>5, <2>1
  <2>5. \A k \in DOMAIN Subs[m] : \A j :
          <<Subs[m][k], j>> \in W => <<Subs[m][k], j>> \in V
    BY <1>2, <1>3, <2>4
  <2>6. Caught(m, n, captures) => Caught(m, n, c)
    <3>1. Call[m].fn \in Searches => c[Call[m].sub] = captures[Call[m].sub]
      BY <1>5, <2>1
    <3>. QED  BY <3>1 DEF Caught
  <2>7. CASE Current[m] = "anyForest"
    BY <2>2, <2>3, <2>7 DEF PlacedIn
  <2>8. CASE Current[m] # "anyForest"
    <3>1. /\ captures[m] = IF OnlyForest(m) THEN Nil ELSE n
          /\ Caught(m, n, captures)
          /\ \A k \in DOMAIN Subs[m] :
               k \in DOMAIN Kids[n] /\ <<Subs[m][k], Kids[n][k]>> \in W
      BY <2>2, <2>8, Zenon DEF PlacedIn
    <3>2. \A k \in DOMAIN Subs[m] :
            k \in DOMAIN Kids[n] /\ <<Subs[m][k], Kids[n][k]>> \in V
      BY <2>5, <3>1
    <3>3. c[m] = IF OnlyForest(m) THEN Nil ELSE n
      BY <2>3, <3>1, Zenon
    <3>. QED  BY <2>6, <2>8, <3>1, <3>2, <3>3, Zenon DEF PlacedIn
  <2>. QED  BY <2>7, <2>8
<1>8. IsFollowed(V, c, fo)
  <2>. SUFFICES ASSUME NEW m \in Matcher, NEW n \in Node, <<m, n>> \in V
                PROVE  PlacedIn(m, n, V, c, fo)
    BY <1>4 DEF IsFollowed
  <2>1. m = M => n = N
    BY <1>1, <1>3
  <2>. QED  BY <1>6, <1>7, <2>1
<1>9. \A m \in Matcher : OnlyForest(m) => c[m] = Nil
  BY <1>2
<1>10. ASSUME NEW f \in DOMAIN stack, f < Len(stack) PROVE Settled(stack[f], V, c)
  <2>1. \A y \in Matcher : y \notin Above[M] => c[y] = captures[y]
    BY <1>1
  <2>2. \A y \in Matcher : \A n : <<y, n>> \in W /\ y \notin Above[M] => <<y, n>> \in V
    BY <1>2, <1>3
  <2>. QED  BY <1>2, <1>10, <2>1, <2>2, CallersStaySettled
<1>11. PICK t : t = stack'
  OBVIOUS
<1>. DEFINE d == Len(stack)
<1>. HIDE DEF d
<1>12. /\ d \in Nat \ {0} /\ DOMAIN stack = 1..d /\ Len(t) = d - 1 /\ DOMAIN t = 1..(d - 1)
       /\ \A k \in 1..(d - 1) : t[k] = stack[k]
       /\ ret' = "yes" /\ status' = IF d = 1 THEN "yes" ELSE status
  <2>1. stack \in Seq(Frame)
    BY DEF SearchState, StackOK
  <2>2. t = Front(stack) /\ ret' = "yes" /\ status' = IF d = 1 THEN "yes" ELSE status
    BY <1>11 DEF Return, d
  <2>. QED  BY <2>1, <2>2, FrontAndLast DEF d
<1>13. \A f \in DOMAIN t : Settled(t[f], V, c)
  BY <1>10, <1>12 DEF d
<1>14. ASSUME t # << >> PROVE Told(t[Len(t)], V, c)
  <2>. DEFINE a == stack[d - 1]
  <2>1. d > 1 /\ d - 1 \in 1..(d - 1) /\ t[Len(t)] = a
    BY <1>12, <1>14
  <2>2. Calls(a, Top)
    BY <2>1, TopFacts DEF d
  <2>. HIDE DEF a
  <2>3. CASE a.fn = "match" /\ a.i > 0
    <3>1. M = Subs[a.m][a.i] /\ N = Kids[a.n][a.i]
      BY <2>2, <2>3 DEF Calls, M, N, Searches
    <3>. QED  BY <1>1, <1>3, <2>1, <2>3, <3>1 DEF Told, Searches
  <2>4. CASE a.fn \in Searches /\ a.i \in Tried(a)
    <3>1. M = a.m /\ N = a.i
      BY <2>2, <2>4 DEF Calls, M, N, Searches
    <3>2. Reached(M, N, c)
      BY <1>6 DEF PlacedIn, Reached
    <3>. QED  BY <2>1, <2>4, <3>1, <3>2 DEF Told, Searches
  <2>. QED  BY <2>2, <2>3, <2>4 DEF Calls, Searches
<1>15. status' = "yes" => <<1, problem.node>> \in V
  <2>1. status = "running"
    BY DEF SearchState, TypeOK
  <2>2. d = 1 => M = 1 /\ N = problem.node
    BY TopFacts DEF d
  <2>. QED  BY <1>1, <1>3, <1>12, <2>1, <2>2
<1>. QED  BY <1>8, <1>9, <1>11, <1>12, <1>13, <1>14, <1>15 DEF CapturesOK

\* A call that writes nothing, and whose caller learns nothing from it but that
\* it failed, leaves what the other calls know.
LEMMA FailureReturns ==
  ASSUME SearchState, stack # << >>, Return("no"),
         NEW W, CapturesOK(stack, ret, status, captures, forest, W)
  PROVE  CapturesOK(stack', ret', status', captures, forest, W)
<1>1. PICK t : t = stack'
  OBVIOUS
<1>2. t = Front(stack) /\ ret' = "no" /\ status' \in {"no", status}
  BY <1>1 DEF Return
<1>3. /\ Len(stack) \in Nat \ {0} /\ DOMAIN stack = 1..Len(stack)
      /\ DOMAIN t = 1..(Len(stack) - 1)
      /\ \A k \in 1..(Len(stack) - 1) : t[k] = stack[k]
  <2>1. stack \in Seq(Frame)
    BY DEF SearchState, StackOK
  <2>. QED  BY <1>2, <2>1, FrontAndLast
<1>4. status = "running"
  BY DEF SearchState, TypeOK
<1>5. \A f \in DOMAIN t : Settled(t[f], W, captures)
  BY <1>3 DEF CapturesOK
<1>6. CapturesOK(t, "no", status', captures, forest, W)
  BY <1>2, <1>4, <1>5 DEF CapturesOK
<1>. QED  BY <1>1, <1>2, <1>6

\* The search of a callback has found a node, and its capture is kept.
LEMMA SearchReturns ==
  ASSUME SearchState, SearchSucceeds,
         NEW W, CapturesOK(stack, ret, status, captures, forest, W)
  PROVE  CapturesOK(stack', ret', status', captures, forest, W)
<1>0. stack # << >> /\ ret = "yes" /\ Top.fn \in Searches /\ Return("yes")
  BY DEF SearchSucceeds
<1>1. PICK t : t = stack'
  OBVIOUS
<1>. DEFINE d == Len(stack)
<1>. HIDE DEF d
<1>2. /\ d \in Nat \ {0} /\ DOMAIN stack = 1..d /\ Top = stack[d]
      /\ Len(t) = d - 1 /\ DOMAIN t = 1..(d - 1)
      /\ \A k \in 1..(d - 1) : t[k] = stack[k]
      /\ ret' = "yes" /\ status' = IF d = 1 THEN "yes" ELSE status
  <2>1. stack \in Seq(Frame)
    BY DEF SearchState, StackOK
  <2>2. t = Front(stack) /\ ret' = "yes" /\ status' = IF d = 1 THEN "yes" ELSE status
    BY <1>0, <1>1 DEF Return, d
  <2>. QED  BY <1>0, <2>1, <2>2, FrontAndLast DEF d, Top
<1>3. d > 1
  BY <1>0, <1>2, TopFacts DEF d, Searches
<1>4. status = "running"
  BY <1>0 DEF SearchState, TypeOK
<1>. DEFINE a == stack[d - 1]
<1>5. Calls(a, Top)
  BY <1>0, <1>3, TopFacts DEF d
<1>6. t # << >> /\ t[Len(t)] = a
  BY <1>2, <1>3
<1>. HIDE DEF a
<1>7. /\ a.fn = "match" /\ a.i = 0 /\ Call[a.m].fn \in Searches
      /\ M = Call[a.m].sub /\ N = a.n
      /\ Top.fn = Call[a.m].fn \/ (Top.fn = "next" /\ Call[a.m].fn = "sibling")
  BY <1>0, <1>5 DEF Calls, Asks, M, N, Searches
<1>8. Top.i \in Tried(Top)
  BY <1>0, TopFacts DEF Learned, Searches
<1>9. Top.i \in Related(Call[a.m].fn, a.n)
  BY <1>7, <1>8, RelatedNodes DEF Tried, N
<1>10. Reached(M, Top.i, captures)
  <2>1. Told(Top, W, captures)
    BY <1>0, <1>2 DEF CapturesOK, d
  <2>. QED  BY <1>0, <2>1 DEF Told, M
<1>11. Caught(a.m, a.n, captures)
  BY <1>7, <1>9, <1>10 DEF Caught, Reached
<1>12. Told(a, W, captures)
  BY <1>7, <1>11 DEF Told, Searches
<1>13. \A f \in DOMAIN t : Settled(t[f], W, captures)
  BY <1>2 DEF CapturesOK
<1>14. CapturesOK(t, "yes", status, captures, forest, W)
  BY <1>4, <1>6, <1>12, <1>13 DEF CapturesOK
<1>. QED  BY <1>1, <1>2, <1>3, <1>14

\* A call that makes another one has behind it what it is done with.
LEMMA CallIsSettled ==
  ASSUME SearchState, stack # << >>, NEW a \in Frame, NEW b \in Frame, Push(a, b),
         Fresh(b), NEW W, CapturesOK(stack, ret, status, captures, forest, W),
         Settled(a, W, captures)
  PROVE  CapturesOK(stack', ret', status', captures, forest, W)
<1>1. PICK t : t = stack'
  OBVIOUS
<1>2. t = Append(Front(stack), a) \o <<b>> /\ ret' = "none" /\ status' = status
  BY <1>1 DEF Push
<1>. DEFINE d == Len(stack)
<1>. HIDE DEF d
<1>3. /\ d \in Nat \ {0} /\ DOMAIN stack = 1..d
      /\ t \in Seq(Frame) /\ Len(t) = d + 1
      /\ \A k \in 1..(d - 1) : t[k] = stack[k]
      /\ t[d] = a /\ t[d + 1] = b
  <2>1. t = Append(Front(stack), a) \o <<b>> /\ stack \in Seq(Frame)
    BY <1>2 DEF SearchState, StackOK
  <2>. HIDE DEF Frame
  <2>2. /\ t \in Seq(Frame) /\ t # << >> /\ Len(t) = Len(stack) + 1
        /\ \A k \in 1..(Len(stack) - 1) : t[k] = stack[k]
        /\ t[Len(stack)] = a /\ t[Len(stack) + 1] = b
    BY <2>1, Pushed
  <2>3. Len(stack) \in Nat \ {0} /\ DOMAIN stack = 1..Len(stack)
    BY <2>1, FrontAndLast
  <2>. QED  BY <2>2, <2>3 DEF d
<1>4. DOMAIN t = 1..(d + 1)
  BY <1>3
<1>5. status = "running"
  BY DEF SearchState, TypeOK
<1>6. Settled(b, W, captures)
  BY DEF Settled, Fresh
<1>7. ASSUME NEW f \in 1..(d + 1) PROVE Settled(t[f], W, captures)
  <2>1. f \in 1..(d - 1) \/ f = d \/ f = d + 1
    BY <1>3
  <2>2. CASE f \in 1..(d - 1)
    BY <1>3, <2>2 DEF CapturesOK
  <2>. QED  BY <1>3, <1>6, <2>1, <2>2
<1>8. CapturesOK(t, "none", status, captures, forest, W)
  BY <1>4, <1>5, <1>7 DEF CapturesOK
<1>. QED  BY <1>1, <1>2, <1>8
-----------------------------------------------------------------------------
(* Each step keeps the captures together *)

CapturesGoOn == \E V : CapturesOK(stack', ret', status', captures', forest', V)

\* The callback of a node that is accepted has left its node in the captures.
LEMMA AcceptedIsCaught ==
  ASSUME SearchState, Accepted,
         NEW W, CapturesOK(stack, ret, status, captures, forest, W)
  PROVE  Caught(M, N, captures)
<1>1. stack # << >> /\ Top.fn = "match" /\ Top.i = 0
  BY DEF Accepted
<1>2. CASE ret = "yes"
  <2>1. Top = stack[Len(stack)]
    BY <1>1, TopFacts
  <2>2. Told(Top, W, captures)
    BY <1>1, <1>2, <2>1 DEF CapturesOK
  <2>. QED  BY <1>1, <2>2 DEF Told, M, N
<1>3. CASE ret # "yes"
  <2>1. Call[M].fn \in {"none", "holds"}
    BY <1>3 DEF Accepted
  <2>. QED  BY <2>1 DEF Caught, Searches
<1>. QED  BY <1>2, <1>3

\* A match that writes nothing but its own capture.
LEMMA NodeIsCaptured ==
  ASSUME SearchState, stack # << >>, Top.fn = "match", ReturnMatch, forest' = forest,
         NEW W, CapturesOK(stack, ret, status, captures, forest, W),
         Current[M] # "anyForest", ~ OnlyForest(M), Caught(M, N, captures),
         \A k \in DOMAIN Subs[M] : k \in DOMAIN Kids[N] /\ <<Subs[M][k], Kids[N][k]>> \in W
  PROVE  CapturesGoOn
<1>1. Return("yes") /\ captures' = [captures EXCEPT ![M] = N]
  BY DEF ReturnMatch
<1>2. M \in Matcher /\ MatchersAreLaidOut
  BY TopFacts, Laid
<1>3. captures \in [Matcher -> Node \cup {Nil}]
  BY DEF SearchState, TypeOK
<1>4. PICK c : c = captures'
  OBVIOUS
<1>5. c[M] = N /\ \A y \in Matcher : y # M => c[y] = captures[y]
  BY <1>1, <1>2, <1>3, <1>4
<1>6. Caught(M, N, c)
  <2>1. ASSUME Call[M].fn \in Searches PROVE c[Call[M].sub] = captures[Call[M].sub]
    <3>1. Call[M].sub \in (M + 1)..Len(Subs) /\ M \in Nat
      BY <1>2, <2>1 DEF MatchersAreLaidOut
    <3>2. Call[M].sub \in Matcher /\ Call[M].sub # M
      BY <1>2, <2>1, <3>1, CallbackIsMatcher
    <3>. QED  BY <1>5, <3>2
  <2>. QED  BY <2>1 DEF Caught
<1>7. PlacedIn(M, N, W, c, forest)
  BY <1>5, <1>6 DEF PlacedIn
<1>8. \E V : CapturesOK(stack', ret', status', c, forest, V)
  BY <1>1, <1>5, <1>7, MatchReturns
<1>. QED  BY <1>4, <1>8 DEF CapturesGoOn

LEMMA MatchAnyTreeCaptures ==
  ASSUME SearchState, MatchAnyTree,
         NEW W, CapturesOK(stack, ret, status, captures, forest, W)
  PROVE  CapturesGoOn
<1>1. /\ stack # << >> /\ Top.fn = "match" /\ Current[M] = "anyTree"
      /\ ReturnMatch /\ forest' = forest
  BY DEF MatchAnyTree, Entering
<1>2. M \in Matcher /\ MatchersAreLaidOut
  BY <1>1, TopFacts, Laid
<1>3. Subs[M] = << >> /\ Call[M].fn = "none"
  BY <1>1, <1>2 DEF MatchersAreLaidOut
<1>4. ~ OnlyForest(M) /\ DOMAIN Subs[M] = {} /\ Caught(M, N, captures)
  BY <1>3 DEF OnlyForest, Caught, Searches
<1>. QED  BY <1>1, <1>4, NodeIsCaptured

LEMMA MatchChildlessCaptures ==
  ASSUME SearchState, MatchChildless,
         NEW W, CapturesOK(stack, ret, status, captures, forest, W)
  PROVE  CapturesGoOn
<1>1. /\ Accepted /\ ArityFits(M, N) /\ Kids[N] = << >>
      /\ ReturnMatch /\ forest' = forest
  BY DEF MatchChildless
<1>2. /\ stack # << >> /\ Top.fn = "match" /\ M \in Matcher /\ N \in Node
      /\ Current[M] # "anyForest"
  BY <1>1, AcceptedIsAllowed, TypesApart
<1>3. ~ OnlyForest(M) /\ DOMAIN Subs[M] = {}
  BY <1>1, <1>2, ArityOf DEF ArityFits
<1>4. Caught(M, N, captures)
  BY <1>1, AcceptedIsCaught
<1>. QED  BY <1>1, <1>2, <1>3, <1>4, NodeIsCaptured

\* What a call knows when its last child has matched.
LEMMA ChildrenAreFollowed ==
  ASSUME SearchState, Answered("yes"), OnlyForest(M) \/ Top.i = Len(Kids[N]),
         NEW W, CapturesOK(stack, ret, status, captures, forest, W)
  PROVE  /\ Caught(M, N, captures)
         /\ \A k \in DOMAIN Subs[M] :
              k \in DOMAIN Kids[N] /\ <<Subs[M][k], Kids[N][k]>> \in W
<1>1. /\ stack # << >> /\ Top.fn = "match" /\ M \in Matcher /\ N \in Node /\ Visits(Top)
      /\ Top.i \in Nat \ {0} /\ ret = "yes"
  BY ChildAnswered DEF Answered
<1>2. Top = stack[Len(stack)] /\ Len(stack) \in DOMAIN stack
  BY <1>1, TopFacts
<1>3. Settled(Top, W, captures) /\ Told(Top, W, captures)
  BY <1>1, <1>2 DEF CapturesOK
<1>4. /\ Caught(M, N, captures)
      /\ <<Subs[M][Top.i], Kids[N][Top.i]>> \in W
      /\ \A k \in 1..(Top.i - 1) : <<Subs[M][k], Kids[N][k]>> \in W
  BY <1>1, <1>3 DEF Settled, Told, M, N
<1>5. ArityFits(M, N) /\ Top.i \in DOMAIN Kids[N] /\ Top.i \in DOMAIN Subs[M]
  BY <1>1 DEF Visits, M, N
<1>6. /\ Len(Subs[M]) \in Nat /\ DOMAIN Subs[M] = 1..Len(Subs[M])
      /\ Len(Kids[N]) \in Nat /\ DOMAIN Kids[N] = 1..Len(Kids[N])
  BY <1>1, ArityOf
<1>7. Top.i = Len(Subs[M])
  <2>1. CASE OnlyForest(M)
    <3>1. Len(Subs[M]) = 1
      BY <2>1 DEF OnlyForest
    <3>. QED  BY <1>5, <1>6, <3>1
  <2>2. CASE ~ OnlyForest(M)
    BY <1>5, <1>6, <2>2 DEF ArityFits
  <2>. QED  BY <2>1, <2>2
<1>8. ASSUME NEW k \in DOMAIN Subs[M]
      PROVE  k \in DOMAIN Kids[N] /\ <<Subs[M][k], Kids[N][k]>> \in W
  <2>1. k = Top.i \/ k \in 1..(Top.i - 1)
    BY <1>1, <1>6, <1>7
  <2>2. k \in DOMAIN Kids[N]
    BY <1>1, <1>5, <1>6, <2>1
  <2>. QED  BY <1>4, <2>1, <2>2
<1>. QED  BY <1>4, <1>8

LEMMA ChildrenMatchedCaptures ==
  ASSUME SearchState, ChildrenMatched,
         NEW W, CapturesOK(stack, ret, status, captures, forest, W)
  PROVE  CapturesGoOn
<1>1. /\ Answered("yes") /\ ~ OnlyForest(M) /\ Top.i = Len(Kids[N])
      /\ ReturnMatch /\ forest' = forest
  BY DEF ChildrenMatched
<1>2. stack # << >> /\ Top.fn = "match" /\ Visits(Top)
  BY <1>1, ChildAnswered
<1>3. Current[M] # "anyForest"
  BY <1>2, TypesApart DEF Visits, M
<1>4. /\ Caught(M, N, captures)
      /\ \A k \in DOMAIN Subs[M] :
           k \in DOMAIN Kids[N] /\ <<Subs[M][k], Kids[N][k]>> \in W
  BY <1>1, ChildrenAreFollowed
<1>. QED  BY <1>1, <1>2, <1>3, <1>4, NodeIsCaptured

LEMMA ForestMatchedCaptures ==
  ASSUME SearchState, ForestMatched,
         NEW W, CapturesOK(stack, ret, status, captures, forest, W)
  PROVE  CapturesGoOn
<1>1. /\ Answered("yes") /\ OnlyForest(M) /\ Return("yes")
      /\ captures' = captures /\ forest' = forest
  BY DEF ForestMatched
<1>2. stack # << >> /\ Top.fn = "match" /\ Visits(Top) /\ M \in Matcher
  BY <1>1, ChildAnswered
<1>3. Current[M] # "anyForest"
  BY <1>2, TypesApart DEF Visits, M
<1>4. /\ Caught(M, N, captures)
      /\ \A k \in DOMAIN Subs[M] :
           k \in DOMAIN Kids[N] /\ <<Subs[M][k], Kids[N][k]>> \in W
  BY <1>1, ChildrenAreFollowed
<1>5. captures[M] = Nil
  BY <1>1, <1>2 DEF CapturesOK
<1>6. PlacedIn(M, N, W, captures, forest)
  BY <1>1, <1>3, <1>4, <1>5 DEF PlacedIn
<1>7. PICK c, fo : c = captures /\ fo = forest
  OBVIOUS
<1>8. \E V : CapturesOK(stack', ret', status', c, fo, V)
  BY <1>1, <1>2, <1>5, <1>6, <1>7, MatchReturns
<1>. QED  BY <1>1, <1>7, <1>8 DEF CapturesGoOn

LEMMA MatchAnyForestCaptures ==
  ASSUME SearchState, MatchAnyForest,
         NEW W, CapturesOK(stack, ret, status, captures, forest, W)
  PROVE  CapturesGoOn
<1>1. /\ stack # << >> /\ Top.fn = "match" /\ Current[M] = "anyForest"
      /\ Return("yes") /\ captures' = captures
      /\ forest' = [forest EXCEPT ![M] = Siblings(N)]
  BY DEF MatchAnyForest, Entering
<1>2. M \in Matcher /\ forest \in [Matcher -> Seq(Node)]
  BY <1>1, TopFacts DEF SearchState, TypeOK
<1>3. PICK fo : fo = forest'
  OBVIOUS
<1>4. fo[M] = Siblings(N) /\ \A y \in Matcher : y # M => fo[y] = forest[y]
  BY <1>1, <1>2, <1>3
<1>5. PlacedIn(M, N, W, captures, fo)
  BY <1>1, <1>4 DEF PlacedIn
<1>6. OnlyForest(M) => captures[M] = Nil
  BY <1>2 DEF CapturesOK
<1>7. PICK c : c = captures
  OBVIOUS
<1>8. \E V : CapturesOK(stack', ret', status', c, fo, V)
  BY <1>1, <1>2, <1>4, <1>5, <1>6, <1>7, MatchReturns
<1>. QED  BY <1>1, <1>3, <1>7, <1>8 DEF CapturesGoOn

LEMMA FailureCaptures ==
  ASSUME SearchState,
         \/ RejectType \/ RejectByCallback \/ CallbackRejects
         \/ RejectArity \/ ChildRejects \/ SearchFails,
         NEW W, CapturesOK(stack, ret, status, captures, forest, W)
  PROVE  CapturesGoOn
<1>1. stack # << >> /\ Return("no") /\ captures' = captures /\ forest' = forest
  BY DEF RejectType, RejectByCallback, CallbackRejects, RejectArity, ChildRejects,
     SearchFails, Entering, Accepted, Answered, Searching
<1>2. CapturesOK(stack', ret', status', captures, forest, W)
  BY <1>1, FailureReturns
<1>. QED  BY <1>1, <1>2 DEF CapturesGoOn

LEMMA SuccessCaptures ==
  ASSUME SearchState, SearchSucceeds,
         NEW W, CapturesOK(stack, ret, status, captures, forest, W)
  PROVE  CapturesGoOn
<1>1. captures' = captures /\ forest' = forest
  BY DEF SearchSucceeds
<1>2. CapturesOK(stack', ret', status', captures, forest, W)
  BY SearchReturns
<1>. QED  BY <1>1, <1>2 DEF CapturesGoOn

LEMMA GivingUpCaptures ==
  ASSUME DieCombined \/ AbortConversion,
         NEW W, CapturesOK(stack, ret, status, captures, forest, W)
  PROVE  CapturesGoOn
<1>1. /\ stack' = << >> /\ status' \in {"died", "aborted"} /\ ret' = ret
      /\ captures' = captures /\ forest' = forest
  BY DEF DieCombined, AbortConversion
<1>2. PICK t, st : t = << >> /\ t = stack' /\ st = status' /\ st # "yes"
  BY <1>1
<1>3. CapturesOK(t, ret, st, captures, forest, W)
  BY <1>2 DEF CapturesOK
<1>. QED  BY <1>1, <1>2, <1>3 DEF CapturesGoOn

LEMMA StartCallbackCaptures ==
  ASSUME SearchState, StartCallback,
         NEW W, CapturesOK(stack, ret, status, captures, forest, W)
  PROVE  CapturesGoOn
<1>1. /\ stack # << >> /\ Top.fn = "match" /\ Top.i = 0 /\ Call[M].fn \in Searches
      /\ Push(Top, Search(M, N)) /\ captures' = captures /\ forest' = forest
  BY DEF StartCallback, Entering
<1>2. Top \in Frame /\ M \in Matcher /\ N \in Node /\ N \in Nat \ {0}
  BY <1>1, TopFacts, Laid DEF TreeIsLaidOut
<1>3. Call[M].sub \in Matcher
  BY <1>1, <1>2, Laid DEF MatchersAreLaidOut
<1>. DEFINE b == Search(M, N)
<1>4. b \in Frame /\ b.fn # "match" /\ b.i = Start(b)
  BY <1>1, <1>2, <1>3 DEF Search, Frame, Start, Searches
<1>5. Push(Top, b)
  BY <1>1
<1>. HIDE DEF b
<1>6. Fresh(b) /\ Settled(Top, W, captures)
  BY <1>1, <1>4 DEF Fresh, Settled
<1>7. CapturesOK(stack', ret', status', captures, forest, W)
  BY <1>1, <1>2, <1>4, <1>5, <1>6, CallIsSettled
<1>. QED  BY <1>1, <1>7 DEF CapturesGoOn

\* Going to child i, when the captures have all the children before it.
LEMMA DescendCaptures ==
  ASSUME SearchState, stack # << >>, Top.fn = "match", NEW i \in Nat \ {0}, Descend(i),
         captures' = captures, forest' = forest,
         i \in DOMAIN Subs[M], i \in DOMAIN Kids[N],
         NEW W, CapturesOK(stack, ret, status, captures, forest, W),
         Caught(M, N, captures),
         \A k \in 1..(i - 1) : <<Subs[M][k], Kids[N][k]>> \in W
  PROVE  CapturesGoOn
<1>. DEFINE a == [Top EXCEPT !.i = i]
            b == Match(Subs[M][i], Kids[N][i])
<1>1. Top \in Frame /\ M \in Matcher /\ N \in Node
  BY TopFacts
<1>2. a \in Frame /\ a.fn = "match" /\ a.m = M /\ a.n = N /\ a.i = i
  BY <1>1 DEF Frame, M, N
<1>3. Subs[M][i] \in Matcher /\ Kids[N][i] \in Node
  BY <1>1, ArityOf
<1>4. b \in Frame /\ b.fn = "match" /\ b.i = 0
  BY <1>3 DEF Frame, Match
<1>5. Push(a, b)
  BY DEF Descend
<1>. HIDE DEF a, b
<1>6. Fresh(b) /\ Settled(a, W, captures)
  BY <1>2, <1>4 DEF Fresh, Settled
<1>7. CapturesOK(stack', ret', status', captures, forest, W)
  BY <1>2, <1>4, <1>5, <1>6, CallIsSettled
<1>. QED  BY <1>7 DEF CapturesGoOn

LEMMA FirstChildCaptures ==
  ASSUME SearchState, FirstChild,
         NEW W, CapturesOK(stack, ret, status, captures, forest, W)
  PROVE  CapturesGoOn
<1>1. /\ Accepted /\ ArityFits(M, N) /\ Kids[N] # << >> /\ Descend(1)
      /\ captures' = captures /\ forest' = forest
  BY DEF FirstChild
<1>2. stack # << >> /\ Top.fn = "match" /\ M \in Matcher /\ N \in Node
  BY <1>1, AcceptedIsAllowed
<1>3. 1 \in DOMAIN Kids[N] /\ 1 \in DOMAIN Subs[M]
  BY <1>1, <1>2, ArityOf DEF ArityFits, OnlyForest
<1>4. Caught(M, N, captures) /\ 1..(1 - 1) = {}
  BY <1>1, AcceptedIsCaught
<1>. QED  BY <1>1, <1>2, <1>3, <1>4, DescendCaptures

LEMMA NextChildCaptures ==
  ASSUME SearchState, NextChild,
         NEW W, CapturesOK(stack, ret, status, captures, forest, W)
  PROVE  CapturesGoOn
<1>. DEFINE j == Top.i + 1
<1>1. /\ Answered("yes") /\ ~ OnlyForest(M) /\ Top.i < Len(Kids[N]) /\ Descend(j)
      /\ captures' = captures /\ forest' = forest
  BY DEF NextChild
<1>2. /\ stack # << >> /\ Top.fn = "match" /\ M \in Matcher /\ N \in Node /\ Visits(Top)
      /\ Top.i \in Nat \ {0} /\ ret = "yes"
  BY <1>1, ChildAnswered DEF Answered
<1>3. ArityFits(M, N)
  BY <1>2 DEF Visits, M, N
<1>4. j \in Nat \ {0} /\ j \in DOMAIN Kids[N] /\ j \in DOMAIN Subs[M]
  BY <1>1, <1>2, <1>3, ArityOf DEF ArityFits
<1>5. Top = stack[Len(stack)] /\ Len(stack) \in DOMAIN stack
  BY <1>2, TopFacts
<1>6. Settled(Top, W, captures) /\ Told(Top, W, captures)
  BY <1>2, <1>5 DEF CapturesOK
<1>7. /\ Caught(M, N, captures)
      /\ <<Subs[M][Top.i], Kids[N][Top.i]>> \in W
      /\ \A k \in 1..(Top.i - 1) : <<Subs[M][k], Kids[N][k]>> \in W
  BY <1>2, <1>6 DEF Settled, Told, M, N
<1>8. \A k \in 1..(j - 1) : <<Subs[M][k], Kids[N][k]>> \in W
  <2>1. \A k \in 1..(j - 1) : k = Top.i \/ k \in 1..(Top.i - 1)
    BY <1>2
  <2>. QED  BY <1>7, <2>1
<1>. HIDE DEF j
<1>. QED  BY <1>1, <1>2, <1>4, <1>7, <1>8, DescendCaptures

LEMMA TryCaptures ==
  ASSUME SearchState, stack # << >>, Top.fn \in Searches, NEW n \in Node, Try(n),
         captures' = captures, forest' = forest,
         NEW W, CapturesOK(stack, ret, status, captures, forest, W)
  PROVE  CapturesGoOn
<1>. DEFINE a == [Top EXCEPT !.i = n]
            b == Match(M, n)
<1>1. Top \in Frame /\ M \in Matcher /\ n \in Nat
  BY TopFacts, SearchFrames DEF TreeIsLaidOut
<1>2. a \in Frame /\ a.fn # "match"
  BY <1>1 DEF Frame, Searches
<1>3. b \in Frame /\ b.fn = "match" /\ b.i = 0
  BY <1>1 DEF Frame, Match
<1>4. Push(a, b)
  BY DEF Try
<1>. HIDE DEF a, b
<1>5. Fresh(b) /\ Settled(a, W, captures)
  BY <1>2, <1>3 DEF Fresh, Settled
<1>6. CapturesOK(stack', ret', status', captures, forest, W)
  BY <1>2, <1>3, <1>4, <1>5, CallIsSettled
<1>. QED  BY <1>6 DEF CapturesGoOn

LEMMA TrySiblingCaptures ==
  ASSUME SearchState, TryPrevious \/ TryNext,
         NEW W, CapturesOK(stack, ret, status, captures, forest, W)
  PROVE  CapturesGoOn
<1>1. /\ stack # << >> /\ Top.fn \in Searches
      /\ captures' = captures /\ forest' = forest
  BY DEF TryPrevious, TryNext, Searching, Searches
<1>2. TreeIsLaidOut /\ N \in Node /\ (Top.i = Start(Top) \/ Top.i \in Tried(Top))
  BY <1>1, SearchFrames
<1>3. Start(Top) = N /\ \/ Tried(Top) = Related("previous", N)
                        \/ Tried(Top) = Related("next", N)
  BY DEF TryPrevious, TryNext, Searching, Start, Tried, N
<1>4. Top.i \in Node /\ Siblings(Top.i) = Siblings(N)
  BY <1>2, <1>3, RowOf
<1>. DEFINE p == Place(Top.i)
            l == Len(Siblings(N))
<1>5. p \in 1..l /\ l \in Nat /\ \A k \in 1..l : Siblings(N)[k] \in Node
  BY <1>2, <1>4, SiblingsOfNode
<1>6. CASE TryPrevious
  <2>1. p > 1 /\ Try(Siblings(N)[p - 1])
    BY <1>6 DEF TryPrevious, HasPrevious
  <2>. HIDE DEF p, l
  <2>2. Siblings(N)[p - 1] \in Node
    BY <1>5, <2>1
  <2>. QED  BY <1>1, <2>1, <2>2, TryCaptures
<1>7. CASE TryNext
  <2>1. p < l /\ Try(Siblings(N)[p + 1])
    BY <1>4, <1>7 DEF TryNext, HasNext
  <2>. HIDE DEF p, l
  <2>2. Siblings(N)[p + 1] \in Node
    BY <1>5, <2>1
  <2>. QED  BY <1>1, <2>1, <2>2, TryCaptures
<1>. QED  BY <1>6, <1>7

LEMMA TryDescendantCaptures ==
  ASSUME SearchState, TryDescendant,
         NEW W, CapturesOK(stack, ret, status, captures, forest, W)
  PROVE  CapturesGoOn
<1>1. /\ stack # << >> /\ Top.fn \in Searches
      /\ Top.i + 1 \in Descendants(N) /\ Try(Top.i + 1)
      /\ captures' = captures /\ forest' = forest
  BY DEF TryDescendant, Searching, Searches
<1>2. Top.i + 1 \in Node
  BY <1>1 DEF Descendants
<1>. QED  BY <1>1, <1>2, TryCaptures

LEMMA TurnToNextCaptures ==
  ASSUME SearchState, TurnToNext,
         NEW W, CapturesOK(stack, ret, status, captures, forest, W)
  PROVE  CapturesGoOn
<1>. DEFINE b == [Top EXCEPT !.fn = "next", !.i = N]
            d == Len(stack)
<1>1. /\ stack # << >> /\ stack' = Append(Front(stack), b)
      /\ ret' = "none" /\ status' = status /\ captures' = captures /\ forest' = forest
  BY DEF TurnToNext, Searching
<1>2. Top \in Frame /\ N \in Node /\ N \in Nat
  BY <1>1, TopFacts, Laid DEF TreeIsLaidOut
<1>3. b \in Frame /\ b.fn = "next"
  BY <1>2 DEF Frame, Searches
<1>4. PICK t : t = stack'
  OBVIOUS
<1>5. /\ Len(t) = d /\ d \in Nat \ {0} /\ DOMAIN t = 1..d /\ DOMAIN stack = 1..d
      /\ \A k \in 1..(d - 1) : t[k] = stack[k]
      /\ t[d] = b
  <2>1. stack \in Seq(Frame) /\ t = Append(Front(stack), b)
    BY <1>1, <1>4 DEF SearchState, StackOK
  <2>. HIDE DEF b, Frame
  <2>2. t \in Seq(Frame) /\ Len(t) = Len(stack) /\ t # << >>
        /\ (\A k \in 1..(Len(stack) - 1) : t[k] = stack[k]) /\ t[Len(stack)] = b
    BY <1>1, <1>3, <2>1, Replaced
  <2>3. Len(stack) \in Nat \ {0} /\ DOMAIN stack = 1..Len(stack)
    BY <1>1, <2>1, FrontAndLast
  <2>. QED  BY <2>2, <2>3
<1>. HIDE DEF b, d
<1>6. status = "running"
  BY <1>1 DEF SearchState, TypeOK
<1>7. ASSUME NEW f \in 1..d PROVE Settled(t[f], W, captures)
  <2>1. f \in 1..(d - 1) \/ f = d
    BY <1>5
  <2>2. CASE f \in 1..(d - 1)
    BY <1>5, <2>2 DEF CapturesOK
  <2>3. CASE f = d
    BY <1>3, <1>5, <2>3 DEF Settled
  <2>. QED  BY <2>1, <2>2, <2>3
<1>8. CapturesOK(t, "none", status, captures, forest, W)
  BY <1>5, <1>6, <1>7 DEF CapturesOK
<1>. QED  BY <1>1, <1>4, <1>8 DEF CapturesGoOn

LEMMA CapturesGoOnStep ==
  ASSUME SearchState, CaptureState, Next
  PROVE  CapturesGoOn
<1>0. PICK W : CapturesOK(stack, ret, status, captures, forest, W)
  BY DEF CaptureState
<1>1. CASE MatchAnyTree  BY <1>0, <1>1, MatchAnyTreeCaptures
<1>2. CASE MatchAnyForest  BY <1>0, <1>2, MatchAnyForestCaptures
<1>3. CASE DieCombined \/ AbortConversion  BY <1>0, <1>3, GivingUpCaptures
<1>4. CASE \/ RejectType \/ RejectByCallback \/ CallbackRejects
           \/ RejectArity \/ ChildRejects \/ SearchFails
  BY <1>0, <1>4, FailureCaptures
<1>5. CASE StartCallback  BY <1>0, <1>5, StartCallbackCaptures
<1>6. CASE MatchChildless  BY <1>0, <1>6, MatchChildlessCaptures
<1>7. CASE FirstChild  BY <1>0, <1>7, FirstChildCaptures
<1>8. CASE ForestMatched  BY <1>0, <1>8, ForestMatchedCaptures
<1>9. CASE NextChild  BY <1>0, <1>9, NextChildCaptures
<1>10. CASE ChildrenMatched  BY <1>0, <1>10, ChildrenMatchedCaptures
<1>11. CASE TryPrevious \/ TryNext  BY <1>0, <1>11, TrySiblingCaptures
<1>12. CASE TryDescendant  BY <1>0, <1>12, TryDescendantCaptures
<1>13. CASE TurnToNext  BY <1>0, <1>13, TurnToNextCaptures
<1>14. CASE SearchSucceeds  BY <1>0, <1>14, SuccessCaptures
<1>. QED
  BY <1>1, <1>2, <1>3, <1>4, <1>5, <1>6, <1>7, <1>8, <1>9, <1>10, <1>11, <1>12,
     <1>13, <1>14 DEF Next

LEMMA CapturesAreFixed ==
  ASSUME problem' = problem, NEW W,
         CapturesOK(stack', ret', status', captures', forest', W)
  PROVE  CapturesOK(stack, ret, status, captures, forest, W)'
<1>1. /\ Matcher' = Matcher /\ Node' = Node /\ Kids' = Kids /\ Subs' = Subs
      /\ Current' = Current /\ Call' = Call
  BY DEF Matcher, Node, Subs, Kids, Current, Call
<1>2. /\ \A n : Siblings(n)' = Siblings(n)
      /\ \A m : OnlyForest(m)' <=> OnlyForest(m)
  BY <1>1 DEF Siblings, Parent, OnlyForest
<1>3. \A m, n : Related(Call[m].fn, n)' = Related(Call[m].fn, n)
  BY RelatedIsFixed DEF Call
<1>4. \A m, n : Caught(m, n, captures)' <=> Caught(m, n, captures')
  BY <1>1, <1>2, <1>3 DEF Caught
<1>5. \A m, n : PlacedIn(m, n, W, captures, forest)' <=> PlacedIn(m, n, W, captures', forest')
  BY <1>1, <1>2, <1>4 DEF PlacedIn
<1>6. IsFollowed(W, captures, forest)' <=> IsFollowed(W, captures', forest')
  BY <1>1, <1>5 DEF IsFollowed
<1>7. \A f : Settled(stack[f], W, captures)' <=> Settled(stack'[f], W, captures')
  BY <1>1, <1>2, <1>3 DEF Settled, Caught
<1>8. Told(stack[Len(stack)], W, captures)' <=> Told(stack'[Len(stack')], W, captures')
  BY <1>1, <1>2, <1>3 DEF Told, Caught, Reached
<1>. QED  BY <1>1, <1>2, <1>6, <1>7, <1>8 DEF CapturesOK

LEMMA CaptureStateStep ==
  ASSUME SearchState, CaptureState, [Next]_vars
  PROVE  CaptureState'
<1>1. CapturesGoOn /\ problem' = problem
  <2>1. CASE Next
    BY <2>1, CapturesGoOnStep, CapturesStep
  <2>2. CASE UNCHANGED vars
    BY <2>2 DEF vars, CaptureState, CapturesGoOn
  <2>. QED  BY <2>1, <2>2
<1>2. PICK W : CapturesOK(stack', ret', status', captures', forest', W)
  BY <1>1 DEF CapturesGoOn
<1>3. CapturesOK(stack, ret, status, captures, forest, W)'
  BY <1>1, <1>2, CapturesAreFixed
<1>. QED  BY <1>3 DEF CaptureState

LEMMA CaptureStateStarts ==
  ASSUME Init
  PROVE  CaptureState
<1>. DEFINE a == Match(1, problem.node)
<1>1. /\ stack = <<a>> /\ ret = "none" /\ status = "running"
      /\ captures = [m \in Matcher |-> Nil]
  BY DEF Init
<1>2. IsFollowed({}, captures, forest)
  BY DEF IsFollowed
<1>3. \A W, c : Settled(a, W, c)
  BY DEF Settled, Match
<1>. HIDE DEF a
<1>4. CapturesOK(stack, ret, status, captures, forest, {})
  BY <1>1, <1>2, <1>3 DEF CapturesOK
<1>. QED  BY <1>4 DEF CaptureState

\* The matcher that m is a child of, its place there, and the node of m if "f"
\* gives the node of that matcher.
Whole(m) == CHOOSE q \in Parents(Subs, m) : TRUE
PlaceIn(m) == CHOOSE j \in DOMAIN Subs[Whole(m)] : Subs[Whole(m)][j] = m
ImageAt(f, m) == IF m = 1 THEN problem.node ELSE Kids[f[Whole(m)]][PlaceIn(m)]

LEMMA ProperParts ==
  ASSUME MatchersAreLaidOut, NEW m \in Proper, m # 1
  PROVE  /\ Whole(m) \in Proper /\ Whole(m) < m
         /\ PlaceIn(m) \in DOMAIN Subs[Whole(m)] /\ Subs[Whole(m)][PlaceIn(m)] = m
<1>1. IsTable(Subs) /\ DOMAIN Subs = Matcher /\ m \in Matcher /\ 1 \in Lineage(Subs)[m]
  BY DEF MatchersAreLaidOut, IsTable, Matcher, Proper
<1>2. PICK q \in Parents(Subs, m) : 1 \in Lineage(Subs)[q]
  BY <1>1, LineageOf
<1>3. Whole(m) = q
  BY <1>1, <1>2 DEF Whole, MatchersAreLaidOut
<1>4. q \in Matcher /\ q < m /\ \E j \in DOMAIN Subs[q] : Subs[q][j] = m
  BY <1>1, <1>2, TableFacts DEF Parents, ToSet
<1>5. q \in Proper
  BY <1>2, <1>4 DEF Proper
<1>. QED  BY <1>3, <1>4, <1>5 DEF PlaceIn

LEMMA ImageUnfolds ==
  ASSUME MatchersAreLaidOut
  PROVE  \A m \in Proper : Image[m] = ImageAt(Image, m)
<1>. DEFINE L == Len(Subs)
            S == {j \in 0..L : \E f : \A m \in Proper : m <= j => f[m] = ImageAt(f, m)}
<1>1. L \in Nat /\ Proper \subseteq 1..L
  BY DEF MatchersAreLaidOut, Proper
<1>2. \A f, g : \A m \in Proper :
        (\A p \in Proper : p < m => f[p] = g[p]) => ImageAt(f, m) = ImageAt(g, m)
  BY ProperParts DEF ImageAt
<1>3. ASSUME NEW j \in 1..L, j - 1 \in S PROVE j \in S
  <2>1. PICK f : \A m \in Proper : m <= j - 1 => f[m] = ImageAt(f, m)
    BY <1>3
  <2>. DEFINE g == [m \in Proper |-> IF m = j THEN ImageAt(f, j) ELSE f[m]]
  <2>2. \A m \in Proper : m <= j => g[m] = ImageAt(f, m)
    <3>1. ASSUME NEW m \in Proper, m <= j PROVE m = j \/ m <= j - 1
      BY <1>1, <3>1
    <3>. QED  BY <2>1, <3>1
  <2>3. \A m \in Proper : m <= j => \A p \in Proper : p < m => g[p] = f[p]
    BY <1>1
  <2>. HIDE DEF g
  <2>4. \A m \in Proper : m <= j => ImageAt(g, m) = ImageAt(f, m)
    BY <1>2, <2>3
  <2>5. \A m \in Proper : m <= j => g[m] = ImageAt(g, m)
    BY <2>2, <2>4
  <2>. QED  BY <1>1, <2>5
<1>4. L \in S
  <2>1. 0 \in S
    BY <1>1
  <2>2. \A k \in (0 + 1)..L : k - 1 \in S => k \in S
    BY <1>3
  <2>. HIDE DEF S, L
  <2>3. 0..L \subseteq S
    BY <1>1, <2>1, <2>2, IntervalInduction
  <2>. QED  BY <1>1, <2>3
<1>5. PICK f : \A m \in Proper : f[m] = ImageAt(f, m)
  BY <1>1, <1>4
<1>. DEFINE image == [m \in Proper |-> f[m]]
<1>6. \A m \in Proper : ImageAt(image, m) = ImageAt(f, m)
  BY <1>2
<1>7. image = [m \in Proper |-> ImageAt(image, m)]
  BY <1>5, <1>6
<1>. HIDE DEF image
<1>8. Image = CHOOSE g : g = [m \in Proper |-> ImageAt(g, m)]
  BY Zenon DEF Image, ImageAt, Whole, PlaceIn
<1>9. Image = [m \in Proper |-> ImageAt(Image, m)]
  BY <1>7, <1>8, Zenon
<1>. QED  BY <1>9

\* From the root on, the captures of a successful match follow its image.
LEMMA ImageIsFollowed ==
  ASSUME MatchersAreLaidOut,
         NEW W, IsFollowed(W, captures, forest), <<1, problem.node>> \in W
  PROVE  \A m \in Proper : m \in Matcher /\ Image[m] \in Node /\ <<m, Image[m]>> \in W
<1>. DEFINE Bad == {m \in Proper : <<m, Image[m]>> \notin W}
<1>1. Proper \subseteq Matcher /\ Matcher \subseteq Nat /\ W \in SUBSET (Matcher \X Node)
  BY DEF MatchersAreLaidOut, Proper, IsFollowed
<1>2. ASSUME Bad # {} PROVE FALSE
  <2>1. PICK d \in Bad : \A e \in Bad : d <= e
    <3>1. Bad \subseteq Nat
      BY <1>1
    <3>. HIDE DEF Bad
    <3>. QED  BY <1>2, <3>1, LeastElement
  <2>2. Image[d] = ImageAt(Image, d) /\ d \in Proper /\ <<d, Image[d]>> \notin W
    BY <2>1, ImageUnfolds
  <2>3. d # 1
    BY <2>2 DEF ImageAt
  <2>. DEFINE p == Whole(d)
              j == PlaceIn(d)
  <2>4. p \in Proper /\ p < d /\ j \in DOMAIN Subs[p] /\ Subs[p][j] = d
    BY <2>2, <2>3, ProperParts
  <2>5. Image[d] = Kids[Image[p]][j]
    BY <2>2, <2>3 DEF ImageAt
  <2>. HIDE DEF p, j
  <2>6. p \notin Bad
    <3>1. p \in Nat /\ d \in Nat
      BY <1>1, <2>2, <2>4
    <3>2. ~ (d <= p)
      BY <2>4, <3>1
    <3>. HIDE DEF Bad
    <3>. QED  BY <2>1, <3>2
  <2>7. <<p, Image[p]>> \in W
    BY <2>4, <2>6
  <2>8. p \in Matcher /\ Image[p] \in Node
    BY <1>1, <2>7
  <2>9. PlacedIn(p, Image[p], W, captures, forest)
    BY <2>7, <2>8 DEF IsFollowed
  <2>10. Current[p] # "anyForest"
    <3>1. Subs[p] # << >>
      BY <2>4
    <3>. QED  BY <2>8, <3>1 DEF MatchersAreLaidOut
  <2>11. <<Subs[p][j], Kids[Image[p]][j]>> \in W
    BY <2>4, <2>9, <2>10 DEF PlacedIn
  <2>. QED  BY <2>2, <2>4, <2>5, <2>11
<1>. QED  BY <1>1, <1>2

\* A match that succeeds leaves the nodes of that match in the captures, and in
\* those of the callbacks nodes found from there, whatever was tried on the way.
THEOREM CapturesFollow == Spec => []CapturesFollowTheMatch
<1>1. SearchState /\ CaptureState => CapturesFollowTheMatch
  <2>. SUFFICES ASSUME SearchState, CaptureState, status = "yes", NEW m \in Proper
                PROVE  IF Current[m] = "anyForest" THEN forest[m] = Siblings(Image[m])
                       ELSE /\ captures[m] = IF OnlyForest(m) THEN Nil ELSE Image[m]
                            /\ Caught(m, Image[m], captures)
    BY DEF CapturesFollowTheMatch, Caught
  <2>1. PICK W : IsFollowed(W, captures, forest) /\ <<1, problem.node>> \in W
    BY DEF CaptureState, CapturesOK
  <2>2. m \in Matcher /\ Image[m] \in Node /\ <<m, Image[m]>> \in W
    BY <2>1, Laid, ImageIsFollowed
  <2>3. PlacedIn(m, Image[m], W, captures, forest)
    BY <2>1, <2>2 DEF IsFollowed
  <2>. QED  BY <2>3 DEF PlacedIn
<1>2. Init => CaptureState
  BY CaptureStateStarts
<1>3. SearchState /\ CaptureState /\ [Next]_vars => CaptureState'
  BY CaptureStateStep
<1>. QED  BY <1>1, <1>2, <1>3, SearchStateHolds, PTL DEF Spec

=============================================================================
