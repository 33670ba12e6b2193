----------------------------- MODULE BuildProofs -----------------------------
(***************************************************************************)
(* Theorem about build, and the copies of captured trees in it: what the   *)
(* recursion of insertAt makes, for all descriptions without expansions.   *)
(***************************************************************************)
EXTENDS RewriterProofs

-----------------------------------------------------------------------------
(* The tree that is described *)

Whole(p) == Described(p.expression, Subtree(p.tree, p.at))

IsDirectBuilder(builder) ==
  \A q \in DOMAIN builder :
    /\ builder[q].type # "expansion" /\ builder[q].from # "merged" /\ IsMade(builder[q])
    /\ builder[q].type # "leaf" => Append(q, 1) \in DOMAIN builder

IsWhole(tree) ==
  /\ << >> \in DOMAIN tree /\ tree = [q \in DOMAIN tree |-> tree[q]]
  /\ \A q \in DOMAIN tree :
       q \in Position /\ \A p \in Position : IsPrefix(p, q) => p \in DOMAIN tree

\* The nodes of a builder are those of the tree from base on, but for what a lazy
\* leaf stands for.
Stands(builder, base, tree) ==
  /\ base \in Position
  /\ \A r \in DOMAIN builder :
       /\ base \o r \in DOMAIN tree
       /\ builder[r].from # "subtree" =>
            /\ tree[base \o r] = Inserted(builder[r])
            /\ \A i \in Nat \ {0} :
                 Append(base \o r, i) \in DOMAIN tree <=> Append(r, i) \in DOMAIN builder

IsDescribed(D, expression, tree) ==
  /\ \A q \in DOMAIN D : q \in Position
  /\ D = [q \in DOMAIN D |-> D[q]]
  /\ \A q \in DOMAIN expression : q \in DOMAIN D
  /\ \A q \in DOMAIN expression :
       q \notin LazyLeaves(expression) => D[q] = Inserted(expression[q])
  /\ \A l \in LazyLeaves(expression) : \A r \in DOMAIN tree :
       l \o r \in DOMAIN D /\ D[l \o r] = Copied(tree[r])
  /\ \A q \in DOMAIN D :
       \/ q \in DOMAIN expression /\ q \notin LazyLeaves(expression)
       \/ \E l \in LazyLeaves(expression) : \E r \in DOMAIN tree : q = l \o r
  /\ \A l \in LazyLeaves(expression) : \A q \in DOMAIN expression : IsPrefix(l, q) => q = l

LEMMA DescribedFacts ==
  ASSUME NEW expression, IsShape(expression), NEW tree, IsShape(tree),
         \A l \in LazyLeaves(expression) : Append(l, 1) \notin DOMAIN expression
  PROVE  IsDescribed(Described(expression, tree), expression, tree)
<1>. DEFINE lazy == LazyLeaves(expression)
            copies == UNION {{q \o r : r \in DOMAIN tree} : q \in lazy}
            Above(q) == CHOOSE l \in lazy : IsPrefix(l, q)
            Node(q) == IF q \in copies THEN Copied(tree[From(Above(q), q)])
                                       ELSE Inserted(expression[q])
            D == Described(expression, tree)
<1>0. D = [q \in (DOMAIN expression \ lazy) \cup copies |-> Node(q)]
  BY DEF Described
<1>. HIDE DEF D, Node, copies
<1>1. /\ DOMAIN D = (DOMAIN expression \ lazy) \cup copies
      /\ D = [q \in DOMAIN D |-> D[q]]
      /\ \A q \in DOMAIN D : D[q] = Node(q)
  BY <1>0
<1>2. /\ \A q \in DOMAIN expression : q \in Position
      /\ \A q \in DOMAIN tree : q \in Position
      /\ << >> \in DOMAIN tree /\ << >> \in Position
  BY ShapeFacts DEF Position
<1>3. \A l \in lazy : l \in DOMAIN expression /\ l \in Position
  BY <1>2 DEF LazyLeaves
<1>4. ASSUME NEW l \in lazy, NEW q \in DOMAIN expression, IsPrefix(l, q) PROVE q = l
  BY <1>3, <1>4, WithoutChildren
<1>5. \A q : q \in copies <=> \E l \in lazy : \E r \in DOMAIN tree : q = l \o r
  BY DEF copies
<1>6. ASSUME NEW l \in lazy, NEW r \in DOMAIN tree
      PROVE  l \o r \in Position /\ Above(l \o r) = l /\ From(l, l \o r) = r
  <2>1. l \in Position /\ r \in Position
    BY <1>2, <1>3
  <2>2. l \o r \in Position /\ IsPrefix(l, l \o r) /\ From(l, l \o r) = r
    BY <2>1, ConcatPosition
  <2>. DEFINE q == l \o r
  <2>3. \A m \in lazy : IsPrefix(m, q) => m = l
    <3>1. SUFFICES ASSUME NEW m \in lazy, IsPrefix(m, q) PROVE m = l
      OBVIOUS
    <3>2. m \in Position /\ m \in DOMAIN expression /\ l \in DOMAIN expression
      BY <1>3
    <3>3. q \in Position /\ IsPrefix(l, q)
      BY <2>2
    <3>. HIDE DEF q
    <3>4. IsPrefix(m, l) \/ IsPrefix(l, m)
      BY <2>1, <3>1, <3>2, <3>3, PrefixOrder
    <3>. QED  BY <1>4, <3>2, <3>4
  <2>4. IsPrefix(l, q)
    BY <2>2
  <2>. HIDE DEF q
  <2>5. Above(q) = l
    BY <2>3, <2>4
  <2>. QED  BY <2>2, <2>5 DEF q
<1>. HIDE DEF copies, Above
<1>7. ASSUME NEW q \in DOMAIN D PROVE q \in Position
  <2>1. q \in DOMAIN expression \/ q \in copies
    BY <1>1
  <2>2. CASE q \in copies
    <3>1. PICK l \in lazy : \E r \in DOMAIN tree : q = l \o r
      BY <1>5, <2>2
    <3>. QED  BY <1>6, <3>1
  <2>. QED  BY <1>2, <2>1, <2>2
<1>8. ASSUME NEW q \in DOMAIN expression
      PROVE  /\ q \in DOMAIN D
             /\ q \notin lazy => q \notin copies
  <2>1. CASE q \in lazy
    <3>1. q \o << >> = q
      BY <1>2, ConcatPosition
    <3>2. q \in copies
      BY <1>2, <1>5, <2>1, <3>1
    <3>. QED  BY <1>1, <2>1, <3>2
  <2>2. CASE q \notin lazy
    <3>1. ASSUME q \in copies PROVE FALSE
      <4>1. PICK l \in lazy : \E r \in DOMAIN tree : q = l \o r
        BY <1>5, <3>1
      <4>2. IsPrefix(l, q)
        BY <1>2, <1>3, <4>1, ConcatPosition
      <4>. QED  BY <1>4, <2>2, <4>2
    <3>. QED  BY <1>1, <2>2, <3>1
  <2>. QED  BY <2>1, <2>2
<1>9. \A q \in DOMAIN expression : q \notin lazy => D[q] = Inserted(expression[q])
  BY <1>1, <1>8 DEF Node
<1>10. ASSUME NEW l \in lazy, NEW r \in DOMAIN tree
       PROVE  l \o r \in DOMAIN D /\ D[l \o r] = Copied(tree[r])
  <2>1. l \o r \in copies /\ l \o r \in DOMAIN D
    BY <1>1, <1>5
  <2>2. D[l \o r] = Copied(tree[From(Above(l \o r), l \o r)])
    BY <1>1, <2>1 DEF Node
  <2>. QED  BY <1>6, <2>1, <2>2
<1>11. \A q \in DOMAIN D :
         \/ q \in DOMAIN expression /\ q \notin lazy
         \/ \E l \in lazy : \E r \in DOMAIN tree : q = l \o r
  BY <1>1, <1>5
<1>12. IsDescribed(D, expression, tree)
  BY <1>1, <1>4, <1>7, <1>8, <1>9, <1>10, <1>11 DEF IsDescribed
<1>. QED  BY <1>12 DEF D

LEMMA DescribedIsWhole ==
  ASSUME NEW expression, IsShape(expression), NEW tree, IsShape(tree),
         \A l \in LazyLeaves(expression) : Append(l, 1) \notin DOMAIN expression
  PROVE  IsWhole(Described(expression, tree))
<1>. DEFINE D == Described(expression, tree)
            lazy == LazyLeaves(expression)
<1>1. /\ \A q \in DOMAIN D : q \in Position
      /\ D = [q \in DOMAIN D |-> D[q]]
      /\ \A q \in DOMAIN expression : q \in DOMAIN D
      /\ \A l \in lazy : \A r \in DOMAIN tree : l \o r \in DOMAIN D
      /\ \A q \in DOMAIN D :
           \/ q \in DOMAIN expression
           \/ \E l \in lazy : \E r \in DOMAIN tree : q = l \o r
  <2>1. IsDescribed(D, expression, tree)
    BY DescribedFacts
  <2>. QED  BY <2>1 DEF IsDescribed
<1>. HIDE DEF D
<1>2. << >> \in DOMAIN D
  BY <1>1, ShapeFacts
<1>3. ASSUME NEW q \in DOMAIN D, NEW p \in Position, IsPrefix(p, q) PROVE p \in DOMAIN D
  <2>1. CASE q \in DOMAIN expression
    BY <1>1, <1>3, <2>1, AboveAreThere
  <2>2. CASE \E l \in lazy : \E r \in DOMAIN tree : q = l \o r
    <3>1. PICK l \in lazy : \E r \in DOMAIN tree : q = l \o r
      BY <2>2
    <3>2. PICK r \in DOMAIN tree : q = l \o r
      BY <3>1
    <3>3. l \in DOMAIN expression /\ l \in Position /\ r \in Position /\ q \in Position
      BY <1>1, ShapeFacts DEF LazyLeaves
    <3>4. IsPrefix(l, q)
      BY <3>2, <3>3, ConcatPosition
    <3>5. CASE IsPrefix(p, l)
      BY <1>1, <3>3, <3>5, AboveAreThere
    <3>6. CASE IsPrefix(l, p)
      <4>. DEFINE y == From(l, p)
      <4>1. y \in Position /\ l \o y = p
        BY <3>3, <3>6, PrefixFrom
      <4>. HIDE DEF y
      <4>2. IsPrefix(y, r)
        BY <1>3, <3>2, <3>3, <4>1, PrefixConcat
      <4>3. y \in DOMAIN tree
        BY <4>1, <4>2, AboveAreThere
      <4>. QED  BY <1>1, <4>1, <4>3
    <3>. QED  BY <1>3, <3>3, <3>4, <3>5, <3>6, PrefixOrder
  <2>. QED  BY <1>1, <2>1, <2>2
<1>4. IsWhole(D)
  BY <1>1, <1>2, <1>3 DEF IsWhole
<1>. QED  BY <1>4 DEF D

LEMMA ExpressionStands ==
  ASSUME NEW expression, IsShape(expression), NEW tree, IsShape(tree),
         NEW D, IsDescribed(D, expression, tree)
  PROVE  Stands(expression, << >>, D)
<1>1. /\ \A q \in DOMAIN expression : q \in Position
      /\ \A q \in DOMAIN tree : q \in Position
      /\ << >> \in Position
  BY ShapeFacts DEF Position
<1>2. ASSUME NEW r \in DOMAIN expression
      PROVE  /\ << >> \o r \in DOMAIN D
             /\ expression[r].from # "subtree" =>
                  /\ D[<< >> \o r] = Inserted(expression[r])
                  /\ \A i \in Nat \ {0} :
                       Append(<< >> \o r, i) \in DOMAIN D <=> Append(r, i) \in DOMAIN expression
  <2>1. << >> \o r = r /\ r \in Position
    BY <1>1, ConcatPosition
  <2>2. r \in DOMAIN D
    BY DEF IsDescribed
  <2>3. ASSUME expression[r].from # "subtree"
        PROVE  r \notin LazyLeaves(expression) /\ D[r] = Inserted(expression[r])
    BY <2>3 DEF IsDescribed, LazyLeaves
  <2>4. ASSUME expression[r].from # "subtree", NEW i \in Nat \ {0}
        PROVE  Append(r, i) \in DOMAIN D <=> Append(r, i) \in DOMAIN expression
    <3>1. Append(r, i) \in DOMAIN expression => Append(r, i) \in DOMAIN D
      BY DEF IsDescribed
    <3>2. ASSUME NEW l \in LazyLeaves(expression), NEW t \in DOMAIN tree, Append(r, i) = l \o t
          PROVE  Append(r, i) \in DOMAIN expression
      <4>1. l \in Position /\ t \in Position /\ l \in DOMAIN expression
        BY <1>1 DEF LazyLeaves
      <4>2. IsPrefix(l, Append(r, i))
        BY <3>2, <4>1, ConcatPosition
      <4>3. l = Append(r, i) \/ IsPrefix(l, r)
        BY <2>1, <4>1, <4>2, PrefixAppend
      <4>4. ~ IsPrefix(l, r)
        BY <2>3, <2>4 DEF IsDescribed
      <4>. QED  BY <4>1, <4>3, <4>4
    <3>. QED  BY <3>1, <3>2 DEF IsDescribed
  <2>. QED  BY <2>1, <2>2, <2>3, <2>4
<1>. QED  BY <1>1, <1>2 DEF Stands

LEMMA CopyStands ==
  ASSUME NEW expression, IsShape(expression), NEW tree, IsShape(tree),
         NEW D, IsDescribed(D, expression, tree), NEW l \in LazyLeaves(expression),
         NEW builder, DOMAIN builder = DOMAIN tree,
         \A r \in DOMAIN tree : Inserted(builder[r]) = Copied(tree[r])
  PROVE  Stands(builder, l, D)
<1>1. /\ \A q \in DOMAIN expression : q \in Position
      /\ \A q \in DOMAIN tree : q \in Position
  BY ShapeFacts
<1>2. \A m \in LazyLeaves(expression) : m \in DOMAIN expression /\ m \in Position
  BY <1>1 DEF LazyLeaves
<1>3. ASSUME NEW r \in DOMAIN tree
      PROVE  l \o r \in DOMAIN D /\ D[l \o r] = Inserted(builder[r])
  BY DEF IsDescribed
<1>4. ASSUME NEW r \in DOMAIN tree, NEW i \in Nat \ {0}
      PROVE  Append(l \o r, i) \in DOMAIN D <=> Append(r, i) \in DOMAIN tree
  <2>1. l \in Position /\ r \in Position
    BY <1>1, <1>2
  <2>2. /\ Append(l \o r, i) = l \o Append(r, i)
        /\ Append(r, i) \in Position /\ Append(r, i) # << >>
    <3>1. l \o Append(r, i) = Append(l \o r, i)
      BY ONLY <2>1, i \in Nat \ {0}, ConcatAppend
    <3>2. Append(r, i) \in Position /\ Append(r, i) # << >>
      BY ONLY <2>1, i \in Nat \ {0}, AppendPosition
    <3>. QED  BY <3>1, <3>2
  <2>3. Append(r, i) \in DOMAIN tree => Append(l \o r, i) \in DOMAIN D
    BY <2>2 DEF IsDescribed
  <2>. DEFINE q == l \o Append(r, i)
  <2>4. q \in Position /\ IsPrefix(l, q) /\ From(l, q) = Append(r, i) /\ q # l
    BY <2>1, <2>2, ConcatPosition
  <2>. HIDE DEF q
  <2>5. ASSUME q \in DOMAIN D PROVE Append(r, i) \in DOMAIN tree
    <3>1. q \notin DOMAIN expression
      BY <2>4 DEF IsDescribed
    <3>2. PICK m \in LazyLeaves(expression) : \E t \in DOMAIN tree : q = m \o t
      BY <2>5, <3>1 DEF IsDescribed
    <3>3. PICK t \in DOMAIN tree : q = m \o t
      BY <3>2
    <3>4. m \in Position /\ t \in Position /\ m \in DOMAIN expression /\ l \in DOMAIN expression
      BY <1>1, <1>2
    <3>5. IsPrefix(m, q) /\ From(m, q) = t
      BY <3>3, <3>4, ConcatPosition
    <3>6. IsPrefix(l, m) \/ IsPrefix(m, l)
      BY <2>1, <2>4, <3>4, <3>5, PrefixOrder
    <3>7. l = m
      BY <3>4, <3>6 DEF IsDescribed
    <3>. QED  BY <2>4, <3>5, <3>7
  <2>. QED  BY <2>2, <2>3, <2>5 DEF q
<1>. QED  BY <1>2, <1>3, <1>4 DEF Stands

IsCopyOf(node, built) ==
  built = BuilderNode([node EXCEPT !.coincident = << >>, !.permutable = FALSE], "value")

LEMMA CopiedIsMade ==
  ASSUME NEW node, IsNode(node), IsMade(node), node.type # "expansion",
         NEW built, IsCopyOf(node, built)
  PROVE  /\ Inserted(built) = Copied(node) /\ IsMade(built)
         /\ built.type = node.type /\ built.from = "value"
<1>1. /\ built.type = node.type /\ built.from = "value" /\ built.stmts = node.stmts
      /\ built.members = node.members /\ built.coincident = << >>
      /\ built.permutable = FALSE /\ built.expands = node.expands /\ built.name = node.name
  BY DEF IsCopyOf, BuilderNode, IsNode, NodeIn
<1>2. CASE node.type = "band"
  <2>1. Inserted(built) = BandFor(built)
    BY <1>1, <1>2 DEF Inserted
  <2>. DEFINE bare == [node EXCEPT !.coincident = << >>, !.permutable = FALSE]
  <2>2. bare.members = node.members /\ bare.coincident = << >> /\ bare.permutable = FALSE
    BY DEF IsNode, NodeIn
  <2>3. Copied(node) = BandFor(bare)
    BY <1>2 DEF Copied
  <2>. HIDE DEF bare
  <2>4. BandFor(built) = BandFor(bare)
    BY <1>1, <2>2 DEF BandFor
  <2>5. IsMade(built)
    <3>1. node.members = node.members /\ node.stmts = {} /\ node.expands = {} /\ node.name = None
      BY <1>2 DEF IsMade, IsNode, NodeIn, Band, NodeOf
    <3>. QED  BY <1>1, <1>2, <3>1 DEF IsMade, NodeIn, Band, NodeOf
  <2>. QED  BY <1>1, <2>1, <2>3, <2>4, <2>5
<1>3. CASE node.type # "band"
  <2>1. node.coincident = << >> /\ node.permutable = FALSE
    BY <1>3 DEF IsMade, IsNode, NodeIn, NodeOf, Statements, Named
  <2>2. NodeIn(built) = NodeIn(node)
    BY <1>1, <2>1 DEF NodeIn
  <2>3. Inserted(built) = Copied(node)
    BY <1>1, <1>3, <2>2 DEF Inserted, Copied, IsNode
  <2>4. IsMade(built)
    BY <1>1, <1>3, <2>2 DEF IsMade
  <2>. QED  BY <1>1, <2>3, <2>4
<1>. QED  BY <1>2, <1>3

LEMMA CopyIsDirect ==
  ASSUME NEW p \in Problems, IsSchedule(p.tree), IsDirect(p)
  PROVE  /\ \A r \in DOMAIN Subtree(p.tree, p.at) :
              Inserted(Copy(p)[r]) = Copied(Subtree(p.tree, p.at)[r])
         /\ IsDirectBuilder(Copy(p)) /\ \A r \in DOMAIN Copy(p) : Copy(p)[r].from = "value"
         /\ DOMAIN Copy(p) = DOMAIN Subtree(p.tree, p.at)
<1>. DEFINE tree == Subtree(p.tree, p.at)
<1>1. IsTree(p.tree) /\ IsShape(p.tree) /\ p.at \in DOMAIN p.tree /\ p.at \in Position
  BY RewriterAssumption, ShapeFacts DEF IsTree
<1>2. IsTree(tree) /\ IsShape(tree)
  BY <1>1, SubtreeIsTree DEF IsTree
<1>3. ASSUME NEW r \in DOMAIN tree
      PROVE  /\ IsNode(tree[r]) /\ IsMade(tree[r]) /\ tree[r].type # "expansion"
             /\ tree[r].type = "leaf" <=> Append(r, 1) \notin DOMAIN tree
  <2>1. /\ r \in Position /\ p.at \o r \in DOMAIN p.tree /\ tree[r] = p.tree[p.at \o r]
    BY <1>1, SubtreeFacts
  <2>2. IsPrefix(p.at, p.at \o r)
    BY <1>1, <2>1, ConcatPosition
  <2>3. p.at \o r \in Below(p.tree, p.at)
    BY <2>1, <2>2 DEF Below
  <2>4. IsMade(p.tree[p.at \o r]) /\ p.tree[p.at \o r].type # "expansion"
    BY <2>3 DEF IsDirect
  <2>. HIDE DEF tree
  <2>. QED  BY <1>2, <2>1, <2>4 DEF IsTree
<1>4. Copy(p) = [q \in DOMAIN tree |->
        BuilderNode([tree[q] EXCEPT !.coincident = << >>, !.permutable = FALSE], "value")]
  BY DEF Copy, SubtreeBuilder
<1>. HIDE DEF tree
<1>5. DOMAIN Copy(p) = DOMAIN tree /\ \A r \in DOMAIN tree : IsCopyOf(tree[r], Copy(p)[r])
  BY <1>4 DEF IsCopyOf
<1>6. ASSUME NEW r \in DOMAIN tree
      PROVE  /\ Inserted(Copy(p)[r]) = Copied(tree[r]) /\ IsMade(Copy(p)[r])
             /\ Copy(p)[r].type = tree[r].type /\ Copy(p)[r].from = "value"
  BY <1>3, <1>5, CopiedIsMade
<1>7. IsDirectBuilder(Copy(p))
  BY <1>3, <1>5, <1>6 DEF IsDirectBuilder
<1>. QED  BY <1>5, <1>6, <1>7 DEF tree

Good(p) == p.op = "build" /\ IsDirect(p) /\ Verdict(p)

LEMMA WholeFacts ==
  ASSUME Plain, NEW p \in Problems, Good(p)
  PROVE  /\ IsWhole(Whole(p)) /\ Stands(p.expression, << >>, Whole(p))
         /\ \A l \in LazyLeaves(p.expression) : Stands(Copy(p), l, Whole(p))
         /\ IsDirectBuilder(p.expression) /\ IsDirectBuilder(Copy(p))
         /\ \A r \in DOMAIN Copy(p) : Copy(p)[r].from = "value"
<1>. DEFINE tree == Subtree(p.tree, p.at)
<1>1. IsTree(p.tree) /\ IsShape(p.tree) /\ p.at \in DOMAIN p.tree /\ IsShape(p.expression)
  BY RewriterAssumption DEF IsTree, IsDescription
<1>2. IsShape(tree)
  BY <1>1, SubtreeShape
<1>3. IsSchedule(p.tree) /\ IsDirect(p) /\ Verdict(p) /\ IsOrdinary(p.expression)
  BY DEF Plain, IsPlain, Good
<1>4. ASSUME NEW l \in LazyLeaves(p.expression) PROVE Append(l, 1) \notin DOMAIN p.expression
  <2>1. l \in DOMAIN p.expression /\ p.expression[l].from = "subtree"
    BY DEF LazyLeaves
  <2>2. p.expression[l].type = "leaf"
    BY <1>3, <2>1 DEF IsOrdinary
  <2>3. NChildren(p.expression, l) = 0
    BY <1>3, <2>1, <2>2 DEF Verdict, AllFine, Fine
  <2>. QED  BY <1>1, <2>1, <2>3, ChildrenAreNumbered
<1>5. /\ \A r \in DOMAIN tree : Inserted(Copy(p)[r]) = Copied(tree[r])
      /\ IsDirectBuilder(Copy(p)) /\ \A r \in DOMAIN Copy(p) : Copy(p)[r].from = "value"
      /\ DOMAIN Copy(p) = DOMAIN tree
  BY <1>3, CopyIsDirect
<1>. HIDE DEF tree
<1>6. IsDescribed(Described(p.expression, tree), p.expression, tree)
  BY <1>1, <1>2, <1>4, DescribedFacts
<1>7. IsWhole(Described(p.expression, tree))
  BY <1>1, <1>2, <1>4, DescribedIsWhole
<1>. DEFINE D == Described(p.expression, tree)
<1>8. IsDescribed(D, p.expression, tree) /\ IsWhole(D)
  BY <1>6, <1>7
<1>9. Whole(p) = D
  BY DEF Whole, tree
<1>. HIDE DEF D
<1>10. Stands(p.expression, << >>, D)
  BY <1>1, <1>2, <1>8, ExpressionStands
<1>11. ASSUME NEW l \in LazyLeaves(p.expression) PROVE Stands(Copy(p), l, D)
  BY <1>1, <1>2, <1>5, <1>8, CopyStands
<1>12. IsDirectBuilder(p.expression)
  BY <1>3 DEF IsDirect, IsDirectBuilder
<1>. QED  BY <1>5, <1>8, <1>9, <1>10, <1>11, <1>12

(* What is built when the cursor is at a position *)

Built(D, g, ret) ==
  {q \in DOMAIN D :
     \/ Passed(q, g, ret)
     \/ q # << >> /\ Passed(Front(q), g, ret) /\ D[Front(q)].type \in SeveralTypes}

\* A tree in which some nodes of D, from g on, are in place, with a leaf wherever
\* the next is missing.
Grows(tree, D, g, done) ==
  /\ \A r \in Position :
       r \in DOMAIN tree <=> g \o r \in DOMAIN D /\ (r = << >> \/ g \o Front(r) \in done)
  /\ \A r \in DOMAIN tree :
       /\ g \o r \in done => tree[r] = D[g \o r]
       /\ g \o r \notin done => tree[r] = NodeOf("leaf")

LEMMA WholeDomain ==
  ASSUME NEW D, IsWhole(D)
  PROVE  /\ << >> \in DOMAIN D
         /\ \A q \in DOMAIN D : q \in Position /\ (q # << >> => Front(q) \in DOMAIN D)
         /\ \A p \in Position, q \in DOMAIN D : IsPrefix(p, q) => p \in DOMAIN D
<1>1. /\ << >> \in DOMAIN D /\ \A q \in DOMAIN D : q \in Position
      /\ \A p \in Position, q \in DOMAIN D : IsPrefix(p, q) => p \in DOMAIN D
  BY DEF IsWhole
<1>2. ASSUME NEW q \in DOMAIN D, q # << >> PROVE Front(q) \in DOMAIN D
  <2>1. q \in Position
    BY <1>1
  <2>2. Front(q) \in Position /\ IsPrefix(Front(q), q)
    BY <1>2, <2>1, FrontPosition, PrefixFront
  <2>. QED  BY <1>1, <2>2
<1>. QED  BY <1>1, <1>2

LEMMA NotYetPassed ==
  ASSUME NEW g \in Position, NEW q \in Position, IsPrefix(g, q)
  PROVE  ~ Passed(q, g, FALSE)
<1>1. ~ (IsPrefix(q, g) /\ q # g)
  BY PrefixOrder
<1>2. ASSUME NEW p \in Position, NEW i \in Nat \ {0}, NEW j \in Nat \ {0},
             IsPrefix(Append(p, i), q), IsPrefix(Append(p, j), g)
      PROVE  i = j
  <2>. DEFINE x == Append(p, i)
              y == Append(p, j)
  <2>1. /\ x \in Position /\ y \in Position /\ Front(x) = p /\ Front(y) = p
        /\ Last(x) = i /\ Last(y) = j /\ x # << >> /\ y # << >>
        /\ Len(x) = Len(p) + 1 /\ Len(y) = Len(p) + 1
        /\ IsPrefix(x, q) /\ IsPrefix(y, g)
    BY <1>2, AppendPosition
  <2>. HIDE DEF x, y
  <2>2. IsPrefix(y, q)
    BY <2>1, PrefixOrder
  <2>3. IsPrefix(x, y) \/ IsPrefix(y, x)
    BY <2>1, <2>2, PrefixOrder
  <2>4. ~ IsPrefix(x, p) /\ ~ IsPrefix(y, p)
    <3>1. Len(p) \in Nat /\ ~ (Len(p) + 1 <= Len(p))
      BY DEF Position
    <3>. QED  BY <2>1, <3>1, PrefixEntries
  <2>5. x = y
    BY <2>1, <2>3, <2>4, PrefixFront
  <2>. QED  BY <2>1, <2>5
<1>3. ~ Before(q, g)
  <2>1. \A i \in Nat \ {0}, j \in Nat \ {0} : i < j => i # j
    OBVIOUS
  <2>. QED  BY <1>2, <2>1 DEF Before
<1>. QED  BY <1>1, <1>3 DEF Passed

LEMMA NothingBuiltBelow ==
  ASSUME NEW D, IsWhole(D), NEW g \in DOMAIN D,
         g # << >> => D[Front(g)].type \notin SeveralTypes,
         NEW q \in Built(D, g, FALSE)
  PROVE  ~ IsPrefix(g, q)
<1>1. g \in Position /\ q \in DOMAIN D /\ q \in Position
  BY WholeDomain DEF Built
<1>2. SUFFICES ASSUME IsPrefix(g, q) PROVE FALSE
  OBVIOUS
<1>3. ~ Passed(q, g, FALSE)
  BY <1>1, <1>2, NotYetPassed
<1>4. q # << >> /\ Passed(Front(q), g, FALSE) /\ D[Front(q)].type \in SeveralTypes
  BY <1>3 DEF Built
<1>5. q # g
  BY <1>4
<1>6. Front(q) \in Position /\ IsPrefix(g, Front(q))
  BY <1>1, <1>2, <1>4, <1>5, PrefixFront, FrontPosition
<1>. QED  BY <1>1, <1>4, <1>6, NotYetPassed

LEMMA PassedAtFirst ==
  ASSUME NEW q \in Position, NEW g \in Position
  PROVE  Passed(q, Append(g, 1), FALSE) <=> q = g \/ Passed(q, g, FALSE)
<1>1. 1 \in Nat \ {0} /\ \A i \in Nat \ {0} : ~ (i < 1)
  OBVIOUS
<1>2. Passed(q, Append(g, 1), FALSE) <=>
        \/ q = g \/ Passed(q, g, FALSE)
        \/ \E i \in Nat \ {0} : i < 1 /\ IsPrefix(Append(g, i), q)
        \/ FALSE /\ IsPrefix(Append(g, 1), q)
  BY <1>1, PassedAtChild
<1>. QED  BY <1>1, <1>2

LEMMA BuiltBelowSingle ==
  ASSUME NEW D, IsWhole(D), NEW g \in DOMAIN D, D[g].type \notin SeveralTypes
  PROVE  Built(D, Append(g, 1), FALSE) = Built(D, g, FALSE) \cup {g}
<1>1. g \in Position /\ 1 \in Nat \ {0} /\ \A i \in Nat \ {0} : ~ (i < 1)
  BY WholeDomain
<1>2. ASSUME NEW q \in Position
      PROVE  Passed(q, Append(g, 1), FALSE) <=> q = g \/ Passed(q, g, FALSE)
  BY <1>1, PassedAtFirst
<1>3. ASSUME NEW q \in DOMAIN D
      PROVE  q \in Built(D, Append(g, 1), FALSE) <=> q \in Built(D, g, FALSE) \cup {g}
  <2>1. q \in Position /\ (q # << >> => Front(q) \in Position)
    BY WholeDomain
  <2>. QED  BY <1>2, <2>1 DEF Built
<1>. QED  BY <1>3 DEF Built

LEMMA BuiltAtLeaf ==
  ASSUME NEW D, IsWhole(D), NEW g \in DOMAIN D, D[g].type \notin SeveralTypes,
         \A i \in Nat \ {0} : Append(g, i) \notin DOMAIN D
  PROVE  Built(D, g, TRUE) = Built(D, g, FALSE) \cup {g}
<1>1. g \in Position
  BY WholeDomain
<1>2. ASSUME NEW q \in DOMAIN D PROVE IsPrefix(g, q) <=> q = g
  <2>1. q \in Position
    BY WholeDomain
  <2>2. CASE IsPrefix(g, q) /\ q # g
    <3>. DEFINE c == Append(g, q[Len(g) + 1])
    <3>1. q[Len(g) + 1] \in Nat \ {0} /\ IsPrefix(c, q) /\ c \in Position
      BY <1>1, <2>1, <2>2, NextBelow, AppendPosition
    <3>2. c \notin DOMAIN D
      BY <3>1
    <3>. HIDE DEF c
    <3>. QED  BY <3>1, <3>2, WholeDomain
  <2>. QED  BY <1>1, <2>1, <2>2, PrefixOrder
<1>3. ASSUME NEW q \in DOMAIN D
      PROVE  Passed(q, g, TRUE) <=> q = g \/ Passed(q, g, FALSE)
  BY <1>2 DEF Passed
<1>4. ASSUME NEW q \in DOMAIN D
      PROVE  q \in Built(D, g, TRUE) <=> q \in Built(D, g, FALSE) \cup {g}
  <2>1. q # << >> => Front(q) \in DOMAIN D
    BY WholeDomain
  <2>. QED  BY <1>3, <2>1 DEF Built
<1>. QED  BY <1>4 DEF Built

LEMMA BelowThere ==
  ASSUME NEW D, IsWhole(D), NEW g \in DOMAIN D, NEW q \in DOMAIN D
  PROVE  IsPrefix(g, q) <=>
           q = g \/ \E i \in Nat \ {0} : Append(g, i) \in DOMAIN D /\ IsPrefix(Append(g, i), q)
<1>1. g \in Position /\ q \in Position
  BY WholeDomain
<1>2. ASSUME IsPrefix(g, q), q # g
      PROVE  \E i \in Nat \ {0} : Append(g, i) \in DOMAIN D /\ IsPrefix(Append(g, i), q)
  <2>. DEFINE i == q[Len(g) + 1]
              c == Append(g, i)
  <2>1. i \in Nat \ {0} /\ IsPrefix(c, q)
    BY <1>1, <1>2, NextBelow
  <2>. HIDE DEF i
  <2>2. c \in Position
    BY <1>1, <2>1, AppendPosition
  <2>. HIDE DEF c
  <2>3. c \in DOMAIN D
    BY <2>1, <2>2, WholeDomain
  <2>. QED  BY <2>1, <2>3 DEF c
<1>3. ASSUME NEW i \in Nat \ {0}, IsPrefix(Append(g, i), q) PROVE IsPrefix(g, q)
  <2>1. Append(g, i) \in Position /\ IsPrefix(g, Append(g, i))
    BY <1>1, AppendPosition, PrefixAppend
  <2>. QED  BY <1>1, <1>3, <2>1, PrefixOrder
<1>4. IsPrefix(g, g)
  BY <1>1, PrefixOrder
<1>. QED  BY <1>2, <1>3, <1>4

LEMMA PassedBelowSingle ==
  ASSUME NEW D, IsWhole(D), NEW c \in DOMAIN D, NEW q \in DOMAIN D,
         \A i \in Nat \ {0} : Append(c, i) \in DOMAIN D => i = 1
  PROVE  Passed(q, Append(c, 1), TRUE) <=> Passed(q, c, FALSE) \/ IsPrefix(c, q)
<1>1. c \in Position /\ q \in Position /\ 1 \in Nat \ {0} /\ \A i \in Nat \ {0} : ~ (i < 1)
  BY WholeDomain
<1>2. Passed(q, Append(c, 1), TRUE) <=>
        \/ q = c \/ Passed(q, c, FALSE)
        \/ \E i \in Nat \ {0} : i < 1 /\ IsPrefix(Append(c, i), q)
        \/ TRUE /\ IsPrefix(Append(c, 1), q)
  BY <1>1, PassedAtChild
<1>3. IsPrefix(c, q) <=>
        q = c \/ \E i \in Nat \ {0} : Append(c, i) \in DOMAIN D /\ IsPrefix(Append(c, i), q)
  BY BelowThere
<1>4. IsPrefix(Append(c, 1), q) => Append(c, 1) \in DOMAIN D
  BY <1>1, AppendPosition, WholeDomain
<1>. QED  BY <1>1, <1>2, <1>3, <1>4

LEMMA PassedReturning ==
  ASSUME NEW q, NEW g
  PROVE  Passed(q, g, TRUE) <=> Passed(q, g, FALSE) \/ IsPrefix(g, q)
BY DEF Passed

SamePassed(D, g, h) == \A q \in DOMAIN D : Passed(q, g, TRUE) <=> Passed(q, h, TRUE)

LEMMA SameBuilt ==
  ASSUME NEW D, IsWhole(D), NEW g, NEW h, SamePassed(D, g, h)
  PROVE  Built(D, g, TRUE) = Built(D, h, TRUE)
BY WholeDomain DEF Built, SamePassed

LEMMA BuiltUpFromSingle ==
  ASSUME NEW D, IsWhole(D), NEW g \in DOMAIN D,
         \A i \in Nat \ {0} : Append(g, i) \in DOMAIN D => i = 1
  PROVE  Built(D, Append(g, 1), TRUE) = Built(D, g, TRUE)
<1>1. SamePassed(D, Append(g, 1), g)
  BY PassedBelowSingle, PassedReturning DEF SamePassed
<1>. QED  BY <1>1, SameBuilt

WithChildren(D, g) == {q \in DOMAIN D : q = g \/ \E i \in Nat \ {0} : q = Append(g, i)}

LEMMA BuiltAtFirstFilter ==
  ASSUME NEW D, IsWhole(D), NEW g \in DOMAIN D, D[g].type \in SeveralTypes,
         NEW c, c = Append(g, 1), NEW low, low = Append(c, 1),
         c \in DOMAIN D, D[c].type \notin SeveralTypes
  PROVE  Built(D, low, FALSE) = Built(D, g, FALSE) \cup WithChildren(D, g)
<1>1. g \in Position /\ 1 \in Nat \ {0} /\ \A i \in Nat \ {0} : ~ (i < 1)
  BY WholeDomain
<1>2. c \in Position /\ c \in DOMAIN D /\ D[c].type \notin SeveralTypes
  BY <1>1, AppendPosition
<1>3. ASSUME NEW q \in Position
      PROVE  Passed(q, c, FALSE) <=> q = g \/ Passed(q, g, FALSE)
  BY <1>1, PassedAtFirst
<1>4. ASSUME NEW i \in Nat \ {0}
      PROVE  Append(g, i) # << >> /\ Front(Append(g, i)) = g
  BY <1>1, AppendPosition
<1>5. ASSUME NEW q \in Position, q # << >>, Front(q) = g
      PROVE  \E i \in Nat \ {0} : q = Append(g, i)
  BY <1>5, FrontPosition
<1>6. c = Append(g, 1)
  OBVIOUS
<1>7. ASSUME NEW q \in Position
      PROVE  Passed(q, Append(c, 1), FALSE) <=> q = c \/ q = g \/ Passed(q, g, FALSE)
  <2>1. Passed(q, Append(c, 1), FALSE) <=> q = c \/ Passed(q, c, FALSE)
    BY <1>2, PassedAtFirst
  <2>. QED  BY <1>3, <2>1
<1>8. ASSUME NEW q \in DOMAIN D
      PROVE  q \in Built(D, Append(c, 1), FALSE) <=>
               \/ q \in Built(D, g, FALSE) \/ q = g
               \/ \E i \in Nat \ {0} : q = Append(g, i)
  <2>1. q \in Position /\ (q # << >> => Front(q) \in Position)
    BY WholeDomain
  <2>2. q \in Built(D, Append(c, 1), FALSE) <=>
          \/ q = c \/ q = g \/ Passed(q, g, FALSE)
          \/ /\ q # << >> /\ (Front(q) = c \/ Front(q) = g \/ Passed(Front(q), g, FALSE))
             /\ D[Front(q)].type \in SeveralTypes
    BY <1>7, <2>1 DEF Built
  <2>3. Front(q) = c => D[Front(q)].type \notin SeveralTypes
    BY <1>2
  <2>4. (q # << >> /\ Front(q) = g) <=> \E i \in Nat \ {0} : q = Append(g, i)
    BY <1>4, <1>5, <2>1
  <2>5. q \in Built(D, g, FALSE) <=>
          \/ Passed(q, g, FALSE)
          \/ q # << >> /\ Passed(Front(q), g, FALSE) /\ D[Front(q)].type \in SeveralTypes
    BY DEF Built
  <2>6. q = c => \E i \in Nat \ {0} : q = Append(g, i)
    BY <1>1, <1>6
  <2>. QED  BY <2>2, <2>3, <2>4, <2>5, <2>6
<1>9. ASSUME NEW q \in DOMAIN D
      PROVE  q \in Built(D, low, FALSE) <=> q \in Built(D, g, FALSE) \cup WithChildren(D, g)
  <2>1. q \in WithChildren(D, g) <=> q = g \/ \E i \in Nat \ {0} : q = Append(g, i)
    BY DEF WithChildren
  <2>. QED  BY <1>8, <2>1
<1>. QED  BY <1>9 DEF Built, WithChildren

LEMMA PassedUpToFilter ==
  ASSUME NEW q \in Position, NEW g \in Position, NEW j \in Nat \ {0}
  PROVE  Passed(q, Append(g, j), FALSE) \/ IsPrefix(Append(g, j), q) <=>
           \/ q = g \/ Passed(q, g, FALSE)
           \/ \E i \in Nat \ {0} : i <= j /\ IsPrefix(Append(g, i), q)
<1>1. Passed(q, Append(g, j), FALSE) <=>
        \/ q = g \/ Passed(q, g, FALSE)
        \/ \E i \in Nat \ {0} : i < j /\ IsPrefix(Append(g, i), q)
        \/ FALSE /\ IsPrefix(Append(g, j), q)
  BY PassedAtChild
<1>2. \A i \in Nat \ {0} : i <= j <=> i < j \/ i = j
  OBVIOUS
<1>. QED  BY <1>1, <1>2

\* The j-th filter of a sequence or set at g, and the next.
AreNextFilters(D, g, j, c, d) ==
  /\ IsWhole(D) /\ g \in DOMAIN D /\ D[g].type \in SeveralTypes
  /\ j \in Nat \ {0} /\ c = Append(g, j) /\ d = Append(g, j + 1)
  /\ c \in DOMAIN D /\ \A i \in Nat \ {0} : Append(c, i) \in DOMAIN D => i = 1
  /\ d \in DOMAIN D /\ D[d].type \notin SeveralTypes

LEMMA BuiltAtNextFilter ==
  ASSUME NEW D, NEW g, NEW j, NEW c, NEW d, AreNextFilters(D, g, j, c, d)
  PROVE  Built(D, Append(c, 1), TRUE) = Built(D, Append(d, 1), FALSE)
<1>. /\ IsWhole(D) /\ g \in DOMAIN D /\ D[g].type \in SeveralTypes
     /\ j \in Nat \ {0} /\ c = Append(g, j) /\ d = Append(g, j + 1)
     /\ c \in DOMAIN D /\ \A i \in Nat \ {0} : Append(c, i) \in DOMAIN D => i = 1
     /\ d \in DOMAIN D /\ D[d].type \notin SeveralTypes
  BY DEF AreNextFilters
<1>1. /\ g \in Position /\ 1 \in Nat \ {0} /\ j + 1 \in Nat \ {0}
      /\ \A i \in Nat \ {0} : ~ (i < 1)
      /\ \A i \in Nat \ {0} : i < j + 1 <=> i <= j
  BY WholeDomain
<1>2. d \in Position /\ d # << >> /\ Front(d) = g
  BY <1>1, AppendPosition
<1>3. ASSUME NEW q \in DOMAIN D
      PROVE  Passed(q, Append(d, 1), FALSE) <=> q = d \/ Passed(q, Append(c, 1), TRUE)
  <2>1. q \in Position
    BY WholeDomain
  <2>2. Passed(q, Append(d, 1), FALSE) <=> q = d \/ Passed(q, d, FALSE)
    BY <1>2, <2>1, PassedAtFirst
  <2>3. Passed(q, d, FALSE) <=>
          \/ q = g \/ Passed(q, g, FALSE)
          \/ \E i \in Nat \ {0} : i < j + 1 /\ IsPrefix(Append(g, i), q)
          \/ FALSE /\ IsPrefix(d, q)
    BY <1>1, <2>1, PassedAtChild
  <2>4. Passed(q, c, FALSE) \/ IsPrefix(c, q) <=>
          \/ q = g \/ Passed(q, g, FALSE)
          \/ \E i \in Nat \ {0} : i <= j /\ IsPrefix(Append(g, i), q)
    BY <1>1, <2>1, PassedUpToFilter
  <2>5. Passed(q, Append(c, 1), TRUE) <=> Passed(q, c, FALSE) \/ IsPrefix(c, q)
    BY PassedBelowSingle
  <2>. QED  BY <1>1, <2>2, <2>3, <2>4, <2>5
<1>4. Passed(g, Append(c, 1), TRUE)
  <2>1. Passed(g, c, FALSE) \/ IsPrefix(c, g)
    BY <1>1, PassedUpToFilter
  <2>. QED  BY <2>1, PassedBelowSingle
<1>5. ASSUME NEW q \in DOMAIN D
      PROVE  q \in Built(D, Append(c, 1), TRUE) <=> q \in Built(D, Append(d, 1), FALSE)
  <2>1. q # << >> => Front(q) \in DOMAIN D
    BY WholeDomain
  <2>2. q = d => q \in Built(D, Append(c, 1), TRUE)
    BY <1>2, <1>4 DEF Built
  <2>3. q # << >> /\ D[Front(q)].type \in SeveralTypes => Front(q) # d
    OBVIOUS
  <2>. QED  BY <1>3, <2>1, <2>2, <2>3 DEF Built
<1>. QED  BY <1>5 DEF Built

LEMMA BuiltAtLastFilter ==
  ASSUME NEW D, IsWhole(D), NEW g \in DOMAIN D, NEW j \in Nat \ {0},
         NEW c, c = Append(g, j), c \in DOMAIN D,
         \A i \in Nat \ {0} : Append(c, i) \in DOMAIN D => i = 1,
         \A i \in Nat \ {0} : Append(g, i) \in DOMAIN D => i <= j
  PROVE  Built(D, Append(c, 1), TRUE) = Built(D, g, TRUE)
<1>1. ASSUME NEW q \in DOMAIN D
      PROVE  Passed(q, Append(c, 1), TRUE) <=> Passed(q, g, TRUE)
  <2>1. q \in Position /\ g \in Position
    BY WholeDomain
  <2>2. Passed(q, c, FALSE) \/ IsPrefix(c, q) <=>
          \/ q = g \/ Passed(q, g, FALSE)
          \/ \E i \in Nat \ {0} : i <= j /\ IsPrefix(Append(g, i), q)
    BY <2>1, PassedUpToFilter
  <2>3. Passed(q, Append(c, 1), TRUE) <=> Passed(q, c, FALSE) \/ IsPrefix(c, q)
    BY PassedBelowSingle
  <2>4. IsPrefix(g, q) <=>
          q = g \/ \E i \in Nat \ {0} : Append(g, i) \in DOMAIN D /\ IsPrefix(Append(g, i), q)
    BY BelowThere
  <2>5. \A i \in Nat \ {0} : IsPrefix(Append(g, i), q) => Append(g, i) \in DOMAIN D
    BY <2>1, AppendPosition, WholeDomain
  <2>. QED  BY <2>2, <2>3, <2>4, <2>5, PassedReturning
<1>2. SamePassed(D, Append(c, 1), g)
  BY <1>1 DEF SamePassed
<1>. QED  BY <1>2, SameBuilt

(* Trees that grow *)

LEMMA GrowsByGraft ==
  ASSUME NEW D, IsWhole(D), NEW tree, IsTree(tree), NEW g \in DOMAIN tree,
         NEW done, Grows(tree, D, << >>, done), \A q \in done : ~ IsPrefix(g, q),
         NEW sub, IsTree(sub), NEW new, Grows(sub, D, g, new), \A q \in new : IsPrefix(g, q),
         NEW all, \A q \in DOMAIN D : q \in all <=> q \in done \/ q \in new
  PROVE  Grows(Graft(tree, g, sub), D, << >>, all)
<1>. DEFINE new_tree == Graft(tree, g, sub)
<1>1. /\ IsShape(tree) /\ IsShape(sub) /\ g \in Position /\ << >> \in Position
      /\ \A q \in DOMAIN tree : q \in Position
      /\ \A q \in DOMAIN sub : q \in Position
  BY ShapeFacts DEF IsTree
<1>2. /\ \A q \in Position : q \in DOMAIN new_tree <=>
           IF IsPrefix(g, q) THEN From(g, q) \in DOMAIN sub ELSE q \in DOMAIN tree
      /\ \A q \in DOMAIN tree : ~ IsPrefix(g, q) => new_tree[q] = tree[q]
      /\ \A r \in DOMAIN sub : new_tree[g \o r] = sub[r]
      /\ \A q \in DOMAIN new_tree : q \in Position
  BY <1>1, GraftFacts
<1>. HIDE DEF new_tree
<1>3. \A r \in Position : << >> \o r = r
  BY ConcatPosition
<1>4. \A r \in Position : r \in DOMAIN tree <=> r \in DOMAIN D /\ (r = << >> \/ Front(r) \in done)
  BY <1>3, FrontPosition DEF Grows
<1>5. \A r \in DOMAIN tree : /\ r \in done => tree[r] = D[r]
                             /\ r \notin done => tree[r] = NodeOf("leaf")
  BY <1>1, <1>3 DEF Grows
<1>6. ASSUME NEW r \in Position, IsPrefix(g, r)
      PROVE  /\ r \in DOMAIN new_tree <=> r \in DOMAIN D /\ (r = << >> \/ Front(r) \in all)
             /\ r \in DOMAIN new_tree => /\ r \in all => new_tree[r] = D[r]
                                         /\ r \notin all => new_tree[r] = NodeOf("leaf")
  <2>. DEFINE y == From(g, r)
  <2>1. y \in Position /\ g \o y = r /\ (y = << >> => g = r)
    BY <1>1, <1>6, PrefixFrom
  <2>2. r \in DOMAIN new_tree <=> y \in DOMAIN sub
    BY <1>2, <1>6
  <2>. HIDE DEF y
  <2>3. y \in DOMAIN sub => new_tree[r] = sub[y]
    BY <1>2, <2>1
  <2>4. r \notin done
    BY <1>6
  <2>5. y \in DOMAIN sub <=> r \in DOMAIN D /\ (y = << >> \/ g \o Front(y) \in new)
    BY <2>1 DEF Grows
  <2>6. y \in DOMAIN sub => /\ r \in new => sub[y] = D[r]
                            /\ r \notin new => sub[y] = NodeOf("leaf")
    BY <2>1 DEF Grows
  <2>7. CASE y = << >>
    <3>1. r \in DOMAIN D /\ (r = << >> \/ Front(r) \in done)
      BY <1>4, <2>1, <2>7
    <3>2. r # << >> => Front(r) \in DOMAIN D
      BY <3>1, WholeDomain
    <3>. QED  BY <2>2, <2>3, <2>4, <2>5, <2>6, <2>7, <3>1, <3>2
  <2>8. CASE y # << >>
    <3>1. Front(r) = g \o Front(y) /\ r # << >> /\ Front(y) \in Position
      BY <1>1, <2>1, <2>8, ConcatFront, FrontPosition
    <3>2. IsPrefix(g, Front(r))
      BY <1>1, <3>1, ConcatPosition
    <3>3. Front(r) \notin done
      BY <3>2
    <3>4. r \in DOMAIN D => Front(r) \in DOMAIN D
      BY <3>1, WholeDomain
    <3>. QED  BY <2>2, <2>3, <2>4, <2>5, <2>6, <2>8, <3>1, <3>3, <3>4
  <2>. QED  BY <2>7, <2>8
<1>7. ASSUME NEW r \in Position, ~ IsPrefix(g, r)
      PROVE  /\ r \in DOMAIN new_tree <=> r \in DOMAIN D /\ (r = << >> \/ Front(r) \in all)
             /\ r \in DOMAIN new_tree => /\ r \in all => new_tree[r] = D[r]
                                         /\ r \notin all => new_tree[r] = NodeOf("leaf")
  <2>1. r \in DOMAIN new_tree <=> r \in DOMAIN tree
    BY <1>2, <1>7
  <2>2. r \in DOMAIN tree => new_tree[r] = tree[r]
    BY <1>2, <1>7
  <2>3. r \notin new /\ (r # << >> => Front(r) \notin new)
    BY <1>1, <1>7, PrefixFront
  <2>4. r \in DOMAIN D /\ r # << >> => Front(r) \in DOMAIN D
    BY WholeDomain
  <2>. QED  BY <1>4, <1>5, <2>1, <2>2, <2>3, <2>4
<1>8. \A r \in DOMAIN new_tree : r \in Position
  BY <1>2
<1>9. Grows(new_tree, D, << >>, all)
  <2>1. \A r \in Position : r # << >> => << >> \o Front(r) = Front(r)
    BY <1>3, FrontPosition
  <2>. QED  BY <1>3, <1>6, <1>7, <1>8, <2>1 DEF Grows
<1>. QED  BY <1>9 DEF new_tree

LEMMA LeafAtCursor ==
  ASSUME NEW tree, IsTree(tree), NEW g \in DOMAIN tree, NEW D, NEW done,
         Grows(tree, D, << >>, done), g \notin done
  PROVE  Subtree(tree, g) = LeafTree
<1>. DEFINE here == Subtree(tree, g)
<1>1. IsShape(tree) /\ g \in Position
  BY ShapeFacts DEF IsTree
<1>2. << >> \o g = g
  BY <1>1, ConcatPosition
<1>3. tree[g] = NodeOf("leaf")
  BY <1>2 DEF Grows
<1>4. Append(g, 1) \notin DOMAIN tree
  BY <1>3, NewNodes DEF IsTree
<1>5. /\ IsTree(here) /\ << >> \in DOMAIN here /\ here[<< >>] = tree[g]
      /\ \A r \in DOMAIN here : r \in Position /\ g \o r \in DOMAIN tree
  BY <1>1, SubtreeIsTree, SubtreeFacts
<1>. HIDE DEF here
<1>6. ASSUME NEW r \in DOMAIN here PROVE r = << >>
  <2>1. r \in Position /\ g \o r \in DOMAIN tree /\ IsPrefix(g, g \o r)
    BY <1>1, <1>5, ConcatPosition
  <2>2. g \o r = g
    BY <1>1, <1>4, <2>1, WithoutChildren
  <2>. QED  BY <1>1, <2>1, <2>2, ConcatPosition
<1>7. DOMAIN here = {<< >>}
  BY <1>5, <1>6
<1>8. here = [q \in DOMAIN here |-> here[q]] /\ LeafTree = [q \in DOMAIN LeafTree |-> LeafTree[q]]
  BY <1>5, LeafIsTree DEF IsTree
<1>9. here = LeafTree
  BY <1>3, <1>5, <1>7, <1>8, LeafIsTree
<1>. QED  BY <1>9 DEF here

\* The path r from g begins with a step to c, from where t is left.
IsFirstStep(g, r, i, t, c) ==
  /\ i \in Nat \ {0} /\ t \in Position /\ r = <<i>> \o t /\ c \in Position
  /\ g \o r = c \o t
  /\ t = << >> => g \o Front(r) = g /\ g \o r = c
  /\ t # << >> => g \o Front(r) = c \o Front(t) /\ Front(t) \in Position

LEMMA FirstStep ==
  ASSUME NEW g \in Position, NEW r \in Position, r # << >>, NEW i, i = Head(r),
         NEW t, t = Tail(r), NEW c, c = Append(g, i)
  PROVE  IsFirstStep(g, r, i, t, c)
<1>1. i \in Nat \ {0} /\ t \in Position /\ r = <<i>> \o t
  BY HeadPosition
<1>2. c \in Position /\ c = g \o <<i>> /\ <<i>> \in Position
  BY <1>1, AppendPosition, OneConcat
<1>. DEFINE one == <<i>>
<1>3. /\ one \in Position /\ r = one \o t /\ c = g \o one
      /\ one = Append(<< >>, i) /\ << >> \in Position
  <2>1. << >> \in Position
    BY DEF Position
  <2>2. one = Append(<< >>, i)
    BY ONLY <1>1, <2>1, OneConcat
  <2>. QED  BY <1>1, <1>2, <2>1, <2>2
<1>. HIDE DEF one
<1>4. ASSUME NEW u \in Position PROVE g \o (one \o u) = c \o u
  <2>1. (g \o one) \o u = g \o (one \o u)
    <3>1. /\ g \in Seq(Nat \ {0}) /\ one \in Seq(Nat \ {0})
          /\ u \in Seq(Nat \ {0})
      BY <1>3 DEF Position
    <3>. QED  BY ONLY <3>1, ConcatAssociative, SMTT(30)
  <2>. QED  BY <1>3, <2>1
<1>5. ASSUME t = << >> PROVE g \o Front(r) = g /\ g \o r = c
  <2>1. r = one
    BY <1>3, <1>5, ConcatPosition
  <2>2. Front(r) = << >>
    BY ONLY <1>1, <1>3, <2>1, AppendPosition
  <2>. QED  BY <1>3, <2>1, <2>2, ConcatPosition
<1>6. ASSUME t # << >> PROVE g \o Front(r) = c \o Front(t) /\ Front(t) \in Position
  <2>1. Front(t) \in Position
    BY <1>1, <1>6, FrontPosition
  <2>2. t \in Position /\ one \in Position /\ t # << >> /\ r = one \o t
    BY <1>1, <1>3, <1>6
  <2>3. Front(r) = one \o Front(t)
    BY ONLY <2>2, ConcatFront
  <2>. QED  BY <1>4, <2>1, <2>3
<1>7. g \o r = c \o t
  BY <1>1, <1>3, <1>4
<1>. QED  BY <1>1, <1>2, <1>5, <1>6, <1>7 DEF IsFirstStep

\* What grows in a tree is what grows at its root and in each of its branches.
LEMMA OverGrows ==
  ASSUME NEW D, IsWhole(D), NEW g \in DOMAIN D, NEW n \in Nat, NEW children,
         DOMAIN children = 1..n, \A i \in 1..n : IsTree(children[i]),
         \A i \in Nat \ {0} : Append(g, i) \in DOMAIN D <=> i <= n,
         NEW parts, \A i \in 1..n : Grows(children[i], D, Append(g, i), parts[i]),
         NEW new, g \in new,
         \A i \in 1..n : \A q \in DOMAIN D :
           IsPrefix(Append(g, i), q) => (q \in new <=> q \in parts[i])
  PROVE  Grows(Over(D[g], children), D, g, new)
<1>. DEFINE tree == Over(D[g], children)
<1>1. \A i \in 1..n : IsShape(children[i])
  BY DEF IsTree
<1>2. /\ \A i \in 1..n, q \in Position :
           <<i>> \o q \in DOMAIN tree <=> q \in DOMAIN children[i]
      /\ \A q \in DOMAIN tree :
           q \in Position /\ (q # << >> => Head(q) \in 1..n /\ Tail(q) \in DOMAIN children[Head(q)])
      /\ << >> \in DOMAIN tree /\ tree[<< >>] = D[g]
  BY <1>1, OverFacts
<1>3. \A i \in 1..n : \A q \in DOMAIN children[i] : IsCopied(tree, children, i, q)
  BY <1>1, OverChild
<1>. HIDE DEF tree
<1>4. /\ g \in Position /\ << >> \in Position /\ g \o << >> = g
      /\ \A i \in 1..n : i \in Nat \ {0} /\ i <= n
      /\ \A i \in Nat \ {0} : i <= n => i \in 1..n
  BY WholeDomain, ConcatPosition DEF Position
<1>6. ASSUME NEW r \in Position, r # << >>
      PROVE  /\ r \in DOMAIN tree <=> g \o r \in DOMAIN D /\ g \o Front(r) \in new
             /\ r \in DOMAIN tree => /\ g \o r \in new => tree[r] = D[g \o r]
                                     /\ g \o r \notin new => tree[r] = NodeOf("leaf")
  <2>. DEFINE i == Head(r)
              t == Tail(r)
              c == Append(g, i)
              x == g \o r
              f == g \o Front(r)
              u == Front(t)
  <2>2. c = Append(g, i) /\ x = g \o r
    OBVIOUS
  <2>3. i = Head(r) /\ t = Tail(r)
    OBVIOUS
  <2>4. u = Front(t) /\ f = g \o Front(r)
    OBVIOUS
  <2>. SUFFICES /\ r \in DOMAIN tree <=> x \in DOMAIN D /\ f \in new
                /\ r \in DOMAIN tree => /\ x \in new => tree[r] = D[x]
                                        /\ x \notin new => tree[r] = NodeOf("leaf")
    OBVIOUS
  <2>. HIDE DEF i, t, c, x, f, u
  <2>1. /\ i \in Nat \ {0} /\ t \in Position /\ r = <<i>> \o t /\ c \in Position
        /\ x = c \o t
        /\ t = << >> => f = g /\ x = c
        /\ t # << >> => f = c \o u /\ u \in Position
    <3>1. g \in Position /\ r \in Position /\ r # << >> /\ c = Append(g, i)
      BY <1>4, <1>6, <2>2
    <3>2. IsFirstStep(g, r, i, t, c)
      BY ONLY <2>3, <3>1, FirstStep
    <3>. QED  BY <2>2, <2>4, <3>2 DEF IsFirstStep
  <2>5. r \in DOMAIN tree <=> i \in 1..n /\ t \in DOMAIN children[i]
    BY <1>2, <1>6, <2>1, <2>3
  <2>6. i \in 1..n /\ t \in DOMAIN children[i] => tree[r] = children[i][t]
    BY <1>3, <2>1 DEF IsCopied
  <2>7. i \in 1..n <=> c \in DOMAIN D
    BY <1>4, <2>1, <2>2
  <2>8. x \in DOMAIN D => c \in DOMAIN D
    BY <2>1, ConcatPosition, WholeDomain
  <2>9. CASE c \notin DOMAIN D
    BY <2>5, <2>7, <2>8, <2>9
  <2>10. CASE c \in DOMAIN D
    <3>1. i \in 1..n /\ Grows(children[i], D, c, parts[i])
      BY <2>2, <2>7, <2>10
    <3>2. \A q \in DOMAIN D : IsPrefix(c, q) => (q \in new <=> q \in parts[i])
      BY <2>2, <3>1
    <3>3. /\ t \in DOMAIN children[i] <=> x \in DOMAIN D /\ (t = << >> \/ f \in parts[i])
          /\ t \in DOMAIN children[i] => /\ x \in parts[i] => children[i][t] = D[x]
                                         /\ x \notin parts[i] => children[i][t] = NodeOf("leaf")
      BY <2>1, <2>4, <3>1 DEF Grows
    <3>4. x \in DOMAIN D => (x \in new <=> x \in parts[i])
      <4>1. x \in Position /\ IsPrefix(c, x)
        BY <2>1, ConcatPosition
      <4>. QED  BY <3>2, <4>1
    <3>5. x \in DOMAIN D => (f \in new <=> t = << >> \/ f \in parts[i])
      <4>1. CASE t = << >>
        BY <2>1, <4>1
      <4>2. CASE t # << >>
        <5>1. f = c \o u /\ u \in Position /\ c \in Position
          BY <2>1, <4>2
        <5>2. f \in Position /\ IsPrefix(c, f)
          BY <5>1, ConcatPosition
        <5>3. x \in DOMAIN D => f \in DOMAIN D
          <6>1. x \in Position /\ x # << >> /\ Front(x) = c \o u
            <7>1. c \in Position /\ t \in Position /\ t # << >> /\ x = c \o t
              BY <2>1, <4>2
            <7>2. x \in Position
              BY ONLY <7>1, ConcatPosition
            <7>3. Front(x) = c \o u /\ x # << >>
              BY ONLY <7>1, <2>4, ConcatFront
            <7>. QED  BY <7>1, <7>2, <7>3
          <6>2. f = Front(x) /\ x # << >>
            BY <5>1, <6>1
          <6>. QED  BY <6>2, WholeDomain
        <5>. QED  BY <3>2, <4>2, <5>2, <5>3
      <4>. QED  BY <4>1, <4>2
    <3>. QED  BY <2>4, <2>5, <2>6, <3>1, <3>3, <3>4, <3>5
  <2>. QED  BY <2>9, <2>10
<1>7. \A r \in DOMAIN tree : r \in Position
  BY <1>2
<1>8. Grows(tree, D, g, new)
  BY <1>2, <1>4, <1>6, <1>7 DEF Grows
<1>. QED  BY <1>8 DEF tree

LEMMA LeafGrows ==
  ASSUME NEW D, IsWhole(D), NEW g \in DOMAIN D
  PROVE  Grows(LeafTree, D, g, {})
<1>1. g \in Position /\ g \o << >> = g
  BY WholeDomain, ConcatPosition
<1>2. ASSUME NEW r \in Position PROVE r \in DOMAIN LeafTree <=> r = << >>
  BY LeafIsTree
<1>. QED  BY <1>1, <1>2, LeafIsTree DEF Grows

LEMMA NodeGrows ==
  ASSUME NEW D, IsWhole(D), NEW g \in DOMAIN D,
         \A i \in Nat \ {0} : Append(g, i) \in DOMAIN D <=> i = 1
  PROVE  Grows(Over(D[g], <<LeafTree>>), D, g, {g})
<1>. DEFINE children == <<LeafTree>>
            parts == <<{}>>
<1>1. /\ DOMAIN children = 1..1 /\ \A i \in 1..1 : i = 1 /\ i \in Nat \ {0}
      /\ children[1] = LeafTree /\ parts[1] = {}
  OBVIOUS
<1>. HIDE DEF children, parts
<1>2. g \in Position /\ 1 \in Nat /\ \A i \in Nat \ {0} : i = 1 <=> i <= 1
  BY WholeDomain
<1>3. \A i \in 1..1 : IsTree(children[i])
  BY <1>1, LeafIsTree
<1>4. Append(g, 1) \in DOMAIN D
  OBVIOUS
<1>5. \A i \in 1..1 : Grows(children[i], D, Append(g, i), parts[i])
  BY <1>1, <1>4, LeafGrows
<1>6. ASSUME NEW i \in 1..1, NEW q \in DOMAIN D, IsPrefix(Append(g, i), q)
      PROVE  q \in {g} <=> q \in parts[i]
  <2>1. Append(g, i) \in Position /\ IsPrefix(g, Append(g, i)) /\ Append(g, i) # g
    <3>1. g \in Position /\ i \in Nat \ {0}
      BY <1>1, <1>2
    <3>2. Append(g, i) \in Position
      BY ONLY <3>1, AppendPosition
    <3>. QED  BY ONLY <3>1, <3>2, PrefixAppend
  <2>2. ASSUME q = g PROVE FALSE
    <3>. DEFINE c == Append(g, i)
    <3>1. /\ c \in Position /\ g \in Position /\ c # g
          /\ IsPrefix(c, g) /\ IsPrefix(g, c)
      BY <1>2, <1>6, <2>1, <2>2
    <3>. HIDE DEF c
    <3>. QED  BY ONLY <3>1, PrefixOrder
  <2>. QED  BY <1>1, <2>2
<1>7. g \in {g}
  OBVIOUS
<1>8. Grows(Over(D[g], children), D, g, {g})
  <2>. DEFINE new == {g}
  <2>1. g \in new /\ \A i \in 1..1 : \A q \in DOMAIN D :
          IsPrefix(Append(g, i), q) => (q \in new <=> q \in parts[i])
    BY <1>6
  <2>. HIDE DEF new
  <2>2. Grows(Over(D[g], children), D, g, new)
    BY <1>1, <1>2, <1>3, <1>5, <2>1, OverGrows
  <2>. QED  BY <2>2 DEF new
<1>. QED  BY <1>8 DEF children

LEMMA FiltersGrow ==
  ASSUME NEW D, IsWhole(D), NEW g \in DOMAIN D, NEW n \in Nat, NEW children,
         DOMAIN children = 1..n, \A i \in 1..n : IsTree(children[i]),
         \A i \in Nat \ {0} : Append(g, i) \in DOMAIN D <=> i <= n,
         \A i \in 1..n : Grows(children[i], D, Append(g, i), {Append(g, i)}),
         NEW new, \A q \in DOMAIN D : q \in new <=>
                    q = g \/ \E i \in Nat \ {0} : q = Append(g, i)
  PROVE  Grows(Over(D[g], children), D, g, new)
<1>. DEFINE parts == [i \in 1..n |-> {Append(g, i)}]
<1>1. g \in Position /\ \A i \in 1..n : i \in Nat \ {0}
  BY WholeDomain
<1>2. \A i \in 1..n : parts[i] = {Append(g, i)}
  OBVIOUS
<1>. HIDE DEF parts
<1>3. \A i \in 1..n : Grows(children[i], D, Append(g, i), parts[i])
  BY <1>2
<1>4. ASSUME NEW i \in 1..n, NEW q \in DOMAIN D, IsPrefix(Append(g, i), q)
      PROVE  q \in new <=> q \in parts[i]
  <2>. DEFINE c == Append(g, i)
  <2>1. c \in Position /\ IsPrefix(g, c) /\ c # g /\ q \in Position /\ IsPrefix(c, q)
    BY <1>1, <1>4, AppendPosition, PrefixAppend, WholeDomain
  <2>2. parts[i] = {c}
    BY <1>2
  <2>3. \E k \in Nat \ {0} : c = Append(g, k)
    BY <1>1
  <2>. HIDE DEF c
  <2>4. q # g
    BY <1>1, <2>1, PrefixOrder
  <2>5. ASSUME NEW k \in Nat \ {0}, q = Append(g, k) PROVE q = c
    <3>1. c = Append(g, k) \/ IsPrefix(c, g)
      BY <1>1, <2>1, <2>5, PrefixAppend
    <3>2. ~ IsPrefix(c, g)
      BY <1>1, <2>1, PrefixOrder
    <3>. QED  BY <2>5, <3>1, <3>2
  <2>. QED  BY <2>2, <2>3, <2>4, <2>5
<1>5. g \in new
  OBVIOUS
<1>. QED  BY <1>3, <1>4, <1>5, OverGrows

LEMMA GrowsAtLeaf ==
  ASSUME NEW D, IsWhole(D), NEW tree, NEW g \in DOMAIN tree, g \in DOMAIN D,
         NEW done, Grows(tree, D, << >>, done), D[g] = NodeOf("leaf"),
         \A i \in Nat \ {0} : Append(g, i) \notin DOMAIN D, g \notin done
  PROVE  Grows(tree, D, << >>, done \cup {g})
<1>. DEFINE all == done \cup {g}
<1>1. \A r : r \in all <=> r \in done \/ r = g
  OBVIOUS
<1>. HIDE DEF all
<1>2. \A r \in Position : << >> \o r = r
  BY ConcatPosition
<1>3. ASSUME NEW r \in Position, r # << >>, r \in DOMAIN D PROVE Front(r) # g /\ Front(r) \in Position
  <2>1. Front(r) \in Position /\ Last(r) \in Nat \ {0} /\ r = Append(Front(r), Last(r))
    BY <1>3, FrontPosition
  <2>. QED  BY <1>3, <2>1
<1>4. ASSUME NEW r \in Position
      PROVE  r \in DOMAIN tree <=>
               << >> \o r \in DOMAIN D /\ (r = << >> \/ << >> \o Front(r) \in all)
  <2>1. r \in DOMAIN tree <=>
          << >> \o r \in DOMAIN D /\ (r = << >> \/ << >> \o Front(r) \in done)
    BY DEF Grows
  <2>2. r # << >> /\ r \in DOMAIN D => << >> \o Front(r) = Front(r) /\ Front(r) # g
    BY <1>2, <1>3
  <2>. QED  BY <1>1, <1>2, <2>1, <2>2
<1>5. g \in Position /\ << >> \o g = g
  BY <1>2, WholeDomain
<1>6. tree[g] = NodeOf("leaf")
  BY <1>5 DEF Grows
<1>7. ASSUME NEW r \in DOMAIN tree
      PROVE  /\ << >> \o r \in all => tree[r] = D[<< >> \o r]
             /\ << >> \o r \notin all => tree[r] = NodeOf("leaf")
  <2>1. /\ << >> \o r \in done => tree[r] = D[<< >> \o r]
        /\ << >> \o r \notin done => tree[r] = NodeOf("leaf")
    BY DEF Grows
  <2>. QED  BY <1>1, <1>5, <1>6, <2>1
<1>8. Grows(tree, D, << >>, all)
  BY <1>4, <1>7 DEF Grows
<1>. QED  BY <1>8 DEF all

(* A builder as part of the whole *)

IsPart(p, builder, base, root) ==
  /\ IsShape(builder) /\ IsOrdinary(builder) /\ IsDirectBuilder(builder)
  /\ IsWhole(Whole(p)) /\ Stands(builder, base, Whole(p)) /\ AllFine(p, builder, root)

LEMMA InsertedType ==
  ASSUME NEW node
  PROVE  Inserted(node).type = node.type
<1>1. CASE node.type = "band"
  BY <1>1 DEF Inserted, BandFor, Band, NodeOf
<1>2. CASE node.type # "band"
  BY <1>2 DEF Inserted, NodeIn
<1>. QED  BY <1>1, <1>2

\* What is known of the node q of a builder, which stands at g.
IsNodeOfPart(builder, base, q, g, D, n) ==
  /\ base \in Position /\ q \in Position /\ g \in Position /\ g \in DOMAIN D
  /\ n \in Nat /\ builder[q].type # "expansion" /\ builder[q].from # "merged"
  /\ builder[q].type = "leaf" => n = 0
  /\ builder[q].type # "leaf" => builder[q].from # "subtree" /\ n > 0
  /\ builder[q].type \notin SeveralTypes => n <= 1
  /\ builder[q].from # "subtree" =>
       /\ D[g] = Inserted(builder[q]) /\ D[g].type = builder[q].type
       /\ \A i \in Nat \ {0} : Append(g, i) \in DOMAIN D <=> i <= n

LEMMA PartNode ==
  ASSUME NEW p, NEW builder, NEW base, NEW root, IsPart(p, builder, base, root),
         NEW q \in DOMAIN builder, NEW g, g = base \o q, NEW D, D = Whole(p),
         NEW n, n = NChildren(builder, q)
  PROVE  IsNodeOfPart(builder, base, q, g, D, n)
<1>1. /\ IsShape(builder) /\ IsOrdinary(builder) /\ IsDirectBuilder(builder)
      /\ Stands(builder, base, D) /\ AllFine(p, builder, root) /\ IsWhole(D)
  BY DEF IsPart
<1>2. base \in Position /\ q \in Position /\ g \in DOMAIN D
  BY <1>1, ShapeFacts DEF Stands
<1>3. g \in Position
  BY <1>1, <1>2, WholeDomain
<1>4. n \in Nat /\ \A i \in Nat \ {0} : Append(q, i) \in DOMAIN builder <=> i <= n
  BY <1>1, ChildrenAreNumbered
<1>5. Fine(p, builder, q, root)
  BY <1>1 DEF AllFine
<1>6. /\ builder[q].type = "leaf" => n = 0
      /\ builder[q].type \notin SeveralTypes => n <= 1
  BY <1>5 DEF Fine
<1>7. builder[q].type # "leaf" => builder[q].from # "subtree"
  BY <1>1 DEF IsOrdinary
<1>8. builder[q].type # "leaf" => n > 0
  <2>1. builder[q].type # "leaf" => Append(q, 1) \in DOMAIN builder
    BY <1>1 DEF IsDirectBuilder
  <2>. QED  BY <1>4, <2>1
<1>9. builder[q].type # "expansion" /\ builder[q].from # "merged"
  BY <1>1 DEF IsDirectBuilder
<1>10. builder[q].from # "subtree" =>
         /\ D[g] = Inserted(builder[q])
         /\ \A i \in Nat \ {0} : Append(g, i) \in DOMAIN D <=> Append(q, i) \in DOMAIN builder
  BY <1>1 DEF Stands
<1>. QED  BY <1>2, <1>3, <1>4, <1>6, <1>7, <1>8, <1>9, <1>10, InsertedType DEF IsNodeOfPart

LEMMA PartFilters ==
  ASSUME NEW p, NEW builder, NEW base, NEW root, IsPart(p, builder, base, root),
         NEW q \in DOMAIN builder, builder[q].type \in SeveralTypes,
         NEW i \in 1..NChildren(builder, q)
  PROVE  /\ Append(q, i) \in DOMAIN builder /\ builder[Append(q, i)].type = "filter"
         /\ i \in Nat \ {0} /\ NChildren(builder, Append(q, i)) = 1
         /\ Append(Append(q, i), 1) \in DOMAIN builder
<1>1. IsShape(builder) /\ AllFine(p, builder, root)
  BY DEF IsPart
<1>2. NChildren(builder, q) \in Nat /\ i \in Nat \ {0}
  BY <1>1, ChildrenAreNumbered
<1>. DEFINE c == Append(q, i)
<1>3. c \in DOMAIN builder
  BY <1>1, <1>2, ChildrenAreNumbered
<1>4. builder[c].type = "filter" /\ NChildren(builder, c) <= 1
  BY <1>1 DEF AllFine, Fine
<1>. HIDE DEF c
<1>. DEFINE n == NChildren(builder, c)
<1>5. n \in Nat /\ n > 0 /\ n <= 1
  <2>1. n \in Nat /\ n > 0
    BY <1>3, <1>4, PartNode DEF IsNodeOfPart
  <2>. QED  BY <1>4, <2>1
<1>6. n = 1
  BY <1>5
<1>7. Append(c, 1) \in DOMAIN builder
  BY <1>1, <1>3, <1>6, ChildrenAreNumbered
<1>. QED  BY <1>2, <1>3, <1>4, <1>6, <1>7 DEF c

LEMMA FrontOfPart ==
  ASSUME NEW p, NEW builder, NEW base, NEW root, IsPart(p, builder, base, root),
         NEW at \in DOMAIN builder, at # << >>,
         builder[Front(at)].type \notin SeveralTypes
  PROVE  base \o at # << >> /\ Whole(p)[Front(base \o at)].type \notin SeveralTypes
<1>. DEFINE f == Front(at)
            n == NChildren(builder, f)
<1>1. IsShape(builder)
  BY DEF IsPart
<1>2. at \in Position /\ f \in DOMAIN builder /\ f \in Position
  BY <1>1, ShapeFacts
<1>3. Last(at) \in Nat \ {0} /\ at = Append(f, Last(at)) /\ builder[f].type \notin SeveralTypes
  BY <1>2, FrontPosition
<1>. HIDE DEF f
<1>4. n \in Nat /\ n > 0
  <2>1. n \in Nat /\ Last(at) <= n
    BY <1>1, <1>2, <1>3, ChildrenAreNumbered
  <2>. QED  BY <1>3, <2>1
<1>. DEFINE g == base \o f
            D == Whole(p)
<1>5. n = NChildren(builder, f) /\ g = base \o f /\ D = Whole(p)
  OBVIOUS
<1>. HIDE DEF n, g, D
<1>6. IsNodeOfPart(builder, base, f, g, D, n)
  BY ONLY IsPart(p, builder, base, root), <1>2, <1>5, PartNode
<1>7. D[g].type \notin SeveralTypes
  BY <1>3, <1>4, <1>6 DEF IsNodeOfPart
<1>8. base \o at # << >> /\ Front(base \o at) = base \o f
  BY <1>2, <1>6, ConcatFront DEF f, IsNodeOfPart
<1>. QED  BY <1>5, <1>7, <1>8

Base == IF Len(calls) = 1 THEN << >> ELSE calls[1].at

GrownTo(handle, ret) ==
  LET D == Whole(problem)
  IN  /\ ret => Grows(handle.tree, D, << >>, Built(D, handle.path, TRUE))
      /\ ~ ret => Grows(handle.tree, D, << >>, Built(D, handle.path, FALSE))

\* What is built of a description is what recursion has passed; the copy of the
\* captured tree is built by a call of its own, from the lazy leaf on.
MadeInv ==
  /\ Len(calls) = 1 \/ Len(calls) = 2
  /\ \A k \in 1..Len(calls) : calls[k].expanded = Null
  /\ Len(calls) = 2 =>
       calls[2].builder = Copy(problem) /\ calls[1].at \in LazyLeaves(problem.expression)
  /\ cursor # Null =>
       /\ cursor.path = Base \o At
       /\ Unmarked(cursor.tree) /\ GrownTo(cursor, returning)
  /\ status = "done" => Len(calls) = 1 /\ calls[1].at = << >> /\ returning

Making == Plain /\ IInv /\ BuildInv /\ Good(problem) /\ MadeInv

LEMMA TopPart ==
  ASSUME Making
  PROVE  /\ problem \in Problems /\ problem.op = "build" /\ problem.op # "merge"
         /\ calls # << >> /\ IsStack(calls) /\ Len(calls) \in Nat \ {0}
         /\ Inner = calls[Len(calls)] /\ IsCall(Inner) /\ At \in Position
         /\ At \in DOMAIN Inner.builder
         /\ IsPart(problem, Inner.builder, Base, IsRoot(problem, Len(calls)))
         /\ Current.from = "subtree" => Len(calls) = 1
         /\ Base \o At # << >> =>
              Whole(problem)[Front(Base \o At)].type \notin SeveralTypes
         /\ cursor = Null <=> IsRoot(problem, Len(calls)) /\ At = << >> /\ ~ returning
<1>. DEFINE n == Len(calls)
<1>1. /\ Plain /\ IInv /\ BuildInv /\ Good(problem) /\ MadeInv
      /\ problem.op = "build" /\ problem.op # "merge" /\ Verdict(problem)
  BY DEF Making, Good
<1>2. /\ problem \in Problems /\ IsOrdinary(problem.expression) /\ IsShape(problem.expression)
  BY <1>1, ProblemFacts
<1>3. /\ calls # << >> /\ IsStack(calls) /\ n \in Nat \ {0} /\ Inner = calls[n]
      /\ IsCall(Inner) /\ IsShape(Inner.builder)
      /\ At \in DOMAIN Inner.builder /\ At \in Position /\ IsOrdinary(Inner.builder)
      /\ AllFine(problem, Inner.builder, IsRoot(problem, n))
      /\ cursor = Null <=> IsRoot(problem, n) /\ At = << >> /\ ~ returning
  BY <1>1, InnerIsFine
<1>4. /\ IsWhole(Whole(problem)) /\ Stands(problem.expression, << >>, Whole(problem))
      /\ \A l \in LazyLeaves(problem.expression) : Stands(Copy(problem), l, Whole(problem))
      /\ IsDirectBuilder(problem.expression) /\ IsDirectBuilder(Copy(problem))
      /\ \A r \in DOMAIN Copy(problem) : Copy(problem)[r].from = "value"
  BY <1>1, <1>2, WholeFacts
<1>5. /\ calls[1].builder = problem.expression
      /\ n = 1 \/ n = 2
      /\ n = 2 => calls[2].builder = Copy(problem) /\ calls[1].at \in LazyLeaves(problem.expression)
  BY <1>1 DEF BuildInv, MadeInv
<1>. HIDE DEF n
<1>6. CASE n = 1
  <2>1. Base = << >> /\ Inner.builder = problem.expression
    BY <1>3, <1>5, <1>6 DEF Base, n
  <2>2. IsPart(problem, Inner.builder, Base, IsRoot(problem, n))
    BY <1>3, <1>4, <2>1 DEF IsPart
  <2>3. Base \o At # << >> =>
          Whole(problem)[Front(Base \o At)].type \notin SeveralTypes
    <3>1. Base \o At = At
      BY <1>3, <2>1, ConcatPosition
    <3>2. At # << >> => Inner.builder[Front(At)].type \notin SeveralTypes
      BY <1>3 DEF IsCall, At
    <3>. QED  BY <1>3, <2>2, <3>1, <3>2, FrontOfPart
  <2>. QED  BY <1>1, <1>2, <1>3, <1>6, <2>2, <2>3 DEF n
<1>7. CASE n = 2
  <2>. DEFINE l == calls[1].at
  <2>1. /\ Base = l /\ Inner.builder = Copy(problem) /\ l \in LazyLeaves(problem.expression)
    BY <1>3, <1>5, <1>7 DEF Base, n
  <2>2. IsPart(problem, Inner.builder, Base, IsRoot(problem, n))
    BY <1>3, <1>4, <2>1 DEF IsPart
  <2>3. Current.from = "value"
    BY <1>3, <1>4, <2>1 DEF Current
  <2>4. l \in DOMAIN problem.expression /\ l \in Position
    BY <1>2, <2>1, ShapeFacts DEF LazyLeaves
  <2>5. Base \o At # << >> =>
          Whole(problem)[Front(Base \o At)].type \notin SeveralTypes
    <3>1. CASE At = << >>
      <4>1. Base \o At = l /\ << >> \o l = l
        BY <2>1, <2>4, <3>1, ConcatPosition
      <4>2. AllFine(problem, problem.expression, TRUE)
        <5>1. problem.op = "build" <=> TRUE
          BY <1>1
        <5>. QED  BY <1>1, <5>1 DEF Verdict, AllFine, Fine
      <4>3. IsPart(problem, problem.expression, << >>, TRUE)
        BY <1>2, <1>4, <4>2 DEF IsPart
      <4>4. IsCall(calls[1])
        <5>1. 1 \in DOMAIN calls
          BY <1>3, <1>7, StackFacts DEF n
        <5>. QED  BY <1>1, <5>1 DEF IInv, CallsInv
      <4>5. l # << >> => problem.expression[Front(l)].type \notin SeveralTypes
        BY <1>5, <4>4 DEF IsCall
      <4>. QED  BY <2>4, <4>1, <4>3, <4>5, FrontOfPart
    <3>2. CASE At # << >>
      <4>1. Inner.builder[Front(At)].type \notin SeveralTypes
        BY <1>3, <3>2 DEF IsCall, At
      <4>. QED  BY <1>3, <2>2, <3>2, <4>1, FrontOfPart
    <3>. QED  BY <3>1, <3>2
  <2>. QED  BY <1>1, <1>2, <1>3, <2>2, <2>3, <2>5 DEF n
<1>. QED  BY <1>5, <1>6, <1>7

LEMMA Goes ==
  ASSUME Making, NEW at \in Position, IsMoved(calls, calls', at),
         cursor' # Null => cursor'.path = Base \o at /\ Unmarked(cursor'.tree),
         GrownTo(cursor', returning'), UNCHANGED problem, status' = "running"
  PROVE  MadeInv'
<1>1. /\ calls # << >> /\ IsStack(calls) /\ Len(calls) \in Nat \ {0}
  BY TopPart
<1>2. MadeInv
  BY DEF Making
<1>3. /\ IsStack(calls') /\ calls' # << >> /\ Len(calls') = Len(calls)
      /\ calls'[Len(calls)] = MovedTo(calls[Len(calls)], at)
      /\ \A k \in 1..(Len(calls) - 1) : calls'[k] = calls[k]
  BY DEF IsMoved
<1>4. \A k \in 1..Len(calls) : calls'[k].expanded = calls[k].expanded
  BY <1>1, MovedExpanded
<1>5. (Len(calls) = 1 \/ Len(calls) = 2)' /\ (\A k \in 1..Len(calls) : calls[k].expanded = Null)'
  BY <1>2, <1>3, <1>4 DEF MadeInv
<1>6. Len(calls) = 2 => calls'[2].builder = calls[2].builder /\ calls'[1].at = calls[1].at
  BY <1>3 DEF MovedTo
<1>7. Base' = Base
  BY <1>2, <1>3, <1>6 DEF Base, MadeInv
<1>8. At' = at
  <2>1. Inner' = calls'[Len(calls)]
    BY <1>3, StackFacts DEF Inner
  <2>. QED  BY <1>3, <2>1 DEF At, MovedTo
<1>9. (Len(calls) = 2 =>
         calls[2].builder = Copy(problem) /\ calls[1].at \in LazyLeaves(problem.expression))'
  BY <1>2, <1>3, <1>6 DEF MadeInv
<1>10. (cursor # Null => /\ cursor.path = Base \o At
                        /\ Unmarked(cursor.tree) /\ GrownTo(cursor, returning))'
  BY <1>7, <1>8 DEF Null, Handle, GrownTo
<1>. QED  BY <1>5, <1>9, <1>10 DEF MadeInv

LEMMA CursorFacts ==
  ASSUME Making, cursor # Null, NEW g, g = Base \o At
  PROVE  /\ IsTree(cursor.tree) /\ g \in DOMAIN cursor.tree /\ cursor.path = g
         /\ Unmarked(cursor.tree) /\ cursor = Handle(cursor.tree, g) /\ GrownTo(cursor, returning)
<1>1. cursor.path = g /\ Unmarked(cursor.tree) /\ GrownTo(cursor, returning)
  BY DEF Making, MadeInv
<1>2. Placed(cursor)
  BY DEF Making, IInv, CursorInv
<1>. QED  BY <1>1, <1>2 DEF Placed

LEMMA GrownHere ==
  ASSUME Making, cursor # Null, ~ returning, NEW g, g = Base \o At, NEW D, D = Whole(problem)
  PROVE  /\ IsTree(cursor.tree) /\ g \in DOMAIN cursor.tree /\ cursor.path = g
         /\ g \in DOMAIN D /\ IsWhole(D)
         /\ Grows(cursor.tree, D, << >>, Built(D, g, FALSE))
         /\ \A q \in Built(D, g, FALSE) : ~ IsPrefix(g, q)
         /\ g \notin Built(D, g, FALSE) /\ Here = LeafTree
<1>1. /\ IsTree(cursor.tree) /\ g \in DOMAIN cursor.tree /\ cursor.path = g
      /\ GrownTo(cursor, returning)
  BY CursorFacts
<1>2. Grows(cursor.tree, D, << >>, Built(D, g, FALSE))
  BY <1>1 DEF GrownTo
<1>3. /\ IsPart(problem, Inner.builder, Base, IsRoot(problem, Len(calls)))
      /\ At \in DOMAIN Inner.builder
      /\ g # << >> => D[Front(g)].type \notin SeveralTypes
  BY TopPart
<1>4. IsWhole(D) /\ g \in DOMAIN D
  BY <1>3 DEF IsPart, Stands
<1>5. \A q \in Built(D, g, FALSE) : ~ IsPrefix(g, q)
  BY <1>3, <1>4, NothingBuiltBelow
<1>6. g \notin Built(D, g, FALSE)
  BY <1>4, <1>5, WholeDomain, PrefixOrder
<1>7. Here = LeafTree
  BY <1>1, <1>2, <1>6, LeafAtCursor DEF Here
<1>. QED  BY <1>1, <1>2, <1>4, <1>5, <1>6, <1>7

LEMMA CurrentNode ==
  ASSUME Making, NEW g, g = Base \o At, NEW D, D = Whole(problem)
  PROVE  /\ IsNodeOfPart(Inner.builder, Base, At, g, D, ChildBuilders(At))
         /\ IsMade(Current)
<1>1. /\ IsPart(problem, Inner.builder, Base, IsRoot(problem, Len(calls)))
      /\ At \in DOMAIN Inner.builder
  BY TopPart
<1>. DEFINE n == NChildren(Inner.builder, At)
<1>2. n = NChildren(Inner.builder, At) /\ ChildBuilders(At) = n
  BY DEF ChildBuilders
<1>. HIDE DEF n
<1>3. IsNodeOfPart(Inner.builder, Base, At, g, D, n)
  BY ONLY <1>1, <1>2, g = Base \o At, D = Whole(problem), PartNode
<1>4. IsMade(Current)
  BY <1>1 DEF IsPart, IsDirectBuilder, Current
<1>. QED  BY <1>2, <1>3, <1>4

LEMMA InsertedMade ==
  ASSUME Making, IInv', Entered, UNCHANGED problem, Current.type \notin SeveralTypes,
         Current.type # "leaf", NEW g, g = Base \o At, NEW D, D = Whole(problem), NEW tree,
         Grows(tree, D, << >>, Built(D, g, FALSE) \cup {g}), InsertedAt(tree, g)
  PROVE  MadeInv'
<1>1. /\ calls # << >> /\ IsStack(calls) /\ Inner = calls[Len(calls)] /\ IsCall(Inner)
      /\ At \in Position /\ IsPart(problem, Inner.builder, Base, IsRoot(problem, Len(calls)))
  BY TopPart
<1>2. IsNodeOfPart(Inner.builder, Base, At, g, D, ChildBuilders(At))
  BY CurrentNode
<1>3. /\ Base \in Position /\ g \in DOMAIN D /\ g \in Position /\ ChildBuilders(At) > 0
      /\ ChildBuilders(At) \in Nat /\ D[g].type \notin SeveralTypes /\ IsWhole(D)
  BY <1>1, <1>2 DEF IsNodeOfPart, Current, IsPart
<1>. DEFINE n == ChildBuilders(At)
<1>4. n # 0
  <2>. HIDE DEF n
  <2>1. n > 0 /\ n \in Nat
    BY <1>3 DEF n
  <2>. QED  BY <2>1
<1>5. /\ cursor' = Handle(tree, Append(g, 1)) /\ GoTo(Append(At, 1))
      /\ returning' = returning /\ status' = status
  BY <1>4 DEF InsertedAt, Handle
<1>6. ~ returning /\ status = "running" /\ returning' = FALSE
  BY <1>5 DEF Entered, IInv, WalkInv
<1>7. IsMoved(calls, calls', Append(At, 1))
  BY <1>1, <1>5, StackMoves DEF GoTo, IsUpdate
<1>8. cursor'.tree = tree /\ cursor'.path = Append(g, 1)
  BY <1>5, HandleFacts
<1>9. GrownTo(cursor', returning')
  <2>1. Built(D, Append(g, 1), FALSE) = Built(D, g, FALSE) \cup {g}
    BY <1>3, BuiltBelowSingle
  <2>. QED  BY <1>6, <1>8, <2>1 DEF GrownTo
<1>10. Append(At, 1) \in Position /\ Base \o Append(At, 1) = Append(g, 1)
  <2>1. Base \in Position /\ At \in Position /\ 1 \in Nat \ {0} /\ g = Base \o At
    BY <1>1, <1>3
  <2>2. Base \o Append(At, 1) = Append(Base \o At, 1) /\ Append(At, 1) \in Position
    BY ONLY <2>1, AppendPosition, ConcatAppend
  <2>. QED  BY <2>1, <2>2
<1>11. cursor' # Null => Unmarked(cursor'.tree)
  BY <1>6 DEF IInv, CursorInv
<1>. QED  BY <1>5, <1>6, <1>7, <1>8, <1>9, <1>10, <1>11, Goes

LEMMA MadeNodes ==
  ASSUME NEW node, IsMade(node)
  PROVE  /\ node.type = "domain" => Inserted(node) = Statements("domain", node.stmts)
         /\ node.type = "filter" => Inserted(node) = Statements("filter", node.stmts)
         /\ node.type = "band" => Inserted(node) = BandFor(node)
         /\ node.type \in {"context", "guard", "mark", "extension"} =>
              Inserted(node) = Named(node.type, node.name)
         /\ node.type \in SeveralTypes \cup {"leaf"} => Inserted(node) = NodeOf(node.type)
BY DEF IsMade, Inserted, SeveralTypes

LEMMA OneChild ==
  ASSUME Making, Current.type \notin SeveralTypes, Current.type # "leaf",
         NEW g, g = Base \o At, NEW D, D = Whole(problem)
  PROVE  /\ D[g] = Inserted(Current) /\ IsMade(Current)
         /\ Grows(Over(D[g], <<LeafTree>>), D, g, {g})
<1>1. IsNodeOfPart(Inner.builder, Base, At, g, D, ChildBuilders(At)) /\ IsMade(Current)
  BY CurrentNode
<1>2. IsWhole(D)
  BY TopPart DEF IsPart
<1>. DEFINE n == ChildBuilders(At)
<1>3. /\ g \in DOMAIN D /\ n \in Nat /\ n > 0 /\ n <= 1 /\ D[g] = Inserted(Current)
      /\ \A i \in Nat \ {0} : Append(g, i) \in DOMAIN D <=> i <= n
  BY <1>1 DEF IsNodeOfPart, Current
<1>. HIDE DEF n
<1>4. \A i \in Nat \ {0} : i <= n <=> i = 1
  BY <1>3
<1>5. \A i \in Nat \ {0} : Append(g, i) \in DOMAIN D <=> i = 1
  BY <1>3, <1>4
<1>. QED  BY <1>1, <1>2, <1>3, <1>5, NodeGrows

LEMMA InsertHereMade ==
  ASSUME Making, IInv', Entered, UNCHANGED problem, Current.type \notin SeveralTypes,
         Current.type # "leaf", cursor # Null,
         NEW sub, Here = LeafTree => sub = Over(Inserted(Current), <<LeafTree>>),
         IsTree(sub), InsertHere(sub)
  PROVE  MadeInv'
<1>. DEFINE g == Base \o At
            D == Whole(problem)
<1>1. g = Base \o At /\ D = Whole(problem)
  OBVIOUS
<1>. HIDE DEF g, D
<1>2. /\ IsTree(cursor.tree) /\ g \in DOMAIN cursor.tree /\ cursor.path = g
      /\ g \in DOMAIN D /\ IsWhole(D)
      /\ Grows(cursor.tree, D, << >>, Built(D, g, FALSE))
      /\ \A q \in Built(D, g, FALSE) : ~ IsPrefix(g, q)
      /\ Here = LeafTree
  BY <1>1, GrownHere DEF Entered
<1>3. D[g] = Inserted(Current) /\ Grows(Over(D[g], <<LeafTree>>), D, g, {g})
  BY <1>1, OneChild
<1>4. Grows(sub, D, g, {g})
  BY <1>2, <1>3
<1>. DEFINE new == {g}
            all == Built(D, g, FALSE) \cup {g}
            done == Built(D, g, FALSE)
            tree == Graft(cursor.tree, g, sub)
<1>5. /\ Grows(sub, D, g, new) /\ \A q \in new : IsPrefix(g, q)
      /\ \A q \in DOMAIN D : q \in all <=> q \in done \/ q \in new
  BY <1>2, <1>4, WholeDomain, PrefixOrder
<1>6. Grows(tree, D, << >>, all)
  <2>1. Grows(cursor.tree, D, << >>, done) /\ \A q \in done : ~ IsPrefix(g, q)
    BY <1>2
  <2>. HIDE DEF new, all, done
  <2>. QED  BY <1>2, <1>5, <2>1, GrowsByGraft
<1>7. InsertedAt(tree, g)
  BY <1>2 DEF InsertHere
<1>. HIDE DEF tree
<1>. QED  BY <1>1, <1>6, <1>7, InsertedMade

LEMMA SinglesMade ==
  ASSUME Making, IInv', UNCHANGED problem,
         InsertBand \/ InsertFilter \/ InsertNamed \/ InsertExtension
  PROVE  MadeInv'
<1>1. IsMade(Current) /\ Current.from # "merged"
  <2>. DEFINE g == Base \o At
              D == Whole(problem)
  <2>1. IsNodeOfPart(Inner.builder, Base, At, g, D, ChildBuilders(At)) /\ IsMade(Current)
    BY CurrentNode
  <2>. QED  BY <2>1 DEF IsNodeOfPart, Current
<1>2. ASSUME NEW types, HasType(types), types \subseteq SingleChildTypes, "domain" \notin types
      PROVE  /\ Entered /\ cursor # Null /\ Current.type \in types
             /\ Current.type \notin SeveralTypes /\ Current.type # "leaf"
  BY <1>2, SeveralOrNot DEF HasType
<1>3. CASE InsertBand
  <2>1. HasType({"band"}) /\ InsertHere(Over(BandFor(Current), <<Here>>))
    BY <1>1, <1>3 DEF InsertBand, Payload
  <2>2. /\ Entered /\ cursor # Null /\ Current.type = "band"
        /\ Current.type \notin SeveralTypes /\ Current.type # "leaf"
    BY <1>2, <2>1 DEF SingleChildTypes
  <2>3. Inserted(Current) = BandFor(Current)
    BY <1>1, <2>2, MadeNodes
  <2>. DEFINE sub == Over(BandFor(Current), <<Here>>)
  <2>4. Here = LeafTree => sub = Over(Inserted(Current), <<LeafTree>>)
    BY <2>3
  <2>5. IsTree(sub)
    <3>1. BandFor(Current).type # "leaf" /\ IsNode(BandFor(Current))
      BY NewNodes DEF BandFor
    <3>2. IsTree(Here)
      BY <2>2, GrownHere, LeafIsTree DEF Entered
    <3>. QED  BY <3>1, <3>2, OverOne
  <2>. HIDE DEF sub
  <2>6. InsertHere(sub)
    BY <2>1 DEF sub
  <2>. QED  BY <2>2, <2>4, <2>5, <2>6, InsertHereMade
<1>4. CASE InsertFilter
  <2>. DEFINE sub == FilterOver(Current.stmts, Here)
  <2>1. HasType({"filter"}) /\ InsertHere(sub)
    BY <1>4 DEF InsertFilter
  <2>2. /\ Entered /\ cursor # Null /\ Current.type = "filter"
        /\ Current.type \notin SeveralTypes /\ Current.type # "leaf"
    BY <1>2, <2>1 DEF SingleChildTypes
  <2>3. Inserted(Current) = Statements("filter", Current.stmts)
    BY <1>1, <2>2, MadeNodes
  <2>4. Here = LeafTree => sub = Over(Inserted(Current), <<LeafTree>>)
    <3>1. LeafTree[<< >>].type # "filter"
      BY LeafIsTree, NewNodes
    <3>. QED  BY <2>3, <3>1 DEF FilterOver
  <2>5. IsTree(sub)
    <3>1. IsTree(Here)
      BY <2>2, GrownHere, LeafIsTree DEF Entered
    <3>. QED  BY <3>1, FilterOverFacts
  <2>. HIDE DEF sub
  <2>. QED  BY <2>1, <2>2, <2>4, <2>5, InsertHereMade
<1>5. CASE InsertNamed \/ InsertExtension
  <2>. DEFINE node == Named(Current.type, Current.name)
  <2>1. \/ HasType({"context", "guard", "mark"}) /\ InsertHere(Over(node, <<Here>>))
        \/ HasType({"extension"}) /\ InsertHere(Over(Named("extension", Current.name), <<LeafTree>>))
    BY <1>5 DEF InsertNamed, InsertExtension
  <2>2. /\ Entered /\ cursor # Null /\ Current.type \in {"context", "guard", "mark", "extension"}
        /\ Current.type \notin SeveralTypes /\ Current.type # "leaf"
    BY <1>2, <2>1 DEF SingleChildTypes
  <2>3. Inserted(Current) = node /\ IsNode(node) /\ node.type # "leaf"
    BY <1>1, <2>2, MadeNodes, NewNodes
  <2>4. IsTree(Here) /\ Here = LeafTree
    BY <2>2, GrownHere, LeafIsTree DEF Entered
  <2>. DEFINE sub == Over(node, <<LeafTree>>)
  <2>5. IsTree(sub) /\ (Here = LeafTree => sub = Over(Inserted(Current), <<LeafTree>>))
    BY <2>3, <2>4, OverOne
  <2>6. InsertHere(sub)
    BY <2>1, <2>4 DEF HasType
  <2>. HIDE DEF sub
  <2>. QED  BY <2>2, <2>5, <2>6, InsertHereMade
<1>. QED  BY <1>3, <1>4, <1>5

LEMMA DomainMade ==
  ASSUME Making, IInv', UNCHANGED problem, InsertDomain
  PROVE  MadeInv'
<1>. DEFINE g == Base \o At
            D == Whole(problem)
            tree == Over(Statements("domain", Current.stmts), <<LeafTree>>)
<1>1. g = Base \o At /\ D = Whole(problem)
  OBVIOUS
<1>2. /\ Entered /\ Current.type = "domain" /\ cursor = Null
      /\ InsertedAt(tree, << >>)
  BY DEF InsertDomain, HasType
<1>3. /\ IsRoot(problem, Len(calls)) /\ At = << >> /\ calls # << >>
      /\ IsPart(problem, Inner.builder, Base, IsRoot(problem, Len(calls)))
  BY <1>2, TopPart
<1>4. Base = << >> /\ g = << >>
  BY <1>3, ConcatPosition DEF Base, IsRoot, Position
<1>. HIDE DEF g, D
<1>5. Current.type \notin SeveralTypes /\ Current.type # "leaf"
  BY <1>2, SeveralOrNot
<1>6. /\ D[g] = Inserted(Current) /\ IsMade(Current)
      /\ Grows(Over(D[g], <<LeafTree>>), D, g, {g})
  BY <1>1, <1>5, OneChild
<1>7. Inserted(Current) = Statements("domain", Current.stmts)
  BY <1>2, <1>6, MadeNodes
<1>8. Grows(tree, D, << >>, {g})
  BY <1>4, <1>6, <1>7
<1>9. IsWhole(D)
  BY <1>1, <1>3 DEF IsPart
<1>10. Built(D, g, FALSE) = {}
  <2>1. ASSUME NEW q \in Built(D, g, FALSE) PROVE FALSE
    <3>1. q \in DOMAIN D /\ (q # << >> => Front(q) \in DOMAIN D)
      BY <1>9, WholeDomain DEF Built
    <3>2. ~ Passed(q, << >>, FALSE) /\ (q # << >> => ~ Passed(Front(q), << >>, FALSE))
      BY <1>9, <3>1, NothingPassed, WholeDomain
    <3>. QED  BY <1>4, <2>1, <3>2 DEF Built
  <2>. QED  BY <2>1
<1>11. Built(D, g, FALSE) \cup {g} = {g}
  BY <1>10
<1>12. Grows(tree, D, << >>, Built(D, g, FALSE) \cup {g}) /\ InsertedAt(tree, g)
  BY <1>2, <1>4, <1>8, <1>11
<1>. HIDE DEF tree
<1>. QED  BY <1>1, <1>2, <1>5, <1>12, InsertedMade

LEMMA LeafMade ==
  ASSUME Making, UNCHANGED problem, StayAtLeaf
  PROVE  MadeInv'
<1>. DEFINE g == Base \o At
            D == Whole(problem)
            n == ChildBuilders(At)
<1>1. g = Base \o At /\ D = Whole(problem)
  OBVIOUS
<1>2. /\ Entered /\ Current.type = "leaf" /\ Current.from # "subtree" /\ cursor # Null
      /\ returning' = TRUE /\ UNCHANGED <<status, cursor, calls, captured>>
  BY DEF StayAtLeaf, HasType
<1>3. /\ calls # << >> /\ IsStack(calls) /\ Inner = calls[Len(calls)] /\ IsCall(Inner)
      /\ At \in Position
  BY TopPart
<1>4. IsNodeOfPart(Inner.builder, Base, At, g, D, n) /\ IsMade(Current)
  BY CurrentNode
<1>. HIDE DEF g, D, n
<1>5. /\ g \in DOMAIN D /\ D[g] = Inserted(Current)
      /\ \A i \in Nat \ {0} : Append(g, i) \notin DOMAIN D
  <2>1. /\ g \in DOMAIN D /\ n = 0 /\ D[g] = Inserted(Current)
        /\ \A i \in Nat \ {0} : Append(g, i) \in DOMAIN D <=> i <= n
    BY <1>2, <1>4 DEF IsNodeOfPart, Current
  <2>. QED  BY <2>1
<1>6. D[g] = NodeOf("leaf")
  BY <1>2, <1>4, <1>5, MadeNodes
<1>7. ~ returning /\ status = "running"
  BY <1>2 DEF Entered
<1>8. /\ g \in DOMAIN cursor.tree /\ cursor.path = g /\ IsWhole(D)
      /\ Grows(cursor.tree, D, << >>, Built(D, g, FALSE)) /\ g \notin Built(D, g, FALSE)
  BY <1>1, <1>2, <1>7, GrownHere
<1>9. Unmarked(cursor.tree)
  BY <1>1, <1>2, CursorFacts
<1>10. Built(D, g, TRUE) = Built(D, g, FALSE) \cup {g}
  <2>1. D[g].type \notin SeveralTypes
    BY <1>6 DEF NodeOf, SeveralTypes
  <2>. QED  BY <1>5, <1>8, <2>1, BuiltAtLeaf
<1>. DEFINE done == Built(D, g, FALSE)
<1>11. Grows(cursor.tree, D, << >>, done \cup {g})
  <2>1. Grows(cursor.tree, D, << >>, done) /\ g \notin done
    BY <1>8
  <2>. HIDE DEF done
  <2>. QED  BY <1>5, <1>6, <1>8, <2>1, GrowsAtLeaf
<1>12. GrownTo(cursor', returning')
  BY <1>1, <1>2, <1>8, <1>10, <1>11 DEF GrownTo
<1>13. IsMoved(calls, calls', At)
  BY <1>2, <1>3, StackStays DEF At
<1>. QED  BY <1>1, <1>2, <1>3, <1>7, <1>8, <1>9, <1>12, <1>13, Goes

GoesTo(tree, path, at, up) ==
  IsMoved(calls, calls', at) /\ returning' = up /\ cursor' = Handle(tree, path)

\* Every filter has a child, so that the loop goes on with the filter it is at.
LEMMA VisitGoes ==
  ASSUME calls # << >>, IsStack(calls), IsCall(Inner), Inner = calls[Len(calls)],
         IsShape(Inner.builder), NEW at \in DOMAIN Inner.builder,
         NEW n, n = NChildren(Inner.builder, at), NEW first \in Nat \ {0},
         \A i \in 1..n : NChildren(Inner.builder, Append(at, i)) = 1,
         NEW tree, NEW path \in Position, VisitChildren(at, path, tree, first),
         NEW next, next = Append(Append(at, first), 1),
         NEW low, low = Append(Append(path, first), 1)
  PROVE  /\ UNCHANGED status /\ n \in Nat /\ next \in Position
         /\ \/ GoesTo(tree, path, at, TRUE) /\ first > n
            \/ GoesTo(tree, low, next, FALSE) /\ first <= n
<1>. DEFINE loop == {j \in first..ChildBuilders(at) : ChildBuilders(Append(at, j)) > 0}
<1>1. n \in Nat /\ at \in Position /\ ChildBuilders(at) = n /\ UNCHANGED status
  BY ShapeFacts, ChildrenAreNumbered DEF ChildBuilders, VisitChildren
<1>2. loop = first..n
  <2>1. \A j \in first..n : j \in 1..n
    BY <1>1
  <2>2. \A j \in first..n : ChildBuilders(Append(at, j)) = 1
    BY <2>1 DEF ChildBuilders
  <2>. QED  BY <1>1, <2>2
<1>3. /\ at \o <<first, 1>> = next /\ path \o <<first, 1>> = low
      /\ next \in Position
  BY <1>1, TwoBelow
<1>4. CASE first > n
  <2>1. loop = {}
    BY <1>1, <1>2, <1>4
  <2>2. cursor' = Handle(tree, path) /\ returning' = TRUE /\ IsUpdate(calls, calls', at)
    BY <2>1 DEF VisitChildren, Handle, GoTo, IsUpdate
  <2>3. IsMoved(calls, calls', at)
    BY <2>2, StackMoves
  <2>. QED  BY <1>1, <1>3, <1>4, <2>2, <2>3 DEF GoesTo
<1>5. CASE first <= n
  <2>. DEFINE j == Min(loop)
  <2>1. first \in loop /\ \A i \in loop : first <= i
    BY <1>1, <1>2, <1>5
  <2>2. /\ cursor' = Handle(tree, path \o <<j, 1>>) /\ returning' = FALSE
        /\ IsUpdate(calls, calls', at \o <<j, 1>>)
    BY <2>1 DEF VisitChildren, Handle, GoTo, IsUpdate
  <2>3. j = first
    <3>1. loop \subseteq Nat
      BY <1>1, <1>2
    <3>. HIDE DEF loop
    <3>2. \E x \in loop : \A y \in loop : x <= y
      BY <2>1
    <3>3. j \in loop /\ \A i \in loop : j <= i
      BY <3>2 DEF Min
    <3>4. j \in Nat /\ first \in Nat /\ j <= first /\ first <= j
      BY <2>1, <3>1, <3>3
    <3>. HIDE DEF j
    <3>. QED  BY <3>4
  <2>. HIDE DEF j, loop
  <2>4. IsUpdate(calls, calls', next)
    BY <1>3, <2>2, <2>3
  <2>5. IsMoved(calls, calls', next)
    BY <2>4, StackMoves
  <2>. QED  BY <1>1, <1>3, <1>5, <2>2, <2>3, <2>5 DEF GoesTo
<1>6. first > n \/ first <= n
  BY <1>1
<1>. QED  BY <1>4, <1>5, <1>6

\* The loop over the filters of a sequence or set, all of which are in place.
LEMMA LoopMade ==
  ASSUME Making, IInv', status = "running", UNCHANGED problem,
         NEW at \in DOMAIN Inner.builder, Inner.builder[at].type \in SeveralTypes,
         NEW g, g = Base \o at, NEW D, D = Whole(problem),
         NEW n, n = NChildren(Inner.builder, at), NEW first \in Nat \ {0},
         NEW tree, VisitChildren(at, g, tree, first), first > n => Unmarked(tree),
         NEW low, low = Append(Append(g, first), 1),
         first <= n => Grows(tree, D, << >>, Built(D, low, FALSE)),
         first > n => Grows(tree, D, << >>, Built(D, g, TRUE))
  PROVE  MadeInv'
<1>. DEFINE next == Append(Append(at, first), 1)
            root == IsRoot(problem, Len(calls))
<1>1. /\ calls # << >> /\ IsStack(calls) /\ Inner = calls[Len(calls)] /\ IsCall(Inner)
      /\ IsPart(problem, Inner.builder, Base, root) /\ IsShape(Inner.builder)
  BY TopPart DEF IsPart
<1>2. at \in Position /\ Base \in Position /\ g \in Position
  BY <1>1, ShapeFacts, ConcatPosition DEF IsPart, Stands
<1>. HIDE DEF root
<1>3. \A i \in 1..n : NChildren(Inner.builder, Append(at, i)) = 1
  BY <1>1, PartFilters
<1>4. next = Append(Append(at, first), 1)
  OBVIOUS
<1>. HIDE DEF next
<1>5. /\ UNCHANGED status /\ n \in Nat /\ next \in Position
      /\ \/ GoesTo(tree, g, at, TRUE) /\ first > n
         \/ GoesTo(tree, low, next, FALSE) /\ first <= n
  BY <1>1, <1>2, <1>3, <1>4, VisitGoes
<1>6. Base \o next = low
  BY <1>2, <1>4, TwoBelow
<1>7. ASSUME NEW path, cursor' = Handle(tree, path)
      PROVE  cursor'.tree = tree /\ cursor'.path = path
  BY <1>7, HandleFacts
<1>8. CASE GoesTo(tree, g, at, TRUE) /\ first > n
  <2>1. /\ cursor'.tree = tree /\ cursor'.path = g /\ returning' = TRUE
        /\ IsMoved(calls, calls', at)
    BY <1>7, <1>8 DEF GoesTo
  <2>2. GrownTo(cursor', returning')
    BY <1>8, <2>1 DEF GrownTo
  <2>. QED  BY <1>2, <1>5, <1>8, <2>1, <2>2, Goes
<1>9. CASE GoesTo(tree, low, next, FALSE) /\ first <= n
  <2>1. /\ cursor'.tree = tree /\ cursor'.path = low /\ returning' = FALSE
        /\ IsMoved(calls, calls', next)
    BY <1>7, <1>9 DEF GoesTo
  <2>2. GrownTo(cursor', returning')
    BY <1>9, <2>1 DEF GrownTo
  <2>3. cursor' # Null => Unmarked(cursor'.tree)
    BY <2>1 DEF IInv, CursorInv
  <2>. QED  BY <1>5, <1>6, <2>1, <2>2, <2>3, Goes
<1>. QED  BY <1>5, <1>8, <1>9

\* The i-th filter of a sequence or set at a position of a builder, which is at
\* c in the tree described.
IsFilterAt(D, c, builder, base, at, i) ==
  /\ i \in Nat \ {0} /\ c \in DOMAIN D /\ c = base \o Append(at, i)
  /\ Append(at, i) \in DOMAIN builder /\ builder[Append(at, i)].type = "filter"
  /\ D[c] = Statements("filter", builder[Append(at, i)].stmts)
  /\ D[c].type \notin SeveralTypes
  /\ \A k \in Nat \ {0} : Append(c, k) \in DOMAIN D <=> k = 1

LEMMA FiltersOfWhole ==
  ASSUME Making, NEW at \in DOMAIN Inner.builder, Inner.builder[at].type \in SeveralTypes,
         NEW g, g = Base \o at, NEW D, D = Whole(problem),
         NEW n, n = NChildren(Inner.builder, at), NEW i \in 1..n,
         NEW c, c = Append(g, i)
  PROVE  IsFilterAt(D, c, Inner.builder, Base, at, i)
<1>. DEFINE root == IsRoot(problem, Len(calls))
            q == Append(at, i)
            m == NChildren(Inner.builder, q)
<1>1. /\ IsPart(problem, Inner.builder, Base, root) /\ IsShape(Inner.builder)
      /\ IsDirectBuilder(Inner.builder) /\ IsOrdinary(Inner.builder)
  BY TopPart DEF IsPart
<1>2. at \in Position /\ Base \in Position
  BY <1>1, ShapeFacts DEF IsPart, Stands
<1>. HIDE DEF root
<1>3. /\ q \in DOMAIN Inner.builder /\ Inner.builder[q].type = "filter"
      /\ i \in Nat \ {0} /\ NChildren(Inner.builder, q) = 1
  BY <1>1, PartFilters
<1>4. c = Base \o q
  BY <1>2, <1>3, ConcatAppend
<1>5. IsMade(Inner.builder[q]) /\ Inner.builder[q].from # "subtree"
  BY <1>1, <1>3 DEF IsDirectBuilder, IsOrdinary
<1>6. m = 1 /\ m = NChildren(Inner.builder, q)
  BY <1>3
<1>. HIDE DEF m, q
<1>7. IsNodeOfPart(Inner.builder, Base, q, c, D, m)
  BY <1>1, <1>3, <1>4, <1>6, PartNode
<1>8. /\ c \in DOMAIN D /\ D[c] = Inserted(Inner.builder[q]) /\ D[c].type = "filter"
      /\ \A k \in Nat \ {0} : Append(c, k) \in DOMAIN D <=> k <= 1
  BY <1>3, <1>5, <1>6, <1>7 DEF IsNodeOfPart
<1>9. D[c] = Statements("filter", Inner.builder[q].stmts)
  BY <1>3, <1>5, <1>8, MadeNodes
<1>10. \A k \in Nat \ {0} : k <= 1 <=> k = 1
  OBVIOUS
<1>11. \A k \in Nat \ {0} : Append(c, k) \in DOMAIN D <=> k = 1
  BY <1>8, <1>10
<1>12. D[c].type \notin SeveralTypes
  BY <1>8 DEF SeveralTypes
<1>. QED  BY <1>3, <1>4, <1>8, <1>9, <1>11, <1>12 DEF q, IsFilterAt

LEMMA SeveralMade ==
  ASSUME Making, IInv', UNCHANGED problem, InsertSequenceOrSet
  PROVE  MadeInv'
<1>. DEFINE g == Base \o At
            D == Whole(problem)
            n == ChildBuilders(At)
            children == [i \in DOMAIN ChildFilters |-> FilterOver(ChildFilters[i].stmts, Here)]
            sub == Over(NodeOf(Current.type), children)
            tree == Graft(cursor.tree, cursor.path, sub)
            done == Built(D, g, FALSE)
            low == Append(Append(g, 1), 1)
            all == Built(D, low, FALSE)
            new == WithChildren(D, g)
<1>1. /\ g = Base \o At /\ D = Whole(problem) /\ n = NChildren(Inner.builder, At)
      /\ low = Append(Append(g, 1), 1)
  BY DEF ChildBuilders
<1>2. /\ Entered /\ Current.type \in SeveralTypes /\ cursor # Null /\ Current.type # "leaf"
      /\ VisitChildren(At, cursor.path, tree, 1)
  BY DEF InsertSequenceOrSet, HasType, SeveralTypes
<1>3. ~ returning /\ status = "running"
  BY <1>2 DEF Entered
<1>4. /\ At \in DOMAIN Inner.builder /\ Current = Inner.builder[At]
      /\ Inner.builder[At].type \in SeveralTypes
  BY <1>2, TopPart DEF Current
<1>5. /\ DOMAIN children = 1..n
      /\ \A i \in 1..n : children[i] = FilterOver(Inner.builder[Append(At, i)].stmts, Here)
  BY DEF ChildFilters
<1>. HIDE DEF n, children, D, g
<1>6. /\ IsTree(cursor.tree) /\ g \in DOMAIN cursor.tree /\ cursor.path = g
      /\ g \in DOMAIN D /\ IsWhole(D)
      /\ Grows(cursor.tree, D, << >>, done)
      /\ \A q \in done : ~ IsPrefix(g, q)
      /\ Here = LeafTree
  BY <1>1, <1>2, <1>3, GrownHere
<1>7. /\ n \in Nat /\ n > 0 /\ D[g] = NodeOf(Current.type)
      /\ \A i \in Nat \ {0} : Append(g, i) \in DOMAIN D <=> i <= n
  <2>1. IsNodeOfPart(Inner.builder, Base, At, g, D, n) /\ IsMade(Current)
    BY <1>1, CurrentNode DEF n
  <2>2. /\ n \in Nat /\ n > 0 /\ D[g] = Inserted(Current)
        /\ \A i \in Nat \ {0} : Append(g, i) \in DOMAIN D <=> i <= n
    BY <1>2, <1>4, <2>1 DEF IsNodeOfPart
  <2>3. Inserted(Current) = NodeOf(Current.type)
    BY <1>2, <2>1, MadeNodes
  <2>. QED  BY <2>2, <2>3
<1>. HIDE DEF done, new, all, low
<1>8. ASSUME NEW i \in 1..n
      PROVE  /\ IsTree(children[i]) /\ Grows(children[i], D, Append(g, i), {Append(g, i)})
             /\ Append(g, i) \in DOMAIN D /\ D[Append(g, i)].type \notin SeveralTypes
  <2>. DEFINE c == Append(g, i)
              stmts == Inner.builder[Append(At, i)].stmts
  <2>1. c = Append(g, i)
    OBVIOUS
  <2>. HIDE DEF c
  <2>2. /\ c \in DOMAIN D /\ D[c].type \notin SeveralTypes
        /\ D[c] = Statements("filter", stmts)
        /\ \A k \in Nat \ {0} : Append(c, k) \in DOMAIN D <=> k = 1
    <3>1. IsFilterAt(D, c, Inner.builder, Base, At, i)
      BY <1>1, <1>4, <2>1, FiltersOfWhole
    <3>. QED  BY <3>1 DEF IsFilterAt
  <2>3. children[i] = FilterOver(stmts, LeafTree)
    BY <1>5, <1>6
  <2>4. LeafTree[<< >>].type # "filter"
    BY LeafIsTree, NewNodes
  <2>5. children[i] = Over(D[c], <<LeafTree>>)
    BY <2>2, <2>3, <2>4 DEF FilterOver
  <2>6. IsTree(children[i])
    BY <2>3, LeafIsTree, FilterOverFacts
  <2>7. Grows(children[i], D, c, {c})
    BY <1>6, <2>2, <2>5, NodeGrows
  <2>. QED  BY <2>1, <2>2, <2>6, <2>7
<1>9. \A q \in DOMAIN D : q \in new <=> q = g \/ \E i \in Nat \ {0} : q = Append(g, i)
  BY DEF new, WithChildren
<1>10. sub = Over(D[g], children)
  BY <1>7
<1>. HIDE DEF sub
<1>11. Grows(sub, D, g, new)
  BY <1>5, <1>6, <1>7, <1>8, <1>9, <1>10, FiltersGrow
<1>12. IsTree(sub)
  <2>1. IsNode(D[g]) /\ D[g].type # "leaf" /\ n # 0
    BY <1>2, <1>7, NewNodes
  <2>. QED  BY <1>5, <1>7, <1>8, <1>10, <2>1, OverIsTree
<1>13. \A q \in new : IsPrefix(g, q)
  <2>1. g \in Position
    BY <1>6, WholeDomain
  <2>2. \A i \in Nat \ {0} : IsPrefix(g, Append(g, i))
    BY <2>1, PrefixAppend, AppendPosition, PrefixOrder
  <2>3. IsPrefix(g, g)
    BY <2>1, PrefixOrder
  <2>. QED  BY <2>2, <2>3 DEF new, WithChildren
<1>14. \A q \in DOMAIN D : q \in all <=> q \in done \/ q \in new
  <2>1. Append(g, 1) \in DOMAIN D /\ D[Append(g, 1)].type \notin SeveralTypes
    <3>1. 1 \in 1..n
      BY <1>7
    <3>. QED  BY <1>8, <3>1
  <2>2. D[g].type \in SeveralTypes
    BY <1>2, <1>7, NewNodes
  <2>. DEFINE c == Append(g, 1)
  <2>3. c = Append(g, 1) /\ low = Append(c, 1) /\ c \in DOMAIN D /\ D[c].type \notin SeveralTypes
    BY <1>1, <2>1
  <2>. HIDE DEF c
  <2>4. Built(D, low, FALSE) = Built(D, g, FALSE) \cup WithChildren(D, g)
    BY <1>6, <2>2, <2>3, BuiltAtFirstFilter
  <2>. QED  BY <2>4 DEF all, done, new
<1>15. Grows(tree, D, << >>, all)
  BY <1>6, <1>11, <1>12, <1>13, <1>14, GrowsByGraft
<1>. DEFINE first == 1
<1>16. /\ first \in Nat \ {0} /\ ~ first > n /\ VisitChildren(At, g, tree, first)
       /\ low = Append(Append(g, first), 1)
  BY <1>1, <1>2, <1>6, <1>7
<1>17. Grows(tree, D, << >>, Built(D, low, FALSE))
  BY <1>15 DEF all
<1>. HIDE DEF first, tree
<1>. QED  BY <1>1, <1>3, <1>4, <1>16, <1>17, LoopMade

LEMMA GrownThere ==
  ASSUME Making, Returned, NEW g, g = Base \o At, NEW D, D = Whole(problem)
  PROVE  /\ status = "running" /\ returning /\ IsWhole(D) /\ cursor # Null
         /\ Unmarked(cursor.tree) /\ cursor.path = g /\ cursor = Handle(cursor.tree, g)
         /\ Grows(cursor.tree, D, << >>, Built(D, g, TRUE))
<1>1. IInv
  BY DEF Making
<1>2. returning /\ status = "running" /\ Unmarked(cursor.tree)
  BY <1>1, ReturnedFacts
<1>3. cursor # Null
  BY <1>1, <1>2 DEF IInv, CursorInv
<1>4. cursor.path = g /\ GrownTo(cursor, returning) /\ cursor = Handle(cursor.tree, g)
  BY <1>3, CursorFacts
<1>5. Grows(cursor.tree, D, << >>, Built(D, g, TRUE))
  BY <1>2, <1>4 DEF GrownTo
<1>6. IsWhole(D)
  BY TopPart DEF IsPart
<1>. QED  BY <1>2, <1>3, <1>4, <1>5, <1>6

LEMMA ReturnToSequenceMade ==
  ASSUME Making, IInv', UNCHANGED problem, ReturnToSequence
  PROVE  MadeInv'
<1>. DEFINE builder == Inner.builder
            D == Whole(problem)
            f == Front(At)
            at == Front(f)
            j == Last(f)
            k == Last(At)
            n == NChildren(builder, at)
            g == Base \o at
            c == Base \o f
            root == IsRoot(problem, Len(calls))
            tree == cursor.tree
<1>1. /\ Returned /\ At # << >> /\ FilterOfSequence(f)
      /\ VisitChildren(at, Front(Front(cursor.path)), tree, j + 1)
  BY DEF ReturnToSequence
<1>2. /\ IsPart(problem, builder, Base, root) /\ IsShape(builder)
      /\ At \in DOMAIN builder /\ At \in Position
  BY TopPart DEF IsPart
<1>3. f \in DOMAIN builder /\ f \in Position /\ k \in Nat \ {0} /\ At = Append(f, k)
  BY <1>1, <1>2, ShapeFacts, FrontPosition
<1>4. f # << >> /\ builder[at].type \in SeveralTypes
  BY <1>1, <1>3 DEF FilterOfSequence, Position, SeveralTypes
<1>5. at \in DOMAIN builder /\ at \in Position /\ j \in Nat \ {0} /\ f = Append(at, j)
  BY <1>2, <1>3, <1>4, ShapeFacts, FrontPosition
<1>6. D = Whole(problem) /\ g = Base \o at /\ c = Base \o f /\ n = NChildren(builder, at)
  OBVIOUS
<1>7. Base \in Position
  BY <1>2 DEF IsPart, Stands
<1>. HIDE DEF D, f, at, j, k, n, root
<1>8. n \in Nat /\ j \in 1..n
  <2>1. Append(at, j) \in DOMAIN builder /\ n = NChildren(builder, at)
    BY <1>3, <1>5, <1>6
  <2>. HIDE DEF builder
  <2>2. n \in Nat /\ j <= n
    BY <1>2, <1>5, <2>1, ChildrenAreNumbered
  <2>. QED  BY <1>5, <2>2
<1>9. k = 1
  <2>1. NChildren(builder, f) = 1
    BY <1>2, <1>4, <1>5, <1>6, <1>8, PartFilters
  <2>2. k <= NChildren(builder, f)
    BY <1>2, <1>3, ChildrenAreNumbered
  <2>. QED  BY <1>3, <2>1, <2>2
<1>10. /\ c = Append(g, j) /\ Base \o At = Append(c, 1)
       /\ g \in Position /\ c \in Position
  <2>1. Base \o Append(at, j) = Append(Base \o at, j) /\ Base \o Append(f, 1) = Append(Base \o f, 1)
    <3>1. 1 \in Nat \ {0}
      OBVIOUS
    <3>. QED  BY <1>3, <1>5, <1>7, <3>1, ConcatAppend
  <2>2. Base \o at \in Position /\ Base \o f \in Position
    BY <1>3, <1>5, <1>7, ConcatPosition
  <2>. HIDE DEF g, c
  <2>. QED  BY <1>3, <1>5, <1>6, <1>9, <2>1, <2>2
<1>. HIDE DEF g, c, builder
<1>11. /\ status = "running" /\ returning /\ IsWhole(D)
       /\ Unmarked(tree) /\ cursor.path = Append(c, 1)
       /\ Grows(tree, D, << >>, Built(D, Append(c, 1), TRUE))
  BY <1>1, <1>6, <1>10, GrownThere
<1>12. Front(Front(cursor.path)) = g
  <2>1. Front(Append(c, 1)) = c /\ Front(Append(g, j)) = g
    <3>1. 1 \in Nat \ {0}
      OBVIOUS
    <3>. QED  BY <1>5, <1>10, <3>1, AppendPosition
  <2>. QED  BY <1>10, <1>11, <2>1
<1>13. /\ g \in DOMAIN D /\ D[g].type \in SeveralTypes
       /\ \A i \in Nat \ {0} : Append(g, i) \in DOMAIN D <=> i <= n
  <2>1. IsNodeOfPart(builder, Base, at, g, D, n)
    BY <1>2, <1>5, <1>6, PartNode
  <2>2. builder[at].type # "leaf"
    BY <1>4, SeveralOrNot DEF SeveralTypes
  <2>. QED  BY <1>4, <2>1, <2>2 DEF IsNodeOfPart
<1>14. ASSUME NEW i \in 1..n, NEW d, d = Append(g, i)
       PROVE  IsFilterAt(D, d, builder, Base, at, i)
  BY <1>4, <1>5, <1>6, <1>14, FiltersOfWhole DEF builder
<1>15. c \in DOMAIN D /\ \A i \in Nat \ {0} : Append(c, i) \in DOMAIN D => i = 1
  BY <1>8, <1>10, <1>14 DEF IsFilterAt
<1>. DEFINE first == j + 1
            d == Append(g, first)
            low == Append(d, 1)
<1>16. /\ first \in Nat \ {0} /\ d = Append(g, first) /\ low = Append(d, 1)
       /\ low = Append(Append(g, first), 1)
  BY <1>5
<1>17. /\ \A i \in Nat \ {0} : first > n /\ i <= n => i <= j
       /\ first <= n => first \in 1..n
  BY <1>5, <1>8
<1>18. VisitChildren(at, g, tree, first)
  BY <1>1, <1>12
<1>. HIDE DEF first, d, low, tree
<1>19. ASSUME first <= n PROVE Grows(tree, D, << >>, Built(D, low, FALSE))
  <2>1. d \in DOMAIN D /\ D[d].type \notin SeveralTypes
    BY <1>14, <1>16, <1>17, <1>19 DEF IsFilterAt
  <2>2. Built(D, Append(c, 1), TRUE) = Built(D, Append(d, 1), FALSE)
    <3>1. IsWhole(D) /\ g \in DOMAIN D /\ D[g].type \in SeveralTypes /\ j \in Nat \ {0}
      BY <1>5, <1>11, <1>13
    <3>2. c = Append(g, j) /\ d = Append(g, first) /\ first = j + 1
      BY <1>10, <1>16 DEF first
    <3>3. AreNextFilters(D, g, j, c, d)
      BY <1>15, <2>1, <3>1, <3>2 DEF AreNextFilters
    <3>. QED  BY <3>3, BuiltAtNextFilter
  <2>. QED  BY <1>11, <1>16, <2>2
<1>20. ASSUME first > n PROVE Grows(tree, D, << >>, Built(D, g, TRUE))
  <2>1. \A i \in Nat \ {0} : Append(g, i) \in DOMAIN D => i <= j
    BY <1>13, <1>17, <1>20
  <2>2. Built(D, Append(c, 1), TRUE) = Built(D, g, TRUE)
    BY <1>5, <1>10, <1>11, <1>13, <1>15, <2>1, BuiltAtLastFilter
  <2>. QED  BY <1>11, <2>2
<1>21. /\ at \in DOMAIN Inner.builder /\ Inner.builder[at].type \in SeveralTypes
       /\ n = NChildren(Inner.builder, at) /\ g = Base \o at
  BY <1>4, <1>5, <1>6 DEF builder
<1>. QED  BY <1>6, <1>11, <1>16, <1>18, <1>19, <1>20, <1>21, LoopMade

LEMMA ReturnToParentMade ==
  ASSUME Making, UNCHANGED problem, ReturnToParent
  PROVE  MadeInv'
<1>. DEFINE builder == Inner.builder
            D == Whole(problem)
            at == Front(At)
            k == Last(At)
            n == NChildren(builder, at)
            g == Base \o at
            root == IsRoot(problem, Len(calls))
<1>1. /\ Returned /\ At # << >> /\ GoTo(at) /\ cursor' = [cursor EXCEPT !.path = Front(@)]
      /\ UNCHANGED <<status, returning, captured>>
  BY DEF ReturnToParent
<1>2. /\ IsPart(problem, builder, Base, root) /\ IsShape(builder)
      /\ At \in DOMAIN builder /\ At \in Position /\ calls # << >> /\ IsStack(calls)
      /\ Inner = calls[Len(calls)] /\ IsCall(Inner)
  BY TopPart DEF IsPart
<1>3. at \in DOMAIN builder /\ at \in Position /\ k \in Nat \ {0} /\ At = Append(at, k)
  BY <1>1, <1>2, ShapeFacts, FrontPosition
<1>4. builder[at].type \notin SeveralTypes
  BY <1>1, <1>2 DEF IsCall, At
<1>5. IsMoved(calls, calls', at)
  <2>1. IsUpdate(calls, calls', at)
    BY <1>1 DEF GoTo, IsUpdate
  <2>. QED  BY <1>2, <2>1, StackMoves
<1>6. D = Whole(problem) /\ g = Base \o at /\ n = NChildren(builder, at)
  OBVIOUS
<1>7. Base \in Position
  BY <1>2 DEF IsPart, Stands
<1>. HIDE DEF D, at, k, n, root, builder
<1>8. /\ n \in Nat /\ n <= 1 /\ g \in DOMAIN D
      /\ \A i \in Nat \ {0} : Append(g, i) \in DOMAIN D <=> i <= n
  <2>1. IsNodeOfPart(builder, Base, at, g, D, n)
    BY <1>2, <1>3, <1>6, PartNode
  <2>2. builder[at].type # "leaf"
    <3>1. k <= n
      BY <1>2, <1>3, <1>6, ChildrenAreNumbered
    <3>2. n # 0
      BY <1>3, <3>1
    <3>. QED  BY <2>1, <3>2 DEF IsNodeOfPart
  <2>. QED  BY <1>4, <2>1, <2>2 DEF IsNodeOfPart
<1>9. k = 1
  <2>1. k <= n
    BY <1>2, <1>3, <1>6, ChildrenAreNumbered
  <2>. QED  BY <1>3, <1>8, <2>1
<1>10. Base \o At = Append(g, 1) /\ g \in Position
  <2>. HIDE DEF g
  <2>1. Base \o Append(at, 1) = Append(Base \o at, 1)
    <3>1. 1 \in Nat \ {0}
      OBVIOUS
    <3>. QED  BY <1>3, <1>7, <3>1, ConcatAppend
  <2>2. Base \o at \in Position
    BY <1>3, <1>7, ConcatPosition
  <2>. QED  BY <1>3, <1>6, <1>9, <2>1, <2>2
<1>. HIDE DEF g
<1>11. /\ status = "running" /\ returning /\ IsWhole(D) /\ cursor # Null
       /\ Unmarked(cursor.tree) /\ cursor = Handle(cursor.tree, Append(g, 1))
       /\ Grows(cursor.tree, D, << >>, Built(D, Append(g, 1), TRUE))
  BY <1>1, <1>6, <1>10, GrownThere
<1>12. cursor'.tree = cursor.tree /\ cursor'.path = g
  <2>. DEFINE tree == cursor.tree
              path == Append(g, 1)
  <2>1. cursor' = Handle(tree, Front(path))
    <3>1. cursor = Handle(tree, path)
      BY <1>11
    <3>. HIDE DEF tree, path
    <3>. QED  BY <1>1, <3>1 DEF Handle
  <2>2. Front(Append(g, 1)) = g
    BY <1>10, AppendPosition
  <2>. QED  BY <2>1, <2>2, HandleFacts
<1>13. Built(D, Append(g, 1), TRUE) = Built(D, g, TRUE)
  <2>1. \A i \in Nat \ {0} : Append(g, i) \in DOMAIN D => i = 1
    BY <1>8
  <2>. QED  BY <1>8, <1>11, <2>1, BuiltUpFromSingle
<1>14. GrownTo(cursor', returning')
  BY <1>1, <1>6, <1>11, <1>12, <1>13 DEF GrownTo
<1>. QED  BY <1>1, <1>3, <1>5, <1>6, <1>11, <1>12, <1>14, Goes

\* A lazy leaf and the copy that takes its place are at one position.
LEMMA EnterSubtreeMade ==
  ASSUME Making, UNCHANGED problem, EnterSubtree
  PROVE  MadeInv'
<1>. DEFINE call == CallOf(Copy(problem), Null)
<1>1. /\ Entered /\ Current.from = "subtree" /\ UNCHANGED <<status, cursor, returning, captured>>
      /\ calls # << >> /\ IsStack(calls) /\ Inner = calls[Len(calls)]
      /\ Len(calls) = 1 /\ At \in DOMAIN Inner.builder /\ At \in Position
  BY TopPart DEF EnterSubtree, HasType
<1>2. calls' = Append(calls, call)
  <2>1. captured.grandchild = Start
    BY TopPart DEF Making, BuildInv
  <2>2. captured.grandchild.tree = problem.tree /\ captured.grandchild.path = problem.at
    BY <2>1 DEF Start, Handle
  <2>. QED  BY <2>2 DEF EnterSubtree, Copy
<1>3. call.at = << >> /\ call.builder = Copy(problem) /\ call.expanded = Null
  BY DEF CallOf
<1>. HIDE DEF call
<1>4. /\ IsStack(calls') /\ calls' # << >> /\ Len(calls') = 2
      /\ calls'[2] = call /\ calls'[1] = calls[1]
  <2>1. /\ IsStack(calls') /\ calls' # << >> /\ Len(calls') = Len(calls) + 1
        /\ calls'[Len(calls) + 1] = call
        /\ \A k \in 1..Len(calls) : calls'[k] = calls[k]
    <3>1. IsStack(calls)
      BY <1>1
    <3>2. /\ IsStack(Append(calls, call)) /\ Append(calls, call) # << >>
          /\ Len(Append(calls, call)) = Len(calls) + 1
          /\ Append(calls, call)[Len(calls) + 1] = call
          /\ \A k \in 1..Len(calls) : Append(calls, call)[k] = calls[k]
      BY ONLY <3>1, StackGrows
    <3>. QED  BY <1>2, <3>2
  <2>2. 1 \in 1..Len(calls) /\ Len(calls) + 1 = 2
    BY <1>1
  <2>. QED  BY <2>1, <2>2
<1>5. Inner = calls[1] /\ At = calls[1].at
  BY <1>1 DEF At
<1>6. calls[1].at \in LazyLeaves(problem.expression)
  <2>1. calls[1].builder = problem.expression
    BY TopPart DEF Making, BuildInv
  <2>. QED  BY <1>1, <1>5, <2>1 DEF LazyLeaves, Current
<1>7. Base' = At /\ At' = << >>
  <2>1. Inner' = call
    BY <1>4, StackFacts DEF Inner
  <2>. QED  BY <1>3, <1>4, <1>5, <2>1 DEF Base, At
<1>8. /\ Base \o At = At /\ At \o << >> = At
  BY <1>1, ConcatPosition DEF Base
<1>9. \A k \in 1..2 : calls'[k].expanded = Null
  <2>1. calls[1].expanded = Null
    BY <1>1 DEF Making, MadeInv
  <2>2. \A k \in 1..2 : k = 1 \/ k = 2
    OBVIOUS
  <2>. QED  BY <1>3, <1>4, <2>1, <2>2
<1>10. (cursor # Null => /\ cursor.path = Base \o At
                        /\ Unmarked(cursor.tree) /\ GrownTo(cursor, returning))'
  BY <1>1, <1>7, <1>8 DEF Making, MadeInv, GrownTo, Null, Handle
<1>11. status' = "running"
  BY <1>1 DEF Entered
<1>12. (Len(calls) = 2 =>
          calls[2].builder = Copy(problem) /\ calls[1].at \in LazyLeaves(problem.expression))'
  BY <1>3, <1>4, <1>6
<1>. QED  BY <1>4, <1>9, <1>10, <1>11, <1>12 DEF MadeInv

LEMMA ReturnFromSubtreeMade ==
  ASSUME Making, UNCHANGED problem, ReturnFromSubtree
  PROVE  MadeInv'
<1>1. /\ Returned /\ At = << >> /\ Len(calls) > 1 /\ calls' = Front(calls)
      /\ UNCHANGED <<status, cursor, returning, captured>>
      /\ calls # << >> /\ IsStack(calls)
  BY TopPart DEF ReturnFromSubtree
<1>2. Len(calls) = 2
  BY <1>1 DEF Making, MadeInv
<1>3. IsStack(calls') /\ Len(calls') = 1 /\ calls'[1] = calls[1]
  <2>1. /\ IsStack(calls') /\ Len(calls') = Len(calls) - 1
        /\ \A k \in 1..(Len(calls) - 1) : calls'[k] = calls[k]
    BY <1>1, StackShrinks
  <2>2. 1 \in 1..(Len(calls) - 1) /\ Len(calls) - 1 = 1
    BY <1>2
  <2>. QED  BY <2>1, <2>2
<1>4. Base' = << >> /\ At' = calls[1].at /\ Base = calls[1].at
  <2>1. calls' # << >>
    BY <1>3, StackFacts
  <2>2. Inner' = calls[1]
    BY <1>3, <2>1, StackFacts DEF Inner
  <2>. QED  BY <1>2, <1>3, <2>2 DEF Base, At
<1>5. Base \in Position
  BY TopPart DEF IsPart, Stands
<1>6. Base \o At = Base /\ << >> \o Base = Base
  BY <1>1, <1>5, ConcatPosition
<1>7. (cursor # Null => /\ cursor.path = Base \o At
                       /\ Unmarked(cursor.tree) /\ GrownTo(cursor, returning))'
  BY <1>1, <1>4, <1>6 DEF Making, MadeInv, GrownTo, Null, Handle
<1>8. \A k \in 1..1 : calls'[k].expanded = Null
  <2>1. calls[1].expanded = Null /\ \A k \in 1..1 : k = 1
    BY <1>2 DEF Making, MadeInv
  <2>. QED  BY <1>3, <2>1
<1>9. status' = "running"
  BY <1>1 DEF Returned
<1>. QED  BY <1>3, <1>7, <1>8, <1>9 DEF MadeInv

\* Nothing is expanded, and no call waits for an expansion.
LEMMA NothingExpands ==
  ASSUME Making, EnterExpansion \/ InsertMark \/ ExpandSchedule \/ DeleteMark
  PROVE  FALSE
<1>1. CASE EnterExpansion
  <2>. DEFINE g == Base \o At
              D == Whole(problem)
  <2>1. IsNodeOfPart(Inner.builder, Base, At, g, D, ChildBuilders(At))
    BY CurrentNode
  <2>2. Current.type # "expansion"
    BY <2>1 DEF IsNodeOfPart, Current
  <2>. QED  BY <1>1, <2>2 DEF EnterExpansion, HasType
<1>2. CASE InsertMark \/ ExpandSchedule
  <2>1. Inner.expanded # Null
    BY <1>2 DEF InsertMark, ExpandSchedule
  <2>2. Inner = calls[Len(calls)] /\ Len(calls) \in Nat \ {0}
    BY TopPart
  <2>3. Len(calls) \in 1..Len(calls)
    BY <2>2
  <2>. QED  BY <2>1, <2>2, <2>3 DEF Making, MadeInv
<1>3. CASE DeleteMark
  <2>1. cursor # Null /\ cursor.tree[cursor.path] = ExpandMark
    BY <1>3 DEF DeleteMark, AtMark
  <2>2. Unmarked(cursor.tree) /\ cursor.path \in DOMAIN cursor.tree
    BY <2>1, CursorFacts
  <2>3. IsExpandMark(ExpandMark)
    BY DEF IsExpandMark, ExpandMark, Named, NodeOf
  <2>. QED  BY <2>1, <2>2, <2>3 DEF Unmarked
<1>. QED  BY <1>1, <1>2, <1>3

LEMMA StaysMade ==
  ASSUME MadeInv, UNCHANGED <<cursor, calls, returning, problem>>,
         status' = "done" => Len(calls) = 1 /\ calls[1].at = << >> /\ returning
  PROVE  MadeInv'
<1>1. Base' = Base /\ At' = At
  BY DEF Base, At, Inner
<1>2. GrownTo(cursor, returning)' = GrownTo(cursor, returning)
  BY DEF GrownTo
<1>. QED  BY <1>1, <1>2 DEF MadeInv

LEMMA BuildStepMade ==
  ASSUME Making, IInv', BuildStep
  PROVE  MadeInv'
<1>1. InsertAtStep /\ UNCHANGED problem
  BY DEF BuildStep
<1>2. CASE InsertDomain
  BY <1>1, <1>2, DomainMade
<1>3. CASE InsertBand \/ InsertFilter \/ InsertNamed \/ InsertExtension
  BY <1>1, <1>3, SinglesMade
<1>4. CASE InsertSequenceOrSet
  BY <1>1, <1>4, SeveralMade
<1>5. CASE StayAtLeaf
  BY <1>1, <1>5, LeafMade
<1>6. CASE EnterSubtree
  BY <1>1, <1>6, EnterSubtreeMade
<1>7. CASE FailAssertion
  <2>1. /\ MadeInv /\ UNCHANGED <<cursor, calls, returning, problem>>
        /\ status' = "done" => Len(calls) = 1 /\ calls[1].at = << >> /\ returning
    BY <1>1, <1>7 DEF FailAssertion, Making
  <2>. QED  BY <2>1, StaysMade
<1>8. CASE EnterExpansion \/ InsertMark \/ ExpandSchedule \/ DeleteMark
  BY <1>8, NothingExpands
<1>9. CASE ReturnToSequence
  BY <1>1, <1>9, ReturnToSequenceMade
<1>10. CASE ReturnToParent
  BY <1>1, <1>10, ReturnToParentMade
<1>11. CASE ReturnFromSubtree
  BY <1>1, <1>11, ReturnFromSubtreeMade
<1>. QED  BY <1>1, <1>2, <1>3, <1>4, <1>5, <1>6, <1>7, <1>8, <1>9, <1>10, <1>11 DEF InsertAtStep

LEMMA MadeNextPreserves ==
  ASSUME Making, IInv', [Next]_vars
  PROVE  MadeInv'
<1>1. CASE BuildStep
  BY <1>1, BuildStepMade
<1>2. CASE FinishBuild
  <2>1. /\ Returned /\ At = << >> /\ Len(calls) = 1 /\ Inner = calls[Len(calls)]
        /\ UNCHANGED <<cursor, calls, returning, captured, problem, visit>>
    BY <1>2, TopPart DEF FinishBuild, BuilderReturns
  <2>2. returning /\ calls[1].at = << >>
    BY <2>1 DEF Returned, At
  <2>. QED  BY <2>1, <2>2, StaysMade DEF Making
<1>3. CASE \/ MatchAndCut \/ MatchAgain \/ VisitFirstChild \/ NothingBelow
           \/ VisitNextChild \/ ReturnToCaller \/ FinishMerge
  <2>1. problem.op = "merge"
    BY <1>3 DEF MatchAndCut, MatchAgain, VisitFirstChild, NothingBelow, VisitNextChild,
                ReturnToCaller, FinishMerge, Visiting
  <2>. QED  BY <2>1, TopPart
<1>4. CASE UNCHANGED vars
  <2>1. UNCHANGED <<status, cursor, calls, returning, captured, problem>>
    BY <1>4 DEF vars, builderVars
  <2>. QED  BY <2>1, StaysMade DEF Making, MadeInv
<1>. QED  BY <1>1, <1>2, <1>3, <1>4 DEF Next

LEMMA InitMade ==
  ASSUME Plain, Init, Good(problem)
  PROVE  MadeInv
<1>1. problem \in Problems /\ problem.op = "build"
  BY DEF Init, Good
<1>2. /\ status = "running" /\ cursor = Null
      /\ calls = <<CallOf(Constructed(problem.expression), Null)>>
  BY <1>1 DEF Init
<1>. DEFINE call == CallOf(Constructed(problem.expression), Null)
<1>3. call.expanded = Null
  BY DEF CallOf
<1>. HIDE DEF call
<1>4. Len(calls) = 1 /\ calls[1] = call
  BY <1>2 DEF call
<1>5. \A k \in 1..1 : calls[k].expanded = Null
  BY <1>3, <1>4
<1>. QED  BY <1>2, <1>4, <1>5 DEF MadeInv

\* When the first call returns from its root, all of the description is built.
LEMMA AllIsBuilt ==
  ASSUME Making, status = "done"
  PROVE  cursor = Handle(Whole(problem), << >>)
<1>. DEFINE D == Whole(problem)
            tree == cursor.tree
<1>1. /\ Len(calls) = 1 /\ calls[1].at = << >> /\ returning /\ calls # << >>
      /\ Inner = calls[Len(calls)] /\ IsPart(problem, Inner.builder, Base, IsRoot(problem, Len(calls)))
      /\ cursor = Null <=> IsRoot(problem, Len(calls)) /\ At = << >> /\ ~ returning
  BY TopPart DEF Making, MadeInv
<1>2. At = << >> /\ Base = << >> /\ cursor # Null /\ IsWhole(D)
  BY <1>1 DEF At, Base, IsPart
<1>3. << >> \o << >> = << >> /\ << >> \in Position
  BY EmptySeq, ConcatPosition DEF Position
<1>. DEFINE g == Base \o At
<1>4. g = << >> /\ g = Base \o At
  BY <1>2, <1>3
<1>5. D = Whole(problem) /\ tree = cursor.tree
  OBVIOUS
<1>. HIDE DEF g, D, tree
<1>6. IsTree(tree) /\ cursor = Handle(tree, g) /\ GrownTo(cursor, returning) /\ cursor.path = g
  BY <1>2, <1>4, <1>5, CursorFacts
<1>7. Grows(tree, D, << >>, Built(D, << >>, TRUE))
  BY <1>1, <1>4, <1>5, <1>6 DEF GrownTo
<1>8. \A q \in DOMAIN D : q \in Built(D, << >>, TRUE)
  <2>1. ASSUME NEW q \in DOMAIN D PROVE q \in Built(D, << >>, TRUE)
    <3>1. q \in Position
      BY <1>2, WholeDomain
    <3>2. Passed(q, << >>, TRUE)
      BY <3>1, NothingPassed
    <3>. QED  BY <3>2 DEF Built
  <2>. QED  BY <2>1
<1>. DEFINE all == Built(D, << >>, TRUE)
<1>9. Grows(tree, D, << >>, all) /\ \A q \in DOMAIN D : q \in all
  BY <1>7, <1>8
<1>. HIDE DEF all
<1>10. /\ tree = [q \in DOMAIN tree |-> tree[q]] /\ D = [q \in DOMAIN D |-> D[q]]
       /\ \A q \in DOMAIN tree : q \in Position
       /\ \A q \in DOMAIN D : q \in Position /\ (q # << >> => Front(q) \in DOMAIN D)
  BY <1>2, <1>6, WholeDomain, ShapeFacts DEF IsTree, IsWhole
<1>11. \A q \in Position : << >> \o q = q
  BY ConcatPosition
<1>12. ASSUME NEW q \in Position PROVE q \in DOMAIN tree <=> q \in DOMAIN D
  <2>1. q \in DOMAIN tree <=>
          << >> \o q \in DOMAIN D /\ (q = << >> \/ << >> \o Front(q) \in all)
    BY <1>9 DEF Grows
  <2>2. q \in DOMAIN D /\ q # << >> => << >> \o Front(q) = Front(q) /\ Front(q) \in all
    BY <1>9, <1>10, <1>11
  <2>. QED  BY <1>11, <2>1, <2>2
<1>13. DOMAIN tree = DOMAIN D
  BY <1>10, <1>12
<1>14. ASSUME NEW q \in DOMAIN tree PROVE tree[q] = D[q]
  <2>1. << >> \o q \in all => tree[q] = D[<< >> \o q]
    BY <1>9 DEF Grows
  <2>2. << >> \o q = q /\ q \in all
    BY <1>9, <1>10, <1>11, <1>13
  <2>. QED  BY <2>1, <2>2
<1>15. tree = D
  BY <1>10, <1>13, <1>14
<1>. QED  BY <1>4, <1>5, <1>6, <1>15

\* build() and the copies of captured trees in it: whatever the builders and the
\* depth of their nesting, recursion and the loops over the filters of sequences
\* and sets, which insert below nodes that are in place already, end with the
\* tree that is described, every node under the one it was given to and none
\* twice, missing or left from the insertion of another.
THEOREM BuildsAsDescribed ==
  ASSUME \A p \in Problems : IsPlain(p)
  PROVE  Spec => [](IsDirect(problem) => BuildsWhatIsDescribed)
<1>. DEFINE Inv == IInv /\ BuildInv /\ (Good(problem) => MadeInv)
            Holds == IsDirect(problem) => BuildsWhatIsDescribed
<1>1. Plain
  BY DEF Plain
<1>2. Init => Inv
  BY <1>1, InitInv, InitIsFine, InitMade
<1>3. Inv /\ [Next]_vars => Inv'
  <2>. SUFFICES ASSUME Inv, [Next]_vars PROVE Inv'
    OBVIOUS
  <2>1. IInv' /\ BuildInv'
    BY <1>1, NextPreserves, FineNextPreserves
  <2>2. UNCHANGED problem
    <3>1. CASE Next
      BY <3>1 DEF Next, BuildStep, FinishBuild, MatchAndCut, MatchAgain, VisitFirstChild,
                  NothingBelow, VisitNextChild, ReturnToCaller, FinishMerge
    <3>. QED  BY <3>1 DEF vars
  <2>3. Good(problem)' <=> Good(problem)
    BY <2>2 DEF Good
  <2>4. Good(problem) => MadeInv'
    BY <1>1, <2>1, MadeNextPreserves DEF Making
  <2>. QED  BY <2>1, <2>3, <2>4
<1>4. Inv => Holds
  <2>. SUFFICES ASSUME Inv, IsDirect(problem), status = "done", problem.op = "build"
                PROVE  cursor = Handle(Described(problem.expression,
                                         Subtree(problem.tree, problem.at)), << >>)
    BY DEF BuildsWhatIsDescribed
  <2>1. Good(problem)
    BY DEF BuildInv, Good
  <2>2. cursor = Handle(Whole(problem), << >>)
    BY <1>1, <2>1, AllIsBuilt DEF Making
  <2>. QED  BY <2>2 DEF Whole
<1>. HIDE DEF Inv, Holds
<1>5. Spec => []Holds
  BY <1>2, <1>3, <1>4, PTL DEF Spec
<1>. QED  BY <1>5 DEF Holds

=============================================================================
