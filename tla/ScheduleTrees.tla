---------------------------- MODULE ScheduleTrees ----------------------------
(***************************************************************************)
(* Schedule trees of isl, as islutils uses them: an external library.      *)
(*                                                                         *)
(* A tree is a function from positions to nodes.  A position is the        *)
(* sequence of child indices that leads to it from the root, so that       *)
(* node.child(i) appends i + 1 and node.parent() drops the last index.     *)
(* Every branch ends in an explicit leaf, as it does for the callers of    *)
(* n_children and child.  A node handle is [tree, path]: isl copies on     *)
(* write, so a handle keeps the whole tree it was taken from.              *)
(*                                                                         *)
(* Members of a band's partial schedule are values, filters and domains    *)
(* are sets of statements; marks, guards, contexts and extensions carry a  *)
(* name, expansions pairs of a statement and one it expands to.            *)
(* Simplifications isl applies to payloads are left out.                   *)
(***************************************************************************)
EXTENDS Integers, SequencesExt

CONSTANT None   \* the name of a node that carries none

Handle(tree, path) == [tree |-> tree, path |-> path]

\* The null schedule_node: a handle to no tree.
Null == Handle(<< >>, << >>)

NodeOf(type) ==
  [type |-> type, stmts |-> {}, members |-> << >>, coincident |-> << >>,
   permutable |-> FALSE, expands |-> {}, name |-> None]

\* What a node holds, of all that a description of it may have.
NodeIn(node) ==
  [type |-> node.type, stmts |-> node.stmts, members |-> node.members,
   coincident |-> node.coincident, permutable |-> node.permutable,
   expands |-> node.expands, name |-> node.name]
IsNode(node) == node = NodeIn(node)

Statements(type, stmts) == [NodeOf(type) EXCEPT !.stmts = stmts]
Named(type, name) == [NodeOf(type) EXCEPT !.name = name]
Expansion(pairs) == [NodeOf("expansion") EXCEPT !.expands = pairs]
Band(members, coincident, permutable) ==
  [NodeOf("band") EXCEPT !.members = members, !.coincident = coincident,
                         !.permutable = permutable]

Position == Seq(Nat \ {0})

\* The positions of a tree: finitely many, with all parents and elder siblings.
IsShape(tree) ==
  /\ IsFiniteSet(DOMAIN tree) /\ << >> \in DOMAIN tree
  /\ \A q \in DOMAIN tree :
       /\ q \in Position
       /\ q # << >> => /\ Front(q) \in DOMAIN tree
                      /\ \A i \in 1..Last(q) : Append(Front(q), i) \in DOMAIN tree

\* Leaves are explicit: they are the nodes without children.
IsTree(tree) ==
  /\ IsShape(tree)
  /\ tree = [q \in DOMAIN tree |-> tree[q]]
  /\ \A q \in DOMAIN tree :
       /\ IsNode(tree[q])
       /\ tree[q].type = "leaf" <=> Append(q, 1) \notin DOMAIN tree

Children(tree, p) == {q \in DOMAIN tree : Len(q) = Len(p) + 1 /\ IsPrefix(p, q)}
NChildren(tree, p) == Cardinality(Children(tree, p))

Below(tree, p) == {q \in DOMAIN tree : IsPrefix(p, q)}
From(p, q) == SubSeq(q, Len(p) + 1, Len(q))

Subtree(tree, p) ==
  LET inside == {From(p, q) : q \in Below(tree, p)}
  IN  [q \in inside |-> tree[p \o q]]

\* The subtree at p becomes sub.
Graft(tree, p, sub) ==
  LET kept == DOMAIN tree \ Below(tree, p)
  IN  [q \in kept \cup {p \o r : r \in DOMAIN sub} |->
         IF q \in kept THEN tree[q] ELSE sub[From(p, q)]]

\* The tree of a node above the trees of its children.
Over(node, children) ==
  LET below == UNION {{<<i>> \o q : q \in DOMAIN children[i]} :
                        i \in DOMAIN children}
  IN  [q \in {<< >>} \cup below |->
         IF q = << >> THEN node ELSE children[Head(q)][Tail(q)]]

LeafTree == Over(NodeOf("leaf"), << >>)

\* insert_filter merges the new filter with the one it is put above.
FilterOver(stmts, sub) ==
  IF sub[<< >>].type = "filter"
    THEN [sub EXCEPT ![<< >>].stmts = @ \cap stmts]
    ELSE Over(Statements("filter", stmts), <<sub>>)

\* What a node passes on of the statements that reach it.
Apply(pairs, stmts) == {e[2] : e \in {f \in pairs : f[1] \in stmts}}
Through(stmts, node) ==
  CASE node.type = "filter"    -> stmts \cap node.stmts
    [] node.type = "expansion" -> Apply(node.expands, stmts)
    [] OTHER                   -> stmts

\* The statements that reach a position.
DomainAt(tree, p) ==
  FoldLeft(Through, tree[<< >>].stmts,
           [k \in 1..Len(p) |-> tree[SubSeq(p, 1, k - 1)]])

\* The members of the bands above a position, outermost first.
PrefixSchedule(tree, p) ==
  FlattenSeq([k \in 1..Len(p) |-> tree[SubSeq(p, 1, k - 1)].members])

Leaves(tree) == {q \in DOMAIN tree : tree[q].type = "leaf"}

\* The node at p is replaced by its only child.
Delete(tree, p) == Graft(tree, p, Subtree(tree, Append(p, 1)))

\* The leaves reached by a statement that some statement of the second tree
\* contracts to get an expansion node, with that tree below it.
Expand(tree, pairs, sub) ==
  LET contracted == {e[1] : e \in {f \in pairs : f[2] \in sub[<< >>].stmts}}
      reached == {q \in Leaves(tree) : DomainAt(tree, q) \cap contracted # {}}
      inserted == DOMAIN sub \ {<< >>}
      At(p) == CHOOSE q \in reached : IsPrefix(q, p)
  IN  [p \in DOMAIN tree \cup {q \o r : q \in reached, r \in inserted} |->
         IF p \in reached THEN Expansion(pairs)
         ELSE IF p \in DOMAIN tree THEN tree[p] ELSE sub[From(At(p), p)]]

\* What a tree schedules: the statements and the schedule of each leaf.
Meaning(tree) ==
  {[stmts |-> DomainAt(tree, q), members |-> PrefixSchedule(tree, q)] :
     q \in Leaves(tree)}

=============================================================================
