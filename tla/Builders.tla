------------------------------- MODULE Builders -------------------------------
(***************************************************************************)
(* islutils/builders.h and builders.cc: descriptions of schedule trees and *)
(* the recursive ScheduleNodeBuilder::insertAt that turns one into nodes.  *)
(*                                                                         *)
(* A builder is a tree too: a function from positions to builder nodes.    *)
(* "from" tells which callback supplies the payload: "value" for one that  *)
(* returns what the node holds, "merged" for the band made of the captured *)
(* parent and child, "subtree" for the lazy leaf of subtree(...).          *)
(*                                                                         *)
(* A call of insertAt is a position in a builder.  Recursion inside one    *)
(* builder follows that position, so "calls" keeps one entry per builder:  *)
(* a lazy leaf adds one, and so does an expansion, whose subtree is built  *)
(* as a tree of its own while the node it belongs to waits in "expanded".  *)
(***************************************************************************)
EXTENDS ScheduleTrees

VARIABLES
  status,      \* "running", "done" or "aborted" by an assertion
  cursor,      \* the argument, then the result, of the innermost call
  calls,       \* active builders, each with the position reached in it
  returning,   \* the innermost call has returned
  captured     \* variables the callbacks refer to: parent, child, grandchild

builderVars == <<status, cursor, calls, returning, captured>>
-----------------------------------------------------------------------------
(* Constructors.  An expression is a tree of builder nodes as written by    *)
(* the caller; a leaf stands where the caller leaves out the child.         *)

BuilderNode(node, from) ==
  [type |-> node.type, stmts |-> node.stmts, members |-> node.members,
   coincident |-> node.coincident, permutable |-> node.permutable,
   expands |-> node.expands, name |-> node.name, from |-> from]

\* context(set, child) passes on the set only: its child is a new leaf.
LosesChild(node) == node.type = "context" /\ node.from = "copy"

Constructed(expression) ==
  LET lost(q) == \E k \in 0..(Len(q) - 2) : LosesChild(expression[SubSeq(q, 1, k)])
      kept == {q \in DOMAIN expression : ~ lost(q)}
  IN  [q \in kept |->
         IF Len(q) > 0 /\ LosesChild(expression[Front(q)])
           THEN BuilderNode(NodeOf("leaf"), "value") ELSE expression[q]]

\* Bands are described by their partial schedule alone: flags are reset.
SubtreeBuilder(tree) ==
  [q \in DOMAIN tree |->
     BuilderNode([tree[q] EXCEPT !.coincident = << >>, !.permutable = FALSE],
                 "value")]

(* Payloads, computed when the node is inserted *)

MembersOf(handle) == handle.tree[handle.path].members

\* Variant: the child's dimensions become the outer ones.
PayloadSwapped(node) ==
  IF node.from = "merged"
    THEN Band(MembersOf(captured.child) \o MembersOf(captured.parent), << >>,
              TRUE)
    ELSE node

Payload(node) ==
  IF node.from = "merged"
    THEN Band(MembersOf(captured.parent) \o MembersOf(captured.child), << >>,
              TRUE)
    ELSE node

\* insert_partial_schedule followed by applyPropertiesToBandNode: a short
\* vector of flags leaves the other members not coincident.
BandFor(descriptor) ==
  Band(descriptor.members,
       [i \in DOMAIN descriptor.members |->
          i \in DOMAIN descriptor.coincident /\ descriptor.coincident[i]],
       descriptor.permutable)

CallOf(builder, expanded) ==
  [builder |-> builder, at |-> << >>, expanded |-> expanded]

ExpandMark == Named("mark", "__islutils_expand_builder")
IsExpandMark(node) == node.type = "mark" /\ node.name = ExpandMark.name

Inner == Last(calls)
At == Inner.at
Current == Inner.builder[At]
ChildBuilders(p) == NChildren(Inner.builder, p)
Entered == status = "running" /\ calls # << >> /\ ~ returning
AtMark == cursor # Null /\ cursor.tree[cursor.path] = ExpandMark
Returned == status = "running" /\ calls # << >> /\ returning /\ ~ AtMark
\* build() asserts a domain at the root, the null node.
HasType(types) ==
  /\ Entered /\ Current.type \in types
  /\ Current.type = "domain" <=> cursor = Null

GoTo(at) == calls' = [calls EXCEPT ![Len(calls)].at = at]

Here == Subtree(cursor.tree, cursor.path)
-----------------------------------------------------------------------------
SingleChildTypes ==
  {"domain", "band", "filter", "context", "guard", "mark", "extension"}

\* The node is in place at path: go on with the only child, or return.
InsertedAt(tree, path) ==
  /\ IF ChildBuilders(At) = 0
       THEN /\ cursor' = [tree |-> tree, path |-> path]
            /\ returning' = TRUE
            /\ UNCHANGED calls
       ELSE /\ cursor' = [tree |-> tree, path |-> Append(path, 1)]
            /\ GoTo(Append(At, 1))
            /\ UNCHANGED returning
  /\ UNCHANGED <<status, captured>>

InsertHere(sub) == InsertedAt(Graft(cursor.tree, cursor.path, sub), cursor.path)

\* from_domain makes the root of a new tree.
InsertDomain ==
  /\ HasType({"domain"}) /\ ChildBuilders(At) <= 1
  /\ InsertedAt(Over(Statements("domain", Current.stmts), <<LeafTree>>), << >>)

InsertBand ==
  /\ HasType({"band"}) /\ ChildBuilders(At) <= 1
  /\ InsertHere(Over(BandFor(Payload(Current)), <<Here>>))

InsertFilter ==
  /\ HasType({"filter"}) /\ ChildBuilders(At) <= 1
  /\ InsertHere(FilterOver(Current.stmts, Here))

InsertNamed ==
  /\ HasType({"context", "guard", "mark"}) /\ ChildBuilders(At) <= 1
  /\ InsertHere(Over(Named(Current.type, Current.name), <<Here>>))

\* The graft puts a sequence below the extension and the subtree that was here
\* below the sequence; cutting the sequence removes both.
InsertExtension ==
  /\ HasType({"extension"}) /\ ChildBuilders(At) <= 1
  /\ InsertHere(Over(Named("extension", Current.name), <<LeafTree>>))

(* insertSequenceOrSetAt *)

\* Variant: the loop over the children stops before the last one.
VisitChildrenButLast(at, path, tree, i) ==
  LET next == {j \in i..(ChildBuilders(at) - 1) : ChildBuilders(Append(at, j)) > 0}
  IN  /\ IF next = {}
           THEN /\ GoTo(at)
                /\ cursor' = [tree |-> tree, path |-> path]
                /\ returning' = TRUE
           ELSE /\ GoTo(at \o <<Min(next), 1>>)
                /\ cursor' = [tree |-> tree, path |-> path \o <<Min(next), 1>>]
                /\ returning' = FALSE
      /\ UNCHANGED <<status, captured>>

\* The loop over the filters, from the i-th: grandchildren are inserted below
\* the filters, which are in place already.
VisitChildren(at, path, tree, i) ==
  LET next == {j \in i..ChildBuilders(at) : ChildBuilders(Append(at, j)) > 0}
  IN  /\ IF next = {}
           THEN /\ GoTo(at)
                /\ cursor' = [tree |-> tree, path |-> path]
                /\ returning' = TRUE
           ELSE /\ GoTo(at \o <<Min(next), 1>>)
                /\ cursor' = [tree |-> tree, path |-> path \o <<Min(next), 1>>]
                /\ returning' = FALSE
      /\ UNCHANGED <<status, captured>>

ChildFilters == [i \in 1..ChildBuilders(At) |-> Inner.builder[Append(At, i)]]
FiltersAreProper ==
  /\ ChildFilters # << >>
  /\ \A i \in DOMAIN ChildFilters : /\ ChildFilters[i].type = "filter"
                                    /\ ChildBuilders(Append(At, i)) <= 1

\* insert_sequence puts each filter above a copy of the subtree that was here.
InsertSequenceOrSet ==
  /\ HasType({"sequence", "set"}) /\ FiltersAreProper
  /\ LET children == [i \in DOMAIN ChildFilters |->
                        FilterOver(ChildFilters[i].stmts, Here)]
     IN  VisitChildren(At, cursor.path,
                       Graft(cursor.tree, cursor.path,
                             Over(NodeOf(Current.type), children)), 1)

(* Leaves *)

StayAtLeaf ==
  /\ HasType({"leaf"}) /\ Current.from # "subtree" /\ ChildBuilders(At) = 0
  /\ returning' = TRUE
  /\ UNCHANGED <<status, cursor, calls, captured>>

\* The callback of subtree(...) reads the captured node now.
EnterSubtree ==
  /\ HasType({"leaf"}) /\ Current.from = "subtree" /\ ChildBuilders(At) = 0
  /\ LET node == captured.grandchild
     IN  calls' = Append(calls,
                    CallOf(SubtreeBuilder(Subtree(node.tree, node.path)), Null))
  /\ UNCHANGED <<status, cursor, returning, captured>>

(* expandTree *)

\* Variant: the expansion is applied to everything it is defined on.
ExpandedAnywhere(pairs, stmts) == {e[2] : e \in pairs}

ExpandedDomain(pairs, stmts) == Apply(pairs, stmts)

IsIdentity(pairs) == \A e \in pairs : e[1] = e[2]

\* The subtree is built below a domain of its own, the expanded one.
EnterExpansion ==
  /\ HasType({"expansion"})
  /\ ChildBuilders(At) > 0 /\ ~ IsIdentity(Current.expands)
  /\ LET stmts == ExpandedDomain(Current.expands,
                                 DomainAt(cursor.tree, cursor.path))
     IN  cursor' = Handle(Over(Statements("domain", stmts), <<LeafTree>>), <<1>>)
  /\ calls' = Append(calls,
                CallOf(Subtree(Inner.builder, Append(At, 1)), cursor))
  /\ UNCHANGED <<status, returning, captured>>

\* dfsFirst: of some positions, the one that preorder comes to first.
Precedes(p, q) ==
  \/ IsPrefix(p, q)
  \/ \E k \in DOMAIN p \cap DOMAIN q :
       SubSeq(p, 1, k - 1) = SubSeq(q, 1, k - 1) /\ p[k] < q[k]
DfsFirst(positions) ==
  CHOOSE p \in positions : \A q \in positions : Precedes(p, q)

\* A mark is put at the place to expand, to find it again.
InsertMark ==
  /\ Returned /\ At = << >> /\ Inner.expanded # Null
  /\ LET node == Inner.expanded
         marked == Graft(node.tree, node.path,
                     Over(ExpandMark, <<Subtree(node.tree, node.path)>>))
     IN  /\ node.tree[node.path] # ExpandMark
         /\ calls' = [calls EXCEPT ![Len(calls)].expanded.tree = marked]
  /\ UNCHANGED <<status, cursor, returning, captured>>

\* The whole schedule is expanded and searched for the mark.
ExpandSchedule ==
  /\ Returned /\ At = << >> /\ Inner.expanded # Null
  /\ LET node == Inner.expanded
         outer == calls[Len(calls) - 1]
         tree == Expand(node.tree, outer.builder[outer.at].expands, cursor.tree)
     IN  /\ node.tree[node.path] = ExpandMark
         /\ cursor' = Handle(tree, DfsFirst({q \in DOMAIN tree : tree[q] = ExpandMark}))
  /\ calls' = Front(calls)
  /\ UNCHANGED <<status, returning, captured>>

DeleteMark ==
  /\ status = "running" /\ AtMark
  /\ cursor' = [cursor EXCEPT !.tree = Delete(@, cursor.path)]
  /\ UNCHANGED <<status, calls, returning, captured>>

\* Variant: an only child is taken for one too many.
RejectsOnlyChild ==
  \/ Current.type \in SingleChildTypes /\ ChildBuilders(At) >= 1
  \/ Current.type = "domain" /\ cursor # Null

\* The assertions of build, insertAt and of what they call.
Malformed ==
  \/ /\ Current.type = "expansion"
     /\ ChildBuilders(At) = 0 \/ IsIdentity(Current.expands)
  \/ Current.type \in SingleChildTypes /\ ChildBuilders(At) > 1
  \/ Current.type = "domain" <=> cursor # Null
  \/ Current.type \in {"sequence", "set"} /\ ~ FiltersAreProper
  \/ Current.type = "leaf" /\ ChildBuilders(At) > 0

FailAssertion ==
  /\ Entered /\ Malformed
  /\ status' = "aborted"
  /\ UNCHANGED <<cursor, calls, returning, captured>>

(* Returns *)

FilterOfSequence(at) ==
  Len(at) > 0 /\ Inner.builder[Front(at)].type \in {"sequence", "set"}

\* A call for the grandchild of a sequence or set: up to the filter, then up
\* to the sequence, and on to the next filter.
ReturnToSequence ==
  /\ Returned /\ At # << >> /\ FilterOfSequence(Front(At))
  /\ VisitChildren(Front(Front(At)), Front(Front(cursor.path)), cursor.tree,
                   Last(Front(At)) + 1)

\* Variant: the cursor stays at the child.
ReturnWithoutParent ==
  /\ Returned /\ At # << >> /\ ~ FilterOfSequence(Front(At))
  /\ GoTo(Front(At))
  /\ UNCHANGED <<status, cursor, returning, captured>>

ReturnToParent ==
  /\ Returned /\ At # << >> /\ ~ FilterOfSequence(Front(At))
  /\ GoTo(Front(At))
  /\ cursor' = [cursor EXCEPT !.path = Front(@)]
  /\ UNCHANGED <<status, returning, captured>>

ReturnFromSubtree ==
  /\ Returned /\ At = << >> /\ Len(calls) > 1 /\ Inner.expanded = Null
  /\ calls' = Front(calls)
  /\ UNCHANGED <<status, cursor, returning, captured>>

BuilderReturns == Returned /\ At = << >> /\ Len(calls) = 1

InsertAtStep ==
  \/ InsertDomain \/ InsertBand \/ InsertFilter \/ InsertNamed
  \/ InsertExtension \/ InsertSequenceOrSet
  \/ StayAtLeaf \/ EnterSubtree \/ FailAssertion
  \/ EnterExpansion \/ InsertMark \/ ExpandSchedule \/ DeleteMark
  \/ ReturnToSequence \/ ReturnToParent \/ ReturnFromSubtree

=============================================================================
