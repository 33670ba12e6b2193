------------------------------- MODULE Rewriter -------------------------------
(***************************************************************************)
(* Builders at work: build() on its own, insertAt at a node of a tree, and *)
(* mergeIfTilable (test/utils.cc), which walks down a tree, replaces a     *)
(* band and its only child by one band as long as their dependences allow  *)
(* it, and rebuilds what was below from a capture of its matcher.          *)
(*                                                                         *)
(* A dependence is [stmts, dist]: the statements it relates and, for each  *)
(* member of a band, the distance along it.                                *)
(*                                                                         *)
(* The recursion of replaceDFSPreorderRepeatedly follows the tree: its     *)
(* call stack is the path from the start to the cursor, and the loop index *)
(* of a call is the last index of the path below it.                       *)
(***************************************************************************)
EXTENDS Builders

CONSTANT Problems

IsDescription(expression) ==
  /\ IsShape(expression)
  /\ expression = [q \in DOMAIN expression |-> expression[q]]
  /\ \A q \in DOMAIN expression :
       expression[q] = BuilderNode(expression[q], expression[q].from)

ASSUME RewriterAssumption ==
  \A p \in Problems :
    /\ p.op \in {"build", "insert", "merge"}
    /\ IsTree(p.tree) /\ p.at \in DOMAIN p.tree
    /\ IsDescription(p.expression)
    /\ \A q \in DOMAIN p.tree : ~ IsExpandMark(p.tree[q])
    /\ \A q \in DOMAIN p.expression : ~ IsExpandMark(p.expression[q])

VARIABLES
  problem,   \* the call: what to build, and the tree and node it is given
  visit      \* the walk: "match" a node, "rebuild" it, or go "up" from it

vars == <<builderVars, problem, visit>>

Start == Handle(problem.tree, problem.at)
-----------------------------------------------------------------------------
(* The matcher band(parent, band(canMergeCaptureChild, anyTree(grandchild))) *)

\* filterOutCarriedDependences: equal prefix schedules at the parent band.
Active(dependence, tree, p) ==
  /\ dependence.stmts \subseteq DomainAt(tree, p)
  /\ \A m \in ToSet(PrefixSchedule(tree, p)) : dependence.dist[m] = 0

\* Variant: only the distances along the child are looked at.
CanMergeChildOnly(tree, p) ==
  \A d \in problem.dependences : Active(d, tree, p) =>
    \A m \in ToSet(tree[Append(p, 1)].members) : d.dist[m] >= 0

\* No negative distance along either band, of what is not carried outside.
CanMerge(tree, p) ==
  \A d \in problem.dependences : Active(d, tree, p) =>
    \A m \in ToSet(tree[p].members \o tree[Append(p, 1)].members) :
      d.dist[m] >= 0

IsMatching(node) ==
  /\ node.tree[node.path].type = "band"
  /\ node.tree[Append(node.path, 1)].type = "band"
  /\ CanMerge(node.tree, node.path)

Merger ==
  Over(BuilderNode(NodeOf("band"), "merged"),
       <<Over(BuilderNode(NodeOf("leaf"), "subtree"), << >>)>>)
-----------------------------------------------------------------------------
Init ==
  /\ problem \in Problems
  /\ status = "running"
  /\ returning = FALSE
  /\ captured = [parent |-> Null, child |-> Null, grandchild |-> Start]
  /\ cursor = IF problem.op = "build" THEN Null ELSE Start
  /\ calls = IF problem.op = "merge" THEN << >>
             ELSE <<CallOf(Constructed(problem.expression), Null)>>
  /\ visit = IF problem.op = "merge" THEN "match" ELSE "rebuild"

BuildStep == InsertAtStep /\ UNCHANGED <<problem, visit>>

\* build() and a single insertAt return to their caller.
FinishBuild ==
  /\ BuilderReturns /\ problem.op # "merge"
  /\ status' = "done"
  /\ UNCHANGED <<cursor, calls, returning, captured, problem, visit>>

Visiting(what) == status = "running" /\ problem.op = "merge" /\ visit = what

Cut(node) == Graft(node.tree, node.path, LeafTree)

\* isMatching succeeds, writing its captures; rebuild cuts the node and starts
\* the builder at the leaf that is left.
MatchAndCut ==
  /\ Visiting("match") /\ IsMatching(cursor)
  /\ captured' = [parent     |-> cursor,
                  child      |-> Handle(cursor.tree, cursor.path \o <<1>>),
                  grandchild |-> Handle(cursor.tree, cursor.path \o <<1, 1>>)]
  /\ cursor' = Handle(Cut(cursor), cursor.path)
  /\ calls' = <<CallOf(Merger, Null)>>
  /\ returning' = FALSE
  /\ visit' = "rebuild"
  /\ UNCHANGED <<status, problem>>

\* Variant: a node is replaced once.
MoveOn ==
  /\ BuilderReturns /\ Visiting("rebuild")
  /\ calls' = << >>
  /\ visit' = "up"
  /\ UNCHANGED <<status, cursor, returning, captured, problem>>

\* replaceRepeatedly: the rebuilt node is matched again.
MatchAgain ==
  /\ BuilderReturns /\ Visiting("rebuild")
  /\ calls' = << >>
  /\ visit' = "match"
  /\ UNCHANGED <<status, cursor, returning, captured, problem>>

VisitFirstChild ==
  /\ Visiting("match") /\ ~ IsMatching(cursor)
  /\ NChildren(cursor.tree, cursor.path) > 0
  /\ cursor' = [cursor EXCEPT !.path = Append(@, 1)]
  /\ UNCHANGED <<status, calls, returning, captured, problem, visit>>

NothingBelow ==
  /\ Visiting("match") /\ ~ IsMatching(cursor)
  /\ NChildren(cursor.tree, cursor.path) = 0
  /\ visit' = "up"
  /\ UNCHANGED <<status, cursor, calls, returning, captured, problem>>

\* Variant: the loop runs one child too far.
LastChildTooLate ==
  Last(cursor.path) = NChildren(cursor.tree, Front(cursor.path)) + 1

LastChild == Last(cursor.path) = NChildren(cursor.tree, Front(cursor.path))

\* Variant: the loop does not advance.
VisitSameChild ==
  /\ Visiting("up") /\ cursor.path # problem.at /\ ~ LastChild
  /\ visit' = "match"
  /\ UNCHANGED <<status, cursor, calls, returning, captured, problem>>

VisitNextChild ==
  /\ Visiting("up") /\ cursor.path # problem.at /\ ~ LastChild
  /\ cursor' = [cursor EXCEPT !.path = Append(Front(@), Last(@) + 1)]
  /\ visit' = "match"
  /\ UNCHANGED <<status, calls, returning, captured, problem>>

ReturnToCaller ==
  /\ Visiting("up") /\ cursor.path # problem.at /\ LastChild
  /\ cursor' = [cursor EXCEPT !.path = Front(@)]
  /\ UNCHANGED <<status, calls, returning, captured, problem, visit>>

FinishMerge ==
  /\ Visiting("up") /\ cursor.path = problem.at
  /\ status' = "done"
  /\ UNCHANGED <<cursor, calls, returning, captured, problem, visit>>

Next ==
  \/ BuildStep \/ FinishBuild
  \/ MatchAndCut \/ MatchAgain \/ VisitFirstChild \/ NothingBelow
  \/ VisitNextChild \/ ReturnToCaller \/ FinishMerge

Spec == Init /\ [][Next]_vars /\ WF_vars(Next)
-----------------------------------------------------------------------------
(* Properties *)

TypeOK ==
  /\ status \in {"running", "done", "aborted"}
  /\ visit \in {"match", "rebuild", "up"}
  /\ returning \in BOOLEAN
  /\ cursor # Null => cursor.path \in DOMAIN cursor.tree
  /\ \A k \in DOMAIN calls : calls[k].at \in DOMAIN calls[k].builder

\* What insertion makes of a node that is described, and of the description of
\* a captured node, which a band keeps its schedule in alone.
Inserted(node) == IF node.type = "band" THEN BandFor(node) ELSE NodeIn(node)
Copied(node) ==
  IF node.type = "band"
    THEN BandFor([node EXCEPT !.coincident = << >>, !.permutable = FALSE])
    ELSE node

LazyLeaves(expression) == {q \in DOMAIN expression : expression[q].from = "subtree"}

\* The tree an expression describes: its nodes, and in the place of a lazy
\* leaf a copy of the captured tree, of which the band flags are lost.
Described(expression, replica) ==
  LET lazy == LazyLeaves(expression)
      copies == UNION {{q \o r : r \in DOMAIN replica} : q \in lazy}
      Above(q) == CHOOSE l \in lazy : IsPrefix(l, q)
  IN  [q \in (DOMAIN expression \ lazy) \cup copies |->
         IF q \in copies THEN Copied(replica[From(Above(q), q)])
                         ELSE Inserted(expression[q])]

\* build() makes the tree its nested calls describe and returns its root,
\* whatever the order in which recursion and sibling loops visit the builder.
BuildsWhatIsDescribed ==
  status = "done" /\ problem.op = "build" =>
    cursor = Handle(Described(problem.expression,
                              Subtree(problem.tree, problem.at)), << >>)

\* The builder leaves below an extension start from nothing: what was below
\* the insertion point is not put back there.
UnderExtension(expression, q) ==
  \E k \in 1..Len(q) : expression[SubSeq(q, 1, k - 1)].type = "extension"

\* insertAt above an existing subtree composes the schedules: each statement
\* goes through the new nodes of a builder leaf, which expand it and schedule
\* it, then through the old ones, and the handle returned points to where the
\* insertion began.
InsertsAbove ==
  status = "done" /\ problem.op = "insert" =>
    LET rooted == Over(Statements("domain", DomainAt(problem.tree, problem.at)),
                       <<problem.expression>>)
        old == Over(rooted[<< >>], <<Subtree(problem.tree, problem.at)>>)
        new == Over(rooted[<< >>], <<Subtree(cursor.tree, problem.at)>>)
        Kept(q) == IF UnderExtension(rooted, q)
                     THEN Meaning(Over(rooted[<< >>], <<LeafTree>>))
                     ELSE Meaning(old)
    IN  /\ cursor.path = problem.at
        /\ Meaning(new) =
             UNION {{[stmts   |-> DomainAt([rooted EXCEPT ![<< >>].stmts = b.stmts], q),
                      members |-> PrefixSchedule(rooted, q) \o b.members] :
                       b \in Kept(q)} : q \in Leaves(rooted)}

\* Insertion and replacement change nothing outside the subtree at the cursor,
\* nor does an expansion, which is given the whole schedule to expand.
StepIsLocal ==
  LET finishes == Len(calls') < Len(calls) /\ Inner.expanded # Null
      begins == Len(calls') > Len(calls) /\ Last(calls').expanded # Null
      node == IF finishes THEN Inner.expanded ELSE cursor
  IN  node # Null /\ ~ begins =>
        \A q \in DOMAIN node.tree \ Below(node.tree, node.path) :
          q \in DOMAIN cursor'.tree /\ cursor'.tree[q] = node.tree[q]

ChangesAreLocal == [][StepIsLocal]_vars

\* Between two replacements every statement still has the schedule it had:
\* the merged band has the dimensions of both in their order, and the captured
\* subtree is put back whole.
ScheduleIsPreserved ==
  problem.op = "merge" /\ visit # "rebuild" =>
    Meaning(cursor.tree) = Meaning(problem.tree)

Bands(tree) == {q \in DOMAIN tree : tree[q].type = "band"}

\* Later replacements, which rebuild subtrees without their flags, do not undo
\* the flag of a merged band; and it holds: the band is tilable.
MergedBandsArePermutable ==
  problem.op = "merge" /\ visit # "rebuild" =>
    \A q \in Bands(cursor.tree) :
      LET band == cursor.tree[q]
      IN  (\A r \in Bands(problem.tree) : problem.tree[r].members # band.members)
          => /\ band.permutable
             /\ \A d \in problem.dependences : Active(d, cursor.tree, q) =>
                  \A m \in ToSet(band.members) : d.dist[m] >= 0

\* One walk is enough: merging children never makes a node above them match.
NothingLeftToMerge ==
  status = "done" /\ problem.op = "merge" =>
    \A q \in Below(cursor.tree, problem.at) : ~ IsMatching(Handle(cursor.tree, q))

\* A description that can be built: one domain, at the root, for build(); a
\* sequence or set has filters, other nodes have one child and leaves none.
\* A lazy leaf must not bring in the domain of the captured tree.
IsProper(expression) ==
  /\ \A q \in DOMAIN expression :
       LET node == expression[q]
           children == Children(expression, q)
       IN  /\ node.type \in {"sequence", "set"} =>
                /\ children # {}
                /\ \A c \in children : expression[c].type = "filter"
           /\ node.type = "leaf" => children = {}
           /\ node.type = "expansion" =>
                children # {} /\ \E e \in node.expands : e[1] # e[2]
           /\ node.type \in SingleChildTypes => Cardinality(children) <= 1
           /\ node.type = "domain" <=> problem.op = "build" /\ q = << >>
  /\ (\E q \in DOMAIN expression : expression[q].from = "subtree") => problem.at # << >>

SeveralTypes == {"sequence", "set"}
NodeTypes == SingleChildTypes \cup SeveralTypes \cup {"leaf", "expansion"}

\* What the constructors of builders make: only subtree(...) is lazy, and an
\* expansion takes one child.
IsOrdinary(builder) ==
  \A q \in DOMAIN builder :
    /\ builder[q].type \in NodeTypes
    /\ builder[q].from = "subtree" => builder[q].type = "leaf"
    /\ builder[q].type = "expansion" => NChildren(builder, q) <= 1

\* A schedule of isl that subtreeBuilder can copy.
IsSchedule(tree) ==
  \A q \in DOMAIN tree :
    /\ tree[q].type \in NodeTypes
    /\ tree[q].type = "domain" <=> q = << >>
    /\ IF tree[q].type \in SeveralTypes
         THEN \A i \in 1..NChildren(tree, q) : tree[Append(q, i)].type = "filter"
         ELSE NChildren(tree, q) <= 1
    /\ tree[q].type = "expansion" => ~ IsIdentity(tree[q].expands)

\* The calls without a context given as a plain set.
IsPlain(p) ==
  /\ IsSchedule(p.tree)
  /\ p.op # "merge" => /\ IsOrdinary(p.expression)
                      /\ \A q \in DOMAIN p.expression : ~ LosesChild(p.expression[q])

\* A node as its constructor makes it, and trees of them in which no statement
\* is expanded.
IsMade(node) ==
  NodeIn(node) =
    CASE node.type \in {"domain", "filter"} -> Statements(node.type, node.stmts)
      [] node.type = "band" ->
           Band(node.members, node.coincident, node.permutable)
      [] node.type \in {"context", "guard", "mark", "extension"} ->
           Named(node.type, node.name)
      [] OTHER -> NodeOf(node.type)

IsDirect(p) ==
  /\ \A q \in DOMAIN p.expression :
       LET node == p.expression[q]
       IN  /\ node.type # "expansion" /\ node.from # "merged" /\ IsMade(node)
           /\ node.type # "leaf" => Append(q, 1) \in DOMAIN p.expression
  /\ \A q \in Below(p.tree, p.at) :
       p.tree[q].type # "expansion" /\ IsMade(p.tree[q])

\* The assertions scattered over the recursion fail for exactly the
\* descriptions that are not well formed, however deep the fault is.
AbortsExactlyWhenMalformed ==
  problem.op # "merge" =>
    /\ status = "aborted" => ~ IsProper(problem.expression)
    /\ status = "done" => IsProper(problem.expression)

Returns == <>(status # "running")

=============================================================================
