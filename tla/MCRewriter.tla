------------------------------ MODULE MCRewriter ------------------------------
(***************************************************************************)
(* Instances of Rewriter: every expression of at most three levels over    *)
(* one payload per node type, and mergeIfTilable on three shapes of tree   *)
(* under every choice of distances.                                        *)
(***************************************************************************)
EXTENDS Rewriter

CONSTANTS s, t, u, v, w, x, y, z, named

Written(node, children) == Over(BuilderNode(node, "value"), children)
Leaf == Written(NodeOf("leaf"), << >>)
Lazy == Over(BuilderNode(NodeOf("leaf"), "subtree"), << >>)
FilterOf(stmts, e) == Written(Statements("filter", stmts), <<e>>)
BandOf(member, e) == Written(Band(<<member>>, <<TRUE>>, TRUE), <<e>>)
SequenceOf(type, e1, e2) ==
  Written(NodeOf(type), <<FilterOf({s}, e1), FilterOf({t}, e2)>>)

Wrapped(es, member) ==
  {BandOf(member, e) : e \in es}
  \cup {FilterOf({s}, e) : e \in es}
  \cup {Written(Named(type, named), <<e>>) :
          type \in {"context", "extension"}, e \in es}
  \cup {SequenceOf("sequence", e1, e2) : e1 \in es, e2 \in es}

Basic == {Leaf, Lazy}
Inner1 == Basic \cup Wrapped(Basic, u)
Expressions == Inner1 \cup Wrapped(Inner1, v)
  \cup {SequenceOf("set", Leaf, e) : e \in Inner1}
  \cup {Written(Named(type, named), <<e>>) : type \in {"guard", "mark"}, e \in Inner1}

\* The tree given to insertAt, and captured for the lazy leaves: a domain, a
\* band with flags, and a sequence whose filters have a band below one.
Flagged(member) == Band(<<member>>, <<TRUE>>, TRUE)
Given ==
  Over(Statements("domain", {s, t}),
    <<Over(Flagged(w),
        <<Over(NodeOf("sequence"),
            <<Over(Statements("filter", {s}), <<Over(Flagged(x), <<LeafTree>>)>>),
              Over(Statements("filter", {t}), <<LeafTree>>)>>)>>)>>)
GivenFilter ==
  Over(Statements("domain", {s, t}),
    <<Over(Flagged(w),
        <<Over(Statements("filter", {s}), <<Over(Flagged(x), <<LeafTree>>)>>)>>)>>)

Call(op, expression, tree, at, dependences) ==
  [op |-> op, expression |-> expression, tree |-> tree, at |-> at,
   dependences |-> dependences]

DomainOf(e) == Written(Statements("domain", {s, t}), <<e>>)
Builds == {Call("build", DomainOf(e), Given, <<1>>, {}) : e \in Expressions}

\* A lazy leaf would put its own copy above the tree that is there.  Above an
\* extension, a filter would merge with one that the extension then removes.
Plain(e) == \A q \in DOMAIN e : e[q].from # "subtree"
WithoutExtension(e) == \A q \in DOMAIN e : e[q].type # "extension"
Inserts ==
  {Call("insert", e, Given, p, {}) :
     e \in {f \in Expressions : Plain(f)}, p \in {<<1>>, <<1, 1>>, <<1, 1, 2, 1>>}}
  \cup {Call("insert", e, GivenFilter, <<1, 1>>, {}) :
          e \in {f \in Expressions : Plain(f) /\ WithoutExtension(f)}}

BandLeaf == BandOf(u, Leaf)

(* Expansions: a statement s for s1 and s2, and t for t1 *)

ExpansionOf(pairs, e) == Written(Expansion(pairs), <<e>>)
First == {<<s, "s1">>, <<s, "s2">>, <<t, "t1">>}
Second == {<<"s1", "s11">>, <<"s2", "s21">>, <<"s2", "s22">>, <<"t1", "t11">>}
Split12 == Written(NodeOf("sequence"),
  <<FilterOf({"s1"}, BandOf(x, Leaf)), FilterOf({"s2", "t1"}, Leaf)>>)
Expanding == {ExpansionOf(First, e) :
  e \in {Leaf, BandOf(u, Leaf), Split12, ExpansionOf(Second, BandOf(u, Leaf)),
         BandOf(u, ExpansionOf(Second, Leaf))}}
\* Statements reach every expansion that is inserted: isl expands no others.
Reached == UNION {{e, BandOf(v, e), Written(Named("mark", named), <<e>>)} :
                    e \in Expanding}
Chosen == UNION {{FilterOf({s}, e), SequenceOf("sequence", e, BandLeaf),
                  SequenceOf("set", Leaf, e), BandOf(v, SequenceOf("sequence", e, e))} :
                   e \in Expanding}
GivenExpanded ==
  Over(Statements("domain", {s, t}),
    <<Over(Flagged(w), <<Over(Expansion(First), <<Over(Flagged(x), <<LeafTree>>)>>)>>)>>)
Expansions ==
  {Call("build", DomainOf(e), Given, <<1>>, {}) : e \in Reached \cup Chosen}
  \cup {Call("insert", e, Given, p, {}) :
          e \in Reached, p \in {<<1, 1, 1, 1, 1>>, <<1, 1, 2, 1>>}}
  \cup {Call("build", DomainOf(e), GivenExpanded, p, {}) :
          e \in Inner1, p \in {<<1>>, <<1, 1>>}}

Loop(member, sub) == Over(Band(<<member>>, <<FALSE>>, FALSE), <<sub>>)
Rooted(sub) == Over(Statements("domain", {s, t}), <<sub>>)
Chain == Rooted(Loop(w, Loop(x, Loop(y, Loop(z, LeafTree)))))
Marked == Rooted(Loop(w, Loop(x, Over(Named("mark", named),
                                      <<Loop(y, Loop(z, LeafTree))>>))))
Split == Rooted(Loop(w, Over(NodeOf("sequence"),
  <<Over(Statements("filter", {s}), <<Loop(x, Loop(y, LeafTree))>>),
    Over(Statements("filter", {t}), <<Loop(z, Loop(u, LeafTree))>>)>>)))

Distances == [{w, x, y, z} -> {-1, 0, 1}]
Dependence(stmts, d) ==
  [stmts |-> stmts,
   dist  |-> [m \in {u, w, x, y, z} |-> IF m = u THEN d[y] ELSE d[m]]]
Singles == {{Dependence(stmts, d)} : stmts \in {{s}, {s, t}}, d \in Distances}
\* Pairs of one dependence that is carried late and one that has a negative
\* distance.
Late == {d \in Distances : d[w] = 0 /\ d[x] \in {0, 1}}
Mixed == {d \in Distances : d[w] = 1 /\ d[x] \in {0, 1}}
Pairs == {{Dependence({s}, d), Dependence({s, t}, e)} : d \in Late, e \in Mixed}

Merges ==
  {Call("merge", Leaf, tree, <<1>>, ds) :
     tree \in {Chain, Marked, Split}, ds \in Singles \cup Pairs}

\* Descriptions with a fault.
Faults ==
  {BandLeaf, Lazy, DomainOf(DomainOf(Leaf)),
   DomainOf(Written(NodeOf("set"), << >>)),
   DomainOf(BandOf(v, Written(NodeOf("sequence"), <<FilterOf({s}, Leaf), BandLeaf>>))),
   DomainOf(SequenceOf("sequence", Leaf, Written(Flagged(u), <<Leaf, Leaf>>))),
   DomainOf(Written(NodeOf("sequence"),
                    <<Written(Statements("filter", {s}), <<Leaf, Leaf>>)>>)),
   DomainOf(Written(NodeOf("leaf"), <<BandLeaf>>)),
   DomainOf(BandOf(u, ExpansionOf({<<s, s>>, <<t, t>>}, Leaf)))}
Faulty == {Call("build", e, Given, <<1>>, {}) : e \in Faults}
  \cup {Call("build", DomainOf(e), Given, << >>, {}) : e \in Wrapped({Lazy}, u)}

MCProblems == Builds \cup Inserts \cup Merges \cup Faulty \cup Expansions

\* They satisfy the hypothesis under which AbortsExactlyWhenMalformed is proved.
ASSUME MCProblemsArePlain == \A p \in MCProblems : IsPlain(p)

\* And those of Builds the one under which BuildsWhatIsDescribed is.
ASSUME MCBuildsAreDirect == \A p \in Builds : IsDirect(p)

\* context(set, child) with a plain set instead of a callback.
ByCopy(e) == Over(BuilderNode(Named("context", named), "copy"), <<e>>)
MCContextByCopy ==
  {Call("build", DomainOf(ByCopy(e)), Given, <<1>>, {}) : e \in Inner1}

=============================================================================
