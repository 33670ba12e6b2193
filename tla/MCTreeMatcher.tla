---------------------------- MODULE MCTreeMatcher ----------------------------
(***************************************************************************)
(* Instances of TreeMatcher: matchers with up to two levels below the      *)
(* root, with and without a callback, and callbacks within callbacks, on a band over a two-way sequence    *)
(* and on a three-way sequence or set with a band inside.                  *)
(***************************************************************************)
EXTENDS TreeMatcher

\* band(sequence(filter(leaf), filter(leaf))), and one with three filters.
TwoWay ==
  [type |-> <<"band", "sequence", "filter", "leaf", "filter", "leaf">>,
   kids |-> << <<2>>, <<3, 5>>, <<4>>, << >>, <<6>>, << >> >>]
ThreeWay(kind) ==
  [type |-> <<kind, "filter", "leaf", "filter", "band", "leaf", "filter", "leaf">>,
   kids |-> << <<2, 4, 7>>, <<3>>, << >>, <<5>>, <<6>>, << >>, <<8>>, << >> >>]
Alone ==
  [type |-> <<"sequence", "filter", "leaf">>, kids |-> << <<2>>, <<3>>, << >> >>]

Inner == {"sequence", "filter", "band"}
Outer == {"leaf", "anyTree", "anyForest"}

Shapes ==
  { << << >> >>,
    << <<2>>, << >> >>,
    << <<2>>, <<3, 4>>, << >>, << >> >>,
    << <<2, 3>>, << >>, << >> >>,
    << <<2, 3, 4>>, << >>, << >>, << >> >>,
    << <<2, 3>>, <<4>>, <<5>>, << >>, << >> >> }

\* The matchers of one shape, without callbacks.
Kinds(shape) ==
  {c \in [DOMAIN shape -> Inner \cup Outer] :
     \A m \in DOMAIN shape : /\ shape[m] = << >> <=> c[m] \in Outer
                             /\ c[m] = "sequence" => m = 1 \/ Len(shape[m]) > 1}

NoCall == [fn |-> "none"]

Plain(kids, c) ==
  [current |-> c, kids |-> kids, callback |-> [m \in DOMAIN c |-> NoCall]]

\* The matchers that callbacks search for.
Wanted == { Plain(<< <<2>>, << >> >>, <<"filter", "leaf">>),
            Plain(<< <<2>>, <<3>>, << >> >>, <<"filter", "band", "anyTree">>),
            Plain(<< <<2>>, << >> >>, <<"filter", "anyForest">>),
            Plain(<< << >> >>, <<"anyForest">>) }

Shift(kids, by) == [m \in DOMAIN kids |-> [k \in DOMAIN kids[m] |-> kids[m][k] + by]]

\* The same matcher further down in a table.
Moved(p, by) ==
  [current  |-> p.current,
   kids     |-> [m \in DOMAIN p.kids |->
                   [k \in DOMAIN p.kids[m] |-> p.kids[m][k] + by]],
   callback |-> [m \in DOMAIN p.callback |->
                   IF p.callback[m].fn \in Searches
                   THEN [p.callback[m] EXCEPT !.sub = @ + by] ELSE p.callback[m]]]

\* The matcher with a callback at m that searches for another.
WithSearch(p, m, fn, wanted) ==
  LET size == Len(p.kids)
      below == Moved(wanted, size)
  IN  [current  |-> p.current \o below.current,
       kids     |-> p.kids \o below.kids,
       callback |-> [p.callback EXCEPT ![m] = [fn |-> fn, sub |-> size + 1]]
                      \o below.callback]

Checking(p, m, on) == [p EXCEPT !.callback[m] = [fn |-> "holds", on |-> on]]

WithCallback(p) ==
  {p} \cup
  UNION {{Checking(p, m, {1, 2}), Checking(p, m, {4})} \cup
         {WithSearch(p, m, fn, w) : fn \in Searches, w \in Wanted} :
           m \in {k \in DOMAIN p.current : p.current[k] = "filter"}}

MatchersOf(s) == UNION {WithCallback(Plain(s, c)) : c \in Kinds(s)}

\* A callback inside the matcher of a callback.
Nested ==
  LET outer == Plain(<< <<2>>, << >> >>, <<"filter", "anyTree">>)
      inner == Plain(<< <<2>>, << >> >>, <<"filter", "leaf">>)
  IN  {WithSearch(outer, 1, fn, WithSearch(inner, 1, gn, w)) :
         fn, gn \in Searches, w \in Wanted}

\* Matchers whose root may match.
Problem(tree, node) ==
  UNION {[tree    : {tree},
          matcher : {m \in MatchersOf(s) :
                       m.current[1] \in {tree.type[node]} \cup Outer},
          node    : {node}] : s \in Shapes}

Expansions ==
  {Plain(<< <<2>>, << >> >>, <<"expansion", "leaf">>),
   Plain(<< <<2, 3>>, << >>, <<4>>, << >> >>,
         <<"sequence", "anyTree", "expansion", "anyTree">>)}

MCExpansionProblems ==
  [tree : {TwoWay, Alone}, matcher : Expansions, node : {1, 2}]

MCProblems ==
  Problem(TwoWay, 1) \cup Problem(TwoWay, 2) \cup Problem(TwoWay, 5)
    \cup Problem(ThreeWay("sequence"), 1) \cup Problem(ThreeWay("sequence"), 4)
    \cup Problem(Alone, 1) \cup Problem(Alone, 2)
    \cup [tree : {TwoWay, ThreeWay("set")}, matcher : Nested, node : {3, 4}]
    \cup MCExpansionProblems
=============================================================================
