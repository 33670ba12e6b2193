-------------------------------- MODULE Locus --------------------------------
(***************************************************************************)
(* Set makers and map makers: the comparison operators of                  *)
(* islutils/locus-inl.h.                                                   *)
(*                                                                         *)
(* A (piecewise) affine function is a function from the points it is       *)
(* defined on to integers.  Sets are sets of points, maps sets of pairs of *)
(* a point of the left function and one of the right function.             *)
(***************************************************************************)
EXTENDS Integers

Common(lhs, rhs) == DOMAIN lhs \cap DOMAIN rhs

EqSet(lhs, rhs) == {p \in Common(lhs, rhs) : lhs[p] = rhs[p]}
LtSet(lhs, rhs) == {p \in Common(lhs, rhs) : lhs[p] < rhs[p]}
LeSet(lhs, rhs) == {p \in Common(lhs, rhs) : lhs[p] <= rhs[p]}

Pairs(lhs, rhs) == (DOMAIN lhs) \X (DOMAIN rhs)

EqMap(lhs, rhs) == {p \in Pairs(lhs, rhs) : lhs[p[1]] = rhs[p[2]]}
LtMap(lhs, rhs) == {p \in Pairs(lhs, rhs) : lhs[p[1]] < rhs[p[2]]}
GtMap(lhs, rhs) == {p \in Pairs(lhs, rhs) : lhs[p[1]] > rhs[p[2]]}

\* namespace set_maker, for aff and for pw_aff: "!=" calls eq_set as "==" does.
SetMaker(op, lhs, rhs) ==
  CASE op = "==" -> EqSet(lhs, rhs)
    [] op = "!=" -> EqSet(lhs, rhs)
    [] op = "<=" -> LeSet(lhs, rhs)
    [] op = "<"  -> LtSet(lhs, rhs)
    [] op = ">=" -> LeSet(rhs, lhs)
    [] op = ">"  -> LtSet(rhs, lhs)

\* namespace map_maker: an aff is raised to a pw_aff, and what isl does not
\* offer is a union of what it does.
MapMaker(op, lhs, rhs) ==
  CASE op = "==" -> EqMap(lhs, rhs)
    [] op = "!=" -> GtMap(lhs, rhs) \cup LtMap(lhs, rhs)
    [] op = "<=" -> EqMap(lhs, rhs) \cup LtMap(lhs, rhs)
    [] op = "<"  -> LtMap(lhs, rhs)
    [] op = ">=" -> EqMap(lhs, rhs) \cup GtMap(lhs, rhs)
    [] op = ">"  -> GtMap(lhs, rhs)

\* The comparison an operator is named for.
Holds(op, a, b) ==
  CASE op = "==" -> a = b
    [] op = "!=" -> a # b
    [] op = "<=" -> a <= b
    [] op = "<"  -> a < b
    [] op = ">=" -> a >= b
    [] op = ">"  -> a > b

=============================================================================
