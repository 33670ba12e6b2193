------------------------------- MODULE MCLocus -------------------------------
(***************************************************************************)
(* A call of one set maker on two small partial functions.                 *)
(***************************************************************************)
EXTENDS Locus

VARIABLE call

Functions1 == UNION {[d -> 0..2] : d \in SUBSET {0, 1}}

Init ==
  call \in [op : {"==", "!=", "<=", "<", ">=", ">"}, lhs : Functions1, rhs : Functions1]
Next == UNCHANGED call
Spec == Init /\ [][Next]_call

\* locus.h says of the set makers: "The set is constrained by the selected
\* binary operation between the given affine functions".
SetIsTheComparison ==
  SetMaker(call.op, call.lhs, call.rhs) =
    {p \in Common(call.lhs, call.rhs) : Holds(call.op, call.lhs[p], call.rhs[p])}

=============================================================================
