------------------------------ MODULE MCCodegen ------------------------------
(***************************************************************************)
(* Instances of Codegen.  In one thread: two calls, one after the other or *)
(* one within the other, with a counter that wraps around.                 *)
(***************************************************************************)
EXTENDS Codegen

CONSTANTS t1, c1, c2

MCOneThread == [c \in Call |-> t1]

\* No node at all, one, a statement split into two or three occurrences with and
\* without another in between; S2 may be unknown to the scop.
MCJobs ==
  [visits : {<< >>, <<"S2">>, <<"S1", "S1">>, <<"S1", "S2", "S1">>,
             <<"S2", "S2", "S2">>},
   known  : {{"S1"}, {"S1", "S2"}},
   custom : Custom]
=============================================================================
