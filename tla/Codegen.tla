------------------------------- MODULE Codegen -------------------------------
(***************************************************************************)
(* Scop::codegen of islutils/pet_wrapper.cc.  A call first builds the AST: *)
(* isl calls at_domain on every user node, which gives the node an         *)
(* occurrence identifier numbered by a static counter and stores a         *)
(* descriptor of the statement.  It then prints the AST: printStatement    *)
(* finds the descriptor again by that identifier and calls the custom      *)
(* function, which may itself generate code for another scop.              *)
(*                                                                         *)
(* The counter is the only state that calls share.  It is neither atomic   *)
(* nor thread-local, so reading it and writing it back are two steps.  The *)
(* calls of a thread nest: only the innermost one takes steps.             *)
(***************************************************************************)
EXTENDS Integers, SequencesExt

CONSTANTS
  Thread,      \* threads, each with isl contexts of its own
  Call,        \* the calls of codegen
  ThreadOf,    \* the thread that makes a call
  StmtId,      \* names of statements
  Modulus,     \* 2^w for the width w of size_t
  Jobs,        \* what a call may be asked to do
  None

Custom == {"comments", "scheduled", "none"}

ASSUME ThreadOfAssumption == ThreadOf \in [Call -> Thread]
ASSUME ModulusAssumption == Modulus \in Nat \ {0}

\* A job: the ids that at_domain meets, in order, the statements of the scop and
\* the custom function.  An AST has fewer nodes than size_t has values.
IsJob(j) ==
  /\ j.visits \in Seq(StmtId)
  /\ Len(j.visits) <= Modulus
  /\ j.known \in SUBSET StmtId
  /\ j.custom \in Custom

ASSUME JobsAssumption == \A j \in Jobs : IsJob(j)

Occurrences == [name : StmtId, number : 0..(Modulus - 1)]
Descriptors == [occurrenceId : Occurrences, stmt : StmtId \cup {None},
                astBuild : 1..Modulus]
Outputs == [comment : Occurrences] \cup [stmt : StmtId, schedule : 1..Modulus]

ASSUME NoneAssumption == None \notin StmtId \cup Nat \cup Outputs

VARIABLES
  job,        \* per call: its job
  active,     \* per thread: its unfinished calls, innermost last
  phase,      \* per call: "idle", "build", "print", "custom" or "done"
  counter,    \* the static counter of at_domain
  loaded,     \* per call: the value read from the counter, or None
  stmts,      \* per call: the statement descriptors
  printing,   \* per call: the node whose custom function is running, or None
  output,     \* per call: what has been printed for each node, or None
  crashed     \* an ISLUTILS_DIE has ended the process

vars == <<job, active, phase, counter, loaded, stmts, printing, output, crashed>>

Nodes(c) == DOMAIN job[c].visits
Innermost(c) == /\ active[ThreadOf[c]] # << >>
                /\ Last(active[ThreadOf[c]]) = c
Running(c, p) == ~ crashed /\ phase[c] = p /\ Innermost(c)
-----------------------------------------------------------------------------
Init ==
  /\ job \in [Call -> Jobs]
  /\ active = [t \in Thread |-> << >>]
  /\ phase = [c \in Call |-> "idle"]
  /\ counter = 0
  /\ loaded = [c \in Call |-> None]
  /\ stmts = [c \in Call |-> << >>]
  /\ printing = [c \in Call |-> None]
  /\ output = [c \in Call |-> [n \in Nodes(c) |-> None]]
  /\ crashed = FALSE

\* The program calls codegen, or a custom function does.
MayCall(c) ==
  active[ThreadOf[c]] # << >> => phase[Last(active[ThreadOf[c]])] = "custom"

Begin(c) ==
  /\ ~ crashed /\ phase[c] = "idle"
  /\ MayCall(c)
  /\ active' = [active EXCEPT ![ThreadOf[c]] = Append(@, c)]
  /\ phase' = [phase EXCEPT ![c] = "build"]
  /\ UNCHANGED <<job, counter, loaded, stmts, printing, output, crashed>>

(* Building the AST: at_domain *)

LoadCounter(c) ==
  /\ Running(c, "build") /\ loaded[c] = None
  /\ Len(stmts[c]) < Len(job[c].visits)
  /\ loaded' = [loaded EXCEPT ![c] = counter]
  /\ UNCHANGED <<job, active, phase, counter, stmts, printing, output, crashed>>

\* Scop::stmt: the statement of that name, or a null pointer.
Stmt(c, id) == IF id \in job[c].known THEN id ELSE None

\* Variant: the identifier of the statement alone.
OccurrenceUnnumbered(c, n, number) == [name |-> job[c].visits[n], number |-> 0]

Occurrence(c, n, number) == [name |-> job[c].visits[n], number |-> number]

Descriptor(c, n, number) ==
  [occurrenceId |-> Occurrence(c, n, number),
   stmt         |-> Stmt(c, job[c].visits[n]),
   astBuild     |-> n]

\* Variant: the counter is wider than its type.
IncrementUnbounded(n) == n + 1

Increment(n) == (n + 1) % Modulus

StoreCounter(c) ==
  /\ Running(c, "build") /\ loaded[c] # None
  /\ counter' = Increment(loaded[c])
  /\ stmts' = [stmts EXCEPT ![c] =
                 Append(@, Descriptor(c, Len(@) + 1, loaded[c]))]
  /\ loaded' = [loaded EXCEPT ![c] = None]
  /\ UNCHANGED <<job, active, phase, printing, output, crashed>>

FinishBuild(c) ==
  /\ Running(c, "build") /\ Len(stmts[c]) = Len(job[c].visits)
  /\ phase' = [phase EXCEPT ![c] = "print"]
  /\ UNCHANGED <<job, active, counter, loaded, stmts, printing, output, crashed>>

(* Printing the AST: printStatement, in whatever order isl prints nodes in *)

\* The annotation of a node of the AST.
Annotation(c, n) == stmts[c][n].occurrenceId

\* Variant: the search goes by the name of the statement.
FoundByName(c, n) ==
  {d \in DOMAIN stmts[c] :
     stmts[c][d].occurrenceId.name = Annotation(c, n).name}

Found(c, n) ==
  {d \in DOMAIN stmts[c] : stmts[c][d].occurrenceId = Annotation(c, n)}

FindStmtDescriptor(c, n) ==
  stmts[c][CHOOSE d \in Found(c, n) : \A e \in Found(c, n) : d <= e]

DieWithoutCustom(c) ==
  /\ Running(c, "print") /\ job[c].custom = "none"
  /\ \E n \in Nodes(c) : output[c][n] = None
  /\ crashed' = TRUE
  /\ UNCHANGED <<job, active, phase, counter, loaded, stmts, printing, output>>

CallCustom(c, n) ==
  /\ Running(c, "print") /\ job[c].custom # "none" /\ output[c][n] = None
  /\ phase' = [phase EXCEPT ![c] = "custom"]
  /\ printing' = [printing EXCEPT ![c] = n]
  /\ UNCHANGED <<job, active, counter, loaded, stmts, output, crashed>>

\* printScheduledPetStmt for a statement of the scop, a comment with the name
\* of the occurrence for any other.
Printed(c, n) ==
  LET descr == FindStmtDescriptor(c, n)
  IN  IF descr.stmt = None THEN [comment |-> Annotation(c, n)]
      ELSE [stmt |-> descr.stmt, schedule |-> descr.astBuild]

\* Variant: the default custom function dies too.
DieOnUnknownStmt(c) ==
  /\ Running(c, "custom")
  /\ FindStmtDescriptor(c, printing[c]).stmt = None
  /\ crashed' = TRUE
  /\ UNCHANGED <<job, active, phase, counter, loaded, stmts, printing, output>>

DieWithoutStmt(c) ==
  /\ Running(c, "custom") /\ job[c].custom = "scheduled"
  /\ FindStmtDescriptor(c, printing[c]).stmt = None
  /\ crashed' = TRUE
  /\ UNCHANGED <<job, active, phase, counter, loaded, stmts, printing, output>>

PrintStatement(c) ==
  /\ Running(c, "custom")
  /\ job[c].custom = "scheduled" => FindStmtDescriptor(c, printing[c]).stmt # None
  /\ output' = [output EXCEPT ![c][printing[c]] = Printed(c, printing[c])]
  /\ phase' = [phase EXCEPT ![c] = "print"]
  /\ printing' = [printing EXCEPT ![c] = None]
  /\ UNCHANGED <<job, active, counter, loaded, stmts, crashed>>

\* Variant: the call stays innermost after it has returned.
FinishWithoutPop(c) ==
  /\ Running(c, "print") /\ \A n \in Nodes(c) : output[c][n] # None
  /\ phase' = [phase EXCEPT ![c] = "done"]
  /\ UNCHANGED <<job, active, counter, loaded, stmts, printing, output, crashed>>

Finish(c) ==
  /\ Running(c, "print") /\ \A n \in Nodes(c) : output[c][n] # None
  /\ active' = [active EXCEPT ![ThreadOf[c]] = Front(@)]
  /\ phase' = [phase EXCEPT ![c] = "done"]
  /\ UNCHANGED <<job, counter, loaded, stmts, printing, output, crashed>>

Step(c) ==
  \/ Begin(c) \/ LoadCounter(c) \/ StoreCounter(c) \/ FinishBuild(c)
  \/ DieWithoutCustom(c) \/ (\E n \in Nodes(c) : CallCustom(c, n))
  \/ DieWithoutStmt(c) \/ PrintStatement(c) \/ Finish(c)

Next == \E c \in Call : Step(c)

Spec == Init /\ [][Next]_vars /\ \A c \in Call : WF_vars(Step(c))
-----------------------------------------------------------------------------
(* Properties *)

TypeOK ==
  /\ job \in [Call -> Jobs]
  /\ active \in [Thread -> Seq(Call)]
  /\ phase \in [Call -> {"idle", "build", "print", "custom", "done"}]
  /\ counter \in 0..(Modulus - 1)
  /\ loaded \in [Call -> 0..(Modulus - 1) \cup {None}]
  /\ stmts \in [Call -> Seq(Descriptors)]
  /\ printing \in [Call -> 1..Modulus \cup {None}]
  /\ \A c \in Call : output[c] \in [Nodes(c) -> Outputs \cup {None}]
  /\ crashed \in BOOLEAN

\* "Unique identifier of the statement occurrence in the AST": no two nodes of
\* one AST get the same identifier, whatever other calls did to the counter in
\* between and even when it wraps around.
OccurrencesUnique ==
  \A c \in Call : \A d, e \in DOMAIN stmts[c] :
    stmts[c][d].occurrenceId = stmts[c][e].occurrenceId => d = e

\* A node is printed from the statement and the schedule at that node and not
\* from another occurrence of the statement; a finished call printed them all.
PrintsOwnOccurrence ==
  \A c \in Call : \A n \in Nodes(c) :
    /\ output[c][n] # None =>
         IF job[c].visits[n] \in job[c].known
         THEN output[c][n] = [stmt |-> job[c].visits[n], schedule |-> n]
         ELSE /\ output[c][n] = [comment |-> Annotation(c, n)]
              /\ output[c][n].comment.name = job[c].visits[n]
    /\ phase[c] = "done" => output[c][n] # None

\* The process dies only for a missing custom function, or one that cannot
\* print statements unknown to the scop, and only if there is a node to print.
DiesOnlyForItsCustom ==
  crashed =>
    \E c \in Call :
      /\ Nodes(c) # {}
      /\ \/ job[c].custom = "none"
         \/ /\ job[c].custom = "scheduled"
            /\ \E n \in Nodes(c) : job[c].visits[n] \notin job[c].known

\* Every call returns unless the process dies.
CallsReturn == <>(crashed \/ \A c \in Call : phase[c] = "done")

=============================================================================
