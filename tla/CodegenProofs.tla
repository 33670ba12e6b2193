---------------------------- MODULE CodegenProofs ----------------------------
(***************************************************************************)
(* Theorems about Codegen: for any threads, the types and what the process *)
(* may die of; for programs that generate code in one thread, that         *)
(* occurrences are identified and printed as their own, for any number and *)
(* nesting of calls, any jobs and any width of the counter.                *)
(***************************************************************************)
EXTENDS Codegen, WellFoundedInduction, TLAPS, SequenceTheorems

-----------------------------------------------------------------------------
(* Natural numbers *)

\* A counter of Modulus values goes on by one, or starts again.
LEMMA NextModulo ==
  ASSUME NEW M \in Nat \ {0}, NEW n \in 0..(M - 1)
  PROVE  (n + 1) % M = IF n + 1 = M THEN 0 ELSE n + 1
<1>1. CASE n + 1 = M
  <2>1. M % M = 0
    OBVIOUS
  <2>. QED  BY <1>1, <2>1
<1>2. CASE n + 1 < M
  BY <1>2
<1>. QED  BY <1>1, <1>2

-----------------------------------------------------------------------------
(* The state of one call *)

Phases == {"idle", "build", "print", "custom", "done"}
Numbers == 0..(Modulus - 1)

StmtOf(j, id) == IF id \in j.known THEN id ELSE None

\* What at_domain has stored of the first nodes.
Described(j, s) ==
  /\ Len(s) <= Len(j.visits)
  /\ \A d \in DOMAIN s : /\ s[d].occurrenceId.name = j.visits[d]
                         /\ s[d].stmt = StmtOf(j, j.visits[d])
                         /\ s[d].astBuild = d

\* What is true of a call alone: its job j, phase p, the loaded value l, its
\* descriptors s, the node pr that is printed and the output o.
CallOK(j, p, l, s, pr, o) ==
  /\ j \in Jobs /\ p \in Phases /\ l \in Numbers \cup {None}
  /\ s \in Seq(Descriptors) /\ pr \in 1..Modulus \cup {None}
  /\ o \in [DOMAIN j.visits -> Outputs \cup {None}]
  /\ Described(j, s)
  /\ p = "idle" => s = << >>
  /\ l # None => p = "build" /\ Len(s) < Len(j.visits)
  /\ p \in {"idle", "build"} => \A n \in DOMAIN o : o[n] = None
  /\ p \in {"print", "custom", "done"} => Len(s) = Len(j.visits)
  /\ p = "custom" => pr \in DOMAIN j.visits
  /\ p = "done" => \A n \in DOMAIN o : o[n] # None

AllCallsOK ==
  \A c \in Call : CallOK(job[c], phase[c], loaded[c], stmts[c], printing[c], output[c])

Domains ==
  /\ job \in [Call -> Jobs]
  /\ phase \in [Call -> Phases] /\ loaded \in [Call -> Numbers \cup {None}]
  /\ stmts \in [Call -> Seq(Descriptors)] /\ printing \in [Call -> 1..Modulus \cup {None}]
  /\ DOMAIN output = Call
  /\ active \in [Thread -> Seq(Call)]
  /\ counter \in Numbers
  /\ crashed \in BOOLEAN

\* A call that builds its AST is the innermost one of its thread.
BuildsInnermost == \A c \in Call : phase[c] = "build" => Innermost(c)

Inv == Domains /\ AllCallsOK /\ BuildsInnermost

LEMMA Jobs_ ==
  ASSUME NEW j \in Jobs
  PROVE  /\ j.visits \in Seq(StmtId) /\ Len(j.visits) \in Nat /\ Len(j.visits) <= Modulus
         /\ DOMAIN j.visits = 1..Len(j.visits)
         /\ \A n \in DOMAIN j.visits : j.visits[n] \in StmtId
         /\ j.known \subseteq StmtId /\ j.custom \in Custom
<1>1. IsJob(j)
  BY JobsAssumption
<1>2. /\ j.visits \in Seq(StmtId) /\ Len(j.visits) <= Modulus
      /\ j.known \in SUBSET StmtId /\ j.custom \in Custom
  BY <1>1 DEF IsJob
<1>. QED  BY <1>2

-----------------------------------------------------------------------------
(* Finding descriptors *)

FoundIn(s, n) == {d \in DOMAIN s : s[d].occurrenceId = s[n].occurrenceId}
LeastFound(s, n) == CHOOSE d \in FoundIn(s, n) : \A e \in FoundIn(s, n) : d <= e

LEMMA FindIsLeast ==
  ASSUME NEW c, NEW n
  PROVE  FindStmtDescriptor(c, n) = stmts[c][LeastFound(stmts[c], n)]
BY DEF FindStmtDescriptor, Found, Annotation, LeastFound, FoundIn

\* printStatement finds a descriptor of the same occurrence, hence of a
\* statement of the same name.
LEMMA Finds ==
  ASSUME NEW s \in Seq(Descriptors), NEW n \in DOMAIN s
  PROVE  /\ LeastFound(s, n) \in DOMAIN s
         /\ s[LeastFound(s, n)].occurrenceId = s[n].occurrenceId
<1>1. FoundIn(s, n) \subseteq Nat /\ n \in FoundIn(s, n)
  BY DEF FoundIn
<1>2. PICK d \in FoundIn(s, n) : \A e \in FoundIn(s, n) : d <= e
  <2>. DEFINE Less == OpToRel(<, Nat)
  <2>1. \A a, b \in Nat : a < b => <<a, b>> \in Less
    BY DEF OpToRel
  <2>2. IsWellFoundedOn(Less, Nat)
    BY NatLessThanWellFounded
  <2>. HIDE DEF Less
  <2>3. PICK d \in FoundIn(s, n) : \A e \in FoundIn(s, n) : ~ (<<e, d>> \in Less)
    BY <1>1, <2>2, WFMin
  <2>4. \A e \in FoundIn(s, n) : ~ (e < d)
    BY <1>1, <2>1, <2>3
  <2>. QED  BY <1>1, <2>4
<1>3. LeastFound(s, n) \in FoundIn(s, n)
  BY <1>2 DEF LeastFound
<1>. QED  BY <1>3 DEF FoundIn

\* What is printed for a node, by any call.
LEMMA PrintedProperties ==
  ASSUME Inv, NEW c \in Call, NEW n \in Nodes(c), phase[c] \in {"print", "custom"}
  PROVE  /\ Printed(c, n) \in Outputs
         /\ Printed(c, n) # None
         /\ FindStmtDescriptor(c, n).stmt = None <=> job[c].visits[n] \notin job[c].known
         /\ IF job[c].visits[n] \in job[c].known
            THEN Printed(c, n) = [stmt |-> job[c].visits[n],
                                  schedule |-> LeastFound(stmts[c], n)]
            ELSE Printed(c, n) = [comment |-> Annotation(c, n)]
<1>. DEFINE j == job[c]
            s == stmts[c]
            m == LeastFound(s, n)
<1>1. /\ j \in Jobs /\ s \in Seq(Descriptors) /\ Described(j, s) /\ Len(s) = Len(j.visits)
  BY DEF Inv, AllCallsOK, CallOK
<1>2. n \in DOMAIN s /\ DOMAIN s = 1..Len(j.visits) /\ Len(j.visits) <= Modulus
      /\ Len(j.visits) \in Nat
  BY <1>1, Jobs_ DEF Nodes
<1>3. m \in DOMAIN s /\ s[m].occurrenceId = s[n].occurrenceId
  BY <1>1, <1>2, Finds
<1>4. /\ s[m].occurrenceId.name = j.visits[m] /\ s[n].occurrenceId.name = j.visits[n]
      /\ s[m].stmt = StmtOf(j, j.visits[m]) /\ s[m].astBuild = m
  BY <1>1, <1>2, <1>3 DEF Described
<1>5. s[m].stmt = StmtOf(j, j.visits[n])
  BY <1>3, <1>4
<1>6. j.visits[n] \in StmtId /\ None \notin StmtId /\ None \notin Outputs
  BY <1>1, Jobs_, NoneAssumption DEF Nodes
<1>7. s[m].stmt = None <=> j.visits[n] \notin j.known
  BY <1>5, <1>6 DEF StmtOf
<1>8. FindStmtDescriptor(c, n) = s[m]
  BY FindIsLeast
<1>9. s[n].occurrenceId \in Occurrences /\ m \in 1..Modulus /\ ModulusAssumption
  <2>1. s[n] \in Descriptors
    BY <1>1, <1>2
  <2>. QED  BY <1>2, <1>3, <2>1, ModulusAssumption DEF Descriptors, ModulusAssumption
<1>. HIDE DEF s, m, j
<1>10. CASE j.visits[n] \in j.known
  <2>1. s[m].stmt = j.visits[n]
    BY <1>5, <1>10 DEF StmtOf
  <2>2. Printed(c, n) = [stmt |-> j.visits[n], schedule |-> m]
    BY <1>4, <1>6, <1>8, <2>1 DEF Printed
  <2>3. Printed(c, n) \in Outputs
    BY <1>6, <1>9, <2>2 DEF Outputs
  <2>. QED  BY <1>6, <1>7, <1>8, <1>10, <2>2, <2>3 DEF s, m, j
<1>11. CASE j.visits[n] \notin j.known
  <2>1. Printed(c, n) = [comment |-> s[n].occurrenceId]
    BY <1>7, <1>8, <1>11 DEF Printed, Annotation, s
  <2>2. Printed(c, n) \in Outputs
    BY <1>9, <2>1 DEF Outputs
  <2>. QED  BY <1>6, <1>7, <1>8, <1>11, <2>1, <2>2 DEF s, m, j, Annotation
<1>. QED  BY <1>10, <1>11

-----------------------------------------------------------------------------
(* Every step keeps the invariant *)

\* A step of a call leaves the others alone.
Others(c) ==
  \A d \in Call \ {c} :
    /\ phase'[d] = phase[d] /\ loaded'[d] = loaded[d] /\ stmts'[d] = stmts[d]
    /\ printing'[d] = printing[d] /\ output'[d] = output[d]

LEMMA Lift ==
  ASSUME Inv, NEW c \in Call, job' = job, Others(c),
         CallOK(job[c], phase'[c], loaded'[c], stmts'[c], printing'[c], output'[c])
  PROVE  AllCallsOK'
BY DEF Inv, AllCallsOK, Others

LEMMA Call_ ==
  ASSUME Inv, NEW c \in Call
  PROVE  /\ CallOK(job[c], phase[c], loaded[c], stmts[c], printing[c], output[c])
         /\ job[c] \in Jobs /\ ThreadOf[c] \in Thread
BY ThreadOfAssumption DEF Inv, AllCallsOK, Domains, ThreadOfAssumption

LEMMA BeginStep ==
  ASSUME Inv, NEW c \in Call, Begin(c)
  PROVE  Inv'
<1>1. /\ phase[c] = "idle" /\ phase' = [phase EXCEPT ![c] = "build"]
      /\ active' = [active EXCEPT ![ThreadOf[c]] = Append(@, c)]
      /\ UNCHANGED <<job, counter, loaded, stmts, printing, output, crashed>>
  BY DEF Begin
<1>2. phase'[c] = "build" /\ phase' \in [Call -> Phases] /\ Others(c)
  BY <1>1 DEF Inv, Domains, Others, Phases
<1>3. active[ThreadOf[c]] \in Seq(Call) /\ ThreadOf[c] \in Thread
  BY Call_ DEF Inv, Domains
<1>4. /\ active'[ThreadOf[c]] = Append(active[ThreadOf[c]], c)
      /\ active' \in [Thread -> Seq(Call)]
      /\ \A t \in Thread : t # ThreadOf[c] => active'[t] = active[t]
  <2>1. Append(active[ThreadOf[c]], c) \in Seq(Call)
    BY <1>3
  <2>. QED  BY <1>1, <1>3, <2>1 DEF Inv, Domains
<1>5. Domains'
  BY <1>1, <1>2, <1>4 DEF Inv, Domains
<1>6. CallOK(job[c], phase'[c], loaded'[c], stmts'[c], printing'[c], output'[c])
  BY <1>1, <1>2, Call_ DEF CallOK, Phases
<1>7. AllCallsOK'
  BY <1>1, <1>2, <1>6, Lift
<1>8. ASSUME NEW d \in Call, phase'[d] = "build" PROVE Innermost(d)'
  <2>1. CASE d = c
    <3>1. active'[ThreadOf[c]] # << >> /\ Last(active'[ThreadOf[c]]) = c
      BY <1>3, <1>4 DEF Last
    <3>. QED  BY <2>1, <3>1 DEF Innermost
  <2>2. CASE d # c
    <3>1. phase[d] = "build" /\ Innermost(d) /\ ThreadOf[d] \in Thread
      BY <1>2, <1>8, <2>2, Call_ DEF Others, Inv, BuildsInnermost
    <3>2. ThreadOf[d] # ThreadOf[c]
      BY <3>1 DEF Innermost, Begin, MayCall
    <3>. QED  BY <1>4, <3>1, <3>2 DEF Innermost
  <2>. QED  BY <2>1, <2>2
<1>. QED  BY <1>5, <1>7, <1>8 DEF Inv, BuildsInnermost

\* Steps that neither start nor end a call.
LEMMA StaysInnermost ==
  ASSUME Inv, NEW c \in Call, active' = active, Others(c), phase'[c] = "build" => Innermost(c)
  PROVE  BuildsInnermost'
<1>1. ASSUME NEW d \in Call, phase'[d] = "build" PROVE Innermost(d)
  BY <1>1 DEF Others, Inv, BuildsInnermost
<1>2. \A d \in Call : Innermost(d)' <=> Innermost(d)
  BY DEF Innermost
<1>. QED  BY <1>1, <1>2 DEF BuildsInnermost

LEMMA LoadCounterStep ==
  ASSUME Inv, NEW c \in Call, LoadCounter(c)
  PROVE  Inv'
<1>1. /\ phase[c] = "build" /\ Innermost(c) /\ Len(stmts[c]) < Len(job[c].visits)
      /\ loaded' = [loaded EXCEPT ![c] = counter]
      /\ UNCHANGED <<job, active, phase, counter, stmts, printing, output, crashed>>
  BY DEF LoadCounter, Running
<1>2. loaded'[c] = counter /\ loaded' \in [Call -> Numbers \cup {None}] /\ Others(c)
  BY <1>1 DEF Inv, Domains, Others
<1>3. Domains'
  BY <1>1, <1>2 DEF Inv, Domains
<1>4. counter \in Numbers
  BY DEF Inv, Domains
<1>5. CallOK(job[c], phase'[c], loaded'[c], stmts'[c], printing'[c], output'[c])
  BY <1>1, <1>2, <1>4, Call_ DEF CallOK
<1>. QED  BY <1>1, <1>2, <1>3, <1>5, Lift, StaysInnermost DEF Inv

\* at_domain appends the descriptor of the next node.
LEMMA Describes ==
  ASSUME NEW c \in Call, job[c] \in Jobs, NEW s \in Seq(Descriptors), Described(job[c], s),
         Len(s) < Len(job[c].visits), NEW number \in Numbers
  PROVE  /\ Descriptor(c, Len(s) + 1, number).occurrenceId
              = [name |-> job[c].visits[Len(s) + 1], number |-> number]
         /\ Append(s, Descriptor(c, Len(s) + 1, number)) \in Seq(Descriptors)
         /\ Described(job[c], Append(s, Descriptor(c, Len(s) + 1, number)))
<1>. DEFINE n == Len(s) + 1
            descr == Descriptor(c, n, number)
            j == job[c]
<1>1. /\ n \in DOMAIN j.visits /\ n \in 1..Modulus /\ n <= Len(j.visits)
      /\ j.visits[n] \in StmtId /\ Len(s) \in Nat
  <2>1. n \in DOMAIN j.visits /\ n \in 1..Len(j.visits) /\ Len(j.visits) <= Modulus
    BY Jobs_
  <2>. QED  BY <2>1, Jobs_, ModulusAssumption DEF ModulusAssumption
<1>2. /\ descr.occurrenceId = [name |-> j.visits[n], number |-> number]
      /\ descr.stmt = StmtOf(j, j.visits[n]) /\ descr.astBuild = n
  BY DEF Descriptor, Occurrence, Stmt, StmtOf
<1>3. descr \in Descriptors
  BY <1>1 DEF Descriptor, Descriptors, Occurrence, Occurrences, Stmt, Numbers
<1>. HIDE DEF descr
<1>4. /\ Append(s, descr) \in Seq(Descriptors)
      /\ DOMAIN Append(s, descr) = 1..n /\ Len(Append(s, descr)) = n
      /\ \A d \in DOMAIN s : Append(s, descr)[d] = s[d]
      /\ Append(s, descr)[n] = descr
      /\ \A d \in 1..n : d \in DOMAIN s \/ d = n
  BY <1>1, <1>3
<1>5. Described(j, Append(s, descr))
  <2>. DEFINE s2 == Append(s, descr)
  <2>. HIDE DEF s2, n
  <2>1. ASSUME NEW d \in DOMAIN s2
        PROVE  /\ s2[d].occurrenceId.name = j.visits[d]
               /\ s2[d].stmt = StmtOf(j, j.visits[d])
               /\ s2[d].astBuild = d
    <3>1. CASE d \in DOMAIN s
      BY <1>4, <3>1 DEF Described, s2
    <3>2. CASE d = n
      BY <1>2, <1>4, <3>2 DEF s2
    <3>. QED  BY <1>4, <3>1, <3>2 DEF s2
  <2>. QED  BY <1>1, <1>4, <2>1 DEF Described, s2
<1>. QED  BY <1>2, <1>4, <1>5 DEF descr

LEMMA IncrementInRange ==
  ASSUME NEW n \in Numbers
  PROVE  /\ Increment(n) \in Numbers
         /\ Increment(n) = IF n + 1 = Modulus THEN 0 ELSE n + 1
BY NextModulo, ModulusAssumption DEF ModulusAssumption, Increment, Numbers

LEMMA StoreCounterStep ==
  ASSUME Inv, NEW c \in Call, StoreCounter(c)
  PROVE  Inv'
<1>. DEFINE s == stmts[c]
            s2 == Append(s, Descriptor(c, Len(s) + 1, loaded[c]))
<1>1. /\ phase[c] = "build" /\ Innermost(c) /\ loaded[c] # None
      /\ counter' = Increment(loaded[c])
      /\ stmts' = [stmts EXCEPT ![c] = s2]
      /\ loaded' = [loaded EXCEPT ![c] = None]
      /\ UNCHANGED <<job, active, phase, printing, output, crashed>>
  BY DEF StoreCounter, Running
<1>2. CallOK(job[c], phase[c], loaded[c], stmts[c], printing[c], output[c])
      /\ job[c] \in Jobs
  BY Call_
<1>3. /\ s \in Seq(Descriptors) /\ Described(job[c], s) /\ Len(s) < Len(job[c].visits)
      /\ loaded[c] \in Numbers
  BY <1>1, <1>2 DEF CallOK
<1>4. /\ s2 \in Seq(Descriptors) /\ Described(job[c], s2)
  BY <1>2, <1>3, Describes
<1>. HIDE DEF s2
<1>5. /\ loaded'[c] = None /\ loaded' \in [Call -> Numbers \cup {None}]
      /\ stmts'[c] = s2 /\ stmts' \in [Call -> Seq(Descriptors)]
      /\ Others(c)
  BY <1>1, <1>4 DEF Inv, Domains, Others
<1>6. counter' \in Numbers
  BY <1>1, <1>3, IncrementInRange
<1>7. Domains'
  BY <1>1, <1>5, <1>6 DEF Inv, Domains
<1>8. CallOK(job[c], phase'[c], loaded'[c], stmts'[c], printing'[c], output'[c])
  BY <1>1, <1>2, <1>4, <1>5 DEF CallOK
<1>9. AllCallsOK' /\ BuildsInnermost'
  BY <1>1, <1>5, <1>8, Lift, StaysInnermost
<1>. QED  BY <1>7, <1>9 DEF Inv

LEMMA FinishBuildStep ==
  ASSUME Inv, NEW c \in Call, FinishBuild(c)
  PROVE  Inv'
<1>1. /\ phase[c] = "build" /\ Len(stmts[c]) = Len(job[c].visits)
      /\ phase' = [phase EXCEPT ![c] = "print"]
      /\ UNCHANGED <<job, active, counter, loaded, stmts, printing, output, crashed>>
  BY DEF FinishBuild, Running
<1>2. phase'[c] = "print" /\ phase' \in [Call -> Phases] /\ Others(c)
  BY <1>1 DEF Inv, Domains, Others, Phases
<1>3. Domains'
  BY <1>1, <1>2 DEF Inv, Domains
<1>4. loaded[c] = None
  <2>1. Len(job[c].visits) \in Nat
    BY Call_, Jobs_
  <2>. QED  BY <1>1, <2>1, Call_ DEF CallOK
<1>5. CallOK(job[c], phase'[c], loaded'[c], stmts'[c], printing'[c], output'[c])
  BY <1>1, <1>2, <1>4, Call_ DEF CallOK, Phases
<1>6. AllCallsOK' /\ BuildsInnermost'
  BY <1>1, <1>2, <1>5, Lift, StaysInnermost
<1>. QED  BY <1>3, <1>6 DEF Inv

LEMMA CallCustomStep ==
  ASSUME Inv, NEW c \in Call, NEW n \in Nodes(c), CallCustom(c, n)
  PROVE  Inv'
<1>1. /\ phase[c] = "print" /\ phase' = [phase EXCEPT ![c] = "custom"]
      /\ printing' = [printing EXCEPT ![c] = n]
      /\ UNCHANGED <<job, active, counter, loaded, stmts, output, crashed>>
  BY DEF CallCustom, Running
<1>4. n \in 1..Modulus /\ n \in DOMAIN job[c].visits
  <2>1. /\ DOMAIN job[c].visits = 1..Len(job[c].visits)
        /\ Len(job[c].visits) \in Nat /\ Len(job[c].visits) <= Modulus
    BY Call_, Jobs_
  <2>. QED  BY <2>1, ModulusAssumption DEF Nodes, ModulusAssumption
<1>2. /\ phase'[c] = "custom" /\ phase' \in [Call -> Phases]
      /\ printing'[c] = n /\ printing' \in [Call -> 1..Modulus \cup {None}] /\ Others(c)
  BY <1>1, <1>4 DEF Inv, Domains, Others, Phases
<1>3. Domains'
  BY <1>1, <1>2 DEF Inv, Domains
<1>5. CallOK(job[c], phase'[c], loaded'[c], stmts'[c], printing'[c], output'[c])
  BY <1>1, <1>2, <1>4, Call_ DEF CallOK, Phases
<1>6. AllCallsOK' /\ BuildsInnermost'
  BY <1>1, <1>2, <1>5, Lift, StaysInnermost
<1>. QED  BY <1>3, <1>6 DEF Inv

LEMMA PrintStatementStep ==
  ASSUME Inv, NEW c \in Call, PrintStatement(c)
  PROVE  Inv'
<1>. DEFINE n == printing[c]
            out == Printed(c, n)
            o2 == [output[c] EXCEPT ![n] = out]
<1>1. /\ phase[c] = "custom" /\ phase' = [phase EXCEPT ![c] = "print"]
      /\ output' = [output EXCEPT ![c] = o2]
      /\ printing' = [printing EXCEPT ![c] = None]
      /\ UNCHANGED <<job, active, counter, loaded, stmts, crashed>>
  BY DEF PrintStatement, Running
<1>2. CallOK(job[c], phase[c], loaded[c], stmts[c], printing[c], output[c])
  BY Call_
<1>3. n \in Nodes(c)
  BY <1>1, <1>2 DEF CallOK, Nodes
<1>4. out \in Outputs
  BY <1>1, <1>3, PrintedProperties
<1>. HIDE DEF out
<1>5. o2 \in [DOMAIN job[c].visits -> Outputs \cup {None}]
  BY <1>2, <1>3, <1>4 DEF CallOK, Nodes
<1>. HIDE DEF o2
<1>6. /\ phase'[c] = "print" /\ phase' \in [Call -> Phases]
      /\ printing'[c] = None /\ printing' \in [Call -> 1..Modulus \cup {None}]
      /\ output'[c] = o2 /\ DOMAIN output' = Call /\ Others(c)
  BY <1>1 DEF Inv, Domains, Others, Phases
<1>7. Domains'
  BY <1>1, <1>6 DEF Inv, Domains
<1>8. CallOK(job[c], phase'[c], loaded'[c], stmts'[c], printing'[c], output'[c])
  BY <1>1, <1>2, <1>5, <1>6 DEF CallOK, Phases
<1>9. AllCallsOK' /\ BuildsInnermost'
  BY <1>1, <1>6, <1>8, Lift, StaysInnermost
<1>. QED  BY <1>7, <1>9 DEF Inv

LEMMA FinishStep ==
  ASSUME Inv, NEW c \in Call, Finish(c)
  PROVE  Inv'
<1>1. /\ phase[c] = "print" /\ \A n \in Nodes(c) : output[c][n] # None
      /\ phase' = [phase EXCEPT ![c] = "done"] /\ Innermost(c)
      /\ active' = [active EXCEPT ![ThreadOf[c]] = Front(@)]
      /\ UNCHANGED <<job, counter, loaded, stmts, printing, output, crashed>>
  BY DEF Finish, Running
<1>2. phase'[c] = "done" /\ phase' \in [Call -> Phases] /\ Others(c)
  BY <1>1 DEF Inv, Domains, Others, Phases
<1>3. /\ active[ThreadOf[c]] \in Seq(Call) /\ ThreadOf[c] \in Thread
      /\ active[ThreadOf[c]] # << >>
  BY <1>1, Call_ DEF Inv, Domains, Innermost
<1>4. Front(active[ThreadOf[c]]) \in Seq(Call)
  BY <1>3 DEF Front
<1>5. /\ active' \in [Thread -> Seq(Call)]
      /\ \A t \in Thread : t # ThreadOf[c] => active'[t] = active[t]
  BY <1>1, <1>3, <1>4 DEF Inv, Domains
<1>6. Domains'
  BY <1>1, <1>2, <1>5 DEF Inv, Domains
<1>7. CallOK(job[c], phase'[c], loaded'[c], stmts'[c], printing'[c], output'[c])
  BY <1>1, <1>2, Call_ DEF CallOK, Phases, Nodes
<1>8. AllCallsOK'
  BY <1>1, <1>2, <1>7, Lift
<1>9. ASSUME NEW d \in Call, phase'[d] = "build" PROVE Innermost(d)'
  <2>1. d # c /\ phase[d] = "build" /\ Innermost(d) /\ ThreadOf[d] \in Thread
    BY <1>2, <1>9, Call_ DEF Others, Inv, BuildsInnermost
  <2>2. ThreadOf[d] # ThreadOf[c]
    BY <1>1, <2>1 DEF Innermost
  <2>. QED  BY <1>5, <2>1, <2>2 DEF Innermost
<1>. QED  BY <1>6, <1>8, <1>9 DEF Inv, BuildsInnermost

LEMMA InvStep ==
  ASSUME Inv, [Next]_vars
  PROVE  Inv'
<1>1. ASSUME NEW c \in Call, Step(c) PROVE Inv'
  <2>1. CASE DieWithoutCustom(c) \/ DieWithoutStmt(c)
    <3>1. /\ UNCHANGED <<job, active, phase, counter, loaded, stmts, printing, output>>
          /\ crashed' = TRUE
      BY <2>1 DEF DieWithoutCustom, DieWithoutStmt
    <3>. QED  BY <3>1 DEF Inv, Domains, AllCallsOK, BuildsInnermost, Innermost
  <2>. QED  BY <1>1, <2>1, BeginStep, LoadCounterStep, StoreCounterStep, FinishBuildStep,
               CallCustomStep, PrintStatementStep, FinishStep DEF Step
<1>2. CASE UNCHANGED vars
  BY <1>2 DEF vars, Inv, Domains, AllCallsOK, BuildsInnermost, Innermost
<1>. QED  BY <1>1, <1>2 DEF Next

LEMMA InvInit == Init => Inv
<1>. SUFFICES ASSUME Init PROVE Inv
  OBVIOUS
<1>1. Domains
  <2>1. 0 \in Numbers
    BY ModulusAssumption DEF ModulusAssumption, Numbers
  <2>2. << >> \in Seq(Call) /\ << >> \in Seq(Descriptors)
    OBVIOUS
  <2>. QED  BY <2>1, <2>2 DEF Init, Domains, Phases
<1>0. BuildsInnermost
  BY DEF Init, BuildsInnermost
<1>2. ASSUME NEW c \in Call
      PROVE  CallOK(job[c], phase[c], loaded[c], stmts[c], printing[c], output[c])
  <2>1. job[c] \in Jobs /\ Len(job[c].visits) \in Nat
    BY Jobs_ DEF Init
  <2>2. Described(job[c], << >>)
    BY <2>1 DEF Described
  <2>. QED  BY <2>1, <2>2 DEF Init, CallOK, Phases, Nodes
<1>. QED  BY <1>0, <1>1, <1>2 DEF Inv, AllCallsOK

-----------------------------------------------------------------------------
(* One thread: the numbers of the occurrences *)

OneThread == \A c, d \in Call : ThreadOf[c] = ThreadOf[d]

\* The number k steps after f.
Wrap(f, k) == IF f + k < Modulus THEN f + k ELSE f + k - Modulus
NumberOf(s, d) == s[d].occurrenceId.number

\* The nodes of an AST are numbered one after the other.
Numbered(s) == \A d \in DOMAIN s : NumberOf(s, d) = Wrap(NumberOf(s, 1), d - 1)

\* While a call builds its AST, nobody else uses the counter.
Follows(c) ==
  phase[c] = "build" =>
    /\ loaded[c] # None => loaded[c] = counter
    /\ stmts[c] # << >> => counter = Wrap(NumberOf(stmts[c], 1), Len(stmts[c]))

\* What was printed for a node names that node.
PrintedOwn(j, s, o) ==
  \A n \in DOMAIN j.visits : o[n] # None =>
    IF j.visits[n] \in j.known THEN o[n] = [stmt |-> j.visits[n], schedule |-> n]
    ELSE o[n] = [comment |-> s[n].occurrenceId]

ThreadInv ==
  \A c \in Call : /\ Numbered(stmts[c]) /\ Follows(c)
                  /\ PrintedOwn(job[c], stmts[c], output[c])

LEMMA WrapProperties ==
  ASSUME NEW f \in Numbers
  PROVE  /\ Wrap(f, 0) = f
         /\ \A k \in Numbers : Wrap(f, k) \in Numbers /\ Increment(Wrap(f, k)) = Wrap(f, k + 1)
         /\ \A j, k \in Numbers : Wrap(f, j) = Wrap(f, k) => j = k
<1>1. Modulus \in Nat \ {0}
  BY ModulusAssumption DEF ModulusAssumption
<1>2. \A k \in Numbers : Wrap(f, k) \in Numbers
  BY <1>1 DEF Wrap, Numbers
<1>3. ASSUME NEW k \in Numbers PROVE Increment(Wrap(f, k)) = Wrap(f, k + 1)
  <2>1. Increment(Wrap(f, k)) = IF Wrap(f, k) + 1 = Modulus THEN 0 ELSE Wrap(f, k) + 1
    BY <1>2, IncrementInRange
  <2>. QED  BY <1>1, <2>1 DEF Wrap, Numbers
<1>. QED  BY <1>1, <1>2, <1>3 DEF Wrap, Numbers

\* An AST has at most as many nodes as there are numbers: no two are equal.
LEMMA NumbersDiffer ==
  ASSUME Inv, NEW c \in Call, Numbered(stmts[c]),
         NEW d \in DOMAIN stmts[c], NEW e \in DOMAIN stmts[c],
         stmts[c][d].occurrenceId = stmts[c][e].occurrenceId
  PROVE  d = e
<1>. DEFINE s == stmts[c]
            f == NumberOf(s, 1)
<1>1. /\ s \in Seq(Descriptors) /\ Len(s) <= Len(job[c].visits) /\ job[c] \in Jobs
  BY Call_ DEF CallOK, Described
<1>2. Len(s) \in Nat /\ Len(s) <= Modulus /\ Modulus \in Nat \ {0} /\ DOMAIN s = 1..Len(s)
  BY <1>1, Jobs_, ModulusAssumption DEF ModulusAssumption
<1>3. f \in Numbers
  <2>1. s[1] \in Descriptors
    BY <1>1, <1>2
  <2>. QED  BY <2>1 DEF NumberOf, Descriptors, Occurrences, Numbers
<1>4. d - 1 \in Numbers /\ e - 1 \in Numbers
  BY <1>2 DEF Numbers
<1>5. Wrap(f, d - 1) = Wrap(f, e - 1)
  BY DEF Numbered, NumberOf
<1>6. d - 1 = e - 1
  BY <1>3, <1>4, <1>5, WrapProperties
<1>. QED  BY <1>2, <1>6

\* The counter and the loaded value of the innermost call are its own.
LEMMA OthersDoNotBuild ==
  ASSUME OneThread, Inv, NEW c \in Call, Innermost(c), NEW d \in Call, d # c
  PROVE  phase[d] # "build"
<1>1. ThreadOf[c] = ThreadOf[d]
  BY DEF OneThread
<1>. QED  BY <1>1 DEF Inv, BuildsInnermost, Innermost

\* A call is not affected by steps that change neither it nor the counter.
LEMMA FollowsStays ==
  ASSUME NEW d, Follows(d), counter' = counter, phase'[d] = phase[d],
         loaded'[d] = loaded[d], stmts'[d] = stmts[d]
  PROVE  Follows(d)'
BY DEF Follows

LEMMA StoreCounterNumbers ==
  ASSUME OneThread, Inv, ThreadInv, NEW c \in Call, StoreCounter(c)
  PROVE  ThreadInv'
<1>. DEFINE s == stmts[c]
            s2 == Append(s, Descriptor(c, Len(s) + 1, loaded[c]))
            f == NumberOf(s, 1)
<1>1. /\ phase[c] = "build" /\ Innermost(c) /\ loaded[c] # None
      /\ counter' = Increment(loaded[c])
      /\ stmts' = [stmts EXCEPT ![c] = s2]
      /\ loaded' = [loaded EXCEPT ![c] = None]
      /\ UNCHANGED <<job, active, phase, printing, output, crashed>>
  BY DEF StoreCounter, Running
<1>2. CallOK(job[c], phase[c], loaded[c], stmts[c], printing[c], output[c])
      /\ job[c] \in Jobs
  BY Call_
<1>3. /\ s \in Seq(Descriptors) /\ Described(job[c], s) /\ Len(s) < Len(job[c].visits)
      /\ loaded[c] \in Numbers /\ \A n \in DOMAIN output[c] : output[c][n] = None
      /\ DOMAIN output[c] = DOMAIN job[c].visits
  BY <1>1, <1>2 DEF CallOK
<1>4. /\ Len(s) \in Nat /\ Len(s) < Modulus /\ Modulus \in Nat \ {0} /\ Len(s) \in Numbers
  BY <1>2, <1>3, Jobs_, ModulusAssumption DEF ModulusAssumption, Numbers
<1>5. /\ loaded'[c] = None /\ stmts'[c] = s2
      /\ \A d \in Call : d # c => loaded'[d] = loaded[d] /\ stmts'[d] = stmts[d]
  BY <1>1 DEF Inv, Domains
<1>6. /\ s2 \in Seq(Descriptors) /\ Len(s2) = Len(s) + 1 /\ DOMAIN s2 = 1..(Len(s) + 1)
      /\ NumberOf(s2, Len(s) + 1) = loaded[c]
      /\ \A d \in 1..Len(s) : NumberOf(s2, d) = NumberOf(s, d)
  <2>. DEFINE descr == Descriptor(c, Len(s) + 1, loaded[c])
  <2>0. descr.occurrenceId.number = loaded[c]
    BY DEF Descriptor, Occurrence
  <2>1. Append(s, descr) \in Seq(Descriptors)
    BY <1>2, <1>3, Describes
  <2>. HIDE DEF descr
  <2>2. /\ Append(s, descr)[Len(s) + 1] = descr /\ Len(Append(s, descr)) = Len(s) + 1
        /\ \A d \in 1..Len(s) : Append(s, descr)[d] = s[d]
    BY <1>3
  <2>3. s2 = Append(s, descr)
    BY DEF descr
  <2>. HIDE DEF s2
  <2>. QED  BY <1>4, <2>0, <2>1, <2>2, <2>3 DEF NumberOf
<1>. HIDE DEF s2
<1>7. loaded[c] = counter /\ (s # << >> => counter = Wrap(f, Len(s))) /\ Numbered(s)
  BY <1>1 DEF ThreadInv, Follows
<1>8. ASSUME s = << >>
      PROVE  Numbered(s2) /\ counter' = Wrap(NumberOf(s2, 1), Len(s2))
  <2>1. Len(s) = 0 /\ NumberOf(s2, 1) = counter
    BY <1>6, <1>7, <1>8
  <2>2. counter \in Numbers /\ 0 \in Numbers /\ 0 + 1 = 1
    BY <1>3, <1>4, <1>7 DEF Numbers
  <2>3. Wrap(counter, 0) = counter /\ Increment(Wrap(counter, 0)) = Wrap(counter, 0 + 1)
    BY <2>2, WrapProperties
  <2>4. Numbered(s2) /\ counter' = Wrap(NumberOf(s2, 1), Len(s2))
    BY <1>1, <1>6, <1>7, <2>1, <2>2, <2>3 DEF Numbered
  <2>. QED  BY <2>4
<1>9. ASSUME s # << >>
      PROVE  Numbered(s2) /\ counter' = Wrap(NumberOf(s2, 1), Len(s2))
  <2>1. 1 \in 1..Len(s) /\ NumberOf(s2, 1) = f
    BY <1>3, <1>4, <1>6, <1>9
  <2>2. f \in Numbers
    <3>1. s[1] \in Descriptors
      BY <1>3, <2>1
    <3>. QED  BY <3>1 DEF NumberOf, Descriptors, Occurrences, Numbers
  <2>3. Increment(Wrap(f, Len(s))) = Wrap(f, Len(s) + 1)
    BY <1>4, <2>2, WrapProperties
  <2>4. \A d \in 1..Len(s) : NumberOf(s2, d) = Wrap(f, d - 1)
    BY <1>3, <1>6, <1>7 DEF Numbered
  <2>. HIDE DEF f
  <2>5. Numbered(s2) /\ counter' = Wrap(NumberOf(s2, 1), Len(s2))
    <3>1. loaded[c] = Wrap(f, Len(s) + 1 - 1)
      BY <1>4, <1>7, <1>9 DEF f
    <3>2. \A d \in 1..(Len(s) + 1) : NumberOf(s2, d) = Wrap(f, d - 1)
      BY <1>4, <1>6, <2>4, <3>1
    <3>. QED  BY <1>1, <1>6, <1>7, <1>9, <2>1, <2>3, <3>2 DEF Numbered, f
  <2>. QED  BY <2>5
<1>10. Numbered(s2) /\ counter' = Wrap(NumberOf(s2, 1), Len(s2))
  BY <1>8, <1>9
<1>11. ASSUME NEW d \in Call
       PROVE  Numbered(stmts[d])' /\ Follows(d)' /\ PrintedOwn(job[d], stmts[d], output[d])'
  <2>1. CASE d = c
    <3>1. Numbered(stmts[d])'
      BY <1>5, <1>10, <2>1 DEF Numbered, NumberOf
    <3>2. Follows(d)'
      BY <1>5, <1>10, <2>1 DEF Follows, NumberOf
    <3>3. PrintedOwn(job[d], stmts[d], output[d])'
      BY <1>1, <1>3, <2>1 DEF PrintedOwn
    <3>. QED  BY <3>1, <3>2, <3>3
  <2>2. CASE d # c
    <3>1. phase'[d] # "build"
      BY <1>1, <2>2, OthersDoNotBuild
    <3>2. Numbered(stmts[d])' /\ PrintedOwn(job[d], stmts[d], output[d])'
      BY <1>1, <1>5, <2>2 DEF ThreadInv, Numbered, NumberOf, PrintedOwn
    <3>. QED  BY <3>1, <3>2 DEF Follows
  <2>. QED  BY <2>1, <2>2
<1>. QED  BY <1>11 DEF ThreadInv

\* A finished custom function has printed the node it was called for.
LEMMA PrintStatementOwn ==
  ASSUME OneThread, Inv, ThreadInv, NEW c \in Call, PrintStatement(c)
  PROVE  ThreadInv'
<1>. DEFINE n == printing[c]
            j == job[c]
            s == stmts[c]
            out == Printed(c, n)
            o2 == [output[c] EXCEPT ![n] = out]
<1>1. /\ phase[c] = "custom" /\ phase' = [phase EXCEPT ![c] = "print"]
      /\ output' = [output EXCEPT ![c] = o2]
      /\ UNCHANGED <<job, active, counter, loaded, stmts, crashed>>
  BY DEF PrintStatement, Running
<1>2. CallOK(job[c], phase[c], loaded[c], stmts[c], printing[c], output[c])
  BY Call_
<1>3. n \in Nodes(c) /\ n \in DOMAIN j.visits /\ n \in DOMAIN s /\ s \in Seq(Descriptors)
  <2>1. n \in DOMAIN j.visits /\ s \in Seq(Descriptors) /\ Len(s) = Len(j.visits)
    BY <1>1, <1>2 DEF CallOK
  <2>2. DOMAIN j.visits = 1..Len(j.visits)
    BY Call_, Jobs_
  <2>. QED  BY <2>1, <2>2 DEF Nodes
<1>4. LeastFound(s, n) = n
  <2>1. /\ LeastFound(s, n) \in DOMAIN s
        /\ s[LeastFound(s, n)].occurrenceId = s[n].occurrenceId
    BY <1>3, Finds
  <2>. QED  BY <1>3, <2>1, NumbersDiffer DEF ThreadInv
<1>5. IF j.visits[n] \in j.known
      THEN out = [stmt |-> j.visits[n], schedule |-> n]
      ELSE out = [comment |-> s[n].occurrenceId]
  BY <1>1, <1>3, <1>4, PrintedProperties DEF Annotation
<1>6. DOMAIN output[c] = DOMAIN j.visits
  BY <1>2 DEF CallOK
<1>. HIDE DEF out
<1>7. PrintedOwn(j, s, o2)
  <2>1. o2[n] = out /\ \A m \in DOMAIN j.visits : m # n => o2[m] = output[c][m]
    BY <1>3, <1>6
  <2>. HIDE DEF o2
  <2>. QED  BY <1>5, <2>1 DEF ThreadInv, PrintedOwn
<1>. HIDE DEF o2
<1>8. ASSUME NEW d \in Call
      PROVE  Numbered(stmts[d])' /\ Follows(d)' /\ PrintedOwn(job[d], stmts[d], output[d])'
  <2>1. /\ output'[d] = IF d = c THEN o2 ELSE output[d]
        /\ phase'[d] = IF d = c THEN "print" ELSE phase[d]
    BY <1>1 DEF Inv, Domains
  <2>2. Numbered(stmts[d])'
    BY <1>1 DEF ThreadInv, Numbered, NumberOf
  <2>3. PrintedOwn(job[d], stmts[d], output[d])'
    BY <1>1, <1>7, <2>1 DEF ThreadInv, PrintedOwn
  <2>4. Follows(d)'
    BY <1>1, <2>1 DEF ThreadInv, Follows, NumberOf
  <2>. QED  BY <2>2, <2>3, <2>4
<1>. QED  BY <1>8 DEF ThreadInv

LEMMA ThreadInvStep ==
  ASSUME OneThread, Inv, ThreadInv, [Next]_vars
  PROVE  ThreadInv'
<1>1. ASSUME NEW c \in Call, Begin(c) PROVE ThreadInv'
  <2>1. /\ phase' = [phase EXCEPT ![c] = "build"] /\ phase[c] = "idle"
        /\ UNCHANGED <<job, counter, loaded, stmts, output>>
    BY <1>1 DEF Begin
  <2>2. stmts[c] = << >> /\ loaded[c] = None
    BY <2>1, Call_ DEF CallOK
  <2>3. \A d \in Call : d # c => phase'[d] = phase[d]
    BY <2>1 DEF Inv, Domains
  <2>. QED  BY <2>1, <2>2, <2>3 DEF ThreadInv, Follows, Numbered, NumberOf, PrintedOwn
<1>2. ASSUME NEW c \in Call, LoadCounter(c) PROVE ThreadInv'
  <2>1. /\ loaded' = [loaded EXCEPT ![c] = counter]
        /\ UNCHANGED <<job, phase, counter, stmts, output>>
    BY <1>2 DEF LoadCounter
  <2>2. \A d \in Call : loaded'[d] = IF d = c THEN counter ELSE loaded[d]
    BY <2>1 DEF Inv, Domains
  <2>. QED  BY <2>1, <2>2 DEF ThreadInv, Follows, Numbered, NumberOf, PrintedOwn
<1>3. ASSUME NEW c \in Call, NEW p \in Phases \ {"build"}, phase' = [phase EXCEPT ![c] = p],
             UNCHANGED <<job, counter, loaded, stmts, output>>
      PROVE  ThreadInv'
  <2>1. \A d \in Call : phase'[d] = IF d = c THEN p ELSE phase[d]
    BY <1>3 DEF Inv, Domains
  <2>. QED  BY <1>3, <2>1 DEF ThreadInv, Follows, Numbered, NumberOf, PrintedOwn
<1>4. CASE UNCHANGED <<job, phase, counter, loaded, stmts, output>>
  BY <1>4 DEF ThreadInv, Follows, Numbered, NumberOf, PrintedOwn
<1>5. ASSUME NEW c \in Call, Step(c) PROVE ThreadInv'
  <2>1. CASE FinishBuild(c) \/ Finish(c)
    BY <1>3, <2>1 DEF FinishBuild, Finish, Phases
  <2>2. CASE \E n \in Nodes(c) : CallCustom(c, n)
    BY <1>3, <2>2 DEF CallCustom, Phases
  <2>3. CASE DieWithoutCustom(c) \/ DieWithoutStmt(c)
    BY <1>4, <2>3 DEF DieWithoutCustom, DieWithoutStmt
  <2>. QED  BY <1>1, <1>2, <1>5, <2>1, <2>2, <2>3, StoreCounterNumbers, PrintStatementOwn
            DEF Step
<1>. QED  BY <1>4, <1>5 DEF Next, vars

-----------------------------------------------------------------------------
(* Theorems *)

LEMMA InvHolds == Spec => []Inv
<1>1. Inv /\ [Next]_vars => Inv'
  BY InvStep
<1>. QED  BY InvInit, <1>1, PTL DEF Spec

\* The invariant of types, for any threads.  It needs the inductive invariant:
\* a descriptor that is looked up exists only because nothing is printed before
\* every node is described, and a return pops a call only if one is unfinished.
THEOREM TypeCorrect == Spec => []TypeOK
<1>1. Inv => TypeOK
  <2>. SUFFICES ASSUME Inv PROVE TypeOK
    OBVIOUS
  <2>1. \A c \in Call : output[c] \in [Nodes(c) -> Outputs \cup {None}]
    BY Call_ DEF CallOK, Nodes
  <2>. QED  BY <2>1 DEF TypeOK, Inv, Domains, Phases, Numbers
<1>. QED  BY InvHolds, <1>1, PTL

\* For any threads, whatever they do to each other's numbers: the process dies
\* only in a call that has a node to print and no custom function for it.
THEOREM DiesOnlyAsDocumented == Spec => []DiesOnlyForItsCustom
<1>1. Init => DiesOnlyForItsCustom
  BY DEF Init, DiesOnlyForItsCustom
<1>2. ASSUME Inv, DiesOnlyForItsCustom, [Next]_vars PROVE DiesOnlyForItsCustom'
  <2>1. CASE crashed
    <3>1. job' = job
      BY <1>2, Zenon DEF Next, vars, Step, Begin, LoadCounter, StoreCounter, FinishBuild,
         DieWithoutCustom, CallCustom, DieWithoutStmt, PrintStatement, Finish
    <3>. QED  BY <1>2, <2>1, <3>1 DEF DiesOnlyForItsCustom, Nodes
  <2>2. CASE ~ crashed /\ crashed'
    <3>1. PICK c \in Call : DieWithoutCustom(c) \/ DieWithoutStmt(c)
      BY <1>2, <2>2 DEF Next, vars, Step, Begin, LoadCounter, StoreCounter, FinishBuild,
         CallCustom, PrintStatement, Finish
    <3>2. CASE DieWithoutCustom(c)
      BY <3>2 DEF DieWithoutCustom, DiesOnlyForItsCustom, Nodes
    <3>3. CASE DieWithoutStmt(c)
      <4>1. /\ phase[c] = "custom" /\ job[c].custom = "scheduled" /\ job' = job
            /\ FindStmtDescriptor(c, printing[c]).stmt = None
        BY <3>3 DEF DieWithoutStmt, Running
      <4>2. printing[c] \in Nodes(c)
        BY <1>2, <4>1, Call_ DEF CallOK, Nodes
      <4>3. job[c].visits[printing[c]] \notin job[c].known
        BY <1>2, <4>1, <4>2, PrintedProperties
      <4>. QED  BY <4>1, <4>2, <4>3 DEF DiesOnlyForItsCustom, Nodes
    <3>. QED  BY <3>1, <3>2, <3>3
  <2>. QED  BY <2>1, <2>2 DEF DiesOnlyForItsCustom
<1>. QED  BY InvHolds, <1>1, <1>2, PTL DEF Spec

LEMMA ThreadInvHolds ==
  ASSUME OneThread
  PROVE  Spec => []ThreadInv
<1>1. Init => ThreadInv
  BY DEF Init, ThreadInv, Numbered, Follows, PrintedOwn, Nodes
<1>2. Inv /\ ThreadInv /\ [Next]_vars => ThreadInv'
  BY ThreadInvStep
<1>. QED  BY InvHolds, <1>1, <1>2, PTL DEF Spec

\* In a program that generates code in one thread, no two nodes of an AST get
\* the same identifier, however calls nest and wherever the counter wraps around:
\* the numbers of one AST follow each other because calls that build exclude one
\* another, and there are at least as many numbers as nodes.
THEOREM OccurrencesAreUnique ==
  ASSUME OneThread
  PROVE  Spec => []OccurrencesUnique
<1>1. Inv /\ ThreadInv => OccurrencesUnique
  BY NumbersDiffer DEF OccurrencesUnique, ThreadInv
<1>. QED  BY InvHolds, ThreadInvHolds, <1>1, PTL

\* In such a program every node is printed from its own descriptor, and a call
\* that has returned printed all of them.
THEOREM OwnOccurrencesArePrinted ==
  ASSUME OneThread
  PROVE  Spec => []PrintsOwnOccurrence
<1>1. ASSUME Inv, ThreadInv PROVE PrintsOwnOccurrence
  <2>. SUFFICES ASSUME NEW c \in Call, NEW n \in Nodes(c)
                PROVE  /\ output[c][n] # None =>
                            IF job[c].visits[n] \in job[c].known
                            THEN output[c][n] = [stmt |-> job[c].visits[n], schedule |-> n]
                            ELSE /\ output[c][n] = [comment |-> Annotation(c, n)]
                                 /\ output[c][n].comment.name = job[c].visits[n]
                       /\ phase[c] = "done" => output[c][n] # None
    BY DEF PrintsOwnOccurrence
  <2>1. CallOK(job[c], phase[c], loaded[c], stmts[c], printing[c], output[c])
    BY <1>1, Call_
  <2>2. phase[c] = "done" => output[c][n] # None
    BY <2>1 DEF CallOK, Nodes
  <2>3. ASSUME output[c][n] # None PROVE Annotation(c, n).name = job[c].visits[n]
    <3>1. Len(stmts[c]) = Len(job[c].visits)
      BY <2>1, <2>3 DEF CallOK, Phases, Nodes
    <3>2. n \in DOMAIN stmts[c]
      BY <1>1, <2>1, <3>1, Call_, Jobs_ DEF CallOK, Nodes
    <3>. QED  BY <2>1, <3>2 DEF CallOK, Described, Annotation
  <2>4. PrintedOwn(job[c], stmts[c], output[c]) /\ n \in DOMAIN job[c].visits
    BY <1>1 DEF ThreadInv, Nodes
  <2>. QED  BY <2>2, <2>3, <2>4 DEF PrintedOwn, Annotation
<1>. QED  BY InvHolds, ThreadInvHolds, <1>1, PTL

===============================================================================
