--------------------------- MODULE OwnershipProofs ---------------------------
(***************************************************************************)
(* Theorems about Ownership, for programs of any size: references and      *)
(* holders agree, and contexts are freed unless something outlives them.   *)
(***************************************************************************)
EXTENDS Ownership, TLAPS, FiniteSetTheorems, SequenceTheorems

-----------------------------------------------------------------------------
(* Counting holders *)

One(holds) == IF holds THEN 1 ELSE 0

\* Two sets that differ in one element at most.
LEMMA CountChange ==
  ASSUME NEW S, IsFiniteSet(S), NEW T, NEW x, S \ {x} = T \ {x}
  PROVE  /\ IsFiniteSet(T)
         /\ Cardinality(T) = Cardinality(S) - One(x \in S) + One(x \in T)
<1>. DEFINE R == S \ {x}
<1>1. /\ IsFiniteSet(R) /\ Cardinality(S) \in Nat /\ Cardinality(R) \in Nat
      /\ Cardinality(R) = Cardinality(S) - One(x \in S)
  BY FS_RemoveElement, FS_CardinalityType DEF One
<1>2. CASE x \in T
  <2>1. T = R \cup {x} /\ x \notin R
    BY <1>2
  <2>. HIDE DEF R
  <2>. QED  BY <1>1, <1>2, <2>1, FS_AddElement DEF One
<1>3. CASE x \notin T
  <2>1. T = R
    BY <1>3
  <2>. HIDE DEF R
  <2>. QED  BY <1>1, <1>3, <2>1 DEF One
<1>. QED  BY <1>2, <1>3

\* The variables and the scops that hold an object.
Holds(var, o) == var.class \in IslClasses /\ var.ptr = o
HolderVars(vs, o) == {k \in DOMAIN vs : Holds(vs[k], o)}
HolderPets(ps, o) == {p \in DOMAIN ps : ps[p].live /\ ps[p].schedule = o}

LEMMA HoldersSplit ==
  ASSUME NEW o
  PROVE  Holders(o) = Cardinality(HolderVars(variables, o))
                      + Cardinality(HolderPets(pets, o)) + One(dummyCapture = o)
BY DEF Holders, HolderVars, HolderPets, Holds, One

Declarations == [class : Classes, ptr : Nat]
Scops == [schedule : Nat, ctx : Nat, live : BOOLEAN]

LEMMA FiniteHolders ==
  ASSUME NEW o, NEW vs \in Seq(Declarations), NEW ps \in Seq(Scops)
  PROVE  /\ IsFiniteSet(HolderVars(vs, o)) /\ Cardinality(HolderVars(vs, o)) \in Nat
         /\ IsFiniteSet(HolderPets(ps, o)) /\ Cardinality(HolderPets(ps, o)) \in Nat
<1>1. IsFiniteSet(DOMAIN vs) /\ IsFiniteSet(DOMAIN ps)
  BY FS_Interval
<1>2. HolderVars(vs, o) \in SUBSET DOMAIN vs /\ HolderPets(ps, o) \in SUBSET DOMAIN ps
  BY DEF HolderVars, HolderPets
<1>. QED  BY <1>1, <1>2, FS_Subset, FS_CardinalityType

\* A variable is declared.
LEMMA DeclareCount ==
  ASSUME NEW o, NEW vs \in Seq(Declarations), NEW var \in Declarations
  PROVE  Cardinality(HolderVars(Append(vs, var), o))
           = Cardinality(HolderVars(vs, o)) + One(Holds(var, o))
<1>. DEFINE S == HolderVars(vs, o)
            T == HolderVars(Append(vs, var), o)
            x == Len(vs) + 1
<1>1. S \ {x} = T \ {x} /\ x \notin S /\ (x \in T <=> Holds(var, o))
  BY DEF HolderVars
<1>2. IsFiniteSet(S) /\ Cardinality(S) \in Nat
  BY FiniteHolders, EmptySeq
<1>. HIDE DEF S, T, x
<1>3. Cardinality(T) = Cardinality(S) - One(x \in S) + One(x \in T)
  BY <1>1, <1>2, CountChange
<1>. QED  BY <1>1, <1>2, <1>3 DEF S, T, One

\* The variable declared last is destroyed.
LEMMA DestroyCount ==
  ASSUME NEW o, NEW vs \in Seq(Declarations), vs # << >>
  PROVE  Cardinality(HolderVars(Front(vs), o))
           = Cardinality(HolderVars(vs, o)) - One(Holds(Last(vs), o))
<1>. DEFINE S == HolderVars(vs, o)
            T == HolderVars(Front(vs), o)
            x == Len(vs)
<1>1. /\ x \in Nat \ {0} /\ DOMAIN vs = 1..x
      /\ DOMAIN Front(vs) = 1..(x - 1) /\ \A k \in 1..(x - 1) : Front(vs)[k] = vs[k]
  BY DEF Front
<1>2. S \ {x} = T \ {x} /\ x \notin T /\ (x \in S <=> Holds(Last(vs), o))
  BY <1>1 DEF HolderVars, Last
<1>3. IsFiniteSet(S) /\ Cardinality(S) \in Nat
  BY FiniteHolders, EmptySeq
<1>. HIDE DEF S, T, x
<1>4. Cardinality(T) = Cardinality(S) - One(x \in S) + One(x \in T)
  BY <1>2, <1>3, CountChange
<1>. QED  BY <1>2, <1>3, <1>4 DEF S, T, One

\* A sequence with another x-th element.
With(s, x, v) == [s EXCEPT ![x] = v]

\* A variable is assigned.
LEMMA AssignCount ==
  ASSUME NEW o, NEW vs \in Seq(Declarations), NEW var \in Declarations,
         NEW x \in DOMAIN vs
  PROVE  Cardinality(HolderVars(With(vs, x, var), o))
           = Cardinality(HolderVars(vs, o)) - One(Holds(vs[x], o)) + One(Holds(var, o))
<1>. DEFINE S == HolderVars(vs, o)
            T == HolderVars(With(vs, x, var), o)
<1>1. /\ S \ {x} = T \ {x}
      /\ x \in S <=> Holds(vs[x], o)
      /\ x \in T <=> Holds(var, o)
  BY DEF HolderVars, With
<1>2. IsFiniteSet(S) /\ Cardinality(S) \in Nat
  BY FiniteHolders, EmptySeq
<1>. HIDE DEF S, T
<1>3. Cardinality(T) = Cardinality(S) - One(x \in S) + One(x \in T)
  BY <1>1, <1>2, CountChange
<1>. QED  BY <1>1, <1>2, <1>3 DEF S, T, One

\* A scop is extracted.
LEMMA ExtractCount ==
  ASSUME NEW o, NEW ps \in Seq(Scops), NEW pet \in Scops
  PROVE  Cardinality(HolderPets(Append(ps, pet), o))
           = Cardinality(HolderPets(ps, o)) + One(pet.live /\ pet.schedule = o)
<1>. DEFINE S == HolderPets(ps, o)
            T == HolderPets(Append(ps, pet), o)
            x == Len(ps) + 1
<1>1. S \ {x} = T \ {x} /\ x \notin S /\ (x \in T <=> pet.live /\ pet.schedule = o)
  BY DEF HolderPets
<1>2. IsFiniteSet(S) /\ Cardinality(S) \in Nat
  BY FiniteHolders, EmptySeq
<1>. HIDE DEF S, T, x
<1>3. Cardinality(T) = Cardinality(S) - One(x \in S) + One(x \in T)
  BY <1>1, <1>2, CountChange
<1>. QED  BY <1>1, <1>2, <1>3 DEF S, T, One

\* A scop gets another schedule, or is freed.
LEMMA UpdateCount ==
  ASSUME NEW o, NEW ps \in Seq(Scops), NEW pet \in Scops, NEW x \in DOMAIN ps
  PROVE  Cardinality(HolderPets(With(ps, x, pet), o))
           = Cardinality(HolderPets(ps, o)) - One(ps[x].live /\ ps[x].schedule = o)
             + One(pet.live /\ pet.schedule = o)
<1>. DEFINE S == HolderPets(ps, o)
            T == HolderPets(With(ps, x, pet), o)
<1>1. /\ S \ {x} = T \ {x}
      /\ x \in S <=> ps[x].live /\ ps[x].schedule = o
      /\ x \in T <=> pet.live /\ pet.schedule = o
  BY DEF HolderPets, With
<1>2. IsFiniteSet(S) /\ Cardinality(S) \in Nat
  BY FiniteHolders, EmptySeq
<1>. HIDE DEF S, T
<1>3. Cardinality(T) = Cardinality(S) - One(x \in S) + One(x \in T)
  BY <1>1, <1>2, CountChange
<1>. QED  BY <1>1, <1>2, <1>3 DEF S, T, One

-----------------------------------------------------------------------------
(* The table of objects, for contexts 1..nc *)

Objects(nc) == [class : IslClasses, ctx : 1..nc, refs : Int]
RefsOf(objs, o) == IF o \in DOMAIN objs THEN objs[o].refs ELSE 0

LEMMA RefsAreIntegers ==
  ASSUME NEW nc, NEW objs \in Seq(Objects(nc))
  PROVE  /\ \A o \in DOMAIN objs : objs[o] \in Objects(nc) /\ objs[o].refs \in Int
         /\ \A o \in Nat : RefsOf(objs, o) \in Int
<1>1. \A o \in DOMAIN objs : objs[o] \in Objects(nc)
  OBVIOUS
<1>2. \A obj \in Objects(nc) : obj.refs \in Int
  BY DEF Objects
<1>. QED  BY <1>1, <1>2 DEF RefsOf

\* An object with another count.
Recounted(objs, p, n) == [objs EXCEPT ![p] = [objs[p] EXCEPT !.refs = n]]

LEMMA RecountedObjects ==
  ASSUME NEW nc, NEW objs \in Seq(Objects(nc)), NEW p \in DOMAIN objs, NEW n \in Int
  PROVE  /\ Recounted(objs, p, n) \in Seq(Objects(nc))
         /\ Len(Recounted(objs, p, n)) = Len(objs)
         /\ RefsOf(Recounted(objs, p, n), p) = n
         /\ \A o \in Nat \ {p} : RefsOf(Recounted(objs, p, n), o) = RefsOf(objs, o)
<1>. DEFINE obj == [objs[p] EXCEPT !.refs = n]
<1>1. obj \in Objects(nc) /\ obj.refs = n
  BY RefsAreIntegers DEF Objects
<1>. HIDE DEF obj
<1>2. Recounted(objs, p, n) = [objs EXCEPT ![p] = obj]
  BY DEF obj, Recounted
<1>. QED  BY <1>1, <1>2 DEF RefsOf

\* isl_*_copy: one reference more to the object, if any.
LEMMA CopiedObjects ==
  ASSUME NEW nc, NEW objs \in Seq(Objects(nc)), NEW p \in 0..Len(objs)
  PROVE  /\ Copied(objs, p) \in Seq(Objects(nc))
         /\ Len(Copied(objs, p)) = Len(objs)
         /\ \A o \in Nat \ {0} : RefsOf(Copied(objs, p), o) = RefsOf(objs, o) + One(p = o)
<1>1. CASE p = 0
  BY <1>1, RefsAreIntegers DEF Copied, One
<1>2. CASE p # 0
  <2>1. p \in DOMAIN objs /\ objs[p].refs \in Int /\ RefsOf(objs, p) = objs[p].refs
    BY <1>2, RefsAreIntegers DEF RefsOf
  <2>2. PICK n \in Int : n = objs[p].refs + 1
    BY <2>1
  <2>3. Copied(objs, p) = Recounted(objs, p, n)
    BY <1>2, <2>2 DEF Copied, Recounted
  <2>. QED  BY <2>1, <2>2, <2>3, RecountedObjects, RefsAreIntegers DEF One
<1>. QED  BY <1>1, <1>2

\* isl_*_free: one reference less.
LEMMA FreedObjects ==
  ASSUME NEW nc, NEW objs \in Seq(Objects(nc)), NEW p \in 0..Len(objs)
  PROVE  /\ Freed(objs, p) \in Seq(Objects(nc))
         /\ Len(Freed(objs, p)) = Len(objs)
         /\ \A o \in Nat \ {0} : RefsOf(Freed(objs, p), o) = RefsOf(objs, o) - One(p = o)
<1>1. CASE p = 0
  BY <1>1, RefsAreIntegers DEF Freed, One
<1>2. CASE p # 0
  <2>1. p \in DOMAIN objs /\ objs[p].refs \in Int /\ RefsOf(objs, p) = objs[p].refs
    BY <1>2, RefsAreIntegers DEF RefsOf
  <2>2. PICK n \in Int : n = objs[p].refs - 1
    BY <2>1
  <2>3. Freed(objs, p) = Recounted(objs, p, n)
    BY <1>2, <2>2 DEF Freed, Recounted
  <2>. QED  BY <2>1, <2>2, <2>3, RecountedObjects, RefsAreIntegers DEF One
<1>. QED  BY <1>1, <1>2

\* A new object has one reference.
LEMMA NewObject ==
  ASSUME NEW nc, NEW objs \in Seq(Objects(nc)), NEW class \in IslClasses, NEW c \in 1..nc
  PROVE  /\ Append(objs, New(class, c)) \in Seq(Objects(nc))
         /\ Len(Append(objs, New(class, c))) = Len(objs) + 1
         /\ \A o \in Nat : RefsOf(Append(objs, New(class, c)), o)
                             = RefsOf(objs, o) + One(o = Len(objs) + 1)
<1>. DEFINE obj == New(class, c)
<1>1. obj \in Objects(nc) /\ obj.refs = 1
  BY DEF New, Objects
<1>. HIDE DEF obj
<1>2. Append(objs, obj) \in Seq(Objects(nc)) /\ Len(Append(objs, obj)) = Len(objs) + 1
  BY <1>1
<1>3. ASSUME NEW o \in Nat
      PROVE  RefsOf(Append(objs, obj), o) = RefsOf(objs, o) + One(o = Len(objs) + 1)
  <2>1. CASE o \in DOMAIN objs
    BY <1>1, <2>1, RefsAreIntegers DEF RefsOf, One
  <2>2. CASE o = Len(objs) + 1
    BY <1>1, <2>2, RefsAreIntegers DEF RefsOf, One
  <2>3. CASE o \notin 1..(Len(objs) + 1)
    BY <1>1, <2>3, RefsAreIntegers DEF RefsOf, One
  <2>. QED  BY <2>1, <2>2, <2>3
<1>. QED  BY <1>2, <1>3 DEF obj

-----------------------------------------------------------------------------
(* Types, for nc contexts, np scops and no objects *)

PtrsOf(class, nc, np, no) ==
  IF class = "ScopedCtx" THEN 1..nc ELSE IF class = "PetScop" THEN 0..np ELSE 0..no

VarsTyped(vs, nc, np, no) ==
  /\ vs \in Seq(Declarations)
  /\ \A k \in DOMAIN vs : vs[k].ptr \in PtrsOf(vs[k].class, nc, np, no)

ScopsOf(no, nc) == [schedule : 0..no, ctx : 1..nc, live : BOOLEAN]

Typed(vs, d, cs, ps, objs) ==
  /\ VarsTyped(vs, Len(cs), Len(ps), Len(objs))
  /\ d \in 0..Len(objs)
  /\ cs \in Seq({"live", "freed", "lost"})
  /\ ps \in Seq(ScopsOf(Len(objs), Len(cs)))
  /\ objs \in Seq(Objects(Len(cs)))

LEMMA TypeOKIsTyped ==
  TypeOK <=> Typed(variables, dummyCapture, ctxs, pets, objects)
<1>1. ASSUME ctxs \in Seq({"live", "freed", "lost"}) PROVE DOMAIN ctxs = 1..Len(ctxs)
  BY <1>1
<1>2. ctxs \in Seq({"live", "freed", "lost"}) =>
        /\ [schedule : 0..Len(objects), ctx : DOMAIN ctxs, live : BOOLEAN]
             = ScopsOf(Len(objects), Len(ctxs))
        /\ [class : IslClasses, ctx : DOMAIN ctxs, refs : Int] = Objects(Len(ctxs))
        /\ \A class : Allocated(class)
             = PtrsOf(class, Len(ctxs), Len(pets), Len(objects))
  BY <1>1 DEF ScopsOf, Objects, Allocated, PtrsOf
<1>. QED  BY <1>2 DEF TypeOK, Typed, VarsTyped, Declarations

\* Allocation makes no pointer invalid.
LEMMA GrowVars ==
  ASSUME NEW nc \in Nat, NEW np \in Nat, NEW no \in Nat, NEW vs, VarsTyped(vs, nc, np, no)
  PROVE  /\ VarsTyped(vs, nc + 1, np, no)
         /\ VarsTyped(vs, nc, np + 1, no)
         /\ VarsTyped(vs, nc, np, no + 1)
<1>1. \A class : /\ PtrsOf(class, nc, np, no) \subseteq PtrsOf(class, nc + 1, np, no)
                 /\ PtrsOf(class, nc, np, no) \subseteq PtrsOf(class, nc, np + 1, no)
                 /\ PtrsOf(class, nc, np, no) \subseteq PtrsOf(class, nc, np, no + 1)
  BY DEF PtrsOf
<1>. QED  BY <1>1 DEF VarsTyped

LEMMA GrowScops ==
  ASSUME NEW nc \in Nat, NEW no \in Nat, NEW nc2 \in Nat, NEW no2 \in Nat,
         nc <= nc2, no <= no2, NEW ps \in Seq(ScopsOf(no, nc))
  PROVE  ps \in Seq(ScopsOf(no2, nc2))
<1>1. ScopsOf(no, nc) \subseteq ScopsOf(no2, nc2)
  BY DEF ScopsOf
<1>. QED  BY <1>1, SeqMonotonic

LEMMA GrowObjects ==
  ASSUME NEW nc \in Nat, NEW nc2 \in Nat, nc <= nc2, NEW objs \in Seq(Objects(nc))
  PROVE  objs \in Seq(Objects(nc2))
<1>1. Objects(nc) \subseteq Objects(nc2)
  BY DEF Objects
<1>. QED  BY <1>1, SeqMonotonic

LEMMA DeclareTyped ==
  ASSUME NEW nc, NEW np, NEW no, NEW vs, VarsTyped(vs, nc, np, no),
         NEW var \in Declarations, var.ptr \in PtrsOf(var.class, nc, np, no)
  PROVE  VarsTyped(Append(vs, var), nc, np, no)
BY DEF VarsTyped

LEMMA DestroyTyped ==
  ASSUME NEW nc, NEW np, NEW no, NEW vs, VarsTyped(vs, nc, np, no), vs # << >>
  PROVE  /\ VarsTyped(Front(vs), nc, np, no)
         /\ Len(vs) \in DOMAIN vs /\ Last(vs) = vs[Len(vs)]
         /\ DOMAIN Front(vs) = 1..(Len(vs) - 1)
         /\ \A k \in DOMAIN Front(vs) : Front(vs)[k] = vs[k]
BY DEF VarsTyped, Front, Last

LEMMA AssignTyped ==
  ASSUME NEW nc, NEW np, NEW no, NEW vs, VarsTyped(vs, nc, np, no), NEW x \in DOMAIN vs,
         NEW var \in Declarations, var.ptr \in PtrsOf(var.class, nc, np, no)
  PROVE  VarsTyped(With(vs, x, var), nc, np, no)
BY DEF VarsTyped, With

\* A variable points to something of the kind of its class.
LEMMA Pointees ==
  ASSUME NEW k \in DOMAIN variables, TypeOK
  PROVE  /\ variables[k] \in Declarations
         /\ variables[k].class = "ScopedCtx" => variables[k].ptr \in DOMAIN ctxs
         /\ variables[k].class = "PetScop" => variables[k].ptr \in 0..Len(pets)
         /\ variables[k].class \in IslClasses => variables[k].ptr \in 0..Len(objects)
         /\ variables[k].class \in IslClasses \cup {"ScopedCtx", "PetScop"}
<1>1. variables \in Seq(Declarations)
  BY DEF TypeOK, Declarations
<1>2. variables[k] \in Declarations
  BY <1>1
<1>. QED  BY <1>2 DEF TypeOK, Allocated, Declarations, Classes, IslClasses

LEMMA TypedNext ==
  Typed(variables', dummyCapture', ctxs', pets', objects') => TypeOK'
<1>1. ASSUME ctxs' \in Seq({"live", "freed", "lost"}) PROVE DOMAIN ctxs' = 1..Len(ctxs')
  BY <1>1
<1>2. ctxs' \in Seq({"live", "freed", "lost"}) =>
        /\ [schedule : 0..Len(objects'), ctx : DOMAIN ctxs', live : BOOLEAN]
             = ScopsOf(Len(objects'), Len(ctxs'))
        /\ [class : IslClasses, ctx : DOMAIN ctxs', refs : Int] = Objects(Len(ctxs'))
        /\ \A class : Allocated(class)'
             = PtrsOf(class, Len(ctxs'), Len(pets'), Len(objects'))
  BY <1>1 DEF ScopsOf, Objects, Allocated, PtrsOf
<1>. QED  BY <1>2 DEF TypeOK, Typed, VarsTyped, Declarations

-----------------------------------------------------------------------------
(* References in flight *)

\* References and holders agree, if the reference to p, which an operation has
\* taken and not yet stored, or not yet freed, is counted as a holder.
Balanced(vs, d, cs, ps, objs, p) ==
  /\ Typed(vs, d, cs, ps, objs)
  /\ p \in 0..Len(objs)
  /\ \A x \in DOMAIN ps : ~ ps[x].live => ps[x].schedule = 0
  /\ \A o \in Nat \ {0} :
       RefsOf(objs, o) = Cardinality(HolderVars(vs, o)) + Cardinality(HolderPets(ps, o))
                         + One(d = o) + One(p = o)

LEMMA BalancedTypes ==
  ASSUME NEW vs, NEW d, NEW cs, NEW ps, NEW objs, NEW p, Balanced(vs, d, cs, ps, objs, p)
  PROVE  /\ vs \in Seq(Declarations) /\ ps \in Seq(Scops)
         /\ objs \in Seq(Objects(Len(cs)))
         /\ Len(cs) \in Nat /\ Len(ps) \in Nat /\ Len(objs) \in Nat
         /\ d \in Nat /\ p \in 0..Len(objs)
<1>1. /\ vs \in Seq(Declarations) /\ objs \in Seq(Objects(Len(cs)))
      /\ ps \in Seq(ScopsOf(Len(objs), Len(cs))) /\ cs \in Seq({"live", "freed", "lost"})
      /\ d \in 0..Len(objs) /\ p \in 0..Len(objs)
  BY DEF Balanced, Typed, VarsTyped
<1>2. Len(cs) \in Nat /\ Len(ps) \in Nat /\ Len(objs) \in Nat
  BY <1>1
<1>3. ScopsOf(Len(objs), Len(cs)) \subseteq Scops
  BY <1>2 DEF ScopsOf, Scops
<1>4. ps \in Seq(Scops)
  BY <1>1, <1>3, SeqMonotonic
<1>. QED  BY <1>1, <1>2, <1>4

\* What is counted for an object, in integers.
Counts(vs, d, ps, objs, p, o) ==
  /\ RefsOf(objs, o) \in Int
  /\ Cardinality(HolderVars(vs, o)) \in Nat
  /\ Cardinality(HolderPets(ps, o)) \in Nat
  /\ RefsOf(objs, o) = Cardinality(HolderVars(vs, o))
       + Cardinality(HolderPets(ps, o)) + One(d = o) + One(p = o)

LEMMA BalancedCounts ==
  ASSUME NEW vs, NEW d, NEW cs, NEW ps, NEW objs, NEW p, Balanced(vs, d, cs, ps, objs, p),
         NEW o \in Nat \ {0}
  PROVE  Counts(vs, d, ps, objs, p, o)
<1>1. vs \in Seq(Declarations) /\ ps \in Seq(Scops) /\ objs \in Seq(Objects(Len(cs)))
  BY BalancedTypes
<1>2. RefsOf(objs, o) \in Int
  BY <1>1, RefsAreIntegers
<1>. QED  BY <1>1, <1>2, FiniteHolders DEF Balanced, Counts

\* A copy is taken.
LEMMA BalancedCopy ==
  ASSUME NEW vs, NEW d, NEW cs, NEW ps, NEW objs, Balanced(vs, d, cs, ps, objs, 0),
         NEW p \in 0..Len(objs)
  PROVE  Balanced(vs, d, cs, ps, Copied(objs, p), p)
<1>. DEFINE objs2 == Copied(objs, p)
<1>0. objs \in Seq(Objects(Len(cs))) /\ Len(objs) \in Nat
  BY BalancedTypes
<1>1. /\ objs2 \in Seq(Objects(Len(cs))) /\ Len(objs2) = Len(objs)
      /\ \A o \in Nat \ {0} : RefsOf(objs2, o) = RefsOf(objs, o) + One(p = o)
  BY <1>0, CopiedObjects
<1>. HIDE DEF objs2
<1>2. Typed(vs, d, cs, ps, objs2)
  BY <1>1 DEF Balanced, Typed
<1>3. ASSUME NEW o \in Nat \ {0}
      PROVE  RefsOf(objs2, o) = Cardinality(HolderVars(vs, o))
               + Cardinality(HolderPets(ps, o)) + One(d = o) + One(p = o)
  <2>1. Counts(vs, d, ps, objs, 0, o)
    BY BalancedCounts
  <2>. QED  BY <1>1, <2>1 DEF Counts, One
<1>. QED  BY <1>1, <1>2, <1>3 DEF Balanced, objs2

\* The reference is freed.
LEMMA BalancedFree ==
  ASSUME NEW vs, NEW d, NEW cs, NEW ps, NEW objs, NEW p, Balanced(vs, d, cs, ps, objs, p)
  PROVE  Balanced(vs, d, cs, ps, Freed(objs, p), 0)
<1>. DEFINE objs2 == Freed(objs, p)
<1>0. objs \in Seq(Objects(Len(cs))) /\ Len(objs) \in Nat /\ p \in 0..Len(objs)
  BY BalancedTypes
<1>1. /\ objs2 \in Seq(Objects(Len(cs))) /\ Len(objs2) = Len(objs)
      /\ \A o \in Nat \ {0} : RefsOf(objs2, o) = RefsOf(objs, o) - One(p = o)
  BY <1>0, FreedObjects
<1>. HIDE DEF objs2
<1>2. Typed(vs, d, cs, ps, objs2)
  BY <1>1 DEF Balanced, Typed
<1>3. ASSUME NEW o \in Nat \ {0}
      PROVE  RefsOf(objs2, o) = Cardinality(HolderVars(vs, o))
               + Cardinality(HolderPets(ps, o)) + One(d = o) + One(0 = o)
  <2>1. Counts(vs, d, ps, objs, p, o)
    BY BalancedCounts
  <2>. QED  BY <1>1, <2>1 DEF Counts, One
<1>. QED  BY <1>0, <1>1, <1>2, <1>3, BalancedTypes DEF Balanced, objs2

\* An object is made.
LEMMA BalancedNew ==
  ASSUME NEW vs, NEW d, NEW cs, NEW ps, NEW objs, Balanced(vs, d, cs, ps, objs, 0),
         NEW class \in IslClasses, NEW c \in 1..Len(cs)
  PROVE  Balanced(vs, d, cs, ps, Append(objs, New(class, c)), Len(objs) + 1)
<1>. DEFINE objs2 == Append(objs, New(class, c))
            no == Len(objs)
            nc == Len(cs)
            np == Len(ps)
<1>0. objs \in Seq(Objects(nc)) /\ c \in 1..nc
  BY BalancedTypes
<1>1. /\ objs2 \in Seq(Objects(nc)) /\ Len(objs2) = no + 1
      /\ \A o \in Nat : RefsOf(objs2, o) = RefsOf(objs, o) + One(o = no + 1)
  BY <1>0, NewObject
<1>2. nc \in Nat /\ np \in Nat /\ no \in Nat /\ no <= no + 1
  BY BalancedTypes
<1>3. VarsTyped(vs, nc, np, no) /\ d \in 0..no /\ cs \in Seq({"live", "freed", "lost"})
      /\ ps \in Seq(ScopsOf(no, nc))
  BY DEF Balanced, Typed
<1>. HIDE DEF objs2, no, nc, np
<1>4. VarsTyped(vs, nc, np, no + 1) /\ ps \in Seq(ScopsOf(no + 1, nc))
  <2>1. nc <= nc /\ np <= np /\ no + 1 \in Nat
    BY <1>2
  <2>2. VarsTyped(vs, nc, np, no + 1)
    BY <1>2, <1>3, <2>1, GrowVars
  <2>3. ps \in Seq(ScopsOf(no + 1, nc))
    BY <1>2, <1>3, <2>1, GrowScops
  <2>. QED  BY <2>2, <2>3
<1>5. Typed(vs, d, cs, ps, objs2)
  BY <1>1, <1>2, <1>3, <1>4 DEF Typed, nc, np
<1>6. ASSUME NEW o \in Nat \ {0}
      PROVE  RefsOf(objs2, o) = Cardinality(HolderVars(vs, o))
               + Cardinality(HolderPets(ps, o)) + One(d = o) + One(no + 1 = o)
  <2>1. Counts(vs, d, ps, objs, 0, o)
    BY BalancedCounts
  <2>. QED  BY <1>1, <2>1 DEF Counts, One
<1>. QED  BY <1>1, <1>2, <1>5, <1>6 DEF Balanced, objs2, no

\* A variable is declared, and stores the reference if it is of an isl class.
LEMMA BalancedDeclare ==
  ASSUME NEW vs, NEW d, NEW cs, NEW ps, NEW objs, NEW p, Balanced(vs, d, cs, ps, objs, p),
         NEW var \in Declarations,
         var.ptr \in PtrsOf(var.class, Len(cs), Len(ps), Len(objs)),
         p = IF var.class \in IslClasses THEN var.ptr ELSE 0
  PROVE  Balanced(Append(vs, var), d, cs, ps, objs, 0)
<1>. DEFINE vs2 == Append(vs, var)
<1>1. VarsTyped(vs2, Len(cs), Len(ps), Len(objs))
  BY DeclareTyped DEF Balanced, Typed
<1>2. \A o : Cardinality(HolderVars(vs2, o))
             = Cardinality(HolderVars(vs, o)) + One(Holds(var, o))
  BY DeclareCount, BalancedTypes
<1>. HIDE DEF vs2
<1>3. Typed(vs2, d, cs, ps, objs)
  BY <1>1 DEF Balanced, Typed
<1>4. ASSUME NEW o \in Nat \ {0}
      PROVE  RefsOf(objs, o) = Cardinality(HolderVars(vs2, o))
               + Cardinality(HolderPets(ps, o)) + One(d = o) + One(0 = o)
  <2>1. Counts(vs, d, ps, objs, p, o)
    BY BalancedCounts
  <2>2. Cardinality(HolderVars(vs2, o))
          = Cardinality(HolderVars(vs, o)) + One(Holds(var, o))
    BY <1>2
  <2>. QED  BY <2>1, <2>2 DEF Counts, One, Holds
<1>. QED  BY <1>3, <1>4, BalancedTypes DEF Balanced, vs2

\* The last variable is destroyed: the reference it holds is to be freed.
LEMMA BalancedDestroy ==
  ASSUME NEW vs, NEW d, NEW cs, NEW ps, NEW objs, Balanced(vs, d, cs, ps, objs, 0),
         vs # << >>,
         NEW p, p = IF Last(vs).class \in IslClasses THEN Last(vs).ptr ELSE 0
  PROVE  Balanced(Front(vs), d, cs, ps, objs, p)
<1>. DEFINE vs2 == Front(vs)
<1>1. /\ VarsTyped(vs, Len(cs), Len(ps), Len(objs))
      /\ VarsTyped(vs2, Len(cs), Len(ps), Len(objs))
      /\ Len(vs) \in DOMAIN vs /\ Last(vs) = vs[Len(vs)]
  BY DestroyTyped DEF Balanced, Typed
<1>2. p \in 0..Len(objs)
  BY <1>1, BalancedTypes DEF VarsTyped, PtrsOf, IslClasses
<1>3. \A o : Cardinality(HolderVars(vs2, o))
             = Cardinality(HolderVars(vs, o)) - One(Holds(Last(vs), o))
  BY DestroyCount, BalancedTypes
<1>. HIDE DEF vs2
<1>4. Typed(vs2, d, cs, ps, objs)
  BY <1>1 DEF Balanced, Typed
<1>5. ASSUME NEW o \in Nat \ {0}
      PROVE  RefsOf(objs, o) = Cardinality(HolderVars(vs2, o))
               + Cardinality(HolderPets(ps, o)) + One(d = o) + One(p = o)
  <2>1. Counts(vs, d, ps, objs, 0, o)
    BY BalancedCounts
  <2>2. Cardinality(HolderVars(vs2, o))
          = Cardinality(HolderVars(vs, o)) - One(Holds(Last(vs), o))
    BY <1>3
  <2>. QED  BY <2>1, <2>2 DEF Counts, One, Holds
<1>. QED  BY <1>2, <1>4, <1>5 DEF Balanced, vs2

\* A variable of an isl class stores the reference, and gives up the one it had.
LEMMA BalancedAssign ==
  ASSUME NEW vs, NEW d, NEW cs, NEW ps, NEW objs, NEW p, Balanced(vs, d, cs, ps, objs, p),
         NEW k \in DOMAIN vs, vs[k].class \in IslClasses,
         NEW var \in Declarations, var.class \in IslClasses, var.ptr = p
  PROVE  Balanced(With(vs, k, var), d, cs, ps, objs, vs[k].ptr)
<1>. DEFINE vs2 == With(vs, k, var)
            q == vs[k].ptr
<1>1. VarsTyped(vs, Len(cs), Len(ps), Len(objs)) /\ p \in 0..Len(objs)
  BY DEF Balanced, Typed
<1>2. /\ q \in 0..Len(objs)
      /\ var.ptr \in PtrsOf(var.class, Len(cs), Len(ps), Len(objs))
  BY <1>1 DEF VarsTyped, PtrsOf, IslClasses
<1>3. VarsTyped(vs2, Len(cs), Len(ps), Len(objs))
  BY <1>1, <1>2, AssignTyped
<1>4. \A o : Cardinality(HolderVars(vs2, o))
             = Cardinality(HolderVars(vs, o)) - One(Holds(vs[k], o)) + One(Holds(var, o))
  BY AssignCount, BalancedTypes
<1>. HIDE DEF vs2
<1>5. Typed(vs2, d, cs, ps, objs)
  BY <1>3 DEF Balanced, Typed
<1>6. ASSUME NEW o \in Nat \ {0}
      PROVE  RefsOf(objs, o) = Cardinality(HolderVars(vs2, o))
               + Cardinality(HolderPets(ps, o)) + One(d = o) + One(q = o)
  <2>1. Counts(vs, d, ps, objs, p, o)
    BY BalancedCounts
  <2>2. Cardinality(HolderVars(vs2, o)) = Cardinality(HolderVars(vs, o))
          - One(Holds(vs[k], o)) + One(Holds(var, o))
    BY <1>4
  <2>. QED  BY <2>1, <2>2 DEF Counts, One, Holds
<1>. QED  BY <1>2, <1>5, <1>6 DEF Balanced, vs2

\* So does the static capture.
LEMMA BalancedCapture ==
  ASSUME NEW vs, NEW d, NEW cs, NEW ps, NEW objs, NEW p, Balanced(vs, d, cs, ps, objs, p)
  PROVE  Balanced(vs, p, cs, ps, objs, d)
<1>1. Typed(vs, p, cs, ps, objs) /\ d \in 0..Len(objs)
  BY DEF Balanced, Typed
<1>2. ASSUME NEW o \in Nat \ {0}
      PROVE  RefsOf(objs, o) = Cardinality(HolderVars(vs, o))
               + Cardinality(HolderPets(ps, o)) + One(p = o) + One(d = o)
  <2>1. Counts(vs, d, ps, objs, p, o)
    BY BalancedCounts
  <2>. QED  BY <2>1 DEF Counts, One
<1>. QED  BY <1>1, <1>2 DEF Balanced

\* A scop is extracted, with the reference as its schedule.
LEMMA BalancedExtract ==
  ASSUME NEW vs, NEW d, NEW cs, NEW ps, NEW objs, NEW p, Balanced(vs, d, cs, ps, objs, p),
         NEW c \in 1..Len(cs)
  PROVE  Balanced(vs, d, cs, Append(ps, [schedule |-> p, ctx |-> c, live |-> TRUE]),
                  objs, 0)
<1>. DEFINE pet == [schedule |-> p, ctx |-> c, live |-> TRUE]
            ps2 == Append(ps, pet)
            no == Len(objs)
            nc == Len(cs)
            np == Len(ps)
<1>0. /\ ps \in Seq(Scops) /\ nc \in Nat /\ np \in Nat /\ no \in Nat /\ p \in 0..no
  BY BalancedTypes
<1>1. VarsTyped(vs, nc, np, no) /\ ps \in Seq(ScopsOf(no, nc))
  BY DEF Balanced, Typed
<1>2. pet \in Scops /\ pet \in ScopsOf(no, nc) /\ pet.live /\ pet.schedule = p
  BY <1>0 DEF Scops, ScopsOf
<1>. HIDE DEF pet
<1>3. Len(ps2) = np + 1 /\ ps2 \in Seq(ScopsOf(no, nc))
  BY <1>1, <1>2
<1>4. \A x \in DOMAIN ps2 : ~ ps2[x].live => ps2[x].schedule = 0
  BY <1>0, <1>2 DEF Balanced
<1>5. \A o : Cardinality(HolderPets(ps2, o)) = Cardinality(HolderPets(ps, o)) + One(p = o)
  BY <1>0, <1>2, ExtractCount DEF One
<1>. HIDE DEF ps2, no, nc, np
<1>6. VarsTyped(vs, nc, np + 1, no)
  BY <1>0, <1>1, GrowVars
<1>. USE DEF no, nc, np
<1>7. Typed(vs, d, cs, ps2, objs)
  BY <1>3, <1>6 DEF Balanced, Typed
<1>8. ASSUME NEW o \in Nat \ {0}
      PROVE  RefsOf(objs, o) = Cardinality(HolderVars(vs, o))
               + Cardinality(HolderPets(ps2, o)) + One(d = o) + One(0 = o)
  <2>1. Counts(vs, d, ps, objs, p, o)
    BY BalancedCounts
  <2>2. Cardinality(HolderPets(ps2, o)) = Cardinality(HolderPets(ps, o)) + One(p = o)
    BY <1>5
  <2>. QED  BY <2>1, <2>2 DEF Counts, One
<1>9. Balanced(vs, d, cs, ps2, objs, 0)
  BY <1>0, <1>4, <1>7, <1>8 DEF Balanced
<1>. QED  BY <1>9 DEF ps2, pet

\* A live scop stores the reference, and gives up its schedule; or is freed.
LEMMA BalancedUpdate ==
  ASSUME NEW vs, NEW d, NEW cs, NEW ps, NEW objs, NEW p, Balanced(vs, d, cs, ps, objs, p),
         NEW x \in DOMAIN ps, NEW live \in BOOLEAN, live \/ p = 0
  PROVE  Balanced(vs, d, cs, With(ps, x, [schedule |-> p, ctx |-> ps[x].ctx, live |-> live]),
                  objs, ps[x].schedule)
<1>. DEFINE pet == [schedule |-> p, ctx |-> ps[x].ctx, live |-> live]
            ps2 == With(ps, x, pet)
            q == ps[x].schedule
            no == Len(objs)
            nc == Len(cs)
<1>0. /\ ps \in Seq(Scops) /\ nc \in Nat /\ no \in Nat /\ p \in 0..no
  BY BalancedTypes
<1>1. VarsTyped(vs, nc, Len(ps), no) /\ ps \in Seq(ScopsOf(no, nc))
  BY DEF Balanced, Typed
<1>2. ps[x] \in ScopsOf(no, nc)
  BY <1>1
<1>3. /\ q \in 0..no /\ pet \in Scops /\ pet \in ScopsOf(no, nc)
      /\ pet.live = live /\ pet.schedule = p
  BY <1>0, <1>2 DEF Scops, ScopsOf
<1>. HIDE DEF pet
<1>4. /\ Len(ps2) = Len(ps) /\ ps2 \in Seq(ScopsOf(no, nc)) /\ DOMAIN ps2 = DOMAIN ps
      /\ \A y \in DOMAIN ps : ps2[y] = IF y = x THEN pet ELSE ps[y]
  BY <1>1, <1>3 DEF With
<1>5. /\ \A y \in DOMAIN ps2 : ~ ps2[y].live => ps2[y].schedule = 0
      /\ ps[x].live \/ q = 0
  BY <1>3, <1>4 DEF Balanced
<1>6. \A o : Cardinality(HolderPets(ps2, o)) = Cardinality(HolderPets(ps, o))
             - One(ps[x].live /\ ps[x].schedule = o) + One(pet.live /\ pet.schedule = o)
  BY <1>0, <1>3, UpdateCount
<1>. HIDE DEF ps2
<1>7. Typed(vs, d, cs, ps2, objs)
  BY <1>4 DEF Balanced, Typed
<1>8. ASSUME NEW o \in Nat \ {0}
      PROVE  RefsOf(objs, o) = Cardinality(HolderVars(vs, o))
               + Cardinality(HolderPets(ps2, o)) + One(d = o) + One(q = o)
  <2>1. Counts(vs, d, ps, objs, p, o)
    BY BalancedCounts
  <2>2. Cardinality(HolderPets(ps2, o)) = Cardinality(HolderPets(ps, o))
          - One(ps[x].live /\ ps[x].schedule = o) + One(pet.live /\ pet.schedule = o)
    BY <1>6
  <2>3. One(ps[x].live /\ ps[x].schedule = o) = One(q = o)
    BY <1>5 DEF One
  <2>4. One(pet.live /\ pet.schedule = o) = One(p = o)
    BY <1>3 DEF One
  <2>. HIDE DEF q
  <2>. QED  BY <2>1, <2>2, <2>3, <2>4 DEF Counts, One
<1>9. Balanced(vs, d, cs, ps2, objs, q)
  BY <1>3, <1>5, <1>7, <1>8 DEF Balanced
<1>. QED  BY <1>9 DEF ps2, pet

\* A context is allocated; a context is freed or lost.
LEMMA BalancedCtxs ==
  ASSUME NEW vs, NEW d, NEW cs, NEW ps, NEW objs, NEW p, Balanced(vs, d, cs, ps, objs, p)
  PROVE  /\ Balanced(vs, d, Append(cs, "live"), ps, objs, p)
         /\ \A c \in DOMAIN cs, s \in {"freed", "lost"} :
              Balanced(vs, d, With(cs, c, s), ps, objs, p)
<1>. DEFINE no == Len(objs)
            nc == Len(cs)
            np == Len(ps)
<1>0. /\ nc \in Nat /\ np \in Nat /\ no \in Nat
  BY BalancedTypes
<1>1. VarsTyped(vs, nc, np, no) /\ ps \in Seq(ScopsOf(no, nc)) /\ objs \in Seq(Objects(nc))
  BY DEF Balanced, Typed
<1>2. cs \in Seq({"live", "freed", "lost"})
  BY DEF Balanced, Typed
<1>3. /\ Append(cs, "live") \in Seq({"live", "freed", "lost"})
      /\ Len(Append(cs, "live")) = nc + 1
  BY <1>2
<1>4. ASSUME NEW c \in DOMAIN cs, NEW s \in {"freed", "lost"}
      PROVE  /\ With(cs, c, s) \in Seq({"live", "freed", "lost"})
             /\ Len(With(cs, c, s)) = nc
  BY <1>2 DEF With
<1>. HIDE DEF no, nc, np
<1>5. VarsTyped(vs, nc + 1, np, no)
  BY <1>0, <1>1, GrowVars
<1>6. ps \in Seq(ScopsOf(no, nc + 1)) /\ objs \in Seq(Objects(nc + 1))
  <2>1. nc + 1 \in Nat /\ nc <= nc + 1 /\ no <= no
    BY <1>0
  <2>. QED  BY <1>0, <1>1, <2>1, GrowScops, GrowObjects
<1>7. Typed(vs, d, Append(cs, "live"), ps, objs)
  BY <1>3, <1>5, <1>6 DEF Balanced, Typed, no, np
<1>8. ASSUME NEW c \in DOMAIN cs, NEW s \in {"freed", "lost"}
      PROVE  Typed(vs, d, With(cs, c, s), ps, objs)
  BY <1>4 DEF Balanced, Typed, nc
<1>. QED  BY <1>7, <1>8 DEF Balanced

-----------------------------------------------------------------------------
(* Every step keeps the balance *)

BalancedState == Balanced(variables, dummyCapture, ctxs, pets, objects, 0)

LEMMA Variable ==
  ASSUME BalancedState, NEW k \in DOMAIN variables
  PROVE  /\ variables[k] \in Declarations
         /\ variables[k].ptr \in PtrsOf(variables[k].class, Len(ctxs), Len(pets), Len(objects))
         /\ variables[k].class = "ScopedCtx" => variables[k].ptr \in DOMAIN ctxs
         /\ variables[k].class = "PetScop" => variables[k].ptr \in 0..Len(pets)
         /\ variables[k].class \in IslClasses => variables[k].ptr \in 0..Len(objects)
<1>1. /\ VarsTyped(variables, Len(ctxs), Len(pets), Len(objects))
      /\ ctxs \in Seq({"live", "freed", "lost"})
  BY DEF BalancedState, Balanced, Typed
<1>2. variables \in Seq(Declarations)
  BY <1>1 DEF VarsTyped
<1>3. variables[k] \in Declarations
  BY <1>2
<1>. QED  BY <1>1, <1>3 DEF VarsTyped, PtrsOf, IslClasses

LEMMA LastVariable ==
  ASSUME BalancedState, variables # << >>
  PROVE  Len(variables) \in DOMAIN variables /\ Last(variables) = variables[Len(variables)]
<1>1. variables \in Seq(Declarations)
  BY DEF BalancedState, Balanced, Typed, VarsTyped
<1>. QED  BY <1>1 DEF Last

LEMMA AllocCtxStep ==
  ASSUME BalancedState, AllocCtx  PROVE  BalancedState'
<1>. DEFINE var == Declared("ScopedCtx", Len(ctxs) + 1)
            cs2 == Append(ctxs, "live")
<1>1. /\ ctxs' = cs2 /\ variables' = Append(variables, var)
      /\ dummyCapture' = dummyCapture /\ pets' = pets /\ objects' = objects
  BY DEF AllocCtx
<1>2. Balanced(variables, dummyCapture, cs2, pets, objects, 0)
  BY BalancedCtxs DEF BalancedState
<1>3. ctxs \in Seq({"live", "freed", "lost"}) /\ Len(ctxs) \in Nat
  BY DEF BalancedState, Balanced, Typed
<1>4. Len(cs2) = Len(ctxs) + 1
  BY <1>3
<1>5. /\ var \in Declarations /\ var.ptr \in PtrsOf(var.class, Len(cs2), Len(pets), Len(objects))
      /\ var.class \notin IslClasses
  BY <1>3, <1>4 DEF Declared, Declarations, Classes, PtrsOf, IslClasses
<1>. HIDE DEF var, cs2
<1>6. Balanced(Append(variables, var), dummyCapture, cs2, pets, objects, 0)
  BY <1>2, <1>5, BalancedDeclare
<1>. QED  BY <1>1, <1>6 DEF BalancedState

LEMMA FreeCtxStep ==
  ASSUME BalancedState, variables # << >>, Last(variables).class = "ScopedCtx",
         FreeCtx(Last(variables).ptr)
  PROVE  BalancedState'
<1>. DEFINE c == Last(variables).ptr
<1>1. CASE ctxs[c] = "freed"
  BY <1>1 DEF FreeCtx, GoWrong, BalancedState
<1>2. CASE ctxs[c] # "freed"
  <2>1. PICK s \in {"freed", "lost"} :
          /\ ctxs' = With(ctxs, c, s) /\ variables' = Front(variables)
          /\ dummyCapture' = dummyCapture /\ pets' = pets /\ objects' = objects
    BY <1>2 DEF FreeCtx, With
  <2>2. Len(variables) \in DOMAIN variables /\ Last(variables) = variables[Len(variables)]
    BY LastVariable
  <2>3. c \in DOMAIN ctxs
    BY <2>2, Variable
  <2>4. Balanced(Front(variables), dummyCapture, ctxs, pets, objects, 0)
    BY BalancedDestroy DEF BalancedState, IslClasses
  <2>. HIDE DEF c
  <2>5. Balanced(Front(variables), dummyCapture, With(ctxs, c, s), pets, objects, 0)
    BY <2>3, <2>4, BalancedCtxs
  <2>. QED  BY <2>1, <2>5 DEF BalancedState
<1>. QED  BY <1>1, <1>2

LEMMA FreePetScopStep ==
  ASSUME BalancedState, variables # << >>, Last(variables).class = "PetScop",
         FreePetScop(Last(variables).ptr)
  PROVE  BalancedState'
<1>. DEFINE p == Last(variables).ptr
            pet == [schedule |-> 0, ctx |-> pets[p].ctx, live |-> FALSE]
<1>1. CASE Dangling(p)
  BY <1>1 DEF FreePetScop, GoWrong, BalancedState
<1>2. CASE ~ Dangling(p)
  <2>1. /\ objects' = IF p = 0 THEN objects ELSE Freed(objects, pets[p].schedule)
        /\ pets' = IF p = 0 THEN pets
                  ELSE [pets EXCEPT ![p] = [schedule |-> 0, ctx |-> @.ctx, live |-> FALSE]]
        /\ variables' = Front(variables)
        /\ dummyCapture' = dummyCapture /\ ctxs' = ctxs
    BY <1>2 DEF FreePetScop
  <2>2. Len(variables) \in DOMAIN variables /\ Last(variables) = variables[Len(variables)]
    BY LastVariable
  <2>3. p \in 0..Len(pets)
    BY <2>2, Variable
  <2>4. Balanced(Front(variables), dummyCapture, ctxs, pets, objects, 0)
    BY BalancedDestroy DEF BalancedState, IslClasses
  <2>5. CASE p = 0
    BY <2>1, <2>4, <2>5 DEF BalancedState
  <2>6. CASE p # 0
    <3>1. pets \in Seq(ScopsOf(Len(objects), Len(ctxs)))
      BY DEF BalancedState, Balanced, Typed
    <3>2. p \in DOMAIN pets
      BY <2>3, <2>6, <3>1
    <3>3. pets' = With(pets, p, pet) /\ objects' = Freed(objects, pets[p].schedule)
      BY <2>1, <2>6 DEF With
    <3>4. Balanced(Front(variables), dummyCapture, ctxs, With(pets, p, pet), objects,
                   pets[p].schedule)
      BY <2>4, <3>2, BalancedUpdate
    <3>. HIDE DEF pet, p
    <3>5. Balanced(Front(variables), dummyCapture, ctxs, With(pets, p, pet),
                   Freed(objects, pets[p].schedule), 0)
      BY <3>4, BalancedFree
    <3>. QED  BY <2>1, <3>3, <3>5 DEF BalancedState
  <2>. QED  BY <2>5, <2>6
<1>. QED  BY <1>1, <1>2

LEMMA FreeObjectStep ==
  ASSUME BalancedState, variables # << >>, Last(variables).class \in IslClasses,
         FreeObject(Last(variables).ptr)
  PROVE  BalancedState'
<1>1. Balanced(Front(variables), dummyCapture, ctxs, pets, objects, Last(variables).ptr)
  BY BalancedDestroy DEF BalancedState
<1>2. Balanced(Front(variables), dummyCapture, ctxs, pets,
               Freed(objects, Last(variables).ptr), 0)
  BY <1>1, BalancedFree
<1>. QED  BY <1>2 DEF FreeObject, BalancedState

\* A variable that is declared with a reference to an object.
LEMMA DeclareIsl ==
  ASSUME NEW vs, NEW d, NEW cs, NEW ps, NEW objs, NEW p, Balanced(vs, d, cs, ps, objs, p),
         NEW class \in IslClasses
  PROVE  Balanced(Append(vs, Declared(class, p)), d, cs, ps, objs, 0)
<1>. DEFINE var == Declared(class, p)
<1>1. p \in 0..Len(objs) /\ Len(objs) \in Nat
  BY BalancedTypes
<1>2. var \in Declarations /\ var.class = class /\ var.ptr = p
  BY <1>1 DEF Declared, Declarations, Classes
<1>3. var.ptr \in PtrsOf(var.class, Len(cs), Len(ps), Len(objs))
  BY <1>1, <1>2 DEF PtrsOf, IslClasses
<1>. HIDE DEF var
<1>4. Balanced(Append(vs, var), d, cs, ps, objs, 0)
  BY <1>2, <1>3, BalancedDeclare
<1>. QED  BY <1>4 DEF var

LEMMA ParseFileStep ==
  ASSUME BalancedState, NEW k \in DOMAIN variables, ParseFile(k)
  PROVE  BalancedState'
<1>. DEFINE c == variables[k].ptr
            pet == [schedule |-> Len(objects) + 1, ctx |-> c, live |-> TRUE]
            var == Declared("PetScop", Len(pets) + 1)
            null == Declared("PetScop", 0)
            ps2 == Append(pets, pet)
            objs2 == Append(objects, New("schedule", c))
<1>1. CASE GoWrong("context used after free")
  BY <1>1 DEF GoWrong, BalancedState
<1>2. CASE /\ objects' = objs2 /\ pets' = ps2 /\ variables' = Append(variables, var)
           /\ dummyCapture' = dummyCapture /\ ctxs' = ctxs
  <2>1. c \in 1..Len(ctxs) /\ "schedule" \in IslClasses
    BY Variable DEF ParseFile, PtrsOf, IslClasses
  <2>2. Balanced(variables, dummyCapture, ctxs, pets, objs2, Len(objects) + 1)
    BY <2>1, BalancedNew DEF BalancedState
  <2>. HIDE DEF objs2
  <2>3. Balanced(variables, dummyCapture, ctxs, ps2, objs2, 0)
    BY <2>1, <2>2, BalancedExtract
  <2>4. pets \in Seq(Scops) /\ Len(pets) \in Nat
    BY BalancedTypes DEF BalancedState
  <2>5. Len(ps2) = Len(pets) + 1
    BY <2>4
  <2>. HIDE DEF ps2
  <2>6. /\ var \in Declarations /\ var.class \notin IslClasses
        /\ var.ptr \in PtrsOf(var.class, Len(ctxs), Len(ps2), Len(objs2))
    BY <2>4, <2>5 DEF Declared, Declarations, Classes, PtrsOf, IslClasses
  <2>. HIDE DEF var
  <2>7. Balanced(Append(variables, var), dummyCapture, ctxs, ps2, objs2, 0)
    BY <2>3, <2>6, BalancedDeclare
  <2>. QED  BY <1>2, <2>7 DEF BalancedState
<1>3. CASE /\ variables' = Append(variables, null)
           /\ UNCHANGED <<dummyCapture, ctxs, pets, objects>>
  <2>1. Len(pets) \in Nat
    BY BalancedTypes DEF BalancedState
  <2>2. /\ null \in Declarations /\ null.class \notin IslClasses
        /\ null.ptr \in PtrsOf(null.class, Len(ctxs), Len(pets), Len(objects))
    BY <2>1 DEF Declared, Declarations, Classes, PtrsOf, IslClasses
  <2>. HIDE DEF null
  <2>3. Balanced(Append(variables, null), dummyCapture, ctxs, pets, objects, 0)
    BY <2>2, BalancedDeclare DEF BalancedState
  <2>. QED  BY <1>3, <2>3 DEF BalancedState
<1>. QED  BY <1>1, <1>2, <1>3 DEF ParseFile

\* The schedule and the context of a scop.
LEMMA Scop ==
  ASSUME BalancedState, NEW x \in DOMAIN pets
  PROVE  /\ pets[x] \in ScopsOf(Len(objects), Len(ctxs))
         /\ pets[x].schedule \in 0..Len(objects) /\ pets[x].ctx \in 1..Len(ctxs)
         /\ pets[x].live \in BOOLEAN
<1>1. pets \in Seq(ScopsOf(Len(objects), Len(ctxs)))
  BY DEF BalancedState, Balanced, Typed
<1>2. pets[x] \in ScopsOf(Len(objects), Len(ctxs))
  BY <1>1
<1>. QED  BY <1>2 DEF ScopsOf

LEMMA ScopOf ==
  ASSUME BalancedState, NEW k \in DOMAIN variables, variables[k].class = "PetScop",
         variables[k].ptr # 0
  PROVE  variables[k].ptr \in DOMAIN pets
<1>1. pets \in Seq(Scops)
  BY BalancedTypes DEF BalancedState
<1>. QED  BY <1>1, Variable

LEMMA GetScopStep ==
  ASSUME BalancedState, NEW k \in DOMAIN variables, GetScop(k)
  PROVE  BalancedState'
<1>. DEFINE x == variables[k].ptr
            s == pets[x].schedule
            a == Declared("schedule", s)
            b == Declared("union", Len(objects) + 1)
            objs2 == Copied(objects, s)
            objs3 == Append(objs2, New("union", pets[x].ctx))
<1>1. CASE Dangling(x) \/ x = 0 \/ s = 0
  BY <1>1 DEF GetScop, Throw, GoWrong, BalancedState
<1>2. CASE ~ (Dangling(x) \/ x = 0 \/ s = 0)
  <2>1. /\ objects' = objs3 /\ variables' = variables \o <<a, b>>
        /\ dummyCapture' = dummyCapture /\ ctxs' = ctxs /\ pets' = pets
    BY <1>2 DEF GetScop
  <2>2. /\ s \in 0..Len(objects) /\ pets[x].ctx \in 1..Len(ctxs)
        /\ "schedule" \in IslClasses /\ "union" \in IslClasses
    BY <1>2, ScopOf, Scop DEF GetScop, IslClasses
  <2>3. Balanced(variables, dummyCapture, ctxs, pets, objs2, s)
    BY <2>2, BalancedCopy DEF BalancedState
  <2>4. Len(objs2) = Len(objects)
    BY <2>2, BalancedTypes, CopiedObjects DEF BalancedState
  <2>. HIDE DEF objs2, s
  <2>5. Balanced(Append(variables, a), dummyCapture, ctxs, pets, objs2, 0)
    BY <2>2, <2>3, DeclareIsl
  <2>. HIDE DEF a
  <2>6. Balanced(Append(variables, a), dummyCapture, ctxs, pets, objs3, Len(objects) + 1)
    BY <2>2, <2>4, <2>5, BalancedNew
  <2>. HIDE DEF objs3
  <2>7. Balanced(Append(Append(variables, a), b), dummyCapture, ctxs, pets, objs3, 0)
    BY <2>2, <2>6, DeclareIsl
  <2>8. variables \o <<a, b>> = Append(Append(variables, a), b)
    <3>1. variables \in Seq(Declarations)
      BY BalancedTypes DEF BalancedState
    <3>. HIDE DEF b
    <3>. QED  BY <3>1
  <2>. QED  BY <2>1, <2>7, <2>8 DEF BalancedState
<1>. QED  BY <1>1, <1>2

LEMMA ScheduleStep ==
  ASSUME BalancedState, NEW k \in DOMAIN variables, Schedule(k)
  PROVE  BalancedState'
<1>. DEFINE x == variables[k].ptr
            s == pets[x].schedule
<1>1. CASE Dangling(x) \/ x = 0 \/ s = 0
  BY <1>1 DEF Schedule, Throw, GoWrong, BalancedState
<1>2. CASE ~ (Dangling(x) \/ x = 0 \/ s = 0)
  <2>1. /\ objects' = Copied(objects, s)
        /\ variables' = Append(variables, Declared("schedule", s))
        /\ dummyCapture' = dummyCapture /\ ctxs' = ctxs /\ pets' = pets
    BY <1>2 DEF Schedule
  <2>2. s \in 0..Len(objects) /\ "schedule" \in IslClasses
    BY <1>2, ScopOf, Scop DEF Schedule, IslClasses
  <2>3. Balanced(variables, dummyCapture, ctxs, pets, Copied(objects, s), s)
    BY <2>2, BalancedCopy DEF BalancedState
  <2>4. Balanced(Append(variables, Declared("schedule", s)), dummyCapture, ctxs, pets,
                 Copied(objects, s), 0)
    BY <2>2, <2>3, DeclareIsl
  <2>. QED  BY <2>1, <2>4 DEF BalancedState
<1>. QED  BY <1>1, <1>2

\* The wrapper frees first and copies then; in between the scop has no schedule.
LEMMA AssignScheduleStep ==
  ASSUME BalancedState, NEW k \in DOMAIN variables, NEW j \in DOMAIN variables,
         AssignSchedule(k, j)
  PROVE  BalancedState'
<1>. DEFINE x == variables[k].ptr
            s == pets[x].schedule
            n == variables[j].ptr
            objs1 == Freed(objects, s)
            objs2 == Copied(objs1, n)
            Pet(p) == [schedule |-> p, ctx |-> pets[x].ctx, live |-> pets[x].live]
<1>1. CASE Dangling(x) \/ x = 0
  BY <1>1 DEF AssignSchedule, GoWrong, BalancedState
<1>2. CASE ~ Dangling(x) /\ x # 0 /\ s = 0
  BY <1>2 DEF AssignSchedule, Throw, GoWrong, BalancedState
<1>3. CASE ~ Dangling(x) /\ x # 0 /\ s # 0
  <2>1. /\ objects' = objs2 /\ pets' = [pets EXCEPT ![x].schedule = n]
        /\ variables' = variables /\ dummyCapture' = dummyCapture /\ ctxs' = ctxs
    BY <1>3 DEF AssignSchedule
  <2>2. x \in DOMAIN pets
    BY <1>3, ScopOf DEF AssignSchedule
  <2>3. /\ s \in 0..Len(objects) /\ n \in 0..Len(objects) /\ pets[x].live \in BOOLEAN
    BY <2>2, Scop, Variable DEF AssignSchedule, IslClasses
  <2>4. pets[x].live
    BY <1>3, <2>2 DEF BalancedState, Balanced
  <2>5. PICK pet \in ScopsOf(Len(objects), Len(ctxs)) : pet = pets[x]
    BY <2>2, Scop
  <2>6. [pet EXCEPT !.schedule = n] = [schedule |-> n, ctx |-> pet.ctx, live |-> pet.live]
    BY DEF ScopsOf
  <2>7. pets' = With(pets, x, Pet(n))
    BY <2>1, <2>5, <2>6 DEF With
  <2>8. Balanced(variables, dummyCapture, ctxs, With(pets, x, Pet(0)), objects, s)
    BY <2>2, <2>3, BalancedUpdate DEF BalancedState
  <2>9. Balanced(variables, dummyCapture, ctxs, With(pets, x, Pet(0)), objs1, 0)
    <3>. HIDE DEF s, Pet
    <3>. QED  BY <2>8, BalancedFree
  <2>10. Len(objs1) = Len(objects)
    BY <2>3, BalancedTypes, FreedObjects DEF BalancedState
  <2>11. Balanced(variables, dummyCapture, ctxs, With(pets, x, Pet(0)), objs2, n)
    <3>. HIDE DEF objs1, n, Pet
    <3>. QED  BY <2>3, <2>9, <2>10, BalancedCopy
  <2>12. Balanced(variables, dummyCapture, ctxs, With(pets, x, Pet(n)), objs2, 0)
    <3>. DEFINE ps0 == With(pets, x, Pet(0))
    <3>1. /\ x \in DOMAIN ps0 /\ ps0[x].ctx = pets[x].ctx /\ ps0[x].schedule = 0
          /\ \A v : With(ps0, x, v) = With(pets, x, v)
      <4>1. pets \in Seq(Scops)
        BY BalancedTypes DEF BalancedState
      <4>. QED  BY <2>2, <4>1 DEF With
    <3>. HIDE DEF ps0, objs2
    <3>2. Balanced(variables, dummyCapture, ctxs, ps0, objs2, n)
      BY <2>11 DEF ps0
    <3>3. Balanced(variables, dummyCapture, ctxs,
            With(ps0, x, [schedule |-> n, ctx |-> ps0[x].ctx, live |-> pets[x].live]),
            objs2, ps0[x].schedule)
      BY <2>3, <2>4, <3>1, <3>2, BalancedUpdate
    <3>. QED  BY <3>1, <3>3
  <2>. QED  BY <2>1, <2>7, <2>12 DEF BalancedState
<1>. QED  BY <1>1, <1>2, <1>3

LEMMA DeclareStep ==
  ASSUME BalancedState, NEW class \in IslClasses, Declare(class)
  PROVE  BalancedState'
<1>1. Balanced(Append(variables, Declared(class, 0)), dummyCapture, ctxs, pets, objects, 0)
  BY DeclareIsl DEF BalancedState
<1>. QED  BY <1>1 DEF Declare, BalancedState

LEMMA ConstructStep ==
  ASSUME BalancedState, NEW k \in DOMAIN variables, Construct(k)
  PROVE  BalancedState'
<1>. DEFINE var == variables[k]
            p == var.ptr
<1>1. /\ var \in Declarations /\ var.ptr \in PtrsOf(var.class, Len(ctxs), Len(pets), Len(objects))
      /\ var.class \in IslClasses => p \in 0..Len(objects)
  BY Variable
<1>2. CASE var.class \in Moved
  <2>1. var.class \notin IslClasses
    BY <1>2, OwnershipAssumption DEF OwnershipAssumption, IslClasses
  <2>2. Balanced(Append(variables, var), dummyCapture, ctxs, pets, objects, 0)
    BY <1>1, <2>1, BalancedDeclare DEF BalancedState
  <2>. QED  BY <1>2, <2>2 DEF Construct, BalancedState
<1>3. CASE var.class \notin Moved
  <2>1. var.class \in IslClasses
    BY <1>3 DEF Construct
  <2>2. Balanced(variables, dummyCapture, ctxs, pets, Copied(objects, p), p)
    BY <1>1, <2>1, BalancedCopy DEF BalancedState
  <2>3. Len(Copied(objects, p)) = Len(objects)
    BY <1>1, <2>1, BalancedTypes, CopiedObjects DEF BalancedState
  <2>4. Balanced(Append(variables, var), dummyCapture, ctxs, pets, Copied(objects, p), 0)
    BY <1>1, <2>1, <2>2, <2>3, BalancedDeclare
  <2>. QED  BY <1>3, <2>4 DEF Construct, BalancedState
<1>. QED  BY <1>2, <1>3

LEMMA AssignStep ==
  ASSUME BalancedState, NEW k \in DOMAIN variables, NEW from \in DOMAIN variables,
         Assign(k, from)
  PROVE  BalancedState'
<1>. DEFINE var == variables[from]
            p == var.ptr
            q == variables[k].ptr
            objs2 == Copied(objects, p)
<1>1. /\ objects' = Freed(objs2, q) /\ variables' = With(variables, k, var)
      /\ dummyCapture' = dummyCapture /\ ctxs' = ctxs /\ pets' = pets
  BY DEF Assign, With
<1>2. /\ var \in Declarations /\ p \in 0..Len(objects)
      /\ var.class \in IslClasses /\ variables[k].class \in IslClasses
  BY Variable DEF Assign
<1>3. Balanced(variables, dummyCapture, ctxs, pets, objs2, p)
  BY <1>2, BalancedCopy DEF BalancedState
<1>. HIDE DEF objs2
<1>4. Balanced(With(variables, k, var), dummyCapture, ctxs, pets, objs2, q)
  BY <1>2, <1>3, BalancedAssign
<1>. HIDE DEF q
<1>5. Balanced(With(variables, k, var), dummyCapture, ctxs, pets, Freed(objs2, q), 0)
  BY <1>4, BalancedFree
<1>. QED  BY <1>1, <1>5 DEF BalancedState

\* The context of an object.
LEMMA Object ==
  ASSUME BalancedState, NEW o \in 0..Len(objects), o # 0
  PROVE  objects[o].ctx \in 1..Len(ctxs)
<1>1. objects \in Seq(Objects(Len(ctxs)))
  BY BalancedTypes DEF BalancedState
<1>2. objects[o] \in Objects(Len(ctxs))
  BY <1>1
<1>. QED  BY <1>2 DEF Objects

LEMMA DomainOfStep ==
  ASSUME BalancedState, NEW k \in DOMAIN variables, DomainOf(k)
  PROVE  BalancedState'
<1>. DEFINE p == variables[k].ptr
            objs2 == Append(objects, New("union", objects[p].ctx))
<1>0. p \in 0..Len(objects) /\ "union" \in IslClasses
  BY Variable DEF DomainOf, IslClasses
<1>1. CASE p = 0
  <2>1. Balanced(Append(variables, Declared("union", 0)), dummyCapture, ctxs, pets, objects, 0)
    BY <1>0, DeclareIsl DEF BalancedState
  <2>. QED  BY <1>1, <2>1 DEF DomainOf, BalancedState
<1>2. CASE p # 0
  <2>1. objects[p].ctx \in 1..Len(ctxs)
    BY <1>0, <1>2, Object
  <2>2. Balanced(variables, dummyCapture, ctxs, pets, objs2, Len(objects) + 1)
    BY <1>0, <2>1, BalancedNew DEF BalancedState
  <2>3. Balanced(Append(variables, Declared("union", Len(objects) + 1)), dummyCapture,
                 ctxs, pets, objs2, 0)
    BY <1>0, <2>2, DeclareIsl
  <2>. QED  BY <1>2, <2>3 DEF DomainOf, BalancedState
<1>. QED  BY <1>1, <1>2

LEMMA GetRootStep ==
  ASSUME BalancedState, NEW k \in DOMAIN variables, GetRoot(k)
  PROVE  BalancedState'
<1>. DEFINE p == variables[k].ptr
            objs2 == Append(objects, New("node", objects[p].ctx))
<1>1. p \in 0..Len(objects) /\ p # 0 /\ "node" \in IslClasses
  BY Variable DEF GetRoot, IslClasses
<1>2. objects[p].ctx \in 1..Len(ctxs)
  BY <1>1, Object
<1>3. Balanced(variables, dummyCapture, ctxs, pets, objs2, Len(objects) + 1)
  BY <1>1, <1>2, BalancedNew DEF BalancedState
<1>4. Balanced(Append(variables, Declared("node", Len(objects) + 1)), dummyCapture,
               ctxs, pets, objs2, 0)
  BY <1>1, <1>3, DeclareIsl
<1>. QED  BY <1>4 DEF GetRoot, BalancedState

LEMMA MatchUncapturedStep ==
  ASSUME BalancedState, NEW k \in DOMAIN variables, MatchUncaptured(k)
  PROVE  BalancedState'
<1>. DEFINE p == variables[k].ptr
            objs2 == Copied(objects, p)
<1>1. p \in 0..Len(objects)
  BY Variable DEF MatchUncaptured, IslClasses
<1>2. Balanced(variables, dummyCapture, ctxs, pets, objs2, p)
  BY <1>1, BalancedCopy DEF BalancedState
<1>3. Balanced(variables, p, ctxs, pets, objs2, dummyCapture)
  BY <1>2, BalancedCapture
<1>4. Balanced(variables, p, ctxs, pets, Freed(objs2, dummyCapture), 0)
  BY <1>3, BalancedFree
<1>. QED  BY <1>4 DEF MatchUncaptured, BalancedState

LEMMA ExitStep ==
  ASSUME BalancedState, Exit
  PROVE  BalancedState'
<1>1. Balanced(variables, 0, ctxs, pets, objects, dummyCapture)
  BY BalancedCapture DEF BalancedState
<1>2. Balanced(variables, 0, ctxs, pets, Freed(objects, dummyCapture), 0)
  BY <1>1, BalancedFree
<1>. QED  BY <1>2 DEF Exit, BalancedState

LEMMA BalancedStep ==
  ASSUME BalancedState, [Next]_vars
  PROVE  BalancedState'
<1>1. CASE AllocCtx
  BY <1>1, AllocCtxStep
<1>2. CASE DestroyLast
  BY <1>2, FreeCtxStep, FreePetScopStep, FreeObjectStep DEF DestroyLast
<1>3. CASE Catch
  BY <1>3 DEF Catch, BalancedState
<1>4. CASE Exit
  BY <1>4, ExitStep
<1>5. CASE \E class \in IslClasses : Declare(class)
  BY <1>5, DeclareStep
<1>6. ASSUME NEW k \in DOMAIN variables,
             \/ ParseFile(k) \/ GetScop(k) \/ Schedule(k)
             \/ Construct(k) \/ DomainOf(k) \/ GetRoot(k) \/ MatchUncaptured(k)
      PROVE  BalancedState'
  BY <1>6, ParseFileStep, GetScopStep, ScheduleStep, ConstructStep, DomainOfStep,
     GetRootStep, MatchUncapturedStep
<1>7. ASSUME NEW k \in DOMAIN variables, NEW j \in DOMAIN variables,
             AssignSchedule(k, j) \/ Assign(k, j)
      PROVE  BalancedState'
  BY <1>7, AssignScheduleStep, AssignStep
<1>8. CASE UNCHANGED vars
  BY <1>8 DEF vars, BalancedState
<1>. QED  BY <1>1, <1>2, <1>3, <1>4, <1>5, <1>6, <1>7, <1>8 DEF Next

-----------------------------------------------------------------------------
(* Who owns contexts and scops, in programs that move neither *)

LiveScops(vs, ps) ==
  \A k \in DOMAIN vs : vs[k].class = "PetScop" /\ vs[k].ptr # 0 => ps[vs[k].ptr].live
LiveCtxs(vs, cs) ==
  \A k \in DOMAIN vs : vs[k].class = "ScopedCtx" => cs[vs[k].ptr] = "live"
UniqueOwners(vs) ==
  \A j, k \in DOMAIN vs :
    /\ vs[j].class \notin IslClasses /\ vs[j].ptr # 0
    /\ vs[j].class = vs[k].class /\ vs[j].ptr = vs[k].ptr
    => j = k
OwnedScops(vs, ps) ==
  \A p \in DOMAIN ps : ps[p].live =>
    \E k \in DOMAIN vs : vs[k].class = "PetScop" /\ vs[k].ptr = p

Owned(vs, cs, ps) ==
  LiveScops(vs, ps) /\ LiveCtxs(vs, cs) /\ UniqueOwners(vs) /\ OwnedScops(vs, ps)

\* Variables of isl classes own neither.
LEMMA OwnedDeclareIsl ==
  ASSUME NEW vs \in Seq(Declarations), NEW cs, NEW ps, Owned(vs, cs, ps),
         NEW var \in Declarations, var.class \in IslClasses
  PROVE  Owned(Append(vs, var), cs, ps)
<1>. DEFINE vs2 == Append(vs, var)
<1>1. /\ Len(vs) \in Nat /\ DOMAIN vs = 1..Len(vs) /\ DOMAIN vs2 = 1..(Len(vs) + 1)
      /\ \A k \in DOMAIN vs : vs2[k] = vs[k]
      /\ vs2[Len(vs) + 1] = var
  OBVIOUS
<1>2. var.class # "PetScop" /\ var.class # "ScopedCtx"
  BY DEF IslClasses
<1>. HIDE DEF vs2
<1>3. Owned(vs2, cs, ps)
  BY <1>1, <1>2 DEF Owned, LiveScops, LiveCtxs, UniqueOwners, OwnedScops
<1>. QED  BY <1>3 DEF vs2

LEMMA OwnedAssign ==
  ASSUME NEW vs \in Seq(Declarations), NEW cs, NEW ps, Owned(vs, cs, ps),
         NEW var \in Declarations, var.class \in IslClasses,
         NEW x \in DOMAIN vs, vs[x].class \in IslClasses
  PROVE  Owned(With(vs, x, var), cs, ps)
<1>. DEFINE vs2 == With(vs, x, var)
<1>1. /\ DOMAIN vs2 = DOMAIN vs
      /\ \A k \in DOMAIN vs : vs2[k] = IF k = x THEN var ELSE vs[k]
  BY DEF With
<1>2. /\ var.class # "PetScop" /\ var.class # "ScopedCtx"
      /\ vs[x].class # "PetScop" /\ vs[x].class # "ScopedCtx"
  BY DEF IslClasses
<1>. HIDE DEF vs2
<1>3. Owned(vs2, cs, ps)
  BY <1>1, <1>2 DEF Owned, LiveScops, LiveCtxs, UniqueOwners, OwnedScops
<1>. QED  BY <1>3 DEF vs2

LEMMA OwnedDestroyIsl ==
  ASSUME NEW vs \in Seq(Declarations), NEW cs, NEW ps, Owned(vs, cs, ps),
         vs # << >>, Last(vs).class \in IslClasses
  PROVE  Owned(Front(vs), cs, ps)
<1>. DEFINE vs2 == Front(vs)
            n == Len(vs)
<1>1. /\ n \in Nat \ {0} /\ DOMAIN vs = 1..n /\ DOMAIN vs2 = 1..(n - 1)
      /\ \A k \in 1..(n - 1) : vs2[k] = vs[k]
      /\ vs[n] = Last(vs)
  BY DEF Front, Last
<1>2. vs[n].class # "PetScop" /\ vs[n].class # "ScopedCtx"
  BY <1>1 DEF IslClasses
<1>. HIDE DEF vs2, n
<1>3. Owned(vs2, cs, ps)
  BY <1>1, <1>2 DEF Owned, LiveScops, LiveCtxs, UniqueOwners, OwnedScops
<1>. QED  BY <1>3 DEF vs2

\* A context is allocated for a new variable; it is freed with its only one.
LEMMA OwnedAlloc ==
  ASSUME NEW vs \in Seq(Declarations), NEW cs \in Seq({"live", "freed", "lost"}), NEW ps,
         Owned(vs, cs, ps),
         \A k \in DOMAIN vs : vs[k].class = "ScopedCtx" => vs[k].ptr \in DOMAIN cs,
         NEW var \in Declarations, var.class = "ScopedCtx", var.ptr = Len(cs) + 1
  PROVE  Owned(Append(vs, var), Append(cs, "live"), ps)
<1>. DEFINE vs2 == Append(vs, var)
            cs2 == Append(cs, "live")
<1>1. /\ Len(vs) \in Nat /\ DOMAIN vs = 1..Len(vs) /\ DOMAIN vs2 = 1..(Len(vs) + 1)
      /\ \A k \in DOMAIN vs : vs2[k] = vs[k]
      /\ vs2[Len(vs) + 1] = var
  OBVIOUS
<1>2. /\ \A c \in DOMAIN cs : cs2[c] = cs[c]
      /\ cs2[Len(cs) + 1] = "live" /\ Len(cs) + 1 \notin DOMAIN cs
  OBVIOUS
<1>. HIDE DEF vs2, cs2
<1>3. Owned(vs2, cs2, ps)
  BY <1>1, <1>2, SMTT(30) DEF Owned, LiveScops, LiveCtxs, UniqueOwners, OwnedScops, IslClasses
<1>. QED  BY <1>3 DEF vs2, cs2

LEMMA OwnedFreeCtx ==
  ASSUME NEW vs \in Seq(Declarations), NEW cs, NEW ps, Owned(vs, cs, ps),
         vs # << >>, Last(vs).class = "ScopedCtx", Last(vs).ptr \in DOMAIN cs,
         Last(vs).ptr # 0,
         NEW s
  PROVE  Owned(Front(vs), With(cs, Last(vs).ptr, s), ps)
<1>. DEFINE vs2 == Front(vs)
            n == Len(vs)
            c == Last(vs).ptr
            cs2 == With(cs, c, s)
<1>1. /\ n \in Nat \ {0} /\ DOMAIN vs = 1..n /\ DOMAIN vs2 = 1..(n - 1)
      /\ \A k \in 1..(n - 1) : vs2[k] = vs[k]
      /\ vs[n] = Last(vs)
  BY DEF Front, Last
<1>2. \A x : x # c => cs2[x] = cs[x]
  BY DEF With
<1>3. \A k \in 1..(n - 1) : vs[k].class = "ScopedCtx" => vs[k].ptr # c
  BY <1>1 DEF Owned, UniqueOwners, IslClasses
<1>. HIDE DEF vs2, cs2, n
<1>4. Owned(vs2, cs2, ps)
  BY <1>1, <1>2, <1>3 DEF Owned, LiveScops, LiveCtxs, UniqueOwners, OwnedScops
<1>. QED  BY <1>4 DEF vs2, cs2

\* So are scops.
LEMMA OwnedExtract ==
  ASSUME NEW vs \in Seq(Declarations), NEW cs, NEW ps \in Seq(Scops), Owned(vs, cs, ps),
         \A k \in DOMAIN vs : vs[k].class = "PetScop" => vs[k].ptr \in 0..Len(ps),
         NEW pet \in Scops, pet.live,
         NEW var \in Declarations, var.class = "PetScop", var.ptr = Len(ps) + 1
  PROVE  Owned(Append(vs, var), cs, Append(ps, pet))
<1>. DEFINE vs2 == Append(vs, var)
            ps2 == Append(ps, pet)
<1>1. /\ Len(vs) \in Nat /\ DOMAIN vs = 1..Len(vs) /\ DOMAIN vs2 = 1..(Len(vs) + 1)
      /\ \A k \in DOMAIN vs : vs2[k] = vs[k]
      /\ vs2[Len(vs) + 1] = var
  OBVIOUS
<1>2. /\ Len(ps) \in Nat /\ DOMAIN ps = 1..Len(ps) /\ DOMAIN ps2 = 1..(Len(ps) + 1)
      /\ \A p \in DOMAIN ps : ps2[p] = ps[p]
      /\ ps2[Len(ps) + 1] = pet
  OBVIOUS
<1>. HIDE DEF vs2, ps2
<1>3. LiveScops(vs2, ps2)
  BY <1>1, <1>2 DEF Owned, LiveScops
<1>4. LiveCtxs(vs2, cs)
  BY <1>1 DEF Owned, LiveCtxs
<1>5. UniqueOwners(vs2)
  BY <1>1, <1>2, SMTT(30) DEF Owned, UniqueOwners, IslClasses
<1>6. OwnedScops(vs2, ps2)
  BY <1>1, <1>2 DEF Owned, OwnedScops
<1>. QED  BY <1>3, <1>4, <1>5, <1>6 DEF Owned, vs2, ps2

LEMMA OwnedNull ==
  ASSUME NEW vs \in Seq(Declarations), NEW cs, NEW ps, Owned(vs, cs, ps),
         NEW var \in Declarations, var.class = "PetScop", var.ptr = 0
  PROVE  Owned(Append(vs, var), cs, ps)
<1>. DEFINE vs2 == Append(vs, var)
<1>1. /\ Len(vs) \in Nat /\ DOMAIN vs = 1..Len(vs) /\ DOMAIN vs2 = 1..(Len(vs) + 1)
      /\ \A k \in DOMAIN vs : vs2[k] = vs[k]
      /\ vs2[Len(vs) + 1] = var
  OBVIOUS
<1>. HIDE DEF vs2
<1>2. Owned(vs2, cs, ps)
  BY <1>1 DEF Owned, LiveScops, LiveCtxs, UniqueOwners, OwnedScops
<1>. QED  BY <1>2 DEF vs2

LEMMA OwnedFreeScop ==
  ASSUME NEW vs \in Seq(Declarations), NEW cs, NEW ps \in Seq(Scops), Owned(vs, cs, ps),
         vs # << >>, Last(vs).class = "PetScop", Last(vs).ptr \in DOMAIN ps,
         NEW pet \in Scops, ~ pet.live
  PROVE  Owned(Front(vs), cs, With(ps, Last(vs).ptr, pet))
<1>. DEFINE vs2 == Front(vs)
            n == Len(vs)
            x == Last(vs).ptr
            ps2 == With(ps, x, pet)
<1>1. /\ n \in Nat \ {0} /\ DOMAIN vs = 1..n /\ DOMAIN vs2 = 1..(n - 1)
      /\ \A k \in 1..(n - 1) : vs2[k] = vs[k]
      /\ vs[n] = Last(vs)
  BY DEF Front, Last
<1>2. /\ DOMAIN ps2 = DOMAIN ps /\ x # 0
      /\ \A p \in DOMAIN ps : ps2[p] = IF p = x THEN pet ELSE ps[p]
      /\ \A p : p # x => ps2[p] = ps[p]
  BY DEF With
<1>3. \A k \in 1..(n - 1) : vs[k].class = "PetScop" => vs[k].ptr # x
  BY <1>1, <1>2, SMTT(30) DEF Owned, UniqueOwners, IslClasses
<1>. HIDE DEF vs2, ps2, n
<1>4. LiveScops(vs2, ps2)
  BY <1>1, <1>2, <1>3 DEF Owned, LiveScops
<1>5. LiveCtxs(vs2, cs)
  BY <1>1 DEF Owned, LiveCtxs
<1>6. UniqueOwners(vs2)
  BY <1>1 DEF Owned, UniqueOwners
<1>7. OwnedScops(vs2, ps2)
  BY <1>1, <1>2 DEF Owned, OwnedScops
<1>. QED  BY <1>4, <1>5, <1>6, <1>7 DEF Owned, vs2, ps2

LEMMA OwnedDestroyNull ==
  ASSUME NEW vs \in Seq(Declarations), NEW cs, NEW ps \in Seq(Scops), Owned(vs, cs, ps),
         vs # << >>, Last(vs).ptr = 0, Last(vs).class = "PetScop"
  PROVE  Owned(Front(vs), cs, ps)
<1>. DEFINE vs2 == Front(vs)
            n == Len(vs)
<1>1. /\ n \in Nat \ {0} /\ DOMAIN vs = 1..n /\ DOMAIN vs2 = 1..(n - 1)
      /\ \A k \in 1..(n - 1) : vs2[k] = vs[k]
      /\ vs[n] = Last(vs)
  BY DEF Front, Last
<1>2. LiveScops(vs2, ps) /\ LiveCtxs(vs2, cs) /\ UniqueOwners(vs2)
  BY <1>1 DEF Owned, LiveScops, LiveCtxs, UniqueOwners
<1>3. OwnedScops(vs2, ps)
  <2>1. \A p \in DOMAIN ps : p # 0
    OBVIOUS
  <2>. HIDE DEF vs2, n
  <2>. QED  BY <1>1, <2>1 DEF Owned, OwnedScops
<1>. QED  BY <1>2, <1>3 DEF Owned

LEMMA OwnedUpdate ==
  ASSUME NEW vs, NEW cs, NEW ps, Owned(vs, cs, ps),
         NEW x \in DOMAIN ps, NEW pet, pet.live = ps[x].live
  PROVE  Owned(vs, cs, With(ps, x, pet))
<1>. DEFINE ps2 == With(ps, x, pet)
<1>1. /\ DOMAIN ps2 = DOMAIN ps
      /\ \A p : p # x => ps2[p] = ps[p]
      /\ ps2[x] = pet
  BY DEF With
<1>. HIDE DEF ps2
<1>2. Owned(vs, cs, ps2)
  BY <1>1 DEF Owned, LiveScops, LiveCtxs, UniqueOwners, OwnedScops
<1>. QED  BY <1>2 DEF ps2

\* Nothing went wrong but a null scop that was used.
OwnedState ==
  /\ control \in {"run", "unwind", "exit", "null scop dereferenced"}
  /\ Owned(variables, ctxs, pets)

LEMMA OwnedThrow ==
  ASSUME OwnedState, Throw \/ GoWrong("null scop dereferenced")
  PROVE  OwnedState'
BY DEF OwnedState, Throw, GoWrong

\* No scop that a variable refers to was freed.
LEMMA OwnedIsNotDangling ==
  ASSUME OwnedState, NEW k \in DOMAIN variables, variables[k].class = "PetScop"
  PROVE  ~ Dangling(variables[k].ptr)
BY DEF OwnedState, Owned, LiveScops, Dangling

\* Steps that declare variables of isl classes and touch no context and no scop.
LEMMA OwnedDeclares ==
  ASSUME BalancedState, OwnedState, UNCHANGED <<ctxs, pets, control>>,
         NEW class \in IslClasses, NEW p \in Nat,
         variables' = Append(variables, Declared(class, p))
  PROVE  OwnedState'
<1>1. variables \in Seq(Declarations)
  BY BalancedTypes DEF BalancedState
<1>. DEFINE var == Declared(class, p)
<1>2. var \in Declarations /\ var.class \in IslClasses
  BY DEF Declared, Declarations, Classes
<1>. HIDE DEF var
<1>3. Owned(Append(variables, var), ctxs, pets)
  BY <1>1, <1>2, OwnedDeclareIsl DEF OwnedState
<1>. QED  BY <1>3 DEF OwnedState, var

LEMMA OwnedAllocCtx ==
  ASSUME BalancedState, OwnedState, AllocCtx  PROVE  OwnedState'
<1>. DEFINE var == Declared("ScopedCtx", Len(ctxs) + 1)
<1>1. /\ variables \in Seq(Declarations) /\ ctxs \in Seq({"live", "freed", "lost"})
      /\ Len(ctxs) \in Nat
  BY BalancedTypes, SMTT(30) DEF BalancedState, Balanced, Typed
<1>2. var \in Declarations /\ var.class = "ScopedCtx" /\ var.ptr = Len(ctxs) + 1
  BY <1>1 DEF Declared, Declarations, Classes
<1>3. \A k \in DOMAIN variables :
        variables[k].class = "ScopedCtx" => variables[k].ptr \in DOMAIN ctxs
  BY Variable
<1>. HIDE DEF var
<1>4. Owned(Append(variables, var), Append(ctxs, "live"), pets)
  BY <1>1, <1>2, <1>3, OwnedAlloc DEF OwnedState
<1>. QED  BY <1>4 DEF AllocCtx, OwnedState, var

LEMMA OwnedFreeCtxStep ==
  ASSUME BalancedState, OwnedState, variables # << >>,
         Last(variables).class = "ScopedCtx", FreeCtx(Last(variables).ptr)
  PROVE  OwnedState'
<1>. DEFINE c == Last(variables).ptr
<1>1. /\ variables \in Seq(Declarations) /\ ctxs \in Seq({"live", "freed", "lost"})
  BY BalancedTypes DEF BalancedState, Balanced, Typed
<1>2. Len(variables) \in DOMAIN variables /\ Last(variables) = variables[Len(variables)]
  BY LastVariable
<1>3. c \in DOMAIN ctxs /\ ctxs[c] = "live"
  BY <1>2, Variable DEF OwnedState, Owned, LiveCtxs
<1>4. c # 0
  BY <1>1, <1>3
<1>5. PICK s : /\ ctxs' = With(ctxs, c, s) /\ variables' = Front(variables)
               /\ pets' = pets /\ control' = control
  BY <1>3 DEF FreeCtx, With
<1>6. Owned(Front(variables), With(ctxs, c, s), pets)
  BY <1>1, <1>3, <1>4, OwnedFreeCtx DEF OwnedState
<1>. QED  BY <1>5, <1>6 DEF OwnedState

LEMMA OwnedFreePetScop ==
  ASSUME BalancedState, OwnedState, variables # << >>,
         Last(variables).class = "PetScop", FreePetScop(Last(variables).ptr)
  PROVE  OwnedState'
<1>. DEFINE p == Last(variables).ptr
            pet == [schedule |-> 0, ctx |-> pets[p].ctx, live |-> FALSE]
<1>1. variables \in Seq(Declarations) /\ pets \in Seq(Scops)
  BY BalancedTypes DEF BalancedState
<1>2. Len(variables) \in DOMAIN variables /\ Last(variables) = variables[Len(variables)]
  BY LastVariable
<1>3. p \in 0..Len(pets)
  BY <1>2, Variable
<1>4. p # 0 => pets[p].live
  BY <1>2 DEF OwnedState, Owned, LiveScops
<1>5. /\ pets' = IF p = 0 THEN pets ELSE With(pets, p, pet)
      /\ variables' = Front(variables) /\ ctxs' = ctxs /\ control' = control
  BY <1>4 DEF FreePetScop, Dangling, With
<1>6. CASE p = 0
  <2>1. Owned(Front(variables), ctxs, pets)
    BY <1>1, <1>6, OwnedDestroyNull DEF OwnedState
  <2>. QED  BY <1>5, <1>6, <2>1 DEF OwnedState
<1>7. CASE p # 0
  <2>1. p \in DOMAIN pets
    BY <1>1, <1>3, <1>7
  <2>2. pet \in Scops /\ ~ pet.live
    <3>1. pets[p] \in Scops
      BY <1>1, <2>1
    <3>. QED  BY <3>1 DEF Scops
  <2>. HIDE DEF pet
  <2>3. Owned(Front(variables), ctxs, With(pets, p, pet))
    BY <1>1, <2>1, <2>2, OwnedFreeScop DEF OwnedState
  <2>. QED  BY <1>5, <1>7, <2>3 DEF OwnedState
<1>. QED  BY <1>6, <1>7

LEMMA OwnedParseFile ==
  ASSUME BalancedState, OwnedState, NEW k \in DOMAIN variables, ParseFile(k)
  PROVE  OwnedState'
<1>. DEFINE c == variables[k].ptr
            pet == [schedule |-> Len(objects) + 1, ctx |-> c, live |-> TRUE]
            var == Declared("PetScop", Len(pets) + 1)
            null == Declared("PetScop", 0)
<1>1. /\ variables \in Seq(Declarations) /\ pets \in Seq(Scops)
      /\ Len(pets) \in Nat /\ Len(objects) \in Nat
  BY BalancedTypes DEF BalancedState
<1>2. ctxs[c] = "live" /\ c \in Nat
  <2>1. variables[k] \in Declarations
    BY <1>1
  <2>. QED  BY <2>1 DEF ParseFile, OwnedState, Owned, LiveCtxs, Declarations
<1>3. /\ ctxs' = ctxs /\ control' = control
      /\ \/ pets' = Append(pets, pet) /\ variables' = Append(variables, var)
         \/ pets' = pets /\ variables' = Append(variables, null)
  BY <1>2 DEF ParseFile
<1>4. /\ var \in Declarations /\ var.class = "PetScop" /\ var.ptr = Len(pets) + 1
      /\ null \in Declarations /\ null.class = "PetScop" /\ null.ptr = 0
      /\ pet \in Scops /\ pet.live
  BY <1>1, <1>2 DEF Declared, Declarations, Classes, Scops
<1>5. \A j \in DOMAIN variables :
        variables[j].class = "PetScop" => variables[j].ptr \in 0..Len(pets)
  BY Variable
<1>. HIDE DEF var, null, pet
<1>6. Owned(Append(variables, var), ctxs, Append(pets, pet))
  BY <1>1, <1>4, <1>5, OwnedExtract DEF OwnedState
<1>7. Owned(Append(variables, null), ctxs, pets)
  BY <1>1, <1>4, OwnedNull DEF OwnedState
<1>. QED  BY <1>3, <1>6, <1>7 DEF OwnedState

LEMMA OwnedGetScop ==
  ASSUME BalancedState, OwnedState, NEW k \in DOMAIN variables,
         GetScop(k) \/ Schedule(k)
  PROVE  OwnedState'
<1>. DEFINE x == variables[k].ptr
            s == pets[x].schedule
            a == Declared("schedule", s)
            b == Declared("union", Len(objects) + 1)
<1>0. ~ Dangling(x)
  BY OwnedIsNotDangling DEF GetScop, Schedule
<1>1. CASE x = 0 \/ s = 0
  BY <1>0, <1>1, OwnedThrow DEF GetScop, Schedule
<1>2. CASE ~ (x = 0 \/ s = 0)
  <2>1. /\ ctxs' = ctxs /\ pets' = pets /\ control' = control
        /\ \/ variables' = variables \o <<a, b>>
           \/ variables' = Append(variables, a)
    BY <1>0, <1>2 DEF GetScop, Schedule
  <2>2. variables \in Seq(Declarations) /\ Len(objects) \in Nat
    BY BalancedTypes DEF BalancedState
  <2>3. s \in Nat
    <3>1. variables[k].class = "PetScop" /\ x # 0
      BY <1>2 DEF GetScop, Schedule
    <3>2. x \in DOMAIN pets
      BY <3>1, ScopOf
    <3>. QED  BY <2>2, <3>2, Scop
  <2>4. /\ a \in Declarations /\ a.class \in IslClasses
        /\ b \in Declarations /\ b.class \in IslClasses
    BY <2>2, <2>3 DEF Declared, Declarations, Classes, IslClasses
  <2>. HIDE DEF a, b
  <2>5. Owned(Append(variables, a), ctxs, pets) /\ Append(variables, a) \in Seq(Declarations)
    <3>1. Owned(variables, ctxs, pets)
      BY DEF OwnedState
    <3>2. Append(variables, a) \in Seq(Declarations)
      BY <2>2, <2>4
    <3>. QED  BY <2>2, <2>4, <3>1, <3>2, OwnedDeclareIsl
  <2>6. Owned(Append(Append(variables, a), b), ctxs, pets)
    BY <2>4, <2>5, OwnedDeclareIsl
  <2>7. variables \o <<a, b>> = Append(Append(variables, a), b)
    BY <2>2
  <2>. QED  BY <2>1, <2>5, <2>6, <2>7 DEF OwnedState
<1>. QED  BY <1>1, <1>2

LEMMA OwnedAssignSchedule ==
  ASSUME BalancedState, OwnedState, NEW k \in DOMAIN variables, NEW j \in DOMAIN variables,
         AssignSchedule(k, j)
  PROVE  OwnedState'
<1>. DEFINE x == variables[k].ptr
            n == variables[j].ptr
            pet == [pets[x] EXCEPT !.schedule = n]
<1>0. ~ Dangling(x)
  BY OwnedIsNotDangling DEF AssignSchedule
<1>1. CASE x = 0 \/ pets[x].schedule = 0
  BY <1>0, <1>1, OwnedThrow DEF AssignSchedule
<1>2. CASE ~ (x = 0 \/ pets[x].schedule = 0)
  <2>1. /\ pets' = With(pets, x, pet) /\ variables' = variables /\ ctxs' = ctxs
        /\ control' = control
    BY <1>0, <1>2 DEF AssignSchedule, With
  <2>2. x \in DOMAIN pets
    BY <1>2, ScopOf DEF AssignSchedule
  <2>3. pet.live = pets[x].live
    <3>1. pets[x] \in ScopsOf(Len(objects), Len(ctxs))
      BY <2>2, Scop
    <3>. QED  BY <3>1 DEF ScopsOf
  <2>. HIDE DEF pet
  <2>4. Owned(variables, ctxs, With(pets, x, pet))
    BY <2>2, <2>3, OwnedUpdate DEF OwnedState
  <2>. QED  BY <2>1, <2>4 DEF OwnedState
<1>. QED  BY <1>1, <1>2

LEMMA OwnedStep ==
  ASSUME Moved = {}, BalancedState, OwnedState, [Next]_vars
  PROVE  OwnedState'
<1>1. variables \in Seq(Declarations) /\ Len(objects) \in Nat
  BY BalancedTypes DEF BalancedState
<1>2. CASE AllocCtx
  BY <1>2, OwnedAllocCtx
<1>3. CASE DestroyLast
  <2>0. variables # << >>
    BY <1>3 DEF DestroyLast
  <2>1. CASE Last(variables).class \in IslClasses /\ FreeObject(Last(variables).ptr)
    <3>1. Owned(Front(variables), ctxs, pets)
      BY <1>1, <2>0, <2>1, OwnedDestroyIsl DEF OwnedState
    <3>. QED  BY <2>1, <3>1 DEF FreeObject, OwnedState
  <2>2. CASE Last(variables).class = "ScopedCtx" /\ FreeCtx(Last(variables).ptr)
    BY <2>0, <2>2, OwnedFreeCtxStep
  <2>3. CASE Last(variables).class = "PetScop" /\ FreePetScop(Last(variables).ptr)
    BY <2>0, <2>3, OwnedFreePetScop
  <2>. QED  BY <1>3, <2>1, <2>2, <2>3 DEF DestroyLast
<1>4. CASE Catch \/ Exit
  BY <1>4 DEF Catch, Exit, OwnedState
<1>5. ASSUME NEW class \in IslClasses, Declare(class) PROVE OwnedState'
  <2>1. /\ UNCHANGED <<ctxs, pets, control>> /\ 0 \in Nat
        /\ variables' = Append(variables, Declared(class, 0))
    BY <1>5 DEF Declare
  <2>. QED  BY <2>1, OwnedDeclares
<1>6. ASSUME NEW k \in DOMAIN variables, ParseFile(k) \/ GetScop(k) \/ Schedule(k)
      PROVE  OwnedState'
  BY <1>6, OwnedParseFile, OwnedGetScop
<1>7. ASSUME NEW k \in DOMAIN variables, Construct(k) PROVE OwnedState'
  <2>1. variables[k] \in Declarations /\ variables[k].class \in IslClasses
    BY <1>1, <1>7 DEF Construct
  <2>2. Owned(Append(variables, variables[k]), ctxs, pets)
    BY <1>1, <2>1, OwnedDeclareIsl DEF OwnedState
  <2>. QED  BY <1>7, <2>2 DEF Construct, OwnedState
<1>8. ASSUME NEW k \in DOMAIN variables, DomainOf(k) \/ GetRoot(k) PROVE OwnedState'
  <2>1. /\ UNCHANGED <<ctxs, pets, control>>
        /\ \E class \in IslClasses, p \in {0, Len(objects) + 1} :
             variables' = Append(variables, Declared(class, p))
    BY <1>8 DEF DomainOf, GetRoot, IslClasses
  <2>. QED  BY <1>1, <2>1, OwnedDeclares
<1>9. ASSUME NEW k \in DOMAIN variables, MatchUncaptured(k) PROVE OwnedState'
  BY <1>9 DEF MatchUncaptured, OwnedState
<1>10. ASSUME NEW k \in DOMAIN variables, NEW j \in DOMAIN variables, Assign(k, j)
       PROVE  OwnedState'
  <2>1. /\ variables[k].class \in IslClasses
        /\ variables[j] \in Declarations /\ variables[j].class \in IslClasses
    BY <1>1, <1>10 DEF Assign
  <2>2. Owned(With(variables, k, variables[j]), ctxs, pets)
    BY <1>1, <2>1, OwnedAssign DEF OwnedState
  <2>. QED  BY <1>10, <2>2 DEF Assign, With, OwnedState
<1>11. ASSUME NEW k \in DOMAIN variables, NEW j \in DOMAIN variables, AssignSchedule(k, j)
       PROVE  OwnedState'
  BY <1>11, OwnedAssignSchedule
<1>12. CASE UNCHANGED vars
  BY <1>12 DEF vars, OwnedState
<1>. QED  BY <1>2, <1>3, <1>4, <1>5, <1>6, <1>7, <1>8, <1>9, <1>10, <1>11, <1>12 DEF Next

-----------------------------------------------------------------------------
(* What keeps a context *)

LEMMA Referenced ==
  ASSUME BalancedState, NEW o \in DOMAIN objects
  PROVE  objects[o].refs > 0 <=>
           \/ \E k \in DOMAIN variables : Holds(variables[k], o)
           \/ \E p \in DOMAIN pets : pets[p].live /\ pets[p].schedule = o
           \/ dummyCapture = o
<1>. DEFINE S == HolderVars(variables, o)
            T == HolderPets(pets, o)
<1>1. /\ variables \in Seq(Declarations) /\ pets \in Seq(Scops)
      /\ objects \in Seq(Objects(Len(ctxs)))
  BY BalancedTypes DEF BalancedState
<1>2. o \in Nat \ {0} /\ RefsOf(objects, o) = objects[o].refs
  BY <1>1 DEF RefsOf
<1>3. Counts(variables, dummyCapture, pets, objects, 0, o)
  BY <1>2, BalancedCounts DEF BalancedState
<1>4. /\ IsFiniteSet(S) /\ Cardinality(S) \in Nat
      /\ IsFiniteSet(T) /\ Cardinality(T) \in Nat
  BY <1>1, FiniteHolders
<1>5. (Cardinality(S) = 0 <=> S = {}) /\ (Cardinality(T) = 0 <=> T = {})
  BY <1>4, FS_EmptySet
<1>6. objects[o].refs = Cardinality(S) + Cardinality(T) + One(dummyCapture = o)
  BY <1>2, <1>3 DEF Counts, One
<1>7. /\ S # {} <=> \E k \in DOMAIN variables : Holds(variables[k], o)
      /\ T # {} <=> \E p \in DOMAIN pets : pets[p].live /\ pets[p].schedule = o
  BY DEF HolderVars, HolderPets
<1>. HIDE DEF S, T
<1>8. objects[o].refs > 0 <=> S # {} \/ T # {} \/ dummyCapture = o
  BY <1>4, <1>5, <1>6 DEF One
<1>. QED  BY <1>7, <1>8

\* What the destructor finds is what the variables below and the capture hold.
Kept(c) ==
  \/ \E o \in DOMAIN objects : objects[o].ctx = c /\ objects[o].refs > 0
  \/ \E p \in DOMAIN pets : pets[p].ctx = c /\ pets[p].live

Outlived(c) ==
  \/ \E k \in 1..(Len(variables) - 1) : HoldsInCtx(variables[k], c)
  \/ dummyCapture # 0 /\ objects[dummyCapture].ctx = c

LEMMA KeptIsOutlived ==
  ASSUME BalancedState, OwnedState, variables # << >>,
         Last(variables).class = "ScopedCtx", NEW c
  PROVE  Kept(c) <=> Outlived(c)
<1>. DEFINE n == Len(variables)
<1>1. /\ variables \in Seq(Declarations) /\ pets \in Seq(Scops)
      /\ objects \in Seq(Objects(Len(ctxs)))
      /\ dummyCapture \in 0..Len(objects) /\ Len(objects) \in Nat
  BY BalancedTypes DEF BalancedState, Balanced, Typed
<1>2. n \in DOMAIN variables /\ variables[n].class = "ScopedCtx"
  BY LastVariable
<1>3. \A k \in DOMAIN variables :
        variables[k].class \in IslClasses \cup {"PetScop"} => k \in 1..(n - 1)
  BY <1>1, <1>2 DEF IslClasses
<1>4. \A k \in 1..(n - 1) : k \in DOMAIN variables
  BY <1>1
<1>5. LiveScops(variables, pets) /\ OwnedScops(variables, pets)
  BY DEF OwnedState, Owned
<1>6. \A o \in 0..Len(objects) : o # 0 => o \in DOMAIN objects
  BY <1>1
<1>7. \A o \in DOMAIN objects : o # 0
  BY <1>1
<1>8. \A p \in DOMAIN pets : p # 0
  BY <1>1
<1>. HIDE DEF n
<1>9. ASSUME NEW p \in DOMAIN pets, pets[p].live,
             \/ pets[p].ctx = c
             \/ pets[p].schedule # 0 /\ objects[pets[p].schedule].ctx = c
      PROVE  Outlived(c)
  <2>1. PICK k \in DOMAIN variables : variables[k].class = "PetScop" /\ variables[k].ptr = p
    BY <1>5, <1>9 DEF OwnedScops
  <2>2. k \in 1..(n - 1)
    BY <1>3, <2>1
  <2>3. HoldsInCtx(variables[k], c)
    BY <1>8, <1>9, <2>1 DEF HoldsInCtx
  <2>. QED  BY <2>2, <2>3 DEF Outlived, n
<1>10. ASSUME NEW o \in DOMAIN objects, objects[o].ctx = c, objects[o].refs > 0
       PROVE  Outlived(c)
  <2>1. CASE \E k \in DOMAIN variables : Holds(variables[k], o)
    <3>1. PICK k \in DOMAIN variables : Holds(variables[k], o)
      BY <2>1
    <3>2. k \in 1..(n - 1)
      BY <1>3, <3>1 DEF Holds
    <3>3. HoldsInCtx(variables[k], c)
      BY <1>7, <1>10, <3>1 DEF Holds, HoldsInCtx
    <3>. QED  BY <3>2, <3>3 DEF Outlived, n
  <2>2. CASE \E p \in DOMAIN pets : pets[p].live /\ pets[p].schedule = o
    BY <1>7, <1>9, <1>10, <2>2
  <2>3. CASE dummyCapture = o
    BY <1>7, <1>10, <2>3 DEF Outlived
  <2>. QED  BY <1>10, <2>1, <2>2, <2>3, Referenced
<1>11. ASSUME NEW k \in 1..(n - 1), HoldsInCtx(variables[k], c)
       PROVE  Kept(c)
  <2>0. k \in DOMAIN variables
    BY <1>4
  <2>1. CASE variables[k].class \in IslClasses
    <3>1. variables[k].ptr # 0 /\ objects[variables[k].ptr].ctx = c
      BY <1>11, <2>1 DEF HoldsInCtx, IslClasses
    <3>2. variables[k].ptr \in DOMAIN objects
      BY <1>6, <2>0, <2>1, <3>1, Variable
    <3>3. objects[variables[k].ptr].refs > 0
      BY <2>0, <2>1, <3>2, Referenced DEF Holds
    <3>. QED  BY <3>1, <3>2, <3>3 DEF Kept
  <2>2. CASE variables[k].class \notin IslClasses
    <3>. DEFINE p == variables[k].ptr
    <3>1. /\ variables[k].class = "PetScop" /\ p # 0
          /\ \/ pets[p].ctx = c
             \/ pets[p].schedule # 0 /\ objects[pets[p].schedule].ctx = c
      BY <1>11, <2>2 DEF HoldsInCtx
    <3>2. p \in DOMAIN pets /\ pets[p].live
      BY <1>5, <2>0, <3>1, ScopOf DEF LiveScops
    <3>3. CASE pets[p].ctx = c
      BY <3>2, <3>3 DEF Kept
    <3>4. CASE pets[p].schedule # 0 /\ objects[pets[p].schedule].ctx = c
      <4>1. pets[p].schedule \in DOMAIN objects
        BY <1>6, <3>2, <3>4, Scop
      <4>2. objects[pets[p].schedule].refs > 0
        BY <3>2, <4>1, Referenced
      <4>. QED  BY <3>4, <4>1, <4>2 DEF Kept
    <3>. QED  BY <3>1, <3>3, <3>4
  <2>. QED  BY <2>1, <2>2
<1>12. ASSUME dummyCapture # 0, objects[dummyCapture].ctx = c
       PROVE  Kept(c)
  <2>1. dummyCapture \in DOMAIN objects
    BY <1>1, <1>6, <1>12
  <2>2. objects[dummyCapture].refs > 0
    BY <2>1, Referenced
  <2>. QED  BY <1>12, <2>1, <2>2 DEF Kept
<1>13. Kept(c) => Outlived(c)
  BY <1>9, <1>10 DEF Kept
<1>14. Outlived(c) => Kept(c)
  BY <1>11, <1>12 DEF Outlived, n
<1>. QED  BY <1>13, <1>14

-----------------------------------------------------------------------------
(* Theorems *)

LEMMA BalancedInit == Init => BalancedState
<1>. SUFFICES ASSUME Init PROVE BalancedState
  OBVIOUS
<1>1. /\ variables = << >> /\ dummyCapture = 0 /\ ctxs = << >> /\ pets = << >>
      /\ objects = << >>
  BY DEF Init
<1>2. Typed(<< >>, 0, << >>, << >>, << >>)
  BY DEF Typed, VarsTyped
<1>3. ASSUME NEW o \in Nat \ {0}
      PROVE  RefsOf(<< >>, o) = Cardinality(HolderVars(<< >>, o))
               + Cardinality(HolderPets(<< >>, o)) + One(0 = o) + One(0 = o)
  <2>1. HolderVars(<< >>, o) = {} /\ HolderPets(<< >>, o) = {} /\ RefsOf(<< >>, o) = 0
    BY DEF HolderVars, HolderPets, RefsOf
  <2>2. Cardinality({}) = 0
    BY FS_EmptySet
  <2>3. /\ Cardinality(HolderVars(<< >>, o)) = 0 /\ Cardinality(HolderPets(<< >>, o)) = 0
        /\ One(0 = o) = 0
    BY <2>1, <2>2, Zenon DEF One
  <2>. QED  BY <2>1, <2>3
<1>4. /\ 0 \in 0..Len(<< >>)
      /\ \A x \in DOMAIN << >> : ~ << >>[x].live => << >>[x].schedule = 0
  OBVIOUS
<1>5. Balanced(<< >>, 0, << >>, << >>, << >>, 0)
  BY <1>2, <1>3, <1>4 DEF Balanced
<1>. QED  BY <1>1, <1>5 DEF BalancedState

\* References that are counted, in the words of the specification.
LEMMA BalancedCounted ==
  ASSUME BalancedState
  PROVE  \A o \in DOMAIN objects : objects[o].refs = Holders(o)
<1>. SUFFICES ASSUME NEW o \in DOMAIN objects PROVE objects[o].refs = Holders(o)
  OBVIOUS
<1>1. objects \in Seq(Objects(Len(ctxs)))
  BY BalancedTypes DEF BalancedState
<1>2. o \in Nat \ {0} /\ RefsOf(objects, o) = objects[o].refs
  BY <1>1 DEF RefsOf
<1>3. Counts(variables, dummyCapture, pets, objects, 0, o)
  BY <1>2, BalancedCounts DEF BalancedState
<1>. QED  BY <1>2, <1>3, HoldersSplit DEF Counts, One

LEMMA OwnedIsOwned ==
  ASSUME BalancedState, OwnedState
  PROVE  ReferencesAreCounted /\ OwnersAreUnique /\ LiveScopsAreOwned
<1>1. ReferencesAreCounted
  <2>1. LiveScops(variables, pets) /\ LiveCtxs(variables, ctxs)
    BY DEF OwnedState, Owned
  <2>2. \A k \in Variables("PetScop") : variables[k].ptr # 0 => pets[variables[k].ptr].live
    BY <2>1 DEF LiveScops, Variables
  <2>3. \A k \in Variables("ScopedCtx") : ctxs[variables[k].ptr] = "live"
    BY <2>1 DEF LiveCtxs, Variables
  <2>4. control \in {"run", "unwind", "exit", "null scop dereferenced"}
    BY DEF OwnedState
  <2>. QED  BY <2>2, <2>3, <2>4, BalancedCounted, Zenon DEF ReferencesAreCounted
<1>2. OwnersAreUnique
  BY DEF OwnedState, Owned, UniqueOwners, OwnersAreUnique
<1>3. LiveScopsAreOwned
  BY DEF OwnedState, Owned, OwnedScops, LiveScopsAreOwned, Variables
<1>. QED  BY <1>1, <1>2, <1>3

LEMMA BalanceHolds == Spec => []BalancedState
<1>1. BalancedState /\ [Next]_vars => BalancedState'
  BY BalancedStep
<1>. QED  BY BalancedInit, <1>1, PTL DEF Spec

\* The invariant of types: every pointer of every variable, scop and object is
\* null or refers to something allocated of its class, whatever is moved.
THEOREM TypeCorrect == Spec => []TypeOK
<1>1. BalancedState => TypeOK
  BY TypeOKIsTyped DEF BalancedState, Balanced
<1>. QED  BY BalanceHolds, <1>1, PTL

\* As long as a program, one that moves contexts or scops included, has neither
\* used nor freed what was freed before, nor dereferenced a null scop, every isl
\* object has exactly as many references as variables, live scops and the static
\* capture hold it: the copies and frees of the wrappers match in every order of
\* calls and unwinding.  Afterwards nothing is claimed, nor could be.
THEOREM ObjectsAreCounted ==
  Spec => [](control \in {"run", "unwind", "exit"} =>
               \A o \in DOMAIN objects : objects[o].refs = Holders(o))
<1>1. BalancedState => (control \in {"run", "unwind", "exit"} =>
                          \A o \in DOMAIN objects : objects[o].refs = Holders(o))
  BY BalancedCounted
<1>. QED  BY BalanceHolds, <1>1, PTL

LEMMA OwnedHolds ==
  ASSUME Moved = {}
  PROVE  Spec => []OwnedState
<1>1. Init => OwnedState
  <2>. SUFFICES ASSUME Init PROVE OwnedState
    OBVIOUS
  <2>1. variables = << >> /\ pets = << >> /\ control = "run"
    BY DEF Init
  <2>. QED  BY <2>1 DEF OwnedState, Owned, LiveScops, LiveCtxs, UniqueOwners, OwnedScops
<1>2. BalancedState /\ OwnedState /\ [Next]_vars => OwnedState'
  BY OwnedStep
<1>. QED  BY <1>1, <1>2, BalanceHolds, PTL DEF Spec

\* In a program that moves neither contexts nor scops, ReferencesAreCounted
\* holds, and with it what it rests on: owners are unique, and nothing live is
\* left without one, so nothing is freed twice or used after it was freed.
THEOREM OwnershipIsCorrect ==
  ASSUME Moved = {}
  PROVE  Spec => []IInv
<1>1. BalancedState /\ OwnedState => IInv
  BY OwnedIsOwned, BalancedCounted, TypeOKIsTyped DEF IInv, BalancedState, Balanced
<1>. QED  BY BalanceHolds, OwnedHolds, <1>1, PTL

\* In particular what MCOwnership checks holds for every choice of classes and
\* actions of such a program: the wrappers that hold an object are exactly its
\* references.
THEOREM ReferencesStayCounted ==
  ASSUME Moved = {}
  PROVE  Spec => []ReferencesAreCounted
<1>1. IInv => ReferencesAreCounted
  BY DEF IInv
<1>. QED  BY OwnershipIsCorrect, <1>1, PTL

\* In such a program the destructor of ScopedCtx frees its context, unless a
\* variable declared before it, or the static capture, holds something of the
\* context: ContextIsFreedUnlessOutlived.  Nothing else ever frees one.
THEOREM ContextsAreFreed ==
  ASSUME Moved = {}
  PROVE  Spec => ContextIsFreedUnlessOutlived
<1>1. ASSUME BalancedState, OwnedState, [Next]_vars,
             NEW c \in DOMAIN ctxs, ctxs[c] = "live", ctxs'[c] # "live"
      PROVE  ctxs'[c] = "lost" <=> Outlived(c)
  <2>0. ctxs \in Seq({"live", "freed", "lost"})
    <3>1. BalancedState => ctxs \in Seq({"live", "freed", "lost"})
      BY Zenon DEF BalancedState, Balanced, Typed
    <3>. QED  BY <1>1, <3>1
  <2>1. ctxs' # ctxs /\ ~ AllocCtx
    BY <1>1, <2>0 DEF AllocCtx
  <2>2. /\ variables # << >> /\ Last(variables).class = "ScopedCtx"
        /\ FreeCtx(Last(variables).ptr)
    <3>1. ASSUME NEW k \in DOMAIN variables, NEW j \in DOMAIN variables,
                 \/ ParseFile(k) \/ GetScop(k) \/ Schedule(k)
                 \/ Construct(k) \/ DomainOf(k) \/ GetRoot(k) \/ MatchUncaptured(k)
                 \/ AssignSchedule(k, j) \/ Assign(k, j)
          PROVE  ctxs' = ctxs
      BY <3>1, Zenon DEF ParseFile, GetScop, Schedule, Construct, DomainOf, GetRoot, MatchUncaptured,
         AssignSchedule, Assign, Throw, GoWrong
    <3>2. ASSUME NEW class, Declare(class) PROVE ctxs' = ctxs
      BY <3>2 DEF Declare
    <3>3. ASSUME Catch \/ Exit \/ UNCHANGED vars PROVE ctxs' = ctxs
      BY <3>3 DEF Catch, Exit, vars
    <3>4. DestroyLast
      BY <1>1, <2>1, <3>1, <3>2, <3>3 DEF Next
    <3>5. ASSUME NEW p, FreePetScop(p) \/ FreeObject(p) PROVE ctxs' = ctxs
      BY <3>5, Zenon DEF FreePetScop, FreeObject, GoWrong
    <3>. QED  BY <2>1, <3>4, <3>5 DEF DestroyLast
  <2>. DEFINE d == Last(variables).ptr
  <2>3. ctxs[d] # "freed" /\ ctxs' = [ctxs EXCEPT ![d] = IF Kept(d) THEN "lost" ELSE "freed"]
    BY <2>1, <2>2, Zenon DEF FreeCtx, GoWrong, Kept
  <2>4. c = d
    BY <1>1, <2>0, <2>3
  <2>5. ctxs'[c] = "lost" <=> Kept(c)
    BY <1>1, <2>0, <2>3, <2>4
  <2>. QED  BY <1>1, <2>2, <2>5, KeptIsOutlived
<1>2. Spec => []OwnedState
  BY OwnedHolds
<1>3. BalancedState /\ OwnedState /\ [Next]_vars =>
        [\A c \in DOMAIN ctxs : ctxs[c] = "live" /\ ctxs'[c] # "live" =>
           (ctxs'[c] = "lost" <=>
              \/ \E k \in 1..(Len(variables) - 1) : HoldsInCtx(variables[k], c)
              \/ dummyCapture # 0 /\ objects[dummyCapture].ctx = c)]_vars
  BY <1>1 DEF Outlived
<1>. QED  BY BalanceHolds, <1>2, <1>3, PTL DEF Spec, ContextIsFreedUnlessOutlived

=============================================================================
