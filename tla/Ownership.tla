------------------------------ MODULE Ownership ------------------------------
(***************************************************************************)
(* Who frees what: util::ScopedCtx (ctx.h), pet::Scop and its              *)
(* IslCopyRefWrapper (pet_wrapper.h and .cc), ::Scop (scop.h), and the     *)
(* static captures of matchers made without one (matchers-inl.h).          *)
(*                                                                         *)
(* A program declares variables, which are destroyed in reverse order when *)
(* their blocks end or an exception unwinds the stack.  isl objects count  *)
(* their references and belong to a context, which isl_ctx_free leaves     *)
(* alone ("lost") while one of its objects exists.  A variable of an isl   *)
(* class holds one reference; its moves are copies.  ::Scop is its         *)
(* members, a schedule and then a union.  A pointer is an index into       *)
(* ctxs, pets or objects; 0 is null.                                       *)
(***************************************************************************)
EXTENDS Integers, FiniteSets, Sequences, SequencesExt

CONSTANTS
  MaxVariables,  \* how many variables exist at the same time
  MaxCtxs,       \* how many contexts are ever allocated,
  MaxPets,       \* pet_scops ever extracted,
  MaxObjects,    \* and isl objects ever made
  Moved          \* the classes the program move-constructs: "ScopedCtx", "PetScop"

ASSUME OwnershipAssumption ==
  /\ {MaxVariables, MaxCtxs, MaxPets, MaxObjects} \subseteq Nat
  /\ Moved \subseteq {"ScopedCtx", "PetScop"}

VARIABLES
  variables,     \* [class, ptr], in the order of declaration
  dummyCapture,  \* the static schedule_node of matchers without capture
  ctxs,          \* "live", "freed" or "lost"
  pets,          \* pet_scops: [schedule, ctx, live]
  objects,       \* isl objects: [class, ctx, refs]
  control        \* "run", "unwind", "exit"; or what went wrong in the memory

vars == <<variables, dummyCapture, ctxs, pets, objects, control>>

IslClasses == {"schedule", "node", "union"}
Variables(class) == {k \in DOMAIN variables : variables[k].class = class}
Declared(class, ptr) == [class |-> class, ptr |-> ptr]

Running == control = "run" /\ Len(variables) < MaxVariables
MayMake(n) == Len(objects) + n <= MaxObjects
New(class, ctx) == [class |-> class, ctx |-> ctx, refs |-> 1]

\* isl_*_copy and isl_*_free.
Copied(objs, o) == IF o = 0 THEN objs ELSE [objs EXCEPT ![o].refs = @ + 1]
Freed(objs, o) == IF o = 0 THEN objs ELSE [objs EXCEPT ![o].refs = @ - 1]

Init ==
  /\ variables = << >>
  /\ dummyCapture = 0
  /\ ctxs = << >>
  /\ pets = << >>
  /\ objects = << >>
  /\ control = "run"

GoWrong(what) ==
  /\ control' = what
  /\ UNCHANGED <<variables, dummyCapture, ctxs, pets, objects>>

\* isl::manage throws for a null pointer.
Throw == GoWrong("unwind")
-----------------------------------------------------------------------------
(* ScopedCtx *)

AllocCtx ==
  /\ Running /\ Len(ctxs) < MaxCtxs
  /\ ctxs' = Append(ctxs, "live")
  /\ variables' = Append(variables, Declared("ScopedCtx", Len(ctxs) + 1))
  /\ UNCHANGED <<dummyCapture, pets, objects, control>>

\* ~ScopedCtx
FreeCtx(c) ==
  IF ctxs[c] = "freed" THEN GoWrong("context freed twice")
  ELSE /\ ctxs' = [ctxs EXCEPT ![c] =
            IF \/ \E o \in DOMAIN objects : objects[o].ctx = c /\ objects[o].refs > 0
               \/ \E p \in DOMAIN pets : pets[p].ctx = c /\ pets[p].live
              THEN "lost" ELSE "freed"]
       /\ variables' = Front(variables)
       /\ UNCHANGED <<dummyCapture, pets, objects, control>>
-----------------------------------------------------------------------------
(* pet::Scop *)

\* The scop was freed through another variable, as only moves make possible.
Dangling(p) == p # 0 /\ ~ pets[p].live

\* No scop is extracted from a file that has none; nobody checks.
ParseFile(k) ==
  /\ Running /\ variables[k].class = "ScopedCtx"
  /\ IF ctxs[variables[k].ptr] = "freed" THEN GoWrong("context used after free")
     ELSE \/ /\ Len(pets) < MaxPets /\ MayMake(1)
             /\ objects' = Append(objects, New("schedule", variables[k].ptr))
             /\ pets' = Append(pets, [schedule |-> Len(objects) + 1,
                                      ctx |-> variables[k].ptr, live |-> TRUE])
             /\ variables' = Append(variables, Declared("PetScop", Len(pets) + 1))
             /\ UNCHANGED <<dummyCapture, ctxs, control>>
          \/ /\ variables' = Append(variables, Declared("PetScop", 0))
             /\ UNCHANGED <<dummyCapture, ctxs, pets, objects, control>>

\* getScop(): the schedule is shared, the access relations are made anew.  pet
\* answers null for the null scop, which isl::manage does not take.
GetScop(k) ==
  /\ control = "run" /\ variables[k].class = "PetScop"
  /\ IF Dangling(variables[k].ptr) THEN GoWrong("scop used after free")
     ELSE IF variables[k].ptr = 0 \/ pets[variables[k].ptr].schedule = 0 THEN Throw
     ELSE LET pet == pets[variables[k].ptr] IN
          /\ Len(variables) + 2 <= MaxVariables /\ MayMake(1)
          /\ objects' = Append(Copied(objects, pet.schedule), New("union", pet.ctx))
          /\ variables' = variables \o <<Declared("schedule", pet.schedule),
                                         Declared("union", Len(objects) + 1)>>
          /\ UNCHANGED <<dummyCapture, ctxs, pets, control>>

\* Variant: the reference of the scop itself is managed.
ScheduleUncopied(k) ==
  /\ Running /\ variables[k].class = "PetScop"
  /\ variables[k].ptr # 0 /\ pets[variables[k].ptr].schedule # 0
  /\ variables' = Append(variables, Declared("schedule", pets[variables[k].ptr].schedule))
  /\ UNCHANGED <<dummyCapture, ctxs, pets, objects, control>>

\* schedule(), const or converted from the wrapper: a managed copy.
Schedule(k) ==
  /\ Running /\ variables[k].class = "PetScop"
  /\ IF Dangling(variables[k].ptr) THEN GoWrong("scop used after free")
     ELSE IF variables[k].ptr = 0 THEN GoWrong("null scop dereferenced")
     ELSE IF pets[variables[k].ptr].schedule = 0 THEN Throw
     ELSE LET schedule == pets[variables[k].ptr].schedule IN
          /\ objects' = Copied(objects, schedule)
          /\ variables' = Append(variables, Declared("schedule", schedule))
          /\ UNCHANGED <<dummyCapture, ctxs, pets, control>>

\* Variant: the old schedule is not managed before it is overwritten.
AssignWithoutFree(k, s) ==
  /\ control = "run" /\ variables[k].class = "PetScop" /\ variables[s].class = "schedule"
  /\ variables[k].ptr # 0 /\ pets[variables[k].ptr].schedule # 0
  /\ objects' = Copied(objects, variables[s].ptr)
  /\ pets' = [pets EXCEPT ![variables[k].ptr].schedule = variables[s].ptr]
  /\ UNCHANGED <<variables, dummyCapture, ctxs, control>>

\* schedule() = s: the wrapper frees what it refers to, then copies.
AssignSchedule(k, s) ==
  /\ control = "run" /\ variables[k].class = "PetScop" /\ variables[s].class = "schedule"
  /\ IF Dangling(variables[k].ptr) THEN GoWrong("scop used after free")
     ELSE IF variables[k].ptr = 0 THEN GoWrong("null scop dereferenced")
     ELSE LET pet == variables[k].ptr IN
          IF pets[pet].schedule = 0 THEN Throw
          ELSE /\ objects' = Copied(Freed(objects, pets[pet].schedule), variables[s].ptr)
               /\ pets' = [pets EXCEPT ![pet].schedule = variables[s].ptr]
               /\ UNCHANGED <<variables, dummyCapture, ctxs, control>>

\* ~Scop: pet_scop_free takes null.
FreePetScop(p) ==
  IF Dangling(p) THEN GoWrong("scop freed twice")
  ELSE /\ objects' = IF p = 0 THEN objects ELSE Freed(objects, pets[p].schedule)
       /\ pets' = IF p = 0 THEN pets
                  ELSE [pets EXCEPT ![p] = [schedule |-> 0, ctx |-> @.ctx, live |-> FALSE]]
       /\ variables' = Front(variables)
       /\ UNCHANGED <<dummyCapture, ctxs, control>>
-----------------------------------------------------------------------------
(* Variables *)

Declare(class) ==
  /\ Running
  /\ variables' = Append(variables, Declared(class, 0))
  /\ UNCHANGED <<dummyCapture, ctxs, pets, objects, control>>

\* A variable made of another one, which stays.  For isl classes this takes a
\* reference; the defaulted move constructors of ScopedCtx and pet::Scop copy
\* the pointer.
Construct(k) ==
  /\ Running /\ variables[k].class \in IslClasses \cup Moved
  /\ objects' = IF variables[k].class \in Moved THEN objects
                ELSE Copied(objects, variables[k].ptr)
  /\ variables' = Append(variables, variables[k])
  /\ UNCHANGED <<dummyCapture, ctxs, pets, control>>

\* The argument is a copy, which leaves with the old value.
Assign(k, from) ==
  /\ control = "run" /\ k # from
  /\ variables[k].class \in IslClasses /\ variables[from].class = variables[k].class
  /\ objects' = Freed(Copied(objects, variables[from].ptr), variables[k].ptr)
  /\ variables' = [variables EXCEPT ![k] = variables[from]]
  /\ UNCHANGED <<dummyCapture, ctxs, pets, control>>

\* ::Scop::domain(): null for a null schedule.
DomainOf(k) ==
  /\ Running /\ variables[k].class = "schedule"
  /\ IF variables[k].ptr = 0
       THEN /\ variables' = Append(variables, Declared("union", 0))
            /\ UNCHANGED objects
       ELSE /\ MayMake(1)
            /\ objects' = Append(objects, New("union", objects[variables[k].ptr].ctx))
            /\ variables' = Append(variables, Declared("union", Len(objects) + 1))
  /\ UNCHANGED <<dummyCapture, ctxs, pets, control>>

\* schedule.get_root()
GetRoot(k) ==
  /\ Running /\ variables[k].class = "schedule" /\ variables[k].ptr # 0 /\ MayMake(1)
  /\ objects' = Append(objects, New("node", objects[variables[k].ptr].ctx))
  /\ variables' = Append(variables, Declared("node", Len(objects) + 1))
  /\ UNCHANGED <<dummyCapture, ctxs, pets, control>>

\* isMatching with a matcher made without capture: the node goes to the static
\* one and stays there until the next match.
MatchUncaptured(k) ==
  /\ control = "run" /\ variables[k].class = "node" /\ variables[k].ptr # 0
  /\ objects' = Freed(Copied(objects, variables[k].ptr), dummyCapture)
  /\ dummyCapture' = variables[k].ptr
  /\ UNCHANGED <<variables, ctxs, pets, control>>

FreeObject(o) ==
  /\ objects' = Freed(objects, o)
  /\ variables' = Front(variables)
  /\ UNCHANGED <<dummyCapture, ctxs, pets, control>>
-----------------------------------------------------------------------------
\* The end of a block, or one step of unwinding.
DestroyLast ==
  /\ control \in {"run", "unwind"} /\ variables # << >>
  /\ LET last == Last(variables) IN
     \/ last.class = "ScopedCtx" /\ FreeCtx(last.ptr)
     \/ last.class = "PetScop" /\ FreePetScop(last.ptr)
     \/ last.class \in IslClasses /\ FreeObject(last.ptr)

\* The caller, a test framework, goes on after an exception.
Catch ==
  /\ control = "unwind" /\ variables = << >>
  /\ control' = "run"
  /\ UNCHANGED <<variables, dummyCapture, ctxs, pets, objects>>

\* The end of the program destroys the static capture.
Exit ==
  /\ control = "run" /\ variables = << >>
  /\ objects' = Freed(objects, dummyCapture)
  /\ dummyCapture' = 0
  /\ control' = "exit"
  /\ UNCHANGED <<variables, ctxs, pets>>

Next ==
  \/ AllocCtx \/ DestroyLast \/ Catch \/ Exit
  \/ \E class \in IslClasses : Declare(class)
  \/ \E k \in DOMAIN variables :
       \/ ParseFile(k) \/ GetScop(k) \/ Schedule(k)
       \/ Construct(k) \/ DomainOf(k) \/ GetRoot(k) \/ MatchUncaptured(k)
       \/ \E j \in DOMAIN variables : AssignSchedule(k, j) \/ Assign(k, j)

Spec == Init /\ [][Next]_vars
-----------------------------------------------------------------------------
(* Properties *)

Classes == IslClasses \cup {"ScopedCtx", "PetScop"}

\* The pointers a variable of a class may have; a context is never null.
Allocated(class) ==
  IF class = "ScopedCtx" THEN DOMAIN ctxs
  ELSE IF class = "PetScop" THEN 0..Len(pets)
  ELSE 0..Len(objects)

TypeOK ==
  /\ variables \in Seq([class : Classes, ptr : Nat])
  /\ \A k \in DOMAIN variables : variables[k].ptr \in Allocated(variables[k].class)
  /\ dummyCapture \in 0..Len(objects)
  /\ ctxs \in Seq({"live", "freed", "lost"})
  /\ pets \in Seq([schedule : 0..Len(objects), ctx : DOMAIN ctxs, live : BOOLEAN])
  /\ objects \in Seq([class : IslClasses, ctx : DOMAIN ctxs, refs : Int])

Holders(o) ==
  Cardinality({k \in DOMAIN variables :
                 variables[k].class \in IslClasses /\ variables[k].ptr = o})
  + Cardinality({p \in DOMAIN pets : pets[p].live /\ pets[p].schedule = o})
  + (IF dummyCapture = o THEN 1 ELSE 0)

\* Through every mixture of scops, copies, assignments through the wrapper,
\* captures and exceptions, an object has as many references as holders: none
\* is freed while someone holds it, none stays when nobody does.  Contexts and
\* scops are not counted: each is freed once, and never used afterwards.
ReferencesAreCounted ==
  /\ \A o \in DOMAIN objects : objects[o].refs = Holders(o)
  /\ control \in {"run", "unwind", "exit", "null scop dereferenced"}
  /\ \A k \in Variables("PetScop") : variables[k].ptr # 0 => pets[variables[k].ptr].live
  /\ \A k \in Variables("ScopedCtx") : ctxs[variables[k].ptr] = "live"

\* What this rests on: a context or a scop has one variable, and a scop that was
\* not freed still has it.
OwnersAreUnique ==
  \A j, k \in DOMAIN variables :
    /\ variables[j] = variables[k] /\ variables[j].ptr # 0
    /\ variables[j].class \notin IslClasses
    => j = k

LiveScopsAreOwned ==
  \A p \in DOMAIN pets : pets[p].live =>
    \E k \in Variables("PetScop") : variables[k].ptr = p

IInv == TypeOK /\ ReferencesAreCounted /\ OwnersAreUnique /\ LiveScopsAreOwned

HoldsInCtx(var, c) ==
  \/ var.class \in IslClasses /\ var.ptr # 0 /\ objects[var.ptr].ctx = c
  \/ var.class = "PetScop" /\ var.ptr # 0
       /\ LET pet == pets[var.ptr]
          IN  pet.ctx = c \/ (pet.schedule # 0 /\ objects[pet.schedule].ctx = c)

\* The destructor of ScopedCtx really frees the context, as ctx.h says, unless a
\* variable declared before it or a static capture still holds an object of it;
\* then the context is lost.
ContextIsFreedUnlessOutlived ==
  [][\A c \in DOMAIN ctxs : ctxs[c] = "live" /\ ctxs'[c] # "live" =>
       (ctxs'[c] = "lost" <=>
          \/ \E k \in 1..(Len(variables) - 1) : HoldsInCtx(variables[k], c)
          \/ dummyCapture # 0 /\ objects[dummyCapture].ctx = c)]_vars

\* ctx.h: "Move-constructible to enable ownership transfer."
FreedOnce == control \notin {"context freed twice", "scop freed twice"}

=============================================================================
