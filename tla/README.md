# Formal models of islutils

islutils is a C++ library on top of isl and pet. It finds structures in
polyhedral programs and rewrites them: *access matchers* look for combinations
of access relations, *schedule tree matchers* look for subtrees of a schedule,
*builders* construct subtrees, and a thin wrapper of pet parses C and prints the
scheduled program again. The modules in this directory model the parts of the
library that have control of their own; isl and pet are external and appear only
as the values they return.

Run a model with `tlc -config <cfg> <module>`, and the proofs with
`tlapm <module>`, for the modules whose names end in `Proofs`.

## 1. Inventory

| Component | Code | State it keeps | Operations | What makes it correct |
|---|---|---|---|---|
| Placeholder sets | `access.h`, `access-inl.h` | placeholders, groups, folds, group folds | `allOf`, `isSuitableCombination`, `Match::operator[]` | folds mean equality, groups mean one relation each; a check on a prefix never rejects what can still become valid |
| Access matcher | `access-inl.h` | candidate lists, recursion of the search, matches | `match`, `recursivelyCheckCombinations` | all valid combinations are returned, each once, and nothing else |
| Find and replace | `access-inl.h` | original and transformed relations | `findAndReplace`, `transformOneMap` | no relation is lost or rewritten twice; rewriting follows the match |
| Access patterns | `access_patterns.{h,cc}` | none | `candidates`, `transformMap`, `access`, `stride` | positions in range; the rewritten relation has every access of the original, with the replacement's subscripts; a stride that is reported is the distance along the whole loop |
| Tree matchers | `matchers*.{h,cc}` | captures, forests, callback results | `isMatching`, `hasSibling`, `hasDescendant`, ... | the answer is structural; captures are those of the match that succeeded |
| Builders | `builders.{h,cc}` | tree and cursor | `insertAt`, `expandTree`, `build`, `subtreeBuilder` | the tree built is the one described; the cursor is back at its root |
| Code generation | `pet_wrapper.{h,cc}` | static counter, statement descriptors | `Scop::codegen`, `at_domain`, `printStatement` | every occurrence is printed from its own statement and schedule |
| Placeholder ids | `access.h` | thread-local counter | constructor, `pattern_cast` | different placeholders have different ids |
| Ownership | `pet_wrapper.h`, `ctx.h`, `scop.h` | one isl or pet object each | move, assign, destroy | freed once, never used after |
| Set and map makers | `locus*.h` | none | `==`, `!=`, `<`, ... | the set of points that satisfy the comparison |
| Rewriting drivers | `test/utils.h`, `test/test_transformer.cc` | the node under transformation | `rebuild`, `replaceRepeatedly`, `mergeIfTilable` | termination; only the matched subtree changes |
| BLAS finder | `test/blas_*.h` | lists of accesses | `findPatterns`, `find*` | a kernel is reported only if access and tree agree |

**How they interact.** `findAndReplace` calls `match` once on the whole union map
and once more, for a single relation, per replacement and relation. `match` calls
`CandidateTy::candidates` for every pair of placeholder and relation and
`isSuitableCombination` for every partial combination. `isMatching` calls user
callbacks, and the ready-made callbacks start new matches while the outer one is
on the stack; they share captures by reference. Builders read those captures
lazily, when the tree is built. `codegen` hands C callbacks to isl, which call
back into the library once per user node while the AST is built and again while
it is printed; the second pass calls a custom function that may do anything,
including generating code.

**What is hard here.** Nothing is persisted and no messages are sent. The hazards
are backtracking searches whose cuts must be safe, state written on the way to a
failure (captures, stacks), results recomputed in a smaller context
(`transformOneMap`), re-entrant callbacks, and process-wide state shared by
threads (the counter of `at_domain`), and objects that outlive the context they
live in (static captures, members declared before it). PROJECT.json
lists each of them at its line.

## 2. Modules

| Module | Models | State and actions |
|---|---|---|
| `PlaceholderSets` | `allOf`, the fold, group and array checks, `Match` and its lookup | pure operators; folds and groups are computed as the code does |
| `Locus` | the set and map makers | pure operators on partial functions to integers |
| `AccessPatterns` | `SingleInputDim` and stride patterns at an output position, `transformMap` | pure operators, step by step as in the code; a relation maps each point of a finite box to the set of index tuples it accesses |
| `StrideMatching` | `match` with stride patterns | the actions of `AccessMatcher`; the properties say what a match means for the iterations of the loop |
| `AccessMatcher` | `match` | `FillCandidates`, `EarlyExit`, `NextPlaceholder`, `StartSearch` for stage 1; `Reject`, `Accept`, `Branch`, `Try`, `Exhausted`, `Resume`, `Finish` for one call of `recursivelyCheckCombinations`; `frames` is its stack |
| `MatchSpec` | what `match` promises | assignments of a relation to each list and a payload to each placeholder; `Find` returns one that was not returned yet, `Finish` only when none is left |
| `FindAndReplace` | `findAndReplace` and `transformOneMap` | extends `AccessMatcher`, whose steps run in the stage `"match"`; then one action per step of the loops and one per `ISLUTILS_DIE`; `result` is the map that `transformOneMap` is rewriting |
| `TreeMatcher` | `isMatching`, `has*Sibling`, `hasDescendant` | explicit call stack of matches and searches; one action per early return |
| `Codegen` | `Scop::codegen` and its callbacks | calls nested per thread; reading and writing the static counter are two steps |
| `ScheduleTrees` | the isl operations on schedule trees that builders use (external) | pure operators; a tree is a function from positions to nodes, a handle is a tree and a position |
| `Builders` | constructors of builders, `insertAt`, `expandTree`, `build`, `subtreeBuilder` | `cursor` is the node handle passed down and returned, `calls` the position in each active builder; one action per node type and per way to return |
| `Rewriter` | `rebuild`, `replaceRepeatedly`, `replaceDFSPreorderRepeatedly`, `mergeIfTilable` | extends `Builders`; the walk over the tree matches, cuts, runs the builder and moves on; captures are handles to the tree as it was when matched |
| `Ownership` | `ScopedCtx`, `pet::Scop`, `IslCopyRefWrapper`, `::Scop`, static captures | `variables` is the stack of C++ variables, destroyed in reverse order; contexts, scops and isl objects are on a heap with reference counts |
| `AccessMatcherProofs` | theorems about `PlaceholderSets`, `AccessMatcher` and `MatchSpec` | what `allOf` lays out, safety of `match` and its inductive invariant, safe cuts and completeness |
| `StrideMatchingProofs` | theorems about stride patterns in `AccessPatterns` and about `StrideMatching` | |
| `FindAndReplaceProofs` | theorems about `FindAndReplace` | |
| `TreeMatcherProofs` | theorems about `TreeMatcher` | |
| `CodegenProofs` | theorems about `Codegen` | |
| `OwnershipProofs` | theorems about `Ownership` | |
| `RewriterProofs` | theorems about `Builders` and `Rewriter` | and about the operators of `ScheduleTrees` they use |
| `BuildProofs` | the theorem that `build` makes what is described | extends `RewriterProofs` |

`AccessMatcher` takes `Candidates` as a parameter, so that its proofs hold for every
kind of pattern; the runs give it `SingleInputDimCandidates` or `StrideCandidates` of
`AccessPatterns`.
`IsSuitableCombination` is the conjunction in the order of the code; what a fold or
a group means is stated independently in `IsValidCombination`, without folds.
Definitions marked "Variant" are changed forms of the definition that follows
them; no specification uses them. Each says what kind of mistake a property of
the module would notice.

**Abstractions.** A relation is known by its space (the relations of a union map
have different spaces). What it relates is computed with: boxes of a few points
per dimension stand for the unbounded parametric domains of isl, large enough to
tell the input dimensions apart. isl may represent one affine access in several
pieces, which the code rejects; here an access that is one affine form on its
domain counts as one piece. A candidate payload is an input dimension; `match`
runs with relations by name and a table of their candidates, computed once.
Relations are visited in any of the orders listed in the MC module (`foreach_map` promises none). In
`FindAndReplace` the relations of one match are processed in any order. Erasing it from
the originals and appending its replacement are one step, as nothing reads the lists in
between. A pattern always has its position: the check for one left unset
(`access_patterns.h:53`) is not in the model. Trees and
matchers are flat tables; a matcher node is part of at most one other, as children and the
matchers of callbacks are held by value, and it has a capture of its own; the null
node that `isMatching` rejects first does not arise, because the searches only pass
existing nodes. `hasDescendant` visits the node itself first, as the isl traversal
does. In `ScheduleTrees` filters are sets of statements, the members of a band are
names, and simplifications of payloads by isl are left out; an expansion maps
statements to statements; all the assertions of the builders end in `aborted`, as does the
`std::out_of_range` of an expansion without child, and that of a filter with several
children fails on entry to the sequence rather than in its loop; a dependence is the statements it relates and its
distance along each member, which is what `canMerge` computes from it. The matcher of `mergeIfTilable` is matched in one step:
`TreeMatcher` models how, and when its child callback accepts, nothing after it can
fail, so the three captures are always written together. In `Codegen` the order in
which isl prints nodes is left open. In `Ownership` isl objects are a schedule, a node or a union, each in one context;
`isl_ctx_free` leaves a context alone while one of its objects exists. Behaviour that is
undefined in C++ ends the modelled program, with a value of `control` that names it. Returning a
wrapper by value does not move it, as every compiler elides that. The wrapper of
`Scop::schedule()` is used in the statement that makes it, so that reading and
assigning through it are actions of the scop.
`ISLUTILS_DIE` and `assert` end the program, which is what the default build of the
repository does (no build type, hence no `NDEBUG`, and no `ISLUTILS_EXCEPTIONS`).

## 3. Runs

| Run | Checks | Bounds |
|---|---|---|
| `match` | stack discipline, soundness, safe cuts, refinement of `MatchSpec`, termination | up to three relations of two arrays, depth-3 loop nests, six pattern shapes (single, transposed, chain, stencil, with an empty list, last dimension) with and without array placeholders |
| `replace` | no relation lost or duplicated, rewriting agrees with the match, every access is rewritten and none added to a single-valued relation on its domain, dies only on ambiguous input, termination | one to three relations: permuted, diagonal and partial accesses, sums that are a variable on their domain, several indices per point; seven sets of replacements that swap, scale or shift dimensions, use unknown placeholders or more dimensions than there are |
| `strides` | accesses that match advance by the stride along whole runs of the innermost loop; exactly the strided accesses are counted; different stride placeholders exclude each other. TLC also evaluates `MakersAssumption`: the set and map makers, but for `!=` on sets, on all partial functions from two points to three values | every partial access to two elements in a loop of four iterations and in a nest of two by two, affine accesses, with four sets of active points and with none; strides -1 to 2; pairs of accesses |
| `tree` | structural verdict, justified calls, captures, misplaced forests, termination | trees with one, two and three filters; matchers of up to five nodes; one callback anywhere on a filter, or two nested |
| `forest_combined` | expected violation | same |
| `expansion` | expected violation | two matchers with an expansion |
| `codegen` | unique occurrences, own schedule printed, reasons to die, termination | two calls of up to three nodes in one thread, sequential or nested; counter modulo 3 |
| `rewrite` | the tree built is the one described, insertion composes schedules and is local, assertions fail exactly for malformed descriptions; merging preserves the schedule, merged bands stay tilable, nothing is left to merge, termination | expressions of up to three levels over every node type, with lazy leaves; expansions of statements below other nodes and within each other; insertion at four places; chains of four bands, with and without a mark, and a branching tree under every choice of distances of one dependence, and pairs of dependences |
| `context_by_copy` | expected violation | a context given as a plain set above one- and two-level descriptions |
| `ownership` | references and holders agree in every state, nothing is used after it is freed, a context is freed unless something outlives it | five variables, two contexts, two scops and three isl objects ever made; no moves of owners |
| `scoped_ctx` | expected violation | three variables, one context, moves of `ScopedCtx` |
| `not_equal` | expected violation | partial functions from two points to three values |

The bounds cover the cases the code distinguishes: three relations and three lists
are the least for which a group can clash with a group that is not its neighbour
and for which a fold spans groups; three siblings are the least for which a search
passes one sibling to reach another; four iterations are the least with a run that
skips one and goes on, five variables the least with a context, a scop and both
parts of its copy below an earlier variable; a counter modulo three wraps within two
calls; four bands are the least for which a merged band lies below another merge, so
that rebuilding could undo its flag, and three levels of description the least with
a node below a grandchild of a sequence. A larger depth only adds candidates that behave alike.

**Fairness.** `match`, `findAndReplace`, `isMatching`, `build` and `mergeIfTilable` are
sequential functions:
weak fairness of the whole next-state relation says that the thread keeps running.
`Ownership` and `StrideMatching` need none: they state safety only.
`Codegen` assumes fairness for each call, which only says that every thread is scheduled
and that a program that may call `codegen` eventually does.

**Deadlock** is not checked: a function that returned, or a program that died, has
no further step; that they do get there is the liveness property of each run.

### What the expected violations show

- `forest_combined`: `isMatching` says that a forest cannot be combined with other
  matchers, but looks at the siblings of the tree node only. A forest that comes
  first among several matchers takes all children, and the others match them again.
- `expansion`: `toIslType` has no case for `Expansion`, so every matcher made by
  `expansion(...)` runs into its assertion.
- `context_by_copy`: the overload `context(isl::set, child)` forgets its child; all
  other overloads that take a plain value pass it on.
- `scoped_ctx`: a `ScopedCtx` is "move-constructible to enable ownership transfer",
  but `isl::ctx` is a plain pointer that a defaulted move copies: both objects free
  the context. `pet::Scop` is defaulted over a raw pointer in the same way. No code
  of the repository moves one, other than by elided returns.
- `not_equal`: the set maker `!=` calls `eq_set`, for affine and for piecewise affine
  functions.

Other observations contradict no statement of the repository and are not listed
as findings:

- A node whose only child matcher is `anyForest()` is matched but not captured,
  because the early return at matchers.cc:70 skips line 73. `CapturesFollowTheMatch`
  states exactly that.
- An extension builder drops the subtree at the insertion point, where all other
  builders keep it below the new node; `InsertsAbove` states what is kept.
- `subtreeBuilder` resets the permutable and coincident flags of bands.
  `MergedBandsArePermutable` shows that `mergeIfTilable` is not harmed by this: it
  works top down, so that a band it has marked is never part of a subtree it rebuilds.
- `expandTree` expands the whole schedule: a statement that is also scheduled
  elsewhere is expanded there as well. `ChangesAreLocal` is about the other ones.
- `transformOneMap` dies for a relation that fits two patterns when it is alone, even
  if the whole set placed only one on it, as with `access(_1, _2)` and
  `access(_2, _3)` on a chain of two relations.
- `2 * (_1 + 1)` matches `2x + 1`: the factor does not apply to the constant.
- In a statement without loops, `mapToNext` relates the only point to itself, and an
  access has stride zero.
- The test fixture `Schedule` (test_transformer.cc:115) declares its scop before its
  context, which is therefore lost, as `ContextIsFreedUnlessOutlived` describes.
- The counter in `at_domain` is shared by threads without synchronisation. `Codegen`
  has a thread per call; when two calls run in two threads, one can write back a
  number the other has used, and two occurrences get the same "unique identifier". The library does not promise that `codegen` may run in several
  threads.

## 4. Proofs

The theorems hold for all values of the constants that satisfy the named assumptions
of the modules; TLC evaluates these on every instance of the runs. They are what the
code or isl guarantees:

- `CandidatesAssumption`: the candidates of an access have no repetitions.
- `ProblemsAssumption` of `AccessMatcher`: the accesses of a union map have different
  spaces, and the placeholder set is one that `allOf` returns.
- `StrideAssumption`: relations are over finite sets of integer tuples of one length
  in which the innermost loop has no holes, and the candidates are those of `StridePattern`.
- `ReplaceAssumption`, `RelationAssumption`: the replacements are those of the lists
  given to `allOf`; a relation has a number of dimensions.
- `ProblemsAssumption` of `TreeMatcher`: a tree is a tree, numbered in the order isl
  visits it in. A matcher is used by one other, as a child or in a callback, as
  matchers are moved into their parents; `anyTree` and `anyForest` have neither
  children nor callback, as their constructors take none.
- `JobsAssumption`, `ModulusAssumption`: an AST has at most as many occurrences as the
  counter has values.
- `RewriterAssumption`: a tree has finitely many nodes, with the parent and the elder
  siblings of each, and exactly its leaves have no child; a description has such a
  shape too. No mark but that of `expandTree` has its name, `__islutils_expand_builder`.

Two assumptions restrict the program, not the library, and are hypotheses of the
theorems that need them: `Moved = {}` (no owner of a context or scop is moved, the
run `scoped_ctx` shows why) and `OneThread` (code is generated in one thread).

### `match`

`AccessMatcherProofs` states `TypeOK`, `StackMatchesCombination`, `MatchesAreSound` and
`LookupsSucceed` as theorems. `IInv` is the inductive invariant. Soundness of
the matches alone is not inductive: a match is accepted from `partialCombination`, so one has to know
that this is made of elements of the candidate lists (`StackMatchesCombination`) and
that those come from the union map (`CandidatesAreOffered`). `FoldsReflectIds` reduces
folds to identifiers, and with it `SuitableIffValid` shows that on a full combination the
checks by folds accept exactly the combinations of `IsValidCombination`;
`PrefixOfSuitable`, that rejecting a partial combination is safe. `LookupsSucceed` is
no step invariant but follows from soundness.

The module goes on to prove that the code loses nothing: `CutsAreCorrect`, and
`MatchIsComplete`, the refinement `ImplementsMatchSpec`. The abstract state is the
sequence of assignments found, so "each once" is part of it. `SearchInv` adds what
the refinement needs: stage 1 lists every candidate once (`CandidatesAreComplete`,
`CandidatesAreDistinct`), everything the loops of the active calls have passed is
covered by a match (`TriedAreCovered`), and every match is something they have passed
(`MatchesAreTried`). `Accept` then finds an assignment that is new, as it is not
passed yet, and `Finish` leaves none, as all are passed; all other steps stutter.
What both need about `allOf` is `AllOfLayout`. Positions
and groups are recursive functions of the lists; facts about all lists are proved by a
least counterexample (`LeastElement`, `IntervalInduction`).

### Strides

`StridePattern` compares each point of the domain with its successor only, and
compares sets of deltas. `CandidatesAreStrided` proves that this decides `IsStrided`, which
speaks of all pairs of iterations of a row however far apart, by summing up the
steps between them (`StepsAddUp`, by induction on their distance), for boxes and sets of active
points of any size. That matches advance by their stride, that they are counted right
and that different placeholders exclude each other follows from it and from what is
proved of `match`: soundness for the matches that are found, completeness (`DoneIsComplete`) for those that
exist, and `NoMatchTwice` for their number.

### `findAndReplace`

`ReplaceInv` is `IInv`, the type, `EveryRelationOnce` and `Progress`, which says what the
three loops have done: a relation is no longer original exactly if an earlier match
contains it or the current one has given it up. Without it a relation that was erased
could come back. Theorems: `ReplaceTypeOK`, `EveryRelationOnce`, `MatchedAloneToo`,
`EndsExactlyWhenAmbiguous`; also `UnmatchedAreCopied` and `ReplacesAsMatched`, the part of
`ResultIsAsMatched` that is about which replacement is applied to which relation.
`MatchedAloneToo` is the interesting one: the part of a match that lies on one relation
is itself a suitable combination of the placeholder set of that one list.
`EndsExactlyWhenAmbiguous` goes both ways. That the message is true follows from the
invariant at the step that ends the program; that a call which comes to its end was given
no such relation needs `PassedAreFit`: a relation in a match passed was taken there and by
no other match passed, and a single replacement fitted it and could be applied.

### Tree matchers

`MatchedBy`, the reference definition, is a recursive function over the matcher table.
`MatchedByUnfolds` shows that it satisfies its equation, by building partial
solutions from the last matcher down; this is where children have to come
later in the table. `SearchState` is the inductive invariant. It says of the call stack
that every frame is justified (`JustifiedFrames`: the children or candidates passed have
matched, or failed, as the frame says), that every call is one its caller makes
(`CallPairs`), and that the answer just returned is right for the frame that gets it
(`Answers`). `VerdictIsStructural`, `ActiveCallsAreJustified`, `CapturesAreMatches` and
`DiesOnlyForMisplacedForest` follow: the search with its early returns, nested
callbacks and the turn of `hasSibling` computes `MatchedBy` for trees and matchers of any
size. What the searches visit is shown to be what `Related` promises, for descendants from the
preorder of the tree: `NonePrevious`, `NoneNext`, `NoneDescends`.

`CaptureState` is the second invariant, for `CapturesFollowTheMatch`. There is a set of
pairs of a matcher and a node that the captures follow: each pair has its node in its
capture, the callback's node in that of the callback, and its children in the set again.
The set has in it what every call under way has behind it (`Settled`), and what its callee has
just found (`Told`). The invariant needs the set because nothing else remembers where the
children of a finished call were matched. A match that returns writes one capture and adds one
pair; the pairs of an earlier attempt at the same matcher and at those it is part of are
dropped, as their captures may be overwritten. That this disturbs no caller is
`CallersStaySettled`: what the callers have behind them belongs to other parts of their
matchers, and `PartsAreApart` shows, from the assumption that a matcher node is part of
at most one other, that different parts have nothing in common. `ImageIsFollowed` then
reads the image of the whole match off the set, from the root down.

### Code generation

`AllCallsOK` describes one call at a time and suffices for types and
`DiesOnlyForItsCustom` with any number of threads. `OccurrencesUnique` is not about one
call: another one increments the counter in between. `ThreadInv` says that the numbers of a call
are consecutive modulo the counter's width and that the counter is the next one while the
call builds; nested calls only run after the descriptors of the outer one are
complete, so that `BuildsInnermost` makes it inductive. `PrintsOwnOccurrence` follows, as
the search for the descriptor finds the only one with that identifier.

### Ownership

`Balanced` counts the holders of each object: what each action adds to or takes from the
number of references is what it adds to or takes from the holders. It needs no
hypothesis on moves: `ObjectsAreCounted` holds in programs that move contexts and scops, in
every state up to the operation that is undefined: a use of a freed context or scop, a second
`isl_ctx_free`, or the dereference of an empty wrapper. The model stops there and nothing is
claimed of what comes after. `Owned` says that every scop that is alive
and every context has exactly one variable, and is what `Moved = {}` buys:
`ReferencesAreCounted` and `ContextIsFreedUnlessOutlived`, an action property.

### Schedule tree builders and rewriting

`insertAt` passes a handle down and gets it back, through recursion, loops over siblings,
builders that start inside others and an expansion that replaces the whole tree. `TypeCorrect`
says that the handle is at a node of its tree throughout and each call at a node of its
builder. For that, `IInv` has to know where every active call is in the *tree* as well as in its
builder. `FrameInv` gives each call of the stack a base, the position in the tree where its builder
starts: what the call has to come back to, base and position in the builder put together, is in
the tree, and so are the children that a sequence has still to visit (`FramedBy`). An expansion
waits with the tree it came from, in which its base is; that a mark with the reserved name is in this
tree once, and is found by `dfsFirst` in the expanded one where the expansion was, is `MarkInExpanded`.
`CallsInv` says that each call is at a node of its builder, and what marks are in the trees that wait
(`Expandable`).

`ChangesStayBelow` is the locality of every single step, from lemmas about `Graft` and
`Expand`. Its hypothesis, `ReachesOnlyBelow`, is about `expand`, which isl applies to the whole
schedule: the statements that are contracted reach no leaf outside of the subtree. Nothing in
`builders.cc` ensures that, it follows from the filters a program uses.

`AbortsAsDescribed` compares two things said in different ways: `IsProper`, a description seen
as a whole, and the assertions, which `insertAt` meets one by one, at depths and in an order that
recursion, sibling loops and nested builders decide. Its invariant, `BuildInv`, says of each call
on the stack that the nodes it has *passed* can be built (`Fine`). `Passed` is what lies above
the position of the call, below an elder sibling of anything above it, or, once the call has
returned, below it; each step adds the node it has just checked, and when the first call comes back at
its root nothing is left out. A lazy leaf or an expansion passes its node on to another builder, so
`WaitsFor` keeps, for each pair of neighbours on the stack, which builder the upper call works on:
the captured subtree, copied, or the part below the expansion. When the upper call has come back all
of that is fine, and so is what the lower one waited at. The other direction, that a failing
assertion means an ill-formed description, needs that the builders of all calls are fine
everywhere if the description is, `CallFine`. The hypothesis `IsPlain` excludes
`context(set, child)`, which forgets its child (the run `context_by_copy` and the finding are about
it), and says what isl and the constructors give: schedule trees with their domain at the root,
filters below sequences and sets and no identity for an expansion, and descriptions in which
only `subtree(...)` is lazy and an expansion has at most one child. TLC evaluates
it on the problems of the run `rewrite` (`MCProblemsArePlain`).

`BuildsAsDescribed` (in `BuildProofs`) states `BuildsWhatIsDescribed`. `Described` gives the result at
once: the description, with a copy of the captured subtree put at each lazy leaf. `insertAt` gets there
by replacing leaves: below a sequence or set it inserts all filters first and comes back for what
is below each, and a lazy leaf starts another `insertAt`, on the copy, at a handle inside the tree
that is being built. So no state in between is a part of the result cut off at some depth.
`Built(D, at, returning)` names the nodes of the described tree D that are in place when
recursion is at a position: those it has passed, and the filters next to them that are
waiting. `MadeInv` says that the tree at the cursor is exactly that: its nodes are the built ones and
a leaf wherever the next is missing (`Grows`), its path is the one of the described tree that
belongs to the position in the builder, and a second call, if there is one, is on the copy
of the captured tree at a lazy leaf. With a base per call, both calls are instances of one statement,
as each builder is a part of D from its base on (`IsPart`). Each kind of insertion is then one
lemma about a leaf that becomes a node (`LeafGrows`, `NodeGrows`, `FiltersGrow`), and each kind of
return adds nothing. When the first call comes back at its root everything is passed
(`AllIsBuilt`). The hypotheses are `IsPlain` and `IsDirect`: nothing is expanded, neither the
description nor the captured tree; nodes have the fields their constructors give them; every
node but a leaf has a child. TLC evaluates it on the problems `Builds` of the run `rewrite`
(`MCBuildsAreDirect`).

### What stays with TLC

- Termination (`Returns`, `ReplaceReturns`, `CallsReturn`): liveness under fairness.
- `ResultIsAsMatched` and `AccessesAreReplaced`: they compute relations point by
  point, with operators whose value for all boxes needs induction over data.
- `BuildsWhatIsDescribed` where a description or the captured tree contains an expansion.
- What `insertAt` above existing nodes, expansions and `mergeIfTilable` mean
  (`InsertsAbove`, `ScheduleIsPreserved`, `MergedBandsArePermutable`, `NothingLeftToMerge`):
  schedules and domains are folds along a path, and that two of them agree needs induction over
  descriptions and trees. Proved of them is where they change the tree and when they abort.

## 5. Plan

In this order, most important behaviour first.

1. *Done:* all modules of section 2; safety and completeness of `match`; safety of
   `findAndReplace` up to the relations computed; stride patterns; safety of `isMatching`, `codegen` and
   ownership.
2. Proofs: `NothingLeftToMerge`, as an invariant on what the walk has passed.
3. Statements added by extensions, AST options of bands.

## 6. Not modelled

- The BLAS finder and the CUDA printer of the sample program in `src/test`: the
  first is outside of the library and has undefined behaviour on most paths
  (no return value, iterators used after their elements are erased, a null pointer
  passed for the node), so that there is little to state about it; the second is text.
- Type traits and operators: compile time only.
- The counter of placeholder ids: `PlaceholderSets` takes ids as given, equal for the
  same placeholder and its casts. `allOf` with an array placeholder for an empty
  list, which shifts the array folds (access-inl.h:467), is excluded by the problems.
- pet's parsing and expression building and the set operations of isl: external.
