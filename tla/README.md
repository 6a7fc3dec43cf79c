# B-2 in TLA+

TLA+ models of the B-2 compiler and runtime, checked with TLC on small instances and, where marked,
proved with TLAPS for every value of the constants. Every definition is translated from the C++ under
`src/`; `PROJECT.json` maps definitions to source lines.

## The system

B-2 compiles a Java subset to RBC, a register bytecode. A verifier accepts or rejects each method, and
three tiers are designed to execute it.

| Part | Source | State in this project |
|---|---|---|
| Java frontend (lexer, parser, lowering to RBC) | `compiler/frontend` | not modelled |
| RBC container, builder, text form | `compiler/rbc` | not modelled |
| RBC verifier | `compiler/rbc/src/Verifier.cpp` | partly: its structural guarantees are `WellFormed` in `Interp` |
| T0 interpreter | `compiler/interp/src/Interp.cpp` | `Interp` (safepoint flag and statistics left out) |
| Runtime and heap of T0 | `compiler/interp/src/Runtime.cpp`, `Heap.cpp` | `Runtime`, partly |
| T1 copy-and-patch baseline: plans, stencils, engine | `compiler/baseline`, `compiler/codegen` | not modelled |
| T2: sea-of-nodes graph, verifier, serialization | `compiler/ir` | `NodeInfo`; `Graph`, partly: mutations, use lists, replacement log, save and reload with the verifier's edge checks |
| T2: graph builder and passes | `compiler/passes` | not modelled |
| T2 lowering | `compiler/codegen/src/T2Lowering.cpp` | not modelled |
| Partial deoptimization: dependency index | `compiler/pipeline/src/DependencyIndex.cpp` | `DependencyIndex`, `DependencyMap` |
| Partial deoptimization: dirty closure | `compiler/pipeline/src/DirtyClosure.cpp` | `DirtyClosure` |
| Partial deoptimization: region safety, guard hook | `compiler/pipeline/src/RegionSafety.cpp`, `PartialDeopt.h` | not modelled |
| GC, AOT, register allocator | `docs/gc.md`, `docs/aot_contract.md`, `docs/regalloc_contract.md` | no code to model |
| TurboScript VM | `turboscript/` | not modelled |

How they interact. The frontend produces a `Program`; `Interpreter::run` verifies it and executes it in
T0, whose `Runtime` (heap, statics, class state, counters) lives across calls. A T1 activation that traps
rebuilds a `Frame` and hands it to `Interpreter::resume`. T2 speculates; the assumptions a compiled
method makes are to be recorded in the `DependencyIndex`, a broken assumption yields a dirty set,
`expandDirtyClosure` grows it along the graph's def-use edges, and `checkRegionSafety` decides whether
a partial rebuild is possible. In this version that last chain is exercised by unit tests only.

## Modules

### `Runtime` and `Interp`: the T0 interpreter

`Runtime` is a library of operators on the record `rt`: the objects (class, slots, array flag, monitor
count), statics, field layout, interned strings, class objects, the initialized flag of the program
class and the counters. `Interp` has the variables of `Interpreter`: `rt`, `frames` (top last),
`siteICs`, `dispatchProfiles`, the status and result of the last call, and the number of calls so far.

* One action retires one instruction of the top frame, whole: its traps, its cache fill, its profile
  record and its frame push or pop are one step, as in the code, which is single-threaded.
* Opcode families that differ only in the payload they compute are one action (`Produce` stands for
  constants, arithmetic, conversions and comparisons; `Divide` for the four that can trap).
* Values are tags and references. What depends on the payload of a primitive (a branch on an int, a zero
  divisor, an index, a length) is a free choice, so the model has every behaviour of the program for
  every input.
* `throwException` is the search of `Interp.cpp` (innermost frame first, table order within a frame, the
  range tested at the caller's pc); dropped frames release their monitors in the same step.
* `Run`, `Refused` and `Resume` are the client's calls. `Resume` takes any frame of `ResumeFrames`, with or
  without a pending exception.
* The program is a constant. `ProgramAssumption` states what the RBC verifier guarantees of it
  (`WellFormed`); TLC evaluates it for each program used.

`MCInterp` holds the programs.

### `DependencyMap` and `DependencyIndex`

`DependencyIndex` is the sorted vector with `record` (lower bound, duplicate test, insertion),
`retireMethod` (erase-remove), `invalidate` and `distinctDependencies`. `live` and `shared` are history
variables: what the recorded associations were before duplicates were dropped. `DependencyMap` is the
promise, a map from key to the first method that recorded it; the vector implements it under the
mapping `Map`.

### `NodeInfo` and `DirtyClosure`

`NodeInfo` is the registry of node kinds. `DirtyClosure` is `expandDirtyClosure`: the vector is always
sorted, so it is modelled as the set of its members and `dirtyNodes[i]` is the i-th smallest (`Nth`).
Inserting a node below the index shifts the elements, exactly as `vector::insert` does: the model
reproduces that some nodes are visited twice in a round and others only in the next one. When the limit is
hit in the middle of a use list, the model lets any prefix set have been inserted, because the order of a
use list depends on the history of the graph.

### `Graph`: the container of T2

The variables are the node array (`nodeCount`, and per node its Dead and Replaced flags and its epoch tag),
the edge slice of each node (`inputs`), the use lists (`uses`), the replacement log and `epoch`. One action is
one mutator: `Make` (every maker goes through `makeRaw`), `setInput`, `appendInput`, `replaceNode`,
`killNode`, `nextEpoch`; `Reload` is `serialize` followed by `deserializeInto` into a new graph, which succeeds
only if the verifier accepts the result.

* The graph never looks at a kind or a payload, so neither is in the model. The verifier does; its checks on
  edges are `LoadGate`, and failing another of its checks is a reload that does not happen.
* A use list is the bag of its entries, because `removeFromUses` removes one match and the order decides
  nothing here. `replaceNode` is the whole loop in one step: it walks a snapshot, and each entry rewires
  another slot.
* `Strays` are the ids a caller may store whether or not they exist. The builder's discipline, that an id
  stored ahead of time (such as `kInvalidNodeId`) is never created, is `StraysNeverCreated`; half of the
  def-use invariant depends on it, and the verifier does not compare use lists with inputs.
* The epoch is not part of the artifact: a reloaded graph has the greatest epoch of its log, which is behind the
  original after a kill or `nextEpoch`. `LogOrdered` shows that later entries are still above earlier ones.
* `DirtyClosure` takes the users of a node to be exactly its readers; that is what the def-use theorems of
  `Graph` establish.

### `TsArraySpec` and `TsArray`: TurboScript arrays

`arr` is the array part of an `Object`: the dense vector `elements`, the ordered map `sparse`, the elements
kind and `length`. One action per element opcode and per native of `Array.prototype`. `iter` is the loop of
`arrayIterate` between two callbacks; while a callback runs, every writing action is enabled
(`MaxCallbackWrites` of them), which is how user code changes the array under the loop. `TsArraySpec` is the
same array as a partial function with a length; `StepsRefine` says every step of `TsArray` is a step of it,
except one that `Displaced` names: a dense store that hides a sparse entry `shift` left below the dense limit.

### `TsObject`: TurboScript objects, inline caches and proxies

Shapes are memoised on (shape, key, attributes), so a shape is the sequence of its entries. `heap` holds shape,
slots, prototype and extensibility; `site` is one property opcode with its shape cache and its transition
cache. `accessorEpoch_` is only compared for equality with the epoch a transition was installed under, so it
is modelled as the validity of that transition. Getters, setters and traps are user code: `Effects` is what
they may have done when they return. A handler can gain or lose a trap at any time, so a proxy operation
chooses whether its trap is there, and what it answers.

## Runs

| Run | Question | Instance |
|---|---|---|
| `interp_calls` | Do stack, monitors and class initialization stay in step through calls, traps and unwinds, and does loop-free code end? | `CallsProgram`: `<clinit>` that may throw, recursion, nested and unbalanced monitors, synchronized entry; 3 frames, 2 calls |
| `interp_data` | Are caches, profiles, fields, statics and arrays coherent across calls and resumes? | `DataProgram`; 2 profile entries, arrays up to length 1, 2 calls, resume frames that are too short |
| `dependency_index` | Does the vector implement the map, is anything stale reported? | 2 dependencies, 1 node and 1 region plus the invalid ids, 2 methods, bounded vector |
| `dirty_closure` | Is the fixpoint the closure, is escalation justified, does it end? | 6 nodes, 192 graphs with at most one dead node, 6 seed sets, limits 2, 3 and 6 |
| `graph` | Do use lists and inputs agree under every sequence of mutations and reloads, does `replaceNode` find every reader, is the log ordered? | 3 nodes with up to 2 inputs, 2 epochs, one stray id that is never created |

Why these bounds. Three frames are enough for a caller, a callee and a callee at the limit, with an unwind
that drops two frames; two calls are enough for state left behind by one run to be seen by the next.
Two histogram entries reach the megamorphic state with three classes. `MaxCount = 2` reaches
saturation. Key `(dep, node, region)` with an invalid value in each field reaches every early return and
every comparison of `EntryLess`. Six nodes hold a loop with a phi, a guard with its frame state and a
branch. Three nodes with two inputs hold a self edge, a cycle, a user that reads the same node twice, and a node
replaced by one of its own readers; two epochs let a replaced node be replaced or killed again around a
reload. The bounds `MaxFrames`, `MaxRuns`, `MaxArrayLength`, `MaxCount`,
`MaxProfileEntries`, `MaxNodes`, `MaxInputs` and `MaxEpoch` are constants.
Deadlock is not checked where the client may stop calling (`Interp`) or the computation ends
(`DirtyClosure`).

Fairness. `FairSpec` of `Interp` is weak fairness of `Execute`: `dispatchLoop` is a loop that keeps
executing until it returns. Nothing is assumed of the client. `FairSpec` of `DirtyClosure` is weak fairness
of the loop's steps, for the same reason. `Graph` needs none: all its properties are safety.

### Disagreements between code and documentation

In each TLC finds the documented property violated. The first table is of runs; the configurations of the second
are kept beside the modules and are not in the run list, which holds one run per question and stays short.

| Run | Property | What happens |
|---|---|---|
| `dependency_shared` | `AllDependentsDirty` | two methods share a key, the first is retired, the second's node is no longer reported |
| `interp_clinit_last` | `TriggersRunClinit` | `findClinit` is asked after the class was marked and answers method 0; right only while `<clinit>` comes first in the table, which is where the frontend puts it |
| `interp_clinit_locals` | `LocalsSized` | the `<clinit>` frame has no local slots |
| `interp_clinit_overflow` | `MarkedMeansStarted` | a first use at the frame limit marks the class and never runs `<clinit>` |
| `interp_sync_callee` | `SynchronizedHeld` | only `run()` locks for a synchronized method, an invoke does not |

| Configuration (module) | Property | What happens |
|---|---|---|
| `DirtyOversize.cfg` (`MCDirtyClosure`) | `OversizeEscalates` | seeds already over the limit return without `budget_exceeded`; `DirtyClosure.h:40-41` says the caller escalates "If the closure exceeds this" |
| `InterpTrapCounted.cfg` (`MCInterp`) | `TrappedNotCounted` | a caught `StackOverflowError` of a call is counted as a dispatch; `Interp.h:175-176` says trapped calls "are not counted" |
| `TsSparseShift.cfg` (`MCTsArray`) | `NothingLost` | two shifts carry a sparse entry below the dense limit, a dense store above it hides it; `ts_object.h:165` says "indices >= kMaxDenseElements live in `sparse`" |
| `TsTransition.cfg` (`MCTsObject`) | `TransitionExact` | a setter adds a property to its receiver, the site installs that transition for the key it stored, and the next store bypasses the setter; `ts_dispatch.cpp:434-435` says "its occurrence already proves no chain accessor intercepted the store" |

Read in the code and not run: `SetPrototype` does not bump `accessorEpoch_`, while
`turboscript/docs/interp_contract.md` says a handler that swaps prototypes "MUST bump" it; `setElementValue`
writes read-only properties, `deletePropertyImpl` deletes non-configurable ones and a store adds properties to
non-extensible objects; `proxyIsExtensible` raises exactly when trap and target agree that the target is not
extensible; `proxyGetPrototype` without a trap reads an ordinary target as a proxy.

`interp_calls` and `interp_data` use programs that keep to the conventions these runs show to be needed
(`<clinit>` first and without locals). Their quickened calls carry an `imm` that names their own site: in the code
a cold quickened call takes the same `imm` for a pool index.

## Proofs

`DirtyClosureProofs`, for every graph, seed set and limit that satisfy the named assumptions of
`DirtyClosure`:

* `TypeCorrect`, `Complete`, `Escalation`, `RoundsBounded`: `Spec => []P` for `TypeOK`,
  `ClosureComplete`, `NoFalseEscalation` and `IterationsBounded`.
* The argument for completeness. `ClosureComplete` speaks of the end only. The obstacle is that the loop
  visits positions, not nodes, and insertions move nodes between positions. `LoopInv` says that, as long as
  nothing was inserted in this round, the vector has exactly the snapshot's size and every position below `i` holds a node whose
  dependents are all present. So a round that ends with `changed = FALSE` visited every node of an unmoved
  vector and the set is closed; it contains the live seeds and lies within the closure, hence equals it.
* `RankOnto` (there is a k-th smallest element for each k below the cardinality) follows from injectivity of
  the rank and the library theorem on injections between finite sets of equal size.
* `CountInv` bounds the rounds: each round but the last inserts at least one live node.

`InterpProofs`, for every program with `ProgramAssumption`, every set of resume frames and every limit:

* `StackDisciplined`: `Spec => []StackDiscipline`. The invariant is strengthened to `StackInv` (the stack is
  a sequence of frame records, nonempty while running). Every action is shown to be one of five moves of
  the stack (`Local`, `Pushes`, `Pops`, `Empties`, `Starts`), and each move preserves `StackInv`. A throw that is caught
  `k` frames down is a truncation to `k` frames followed by a local change of the top.

`GraphProofs`, for every number of nodes, inputs and epochs and every set of stray ids:

* `TypeCorrect` and `LogInOrder`: `Spec => []TypeOK` and `Spec => []LogOrdered`. They are proved together
  (`Shape`): a reload sets the epoch to the greatest of the log, so the next entry is above all others only if none
  was ahead of the graph's epoch.
* `UseListsSound`: `Spec => []UsesSound`, with no assumption on callers. It is inductive given the types; that each
  entry is there once is needed for `removeFromUses`, which removes one match.
* `UseListsComplete`: `Spec => []UsesComplete`, assuming `StraysNeverCreated`. The strengthening is `Named`: a slot
  holds an existing node or a stray id, so `makeRaw` never creates a node some slot already names. Without the
  assumption it does, and nothing enters the edge then.
* `NoReaderLeft`: `Spec => ReplacedUnread`, under the same assumption. `LogMarks` (the log names marked nodes
  only) excludes that a reload marks a node; the rest is completeness of the list the snapshot is taken from.
* `setInput` and `replaceNode` share one argument (`Rewirings`): both rewire slots none of which holds the new
  input yet.

Only model-checked: liveness (`Terminates`), the refinement `ImplementsMap` and the sorted-vector invariants
(`SelectSeq`, behind `retireMethod`, is defined by recursion over the sequence), and the remaining
invariants of `Interp`.

## Plan

1. The tables of `Graph` (frame-state slices of the shared virtual-object vector, SpecMeta, dependencies) and
   the 16-bit wrap of `numInputs`. `RegionSafety` over it, and its composition with `DependencyIndex` and
   `DirtyClosure` as the invalidation pipeline. The tombstone protocol of `PassSupport` (what replace and kill
   leave in the inputs of dead nodes) as the client of `Graph`.
2. `Tier1`: activations, traps and guard exits of `Engine.cpp`, composed with `Interp` through `resume`; the
   abstract specification is `Interp` itself.
3. `RbcVerifier`: the worklist and merge, checked against the meaning of the merged states; then
   `WellFormed` becomes a consequence and the type invariant of `Interp` can be proved.
4. Java arithmetic kernels (division, shifts, conversions) with their widths, shared by T0, T1 and SCCP.
5. `PlanBuilder` and `Instantiate` (holes and patches), `RbcBuilder` (labels), serialization round trips.
6. Passes: DCE, GVN, SCCP, then `GraphBuilder`, `Simplify`, `Inline`, `Escape`; the pass manager.
7. The TurboScript VM: dispatch, calls, exceptions, property tables, proxies.
8. Proofs: `MonitorsAccounted` and `ClinitNotReentered` of `Interp`; the sorted vector of
   `DependencyIndex` and its refinement of `DependencyMap`.

## Not modelled

Text and byte formats, diagnostics, command-line tools and machine-code encodings change no state that a
small model can tell apart. Lexing and parsing are character-level. GC, AOT and register allocation
have no code. Everything else in the table above marked "not modelled" is in the plan.
