# A TLA+ model of the language runtime

The repository is a small language implementation in C++: a frontend that compiles a typed
language to bytecode, a verifier, a virtual machine, and a precise, moving, generational,
incremental garbage collector. Everything runs on one thread. What makes it hard is not
parallelism but interleaving of another sort: the collector works in steps *between* the
mutator's operations, it moves objects whose ids the mutator is holding, and nearly every
operation may collect in its middle. The virtual machine in turn relies on stack maps that the
verifier computes without running the program, and the compiler relies on the verifier to accept
whatever the type checker accepted: three analyses of the same flow that have to agree.

This directory models the whole pipeline below the parser: type checker, generics, compiler,
verifier, virtual machine, collector, the storage underneath it and the hash index of maps. TLC
checks the models on small instances; TLAPS proves, for instances of any size, the central facts
about storage and object ids, the layout and the registries of the heap through every operation of
the collector, that an incremental compaction ends where an atomic one does, that the map index
implements a dictionary, and that whatever module the verifier accepts runs typed, with complete roots
and without leaving a cycle behind.

## 1. Inventory

| Component | State | Operations | Interacts with |
|---|---|---|---|
| `gc::Heap`, storage (`src/src/gc/heap.cpp`) | `objects_`, `slot_generations_` | first-fit allocation, growth in place or by relocation, compaction | ids are handed to everyone; an id is slot + generation |
| `gc::Heap`, mutator interface | object descriptors, remembered set, weak and ephemeron registries, intern table | eleven kinds of allocation, loads, stores with two barriers, map and builder growth, interning | finishes or runs collections inside most calls |
| `gc::Heap`, collector | mark worklist, compaction plan, cursor, shadow snapshot | `collect`, `collect_minor`, incremental marking and compaction (start, step, finish), handover of one to the other | visits VM roots and handles, rewrites them |
| `gc::Handle` | registered root slots | create, move, release | root of every collection |
| Map lookup index | open-addressing buckets inside a map | find, insert, rehash, validate | hashes strings by content |
| Bytecode verifier (`src/src/bytecode.cpp`) | abstract state per pc, worklist | transfer, join, conformance, exceptional edges, stack maps | its maps and facts are trusted by the VM |
| VM (`src/src/vm.cpp`) | frames, pending exception, instruction count | dispatch, calls, tail calls, closures, throw and unwind, scheduled collections | calls the heap, is its root provider |
| Type checker (`src/src/frontend/type_checker*.cpp`) | flow state per point: locals, nil-ness, pair sites; annotations on the tree | declarations, statements, expressions, nil refinement, loops to a fixpoint | demands generic instances, feeds the compiler |
| Generics (`src/src/frontend/generics.cpp`) | demanded instances, depth | clone, substitute, recollect lambdas | adds functions and layouts to the program being checked |
| Compiler (`src/src/frontend/compiler.cpp`) | code, layout tables, loop and handler stacks | code of every statement and expression | asserts that its module verifies |
| Trace emitter (`src/src/trace.cpp`) | event buffer | records heap and VM events | observes only |
| Lexer, parser | per compilation | source text to syntax tree | - |
| Benchmarks, Python tools | - | measure, check recorded traces | outside the runtime |

Hard behaviours, and what correctness means for each:

* **Movement under the mutator.** Any reference held across a call may have been moved: operands
  of a running method, roots, fields, registries, the grey set, the remembered set. Correct: the
  mutator cannot tell (`ImplementsObjectGraph`), and an id that resolves names the object it was
  issued for (`IdsNeverAlias`).
* **Incremental marking.** Stores, weak loads, interning and growth happen between marking steps.
  Correct: no black object refers to a white one (`NoBlackToWhite`), and nothing reachable is lost.
* **Incremental compaction.** Half of the survivors have moved; values are named by source and by
  destination ids. Correct: the result is that of an atomic slide (`CompactionMatchesAtomic`).
* **Generations.** Old-to-young edges appear by stores *and* by promotion of one object at a time.
  Correct: the remembered set is complete (`RememberedIsComplete`).
* **Weak things.** Ephemeron keys kept alive by other ephemerons' values, cleared targets, weak
  canonical strings. Correct: exactly what is reachable survives (`MajorCollectionIsPrecise`),
  registries are exact, canonical strings are unique.
* **Verified, then trusted.** The VM checks next to nothing. Correct: at every instruction the
  verifier's facts and stack map describe the running frame, however it was reached
  (`FactsDescribeFrame`, `StackMapsAreExact`), and no instruction meets an operand it cannot
  handle (`NeverStuck`).
* **Accepted, then compiled.** Checker and verifier narrow nil, join paths and enter handlers by
  rules of their own, and generic bodies are cloned and checked again. Correct: a program without
  a diagnostic becomes a module that verifies (`AcceptedIsVerified`), and an instance means what
  its generic function means (`InstancesKeepLabels`).
* **Analyses that iterate.** Correct: the verifier's state at a pc only widens
  (`AnalysisOnlyWidens`), so its worklist runs dry and covers every path.
* **A hash index over moving keys.** Keys are relocated in the middle of the store that inserts
  them. Correct: lookup by content is exact (`LookupIsExact`), the map is an insertion-ordered
  dictionary (`IsOrderedMap`), and a store ends (`StoreTerminates`).
* **Unwinding and abrupt exits.** Collections run between popped frames; traps leave in the middle
  of an incremental cycle. Correct: `RootsAreComplete`, `NoCycleOutlivesExecution`.

`PROJECT.json` lists these hazards one by one, each at the line where it bites.

## 2. Modules

```
 GcObjects <- HeapState <- Collector <- GcHeap <- GcHeapProperties <- GcHeapSafety <- MCGcHeap
                                                      |
                                                      +-- INSTANCE ObjectGraph  (refinement)
 GcHeapSafety <- GcCollectorProofs <- GcHeapProofs <- GcReferenceProofs <- GcGraphProofs
                                                                        <- GcShadowProofs
 HeapStorage <- HeapStorageProofs
             <- MCHeapStorage
 OrderedMap   <-- INSTANCE --   MapIndex <- MapIndexProofs
                                         <- MCMapIndex
 Types, Instructions <- Bytecode <- VerifiedModule <- Vm <- VmSafety
                                 <- WellFormed <- AbstractValues <- Verifier
 VmSafety, Verifier <- VmProperties <- MCVm (with ValueDomain)
 VmProperties <- VmProofs
 Types <- TypeParts, Source <- TypeFlow <- TypeChecker <- Compiler
 VmProperties, Compiler <- Frontend <- MCFrontend (with MCVm)
```

**GcObjects** - ids, descriptors, storage widths, the reference fields of a descriptor. An id is
`<<slot, generation>>`. A value that is not a reference is `Nil`; an object's scalar payload is a
unique `data` tag, which is its identity; text is a sequence of 8-byte chunks, so that contents,
widths and the builder's capacity ladder are real. Reference slots are `strong` (what the
descriptor exposes to marking) or `soft` (a weak target; an ephemeron's key and value).

**HeapState** - the private state of `Heap` and the lookups on it (`checked_slot`, the read
barrier, root enumeration, remembered set, both write barriers). A method of `Heap` runs several
internal operations one after the other, so these are functions on a record `h` of the whole
state, and an action installs the record that its method ends with (`Become`). `cells` are the
mutator's slots: VM stacks, locals, handles. `RawCells` are ids that a host keeps in a variable of
its own, which no visitor updates. `h.extra` are the running method's `extra_roots`.

**Collector** - marking, the ephemeron fixpoint, atomic compaction, forwarding of fields, roots
and registries, the end of incremental marking, the compaction plan, one relocation, the end of a
compaction, the atomic slide of the shadow snapshot, `collect_impl`. The order of the code is
kept: finish the active cycle, mark, fixpoint, compact, rewrite, clear, prune.

**GcHeap** - the state machine: one action per public method. A host, one of `Hosts`, is the program
that uses the heap: `shapes` says which kinds of object its k-th allocation may make, `calls` which
collector entry points it uses, `owners` which of its cells name the owner of a store, `raw` which
hold an id in a variable of its own, `stress` the stress configurations in force at a call (collect
before or after an allocation, minor collection after a barrier). A step budget is one object: a
larger budget is several steps. The two loops of the collector whose length depends on the heap, the
mark worklist and the ephemeron fixpoint, are recursive functions on the set of marked slots.

**GcHeapSafety** - the inductive invariants of the heap, as predicates on the record of its state:
`LayoutInv` (slots, ids, plans, registries), `ReferenceInv` (references between objects, marks and
the remembered set), `ShadowInv` (a compaction and its source snapshot) and `NamesAreUnique` (no
object has a twin).

**ObjectGraph** - the abstract specification: objects with permanent names that never move, roots,
an intern table, and at any step the loss of unreachable names. No storage, ages, barriers or
cycles. `GcHeapProperties` shows by refinement that `GcHeap` implements it; the mapping names an
object by its `data`.

**HeapStorage** - the same storage again, on its own and in a form that can be proved about: runs,
generations and ids of any number of objects of any width, allocation into the first hole or at
the end, growth, compaction one survivor at a time in slot order. Which objects are live is left
open (any subset survives), so it covers the atomic and the incremental compaction alike.

**OrderedMap, MapIndex** - the abstract map (an association list in order of first insertion) and
the code's: entries plus an open-addressing table of entry positions, keys hashed by content. A
store is a state machine: lookup, growth (which may relocate keys and the pending key), doubling of
the capacity, re-insertion of old entries, publication; `Relocate` may come between any two.
Strings are references with content, so two keys may be equal and different.

**Types, Instructions, Bytecode, WellFormed** - types, instructions and exception regions; a
module and the checks of its layout tables, which recurse over types (`TypeParts`).

**ValueDomain, AbstractValues, Verifier** - the abstract values with their join and conformance; the
frame states; the worklist analysis, one instruction per step, one function after the other.
Instructions that only look at kinds (arithmetic, strings, conversions, builders, scalar arrays)
share one table of signatures. What recurses over types and values (`value_from_signature`,
`join_values`, `value_conforms_to_expected`, the shape of a type) is in `ValueDomain` and `TypeParts`
and reaches `AbstractValues` and `WellFormed` as operator constants: the runs give the code's
definitions, the theorems hold whatever they are. A verifier's program is a module in the sense of
`IsModule`: vectors are sequences, counts are numbers, as the C++ types say.

**VerifiedModule** - what the verifier hands to the machine: the verdict, the facts per program
counter and the stack maps derived from them; `VerifiedIsClosed` says what an accepted module is.

**Vm** - `execute_verified` on a module the modelled verifier has accepted: the instruction
boundary (`Canonical` for tail calls, then the scheduled collections), dispatch, calls with the
depth limit, tail calls, closures, `Throw` with its frame-by-frame unwinding and the collections
in it, traps, and the end of cycles on every way out. The heap is what the VM sees of it: objects
that are alive or reclaimed. A minor collection, or the end of a marking that started earlier, may
keep any garbage besides what is live. `VmSpec` runs the machine alone, on a module that something
has verified; `VmProperties` puts `Verifier` in front of it. `VmSafety` has the properties that need
no facts, `VmProperties` those that compare frames with the verifier's facts.

**Source, TypeFlow, TypeChecker, Compiler** - the syntax tree with cloning and substitution; flow
states with their join, refinement and declared types; the check of every expression and statement
as a function from a tree and a state to an annotated tree and a state; code generation. These are
functions, recursive as the code is. A name, a literal or a source position is what the checker
tells apart. The checker's model stops at the first diagnostic. Reading a local that the context
does not have is `wild`, the model of undefined behaviour. The compiler yields no module when one of
its assertions fails: a type parameter reaches a signature that is lowered, or the key of a map
cannot be compared.

**Frontend** - `compile_program` as a state machine in front of the verifier: collect declarations,
check function after function (instances are appended while they are demanded), compile, hand
over. Modules written as bytecode start at the verifier. A verified module runs in `Vm`.

Definitions keep the source's names; `PROJECT.json` maps each one to its lines.

## 3. Runs

Deadlock is checked in `map_index` only: elsewhere a bounded mutator may have used up its
allocations, and an execution ends.

| Run | Instance | What it shows |
|---|---|---|
| `gc_atomic` | 2 roots, 3 objects out of records, weak references, an ephemeron, a scalar array | major and minor collections between any operations are invisible; remembered set, registries and storage stay valid |
| `gc_incremental` | three hosts: 2 leaves and 2 ephemerons; a map (1 entry), an array, a string; a record, an ephemeron, an array and a raw id | the ephemeron fixpoint is exact in either registry order; the tri-colour invariant while a map grows white, grey or black; stores between any two relocations, with forwarded ids as operands, match the atomic slide at *every* point of the cycle |
| `gc_text` | 2 roots, builder and strings of at most 2 chunks | interning, concatenation, substrings and builder growth under minor collections, both cycles and the handover |
| `gc_stress` | 2 roots, 2 records, a weak reference | collections inside the running method, in the middle of either cycle |
| `storage` | 3 objects, widths 1-3, limit out of reach | every interleaving of allocation, growth and compaction; every id ever issued is resolved in every state |
| `map_index` | 3 contents, 3 string references, 2 values, at most 3 entries, least capacity 4; two contents hash to the last bucket | rebuilds, collisions, wrap-around and relocation in mid-store: exact lookup, dictionary order, termination |
| `vm_sound` | 467 source programs and 2244 modules in families, 4 collection schedules | every accepted program compiles and verifies; facts, stack maps, operands, roots and cycle end for every verified module under every schedule |
| `gc_forwarded_owner`, `storage_limit`, `vm_stuck`, `frontend_rejected`, `generic_labels` | | violations: see section 5 |

*Why the bounds are enough.* The hazards of the collector are about pairs of objects (an owner and
what it refers to, a survivor and the one behind it, an ephemeron and another's key) and one
operation between two steps of a cycle. Three objects of different widths give holes, overlapping
moves, promotion of an owner before its child, and forwarding of either end of an edge. Two roots
allow an object to be held, dropped, and found again by another path. Ephemeron chains need two
ephemerons and two other objects. A least capacity of 4
makes the first insertion build a table, the second find room in it and the third rebuild it; the
larger one of the code only delays that.

In `vm_sound` a family is a skeleton (a nil test that branches or loops, a chain of pair accesses,
nested regions, recursion, a generic called through a lambda, ...) whose holes range over a few
instructions, expressions or statements; most members are rejected, and the run is about the rest.
Three frames (`MaxCallDepth`) suffice for a throw that crosses a frame without a handler, and for
the depth limit. An execution is cut after `MaxInstructions` (40; 60 in `vm_stuck`) instructions,
which looping members reach after several iterations. Arrays and maps hold at most `MaxLength` (1)
elements, and `MaxInstantiationDepth` scales the limit of 32 down to 3, which polymorphic recursion
in the generic family reaches.

*Agreement with the code.* Beyond reading, the frontend model was compared with a build of the
frontend on some 6000 programs generated from the same syntax: the verdicts (accepted, refused,
rejected by the verifier) are the same.

*Symmetry.* Root cells and storage tenants are interchangeable model values; no action or property
names one, so permuting them is sound. Raw cells have a role of their own and are not permuted.

*Fairness.* `MapIndex` assumes weak fairness of `StoreStep`: a store is one function call, which
the thread runs to its end, and what may come between its steps in the model (a relocation) is
itself bounded work inside that call. Under it `StoreTerminates` says that doubling, rebuilding and
probing end. Elsewhere none is assumed: each loop is driven by its caller, and when a host calls
`incremental_mark_step` is up to the host. That the verifier's worklist ends is stated without
fairness, as the action property `AnalysisOnlyWidens`: a step either takes a pc off the worklist or
widens a state, and a state cannot widen for ever since sites, locals and types are those of the
function. What must hold on the way out of an execution is safety (`NoCycleOutlivesExecution`).

## 4. Proofs

`HeapStorageProofs` proves, for any set of objects, any set of positive widths
(`WidthsAssumption`), any positive slot limit (`SlotLimitAssumption`) and any sequence of steps:

| Theorem | Statement |
|---|---|
| `TypeCorrect` | `Spec => []TypeOK` |
| `RunsStayDisjoint` | `Spec => []RunsAreDisjoint`: runs never overlap, between the steps of a compaction as well |
| `IdsStayUnaliased` | `Spec /\ []WithinLimit => []IdsNeverAlias`: as long as the heap has at most 2^32 slots, an id that resolves names the object it was issued for |
| `TenantsStayUnique` | `Spec => []NothingLostOrDuplicated`: each live object is in exactly one run |

*The argument.* `RunsAreDisjoint` is not inductive: a survivor is copied to `dest`, which may lie
inside its own old run, and only the order of the moves keeps it off the others'. `Layout` adds
`Frontier`: during a compaction, moved runs end at or before `dest`, and `dest` is at or before
every base still pending. Each action has one lemma; the move splits into the survivor itself, the
moved and the pending.

`IdsNeverAlias` needs more, because an id outlives its object. `Ids` adds: an issued id has a
positive generation, at most the current one of its slot; two issued ids with the same slot and
generation name the same object; a base's current id has been issued for its tenant; and a
forwarding entry leads from an issued id of an object to the base where that object is. Minting is
fresh (`MintingIsFresh`) because every path that installs a base raises its generation and
generations never fall. The hypothesis `[]WithinLimit` cannot be dropped: growth in place does not
check the limit (finding 2), and beyond it slots are truncated.

`MapIndexProofs` proves, for any contents, references and values, any hash function to the natural
numbers and any least capacity of at least two (`HashAssumption`,
`MinCapacityAssumption`):

| Theorem | Statement |
|---|---|
| `IndexIsInvariant` | `Spec => []IndexInv`, the inductive invariant |
| `MapIsTyped` | `Spec => []TypeOK`: no relocation leaves the map or a pending store with a dead key |
| `LookupFindsExactly` | `Spec => []LookupIsExact` |
| `IndexStaysValid` | `Spec => []IndexValidates`: the exact capacity too |
| `MapImplementsDictionary` | `Spec => IsOrderedMap`: every step is one of `OrderedMap` or a stutter |

*The argument.* A lookup that stops at an open bucket is right only if no entry was ever put behind
it. `PlacedInOrder` says where entries are: each is on its own probe path, and every bucket before
it on that path holds an *earlier* entry. Insertion keeps it because it takes the first open bucket
of a path (`OpenBucketIsFirst`), which exists because a path visits every bucket
(`ProbesCoverTable`) and a table with fewer entries than buckets has an open one
(`EmptyBucketExists`). During a rebuild the same holds of the new table and the entries done so far
(`InsertionIsReady`), and the pending key is still absent, by content, whatever its id has become.
Relocation renames ids and keeps contents, so hashes stay (`SameContents`). The refinement maps
entries to their contents: only an insertion's publication and an update of a known key change it,
and the answer of a read is that of the dictionary by `LookupIsExact`. The exact capacity has an
invariant of its own (`CapacityInv`): every capacity that the doubling loop of a store has passed
was too small for the new entry, so the first that fits is the one `validate_map_lookup_index`
computes from the number of entries.

`VmProofs` proves, of the machine alone, for any module, any collection schedules and any bounds
(`VmBounds`):

| Theorem | Statement |
|---|---|
| `VmInvariant` | `VmSpec /\ []VerifiedIsClosed => []VmInv`, the inductive invariant |
| `FramesAreTyped` | `... => []VmTypeOK` |
| `RootsAreKept` | `... => []RootsAreComplete`: no collection takes what the machine can still name |
| `CyclesEndWithExecution` | `... => []NoCycleOutlivesExecution` |

*The argument.* `RootsAreComplete` speaks of what frames and the exception in flight reach, and a
step may load anything that is reachable into a frame, so by itself it is not inductive. `VmInv`
says it locally: a value is `Safe` when it names an object that is not reclaimed, and every value
of a frame, of the exception and of an object that is not reclaimed is safe. It also says of each
status which frames, which cycle and which pending exception it allows: that is what the last
theorem and the limits on counts need. A collection keeps all of this:
reachability is a fixpoint that grows within the finite heap, hence exists, contains the roots and
is closed (by induction on how many objects are still missing), and whatever else a collection
keeps, cleared weak references and ephemerons name nothing that died. Then there is one lemma per
group of instructions, and one each for the boundary, calls, unwinding and traps. The hypothesis
`[]VerifiedIsClosed` is what the machine takes on trust from the verifier; that no value has the
wrong *kind* is not assumed, a step that would meet one is simply not enabled (`NeverStuck` is
about that).

The second part of `VmProofs` discharges the hypothesis, for any modules (`ProgramsAreModules`), any
domain of abstract values and any join:

| Theorem | Statement |
|---|---|
| `VerifiedModulesAreClosed` | `Spec => []VerifiedIsClosed`: in an accepted module control stays in the code and operands in the tables |
| `SystemRunsTheMachine` | `Spec => VmSpec`: verifier and machine together implement the machine |
| `SystemFramesAreTyped`, `SystemRootsAreKept`, `SystemCyclesEndWithExecution` | the machine's theorems without the hypothesis |

*The argument.* A module is accepted when the worklist has run dry and every program counter has a
state. `VerifierInv` says what holds before that: each program counter that has a state and is not
on the worklist was transferred in its last state, and a transfer refuses whatever leaves the code
or the tables (`TransferChecks`, one lemma per group of instructions); each change of a state puts
its program counter back. The states that flow out of one instruction are merged one after the other
by a recursive function, which is unrolled by an induction over an interval (`MergeUnfolds`,
`MergeAdvances`). Functions that are done are closed; the others are not yet. Both inductive
invariants were first checked by TLC on `vm_sound`.

`GcCollectorProofs`, `GcHeapProofs`, `GcReferenceProofs`, `GcShadowProofs` and `GcGraphProofs`
prove, of the model of the whole heap, for any cells and any hosts whose shapes can be constructed
(`HostsAssumption`, `CellsAssumption`; `NilAssumption`, `NoneAssumption` and `NamesAssumption` only
say that the two markers are not ids, objects or names):

| Theorem | Statement |
|---|---|
| `LayoutIsKept` | `Spec => []GcLayoutInv`, the inductive invariant |
| `HeapIsTypedAlways` | `Spec => []TypeOK` |
| `StorageStaysDisjoint` | `Spec => []StorageIsDisjoint`: descriptor runs never overlap, at any point of a cycle |
| `RegistriesStayExact` | `Spec => []RegistriesAreExact`: registries name what is there, soft references resolve |
| `CanonicalStaysUnique` | `Spec => []CanonicalIsUnique` |
| `ReferencesAreKept` | `Spec /\ OwnersAreCurrent => [](GcLayoutInv /\ GcReferenceInv)`, the inductive invariant of the references |
| `RememberedStaysComplete` | `Spec /\ OwnersAreCurrent => []RememberedIsComplete` |
| `NoWhiteIsHidden` | `Spec /\ OwnersAreCurrent => []NoBlackToWhite` |
| `SnapshotStaysTrue` | `Spec /\ OwnersAreCurrent => []GcShadowInv`, the inductive invariant of a compaction's snapshot |
| `CompactionStaysAtomic` | `Spec /\ OwnersAreCurrent => []CompactionMatchesAtomic`: stores and relocations in any order end where one slide of the snapshot ends |
| `NamesStayUnique` | `Spec /\ OwnersAreCurrent => []GcNameInv`: no movement leaves a twin behind |
| `HeapImplementsObjectGraph` | `Spec /\ NothingIsRaw => ImplementsObjectGraph`: every step is one of `ObjectGraph` or a stutter |
| `MajorCollectionsArePrecise` | `Spec /\ OwnersAreCurrent => []MajorCollectionIsPrecise`: nothing lost, nothing kept |

*The argument.* A method of the heap is a sequence of internal operations, so the invariant is a
predicate `LayoutInv(h)` of a heap record, and each internal operation has a lemma that it maps
records with the invariant to records with the invariant; an action composes these. Three parts
carry the weight. *Storage*: `RunsFollow` orders runs by base; first-fit allocation and growth take
slots that nobody owns. *Cycles*: `PlanIsCurrent` says that the plan of a
compaction names exactly the bases there are, each by the id it has now, moved or not, and
`PlanSlides` that destinations are ordered, never above their sources, and never the source id of
another survivor; it is what makes the copy of one survivor harmless to the others and the forwarding
of a registry injective. Every method that may change the set of bases finishes
the compaction first, which is why it can be an invariant at all. *Liveness of soft references*:
`RegistriesAreExact` requires that what a weak reference or an ephemeron still holds resolves, so a
collection may keep an object only if the values it did not clear are kept too. Marking and the ephemeron
fixpoint are loops over a growing finite set; `GrowingLoopEnds` shows once, by induction on the
slots still missing, that such a loop reaches a set which the loop's body no longer enlarges, and
`GcCollectorProofs` instantiates it twice. One lemma (`MovementKeeps`) then covers what an atomic
compaction, a minor collection and an incremental one have in common: survivors at new bases, every
field and registry through a forwarding table. Operands of a running method are followed through the
collections in its middle by `Carries` and `Becomes`. TLC checks the invariant in `gc_text`.

*References.* `ReferencesAreKept` and the two theorems below it rest on `LayoutInv` and on
`ReferenceInv(h)`, which says what neither barrier property says alone: strong references resolve by
the id they are stored under, moved or not; roots, unlike fields, are current at every step of a
compaction; marks exist only while marking is under way, so that a cycle starts with none.
`GcReferenceProofs` repeats the chain of lemmas for it: the write barrier records the owner before
the store is published and greys the value stored into a black owner; marking moves objects from the
worklist to the marked ones with their children; a sweep frees only what no survivor names, because
a marked object's children are marked when the worklist is empty; promotion records the edges of
what it makes old, and a relocation renames both ends of every edge. The hypothesis
`OwnersAreCurrent` (a fact about the host, which no step changes) is that the owner of a store is
named through a registered cell. It is needed: finding 1 is the counterexample without it. The
*value* of a store may still be a raw id that has been forwarded, and so may every other operand.
TLC checks the invariant in `gc_incremental`.

*The snapshot.* `CompactionMatchesAtomic` compares two computations, a fold over what is left of the
plan and a slide of the shadow, so `ShadowInv` says what relates them between any two steps: the plan
is the slide of the snapshot (`SnapshotIsPlanned`), and the snapshot has each survivor, moved or not,
as it is now but for its references, which are under source ids; a generation that no relocation has
raised is the snapshot's; a registry is the snapshot's under source ids (`SnapshotMirrors`). A store
keeps it because forwarding a value and normalising it for the shadow cancel (`SourceOfEntry`), and
because the shadow's slot is the owner's source slot whichever current name the owner goes by. At the
end the fold has installed every survivor at its planned base, with the next generation of that slot,
which is where the slide puts it. `OwnersAreCurrent` comes with `ReferenceInv`, on which the argument
rests. TLC checks `GcShadowInv` in `gc_incremental`.

*The refinement.* An object is named by its `data`, whatever slot and id it has, so the mapping is a
function only while names are unique; `GcNameInv` says so, and TLC checks it in `gc_incremental`.
`GcGraphProofs` takes the same operations of a heap record a third time. `SameGraph(h, k)` says that
the mutator sees no difference between `h` and `k` (marking, barriers, remembered set, plan, growth,
relocation of a survivor), `Thins(h, k)` that `k` shows the graph of `h` *less some names*: same
roots, same fields, weak references and ephemerons to what is gone cleared, canonical strings that
are gone forgotten. Thinning composes (`LeavesOn`, `ThinsOn`), every movement thins (`MovementThins`),
and so does every collection, including the ones in the middle of a method. An action is then some
thinning, one change that the mutator makes (a root, a new node, a changed field, an interned name),
and some thinning again, and the steps of `ObjectGraph` have exactly that form. What is gone must not
have been reachable. That is not proved by computing what is reachable: whatever survives is closed
under references and contains the roots at the end (strong references resolve, roots are current),
hence contains the least such set. `OwnersAreCurrent` is assumed for the sake of `ReferenceInv`, and
`NothingIsRaw` adds that the host keeps no reference in a variable that the heap does not visit: such
a cell is not a root of `ObjectGraph`, so a load from it would be a reference out of nowhere.

*Precision.* `NamesIn(after) = ReachableNames` has two halves. *Nothing is lost* is the argument
above. *Nothing is kept*: `Reachable` is the intersection of the sets that contain the roots and are
closed, so it suffices that marking and the ephemeron fixpoint, from no marks at all, never leave
any such set (`MarkStaysIn`, on the same loop lemmas that show what they reach). Here it matters that
`finish_incremental_marking_impl` unmarks before it marks again: what the cycle had shaded is not
used. A major collection in the middle of a compaction is reduced to one of the finished heap,
which shows the same graph.

*Only model-checked.*

* `NeverStuck`, `FactsDescribeFrame` and `StackMapsAreExact` are false of some verified modules
  (findings 3 to 7), so there is no theorem to prove; `vm_sound` shows them of modules clear of
  these.
* `AnalysisOnlyWidens` needs the laws of the join, which recurses over nested values;
  `AcceptedIsVerified` is about the recursive checker and compiler. `TypeChecker`, `Compiler` and
  `ValueDomain` use recursive operators, which the prover cannot handle.
* The refinement with a host that keeps raw ids: `ObjectGraph` has no such cell.
* `StoreTerminates` is liveness under fairness.

## 5. Findings

1. **A barrier through a forwarded owner** (`src/src/gc/heap.cpp:2981`, run `gc_forwarded_owner`).
   During an incremental compaction a store through the saved source id of an owner that has moved
   is accepted, but the remembered set gets the stale id. `gc_incremental` therefore names store
   owners by current ids only; values by either.
2. **Growth past the slot limit** (`src/src/gc/heap.cpp:2363`, run `storage_limit`, with 2^32
   scaled to 4). Growth in place does not check the limit; afterwards the check of
   `allocate_object` wraps, and a truncated base aliases another object.
3. **One exceptional edge per call** (`src/src/bytecode.cpp:3583`, run `vm_stuck`, `NestedCalls`).
   It goes to the innermost region; the VM resumes the innermost *matching* one. With two nested
   regions that catch different variants, facts and stack map of the outer handler are wrong.
4. **Site facts outlive a call** (`src/src/bytecode.cpp:3318`, `SharedLists`). What is known of a pair
   from its allocation site is kept across a call that changes the pair.
5. **A joined name is forgotten** (`src/src/bytecode.cpp:1314`, `JoinedNames`). A pair of one of two
   named types looks like nil and conforms to every named type.
6. **A site's elements are overwritten** (`src/src/bytecode.cpp:2849`, `ReallocatedArrays`). An
   allocation in a loop replaces what is known of the arrays that the site made before.
7. **A stale nil test** (`src/src/bytecode.cpp:3140`, `OverwrittenTests`). The branch refines a local
   that was stored to after the test. The compiler never emits this.
8. **Checker and verifier disagree** (`src/src/frontend/type_checker_internal.cpp:1747` and others, run
   `frontend_rejected`: `KeyReads`, `UpgradedFields`, `KnownNils`, `CatchStates`,
   `CapturedRecords`). Accepted programs that the verifier refuses: the compiler's assertion fails.
9. **Code for what was not checked** (`src/src/frontend/compiler.cpp:892` and others: `EndlessTries`,
   `DeadLambdas`, `LoopedLambdas`).
10. **Types accepted without a diagnostic** (`src/src/frontend/type_checker_internal.cpp:3039` and
    others: `RecordKeys`, `NilArrays`, `NilArguments`).
11. **Instances lose labels** (`src/src/frontend/generics.cpp:138`, run `generic_labels`).

Every family of `vm_stuck` and of `frontend_rejected` violates the run's property alone: TLC stops
at the first one, and naming another in the `.cfg` (`Programs <- SharedLists`,
`Sources <- CatchStates`) shows its counterexample. `vm_sound` is a statement about the programs in
it, and these stay clear of 3-11.

## 6. Not modelled

* Trace emitter, metrics, benchmarks, tools: they observe and change no state of the runtime.
* Lexer and parser: functions from text to the syntax tree of `Source`, without state between calls.
* In the frontend: diagnostics after the first one, source positions, and the assertion that counts
  array opcodes (`expected_array_opcode_counts`).
* In the verifier: comparison with stack maps supplied by a caller (`stack_map_matches`); in verifier
  and VM, the wording of diagnostics and trap traces.
* In the heap: exhaustion of a slot's generation (2^31-1 installations); out-of-memory; destroying
  a heap before its handles.
* Bytes: scalars carry no arithmetic, so overflow traps, bounds traps and failing conversions are
  a choice of `RuntimeTrap` at the instructions that can trap.

## 7. Plan

Done, in this order: storage and ids, collector and mutator interface, their abstract
specification, verifier, VM, the storage theorems; then the map index with its refinement and
proofs, all opcodes and table checks, type checker, generics and compiler; then the theorems of the
machine and of the verifier; then the layout and registries of the whole heap, its references,
barriers and marks, the refinement of `ObjectGraph`, the precision of major collections, and that an
incremental compaction ends where an atomic one does. What would come next:
Soundness of the verifier's facts for the modules without the constructs of findings 3 to 7, once the
joins are written without recursion.
