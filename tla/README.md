# Verification of trust2-contract in TLA+

trust2-contract lets a Rust programmer write contracts
(`#[precondition]`, `#[postcondition]`, `contract_assert!`, `contract_assume!`, the `#[invariant]` of a type,
and within them `forall!` and `exists!`)
as closures in ordinary Rust, and `cargo verify` proves them: Charon (vendored
and extended, in `src/charon/`) translates the crate from rustc's MIR to LLBC,
`cargo-verify` translates LLBC to WhyML, and why3 proves the result.

The repository is a compiler, so most of what can go wrong in it is not a race
between threads: it is a data structure that is traversed while it is edited,
counts and ids that are computed once and used after the edit, passes whose order
matters, a translation that has to mean the same, and files of former runs. These
modules state what the parts with such behaviour promise, check it with TLC over all
small inputs, and prove the main points for all inputs with TLAPS.

1. [The system](#1-the-system)
2. [The modules](#2-the-modules)
3. [The runs](#3-the-runs)
4. [What disagrees with the code or its documentation](#4-what-disagrees)
5. [Fairness](#5-fairness)
6. [The proofs](#6-the-proofs)
7. [What is not modelled](#7-what-is-not-modelled)
8. [Plan](#8-plan)

Run a check with `tlc -config MCX.cfg MCX`, a proof with `tlapm XProofs.tla`.
`PROJECT.json` maps every definition that models code to its lines.

## 1. The system

The way of a contract, with the modules that follow it:

    #[precondition(x > 0)]                trust2-contract-macros           ContractMacros
      fn f(x) { entry(); precondition(|| x > 0); .. }
          |  rustc: MIR; the closure is a type with three Fn impls
          v
    charon-driver: translate_crate        a queue of items, one item per
          |                               function, type, impl, method     TranslateQueue
          |  translate_closures           the closure's body becomes a
          |                               method with one tuple            SpecLocals
          |  translate_bodies             MIR's blocks, as they are found  MirBlocks
          v
    ULLBC: blocks and gotos
          |  one fused batch of passes, item by item; in it:               SpecCollect
          |    inline_selected_functions, merge_goto_chains,
          |    reconstruct_asserts, duplicate_return,                      BlockPasses
          |    collect_specs,                                              SpecCollect
          |    remove_unused_locals,                                       SpecLocals
          |    merge_goto_chains, filter_unreachable_blocks                BlockPasses
          v
    LLBC: structured statements           ullbc_to_llbc,                   Reconstruct
          |  reconstruct_matches, prettify_cfg, remove_nops
          |  collect_specs::non_body      invariants of types              SpecNames
          |  reorder_decls                order and groups of items        DeclOrder
          |  one .llbc file per crate                                      VerifyPipeline
          v
    cargo-verify: llbc_to_whyml           name_map                         SpecNames
          |                               terms for contracts              SpecTerms
          |                               expressions for bodies           LoopExprs
          |                               types, and names of all          DataTypes
          |  one .mlw per crate, tuple.mlw, the library                    MachineInts
          v
    why3 prove                                                             VerifyPipeline

| component | state it keeps | operations | interacts with | what is hard | what makes it correct |
|---|---|---|---|---|---|
| `utils`: `CachedBool` (yansi.rs) | one atomic byte | `get_or_init` | any thread that prints in colour | all interleavings of compare-exchange, the test, store, spinning loads | one thread runs the test, all get its answer, each call returns |
| `trust2-contract`, its macros | none | rewrite of an item by one attribute after another | rustc | each attribute gets what the others made | contracts come first in the body, one block with a terminator each |
| `charon` (bin): command line | environment of the child process | choose targets, spawn cargo, end with its status | cargo, charon-driver | ending the process from within a caller's scope | one file for each crate that is built |
| `translate_crate`, `translate_items` | queue, processed, translated and failed items, used and unused methods | enqueue, translate on demand, mark a method used | every translation | recursion while an item is being translated; methods used before or after their impls | everything reachable is translated once |
| `translate_closures` | the locals of one body | renumber, read arguments from a tuple | collect_specs | ids that shift | each place keeps what it denotes |
| `translate_bodies` | slots for blocks, a queue, the slot of each block of MIR | find a block, make one, translate the next | the passes over blocks | ids are given when a block is found and filled later, with other blocks in between | the blocks do what MIR does |
| `run_transformation_passes` | the crate, one item out of its slot | each pass on each item | all passes | passes that delete items to come | each body gets the passes it should get |
| `collect_specs` | bodies, lists of contracts, a table of contracts by id, invariants by type | move a closure's body, delete the closure, recurse; move type invariants | the batch; `name_map` later on | recursion in the middle of the caller's blocks and table | no contract lost, doubled, moved or reordered; each body has an owner |
| passes over blocks | blocks, antecedents counted once | inline, merge, skip, make assertions, duplicate, filter | each other | stale counts, cycles, dangling blocks | the body still does the same |
| `remove_unused_locals` | the locals that are used | renumber | collect_specs, whose table it has to look into | a local that only a contract uses | each place keeps what it denotes |
| `ullbc_to_llbc`, passes on its result | graph, its traversals, loop and switch exits, the stack of blocks not to translate in place | structure the graph, remove loops that only serve a jump, aborts that are not reached, cases that do not occur | duplicate_return, merge_goto_chains before; the loops of cargo-verify behind | jumps numbered by the difference of two depths, exits that block each other, counts by id | the structured code runs as the graph does; joined code is not doubled |
| `reorder_decls`, `sccs` | graph of items, groups, the order so far | visit what an item uses, group, order | `translate_decl_group` | edges left out between impls and their methods, a traversal that is to be stable | nothing is declared ahead of its use; no needless groups or moves |
| `name_map` | names of items, fields, variants, and of each body's locals by depth | traverse items, bodies and tables | collect_specs | bodies that are found only by following references; one space of names for everything | each body is named, for its depth; no two things share a name |
| `llbc_to_whyml`: contracts | locals a term needs | statements to one term | `name_map`, builder | continuations, shadowing, early exits, terms within terms | the term means what the body returns |
| `llbc_to_whyml`: functions | depth of loops | statements, operators and contracts to a declaration | the WhyML library | jumps out of several loops; checks at the bounds of types | the declaration runs as the function does |
| WhyML library | none | operators of integers and booleans | why3's library | signed operations by way of bit vectors | each gives what the machine gives |
| `cargo verify` pipeline | directories of .llbc and .mlw files | compile, read back, translate, write, prove | charon, why3, the user | files of former invocations, failures midway, being killed | success means that what is there now was proved |

The full list, with those parts that have no module, is under "components" in
`PROJECT.json`; what can go wrong where is under "hazards" there, each with the
properties that would show it.

## 2. The modules

Every module describes one part; `MCX` gives its constants for TLC, `XProofs` holds its
proofs. SpecCollectProofs has those about SpecNames, too, and BlockPassesProofs those about GotoChains and MirBlocks; `FixedPoints` has lemmas
about numbers and iterations that several of them need. GotoChains and MirBlocks are run as parts of BlockPasses, TranslateQueue as
one of DeclOrder, SpecCollect as one of SpecNames, ContractMacros as a part of MCSpecCollect, MachineInts and
DataTypes as ones of LoopExprs, and ControlFlow as one of Reconstruct. In the modules, a definition named in a comment as a *mutant* of another
is that definition with a plausible mistake; no specification uses it. It is there so that
one can see that the properties fail with it.

**Once, CachedBool.** `Once` is the abstract promise of a one-shot cell: an answer is chosen
at some point, and every caller gets it. `CachedBool` has the atomic operations of
`get_or_init` as actions of each thread: the compare-exchange with its three outcomes
(`CasWins`, `CasInIniting`, `CasFindsValue`), the test, whose answer may be different each time it is run (`RunF`, it
reads the environment), `Store`, and the load of the spinning loop (`Spin`). It
implements `Once` (`ImplementsOnce`), where the answer is
what the byte says once it is a truth value. The orderings (`AcqRel`, `Acquire`, `Release`, `Relaxed`) are on one location
only, for which all of them give a single modification order; a byte that is returned is the
whole result, so there is nothing else to be seen out of order.

**SpecLocals.** The locals of one contract closure through five renumberings: MIR's
(return value, closure state, arguments, temporaries) become those of a method
with one tuple (`TupleArguments`, translate_closures.rs), `unpack_local` splits the
tuple (`UnpackTuple`) and then the closure state (`UnpackSelf`,
unstructured_body.rs), and `RemoveUnusedLocals` closes the gaps that unused locals leave, in the batch
and once more in the structured body. State: what each local is (`locals`), `arg_count`, one place of
the body and one place that a nested closure captures, with what each denotes in the source (`origin`), and
which locals the places that are not followed use. The code
treats each place alone, so one of each stands for all. `panic` is the state behind a failed index or type
match.

**LazyItems, TranslateQueue.** `LazyItems` is what Charon promises of the items it translates: those that are
asked for, the implementations of methods that are used, nothing else, and in the end all of these. `TranslateQueue` is the loop of
`translate` over `items_to_translate` (`TranslateItem`, `SkipItem`, `RemoveUnusedMethods`), the stack of
`get_or_translate` (`TranslateNow`, `FindTranslated`, `DetectCycle`, `FillSlot`, `GiveUp`), and the
statuses of trait methods (`MarkMethodAsUsed`, `RegisterMethodImpl`). What the translation
of an item does besides is left out; it is given as the sequence of these steps (`Steps`). An item
that returns an error, panics, or is invisible ends in `Stop`. It implements `LazyItems`, where an
item was tried if it is processed, failed, or on the stack.

**DeclOrder** EXTENDS TranslateQueue: what the queue has translated is put in order. `ComputeGraph` has
the items that are reached (`Reached`), the edges between them and the strongly connected groups (`DeclGraph`); an impl is left out of
its own methods' edges, by the id of the
impl that is being visited. `StartTraversal` takes the next group in the order of the source as the root of a traversal, and
petgraph's `DfsPostOrder` is `Discover`, which puts on the stack what a group uses, and `Include`, which lists a group that is come back to.
`TranslateDeclGroup` is what cargo-verify makes of a group: one declaration, a recursive one, or the error for
groups of two kinds.

**SpecCollect.** The fused batch. State: the crate's tables (`fun_decls`, `type_decls`,
`trait_impls`, here as sets of ids), the terminators of the bodies, the lists of contracts and
the table `spec_closures`; the batch's snapshot of ids, the item that is
out of its slot and the pass that is next; and the call stack of the
collection (`frames`), since `transform_function` calls itself for closures inside
of closures. Actions: `TakeItem`, `SkipItem` (deleted meanwhile), `RunPass`, `PutItemBack` for
`for_each_item_mut`, and `StartCollect`, `PassBlock`, `CollectEntry`, `CollectClosure`, `ReturnToCaller`, `FinishCollect`
for the collection. An unwrap or assert that fails is an action that is not enabled, so a
panic shows as a deadlock, and deadlock is checked.

**ContractMacros.** What the macros make of a function: `Expanded` is its body when all attributes are
expanded, one after another, each putting its block at the head of what the others made. MCSpecCollect builds its programs
with it.

**SpecNames** EXTENDS SpecCollect with what becomes of the collected contracts: `CollectInvariant` moves the
method of an implementation of the internal trait `TypeInvariant` into the specification of its type (non_body.rs), and
`BuildNames` is the traversal of name_map.rs: functions, then the bodies that their terminators and lists refer to,
each with the depth that the recursion passes on. What has no name then is where the code unwraps `None`.

**MirBlocks.** The blocks of a body (translate_bodies.rs). `translate_basic_block_id` gives a block of MIR its
slot when something first names it (`ReserveSlot`) and puts it in the queue; blocks that MIR has not are made at once
(`PushBlock`): for calls that never return, for unwinding out of the function. `Named` is the order in which a terminator's blocks are
found, `translate_terminator` where it leads, `TranslateBasicBlock` one turn of the loop,
`MakeContiguous` its end. `MirGraph` is the reference, a graph that does what MIR does.

**GotoChains.** `merge_goto_chains`, step by step: `ComputeAntecedents`; for each block
`ClimbUp` to the first parent it can be merged into, then `StartMerging` and `MergeTarget`;
then the second loop, `SkipGoto`, over empty blocks with its `visited` set. Statements and terminators that are no
gotos are labels; `IsBody` says what is guaranteed of a body: consecutive ids, jumps that lead
to blocks, and none to the first block.

**BlockPasses** EXTENDS MirBlocks and GotoChains and composes them with the passes of the batch that change the graph, in the
order of transform/mod.rs: `InlineSelectedFunctions`, `MergeGotoChains`, `ReconstructAsserts`, `DuplicateReturn`,
`MergeGotoChains` again, `FilterUnreachable`; each but merging is a single step. `Expanded` says what a call that
is to be inlined does. `SameRuns` compares what two bodies do: it follows both from their first
block, past gotos and `StorageLive`, takes an assertion for the branching it was made of, and asks that both show the same statements
and terminators.

**ControlFlow, Reconstruct, GraphRuns.** `GraphRuns` is what a graph of blocks does, a state machine with a block and a way
out of it per step. `ControlFlow` has the analysis that ullbc_to_llbc makes of a graph: petgraph's traversals in their order, dominators,
edges that go backwards, the loops of each block, and the exits of loops and switches. `Reconstruct` has the pass: `BuildCfg`
(which refuses irreducible graphs), `TranslateBody` with its stack of special jumps, `RemoveUselessJumpBlocks`; then come the passes over structured bodies that
change more than single statements: `ReconstructMatches` drops the `otherwise` of a match with an arm for every variant,
`PrettifyCfg` an abort behind a call that never returns, `RemoveNops` what the others left. In the end it runs the structured
code (`RunBlock`), which implements `GraphRuns` under the mapping of `RunsAsGraph`.

**SpecTerms.** A contract's body as one WhyML term. The translation is `TranslateStatement` down
to `TranslateOutermostBlock`, going backwards with the term so far and `in_locals`. Statements are assignments
of values and of calls, assertions, aborts, returns, branchings, and quantifiers: a call with a closure, whose body is a contract's body again, translated in place, with names for its locals one level deeper. `Exec` says what an
LLBC body computes and `Eval` what a WhyML term means: both are definitions from the
languages, not from the translator, and the properties compare the two. Names are pairs of a depth and
a local, as SpecNames has them.

**MachineInts, DataTypes, LoopExprs.** A function as a WhyML declaration (`TranslateFuncDecl`): parameters, contract, references for the locals, and
the body as an expression, with an exception per loop depth
for break and for continue. Ahead of it come the names (`BuildNames`) and the types of its crate, group by group (`TranslateTypeDeclGroup`). Places
are locals with projections into tuples, structs and variants; operators are those of machine integers and booleans; an aggregate makes a tuple, a struct or a variant.
`MachineInts` has each operator twice: what MIR computes by the language's reference (wrapping, checked, undefined), and the function of
cargo-verify's WhyML library, translated from its .mlw files down to why3's bounded integers and bit vectors, which are external: `of_int` of a bit vector is taken modulo its size, which is what provers make of it.
`DataTypes` has the types: structs become records, enums algebraic types with functions that take a field, or a variant's record, out of a constructor. Its
`Names` is what name_map makes of the paths of items, fields and variants: the words in another order, each spelt for its place (given by `Spellings`), and a number for those that others have too. `Represent` gives the WhyML value
of a value of Rust, by the language's meaning of the declarations. Again `Exec` for LLBC and `Eval` for WhyML, which
count the turns of loops so that both end; a precondition that cannot be proved, and an operation without a value in MIR, end the run.

**VerifyPipeline.** Invocations of `cargo verify`, one after another, with edits of the
workspace between them. State: the sources of each target (whose they are and how far they get:
rejected by Charon, not translatable, not provable, fine), the two kinds of directories
with their files, what the stage that runs has still to do, what was reported, and which temporary directories exist. `Kill` ends an
invocation at any point and may leave a file that is cut off; `Backup` is a user who
copies a file within the directory.

## 3. The runs

| run | instance | states | shows |
|---|---|---|---|
| cached_bool | 4 threads calling, and the test answering as it likes | 1,063 | `OneInitialiser`, `Agreement`, `ImplementsOnce`, `EveryCallReturns` |
| spec_locals | up to 2 arguments and 2 captures, 1 or 2 temporaries; all paths of 2 elements, and those of 3 a captured variable has; any unused locals dropped | 287,337 | `PlacesKeepMeaning`, `ParametersAreArguments` |
| spec_collect | every crate with 2 functions and 3 closures, nested in every way, in two orders of ids, the functions being invariants of types or not | 68,442 | `ClosureIsInOnePlace`, `SpecClosuresReferencedOnce`, `ContractsInOrder`, `NoEncodingLeft`, `CleanupReachesEveryBody`, `NamesTellNesting`, `EveryBodyGetsNamed`; no deadlock, which is to say no panic |
| translate_queue | 16,200 crates with a trait, its impl, default methods, callers, and types that need each other; 8,192 graphs of calls among functions | 1,132,228 | `EachSlotFilledOnce`, `NoDanglingMethods`, `OrderDoesNotMatter`, `ImplementsLazily`, `QueueEnds`; of the order, `DeclaredBeforeUse`, `MethodsApartFromImpl`, `NoNeedlessReordering` |
| spec_terms | 12,923 contracts with branchings, early exits and quantifiers | 25,846 | `Meaning`, `WellScopedWithoutEarlyExit` |
| loop_exprs | 1,740 functions with two loops and every jump; 106 with operators, at all values of 4-bit integers; 1,728 with structs and enums, in crates whose items have like names | 13,326 | `SameRuns`, `NamesDeclared` |
| block_passes | 21,399 bodies of 4 blocks and 5,476 bodies of MIR, through all passes over blocks | 1.12 million | `TargetsLive`, `NoChainsLeft` of each merging; `BehaviourKept`, `ReturnsUnshared`, `GraphIsCompact`; `PassesEnd` |
| reconstruct | 4,778 graphs: all of up to 4 blocks, nested loops, loops in switches, switches that join, matches on enums, calls that never return | 58,693 | `NoPanic`, `OnlyIrreducibleRefused`, `JoinsTranslatedOnce`, `RunsAsGraph` |
| verify_pipeline | 2 targets with a crate name each, 1 edit, invocations without a bound | 1.9 million | `SuccessMeansVerified`, `OnlyCurrentReported`, `ProverSeesTranslation`, `TempDirsDeletedBehindCharon` |

Each property is stated in words above its definition. The only type invariant that is run is SpecCollect's; those of the other
modules are proved, or part of an invariant that is. Three more runs expect a violation, see below.

Why the bounds are enough to be interesting:

- *cached_bool.* Three threads are the least with a winner, one that spins and one
  that comes when the answer is there; with four, two can do each of the last two, in every order.
- *spec_locals.* Zero, one and two arguments and captures are the cases in which ids shift by -1, by nothing
  and upwards; a shift by more is not another case. For the removal of locals, one kept local behind one that goes is the
  case; there are all subsets. Proved for all numbers besides.
- *spec_collect.* Three closures make chains of three, two siblings with a child in either,
  and siblings in two functions; with both orders of ids a closure comes right behind its
  function or behind all of them, so that the batch
  meets it deleted or not yet. Two functions are needed for one to be
  in progress, and another before or after it; contracts that are attributes come ahead of those in the body; two types with invariants, for their order to matter.
- *translate_queue.* A method is used before its implementations are known, after that, or between the two of them; the
  trait is translated from the queue or on demand, and may fail, before it knows its methods or afterwards; two types need each other,
  or one that fails. A hash set with two implementations is gone through in both orders.
  With one trait, every order of two events about a method is there; the proofs cover more of each. For the order of
  declarations there are, besides, all graphs of calls among four functions of which the first may call itself: groups of one to four, groups next to
  groups, and all ways for them to depend on each other.
- *spec_terms.* Chunks only interact with the next one and with the branches they
  are in; the bodies have a row of three chunks, and one branching in another, with each
  possible early exit. Quantifiers have up to two captures, two arguments, and one quantifier within. Bodies are those that rustc accepts (no local is read before it is assigned on each path).
- *loop_exprs.* Two loops are the least with a jump out of an inner and an outer one; every
  jump at every place, and code behind each loop to see whether it runs. Six turns are more
  than the three values of a variable take to come around. Integers of four bits have every boundary there is: the least integer, -1,
  a product that overflows by more than one bit, shifts by as much as the width and by more. Shifts take types of three bits and four, as two different
  types are legal there. The crates with types have a struct in an enum or the other way round, in one group or in two, variants of each form (no fields, fields with
names and without), and paths of which the words agree in another order or case, so that types, fields, records of variants and functions get the same words; paths begin with the crate, as all paths do. No body assigns to an argument or calls a function without arguments (section 4).
- *block_passes.* With four blocks there are chains of three gotos, a chain into
  which a branching jumps, cycles of gotos that something leads into, and
  two returns that are shared. Bodies with a cycle of gotos that nothing leads into are left out: the climb to the first parent would not
  end on them (no test for cycles, merge_goto_chains.rs:49). No such body arises: translation visits only what it reaches from the first block, apart from
  the cleanup blocks of panics, and MIR's cleanup has no cycles. The bodies of MIR are there to show that; with `RegisterAll`, a
  mutant that translates every block, the passes do not end.
- *reconstruct.* All graphs of up to four blocks have each way in which two loops, a loop and a
  switch, or two switches can share blocks, except for those with jumps between three constructs; the further graphs
  are loops nested in one another with every jump, loops within switches and two switches in a row. Matches have an arm for each variant or
  one less, arms that share a target or are the target of `otherwise`, and a loop around them. A call that never returns is in a branch, in
  a loop and behind it; an abort that several blocks of a loop share is translated behind a block that does go there.
- *verify_pipeline.* The hazard is a file of an earlier state of a
  crate; two targets and one edit give one that is current and one that is not, one removed, one
  added. Exchanging the targets is a symmetry as the names are model values,
  one for each. Proved for any number of targets and edits besides.

`CHECK_DEADLOCK FALSE` stands where the system stops when it is done: all calls
returned, the one body translated, no more edits.
SpecNames ends in a step that stutters, so that a deadlock there is a panic.

## 4. What disagrees

Each of these is a run of its own, which checks one property and finds it violated.

| run | property | what the code does |
|---|---|---|
| spec_locals_no_args | `TypesConsistent` | For a closure without arguments, `unpack_local` shifts ids by -1 and the first temporary takes the id of the tuple; the update of the body then rewrites the temporary's fields as if they were the tuple's. The main run and the proof leave out those places (`NoAlias`). |
| spec_terms_scope | `WellScoped` | Behind a branch that panics or returns, `in_locals` still has what the dropped continuation needed, and a chunk calls its successor with a local that nothing binds. The main run has it for bodies without early exits. |
| verify_pipeline_names | `SuccessMeansVerified` | A library and a binary of one package have one crate name, hence one .llbc file; the one written last is verified, and `cargo verify` succeeds. |

Met while modelling, and not runs of their own. Paths that begin with a file's name are in `src/charon/charon/src` or `src/cargo-verify/src`.

Of the macros and the passes:

- Preconditions and postconditions come out in the reverse order of the attributes, as each is inserted at the head of the body (impl.rs:32, 59 of
  trust2-contract-macros). Their order makes no difference to what is proved.
- The comment on passes says that all of them run on a given body. Those ahead of the collection never run on a contract, as its item
  is deleted before its turn. `CleanupReachesEveryBody` says which do.
- Inlining is not repeated on the blocks that it adds, and a body that is inlined has had only the passes ahead of it
  (inline_selected_functions.rs:50-58, mod.rs:121). A call in an inlined function to another one, as with an inline constant within another,
  stays a call to a function that is taken out of the crate.
- `reconstruct_fallible_operations` and `move_asserts_to_statements` do not run for `cargo verify`, which passes
  `--reconstruct-asserts` only (rust_to_llbc.rs:44), so checks of overflow stay assertions.
- The unwind block of a call that panics is translated though nothing jumps to it (translate_bodies.rs:1518, 1546).
- `non_body.rs:72` assigns the invariants of a type; a second implementation of `TypeInvariant` would replace those of the first. Those that
  the macro writes are for all arguments of the type, so that rustc refuses a second one, which is why SpecNames has one per type.
- A comment of sccs.rs (line 88) has the order follow the source; petgraph's `DfsPostOrder` visits the last
  neighbour first. `NoNeedlessReordering` says what does hold.
- An inline assembly block and a loop header that is a switch lose the switch's exit in ullbc_to_llbc: code is doubled, not
  changed. The forward-break mode of that file is never used.

- The comment of prettify_cfg has two aborts in a row come from the pass `inline_local_panic_functions`, which is not there any more. No body
  here has them, as nothing is put behind the abort that ends a block.

Of the translation to WhyML:

- The invariants of a type are collected and named (name_map.rs:336), and never translated: every declaration has an empty list of them
  (`inv: Box::new([])`, llbc_to_whyml.rs:462, 533, 615, 628). They are neither assumed nor proved.
- A type whose invariant calls a function that takes the type, or a trait's method in a recursion with a function, makes a
  group of two kinds, which is an error (llbc_to_whyml.rs:2498, `Mixed` in DeclOrder).
- A branch without statements, and a contract that only panics, make the translator panic
  instead of returning an error (the unwrap at 742 and the assertion at 667, `Panic` in SpecTerms).
- A call without arguments becomes the function itself, though that is declared with a parameter of type unit (2119-2126); a function that assigns
  its own parameter is one that why3 does not accept; the parameters of a function pointer's type come out in reverse (316-326);
  a match on an enum compares an algebraic value with an integer (943-1023); a recursive group with
  a function without a body hits an unwrap, and one of trait methods only leaves an empty declaration. Casts, `&mut` and
  discriminants are `todo!()`.
- The crates behind the first one that is not proved are not tried (whyml_verify.rs:29); the outcome is an error in either case.

Of the pipeline: where Charon fails, `handle_exit_status` (charon/src/bin/charon/main.rs:295) ends the
process from within the scope that would delete the temporary directory, which cargo-verify's help says is
deleted. `TempDirsDeletedBehindCharon` says what holds in all other cases.

## 5. Fairness

`CachedBool!FairSpec` has weak fairness of each thread's steps: a thread that spins
calls `yield_now`, the operating system schedules every thread
again, and the test returns. With it every call returns; without any for
the thread that won, all others spin forever.

`NamesSpec` of SpecNames, `DeclSpec` of DeclOrder (for the queue's steps) and `PassesSpec` of BlockPasses have weak fairness of the only thread's next step: these are
sequential loops, and a program that is not stopped takes its next step. What
`EveryBodyGetsNamed`, `QueueEnds` and `PassesEnd` then say is that the loops end, and the first of them, that they end with no body left out.

The other modules state no liveness: one step of translation (SpecTerms, LoopExprs), a fixed number of steps (SpecLocals),
a program's own loops, which need not end (Reconstruct, whose refinement is about what steps do), or
invocations that a user may kill or never start (VerifyPipeline).

## 6. The proofs

| module | theorem | for every |
|---|---|---|
| CachedBoolProofs | `AgreementHolds`, `OneInitialiserHolds`, `Refinement` (of `Once`) | set of threads |
| SpecLocalsProofs | `MeaningKept`, `ParametersKept` | number of arguments, captures, temporaries; any place; any unused locals |
| SpecCollectProofs | `TypeCorrect`, `ReferencedOnce`, `OnePlaceAlways` | finite set of closures, nesting, order of ids, number of passes |
| SpecCollectProofs | `OrderKept`, `EncodingRemoved`, `CleanupReached` | the same |
| SpecCollectProofs, of SpecNames | `ReferencedOnceWhenNamed`, `InvariantsHaveOwners`, `NestingIsTold`, `NeverPanics` | the same, with any implementations of invariants |
| TranslateQueueProofs | `TypeCorrect`, `SlotsFilledOnce`, `NoMethodDangles`, `OrderIndependent`, `Refinement` (of `LazyItems`) | finite set of items, set of methods, steps of each item |
| DeclOrderProofs | `OrderingComesAfter`, `DeclaresBeforeUse`, `KeepsMethodsApart`, `ReordersByNeed` | the same, with any order of the source, kinds of the items and parents |
| BlockPassesProofs, of GotoChains | `TypeCorrect`, `TargetsAreLive`, `EntryIsKept`, `NoChainsAreLeft` | body, of any size |
| BlockPassesProofs | `BodiesStayWellFormed`, `SlotsAreInTime`, `PassesTargetsLive`, `PassesNoChains`, `ReturnsAreUnshared`, `GraphsAreCompact` | body, and body of MIR, of any size; any functions to inline |
| VerifyPipelineProofs | `SuccessIsVerified`, `CurrentIsReported`, `TranslationIsProved`, `TempDirsAreDeleted` | set of targets, number of edits; crates of different names |

`InvariantsHaveOwners`, `NeverPanics`, `EntryIsKept`, `BodiesStayWellFormed`, `SlotsAreInTime` and two of the `TypeCorrect` state invariants that no run checks by
themselves; what depends on them is run (that nothing panics as the absence of deadlocks in spec_collect).

**CachedBool.** Assumed: that the placeholder for no answer is not a truth value. `IInv` is the type
invariant, "a thread has its answer when, and only when, it is done, and then it is the byte's; the byte says that a test runs
exactly while a thread is running it" (`PhaseInv`), and `OneInitialiser`. Agreement alone
is not inductive: that a second thread cannot store another
answer depends on the byte having left `UNINIT` for good. The refinement shows that each step
under `IInv` is a step of `Once` or leaves its variables alone.

**SpecLocals.** Assumed: counts are natural numbers, paths are sequences over fields and
dereferences. The invariant says, for each stage, which local is which (`StageLocals`) and, for a
place, that it denotes what it did in the source and has the form the next
renumbering expects (`PlaceInv`): a place of a captured
variable starts with the closure state, a dereference and a field number below the number of captures. Each
renumbering is a lemma about one place (`TuplePlace`, `UnpackTuplePlace`, `UnpackSelfPlace`); the places that
`NoAlias` leaves out are the finding above. For the removal of unused locals, the new id of a local is its rank among those that are kept, which
preserves their order, and hence keeps different locals different and the parameters where they are.

**SpecCollect.** Assumed: the closures are finitely many and distinct from the functions, and each program is one
whose terminators are of the kinds of the module (`ProgramsAssumption`). That
terminators refer to entries of the table one to one is not inductive because a
collection in progress has an entry to come: `CallsOK` says
that each frame below the top waits at a call of a contract, that the functions on the stack are different (but for a last one that
returns at once, having been seen before), and that there is a stack only while the batch is at the collection. From it, `ReferencesKept` covers the steps that add no reference and `ReferenceAdded` the one
that does, with a fresh id.

For `OnePlaceAlways`, `PlacesInv` has `ClosureIsInOnePlace` as an explicit choice of five (`PlacesTold` shows them equal), and
the two facts without which it is not inductive: a closure whose impls are there has its type too (so that what `CollectClosure` finds was not collected
before), and the closures above the bottom of the stack are different ones (so that what returns is on the stack no more). The bottom
is left out on purpose: the batch's own item may be a closure's method that is collected later.

**SpecCollect, the batch** as a whole, has three more invariants, one on top of the other. Assumed besides: a contract is written in one place, which is in a function or in
the closure of another contract, and only functions have pre- and postconditions (`WrittenAssumption`; the three builtins are what the macros expand to, and the other two methods of
a closure only call the first); the batch's ids are all ids, each once, those of a body ahead of those of the closures in it (`OrderAssumption`;
ids are given when an item is first named, and a closure is named by the body it is in).
`StackInv` says what the call stack is: the functions on it are different, out of the table, and each waits at the block that hands over the closure collected above it. From it follows
that a body changes only while it is on top, and `BlocksInv`: blocks that were passed are dealt with, blocks that were not are as they were written, and the
lists hold what was passed, in order (`OrderKept`).
`ItemsInv` says which items are gone, and that a body of the crate is still to come, in progress or done; when the
batch is at its end none is left that has an encoding (`EncodingRemoved`). `HostsInv` and `LogsInv` say which passes a body had. A pass reaches the contracts of
its item through their lists, and `Under(h)` is the set it reaches: the least one that has `h` and, with a
body, the closures that it hands over. Ahead of the collection the lists are empty and nothing but `h` is reached; behind it all of them are there, since a body's
contracts were all collected when `h` was; that a contract lies under one function only takes induction over the nesting, by the order of ids (`CleanupReached`).

**SpecNames.** Every step is one of SpecCollect or leaves its references alone, so that the invariant carries over; `TablesOK` adds that the
table of the bodies of invariants and the lists of the types refer to each other, which `CollectInvariant` extends on both sides.
`NestingIsTold` needs what each stage leaves for the next, which `StageInv` says. While the batch runs: its five invariants (`BatchInv`). Behind it: every body has in its
lists and terminators exactly the closures that it handed over (`AllCollected`, from `BatchEnds`), and the functions are in the table or were moved to a type, in which case they have
no lists that would be lost with them (`HostsOwned`, `ImplsWait`). Every body has one depth: `DepthsExist` puts the bodies in layers, the functions first and below each layer what it calls, and
the order of ids shows that each body is in one layer and that there are no more layers than closures. `DepthTold` shows that this is `NestingDepth`, which looks outwards from
the body, and `MappedTold` that name_map, which goes inwards, finds each body at that depth and at no other.

`NeverPanics` states what the unwraps and assertions of the batch, the collection and name_map rely on, apart from the guards that stand for them: that an item of a closure is never gone when the
collection needs it. A closure that is gone was handed over by a block that is dealt with, or by one at which a call waits further down the stack
(`GoneHandedOver`); the block at which the top of the stack has come is neither, and no other one hands this closure over.

**TranslateQueue.** Assumed: the items are finitely many, so that hash sets are, and a crate's steps are of the kinds
of the module (`ProgramsAssumption`). `IInv` has four parts besides the types. `StackInv`: items on the stack are different and not
translated yet, which is `EachSlotFilledOnce`. `MethodsInv`: an implementation is
queued or processed if its method is used, and is among the method's implementors if it is not; `NoDanglingMethods` alone
is about the end only, and for a method that becomes used late this is what keeps its implementations from being forgotten. `QueueInv`: what
is queued is asked for, and what was asked for is queued or tried; the refinement needs both halves, the first for
`Try` and the second for `Finish`. `DoneInv`: at the end nothing is under way. Lemmas
about sequences and about the stack (`ReplaceTop`, `PushStack`, `PopStack`) keep the lists out of the steps, and there is a lemma for each action.

`OrderIndependent` says that what is translated at the end is the healthy part of the closure of the queue, two least or greatest fixed points that
mention no order. Assumed besides (`OnDemandAssumption`): who reuses a default is not itself translated on demand. Impls of traits do the first
(translate_items.rs:1126), and `get_or_translate` is called for types and for traits only (translate_crate.rs:633, translate_bodies.rs:240, translate_items.rs:1128, 1205,
translate_trait_objects.rs:911); without it, an impl in a cycle would fail to reuse or not depending on who came first.
`OrderInv` relates a state to the healthy items `H` and the closure `C`. A frame is past steps that pass and that were recorded (`Behind`), it has failed only where no
order would have helped (`Hopeless`), and a frame that is not the last one waits for the one above it (`Waiting`); the same is then true of slots that are filled (`FilledOK`) and
of items that failed (`UnfilledOK`); whatever is wanted is in `C` (`WithinClosure`). The step where it could go wrong is
`DetectCycle`: the items of a cycle on the stack need each other, so none of them is healthy (`CycleIsHopeless`), and the one that is found there may fail at once. At the end,
what is translated is healthy since it holds all that it needs, and the rest of `C` is not since `H` is the greatest such set (`OrderAtTheEnd`).

**DeclOrder.** The ordering comes behind the queue and leaves its variables alone (`OrderingComesAfter`), so that the queue's invariant is there to start from. Assumed
besides: `SourceOrder` has each item once, and what the parents of items are (`ParentAssumption`): only traits and impls have items in them, and are themselves in none;
methods are functions; a trait has the signatures of its functions, which do not name these. The graph and the traversal are proved about in turn.

- *The graph.* What is reached and what an item needs are iterated steps over sets, and FixedPoints makes them least closed sets (`ReachedFacts`, `NeedsFacts`). So needs are
  transitive, and made of edges only (`DeclGraphOK`); being needed both ways is an equivalence, whose classes are the groups, and needs among groups are a
  partial order (`GroupFacts`, `OverFacts`). That `Sorted` lists each element of a set once, by rank, is `SortedFacts`.
- *The traversal* (`TraversalInv`). A group that was discovered and is not listed waits in the stack, and whatever is above the place where it waits and
  was discovered from it is used by it (`WaitsAt`, `DiscoveredWait`). `Include` may list it since what it uses is listed, or is discovered and waits
  below it, and is then in a cycle with it, which is the same group (`ComesBack`). That what is listed comes behind what it uses (`UsesListed`) is not inductive without this. `ReachedFromRoot` and `RootsInOrder`
  give a reason for each listed group, which is that a root, the first in the source of all that are not listed, needs it (`Justified`).

`DeclaredBeforeUse` is about all that an item mentions, and the graph lacks some of these edges: those from a method to its impl, for which nothing is declared, are the only ones (`PairHasEdge`). For
`MethodsApartFromImpl`, a group of an impl and one method of it would have an edge each way, and the method's was left out (`NotBothWays`).

**GotoChains.** Assumed: each body is well formed (`IsBody`). The antecedents are counted once and then
used while the graph changes; `IInv` says what a merge leaves true of the stale
counts: who is counted with one antecedent has at most that one (`OneIsOne`), by a goto if it says so (`OneIsGoto`), a block
whose contents were taken jumps nowhere (`MergedAreDead`), and the block that is merged into has no antecedent that is a goto (so
it is not itself merged on the way). Then
`TargetsLive` is preserved: a block is emptied only when its one
antecedent is the block that takes its place.

`NoChainsAreLeft` is about the stale counts the other way round: a block that could be merged is merged. `ChainInv` says that a single antecedent that is a goto is
where it was counted, or its contents were the last to be taken (`GotoIsWhereItWas`), that the blocks which the loop passed are merged if they can be (`PassedAreMerged`), and,
while the loop climbs, that a chain of gotos without a cycle leads from the block it is at down to the one it started from (`LeadsDown`): the merges that
follow go down this chain, and so reach it.

**BlockPasses, MirBlocks.** Assumed besides: MIR is as rustc makes it (`IsMir`; nothing leads to its first block), functions that are inlined do not call each other (`ToInlineAssumption`),
and branchings of two and calls have two targets (`TwoWaysAssumption`), as `SwitchTargets::If` and `TerminatorKind::Call` have: inlining takes a call's second one for the way to unwind.
`PassInv` says what each pass leaves to those that are still to run, and the proof has one lemma for each pass.

- *The translation* (`BuildInv`). Blocks of MIR have different slots, the first one the first; each waits in the queue at most once; and the slots that are not filled are exactly those of the
  blocks that wait, or of the one that is open while its terminator's blocks are found (`Building`). `FindMade` is one block that is found, `FindAllMade` all of a terminator, in their order. So a slot is
  empty when its block comes, and when none waits the slots are the ids of a body (`SlotsInTime`), which is what set_slot and make_contiguous rely on.
- *Merging* needs a well-formed body and nothing else, so that `IInv` and `ChainInv` carry over to both rounds; what they are given is shown for inlining, which shifts ids (`InlineStep`, along all
  calls of the body), for assertions and for returns, whose fresh ids are ranks of jumps (`FreshFacts`).
- *Skipping gotos* (`SkipInv`). What a jump was followed through are trivial gotos that lead to each other (`Followed`). A jump is left at a trivial goto only where that was seen before, and then all of these
  lead round in a cycle; the union of such cycles is what jumps that the loop is past may still lead to (`PastTo`). That a later block's jumps are changed leaves cycles as they are.
- *Filtering.* The search explores the least closed set of blocks (`ExploredFacts`), new ids are ranks in it (`NewIds`), and cycles of gotos are renamed like all else (`FilterStep`). That what is left
  is compact is about where gotos lead, `Settled`, which `GoesRound` shows for a cycle.

**FixedPoints.** Specifications iterate a step as often as there are elements, to write a closure without
recursion. That the result is the least fixed point is induction, once over numbers and once over finite sets. It is done by a least
counterexample (`LeastNumber`, from the library's theorem on well-founded relations, which needs no operator as a parameter), and the
lemmas are about iterates as functions, with the step given as a function. The same goes for functions that are defined by recursion on a number: `RecursionExists`
gives one, which is then what the definition picks. And `RanksIn` has the ranks of a finite ordered set, which number it without a gap; ids that passes hand out in the order of a traversal are such ranks.

**VerifyPipeline.** Assumed, as the hypothesis `DistinctNames` of each theorem: no two targets have crates of one name, without which
the finding above refutes the first of them. That success means verified is about the last stage only; the invariant has to say what each stage
leaves for the next. `CompileInv`: each selected
target that is not left to compile has its current file;
`CratesInv`: what was read back has each of them, each from its own file, which needs `DistinctNames`; `TranslateInv` and
`ProveInv`: the crates that are not left to translate, or to prove, have their WhyML files and tuples, or are reported; `OwnInv`: a directory of
the invocation's own holds nothing but current files, so that nothing else is reported; `TempsInv`: a temporary directory exists only while the stage that made it runs.

Only model-checked: liveness (`EveryCallReturns`, `EveryBodyGetsNamed`, `QueueEnds`, `PassesEnd`), as liveness
under fairness is out of the prover's reach; what recursive operators over programs and graphs compute (the properties of SpecTerms,
LoopExprs and Reconstruct, with MachineInts), as the provers lose arithmetic in a module with such an operator, and induction over
data would need one as a parameter; and `BehaviourKept` of BlockPasses, which compares all runs of two bodies by a search for pairs of points, and would need, for each of the six passes, a relation between
these points that silent steps of different lengths keep.

## 7. What is not modelled

- *Formatting, parsing, keywords in contracts, options, exports:* no state, or only their effect on
  files (in VerifyPipeline).
- *What is explored before the queue starts* (`TranslateQueue` takes the queue as given), and the rest of the
  *translation from MIR (types, predicates, places, operands, trait objects) and the vendored hax
  frontend:* a structural recursion over rustc's data, which a model would have to reproduce first.
- *Parts of bodies in WhyML:* assignments to a field, since WhyML's rules for records that may be shared cannot be read off this code; a match on an
  enum, which why3 does not accept (section 4); globals, generic parameters, and literals other than integers and booleans. How an identifier is spelt is given to DataTypes as a table. SpecTerms has values and
  what is assigned when, and leaves places and operators to LoopExprs, whose rvalues are translated by the same code.
- *anon_const_to_call and the statement-level passes of Charon:* each rewrites one statement.
- *The merge of several targets, toolchain commands, ui tests:* not used by `cargo verify`.
- *builtin.mlw and char.mlw, and the cache of proc-macro-crate:* the first declare types and constants; the second answers by time stamps of files.
- *cargo, rustc and why3:* they are what VerifyPipeline starts from: a verdict about sources. They
  are assumed to do what they report.

## 8. Plan

Done, in this order: CachedBool and Once, with their refinement; SpecLocals and SpecCollect, the core of the
extension of Charon, with proofs; SpecTerms and LoopExprs, the two translations to
WhyML; TranslateQueue, with proofs and its refinement of LazyItems; GotoChains with proofs, and its composition in BlockPasses; VerifyPipeline;
SpecNames on top of SpecCollect; DeclOrder on top of the queue; Reconstruct with its refinement of GraphRuns; MachineInts, and operators and places in LoopExprs;
quantifiers in SpecTerms; MIR's blocks and inlining in BlockPasses; the proofs of VerifyPipeline; DataTypes, with structs and enums in LoopExprs; ContractMacros ahead of SpecCollect;
the passes over structured bodies behind Reconstruct; the proofs of SpecNames, of the queue's independence of order, of DeclOrder, and of BlockPasses
with the translation from MIR.

What is left, the most important first:

1. **Structs and enums in SpecTerms**, whose values are integers and booleans so far.
2. **anon_const_to_call** in BlockPasses.
3. **multi_target.rs**: the merge of one crate's translations for several targets.
4. **The substitution of types_utils.rs**: binders and their indices under a substitution.
5. **The cache of proc-macro-crate**, and the tables hash_cons.rs and index_map.rs as such.
