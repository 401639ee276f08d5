# A verification project for FlowLog

TLA+ models of FlowLog (the Datalog engine in `src/`), TLC runs over small
instances of them, and theorems about them that TLAPS proves. Every definition
is written from the Rust source; `PROJECT.json` maps each one to the lines it
stands for. Paths below are relative to the source tree, and names without a
path are names in that source.

Contents: [the system](#1-the-system) · [hard behaviours](#2-what-is-hard-about-it)
· [the modules](#3-the-modules-and-the-code) · [the runs](#4-the-runs)
· [bounds](#5-bounds) · [fairness](#6-fairness) · [the proofs](#7-the-proofs)
· [findings](#8-findings) · [what is not modelled](#9-what-is-not-modelled)
· [the plan](#10-the-plan)

To run one check: `tlc -config MCService.cfg MCService.tla`; to check one
module of proofs: `tlapm ServiceProofs.tla`.

## 1. The system

A program goes through these parts, in this order; each is a crate or a file.

| Part | State it keeps | Operations | Talks to | What makes it correct |
|---|---|---|---|---|
| Parsing, validation (`src/parsing`) | the syntax tree; types of columns as they are inferred | parse, validate, split off `.code` blocks | gives rules to strata, blocks to the engine | a program that is accepted can be planned and evaluated; every refusal names a rule that is at fault |
| Stratification (`src/strata`) | dependency graph; visited sets; components; what each still waits for | order, find components, refuse, merge | rules in, strata out to planning | dependencies come first, each rule once, cycles iterated, negation through recursion refused and nothing else |
| Catalog, optimizing (`src/catalog`, `src/optimizing`) | tables of one rule | look-ups; join order | planning | the order changes no result |
| Planning (`src/planning`) | per stratum: transformations, seen sets, shared signatures, entered collections | plan a rule, share by lineage, push down filters and calls, sideways passing | the assembly | the plan means what the program means; what is shared exists where it is read |
| Assembly (`executing/src/dataflow.rs`, `collector.rs`, operators) | `row_map`, `kv_map`, `k_map`; iteration variables of a scope | build each operator once per worker, feed inputs, collect heads | timely/differential; captures; the budget | relations are those of the program's perfect model |
| Worker set (`worker.rs`, `runner.rs`) | one thread, job channel and dataflow list per worker; poison flag; report channel | run, step, retain, shut down; settle | all threads share the budget and the report channel | an evaluation answers, and an answer with rows has all of them |
| Budget, limits (`accounting.rs`) | stop flag, first fault, tuple counter, cancel token, deadline | poll, stop, note tuples | read by every operator, by workers and by the coordinator | nothing stops silently; the first fault stays |
| Memory accounting (`accounting.rs`) | per thread: tag and pending bytes; per evaluation: bytes and peak | apply, flush, tag, untag | the global allocator, on every thread | what is held is what is counted |
| Captures, settling (`inspect.rs`, `merge.rs`, `runner.rs`) | buffers per worker, batches per head, slots | capture, flush, merge pairwise, charge, publish | workers write, helper threads read | a settled relation is an exact sorted set |
| Engine (`engine.rs`) | number of evaluations, a condition variable | check, evaluate, acquire, release | clients on any thread | the limit holds and everybody waiting gets in |
| Symbol table (`symbols.rs`) | id to text, under a lock | intern, resolve, resolve_raw | loaders, operators, embedded functions, output | an id never means two texts; pointers stay valid |
| Embedded functions (`map.rs`, `native_calls.rs`) | the published build, the optimized one, a resolved entry point per caller; per digest a lock; library files | build beside the evaluation, publish, replace, cancel; load, compile, repair | row programs call it; processes share a directory | no caller waits forever; a good library stays good |
| Service (`daemon.rs`) | in-flight ids, threads of requests, last run | accept, evaluate, reload, cancel, check, stats, shutdown | clients on a socket; the engine | each request is answered once; a cancel finds the last to register its id |
| C interface (`capi.rs`) | handles and buffers owned by the caller | open, evaluate, free | the engine | each buffer freed once, no panic crosses |
| Provenance, profile, files (`explain.rs`, `profile.rs`, `files.rs`, `reader.rs`) | a witness; snapshots; byte ranges | explain; write snapshots; read and write relations | the engine, the file system | a witness is a derivation; every line is read by one thread |
| Clients (`main.rs`, `bin/flowlogctl.rs`) | none | arguments to a request | the engine, the socket | thin |

### How the parts interact

A client's thread calls `Engine::evaluate`, waits for admission, and becomes
the coordinator of its evaluation. It starts one thread per worker and a thread
that builds the embedded blocks; the workers share one dataflow. All of them
share one `Budget`, which any of them may stop. Workers report over a channel;
rows come back through captures which each worker publishes under a mutex. The
coordinator then settles the heads with helper threads. Several evaluations run
at once and share the engine's symbol table, the process's registry of locks for
compiled blocks, and (between processes) a cache directory.

## 2. What is hard about it

- **Silent stopping.** Once the budget has stopped, operators drop rows without
  an error, the dataflow drains, and every worker reports success
  (`map.rs:74`). That an answer is complete rests on the order in which faults,
  flags and reports are written by three kinds of threads.
- **Reports that are missing or stale.** Workers leave a poisoned set without a
  report, and reports are counted, not named.
- **Everyone waiting.** Callers of an embedded function wait on a build that may
  panic; a condition variable wakes one waiter that a newcomer may overtake;
  `shutdown` joins threads that may be waiting for admission.
- **Shared names.** Two requests may carry one id; two texts may have one
  digest; two rules may have one lineage and share one collection.
- **Crashes and half-written files** in the cache of compiled libraries.
- **Order nobody chose.** Hash maps order the searches of stratification;
  workers publish batches in any order; helpers claim heads in any order.
- **Boundaries.** Exactly the tuple ceiling; rows that do not divide evenly
  among the workers; a peak that is raised without a lock.
- **Rules of one relation in several strata**, with rows carried from one to the
  next and possibly aggregated on the way.
- **A rule is rewritten many times** between its text and its rows: reordered,
  sliced, fused, its filters and calls moved, its variables traced to columns,
  its operators chosen from families of fixed width. A slip in a rare shape is a
  quietly different query.
- **Faults depend on the order of evaluation**: pushing a filter down may hide a
  division by zero or raise one.

`PROJECT.json` lists each at its line under `hazards`, with the properties that
would catch it. Three have none, and say why: two waits that do not look at
the deadline or the cancel token and one deadline that starts after admission
(no clock is modelled), a cancel that comes between accepting a request and
registering it (it is refused, and nothing in the source promises more), and a
client that connects and sends nothing.

## 3. The modules and the code

`INSTANCE` composition is shown with an arrow.

| Module | Models | Composed with |
|---|---|---|
| `Admission` | `engine.rs`: `acquire`, wait, drop of the guard | extended by `Service` |
| `SymbolTable` | `symbols.rs`: `intern`, `resolve_raw` | extended by `Loading`; → `AtomicSymbols`, the abstract table it implements |
| `Evaluation` | `runner.rs` `evaluate`, `worker.rs`, the `Budget`, captures | → `EvaluationPromise`, what it promises |
| `Service` | `daemon.rs` | extends `Admission`: its requests are the calls |
| `EmbeddedBuild` | `runner.rs` `run`, `map.rs` `NativeFunctions`, `Finished`, `PublishOnUnwind` | |
| `BlockCache` | `native_calls.rs` `load_block`, `compile_block`, `block_compile_lock` | |
| `Stratification` | `src/strata` | |
| `Dataflow` | `planning/src/strata.rs`, `dataflow.rs`, `collector.rs`, `aggregation.rs` | → `Stratification` as `Strata` |
| `DataflowMeaning` | no code: what a program means, computed apart (`PerfectModel`) | extends `Dataflow` |
| `Accounting` | `accounting.rs`: tags, pending bytes, the counter | extended by `Materialization` |
| `Feeding` | `dataflow.rs`: the share of each worker | extended by `Materialization`, `Reading` |
| `Reading` | `reader.rs` `byte_range_reader`: which bytes of a file each reader takes | extended by `Loading` |
| `Loading` | `reader.rs`, `files.rs` `read_sorted_file`: a file read by several threads | extends `Reading`, `SymbolTable`: its cells are the calls |
| `Materialization` | `inspect.rs`, `merge.rs`, `runner.rs` `consolidate` and `parallel_map` | |
| `Language` | `parsing`: the syntax tree; the meaning of a rule, from the tree alone | extended by all below |
| `Validation` | `validate.rs`: refusals, inference of types, their check | extended by `Compiler` |
| `Catalog` | `catalog/src/rule.rs`, `arithmetic.rs`, `atoms.rs` | extends `Language` |
| `JoinTree` | `src/optimizing`: default tree, spanning trees, reordering, choice | extends `Catalog` |
| `RowProgram` | `planning/src/calls.rs`, `map.rs`: calls, filters and head as a row program | extends `Catalog` |
| `QueryPlan` | `planning/src/rule.rs`, `flow.rs`: one rule to its tree of transformations | extends `JoinTree`, `RowProgram` |
| `Operators` | `jn.rs`, `map.rs`, `compare.rs`, `src/macros`: what a transformation computes, and which are generated | extends `QueryPlan` |
| `Rewrites` | `planning/src/strata.rs`, `pushdown.rs`, `catalog` sideways slices: jobs, pushing down, fat rows | extends `Operators` |
| `Provenance` | `explain.rs`: bindings, search, groups of aggregates | extends `Language` |
| `Compiler` | the way of a program through all of these, in the steps of `main.rs` and `engine.rs` | extends `Rewrites`, `Validation`, `Provenance` |
| `*Proofs` | the theorems about the module they are named after and those it extends | extends it |
| `MC*` | the instance TLC checks | |

Definitions whose comment begins "Mutant of" are plausible slips (a dropped guard,
a swapped order). Nothing uses them; putting one in the place of the definition
above or below it makes the property it is listed with in `PROJECT.json` fail.

### Admission

`pc[e]` is where each call of `evaluate` stands, `running` is
`Admission::running`. What runs under the mutex is one step; `Condvar::wait`
releases it and waits in the same step. `notify_one` picks any waiter, and a
waiter may also wake by itself. A woken thread competes with newcomers. A panic
unwinds through the guard and is the same `Release`.

### SymbolTable

A call of `intern` looks under the read lock (`LookUp`) and, if the id is free,
looks again under the write lock (`Insert`), with any other steps in between.
`SymbolId` is a constant operator: any function from texts to ids, so collisions
are cases and not probabilities. A reader keeps what `resolve_raw` gave it.

### Reading, Loading

A file is a sequence of bytes. `RangeStart` cuts it into ranges of one size;
`FromLine` moves a cut to the first line that starts there or later (the byte before
the range says whether one starts at it), and `SegmentEnd` reads on to the end of the
last line. In `Loading` each reader takes the lines of its segment in order: a
carriage return at the end goes, an empty line is skipped, and the cells are interned
one by one through `SymbolTable`, whose calls are named by reader, line and column,
so readers meet inside `intern`. The table is the engine's: `Elsewhere` is whoever else
uses it, before and meanwhile. It interns any of `OtherTexts` by the calls `Others` (other
files, symbols of rules, rows of requests, embedded functions, in this evaluation or
another) and takes raw pointers. A cell is interned before its line is known to be
too wide, as in the source. A reader stops at the first line it refuses; the waiting
thread joins all of them and answers with the first refusal, or with all rows. A
segment is read in one step, since nobody writes the file meanwhile. Columns hold
symbols; a number that is refused is, to the others, like a width that is wrong.

### Evaluation

Each worker is `worker_loop`, one action per stretch between two points where
another thread can come in: check the poison flag, take a job, step the dataflow
(`Operate`, `Capture`, `MeetFault`), observe the budget, keep the dataflow or
flush it and report. A panic goes through `RecordPanic`, `Poison`, `TellRun`:
the fault is on record before the flag is set, and the flag before the report. The coordinator is `WorkerSet::run` (send, receive
with its time-out, conclude), the settling, and `evaluate`'s last poll. Reasons
to stop come up at any time (`ComeUp`); memory may go above its ceiling and
below it again (`Allocate`, `Free`).

Choices: the stop flag is set together with the fault, because the code sets it
under the fault's lock; an `Err` from `send` is a worker that left and is
answered as the panic it stands for; the arm for a disconnected report channel
is unreachable, since the set keeps a sender; one dataflow per set; a row is one
unit that is read, sent and captured; the probe is done when every worker has
built its part and no row is under way (that much is taken from timely).
`Share`, which worker feeds which row, is a function on rows: `FedExactlyOnce`
proves that the code's chunks are one.

### Service

`stage[r]` is the thread of request `r`; `inFlight` is the map from ids to
tokens. The admission limit is `Admission` itself, whose calls are the
evaluations requested, so `Arrive`, `Admit`, `Wait` and `Release` are steps of both. A
request registers, evaluates, unregisters **by id**, responds. `Undurable`
requests carry a `budget_seconds` that `Duration::from_secs_f64` refuses by
panicking, outside `catch_engine_panic` (`Die`). What an evaluation does is its
outcome. `since` is a history variable: what the other requests of its id have done to
the entry of a running request. With the thread of a request go its token and its outcome.

### EmbeddedBuild

The main thread prepares inputs and then evaluates; the builder chooses a tier,
builds, publishes, and may build again optimized; callers wait for the first
build. `Finished` and `abandoned` are how the two sides tell each other to stop.

### BlockCache

Loaders of one digest in several processes; the registry names a lock *weakly*:
`Alive(k)` is that some loader still refers to it. `Rename` is the atomic
replacement; a process may crash at any step and somebody may damage a library.

### Stratification

Kosaraju's algorithm with its stack made explicit: `Visit`/`Finish`/`Ordered`
are the first search, `Grow`/`Start` the second, `MergeRound` the merging. Which
rule comes next is any the hash maps may give. What rules read through others
is taken from the dependency graph alone (`Reached`), by closed sets: it is the reference
the properties use, and no step of the algorithm.

### Dataflow

Rules are joins along a path of one to three atoms, possibly with one negated
atom, over binary relations; their transformation tree is right-deep as the
planner makes it when nothing reorders it. A signature is the lineage the source
uses as a name. `construct_recursive` and `construct_non_recursive` walk the tree
with `seen_set`, `nested_seen`, and the collections a recursive scope enters; their
recursion is explicit: `walking` is its stack, `PlanRule` calls it for the root of a rule,
`PlanInput` for the next input of the innermost call, and `PlanOutput` returns from one.
`Construct` is the body of a call up to its first recursive one.
`Operate` evaluates one operator of the outer scope, `OperateInScope` one of
a recursive scope; `Collect`, `CollectRound`, `LeaveScope` are the collectors. A
recursive scope runs in rounds until its variables stay as they are. The
reference, in `DataflowMeaning`, is the perfect model, computed relation by relation from
the rules alone (`PerfectModel`), and knows nothing of strata or operators. Planning and
assembly are interleaved group by group; the source plans first, which comes to
the same, since planning reads nothing that assembly makes.

### From a program to its rows: Language to Compiler

`Language` holds a program as data (declarations, and rules with a head, atoms,
comparisons and calls), the values of expressions and functions, and *the
reference*: `BodyOf`, the substitutions a rule's body has over given relations,
and with them the least or perfect model, taken from the syntax tree alone. A
value carries its type (`<<"number", 1>>`), so that a column read back with the wrong
type is a different value.

`Compiler` then takes a program in steps, each the whole of a stage:

| Action | Code |
|---|---|
| `Validate` | `validate_program`: declarations, shape, arities, heads that agree, inferred types; refuses, or types every column |
| `PrepareStratum` | `prepare_rules`: pushdown and sideways slices, the jobs of a stratum in levels |
| `Plan` | `ProgramQueryPlan::from_strata`: for every job a join tree (any the optimizer may choose), its row program and transformations; the groups of each stratum |
| `Load` | assembly: is there an operator for every shape, or are rows on the heap; the inputs |
| `EvaluateGroup` | the operators and collectors of one group, in rounds if it is recursive |
| `Answer`, `Explain` | `explain.rs`, for any row of any derived relation |

What is compared: `AnswersAreTheMeaning` (the rows are those of the reference),
`FaultsAreTheRules` (a fault on the way is one the rules have), `NothingPanics` (no
look-up misses, no operator is absent from its family), `TypesAreKept`,
`TypingIgnoresRuleOrder`, `WitnessesDerive`.

Operators are sets of records `[key, val]`. Where each cell is read from
follows the code (`Position`: a column of the right value hides one of the left;
`Flip`: the operand with the wider value goes first), and so does what happens
when the same signature occurs twice (`LastAt`). The families of generated
operators (`row_row_space`, `jn_space`, ...) are sets of shapes, cut to
`KvMax` and `RowMax`; a head wider than they allow is evaluated on heap rows, which
changes which operators run (`IsFat`, `IsFused`). Integer widths and the layout of
cells are left out. Where the source iterates a hash map, the model picks any.
Optimization level -1 (no optimization) takes the same branches as 0. The strata are
part of the instance, since `Stratification` covers them; sharing across rules is in
`Dataflow`.

### Accounting, Feeding, Materialization

One copying rule per head, so that what a relation ought to be is known; the
dataflow in between is external: it takes any row to any worker and may derive a row
and retract it again on another (the build whose weights are `isize`; the build
with `Present` weights is the case without retractions). Each worker feeds its
chunk, captures, sorts and publishes a batch per head; helpers claim heads by a
shared counter, merge batches pairwise, count against the ceiling, and store.
Each thread charges what it allocates: pending bytes are added to the counter
(`Account`), then compared with the peak (`ComparePeak`), then the peak is raised
by `fetch_max` (`RaisePeak`), with other threads in between. An update,
an entry and a settled row hold one byte each; the buffers of intermediate merges
are not charged, nor what the coordinator itself holds pending. The loops of
`merge_batches` and `consolidate` are recursive functions over the number of turns
(`Merging`, `Passes`, `Kept`), with one turn of the merge as `MergeStep`.

## 4. The runs

| Run | Distinct states | Asks | Shows |
|---|---|---|---|
| `loading` | 332,268 | `RelationIsTheFile`, `RefusedForAReason`, `PointersStayValid`, `AtomicSpec` | every file of up to four bytes, read by three threads while a text is interned elsewhere: its lines or a refusal with a reason, and two looks are one atomic interning, with two texts colliding |
| `evaluation` | 479,868 | `NoRowMissing`, `SilenceHasAReason`, `PublishedBeforeReported`, `AnswerIsDeserved`, `EveryEvaluationAnswers`, `PromiseSpec` | every trouble in every order: an answer, with all rows or with a reason that came up |
| `service` | 751,929 | `WithinLimit`, `NoLostWakeup`, `NoStaleEntry`, `CancelFindsTheEvaluation`, `EveryRequestIsAnswered`, `ShutdownReturns` | four requests for one place, three under one id, one of which dies: no wake-up is lost to a newcomer; what cancels find under a shared id; shutdown waits and returns |
| `embedded_build` | 301 | `RefusalsInOrder`, `NewestBuildForGood`, `NoCallerWaitsForever` | the build races the inputs and the dataflow |
| `block_cache` | 104,280 | `Serialized`, `RepairIsEnough`, `GoodStaysGood`, `EveryLoaderReturns` | crashes, cancelled builds, two processes, one damage |
| `stratification` | 822,666 | `RefusedExactly`, `DependenciesComeFirst`, `IteratedWhenNeeded`, `Terminates` | every program of three rules, in every order of the hash maps |
| `dataflow` | 162,240 | `MeansTheProgram`, `NothingAbsent`, `Settles` | 2,056 programs on two databases come to their perfect model |
| `dataflow_count` | violation | `MeansTheProgram` | finding 1 |
| `compiler` | 63,680 | `AnswersAreTheMeaning`, `NothingPanics`, `FaultsAreTheRules`, `TypesAreKept`, `TypingIgnoresRuleOrder`, `WitnessesDerive` | 28 programs, four levels, every join tree, 123 databases: the rows are what the rules mean, and each has a witness |
| `compiler_negated` | violation | `NothingPanics` | finding 2 |
| `compiler_shapes` | violation | `NothingPanics` | finding 3 |
| `materialization` | 490,770 | `SettledAsASet`, `CeilingIsNoticed`, `BytesAreCharged`, `PeakIsTheHighest` | exact sets, exact ceiling, exact bytes |

The deepest of these:

- `NoRowMissing`: an answer with rows has *every* row. Its failure takes a
  worker, an operator and the coordinator acting in a particular order.
- `PromiseSpec`: the evaluation refines `EvaluationPromise`, which also says
  that it does not answer with rows once a reason that cannot pass has come up;
  only memory that is given back may pass.
- `NoLostWakeup`: while somebody waits, all places are taken by admitted or
  woken calls.
- `AtomicSpec`: the two-look interning implements one step.
- `RelationIsTheFile`: read back through the symbol table, the relation is the lines
  of the file, however it was cut and however the readers' interning interleaved.
- `RefusedForAReason`: a file is refused exactly if a line has the wrong width or a text
  that collides, with another text of the file *or with one interned elsewhere*, and at
  no line behind the first of a wrong width. The table is the engine's, so a file without
  a collision of its own may be refused for a rule, another file or another evaluation.
  Which of two colliding lines is named depends on the interleaving, and the property
  says no more.
- `CancelFindsTheEvaluation`: of the requests that run under an id a cancel finds the last
  to register, and it is not answered "not in flight" while one of them runs and no other
  has ended since that one registered. The history variable `since` says what has
  happened to a request's id. Behind that the code promises nothing (see
  [findings](#8-findings)).
- `NoStaleEntry`: an id designates a request that carries it and runs, or has died on its
  time budget; never one that is answered.
- `RepairIsEnough`: a loader gives up on a library only if one was damaged from
  outside while loaders were at work; one found damaged is always repaired.
- `RefusedExactly`: a program is refused if and only if some relation depends on
  its own negation, by reachability, whatever the components were found to be.
- `MeansTheProgram`: every relation, after all strata, is that of the perfect
  model; with sharing on, off, across strata and into recursive scopes.
- `AnswersAreTheMeaning`: after validation, slices, reordering, planning, pushing
  down and evaluation on the operators of the shapes chosen, the relations are the
  model of the rules as they were written.
- `FaultsAreTheRules`: an evaluation that faults has a rule that faults on a
  solution the reference has, or one that divides; an answer without a fault hides
  none, provided filters that guard a fault are listed before it.
- `TypingIgnoresRuleOrder`: reading rules in any order refuses the same programs
  and infers the same types, although the first rule to derive a column types it.
- `WitnessesDerive`: a row that is in the answer is explained by a rule and by
  rows in the final relations that make it, for rewritten and aggregated rules as well.
- `CeilingIsNoticed`, `BytesAreCharged`, `PeakIsTheHighest`: concurrent counts
  are exact.

## 5. Bounds

Every bound is a constant of an MC module or a `.cfg`.

- `loading`: 3 readers and every file of at most `MaxLength = 4` bytes over two letters,
  newline, carriage return (at the ends of lines) and delimiter: ranges of no byte, of
  one, and a last one that is longer; cuts before, in and behind a newline; a line over
  all three ranges; a last line without a newline. One column, which has lines that
  are too wide; the empty text is a cell beside delimiters. Cells have at most two bytes,
  so longer lines have a delimiter. The texts `a` and `b` collide. One call from elsewhere
  interns `a` at any time, before the readers start, between their looks or behind them;
  it can make any file with a cell `b` be refused, and be refused itself. One reader of
  pointers. The ranges are proved for every file and every number of readers, the
  interning for every number of calls, and the reasons of refusals for both.
- `evaluation`: 2 workers, 2 rows, one in the share of each, ceiling 2; six of the seven troubles come up.
  A row may cross workers, one may finish before the other, and each may fail
  alone. The seventh, too many tuples, needs a ceiling below the rows; it is
  proved (`EvaluationCeiling`) and checked with real counting in
  `materialization`. The rest is proved for every number.
- `service`: 4 requests, 1 place; three under one id, of which one is undurable, and one
  without: an entry is overwritten, taken away by another request, and left by a dead one,
  in any order. Of the three that are not undurable one runs, one has been woken and one
  comes new, which is the smallest case in which a wake-up could be lost. The limit and
  the wake-ups are proved for every number of calls and places, the entries for any
  requests and ids.
- `embedded_build`: 2 callers, which meet the builds at different moments; there
  are two tiers.
- `block_cache`: 4 loaders, 3 of them in one process, of which one has a directory of its
  own under the same lock; `MaxDamages = 1`, so repairing can be seen to work
  and to fail.
- `stratification`: 3 rules over 3 relations with every choice of what is read
  and negated: every component shape up to three rules, self-loops, chains and
  merges.
- `dataflow`: 3 rules, 2 derived relations and 1 input over 3 nodes: a cycle, and
  a fork with a self-loop; ten body shapes, with and without negation;
  aggregates `min` and none (`count` in the violation run). Aggregated relations
  are not derived from themselves (see [findings](#8-findings)).
- `compiler`: 14 programs of one rule and 14 of several (recursive, negated
  across strata, aggregated, ill-typed, declared twice, of several heads). Bodies
  have up to four atoms, so that there are cores with atoms they cover, leaves on
  both sides of a join, and antijoins at every height; numbers from 0 to 4, which
  gives joins that match, that miss, and divisors that are zero; levels 0 to 3;
  `KvMax = 4`, `RowMax = 7` as in `config.rs`, and `GroupLimit = 2` (256 in the source)
  put programs on both sides of each: a head of eight columns is on heap rows.
- `materialization`: 3 workers, so that pairwise merging carries an odd batch, 2
  helpers, 2 heads of one row each, ceiling 1 (one row fits, two do not),
  `FlushBytes = 3`, `MaxRetractions = 1`.

## 6. Fairness

Weak fairness of threads only: a thread that can go on does. Clients need not
send anything, nobody has to cancel, to panic, to damage or to crash, and a
spurious wake-up need never come. In detail:

- `Admission`: a woken or arriving call takes the mutex; an admitted evaluation
  ends. The latter is `EveryEvaluationAnswers` of `Evaluation`. No fairness
  between waiters is assumed, as `notify_one` gives none: with finitely many
  calls, none is overtaken for ever.
- `Evaluation`: the coordinator and each worker. A worker's loop polls, so it is
  always able to go on until it leaves.
- `Service`: the request threads, and the return of the accept loop after its
  joins.
- `EmbeddedBuild`: `rustc` ends, a caller whose build is there goes on, the main
  thread goes on. A row program need never call.
- `BlockCache`: a loader whose lock is free takes it, and `rustc` ends.
- `Stratification`, `Dataflow`: the one thread goes on. `Compiler` has no liveness
  property: every stage is one step.

`Materialization` has no liveness property; it says what is true *when* helpers
have joined.

## 7. The proofs

TLAPS checks every theorem for all values of the constants, under the named
assumptions of each module:

- `AdmissionAssumption`: the calls are finite and the limit a natural number.
- `SymbolAssumption`: `SymbolId` gives ids.
- `EvaluationAssumption`: there are workers, the rows are finite, `Share` is a
  function from rows to workers. `PeersAssumption`: at least one worker.
- `ServiceAssumption`: a request carries an id or none; the value for "no request" is none.
- `CacheAssumption`: processes, directories and locks fit together, see `BlockCache`.
- `StratificationAssumption`: the rules are finite.
- `DataflowAssumption`: the rules are finite; the body of a rule is a sequence of relations,
  not empty, and what it reads is what is in it; at most one atom is negated; every relation
  that is read is derived or an input; relations are finite sets of pairs of natural numbers
  (of a value only its place in the order matters, counted from the least of its type).
- `LoadingAssumption`: files are finite sequences, the cells of each of their lines are
  texts, and where a cell is (reader, line, column) names a call of `intern` that is none
  of the calls made elsewhere, which intern texts too.
- `AccountingAssumption`: `FlushBytes` is positive.
- `MaterializationAssumption`: there is a helper, helpers are finite and no workers; the
  number of heads, the lengths of inputs, the ceiling and the number of retractions
  are natural numbers.

TLC evaluates each of them in its run.

**`ServiceProofs`, the limit.** `AdmissionInv` joins `TypeOK`, `CountsTheAdmitted`,
`WithinLimit`, `NoLostWakeup`. None is inductive alone: that `Admit` stays within
the limit needs the counter to count the admitted, and that a wake-up is not lost
needs both, because `Release` frees a place and wakes one. Results:
`AdmissionCounts`, `AdmissionLimits`, `AdmissionWakes`.

**`LoadingProofs`, the symbol table.** `SymbolInv` adds to the properties the bookkeeping of a
call (`CallsInOrder`). Each step then leaves the table alone or fills a free id,
from which everything follows. Results: `SymbolAnswers`, `SymbolPointers`,
`SymbolsOnlyGrow`, and the refinement `SymbolTableIsAtomic`: `LookUp` is the atomic
interning when it finds an answer and a stutter when it does not, and `Insert`
is the atomic interning.

**`EvaluationProofs`.** `EvaluationInv` is five parts:

1. `Typed`: types, and that a job channel holds at most the run, then the
   shutdown.
2. `RunOnce`: a worker that has its run before it has done nothing, and one that
   has reported is idle; so there is one report each.
3. `FlushedLast`: whoever has flushed did so after everybody had built and every
   row had settled, and holds no captured row unpublished.
4. `OnRecord`: what goes wrong is met before it is told and recorded before it
   matters; a lost row has a fault on record.
5. `Gathered`: the coordinator keeps the first error, and settles only if every
   worker reported well; then the result is all rows, unless there is a fault.

`NoRowMissing` needs all five: an answer with rows means no fault was recorded
by the last poll (5), so no row was lost (4), every row was published (3) by
workers that all reported (2). Results: `EvaluationTypes`, `EvaluationComplete`,
`EvaluationCeiling`, `EvaluationReasons`, `EvaluationReports`,
`EvaluationReportsOnce`, `EvaluationDeserved`, `EvaluationFirstFault`, and the refinement
`EvaluationKeepsPromise`.

**`ServiceProofs`, the service.** Every step of the service is a step of `Admission` or leaves
it alone (`ServiceStepsAreAdmission`), so `ServiceAdmits` carries `TypeOK`,
`WithinLimit` and `NoLostWakeup` over to the engine behind a service. Of the map of
ids: `ServiceForgetsTheEnded` (`NoStaleEntry`) and `ServiceFindsTheEvaluation`
(`CancelFindsTheEvaluation`), for any ids clients give, shared or not, and whichever
requests die with one. The second rests on `Designated`: a running request whose id
nobody has touched since it registered is the one the id designates, and one whose id
others have registered, but not taken away, since then has an entry there.

**`EmbeddedBuildProofs`.** Three threads write what the answer is made from.
`BuildInv` says when each is done: the builder has published exactly once it has
left its first build (`PublishedOnce`), row programs call only while the dataflow
runs (`CallsWhileEvaluating`), a build fails with a block on record or after a
refusal (`FailuresOnRecord`), and what a row program last called is still there
(`CalledBuildsStay`). Results: `BuildTypes`, `BuildRefusesInOrder`,
`BuildIsPublished`, `BuildsAreForGood`.

**`BlockCacheProofs`.** `CacheInv` adds to `TypeOK` and `Serialized` that the
registry of a process names the lock its loaders refer to (`RegistryNamesTheLock`;
an entry is removed only with its last reference, and that is what keeps two
loaders from holding two locks of one digest), and that what a loader has rebuilt
is good unless it was damaged since (`RebuiltIsGood`). Results: `CacheTypes`,
`CacheSerializes`, `CacheLocks`, `CacheRepairs`, `CacheKeepsLibraries`.

**`StratificationProofs`.** That Kosaraju's algorithm, with its stack made explicit and
its choices left to hash maps, is right for every finite program. All of it is about
`Paths`, the pairs of rules of which the first leads to the second.
`StratificationInv` has, by phase:

1. While the first search runs: what is on the stack leads from each rule to the ones above
   it (`Ordering`), and a finished rule that leads to one of the stack is on a cycle
   with one of the stack (`LeadsBack`). Without the latter nothing says that a rule may be
   finished while a rule it leads to is not.
2. Of the order it leaves: whatever leads to a rule, and not back, has been finished
   after it, or something on a cycle with it has (`OrderIsRight`).
3. While the second search runs: a component holds only rules that lead to one
   another, every component but the last is whole, and an unassigned rule that leads to an
   assigned one is led to by it (`Assigning`, `LeadsBackToAll`).
4. Then: the components are the classes of mutual reachability, none leads to a later
   one, and the program is refused exactly if one negates itself
   (`ComponentsAreRight`).
5. While components are merged: each waits for what is not laid out yet (`Waiting`), and
   the strata hold what is laid out, once, after what it depends on (`InStrata`).

Results: `NegationThroughRecursionIsRefused` (`RefusedExactly`), `StrataComeInOrder`
(`DependenciesComeFirst`), `OnlyRecursionIsIterated` (`IteratedWhenNeeded`), and
`EveryRoundLaysOut`: in every round of the merging some component waits for nothing (the
one that was found last of those left), which is the reason why the code's `while` ends.

**`DataflowProofs`.** `NothingIsAbsent` (`NothingAbsent`): for every program and database,
whatever order rules are planned in and whether or not collections are shared, no operator,
collector or scope looks up what is not in the maps. It starts from what
`StratificationProofs` leaves (`StrataAreLayered`: every rule is in one stratum, and what a
rule reads is derived in its own stratum, if that is recursive, or in earlier ones).
`DataflowInv` has

1. `Progress`: which atoms are in the maps, namely the inputs and what earlier groups derived.
2. `Sharing`: what is remembered as planned is made, is in the plan of this group, or is
   the output of a call of the recursion that has not returned; what was planned inside a
   scope is remembered in that scope only.
3. `InOrder`, of the plan: an operator comes after those that make what it reads.
4. `Calls`, of the stack: each call has planned the inputs it has been through, *and the
   outputs grow strictly towards the outer calls* (`Weight`, the atoms below an output).
   The second half is why the first step of a call may rely on what it finds remembered: an
   output is remembered before its inputs are planned, so a call could find an output that
   is still pending and read it too early. Whatever an inner call asks for is smaller than
   everything pending, so what it finds is in the plan.
5. `Entering` and `Lasts`: what a scope reads from outside is there or is a variable of
   the scope, and the last collection of every rule that is planned is on its way.
6. `Operating`: while operators run, the maps hold what lies before them in the plan.

On top of it `MeaningInv` says what the collections hold. `Meaning(out, model)` is what a
path of relations, with a negated one or none, means in `model`.

1. `SharedMean` and `ScopeMeans`: what is shared means its lineage over the relations
   outside, all of which are complete by then; what a scope has made means it over the
   variables of the scope. Nothing made outside goes stale, since what it reads is never
   changed later: it takes `StrataAreLayered` to see it.
2. `Sums`: a derived relation is the sum of what the rules of the groups so far derive,
   and of its facts.
3. `PlanMeans`: what is planned is over relations that the rules of the group read, and
   each of those, in a recursive group, is complete or entered into the scope.
4. `LeastInside` and `LeastOutside`: the variables of a scope never hold more than any
   choice of rows that is closed under the rules.

Results: `CollectionsMeanTheirLineage`; `TheResultIsSupported`, in the end every relation is
exactly what its rules derive from the result, with its facts, aggregated once;
`TheResultIsLeast`, the heads of a recursive stratum without aggregates are the least rows
closed under its rules. Together they characterise, stratum by stratum, the perfect model.
`TheResultIsSupported` says nothing of a counted relation whose rules are spread over
strata (`Once`): of those it is false, which is finding 1. Of a relation of minima it holds
however its rules are spread, since a minimum over what is aggregated already misses none
(`MinOfMin`); that takes rows over the natural numbers, where each key has a least value.

**`LoadingProofs`.** `ReadExactlyOnce`: for any file and any number of
readers each byte is taken by exactly one, the bytes of a line by the same, in the
order of the readers. Aligning a cut never moves it behind the next
(`FromLineGrows`), so the aligned cuts are in order (`RangesAreOrdered`), and where a
reader stops the next one starts (`SegmentsMeet`). That a position has a *first*
newline behind it is `Least`, from the well-foundedness of `<` on the naturals.

What is loaded is proved over that and over `SymbolInv`, since every step of a
reader is a step of a call of `intern` or leaves the table alone. `LoadingInv` adds to
`SymbolInv` that what is in the table comes from the file or from a call elsewhere that has
been answered (`Origins`; otherwise a collision could be with a text that nobody can name),
and what each reader has read: the
rows it has are those of the records of its segment that are behind it, all of them
well formed and their texts in the table to stay (`LinesRead`), and likewise of the cells of
the line it is in (`CellsRead`). When all are joined the segments are the file.
What is interned elsewhere becomes more while the file is read, and with it the lines that
collide (`CollidingGrows`): a refusal never loses its reason. And a file that has been loaded
holds its ids, so that nobody can collide with it afterwards.
Results: `LoadingIsInductive`, `TheRelationIsTheFile`, `RefusalsHaveAReason`, and that
loading uses the table as the table promises: `LoadingKeepsPointers`, `LoadingIsAtomic`.

**`MaterializationProofs`.** `FedExactlyOnce`: for any number of rows and workers each
row is in exactly one share. It is arithmetic on chunks rounded up
(`ChunksSuffice`, `ChunksAreApart`). `PeakIsExact`: threads may allocate, free, and take or
drop the tag in any way (`AccountingSpec`). `MemoryInv` says where the highest value of the
counter is while the peak is behind it: with a thread between its fetch_add and its
fetch_max (`HighestIsCarried`), and nothing is above it (`NothingHigher`).

`MaterializationInv` is `MemoryInv` with five more parts: types; `InOrder`, that
whoever charges bytes carries the tag, because helpers take theirs after the last flush
and workers drop theirs after the last helper has gone; `Apart`, that a head that was
claimed is with one helper or has settled, so that no slot is written twice;
`TuplesAreCounted`, that the counter is the rows of the heads that have settled and of
those between counting and storing; and `BytesAreCharged` itself. The first two are needed
because an untagged thread's bytes go nowhere, the third because a second `Store` to a head
would lose the first one's bytes and tuples. Both balances are sums over threads and heads:
`SumFunction` is a fold, so that a sum does not depend on the order of its terms,
and that one changed term changes it by the difference, are proved first, from the
definition. Results: `MaterializationIsInductive`, `MemoryIsCharged`
(`BytesAreCharged`), `ThePeakIsTheHighest`, `TheCeilingIsNoticed`.

`HeadsSettleAsSets` (`SettledAsASet`) is about the rows themselves. Its invariant,
`SettledInv`, adds five parts to `MaterializationInv`. `WeightsAddUp` is the one that
matters: until a head is merged, the weights of each of its rows over the updates under
way, the captures and the published batches add up to 1 if a worker has fed the row and to
0 if not. So a retraction, whose updates may be captured by two workers and meet only in
the merging, is nothing in every state, and what moves from the dataflow into a capture and
from there into a batch is neither lost nor counted twice. `UnderWay` says which updates can
be under way, so that a row that is fed is new to the set of them; `FlushedIsEmpty`, that
nothing is captured behind a flush, so that only the batches are left when the helpers
start; `BatchesAscend`, that batches are in order, without which merging would not bring the
entries of a row together; `RowsAreRight`, the claim itself for heads merged and settled.
The step that uses them is `Merge`: everything is captured and flushed, so the batches alone
weigh what was fed, which is each row once (`FedExactlyOnce`), and `ConsolidateIs`
says that such batches settle as exactly those rows. That lemma is proved along the loops:
a turn of `merge_batches` keeps the order and the weights (`TurnKeeps`, `MergeBatchesIs`), a
pass over the pairs keeps the weights of all batches together and halves their number
(`SumOfPairs`, `MergePairsIs`), after as many passes as there are batches one is left
(`PassesEnd`), the rows kept are those of positive weight in order (`KeptRows`), and an
increasing list of the numbers up to n is those numbers (`IdentityIs`). Inductions over
turns, passes and entries go by a least counterexample (`Upwards`).

`CeilingHolds`, `FirstFaultStays`, `PoisonedWithReason`, `CountsTheAdmitted`,
`OneReportEach`, `OnlyGrows`, `OneTextPerAnswer`, `RefusedOnlyOnCollision`,
`OneLockPerProcess` and the `TypeOK` of `SymbolTable`, `Evaluation`, `EmbeddedBuild`
and `BlockCache` are proved and in no run of their
own.

**Only model-checked:** every liveness property (fairness and `ENABLED` are out of
the prover's reach), and
`MeansTheProgram` of `Dataflow` (its `PerfectModel` is computed by a recursive operator;
that the result is supported and least in each stratum, which is what makes a model the
perfect one, is proved above), and everything in the chain from `Language` to `Compiler`. Those use recursive
operators, which the provers cannot see into, and recursion over data, whose
induction theorems take an operator that they cannot instantiate.

## 8. Findings

Each is a run that TLC finds violated, quoted in `PROJECT.json`.

1. `dataflow_count`, `collector.rs:55`. The rules of a counted (or summed) relation may
   fall into different strata; the counts of the first are then counted again as
   rows of the second. `min` and `max` are not affected, which the `dataflow`
   run shows for `min`.
2. `compiler_negated`, `catalog/src/rule.rs:896`. A comparison on a variable of a
   negated atom that has a wildcard or a constant before it, as in
   `p(x) :- a(x, y), !b(_, x), y < x, x < 2.`, is accepted and panics while the rule is
   planned.
3. `compiler_shapes`, `macros/src/lib.rs:50`. A head without columns over a join or
   an antijoin, and `p(x, x) :- c(x), !a(x, x).`, are accepted and find no operator.

Met while modelling, with no run of their own. The first two are behaviours of run
`service` (it shows them if `CancelFindsTheEvaluation` asks for an "ok" whatever `since`
is, or `NoStaleEntry` for a running request); the next three are the program sets named,
in `MCCompiler`:

- `daemon.rs:387`: two evaluations under one id share an entry; the first to end
  removes the entry of the other, whose cancel then answers "not in flight", although
  `daemon.rs:23` offers `cancel` for the "`id` of an evaluation in flight".
- `daemon.rs:446`: a negative or too large `budget_seconds` panics outside
  `catch_engine_panic`: no response, and the id stays in flight: a cancel of it is
  answered ok when nothing runs under it.
- `RecursiveSlices`, `dataflow.rs:363` and 448–476: in a recursive group, what a
  slice derives is published under its name only if its plan is a join or an
  antijoin; a slice of one atom is not there when the next rule reads it.
- `DividedLater`, `pushdown.rs:27–29`: which of two filters is evaluated first depends
  on where they are pushed. A division by zero that the rule as written meets
  first may be filtered away by a later comparison; then no fault is reported, and
  `explain`, which evaluates in the order written, may fault on a row that is there.
- `CountedApart`: a counted relation one of whose rules is taken apart by
  sideways passing is aggregated in two groups, as in finding 1.
- `README.md:248` describes level 0 as no optimization, while `-O 0` and the
  absence of the flag take the same branches of the planner.
- `explain.rs:7–9`: a count is explained over the solutions of one rule's body,
  whereas the collector aggregates the distinct rows of all rules.
- `explain.rs`: of a group larger than the limit, a minimum or maximum may have no
  parent listed.
- Validation accepts an aggregated relation that is derived from itself; its
  recursive scope may never come to rest.
- `files.rs:5` calls a written relation a valid input file. A row that is one empty
  symbol is written as an empty line, which `reader.rs:222` skips; a symbol that holds
  the delimiter, a newline or a carriage return at the end of a line is read back as
  other cells.

## 9. What is not modelled

- **The grammar** (`src/parsing` other than validation): text to syntax tree. In
  rules: the literals `True` and `False` of a body, and the lowering of symbols to ids
  (`SymbolTable` is the table it uses).
- **In the operators**: the layout of rows, keys and arrangements, multiplicities,
  the specialised path of `min` aggregates, and the width of integers.
- **Embedded source in a program**: that it is found and split off is parsing; what
  happens to it is `EmbeddedBuild` and `BlockCache`. In `Compiler` a function is a table
  of results and faults.
- **C interface** (`capi.rs`): the life of handles and buffers is memory safety
  across a foreign call; it adds no state of its own to the engine.
- **Profile** (`profile.rs`): a thread that samples counters into files which
  nothing reads back.
- **In files**: the text of numbers, errors of input and output, text that is not
  UTF-8, the writing of relations, and the loop over several relations.
- **Command line, control client, debugging output, benchmarks, scripts**: pure
  input and output, or no part of the program.
- **timely and differential**: external, taken at what the source relies on: rows
  move to any worker, the probe knows when none is under way, a scope iterates to
  a fixed point.
- **Time**: a deadline may pass at any step; how long anything takes is not
  said.
- In modelled parts: starting a thread that the system refuses; requests being
  parsed; the text of diagnostics and of generated sources; the settings of
  the allocator.

## 10. The plan

Done, in this order: `Admission`, `SymbolTable` and `Evaluation` with their
proofs; `EmbeddedBuild`; `BlockCache`; `Stratification`; `Feeding`, `Accounting`
and `Materialization`; `Dataflow` over `Stratification`; `Service` over
`Admission`; then the chain from the syntax tree to a witness, `Language` to
`Compiler`; `Reading` and `Loading` over `SymbolTable`.

What is left:

1. Writing relations (`files.rs`), and what is written read back.
2. `Compiler` over several rules that share collections, with the trees of
   `QueryPlan` in the place of the paths of `Dataflow`.
3. Theorems: every invariant a run checks of a module without recursive operators is
   proved. The modules from `JoinTree` to `Compiler` walk trees by recursive operators
   and stay with TLC.
