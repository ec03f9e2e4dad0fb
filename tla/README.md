# A TLA+ model of rust-lints

This directory holds a formal model of [rust-lints](../src/README.md), a Dylint
library of Rust lints with a generator for the pre-commit hook its users install:
TLA+ modules translated from the source, TLC configurations that check them on
small instances, and proofs that TLAPS checks for every instance.

A module names its definitions after the
functions they stand for (`build_sibling_graphs`, `warn_unlisted_once` as
`Unwarned`, `strongconnect`), `PROJECT.json` gives the lines of each, and what
follows says what was abstracted.  Definitions introduced as *Sensitivity* are
deliberate bugs, each a plausible slip in the code; no specification uses them,
they show that a property would notice.  The theorems are in modules of their own
(`...Proofs`).

## 1. The system

### Parts, their state and their operations

| part | code | state it keeps | operations |
|---|---|---|---|
| `acyclic_modules` | `src/src/lints/acyclic_modules.rs` | the list of module edges; during the search colours, path, cycles | `check_expr`, `check_ty`, `check_item` record; `check_crate_post` builds a graph per parent, runs `detect_cycles`, emits |
| `module_dependencies` | `.../module_dependencies.rs`, `config.rs` | the allowlists, `used_edges`, `warned_unlisted` | the same callbacks judge each reference; `check_crate_post` reports dead edges |
| `topological_ordering` | `.../topological_ordering.rs` | items per module, raw references; during the search Tarjan's index, lowlink, stack | `check_crate` switches on, `check_item` and `check_expr`/`check_ty` collect, `check_crate_post` resolves, remaps, finds components, emits |
| HIR front end | `.../hir_refs.rs`, `call_matching.rs`, `config.rs`, `suppression.rs`, `test_utils.rs`, `constructor.rs` | none | which node names which definition; which references count; module paths; which calls match a configured path; test and suppression zones |
| pre-commit hook | `src/scripts/recommended-config.py` (`emit_hook`) | commit, index, working tree and stash of the user's repository; shell variables | stash, fix rounds, format, strip comments, re-stage, check, restore in a trap |
| derive registry, builder lints | `lints/mod.rs`, `bon_builder_collector.rs`, `suggest_builder.rs`, `needless_builder.rs` | `STRUCT_DERIVES`, a thread-local map by struct name | filled by a pre-expansion pass, read by late passes |
| thread-affine drop | `unsafe_send_thread_affine_drop.rs`, `contracts/` | per search: queue, visited, an edge budget | the attribute macro leaves a marker; a bounded breadth-first search through owned types looks for one |
| call-graph and body walkers | `realtime_in_async_test.rs`, `panic_in_drop.rs`, `blocking_in_async.rs`, `await_holding_unsendable.rs` | per search: visited functions; what has been found | a transitive search of bodies; walks of one body |
| type and snippet lints | `proper_error_type.rs`, `map_init_then_insert.rs`, `redundant_enum_variant_wrapper.rs`, `unstructured_log_fields.rs` | candidates; call sites already seen | collect, then decide |
| single-expression lints | the other files of `lints/` | none | one HIR node in, a diagnostic or none out |
| registration | `src/src/lib.rs` | none | registers the passes in a fixed order |
| UI test runner | `src/src/testing.rs` | a global mutex, a `OnceLock`, `DYLINT_TOML` in the environment, an example artifact of cargo | build once, then one compiler run per test |
| hk pipeline, Clippy table scraper, Nix packaging | `hk.pkl`, `scripts/`, `nix/`, `flake.nix` | none of their own | thin wrappers of external tools |

### How they interact

The compiler owns the control flow.  It creates one object per lint pass, runs the
pre-expansion passes, then for the late passes calls `check_crate`, then
`check_item`, `check_expr` and `check_ty` in the order of the HIR, and at the end
`check_crate_post`, all on one thread.  A lint never runs concurrently with
itself; what makes it hard is that a callback's meaning depends on every callback
before it.  Passes talk to each other only through `STRUCT_DERIVES`.  The
configuration comes from `DYLINT_TOML` and does not change during a compilation.
A diagnostic goes through the compiler's lint levels: the level that counts is
that of the node being visited, which after the walk is the crate root, unless the
lint names a node itself.

The UI tests are the one place with threads: the test harness runs them all at once,
and they share the environment of the process.

The hook is where the environment acts: git starts it, tools rewrite files under
it, commands fail, the user interrupts it, and it must give back a working tree
that it took away.

### What is hard, and what correct means

* **Graph searches written as recursion** (`dfs`, `strongconnect`).  Their
  correctness rests on invariants of the whole call stack: `dfs` *unwraps* the
  position of a gray module on the path (line 121, "Gray node is guaranteed to be
  on the current DFS path").  Correct: it never panics, ends, reports cycles and
  only cycles, and of every graph that has one.
* **State accumulated over a walk and read after it** (`used_edges` behind early
  returns, raw references resolved against a map filled later, labels looked up
  in regrouped spans).  Correct: independent of the order of the walk, exact.
* **Attributes and modes** that silence one diagnostic and must not thereby hide
  another (`warned_unlisted` inserts before the diagnostic may be silenced).
* **Determinism**: hash maps feed diagnostics that must come in one order.
* **Bounds** (`MAX_DEPTH` and the edge budget of the thread-affine search): what lies at
  the bound must be looked at still, and silence must be due to the bound only.
* **One visited set, many searches** (`has_transitive_time_call`): a function that is
  being visited is answered "calls nothing".  Correct: no wait is lost by that.
* **Keys that are less than identities** (`STRUCT_DERIVES` by bare name,
  `proper_error_type`'s maps by type without arguments).  Correct: a struct whose name
  is its own is judged by its own derives.
* **What a macro leaves behind**: one call becomes several expressions, and what it says
  is read again from its text.  Correct: one diagnostic a call, and a due one.
* **Where code runs**: panics count while `drop` or `new` itself runs, a blocking call
  while an executor does; closures, blocks and guards between decide it.
* **The test runner**: an initialiser that panics half way and is tried again, a mutex
  poisoned by a failing test, a variable of the process.  Correct: exclusive,
  restored, complete, and no test hangs.
* **The hook**: failure or a kill at every command, two runs in a row.  Correct:
  nothing of the user's is lost, what is committed was staged and was checked,
  the rest is put back.

`PROJECT.json` lists 40 places where these bite, each with the properties that
watch it or the reason none does.

## 2. The modules

```
HirRefs ──┬── AcyclicModules ──── MCAcyclicModules
          │    │    └──────────── AcyclicModulesProofs
          │    └ implements CyclePromise
          └── ModuleDependencies ─ MCModuleDependencies
                   └───────────── ModuleDependenciesProofs
TopologicalOrdering ───────────── MCTopologicalOrdering
      └────────────────────────── TopologicalOrderingProofs
PreCommitHook ─────────────────── MCPreCommitHook
      └────────────────────────── PreCommitHookProofs
ThreadAffineDrop ──────────────── MCThreadAffineDrop
      └────────────────────────── ThreadAffineDropProofs
TestRunner ────────────────────── MCTestRunner
  │    └───────────────────────── TestRunnerProofs
  └ implements SerialTests
RealtimeTests ─────────────────── MCRealtimeTests
      └────────────────────────── RealtimeTestsProofs
LatePass ── BodyWalks, BuilderLints, ErrorTypes, LogMacros, each with its MC module
      └────────────────────────── LintPassesProofs, about all four
MCCrates: references the crate-walking MC modules share
```

**HirRefs** is the front end two lints share: `resolve_def_id` (at most one
definition for an expression or type), `for_each_use_def_id` (all namespaces of an
import), `should_skip_ref` (not local, from an expansion, a test crate, test
code), `item_module_def_id` and the order of paths.  A *crate* is the sequence of
its HIR nodes in visiting order; a node records its module, what it resolves to,
and the answers of the compiler's queries.  Names are numbers in string order, so
that sorting by name is meaningful.  A span is the position of a node in the walk.

**AcyclicModules** unfolds the lint.  `check_expr`, `check_ty`, `check_item` add to
`edges`.  `check_crate_post` splits them into a graph per parent where two module
paths diverge.  `NextParent` starts `detect_cycles` for one parent; the recursion of
`dfs` is turned into steps: `path` is its call stack and `rest[n]` what the loop of
the call for `n` has left.  `Descend`, `CloseCycle` and `SkipFinished` are the arms of
its match, `Retreat` its return.  `FinishDetection` normalises and sorts,
`EmitCycle` reports.

**CyclePromise** is what the lint promises without graphs or a search: in one step
it decides for every module whether some of its children depend on each other in a
circle.  AcyclicModules implements it: `status` is "decided" when `phase` is "done",
`flagged` the parents with a diagnostic.

**ModuleDependencies** keeps `pending`, the definitions a visited node names, and
takes one step of `check_dependency` for each.  Its five outcomes are five actions:
`PassOver` (early returns), `WarnUnlisted` (exhaustive mode), `LeaveUnconfigured`
(no allowlist), `AllowEdge`, `RejectEdge`.  `LookUpDeadEdge` takes the allowed edges
in any order, as the hash map does.

**TopologicalOrdering** collects items and references in the walk, then takes the
modules in any order.  `find_module_item` climbs from a definition to the item that
encloses it, `remap_impl_refs` gives the references of an impl block to its type,
`CallRoot`, `Recurse`, `MeetOpen`, `MeetClosed`, `CloseComponent` and `LeaveOpen` are
Tarjan's `strongconnect`, and `ReportModule` applies `find_ordering_violations` and
`check_impl_grouping` and emits at the lint level the code uses.

**PreCommitHook** is the shell script `emit_hook` writes, a command a step, with
git's part modelled from how the script uses it (`stash_push`, `reset_hard`,
`Unstash`, `Renames`: *external* in the map).  The list of staged files (`ListStaged`,
`--diff-filter=ACM`) has neither deleted nor renamed files.  Which added files git pairs
with a removed one that they resemble is left open: `renamed` holds any of those it may.  A file's content is a version (committed, staged,
only in the working tree, written by a tool) and whether the tools fixed it.  Tools
change any files they may.  `Interrupt` runs the trap, `Kill` does not; `just
check-all` may fail; the pipe of `git stash list` into `grep -q` may die of SIGPIPE;
`git stash pop` fails when a file is in its way.

**ThreadAffineDrop** follows a type from its declaration to the diagnostic.
`ExpandAttributes` is the attribute macro of `src/contracts` (it leaves a marker
constant or rejects the item), `check_item` the early returns of the lint and the
contract on the type itself, and then each field is searched: `StopAtBoundary`,
`FindContract`, `LeaveUnexplored`, `ExploreType` are what the loop of
`find_thread_affine_type` may do with the head of the queue, and then it looks at one
owned type a step.  A *type* is a node with a
kind and the types it owns; instances of one generic ADT are different types of one
ADT, which is why the visited set and the path differ in what they hold.

**TestRunner** has a program counter per test.  `init` is taken apart into the commands
between which it may panic (`InitPanics` gives the `OnceLock` back, as the standard
library does); `Lock` and `LockPoisoned` are the two answers of the mutex; `DropVarGuard`
and `Unlock` happen on return and on unwinding, in the order in which Rust drops.
Cargo is modelled by what the runner relies on: it builds an artifact only when there
is none (`CargoBuild`, `BuildExample`).  **SerialTests** is the promise: tests run one at
a time, each with the `DYLINT_TOML` it asked for.

**RealtimeTests** turns the recursion of `has_transitive_time_call` into a stack of
`[fn, at]` frames.  `visit_expr` walks the test, `FollowCallee` starts a search under one
of its calls, `CallLocal`, `CallTime`, `CallOther` are what the visitor does with a call,
`Return` the end of a body.  Call graphs may have cycles.

**LatePass** has what the passes over one place of the code at a time share: how far the walk is
(`at`), the diagnostics (`warned`), and `peel_async_fn_return_ty`.  The four modules that
extend it are specifications of their own; their definitions have different names (`BuilderSpec`,
`ErrorSpec`, `LogSpec`) so that one proof module can extend them.

**BuilderLints** has two phases that share `registry` (`STRUCT_DERIVES`): `Collect`, in any
order, for every file the compiler loads, with what `cfg` will remove; `Expand`; then
`check_item`, item by item, the two builder lints and `redundant_enum_variant_wrapper`.

**BodyWalks** has the lints that judge an expression by what encloses it.  No decision
depends on a sibling, so a body is one branch of its tree, outermost first.
`DropPanicFinder` and `PanicFinder` are the two visitors (panic_in_drop,
fallible_new), one expression a step; `check_expr` is what blocking_in_async,
global_side_effect and unbounded_channel decide walking outwards from a call
that `match_call_path` finds.

**LogMacros**: `check_macro` visits the expressions the macros of a crate left behind, finds
the call site in the chain of expansions and reads the text of the call
(`split_at_format_string`, `strip_leading_directives`, `format_only_call`) as a sequence of
tokens.  Raw strings, comments and the three delimiters are among them, because the scan trips over each:
`args` looks for the first `(` only.  A call also records what its author means by the text:
where the directives (`name:`, `target:`, `parent:`) end, how many fields there are, where the
format string is.  The lint does not see that; `IsMacroCall` says what texts there are.

**ErrorTypes** visits functions, types and impl blocks (`CheckItem`), and joins the Error and
Display impls of a type in `check_crate_post`.

## 3. The runs

Deadlock is not checked (`CHECK_DEADLOCK FALSE`): a lint that is done stops, and so
does a user who has committed `MaxRuns` times.  That they do not stop earlier is what
`KeepsPromise`, `Terminates`, `SearchEnds` and `EveryTestEnds` say.  Some properties are
conjunctions of named parts that one behaviour of the code keeps together; the parts
are explained here.

### Runs that pass

**acyclic** (`AcyclicModules.cfg`, about 102,000 states).
Crates: all sets of at most 6 of the 12 references between four siblings; all
subsets of 11 references over a tree of eight modules (descendants of siblings,
parent to child, the root, imports of two namespaces, an import of a local and
an external item, macro and test code); opt-outs at the root; test crates.  Four siblings with
six arcs are the smallest graphs with a finished module reached from a second root,
two cycles sharing a module, nested cycles, and two separate tangles.
* `GrayIsOnPath`: the unwrap is safe, and the path is one.
* `ReportedIffCyclic`: sound, and complete for every parent.
* `EveryTangleReported`: no group of mutually dependent siblings goes without a
  diagnostic because of another.
* `DiagnosticsExact`: what is reported are cycles (`OnlyCycles`), each arc of a
  diagnostic points at the first reference of the crate that makes it, at whatever depth
  (`LabelsAreFirstWitnesses`), in one order and without duplicates, independent of
  hash maps (`DiagnosticsOrdered`).
* `KeepsPromise`: it implements CyclePromise, and under fairness comes to a decision.

**dependencies** (`ModuleDependencies.cfg`, about 148,000 states).  All sets of at most
4 of 11 references between three modules and a submodule, some under attributes, some
that do not count, with six allowlists (none; partial; a target that is no source; a
module allowing itself), both modes, both coverages, and test crates.  Four references
are enough for an unlisted source, an unlisted target, a repetition under an attribute
and a forbidden edge in any order.
* `NothingSlips`: every forbidden reference has a diagnostic of its own, whatever
  came before it.  `OnlyDue`: nothing else is reported.
* `UnlistedOnce`: a module is reported unlisted once, and known after any reference
  that names it.
* `DeadEdgesExact`: dead means used by no reference, and is said only when known.

**topological** (`TopologicalOrdering.cfg`, about 199,000 states).  Four items: plain
functions with at most 6 of 12 references; seven arrangements with impl blocks before,
after and away from their types, two modules, nested items, with at most 4; two
allowed definitions.  References are made and received by the items themselves or
by a method inside.
* `TarjanIsExact`: Tarjan's invariant at every step (`StackIsChain`) and his result
  (`ComponentsExact`).
* `OrderExact`: what is reported is what, by definition, comes too early.
* `Satisfiable`: every module has *some* order in which the lint is silent; the two
  rules never contradict each other.  `Terminates`.

**hook** (`PreCommitHook.cfg`, about 1,012,000 states).  Two Rust files, a manifest and a
lock file in 252 combinations of clean, edited, deleted, staged, added, removed,
partly staged, staged and then deleted, untracked and missing, and of one file removed
while the other is added, with or without a later edit, which git may take for a rename;
two runs of the hook,
`MaxRuns`, so that the second meets what the first left behind; two rounds of fixes,
`MaxRounds`, where the code has five (a round can do anything a later one can).
* `NothingLost`: a change of the user, a deletion too, is always committed, staged, in
  the working tree or in the stash.  It excepts files staged *and* changed or deleted
  again, for which it is false: see hook_restores, and a kill between `git stash pop`
  and `git read-tree`, when what was staged is only in a variable of the shell.
* `CommitsCheckedStaged`: what is committed was staged, and only the files that the hook
  lists are committed fixed (`CommitsOnlyStaged`); these were checked as they are
  committed (`CommitsWhatPassed`).  The exception are renamed files, of which that is false:
  see *Where the code differs*.
* `StashIsOwn`: the entry popped is this run's and no tracked file is in its way
  (`PopsCleanly`).
* `RestoresTheRest`: a run that ends in its trap without trouble gives back the stash and
  the files that are not staged, or renamed.

**thread_affine** (`ThreadAffineDrop.cfg`, about 89,000 states).  Every ownership of up
to two parts by two wrappers, every kind of type, wide types, two fields; types declared
by attribute, by hand and by configuration, more than once; `MAX_DEPTH` 2 and an edge
budget of 3 in place of 64 and 4096, so that every limit is met in the middle of a level.
* `SearchIsSound`: the queue is in order of depth, each type at its shortest distance,
  which is what the early `visited` insertion relies on (`ShallowestFirst`), and a hazard is a
  real chain of owned types to a declared one (`HazardsAreReal`).
* `NearestIsNamed`: of several declared types the label names a nearest one.
* `NothingMissed`: when the budget allows every type nearer than *d* to be looked into, a
  declared type at distance *d* is found, also when no edge is left by then.

**test_runner** (`TestRunner.cfg`, about 2,500 states).  Three tests on three threads, two
with a configuration of their own; each may panic in `init` and in its run.  Three
are the least that have one running, one waiting and one to come after a panic.
* `SharedIsSafe`: of the tests, at most one touches the environment, counting `init`,
  which runs outside the mutex (`EnvIsExclusive`); none runs before everything is set
  (`RunsInitialised`).
* `FlagsAreFound`: the example is built afresh whenever its command line is looked for,
  in either artifact layout, also after an `init` that failed half way.
* `OneAtATime`: it implements SerialTests.  `EveryTestEnds`: a failing test hangs no other.

**builders** (`BuilderLints.cfg`, about 69,000 states).  Pairs of structs with one name or
two, with the derives of bon, of another crate (one is called Builder in a module `bon`) and of those to skip, under `cfg`,
removed or kept; constructors of every output type; enums with permuted and repeated arguments.
* `VerdictsAgree`: a struct that derives `bon::Builder`, under that name and no condition, is not
  told to; a builder is called needless only where a struct of the name derives one so; and
  no struct is told both.  Nothing is claimed of a builder that is imported by `use bon::Builder`
  or derived under `cfg_attr`: the collector does not know it.
* `OwnNameOwnVerdict`: a struct whose name no other has is judged by its own derives.
  With a namesake it may not be, and the lints err to silence for suggest_builder.
* `WrappersOnlyForward`: a wrapper is reported only with all constructors of its enum, and only
  if each hands on its parameters, every one once, in whatever order.

**body_walks** (`BodyWalks.cfg`, about 534,000 states).  Every nesting of up to three scopes
around an expression that panics, blocks or has a side effect, in drops, constructors,
async functions, tests and main.  Three are enough for a guard in a guard in a closure; some
scopes are chains of up to three `else if`s, or guards in the condition of an assertion.
* `DropFindsDoublePanics`, `NewFindsPanics`: the panics that can happen while `drop` (and the
  thread unwinds) or `new` itself runs, and no others.  The first is what the code and the UI
  test say of guards and closures; the lint's page says less, see *Where the code differs*.
* `PathCallsAreFound`: a blocking call is reported iff it runs on the executor
  (`BlocksTheExecutor`, against an evaluation from the outside in); a call some set of
  side effects lists is reported by exactly one of its lints (`NoConfiguredCallSlips`).

**realtime** (`RealtimeTests.cfg`, about 367,000 states).  Call graphs of three helpers with
up to two calls each, cycles and self calls included, helpers without a body, one named by
the configuration, under tests with up to three calls.
* `SearchIsSound`: `LeftIsHopeless`, the reason why one visited set is enough.
* `FirstWaitIsReported`: a test that does not pause the clock is reported iff it can come to a
  time call, and at its first call that can, against reachability.  `SearchEnds`.

**log_macros** (`LogMacros.cfg`, about 131,000 states).  Calls with up to two directives of every
kind, fields, format strings and arguments; calls with up to one, with each delimiter, every kind of
format string (braces, escaped braces, a `\u{..}`) and what may stand before it (a comment, an
`r`, `concat!`); and walks over three expressions that one or two calls left behind,
in and out of test zones, under wrapping macros.
* `WarningsAreDue`: one diagnostic a call, not for one met in a test, and only for a call
  whose values are in the message alone.  The exceptions are the calls in which the scan takes another
  string for the format string, or `\u{..}` for a value (`Misread`).
* `NoneSlips`: every call whose values are in the message alone is reported, unless the scan
  loses it (`Lost`) or the call is visited in a test first.
  Each exception is needed: without any of them TLC finds a call.  They are in *Where the code
  differs*.

**error_types** (`ErrorTypes.cfg`, about 64,000 states).  Sequences of three impls of Error,
Display and another trait for a plain and a generic type, by hand and derived, in any order;
types and functions of every visibility with every output.
* `PairsAreNamed`: a type with both impls by hand is reported once, at the last of its Error
  impls, wherever they stand.  `RepetitionIsReal`: a type with one Error impl is told that its
  message repeats the source exactly if it has a `source()` and its `fmt` evaluates a field
  whose type is an error (any such field, printed or not, the source or another), and is
  then never told that the source is missing.

### A run that refutes a statement

**hook_restores** (`PreCommitHookRestores.cfg`): "Restore the user's working tree
unconditionally" (recommended-config.py:385).  For a partly staged file `checkout-index
-f` overwrites the unstaged changes that `stash pop` has just put back, and dropped: they
are gone.  This one is a bug.

### Where the code differs from its docs

Seen while modelling; the models do what the code does.

| statement | what the code does |
|---|---|
| "Runs DFS on a sibling graph to find all cycles" (acyclic_modules.rs:147) | of two cycles sharing a module only one is found; `EveryTangleReported` bounds the damage: fixing the reported ones brings up the others |
| "uses `#[expect(acyclic_modules)]` for per-site opt-out" (acyclic_modules.rs:24) | the diagnostic has the level of the crate root |
| "In non-exhaustive mode, unconfigured source modules are silently allowed" (module_dependencies.rs:144) | in exhaustive mode too, if the module is a dependency of another |
| "Use `#[allow(topological_ordering)]` on specific items" (docs/topological-ordering.md:148) | the first item's attribute silences the whole module's order |
| "All `impl` blocks must appear immediately after their struct/enum" (docs/topological-ordering.md:62) | directly before is accepted |
| "tools only see what will be committed" (recommended-config.py:374) | a fix in an unstaged file may make the checks pass, and is then taken back |
| "Re-stage only originally-staged files modified by auto-fix and formatting" (recommended-config.py:423), "block commit on failure" (:426) | `--diff-filter=ACM` (:377) leaves out what git takes for renamed: a renamed and edited file is fixed and checked in the working tree, not staged again, and committed as it was; a commit of nothing but renames is not checked at all |
| "byte index of the first top-level `,`" (unstructured_log_fields.rs:106) | `find_top_level_comma` does not count parentheses: after `target: f(a, b), "{x}"` the rest is taken for a field, and the call slips |
| "Leading tracing directives (`target:`, `parent:`)" (unstructured_log_fields.rs:23) | tracing also takes `name:`, whose string is taken for the format string: such a call slips; so does one with a comment before the colon of a directive |
| "the first string literal that is the actual format string" (unstructured_log_fields.rs:22) | a raw string leaves its `r`, and a comment or `concat!(` itself, in front, where they are taken for a field: the call slips.  A raw directive value, one after a comment, and a quoted field name are themselves taken for the format string |
| "Find the opening delimiter after the macro name" (unstructured_log_fields.rs:18) | only `(`: a call with `[]` or `{}` is read from the first parenthesis within it, or not at all |
| "placeholders like `{}`, `{:?}`, `{name}`" (unstructured_log_fields.rs:84) | the brace of `\u{e9}` is one too: such a message is reported although it has no value |
| "both branches are suppressed" of a `panicking()` guard, closures "are not flagged" (docs/panic-in-drop.md:126, :127) | a panic in the branch that runs while unwinding, and in a closure called on the spot, is reported; ui/panic_in_drop/main.rs:85 and :92 want it so |
| "Whether the derive path is exactly `bon::Builder`" (lints/mod.rs:43) | its last two segments: `my::bon::Builder` counts, a `Builder` imported by `use bon::Builder` does not |
| a guard `if !panicking()` (panic_in_drop.rs) | the branch of a guard is walked, not visited, so a guard that is that branch is not seen: of `else if`s that are all guards, every second is overlooked |
| configured paths (realtime_in_async_test.rs:185) | a local function the configuration names counts when the test calls it, not when a helper does |
| the two panic lints | `assert!` counts in drop, not in constructors |
| several Error impls for one generic type (proper_error_type.rs:256) | only the last is kept |

### Fairness

The three module lints and RealtimeTests have `WF_vars(Next)`: they run on the compiler's
thread, and a callback that can go on does.  No action has fairness of its own, so
`Terminates`, `SearchEnds` and the liveness in `KeepsPromise` say that the searches make
progress, not that a scheduler helps them.  TestRunner has weak fairness of each thread: the
system schedules every runnable thread, and `std::sync::Mutex` and `OnceLock` wake a
waiter; weak fairness is enough because every thread takes them once.  The hook has
none: tools may hang, users may never commit again, and no liveness is claimed.
The other modules state no liveness either.

## 4. The proofs

Each theorem holds for all values of the constants under the assumptions its module
names, which TLC evaluates on every run.  Mostly they say that the data have their types
(`CratesAssumption`, `PathsAssumption`, `BoundsAssumption`, `NamesAssumption`,
`StartsAssumption`, `UnsetAssumption`).  Beyond that:
* AcyclicModules: what contains a module is a module, and only an import names more than
  one definition (`resolve_def_id` returns an `Option`).
* TopologicalOrdering: the compiler visits each item once, and what an impl block
  implements is no impl block itself.
* ThreadAffineDrop: a type that may be given Send is local, and a computed reason is not
  one of the reasons.
* PreCommitHook: a file is in one of the ways in which git can have it.
* RealtimeTests: the kinds of calls are told apart.
* BodyWalks: what stands in a branch stands in an `if` and is its block or another `if`; a
  panic macro expands into no `else if`, and its branches are expanded from what it is; the
  path of a named definition does not end in generic arguments.
* BuilderLints: an item is a struct or an enum, an attribute is under no `cfg`, one that holds,
  or one of a feature.
* ErrorTypes: the type of a type definition or an impl is a type of the crate.
* LogMacros (`LiteralsAssumption`, `LogCratesAssumption`): a directive is a name of tracing's, a
  colon and a value without a comma or an end of its own, with comments anywhere; what follows
  the directives is a field, the format string or something that is no directive; a call
  without fields and format string has no other string; and the level macros of tracing do not
  expand to each other.

The proofs are about 15,000 obligations.  Where an argument is by induction over data (a
shortest path, the position in a queue, a sorted prefix) it is put as the least element of
a set of numbers, or a minimal element of a well-founded relation, because no prover here
can instantiate an induction theorem with a predicate.

**AcyclicModulesProofs** builds one invariant on another.
* `GrayOnPath`.  `GrayIsOnPath` is not inductive: when a neighbour is entered one
  must know it was white and that the last of the path depends on it.  `SearchInv` adds the
  types of the search and that what is left to look at are neighbours.
* `CyclesOnly` (and `TypesHold`).  `CycleInv` adds that what is found are cycles, and that the
  normalised ones still are.  The lemmas are `PathCloses` (the part of the path from a
  gray neighbour is a cycle) and `Rotation` (a rotated cycle is a cycle), and
  bookkeeping that ties `found` and `adj` to the parent being searched.
* `CyclicExactlyReported`.  `VerdictInv` adds `Explored`: a finished child's neighbours
  are finished, or a cycle has been found.  `BlackWithoutKnot` shows that while no
  cycle is found no *knot* (a set in which everyone depends on another) has a
  black member: at the moment a child turns black all its neighbours are black, and
  by induction over the steps outside any knot.  So at the end a graph without a
  reported cycle has none.  Conversely a cycle's members are a knot (`CycleIsKnot`).
* `TangleReported`.  The same for a part of a graph that no cycle leaves.  The siblings that
  come after one another and before it are such a part and a knot (`TangleIsKnot`);
  `Tangles` says that each part with a knot has a cycle found or shown.
* `DiagnosticsAreExact`.  `OrderInv` says that what is still to be searched or reported
  does not come before what has been (so the two sorts, of parents and of cycles, make one
  order), `WalkInv` that `edges` are those of the nodes visited.
* `ImplementsPromise`.  `CyclePromise!Safety` by step simulation: all but the last step
  stutter, and the last flags the parents of `ReportedIffCyclic`.  What remains is that
  `build_sibling_graphs`, which compares two paths where they diverge, has an arc exactly
  if a node witnesses one (`ArcsAreDependencies`).

**ModuleDependenciesProofs** proves all five properties of the run:
`TypesHold`, `NoneSlips`, `OnlyDueReported`, `WarnedOnce`, `DeadEdgesAreDead`.  The
invariant is `Inv`: `Progress` (the pending definitions are the last that the node names,
so a step checks exactly one reference more, `DependencyStep`), `UsesExactly` (an
allowed edge is in `used_edges` exactly if a checked reference makes it, although the
set is filled behind three early returns), `Warnings` (what is reported unlisted is in
`warned_unlisted`, and nothing listed is), `DeadSoFar` (the edges reported dead are those
looked up and unused).  The crux is in `SlipsInv` and `UsesInv`: a warning that spends a
reference from a configured module can only be about its target, which no
allowlist names.

**TopologicalOrderingProofs**, for any number of items and any references.
* `TarjanExact`.  `TarjanInv` is what makes the algorithm right: items are numbered in the
  order of the calls (`Numbered`), stack and open calls are in that order (`Stacked`), an
  item on the stack reaches all above it, and one below it once its call is over
  (`Chain`), a lowlink is not above what the items of its call have looked at on the stack
  (`Explored`), nothing leaves the components that are closed (`Sealed`).  `OpenReachLast`,
  that every item on the stack reaches the innermost open call, is the lemma the rest
  needs: with it the items popped by `CloseComponent` are all of a component.
* `OrderIsExact`.  The search sees indexes of a module's items; the property speaks of
  definitions, with what is nested in them and what their impl blocks use.  `GraphIsUses`
  says the two are one relation, after `find_module_item` and `remap_impl_refs`.
* `AlwaysSatisfiable`.  `Height`, how many items an item reaches, falls along a reference and
  is equal within a component (`HeightFalls`); items sorted by it, each followed by its impl
  blocks, are a permutation (`InOrder`) about which both rules are silent (`OrderIsSilent`).

**ThreadAffineDropProofs**, for every crate and any limits: `SearchSound`, `NearestNamed` and
`NothingIsMissed`.  `SearchInv` is the invariant of a breadth-first search that marks on
pushing: the queue is in order, over two depths, each entry at its distance from the field
and with a path that leads there (`InOrder`); the iterator over the owner's parts
(`OwnerInv`); what has been popped is not declared, and has all its parts visited while
edges are left (`Settled`); all that is nearer than a queued type is visited
(`LevelsSeen`).  For the third, `BudgetInv` counts: the edges paid for are distinct
edges of types that were popped, so that a budget that covers all nearer types is not
spent before the level in question is reached.

**PreCommitHookProofs** proves all four properties of the run, for any set of files, any
number of rounds and of commits: `StashPopsCleanly`, `CommitsWhatIsChecked`,
`GivesBackTheRest`, `LosesNothing`.  `TheRun` says that from the push to the pop the
newest entry is the run's own and below it is the stash the run began with.
`FilesOfTheRun` says what the tools cannot change: index and working tree keep the
versions that were staged, and a file that appears is a generated one.  Hence
`ResetClears`, and with it `PopApplies` (the comment "applies cleanly because the base
matches") and `PopRestores`.  `Checks` carries what `just check-all` has seen from the
index to `fixed_tree` and back; it speaks of the files that the hook lists, whatever git takes
for renamed.  `NothingLost` is not inductive: `Kept` adds that a change
which is in no entry is in the working tree and not staged in another version, now
and when the run began, and `Committed`, that a change that *is* the commit leaves
nothing staged, so that no later run gets as far as the stash.

**TestRunnerProofs**, for any number of tests: `EnvironmentIsSafe`, `FlagsAlwaysFound`, and
`RunsSerially`, the refinement of SerialTests.  The invariant is `Ownership` (who is inside
`init` has claimed the `OnceLock`, who is past it and before its unlock holds the mutex, and
then the `OnceLock` is done), `Prepared` (how far `init` has come, by the step it is in),
`Fresh` (what cargo has in either layout) and `Guarded` (what a guard will write back is
what the process had).  The refinement is by step simulation: `SetToml` starts a test,
`DropVarGuard` stops it, all else stutters.

**RealtimeTestsProofs**, for every test and call graph: `SearchNeverForgets` and
`FirstWaitFound`.  A function that is being visited is answered "calls nothing", so
what is cached is not true of it.  `LeftIsHopeless` is what is: a function that has been
*left* has no time call and calls only visited functions.  It is inductive together with
`IsStack`, which says it of the part of each body on the stack that has been walked.
When the stack is empty the visited functions are therefore closed under calls
(`OutsideBodies`), and a closed set without a time call contains all a call may come to.
`Cleared` applies that to the calls of the test in order, so that what is blamed is the
first (`CallTimeDecides`).

**LintPassesProofs** has a section for each of four modules.

BodyWalks, for a body of any depth and all configurations: `TypesHold`,
`DropPanicsFound`, `NewPanicsFound`, `PathCallsFound`.
* `DropInv` and `NewInv` say of the expression a visitor has come to that all around it was
  gone into for a reason (`DropOpen`, `NewOpen`), and of what it has found that it is right
  for all before it.  When a visitor leaves, what is left runs later, elsewhere, or in an
  expansion that is reported.  In a drop a step may skip the branch of a guard; `Alternates`
  says that along a chain of guards every second is skipped, so that the visitor never comes
  to an overlooked one.
* `PathInv` ties the diagnostics to the verdicts of the expressions visited.
  blocking_in_async walks outwards twice, the property evaluates inwards: `WalksAgree`, with
  `AgreeStep` for one more expression, shows them equal, after `WhereItRuns`, that the
  recursive function `RunsOn` is what its definition says.  `FirstListing` picks the one
  lint of global_side_effect, `MatchIsListed` says its filter by name loses nothing.

BuilderLints, for every crate and every order of collection: `VerdictsAlwaysAgree`,
`OwnNamesJudged`, `WrappersForward`.
* `BuilderInv` is `Phases` (nothing is reported before every file is collected), `Registered`
  (an entry of `STRUCT_DERIVES` is the union of what the structs of its name that have been
  collected derive, in whatever order, and none is empty) and `ItemsJudged` (the
  diagnostics are the verdicts on the items visited).  With all collected, `Registered` turns a
  verdict by name into one on the attributes of the structs of the name.
* `forwards_each_parameter_once` is a loop over a list from which `swap_remove` takes.
  `AfterExists` says that the recursive function that stands for it exists; after that
  `ForwardsAll` follows one parameter at a time: it is in the list until a value removes it
  (`SwapRemove`: no other is lost), and at the end the list is empty.

ErrorTypes, for every crate and every order of the final pass: `PairsNamed`, `RepetitionTold`.
`ErrorInv` says that a map has, for each type, the *last* impl visited so far (`KeepsLast`), that
types are decided only when the walk is over (`Deciding`), and that the diagnostics are those
that the decided types and the two maps give (`Decided`).

LogMacros, for every crate and calls of any length: `LogWarningsDue`, `NoCallSlips`.
* `TextsAreRead`: what the scans find in a text is what its author means, unless it is `Misread`
  or `Lost`.  First the calls in which all is in its place (`IsPlainCall`).  Every position before
  the fields is in a directive (`InDirective`), so a string there is a directive's
  value (`StringsInDirectives`), and what the lint takes for the format string is it, or comes after
  a field (`FormatString`).  `strip_leading_directives` loses the name of no field
  (`FieldsAreLeft`), and without a comma in a value leaves nothing else (`NothingIsLeft`).
  `Placeholders`: a scan two braces at a time finds an odd run of braces, and `SingleBraces` that it
  is a value's unless there is an escape.  Then the others: the first directive that the lint does not
  know, or what stands before the format string, is to it what a field is, so that the
  call cut there is a plain one with the same text (`CutIsPlain`) and is not reported.
* The scans are recursive functions that read on from a later position; `ScanExists` says
  once that there is such a function, `Downward` is the induction over it.
* `LogInv` ties `seen_callsites` and the diagnostics to the expressions visited.  A call whose
  first expression is in a test is seen and not reported, hence the exception in `NoneSlips`.

Only model-checked: liveness (`Terminates`, `SearchEnds`, `EveryTestEnds`, and that a
decision comes in `KeepsPromise`), which the prover cannot do.  Every safety property
of a passing run is a theorem.

## 5. What is not modelled

* Resolution itself (`cx.qpath_res`, `typeck_results`): a node says what it resolves to.
  Macro and test detection likewise is a Boolean of the node.
* Modules inside function bodies, which `def_path_segments` confuses.
* The text of diagnostics; their order and labels are.
* Of the generator: the tables, the TOML, the installation (`do_install` writes and links
  files one after the other).  The hook's Dylint block is
  not modelled because the generator emits it only for a non-empty
  `DYLINT_FIXABLE_LINTS`, which is empty.  File names with spaces, a second terminal
  that pushes a stash while the hook runs, and the user editing files meanwhile.
* `await_holding_unsendable` asks the compiler for the types a coroutine holds across an
  await, and decides on each alone; `result_result`, `unclear_exports` are predicates on one
  type or import; `map_init_then_insert` is a pattern of neighbouring statements.
* Of the texts that unstructured_log_fields scans: quotes, commas, parentheses and brackets in
  comments, characters and raw or nested strings, which the scan counts as its own, and a brace written
  as `\u{7b}`.  Such calls are under no claim.
* A staged change of a file's type (status T), which the hook's filter leaves out too.
* What `compiletest` does inside `run_tests`, and which linking flags are kept.
* The Clippy scraper, packaging and hk: network, build and external tools.

## 6. Plan

Done, in this order: AcyclicModules with its promise, ModuleDependencies,
TopologicalOrdering, PreCommitHook and the proofs for the first two; then
ThreadAffineDrop, TestRunner with its promise, BuilderLints, BodyWalks, RealtimeTests,
LogMacros and ErrorTypes, and the proofs for the hook, the runner and the call graphs.

Then the proofs for the other two graph searches (strongconnect and the bounded search),
what was left of acyclic_modules (its tangles, its diagnostics, its promise), the walks
of bodies, and the four passes of LintPassesProofs.

Next, to model: `do_install`, with its backups and an interrupted installation;
`map_init_then_insert`.
