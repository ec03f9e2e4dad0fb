------------------------------ MODULE TestRunner ------------------------------
(***************************************************************************)
(* src/src/testing.rs: the UI tests of all lints call run_ui_test on the   *)
(* threads of the test harness.  The first to come builds the library and  *)
(* fills a OnceLock; a mutex keeps the tests apart while they use the      *)
(* environment of the process, which has one DYLINT_TOML for all of them.  *)
(* A test that panics unwinds: it drops its VarGuard, which restores the   *)
(* variable, and then its MutexGuard, which poisons the mutex.             *)
(***************************************************************************)
EXTENDS Naturals, FiniteSets

CONSTANTS
  Tests,    \* the tests, each on a thread of its own
  Toml,     \* dylint_toml of a test, or Unset
  Unset,    \* no value
  Default,  \* the DYLINT_TOML the process was started with, or Unset
  Workers   \* RUST_TEST_THREADS: how many tests the harness runs at once

ASSUME WorkersAssumption == Workers \in Nat \ {0} /\ Tests # {}
\* Tests, no value and the states of the OnceLock are different things.
ASSUME UnsetAssumption == {Unset, "new", "done"} \intersect Tests = {}

VARIABLES
  pc,        \* where each test is
  once,      \* ENV: "new", "done" or the test that is filling it
  holder,    \* the test whose _lock it is, or Unset
  poisoned,  \* MUTEX is poisoned
  panicked,  \* the tests whose run_tests has panicked
  env,       \* the environment: DYLINT_TOML and the variables init sets
  prev,      \* VarGuard.prev of each test
  artifact,  \* where the example's artifact is: "none", "examples" or "build"
  layout,    \* where this cargo keeps it, fixed
  built      \* cargo had to call rustc for the example

vars == <<pc, once, holder, poisoned, panicked, env, prev, artifact, layout, built>>
cargo == <<artifact, layout, built>>

InitSteps == {"build", "set_path", "libs", "driver", "remove", "example", "parse"}
Holding   == {"locked", "set", "run", "drop_guard", "unlock"}
Ends      == {"passed", "failed"}
Active    == {t \in Tests : pc[t] \notin {"idle"} \union Ends}

Init ==
  /\ pc = [t \in Tests |-> "idle"]
  /\ once = "new" /\ holder = Unset /\ poisoned = FALSE /\ panicked = {}
  /\ env = [toml |-> Default, path |-> FALSE, libs |-> FALSE]
  /\ prev = [t \in Tests |-> Unset]
  /\ layout \in {"examples", "build"}
  /\ artifact \in {"none", layout} /\ built = FALSE

Goto(t, label) == pc' = [pc EXCEPT ![t] = label]

\* The harness starts a test.
StartTest(t) ==
  /\ pc[t] = "idle" /\ Cardinality(Active) < Workers
  /\ Goto(t, "init")
  /\ UNCHANGED <<once, holder, poisoned, panicked, env, prev, cargo>>

-----------------------------------------------------------------------------
(* init: get_or_init runs on one thread, the others wait for it. *)

\* Sensitivity: the closure is entered by whoever finds the OnceLock unset.
EnterInit_NotOnce(t) ==
  /\ pc[t] = "init" /\ once # "done"
  /\ once' = t /\ Goto(t, "build")
  /\ UNCHANGED <<holder, poisoned, panicked, env, prev, cargo>>

EnterInit(t) ==
  /\ pc[t] = "init" /\ once = "new"
  /\ once' = t /\ Goto(t, "build")
  /\ UNCHANGED <<holder, poisoned, panicked, env, prev, cargo>>

AlreadyInitialised(t) ==
  /\ pc[t] = "init" /\ once = "done"
  /\ Goto(t, "lock")
  /\ UNCHANGED <<once, holder, poisoned, panicked, env, prev, cargo>>

\* Sensitivity: a panic leaves the OnceLock claimed.
InitPanics_StaysClaimed(t) ==
  /\ pc[t] \in {"build", "libs", "driver", "remove", "example"}
  /\ once' = t /\ Goto(t, "failed")
  /\ UNCHANGED <<holder, poisoned, panicked, env, prev, cargo>>

\* An assertion or an expect of the closure: the OnceLock stays empty and the
\* next test tries again.
InitPanics(t) ==
  /\ pc[t] \in {"build", "libs", "driver", "remove", "example"}
  /\ once' = "new" /\ Goto(t, "failed")
  /\ UNCHANGED <<holder, poisoned, panicked, env, prev, cargo>>

CargoBuild(t) ==
  /\ pc[t] = "build"
  /\ Goto(t, "set_path")
  /\ UNCHANGED <<once, holder, poisoned, panicked, env, prev, cargo>>

SetLibraryPath(t) ==
  /\ pc[t] = "set_path"
  /\ env' = [env EXCEPT !.path = TRUE]
  /\ Goto(t, "libs")
  /\ UNCHANGED <<once, holder, poisoned, panicked, prev, cargo>>

SetLibs(t) ==
  /\ pc[t] = "libs"
  /\ env' = [env EXCEPT !.libs = TRUE]
  /\ Goto(t, "driver")
  /\ UNCHANGED <<once, holder, poisoned, panicked, prev, cargo>>

GetDriver(t) ==
  /\ pc[t] = "driver"
  /\ Goto(t, "remove")
  /\ UNCHANGED <<once, holder, poisoned, panicked, env, prev, cargo>>

\* Sensitivity: only the exported binaries are removed.
remove_example_artifact_Exported(t) ==
  /\ pc[t] = "remove"
  /\ artifact' = IF artifact = "examples" THEN "none" ELSE artifact
  /\ Goto(t, "example")
  /\ UNCHANGED <<once, holder, poisoned, panicked, env, prev, layout, built>>

\* Both places are cleared, so that cargo has to call rustc.
remove_example_artifact(t) ==
  /\ pc[t] = "remove"
  /\ artifact' = "none"
  /\ Goto(t, "example")
  /\ UNCHANGED <<once, holder, poisoned, panicked, env, prev, layout, built>>

\* cargo build --example --verbose names rustc if it had to call it.
BuildExample(t) ==
  /\ pc[t] = "example"
  /\ artifact' = layout /\ built' = (artifact # layout)
  /\ Goto(t, "parse")
  /\ UNCHANGED <<once, holder, poisoned, panicked, env, prev, layout>>

\* Without a line that names rustc the parser panics as well.
parse_linking_flags(t) ==
  /\ pc[t] = "parse"
  /\ once' = IF built THEN "done" ELSE "new"
  /\ Goto(t, IF built THEN "lock" ELSE "failed")
  /\ UNCHANGED <<holder, poisoned, panicked, env, prev, cargo>>

init(t) == \/ EnterInit(t) \/ AlreadyInitialised(t) \/ InitPanics(t) \/ CargoBuild(t)
           \/ SetLibraryPath(t) \/ SetLibs(t) \/ GetDriver(t) \/ remove_example_artifact(t)
           \/ BuildExample(t) \/ parse_linking_flags(t)

-----------------------------------------------------------------------------
(* The test itself, under the mutex. *)

Lock(t) ==
  /\ pc[t] = "lock" /\ holder = Unset /\ ~poisoned
  /\ holder' = t /\ Goto(t, "locked")
  /\ UNCHANGED <<once, poisoned, panicked, env, prev, cargo>>

\* expect("test mutex poisoned"): the guard in the error is dropped again.
LockPoisoned(t) ==
  /\ pc[t] = "lock" /\ holder = Unset /\ poisoned
  /\ Goto(t, "failed")
  /\ UNCHANGED <<once, holder, poisoned, panicked, env, prev, cargo>>

\* VarGuard::set reads the variable and then sets it.
ReadToml(t) ==
  /\ pc[t] = "locked" /\ Toml[t] # Unset
  /\ prev' = [prev EXCEPT ![t] = env.toml]
  /\ Goto(t, "set")
  /\ UNCHANGED <<once, holder, poisoned, panicked, env, cargo>>

SetToml(t) ==
  /\ pc[t] = "set"
  /\ env' = [env EXCEPT !.toml = Toml[t]]
  /\ Goto(t, "run")
  /\ UNCHANGED <<once, holder, poisoned, panicked, prev, cargo>>

NoGuard(t) ==
  /\ pc[t] = "locked" /\ Toml[t] = Unset
  /\ Goto(t, "run")
  /\ UNCHANGED <<once, holder, poisoned, panicked, env, prev, cargo>>

\* compiletest::run_tests returns, or panics because the UI test failed.
RunTests(t, ok) ==
  /\ pc[t] = "run"
  /\ panicked' = IF ok THEN panicked ELSE panicked \union {t}
  /\ Goto(t, IF Toml[t] = Unset THEN "unlock" ELSE "drop_guard")
  /\ UNCHANGED <<once, holder, poisoned, env, prev, cargo>>

\* Sensitivity: the variable is removed, not restored.
DropVarGuard_Removes(t) ==
  /\ pc[t] = "drop_guard"
  /\ env' = [env EXCEPT !.toml = Unset]
  /\ Goto(t, "unlock")
  /\ UNCHANGED <<once, holder, poisoned, panicked, prev, cargo>>

\* VarGuard::drop, on return and on unwinding.
DropVarGuard(t) ==
  /\ pc[t] = "drop_guard"
  /\ env' = [env EXCEPT !.toml = prev[t]]
  /\ Goto(t, "unlock")
  /\ UNCHANGED <<once, holder, poisoned, panicked, prev, cargo>>

\* MutexGuard::drop.
Unlock(t) ==
  /\ pc[t] = "unlock"
  /\ holder' = Unset
  /\ poisoned' = (poisoned \/ t \in panicked)
  /\ Goto(t, IF t \in panicked THEN "failed" ELSE "passed")
  /\ UNCHANGED <<once, panicked, env, prev, cargo>>

run_ui_test(t) ==
  \/ init(t) \/ Lock(t) \/ LockPoisoned(t) \/ ReadToml(t) \/ SetToml(t) \/ NoGuard(t)
  \/ (\E ok \in BOOLEAN : RunTests(t, ok)) \/ DropVarGuard(t) \/ Unlock(t)

Next == \E t \in Tests : StartTest(t) \/ run_ui_test(t)

\* The harness and the operating system keep every thread running.
Spec == Init /\ [][Next]_vars /\ \A t \in Tests : WF_vars(StartTest(t) \/ run_ui_test(t))

-----------------------------------------------------------------------------
(* Properties. *)

Values == {Toml[t] : t \in Tests} \union {Default, Unset}

\* The variables keep their types.
TypeOK ==
  /\ pc \in [Tests -> {"idle", "init", "lock"} \union InitSteps \union Holding \union Ends]
  /\ once \in {"new", "done"} \union Tests
  /\ holder \in Tests \union {Unset}
  /\ poisoned \in BOOLEAN /\ panicked \subseteq Tests
  /\ env \in [toml: Values, path: BOOLEAN, libs: BOOLEAN]
  /\ prev \in [Tests -> Values]
  /\ artifact \in {"none", "examples", "build"} /\ layout \in {"examples", "build"}
  /\ built \in BOOLEAN

\* The unsafe blocks are sound: of the tests, at most one reads, writes or
\* hands down the environment, counting init, which runs outside the mutex.
UsesEnv(t) == pc[t] \in InitSteps \union {"locked", "set", "run", "drop_guard"}
EnvIsExclusive == \A s, t \in Tests : UsesEnv(s) /\ UsesEnv(t) => s = t

\* A test that runs finds everything init has to set, and the linking flags,
\* also when an earlier init has panicked half way.
RunsInitialised ==
  \A t \in Tests : pc[t] = "run" => once = "done" /\ env.path /\ env.libs

\* The example is built afresh whenever its command line is looked for, in
\* either layout, at the first attempt and at a later one.
FlagsAreFound == \A t \in Tests : pc[t] = "parse" => built

\* One failing test does not hang another: each passes or fails.
EveryTestEnds == \A t \in Tests : <>(pc[t] \in Ends)

\* The runner is SerialTests: a test counts as running until its guard has
\* restored the variable.
Running == {t \in Tests : pc[t] \in {"run", "drop_guard"}}
RunningTest == IF Running = {} THEN Unset ELSE CHOOSE t \in Running : TRUE
HaveRun == {t \in Tests : pc[t] \in {"run", "drop_guard", "unlock", "passed"}} \union panicked
Serial == INSTANCE SerialTests WITH toml <- env.toml, running <- RunningTest, ran <- HaveRun
OneAtATime == Serial!Spec

\* What the threads share: typed, the environment in the hands of one of them, and
\* complete before a compiler is run.
SharedIsSafe == TypeOK /\ EnvIsExclusive /\ RunsInitialised
=============================================================================
