--------------------------- MODULE TestRunnerProofs ---------------------------
(***************************************************************************)
(* Proofs about TestRunner, for any tests, configurations and number of    *)
(* threads.  Everything rests on who owns what: the OnceLock belongs to the *)
(* test in one of the steps of init, the mutex to the one between lock and *)
(* unlock, and nobody comes to the mutex before the OnceLock is filled.    *)
(***************************************************************************)
EXTENDS TestRunner, TLAPS

-----------------------------------------------------------------------------
(* The invariant. *)

\* The two locks have the owners the program counters say.
Ownership ==
  /\ \A t \in Tests : pc[t] \in InitSteps <=> once = t
  /\ \A t \in Tests : pc[t] \in Holding <=> holder = t
  /\ \A t \in Tests : pc[t] \in {"lock"} \union Holding => once = "done"

\* What init has set by now, which a later attempt does not take back.
Prepared ==
  /\ \A t \in Tests : pc[t] \in InitSteps \ {"build", "set_path"} => env.path
  /\ \A t \in Tests : pc[t] \in InitSteps \ {"build", "set_path", "libs"} => env.libs
  /\ once = "done" => env.path /\ env.libs

\* No artifact is fresh when the example is built.
Fresh ==
  /\ \A t \in Tests : pc[t] = "example" => artifact = "none"
  /\ \A t \in Tests : pc[t] = "parse" => built

\* The variable is that of the test that runs, whose guard remembers Default.
Guarded ==
  /\ \A t \in Tests : pc[t] \in {"set", "drop_guard"} => Toml[t] # Unset
  /\ \A t \in Tests : pc[t] \in {"set", "run", "drop_guard"} /\ Toml[t] # Unset => prev[t] = Default
  /\ \A t \in Running : Toml[t] # Unset => env.toml = Toml[t]
  /\ (\A t \in Running : Toml[t] = Unset) => env.toml = Default

\* A test panics at most once, and does not run again.
PanicEnds == \A t \in panicked : pc[t] \in {"drop_guard", "unlock", "failed"}

Inv == TypeOK /\ Ownership /\ Prepared /\ Fresh /\ Guarded /\ PanicEnds

\* The actions that move program counters only, of the tests before the mutex.
Waiting(t) == StartTest(t) \/ AlreadyInitialised(t) \/ LockPoisoned(t)

-----------------------------------------------------------------------------
LEMMA InitInv == Init => Inv
<1> SUFFICES ASSUME Init PROVE Inv
  OBVIOUS
<1> USE DEF Init, InitSteps, Holding, Ends, Running
<1>1. TypeOK
  BY DEF TypeOK, Values
<1>2. Ownership
  BY UnsetAssumption DEF Ownership
<1>3. Prepared /\ Fresh /\ Guarded /\ PanicEnds
  BY DEF Prepared, Fresh, Guarded, PanicEnds
<1>4. QED
  BY <1>1, <1>2, <1>3 DEF Inv

\* One step of a test keeps the types.
LEMMA TypeStep ==
  ASSUME TypeOK, NEW t \in Tests, StartTest(t) \/ run_ui_test(t)
  PROVE  TypeOK'
<1> USE DEF TypeOK, Goto, InitSteps, Holding, Ends, Values, cargo
<1>1. CASE Waiting(t)
  BY <1>1 DEF Waiting, StartTest, AlreadyInitialised, LockPoisoned
<1>2. CASE EnterInit(t)
  BY <1>2 DEF EnterInit
<1>3. CASE InitPanics(t)
  BY <1>3 DEF InitPanics
<1>4. CASE CargoBuild(t)
  BY <1>4 DEF CargoBuild
<1>5. CASE SetLibraryPath(t)
  BY <1>5 DEF SetLibraryPath
<1>6. CASE SetLibs(t)
  BY <1>6 DEF SetLibs
<1>7. CASE GetDriver(t)
  BY <1>7 DEF GetDriver
<1>8. CASE remove_example_artifact(t)
  BY <1>8 DEF remove_example_artifact
<1>9. CASE BuildExample(t)
  BY <1>9 DEF BuildExample
<1>10. CASE parse_linking_flags(t)
  BY <1>10 DEF parse_linking_flags
<1>11. CASE Lock(t)
  BY <1>11 DEF Lock
<1>12. CASE ReadToml(t)
  BY <1>12 DEF ReadToml
<1>13. CASE SetToml(t)
  BY <1>13 DEF SetToml
<1>14. CASE NoGuard(t)
  BY <1>14 DEF NoGuard
<1>15. ASSUME NEW ok \in BOOLEAN, RunTests(t, ok) PROVE TypeOK'
  BY <1>15 DEF RunTests
<1>16. CASE DropVarGuard(t)
  BY <1>16 DEF DropVarGuard
<1>17. CASE Unlock(t)
  BY <1>17 DEF Unlock
<1>18. QED
  BY <1>1, <1>2, <1>3, <1>4, <1>5, <1>6, <1>7, <1>8, <1>9, <1>10, <1>11, <1>12, <1>13, <1>14, <1>15, <1>16, <1>17
  DEF run_ui_test, init, Waiting

\* One step of a test keeps the rest of the invariant.
LEMMA InvStep ==
  ASSUME Inv, NEW t \in Tests, StartTest(t) \/ run_ui_test(t)
  PROVE  Inv'
<1> DEFINE Rest == Ownership /\ Prepared /\ Fresh /\ Guarded /\ PanicEnds
<1>1. TypeOK'
  BY TypeStep DEF Inv
<1> USE UnsetAssumption DEF Inv, TypeOK, Ownership, Prepared, Fresh, Guarded, PanicEnds, Running,
        Goto, InitSteps, Holding, Ends, cargo
<1>2. ASSUME Waiting(t) PROVE Rest'
  BY <1>2 DEF Waiting, StartTest, AlreadyInitialised, LockPoisoned
<1>3. ASSUME EnterInit(t) PROVE Rest'
  BY <1>3 DEF EnterInit
<1>4. ASSUME InitPanics(t) PROVE Rest'
  BY <1>4 DEF InitPanics
<1>5. ASSUME CargoBuild(t) PROVE Rest'
  BY <1>5 DEF CargoBuild
<1>6. ASSUME SetLibraryPath(t) PROVE Rest'
  BY <1>6 DEF SetLibraryPath
<1>7. ASSUME SetLibs(t) PROVE Rest'
  BY <1>7 DEF SetLibs
<1>8. ASSUME GetDriver(t) PROVE Rest'
  BY <1>8 DEF GetDriver
<1>9. ASSUME remove_example_artifact(t) PROVE Rest'
  BY <1>9 DEF remove_example_artifact
<1>10. ASSUME BuildExample(t) PROVE Rest'
  BY <1>10 DEF BuildExample
<1>11. ASSUME parse_linking_flags(t) PROVE Rest'
  BY <1>11 DEF parse_linking_flags
<1>12. ASSUME Lock(t) PROVE Rest'
  BY <1>12 DEF Lock
<1>13. ASSUME ReadToml(t) PROVE Rest'
  BY <1>13 DEF ReadToml
<1>14. ASSUME SetToml(t) PROVE Rest'
  BY <1>14 DEF SetToml
<1>15. ASSUME NoGuard(t) PROVE Rest'
  BY <1>15 DEF NoGuard
<1>16. ASSUME NEW ok \in BOOLEAN, RunTests(t, ok) PROVE Rest'
  BY <1>16 DEF RunTests
<1>17. ASSUME DropVarGuard(t) PROVE Rest'
  BY <1>17 DEF DropVarGuard
<1>18. ASSUME Unlock(t) PROVE Rest'
  BY <1>18 DEF Unlock
<1>19. QED
  BY <1>1, <1>2, <1>3, <1>4, <1>5, <1>6, <1>7, <1>8, <1>9, <1>10, <1>11, <1>12, <1>13, <1>14, <1>15, <1>16, <1>17, <1>18
  DEF run_ui_test, init, Waiting

LEMMA InvStutter == ASSUME Inv, UNCHANGED vars PROVE Inv'
  BY DEF Inv, TypeOK, Ownership, Prepared, Fresh, Guarded, PanicEnds, Running, vars, InitSteps, Holding, Ends, Values

\* The invariant holds in every state of the runner.
THEOREM InvHolds == Spec => []Inv
<1>1. ASSUME Inv, [Next]_vars PROVE Inv'
  BY <1>1, InvStep, InvStutter DEF Next
<1>2. QED
  BY <1>1, InitInv, PTL DEF Spec

-----------------------------------------------------------------------------
(* Safety. *)

\* init, outside the mutex, has the OnceLock to itself, and no test is under the
\* mutex before the OnceLock is filled.
LEMMA Exclusive == Inv => EnvIsExclusive
<1> SUFFICES ASSUME Inv, NEW s \in Tests, NEW t \in Tests, UsesEnv(s), UsesEnv(t)
             PROVE  s = t
  BY DEF EnvIsExclusive
<1>1. CASE pc[s] \in InitSteps
  <2>1. once = s
    BY <1>1 DEF Inv, Ownership
  <2>2. pc[t] \in InitSteps
    BY <2>1, UnsetAssumption DEF Inv, Ownership, UsesEnv, Holding
  <2>3. QED
    BY <2>1, <2>2 DEF Inv, Ownership
<1>2. CASE pc[s] \notin InitSteps
  <2>1. pc[s] \in Holding
    BY <1>2 DEF UsesEnv, Holding
  <2>2. holder = s /\ once = "done"
    BY <2>1 DEF Inv, Ownership
  <2>3. pc[t] \in Holding
    BY <2>2, UnsetAssumption DEF Inv, Ownership, UsesEnv, Holding
  <2>4. QED
    BY <2>2, <2>3 DEF Inv, Ownership
<1>3. QED
  BY <1>1, <1>2

\* The unsafe blocks of testing.rs are sound: whatever panics, and however often
\* init is repeated, one test at a time uses the environment, and a compiler is
\* run only when all of it has been set.
THEOREM EnvironmentIsSafe == Spec => []SharedIsSafe
<1>1. Inv => SharedIsSafe
  <2> SUFFICES ASSUME Inv PROVE SharedIsSafe
    OBVIOUS
  <2>1. RunsInitialised
    BY DEF Inv, Ownership, Prepared, RunsInitialised, Holding
  <2>2. QED
    BY <2>1, Exclusive DEF SharedIsSafe, Inv
<1>2. QED
  BY <1>1, InvHolds, PTL

\* Whenever the linking flags are looked for, cargo has called rustc, in either
\* layout and at every attempt.
THEOREM FlagsAlwaysFound == Spec => []FlagsAreFound
<1>1. Inv => FlagsAreFound
  BY DEF Inv, Fresh, FlagsAreFound
<1>2. QED
  BY <1>1, InvHolds, PTL

-----------------------------------------------------------------------------
(* The runner implements SerialTests. *)

\* The test that runs is the one RunningTest chooses.
OneRuns ==
  /\ \A t \in Running : RunningTest = t
  /\ Running = {} <=> RunningTest = Unset

LEMMA InvOneRuns == Inv => OneRuns
<1> SUFFICES ASSUME Inv PROVE OneRuns
  OBVIOUS
<1>1. \A s, t \in Running : s = t
  BY Exclusive DEF EnvIsExclusive, Running, UsesEnv
<1>2. ASSUME NEW t \in Running PROVE RunningTest = t
  <2>1. Running # {} /\ (CHOOSE u \in Running : TRUE) \in Running
    OBVIOUS
  <2>2. QED
    BY <1>1, <2>1 DEF RunningTest
<1>3. \A t \in Running : t # Unset
  BY UnsetAssumption DEF Running
<1>4. Running = {} => RunningTest = Unset
  BY DEF RunningTest
<1>5. QED
  BY <1>2, <1>3, <1>4 DEF OneRuns

\* What the actions between lock and unlock do to who runs and who has run.
LEMMA Starts ==
  ASSUME Inv, Inv', NEW t \in Tests, SetToml(t) \/ NoGuard(t)
  PROVE  Serial!Start(t)
<1>1. holder = t /\ Running = {} /\ t \notin HaveRun
  BY UnsetAssumption DEF Inv, Ownership, PanicEnds, Holding, Running, HaveRun, SetToml, NoGuard
<1>2. Running' = {t} /\ HaveRun' = HaveRun \union {t}
  BY <1>1 DEF Inv, TypeOK, Running, HaveRun, SetToml, NoGuard, Goto
<1>3. RunningTest = Unset /\ RunningTest' = t
  <2>1. OneRuns /\ OneRuns'
    BY InvOneRuns, PTL
  <2>2. QED
    BY <1>1, <1>2, <2>1 DEF OneRuns
<1>4. env'.toml = IF Toml[t] = Unset THEN Default ELSE Toml[t]
  <2>1. CASE SetToml(t)
    BY <2>1 DEF SetToml, Inv, Guarded, TypeOK
  <2>2. CASE NoGuard(t)
    BY <1>1, <2>2 DEF NoGuard, Inv, Guarded
  <2>3. QED
    BY <2>1, <2>2
<1>5. QED
  BY <1>1, <1>2, <1>3, <1>4 DEF Serial!Start

LEMMA Stops ==
  ASSUME Inv, Inv', NEW t \in Running, Running' = {}, HaveRun' = HaveRun
  PROVE  Serial!Stop
<1>1. RunningTest = t /\ RunningTest' = Unset
  <2>1. OneRuns /\ OneRuns'
    BY InvOneRuns, PTL
  <2>2. QED
    BY <2>1 DEF OneRuns
<1>2. t # Unset
  BY UnsetAssumption DEF Running
<1>3. env'.toml = Default
  BY DEF Inv, Guarded
<1>4. QED
  BY <1>1, <1>2, <1>3 DEF Serial!Stop

LEMMA Stutters ==
  ASSUME Inv, Inv', Running' = Running, env'.toml = env.toml, HaveRun' = HaveRun
  PROVE  UNCHANGED Serial!vars
<1>1. OneRuns /\ OneRuns'
  BY InvOneRuns, PTL
<1>2. RunningTest' = RunningTest
  <2>1. CASE Running = {}
    BY <1>1, <2>1 DEF OneRuns
  <2>2. ASSUME NEW t \in Running PROVE RunningTest' = RunningTest
    BY <1>1 DEF OneRuns
  <2>3. QED
    BY <2>1, <2>2
<1>3. QED
  BY <1>2 DEF Serial!vars

\* Every step of a test is a step of SerialTests or leaves it alone.
LEMMA Simulation ==
  ASSUME Inv, Inv', NEW t \in Tests, StartTest(t) \/ run_ui_test(t)
  PROVE  [Serial!Next]_Serial!vars
<1> USE DEF Inv, TypeOK, PanicEnds, Running, HaveRun, Goto, cargo, InitSteps, Holding, Ends
<1>1. CASE SetToml(t) \/ NoGuard(t)
  BY <1>1, Starts DEF Serial!Next
<1>2. CASE DropVarGuard(t)
  <2>1. Running = {t} /\ Running' = {} /\ HaveRun' = HaveRun
    BY <1>2, UnsetAssumption DEF DropVarGuard, Ownership
  <2>2. QED
    BY <2>1, Stops DEF Serial!Next
<1>3. ASSUME NEW ok \in BOOLEAN, RunTests(t, ok) PROVE [Serial!Next]_Serial!vars
  <2>1. Running = {t} /\ HaveRun' = HaveRun
    BY <1>3, UnsetAssumption DEF RunTests, Ownership
  <2>2. CASE Toml[t] = Unset
    <3>1. Running' = {}
      BY <1>3, <2>1, <2>2 DEF RunTests
    <3>2. QED
      BY <2>1, <3>1, Stops DEF Serial!Next
  <2>3. CASE Toml[t] # Unset
    <3>1. Running' = Running /\ env' = env
      BY <1>3, <2>1, <2>3 DEF RunTests
    <3>2. QED
      BY <2>1, <3>1, Stutters
  <2>4. QED
    BY <2>2, <2>3
<1>4. CASE Unlock(t)
  <2>1. Running' = Running /\ env' = env /\ HaveRun' = HaveRun
    BY <1>4 DEF Unlock
  <2>2. QED
    BY <2>1, Stutters
<1>5. CASE Waiting(t) \/ init(t) \/ Lock(t) \/ ReadToml(t)
  <2>1. /\ Running' = Running /\ HaveRun' = HaveRun
        /\ env'.toml = env.toml
    BY <1>5 DEF Waiting, StartTest, LockPoisoned, Lock, ReadToml, init, EnterInit, AlreadyInitialised, InitPanics,
       CargoBuild, SetLibraryPath, SetLibs, GetDriver, remove_example_artifact, BuildExample, parse_linking_flags
  <2>2. QED
    BY <2>1, Stutters
<1>6. QED
  BY <1>1, <1>2, <1>3, <1>4, <1>5 DEF run_ui_test, Waiting

\* Tests that share one process and one DYLINT_TOML run as if one after the
\* other, each with its own configuration and at most once.
THEOREM RunsSerially == Spec => OneAtATime
<1>1. Init => Serial!Init
  BY DEF Init, Serial!Init, Running, RunningTest, HaveRun
<1>2. ASSUME Inv, Inv', [Next]_vars PROVE [Serial!Next]_Serial!vars
  <2>1. CASE Next
    BY <1>2, <2>1, Simulation DEF Next
  <2>2. CASE UNCHANGED vars
    BY <1>2, <2>2, Stutters DEF vars, Running, HaveRun
  <2>3. QED
    BY <1>2, <2>1, <2>2
<1>3. QED
  BY <1>1, <1>2, InvHolds, PTL DEF Spec, OneAtATime, Serial!Spec
=============================================================================
