----------------------------- MODULE SerialTests -----------------------------
(***************************************************************************)
(* What run_ui_test promises the tests of src/src/lints: they run one at a *)
(* time, each with the DYLINT_TOML it asks for, or with the one the        *)
(* process was started with, and each at most once.                        *)
(***************************************************************************)
CONSTANTS Tests, Toml, Unset, Default  \* as in TestRunner

VARIABLES running, toml, ran
vars == <<running, toml, ran>>

Init == running = Unset /\ toml = Default /\ ran = {}

Start(t) ==
  /\ running = Unset /\ t \notin ran
  /\ running' = t
  /\ toml' = IF Toml[t] = Unset THEN Default ELSE Toml[t]
  /\ ran' = ran \union {t}

Stop ==
  /\ running # Unset
  /\ running' = Unset
  /\ toml' = Default
  /\ UNCHANGED ran

Next == (\E t \in Tests : Start(t)) \/ Stop
Spec == Init /\ [][Next]_vars
=============================================================================
