----------------------------- MODULE MCTestRunner -----------------------------
(***************************************************************************)
(* Two tests with a configuration of their own and one without, in a       *)
(* process that was started with a DYLINT_TOML.                            *)
(***************************************************************************)
EXTENDS TestRunner

CONSTANTS t1, t2, t3
MCTests == {t1, t2, t3}
MCToml  == [t \in MCTests |-> CASE t = t1 -> "first" [] t = t2 -> "second" [] t = t3 -> Unset]
=============================================================================
