------------------------------ MODULE LatePass ------------------------------
(***************************************************************************)
(* What the late passes have in common.  The compiler walks the crate once *)
(* and hands each place of it, in source order, to every pass; a pass says *)
(* what is wrong with it, and may remember it for later places.  The       *)
(* passes do not share what they remember, so each module that extends     *)
(* this one is about the walk of its own passes, with its own input.       *)
(***************************************************************************)
EXTENDS Naturals, Sequences

VARIABLES
  at,      \* the place the walk has come to, a number
  warned   \* the diagnostics so far

\* A type is the sequence of its heads.  The type of an async fn is hidden in
\* the future it returns.
peel_async_fn_return_ty(type) == IF Head(type) = "impl Future" THEN Tail(type) ELSE type
=============================================================================
