------------------------------ MODULE BodyWalks ------------------------------
(***************************************************************************)
(* The lints that judge an expression by what encloses it:                 *)
(* panic_in_drop and fallible_new walk the body of a function inwards, as  *)
(* far as the code runs when the function does; blocking_in_async,         *)
(* global_side_effect and unbounded_channel are given every expression and *)
(* walk outwards from those that call a configured path.                   *)
(*                                                                         *)
(* No decision depends on a sibling, so a body is one branch of its tree:  *)
(* the expressions from the outermost to the innermost, each a record      *)
(*   [kind   |-> "call", "method", "closure", "async" (a block),           *)
(*               "async_fn" (what an async fn is desugared to), "if",      *)
(*               "item" (a nested function) or "other",                    *)
(*    slot   |-> where it stands in the one before it: "callee", "arg",    *)
(*               "cond", "then", "else" or "part",                         *)
(*    callee |-> what a call or method resolves to: its path, as           *)
(*               def_path_str writes it, and whether it has a name,        *)
(*    option |-> the receiver of the method is an Option or a Result,      *)
(*    guard  |-> the condition of the if: "panicking", "not_panicking",    *)
(*    frames |-> the macros it is expanded from, innermost first].         *)
(*                                                                         *)
(* The walk is at an expression, or at 0 before a visitor has begun;       *)
(* warned is lint |-> the expressions in its diagnostics.                  *)
(***************************************************************************)
EXTENDS LatePass, FiniteSets, SequencesExt

CONSTANTS
  Families,              \* sets of functions, [owner, body] records
  DEFAULT_PATHS,         \* of each path lint
  SPAWN_BLOCKING_PATHS,
  Config,                \* of each path lint: [override |-> BOOLEAN, paths, additional_paths]
  CHECK_NEW_VARIANTS,    \* fallible_new.check_new_variants
  Generics               \* path segments that are generic arguments

\* In the order in which they are consulted.
GlobalSideEffects == <<"time", "randomness", "env", "logging_init">>
PathLints == ToSet(GlobalSideEffects) \union {"blocking_in_async", "unbounded_channel"}

ASSUME PathsAssumption == DOMAIN DEFAULT_PATHS = PathLints /\ DOMAIN Config = PathLints

VARIABLES
  owner,     \* the function: [name, trait, expanded, output, entry, test]
  body,      \* the branch of its body
  pass,      \* the lint that is running: a visitor, or "check_expr"
  findings   \* what the visitor has found

vars == <<owner, body, pass, at, findings, warned>>

Lints == PathLints \union {"panic_in_drop", "fallible_new"}
Parent(k) == body[k - 1]
Closures == {"closure", "async", "async_fn"}

-----------------------------------------------------------------------------
(* call_matching *)

strip_generic_args(path) == SelectSeq(path, LAMBDA segment : segment \notin Generics)
path_final_segment(path) == Last(path)

\* An override replaces the defaults, additional paths join them.
build_path_list(defaults, config) ==
  IF config.override THEN config.paths ELSE defaults \union config.additional_paths

Paths(lint) == build_path_list(DEFAULT_PATHS[lint], Config[lint])

\* A definition without a name, a tuple constructor, is not filtered out.
may_match(paths, callee) ==
  callee.named => path_final_segment(callee.path) \in {path_final_segment(p) : p \in paths}

IsCall(e) == e.kind \in {"call", "method"} /\ e.callee.path # << >>
match_call_path(e, paths) ==
  /\ IsCall(e) /\ may_match(paths, e.callee)
  /\ strip_generic_args(e.callee.path) \in paths

is_in_test_zone == owner.test
\* The entry point itself, not a function inside it.
is_in_suppression_zone(k) ==
  is_in_test_zone \/ (owner.entry /\ \A j \in 1..k : body[j].kind # "item")

-----------------------------------------------------------------------------
(* hir_refs *)

PanicMacros == {"panic", "unreachable", "assert", "assert_eq", "assert_ne"}

\* Sensitivity: a placeholder is recognised in the innermost frame only.
find_panic_macro_Innermost(frames) ==
  LET named == {n \in DOMAIN frames : frames[n] \in PanicMacros}
  IN  IF named = {} \/ frames[1] \in {"todo", "unimplemented"} THEN "none" ELSE frames[Min(named)]

\* todo and unimplemented clear the whole chain of expansions.
find_panic_macro(frames) ==
  LET named == {n \in DOMAIN frames : frames[n] \in PanicMacros}
  IN  IF named = {} \/ ToSet(frames) \intersect {"todo", "unimplemented"} # {}
      THEN "none" ELSE frames[Min(named)]

panicking_unwrap_or_expect(e) ==
  e.kind = "method" /\ e.option /\ Last(e.callee.path) \in {"unwrap", "expect"}

\* The compiler's bodies: what stands in a branch stands in an if, and is its
\* block or another if; a panic macro expands into no else if, and its branches
\* are its own; the path of a named definition does not end in generic arguments.
FamiliesAssumption ==
  \A family \in Families : \A f \in family :
    /\ f.body \in Seq(ToSet(f.body))
    /\ \A k \in DOMAIN f.body :
         LET e == f.body[k] IN
         /\ e.frames \in Seq(ToSet(e.frames))
         /\ IsCall(e) /\ e.callee.named =>
              path_final_segment(strip_generic_args(e.callee.path)) = path_final_segment(e.callee.path)
         /\ e.slot \in {"then", "else"} =>
              /\ k > 1 /\ f.body[k - 1].kind = "if"
              /\ e.kind \in {"other", "if"}
              /\ find_panic_macro(e.frames) # "none" =>
                   /\ f.body[k - 1].frames = e.frames
                   /\ f.body[k - 1].slot \notin {"then", "else"}
ASSUME FamiliesAssumption

iife_closure_body(k) ==
  body[k].kind \in Closures /\ k > 1 /\ Parent(k).kind = "call" /\ body[k].slot = "callee"

-----------------------------------------------------------------------------
(* The visitors of panic_in_drop and fallible_new: what each does with the *)
(* expression it has come to.  next is the expression it visits then.      *)

Beyond == Len(body) + 1
Visit(found, next) ==
  /\ findings' = findings \union found
  /\ at' = next
  /\ UNCHANGED <<owner, body, pass, warned>>
\* What else is below is passed over.
Leave(found) == Visit(found, Beyond)

Visiting(lint) == pass = lint /\ at \in 1..Len(body)

Item == pass \in {"panic_in_drop", "fallible_new"} /\ at \in 1..Len(body)
        /\ body[at].kind = "item" /\ Leave({})

IsGuard(e) == e.kind = "if" /\ e.guard # "none"
UnwindingBranch(e) == IF e.guard = "not_panicking" THEN "else" ELSE "then"

\* Sensitivity: the branches are mixed up.
DropGuard_Swapped ==
  /\ Visiting("panic_in_drop") /\ IsGuard(body[at])
  /\ IF at < Len(body) /\ body[at + 1].slot # UnwindingBranch(body[at])
     THEN Visit({}, at + 2) ELSE Leave({})

DropClosure ==
  /\ Visiting("panic_in_drop") /\ body[at].kind \in Closures
  /\ IF iife_closure_body(at) THEN Visit({}, at + 1) ELSE Leave({})
\* The parts of the branch that runs while unwinding are visited, not the
\* branch itself.
DropGuard ==
  /\ Visiting("panic_in_drop") /\ IsGuard(body[at])
  /\ IF at < Len(body) /\ body[at + 1].slot = UnwindingBranch(body[at])
     THEN Visit({}, at + 2) ELSE Leave({})
DropMacro ==
  /\ Visiting("panic_in_drop")
  /\ body[at].kind \notin Closures \union {"item"} /\ ~IsGuard(body[at])
  /\ find_panic_macro(body[at].frames) # "none"
  /\ Leave({at})
DropOther ==
  /\ Visiting("panic_in_drop")
  /\ body[at].kind \notin Closures \union {"item"} /\ ~IsGuard(body[at])
  /\ find_panic_macro(body[at].frames) = "none"
  /\ Visit(IF panicking_unwrap_or_expect(body[at]) THEN {at} ELSE {}, at + 1)
DropPanicFinder == DropClosure \/ DropGuard \/ DropMacro \/ DropOther

is_option_or_result_adapter_arg(k) ==
  k > 1 /\ Parent(k).kind = "method" /\ Parent(k).option /\ body[k].slot = "arg"

RunsInNew(k) ==
  \/ body[k].kind = "async_fn"
  \/ iife_closure_body(k)
  \/ is_option_or_result_adapter_arg(k)

\* The conditions of assertions are walked into.
NewMacros == {"panic", "unreachable"}
NewClosure ==
  /\ Visiting("fallible_new") /\ body[at].kind \in Closures
  /\ IF RunsInNew(at) THEN Visit({}, at + 1) ELSE Leave({})
NewMacro ==
  /\ Visiting("fallible_new") /\ body[at].kind \notin Closures \union {"item"}
  /\ find_panic_macro(body[at].frames) \in NewMacros
  /\ Leave({at})
NewOther ==
  /\ Visiting("fallible_new") /\ body[at].kind \notin Closures \union {"item"}
  /\ find_panic_macro(body[at].frames) \notin NewMacros
  /\ Visit(IF panicking_unwrap_or_expect(body[at]) THEN {at} ELSE {}, at + 1)
PanicFinder == NewClosure \/ NewMacro \/ NewOther

Init ==
  /\ \E family \in Families : \E f \in family : owner = f.owner /\ body = f.body
  /\ pass = "panic_in_drop" /\ at = 0
  /\ findings = {}
  /\ warned = [lint \in Lints |-> {}]

returns_result == Head(peel_async_fn_return_ty(owner.output)) = "Result"

is_drop_impl == owner.trait = "Drop"
Checks(lint) ==
  /\ ~owner.expanded
  /\ IF lint = "panic_in_drop"
     THEN owner.name = "drop" /\ is_drop_impl
     ELSE /\ owner.name = "new" \/ (CHECK_NEW_VARIANTS /\ owner.name = "new_with")
          /\ owner.trait = "none" /\ ~returns_result

After(lint) == IF lint = "panic_in_drop" THEN "fallible_new" ELSE "check_expr"

\* check_impl_item of either lint, up to the walk.
check_impl_item ==
  /\ pass # "check_expr" /\ at = 0
  /\ IF Checks(pass) THEN at' = 1 /\ pass' = pass
     ELSE pass' = After(pass) /\ at' = IF pass = "panic_in_drop" THEN 0 ELSE 1
  /\ UNCHANGED <<owner, body, findings, warned>>

\* Sensitivity: the findings are kept.
Emit_Keeps ==
  /\ pass # "check_expr" /\ at = Beyond
  /\ warned' = [warned EXCEPT ![pass] = findings]
  /\ pass' = After(pass)
  /\ at' = IF pass = "panic_in_drop" THEN 0 ELSE 1
  /\ UNCHANGED <<owner, body, findings>>

\* One diagnostic with a note for each finding.
Emit ==
  /\ pass # "check_expr" /\ at = Beyond
  /\ warned' = [warned EXCEPT ![pass] = findings]
  /\ findings' = {}
  /\ pass' = After(pass)
  /\ at' = IF pass = "panic_in_drop" THEN 0 ELSE 1
  /\ UNCHANGED <<owner, body>>

-----------------------------------------------------------------------------
(* blocking_in_async: two walks outwards, to the enclosing item. *)

is_synchronously_invoked(k) ==
  /\ k > 1
  /\ \/ Parent(k).kind = "call" /\ body[k].slot = "callee"
     \/ Parent(k).kind = "method"

Enclosing(k) ==
  {j \in 1..(k - 1) : body[j].kind \in Closures /\ \A i \in (j + 1)..(k - 1) : body[i].kind # "item"}

\* Sensitivity: the outermost coroutine decides, whatever is between.
is_in_async_context_Any(k) == \E j \in Enclosing(k) : body[j].kind # "closure"

\* Up to the first coroutine, through closures that are called in place.
is_in_async_context(k) ==
  \E j \in Enclosing(k) :
    /\ body[j].kind # "closure"
    /\ \A i \in Enclosing(k) : i > j => body[i].kind = "closure" /\ is_synchronously_invoked(i)

is_inside_spawn_blocking(k) ==
  \E j \in Enclosing(k) : j > 1 /\ match_call_path(Parent(j), SPAWN_BLOCKING_PATHS)

blocking_in_async(k) ==
  /\ match_call_path(body[k], Paths("blocking_in_async"))
  /\ ~is_in_test_zone
  /\ is_in_async_context(k)
  /\ ~is_inside_spawn_blocking(k)

\* The first of the four sets that has the path.
global_side_effect(k) ==
  LET matching == {n \in DOMAIN GlobalSideEffects :
                     strip_generic_args(body[k].callee.path) \in Paths(GlobalSideEffects[n])}
  IN  IF /\ IsCall(body[k])
         /\ \E n \in DOMAIN GlobalSideEffects : may_match(Paths(GlobalSideEffects[n]), body[k].callee)
         /\ matching # {} /\ ~is_in_suppression_zone(k)
      THEN {GlobalSideEffects[CHOOSE n \in matching : \A m \in matching : n <= m]}
      ELSE {}

unbounded_channel(k) ==
  match_call_path(body[k], Paths("unbounded_channel")) /\ ~is_in_suppression_zone(k)

\* None of the three passes looks at the expansion of a macro.
Reports(lint, k) ==
  /\ body[k].frames = << >>
  /\ \/ lint = "blocking_in_async" /\ blocking_in_async(k)
     \/ lint = "unbounded_channel" /\ unbounded_channel(k)
     \/ lint \in global_side_effect(k)

\* check_expr of the three passes.
check_expr ==
  /\ pass = "check_expr" /\ at \in 1..Len(body)
  /\ warned' = [lint \in Lints |-> IF Reports(lint, at) THEN warned[lint] \union {at} ELSE warned[lint]]
  /\ at' = at + 1
  /\ UNCHANGED <<owner, body, pass, findings>>

Next == check_impl_item \/ Item \/ DropPanicFinder \/ PanicFinder \/ Emit \/ check_expr
Spec == Init /\ [][Next]_vars

-----------------------------------------------------------------------------
(* Properties. *)

\* The variables keep their types; a visitor has found nothing that it has
\* not come to.
TypeOK ==
  /\ pass \in {"panic_in_drop", "fallible_new", "check_expr"}
  /\ at \in 0..Beyond
  /\ findings \subseteq 1..(at - 1)
  /\ warned \in [Lints -> SUBSET (1..Len(body))]

Done == pass = "check_expr" /\ at = Beyond

\* Expression k and the path to it run in the function itself: there is no
\* item and only closures that are called on the spot.
RunsHere(k, OnTheSpot(_)) ==
  \A j \in 1..(k - 1) : body[j].kind # "item" /\ (body[j].kind \in Closures => OnTheSpot(j))

\* j is the branch of a guard that runs while unwinding.
Unwinds(j) == j > 1 /\ IsGuard(Parent(j)) /\ body[j].slot = UnwindingBranch(Parent(j))

\* Such a branch is walked and not visited, so that it is not seen to be a guard
\* itself: of else ifs that are all guards every second is overlooked.
Overlooked(j) ==
  \E i \in 1..j : ~Unwinds(i) /\ (j - i) % 2 = 1 /\ \A m \in (i + 1)..j : Unwinds(m)

\* k is under the condition or the branch of a guard that does not run while
\* unwinding.
OnlyWhenSafe(k) ==
  \E j \in 1..(k - 1) : IsGuard(body[j]) /\ ~Unwinds(j + 1) /\ ~Overlooked(j)

\* A branch, and a guard, panics by what is in it only.
Panics(k) ==
  /\ body[k].kind \notin Closures \union {"item"} /\ ~IsGuard(body[k])
  /\ body[k].slot \notin {"then", "else"}
  /\ panicking_unwrap_or_expect(body[k]) \/ find_panic_macro(body[k].frames) # "none"

\* The findings in a drop are the outermost expressions that may panic while
\* the thread unwinds already: those in closures that are merely stored and
\* those a guard keeps for the other case are not among them.  The unwinding
\* branch of a guard and a closure called on the spot are looked into, as
\* ui/panic_in_drop/main.rs:85 and :92 want it; docs/panic-in-drop.md:126 and :127
\* say that neither branch of a guard and no closure is.
DropFindsDoublePanics ==
  Done /\ Checks("panic_in_drop") =>
    LET aborts == {k \in 1..Len(body) : Panics(k) /\ RunsHere(k, iife_closure_body) /\ ~OnlyWhenSafe(k)}
    IN  /\ warned["panic_in_drop"] \subseteq aborts
        /\ \A k \in aborts : k \in warned["panic_in_drop"]
                             \/ \E j \in warned["panic_in_drop"] : j < k /\ body[j].frames # << >>

\* A constructor is reported iff something in it panics while it runs:
\* assertions do not count, what they and todo!() evaluate does.
NewFindsPanics ==
  Done /\ Checks("fallible_new") =>
    (warned["fallible_new"] # {} <=>
       \E k \in 1..Len(body) :
         /\ RunsHere(k, RunsInNew) /\ body[k].kind \notin Closures \union {"item"}
         /\ panicking_unwrap_or_expect(body[k])
            \/ /\ {"todo", "unimplemented"} \intersect ToSet(body[k].frames) = {}
               /\ \E n \in DOMAIN body[k].frames :
                    /\ body[k].frames[n] \in {"panic", "unreachable"}
                    /\ \A m \in 1..(n - 1) : body[k].frames[m] \notin PanicMacros)

\* Where the code runs, from the outside in: an item starts anew, a coroutine
\* runs on the executor, a closure given to spawn_blocking leaves it for good,
\* one that is called in place stays, any other runs no one knows where.
Inside(k, outside) ==
  CASE body[k].kind = "item" -> "unknown"
    [] body[k].kind \notin Closures \union {"item"} -> outside
    [] OTHER ->
         IF \/ outside = "dedicated"
            \/ /\ k > 1 /\ IsCall(Parent(k))
               /\ strip_generic_args(Parent(k).callee.path) \in SPAWN_BLOCKING_PATHS
         THEN "dedicated"
         ELSE IF body[k].kind # "closure" THEN "executor"
         ELSE IF is_synchronously_invoked(k) THEN outside ELSE "unknown"

RunsOn[k \in 0..Len(body)] == IF k = 0 THEN "unknown" ELSE Inside(k, RunsOn[k - 1])

\* A blocking call is reported iff it runs on the executor.
BlocksTheExecutor ==
  Done => \A k \in 1..Len(body) :
    k \in warned["blocking_in_async"] <=>
      /\ ~owner.test /\ body[k].frames = << >> /\ IsCall(body[k])
      /\ strip_generic_args(body[k].callee.path) \in Paths("blocking_in_async")
      /\ RunsOn[k] = "executor"

\* Neither the filter by name nor the order of the categories loses a call: a
\* path that some set of global_side_effect lists is reported by one of its
\* lints, in tests and in main itself by none; a function inside main is not
\* main.
NoConfiguredCallSlips ==
  Done => \A k \in 1..Len(body) :
    Cardinality({lint \in ToSet(GlobalSideEffects) : k \in warned[lint]}) =
      IF /\ body[k].frames = << >> /\ IsCall(body[k])
         /\ \E lint \in ToSet(GlobalSideEffects) : strip_generic_args(body[k].callee.path) \in Paths(lint)
         /\ ~owner.test
         /\ owner.entry => \E j \in 1..(k - 1) : body[j].kind = "item"
      THEN 1 ELSE 0

\* The lints that are configured with paths find their calls, wherever a body
\* has them.
PathCallsAreFound == BlocksTheExecutor /\ NoConfiguredCallSlips
=============================================================================
