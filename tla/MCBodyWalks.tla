----------------------------- MODULE MCBodyWalks -----------------------------
(***************************************************************************)
(* Branches of a body: three scopes, any of which may be missing, around   *)
(* an expression that may panic or block; one family for each group of     *)
(* lints, with the scopes that mean something to it.                       *)
(***************************************************************************)
EXTENDS BodyWalks

Expr(kind, slot) == [kind |-> kind, slot |-> slot, callee |-> [path |-> << >>, named |-> TRUE],
                     option |-> FALSE, guard |-> "none", frames |-> << >>]
To(e, path) == [e EXCEPT !.callee.path = path]
OnOption(e) == [e EXCEPT !.option = TRUE]
If(guard, slot) == [Expr("if", slot) EXCEPT !.guard = guard]
Macro(frames) == [Expr("other", "part") EXCEPT !.frames = frames]

map == <<"core", "map">>
spawn == <<"tokio", "spawn_blocking">>
read == <<"std", "fs", "read">>
lock == <<"std", "Mutex", "lock">>
Call(path) == To(Expr("call", "part"), path)
Method(path) == To(Expr("method", "part"), path)

Called == <<Expr("call", "part"), Expr("closure", "callee")>>
Given(call) == <<call, Expr("closure", "arg")>>
\* An assertion that the thread is not panicking.
Asserted == <<[If("not_panicking", "part") EXCEPT !.frames = <<"assert">>],
              [Expr("other", "then") EXCEPT !.frames = <<"assert">>]>>
In(guard, slot) == <<If(guard, "part"), Expr("other", slot)>>
ElseIf(guard, guard2, slot) == <<If(guard, "part"), If(guard2, "else"), Expr("other", slot)>>

ElseIfs == <<If("not_panicking", "part"), If("not_panicking", "else"), If("not_panicking", "else"), Expr("other", "then")>>

DropScopes ==
  { << >>, Called, Given(OnOption(Method(map))), <<Expr("item", "part")>>, <<Macro(<<"panic">>)>>, <<Macro(<<"assert">>)>>,
    Asserted, In("none", "cond"), In("none", "then"), In("panicking", "cond"),
    In("panicking", "then"), In("panicking", "else"), In("not_panicking", "then"), In("not_panicking", "else"),
    ElseIf("not_panicking", "not_panicking", "then"), ElseIf("panicking", "panicking", "then"),
    ElseIf("none", "not_panicking", "else"), ElseIfs }
NewScopes ==
  { << >>, Called, Given(OnOption(Method(map))), Given(Method(map)), Given(Call(map)),
    <<Expr("async", "part")>>, <<Expr("item", "part")>>, <<Macro(<<"assert">>)>>, <<Macro(<<"panic", "todo">>)>>,
    <<Macro(<<"panic">>)>> }
PathScopes ==
  { << >>, Called, Given(Call(spawn)), Given(Method(spawn)), Given(Call(map)), Given(Method(map)),
    <<Expr("async", "part")>>, <<Call(spawn), Expr("async", "arg")>>, <<Expr("item", "part")>>,
    <<Macro(<<"println">>)>> }

PanicLeaves ==
  { OnOption(Method(<<"unwrap">>)), Method(<<"unwrap">>), Macro(<<"panic_2021", "panic">>), Macro(<<"assert">>),
    Macro(<<"panic", "todo">>), Macro(<<"panic", "unreachable">>) }
PathLeaves ==
  { Call(read), Method(<<"std", "Mutex", "<T>", "lock">>), Call(<<"mine", "read">>), Call(<<"std", "now">>),
    [Call(<<"mine", "Now">>) EXCEPT !.callee.named = FALSE], Call(<<"flume", "unbounded">>) }

Owner(name, trait, output, entry, test) ==
  [name |-> name, trait |-> trait, expanded |-> FALSE, output |-> output, entry |-> entry, test |-> test]
Fn(o, scopes, leaf) == [owner |-> o, body |-> scopes[1] \o scopes[2] \o scopes[3] \o <<leaf>>]

MCFamilies ==
  { {Fn(Owner("drop", "Drop", <<"()">>, FALSE, FALSE), s, l) : s \in [1..3 -> DropScopes], l \in PanicLeaves},
    {Fn(Owner("drop", t, <<"()">>, FALSE, FALSE), <<s, << >>, << >>>>, l) :
       t \in {"none", "Other"}, s \in DropScopes, l \in PanicLeaves},
    {Fn(Owner("new_with", "none", <<"Self">>, FALSE, FALSE), s, l) : s \in [1..3 -> NewScopes], l \in PanicLeaves},
    {Fn(Owner("new", "none", <<"impl Future", o>>, FALSE, FALSE), <<<<Expr("async_fn", "part")>>, s, << >>>>, l) :
       o \in {"Self", "Result"}, s \in NewScopes, l \in PanicLeaves},
    {Fn(Owner("f", "none", <<"()">>, FALSE, FALSE), s, l) : s \in [1..3 -> PathScopes], l \in PathLeaves},
    {Fn(Owner("f", "none", <<"()">>, e, ~e), <<s, t, << >>>>, l) :
       e \in BOOLEAN, s \in PathScopes, t \in PathScopes, l \in PathLeaves} }

MCDefaults ==
  [lint \in PathLints |->
     CASE lint = "blocking_in_async" -> {read, lock}
       [] lint = "time" -> {<<"std", "now">>}
       [] lint = "env" -> {<<"std", "now">>, <<"std", "var">>}
       [] lint = "unbounded_channel" -> {<<"std", "channel">>}
       [] OTHER -> {}]
MCConfig ==
  [lint \in PathLints |->
     [override |-> lint = "unbounded_channel",
      paths |-> {<<"flume", "unbounded">>},
      additional_paths |-> IF lint = "time" THEN {<<"mine", "Now">>} ELSE {}]]
MCSpawn == {spawn}
=============================================================================
