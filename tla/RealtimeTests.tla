---------------------------- MODULE RealtimeTests ----------------------------
(***************************************************************************)
(* realtime_in_async_test: an async test that waits in real time, itself   *)
(* or in the functions of the crate it calls, should pause the clock.      *)
(*                                                                         *)
(* check_fn walks the body of the test for three signals and the calls of  *)
(* local functions; has_transitive_time_call then searches the bodies of   *)
(* those, depth first, with one set of visited functions for all calls of  *)
(* the test.  Its recursion is an explicit stack here, one frame for each  *)
(* body that is being walked.                                              *)
(*                                                                         *)
(* A body is the sequence of its calls, in the order of the walk, through  *)
(* closures and async blocks: a local function, "time" (a configured path  *)
(* of another crate), "instant" (std::time::Instant::now), "paused"        *)
(* (start_paused(true)) or "other".                                        *)
(***************************************************************************)
EXTENDS Naturals, Sequences, SequencesExt

CONSTANTS
  Local,       \* the functions of the crate
  Crates,      \* sets of [kind, test, bodies] records
  LocalPaths   \* the functions of the crate that the configuration names

Outside == {"time", "instant", "paused", "other"}
Calls == Local \union Outside
ASSUME PathsAssumption == LocalPaths \subseteq Local /\ Local \intersect Outside = {}

\* What a declaration without a body, of a trait or an extern block, has.
NoBody == <<"declared">>

ASSUME CratesAssumption ==
  \A crates \in Crates : \A c \in crates :
    c.test \in Seq(Calls) /\ c.bodies \in [Local -> Seq(Calls) \union {NoBody}]

VARIABLES
  kind,          \* "test", or a function that is none
  test, bodies,  \* its body and those of the local functions, fixed
  phase,         \* "visit", "search", "decide" or "done"
  at,            \* the call the walk of the test has come to
  time_call,     \* the first time call of the test, 0 for none
  instant_now,   \* its first Instant::now, 0 for none
  paused,        \* has_start_paused_true
  local_callees, \* the calls of local functions to follow
  next,          \* the one that is being followed
  visited,       \* the functions has_transitive_time_call has entered
  stack,         \* the bodies it is in, outermost first: [fn, at]
  warned         \* the diagnostics: <<case, call>>

fixed == <<kind, test, bodies>>
signals == <<at, time_call, instant_now, paused, local_callees>>
vars == <<fixed, phase, signals, next, visited, stack, warned>>

-----------------------------------------------------------------------------
Init ==
  /\ \E crates \in Crates : \E c \in crates : kind = c.kind /\ test = c.test /\ bodies = c.bodies
  /\ phase = "visit"
  /\ at = 1 /\ time_call = 0 /\ instant_now = 0 /\ paused = FALSE /\ local_callees = << >>
  /\ next = 1 /\ visited = {} /\ stack = << >>
  /\ warned = {}

\* Only functions with #[test] are looked at.
NotATest ==
  /\ phase = "visit" /\ kind # "test"
  /\ phase' = "done"
  /\ UNCHANGED <<fixed, signals, next, visited, stack, warned>>

\* TimeCallVisitor: local calls are kept until a time call is found.
visit_expr ==
  /\ phase = "visit" /\ kind = "test" /\ at <= Len(test)
  /\ LET call == test[at]
         time == time_call = 0 /\ (call = "time" \/ call \in LocalPaths)
     IN  /\ time_call' = IF time THEN at ELSE time_call
         /\ instant_now' = IF instant_now = 0 /\ call = "instant" THEN at ELSE instant_now
         /\ paused' = (paused \/ call = "paused")
         /\ local_callees' = IF time_call = 0 /\ call \in Local THEN Append(local_callees, at) ELSE local_callees
  /\ at' = at + 1
  /\ UNCHANGED <<fixed, phase, next, visited, stack, warned>>

\* A paused clock settles the first case without a search.
Visited ==
  /\ phase = "visit" /\ kind = "test" /\ at > Len(test)
  /\ phase' = IF time_call = 0 /\ ~paused THEN "search" ELSE "decide"
  /\ UNCHANGED <<fixed, signals, next, visited, stack, warned>>

-----------------------------------------------------------------------------
(* has_transitive_time_call *)

\* A visited function, also one whose body is being walked, and one without a
\* body calls nothing.
Enter(fn, outer) ==
  /\ visited' = visited \union {fn}
  /\ stack' = IF fn \in visited \/ bodies[fn] = NoBody THEN outer ELSE Append(outer, [fn |-> fn, at |-> 1])

Frame == Last(stack)
\* The calling body goes on after the call.
Resumed == [stack EXCEPT ![Len(stack)].at = @ + 1]
Call == bodies[Frame.fn][Frame.at]
Walking == phase = "search" /\ stack # << >> /\ Frame.at <= Len(bodies[Frame.fn])

\* The next call of the test is followed.
FollowCallee ==
  /\ phase = "search" /\ stack = << >> /\ next <= Len(local_callees)
  /\ next' = next + 1
  /\ Enter(test[local_callees[next]], << >>)
  /\ UNCHANGED <<fixed, phase, signals, warned>>

\* Sensitivity: the caller does not go on.
CallLocal_Stays ==
  /\ Walking /\ Call \in Local
  /\ Enter(Call, stack)
  /\ UNCHANGED <<fixed, phase, signals, next, warned>>

\* A local function is entered, whether or not it is a configured path.
CallLocal ==
  /\ Walking /\ Call \in Local
  /\ Enter(Call, Resumed)
  /\ UNCHANGED <<fixed, phase, signals, next, warned>>

\* Sensitivity: the first call to be followed is blamed.
CallTime_First ==
  /\ Walking /\ Call = "time"
  /\ phase' = "decide" /\ stack' = << >>
  /\ time_call' = local_callees[1]
  /\ UNCHANGED <<fixed, at, instant_now, paused, local_callees, next, visited, warned>>

\* Every caller breaks off; the test's own call is what is reported.
CallTime ==
  /\ Walking /\ Call = "time"
  /\ phase' = "decide" /\ stack' = << >>
  /\ time_call' = local_callees[next - 1]
  /\ UNCHANGED <<fixed, at, instant_now, paused, local_callees, next, visited, warned>>

CallOther ==
  /\ Walking /\ Call \notin Local /\ Call # "time"
  /\ stack' = Resumed
  /\ UNCHANGED <<fixed, phase, signals, next, visited, warned>>

\* Sensitivity: the end of one body ends the search under this call.
Return_All ==
  /\ phase = "search" /\ stack # << >> /\ Frame.at > Len(bodies[Frame.fn])
  /\ stack' = << >>
  /\ UNCHANGED <<fixed, phase, signals, next, visited, warned>>

Return ==
  /\ phase = "search" /\ stack # << >> /\ Frame.at > Len(bodies[Frame.fn])
  /\ stack' = Front(stack)
  /\ UNCHANGED <<fixed, phase, signals, next, visited, warned>>

NothingFound ==
  /\ phase = "search" /\ stack = << >> /\ next > Len(local_callees)
  /\ phase' = "decide"
  /\ UNCHANGED <<fixed, signals, next, visited, stack, warned>>

has_transitive_time_call == FollowCallee \/ CallLocal \/ CallTime \/ CallOther \/ Return \/ NothingFound

-----------------------------------------------------------------------------
check_fn ==
  /\ phase = "decide" /\ phase' = "done"
  /\ warned' = (IF time_call # 0 /\ ~paused THEN {<<"wait", time_call>>} ELSE {})
               \union (IF instant_now # 0 /\ paused THEN {<<"instant", instant_now>>} ELSE {})
  /\ UNCHANGED <<fixed, signals, next, visited, stack>>

Next == NotATest \/ visit_expr \/ Visited \/ has_transitive_time_call \/ check_fn
Spec == Init /\ [][Next]_vars /\ WF_vars(Next)

-----------------------------------------------------------------------------
(* Properties. *)

\* The variables keep their types, and a body is walked once at a time.
TypeOK ==
  /\ phase \in {"visit", "search", "decide", "done"}
  /\ at \in 1..(Len(test) + 1)
  /\ time_call \in 0..Len(test) /\ instant_now \in 0..Len(test) /\ paused \in BOOLEAN
  /\ local_callees \in Seq(1..Len(test))
  /\ \A n \in DOMAIN local_callees : test[local_callees[n]] \in Local
  /\ next \in 1..(Len(local_callees) + 1)
  /\ visited \subseteq Local
  /\ stack \in Seq([fn: visited, at: Nat \ {0}])
  /\ \A n \in DOMAIN stack :
       /\ stack[n].at <= Len(bodies[stack[n].fn]) + 1
       /\ \A m \in DOMAIN stack : stack[m].fn = stack[n].fn => m = n

OnStack == {stack[n].fn : n \in DOMAIN stack}
\* Whether f has no time call, and no call out of the visited functions.
Hopeless(f) ==
  bodies[f] # NoBody =>
    \A n \in DOMAIN bodies[f] : bodies[f][n] # "time" /\ (bodies[f][n] \in Local => bodies[f][n] \in visited)

\* Why the answer "no" of a function that is being visited, given to another,
\* is not wrong in the end: as long as nothing is found, a function that has
\* been left calls no time function and only functions that have been entered.
LeftIsHopeless == phase = "search" => \A f \in visited : f \in OnStack \/ Hopeless(f)

\* The functions a call of f may come to, itself first: those that no set which
\* has f and is closed under calls can leave out.
Callees(f) == IF bodies[f] = NoBody THEN {} ELSE ToSet(bodies[f]) \intersect Local
Closed(fns) == \A f \in fns : Callees(f) \subseteq fns
Reached(f) == {g \in Local : \A fns \in SUBSET Local : f \in fns /\ Closed(fns) => g \in fns}

Direct(call) == call = "time" \/ call \in LocalPaths
Waits(call) ==
  \/ Direct(call)
  \/ call \in Local /\ \E g \in Reached(call) : "time" \in ToSet(bodies[g])
\* The calls of the test that may be blamed: its own time calls go first.
Candidates ==
  IF \E n \in DOMAIN test : Direct(test[n])
  THEN {n \in DOMAIN test : Direct(test[n])} ELSE {n \in DOMAIN test : Waits(test[n])}

\* A test that does not pause the clock is reported iff it can come to a time
\* call, however its helpers call each other, and at its first call that can.
FirstWaitIsReported ==
  phase = "done" /\ kind = "test" =>
    {n \in DOMAIN test : <<"wait", n>> \in warned} =
      IF "paused" \in ToSet(test) THEN {} ELSE {n \in Candidates : \A m \in Candidates : n <= m}

\* The search ends, on call graphs with cycles, too: the compiler walks on as
\* long as there is something to walk.
SearchEnds == <>(phase = "done")

\* The search at every step: typed, and what it has left behind holds no call it
\* is looking for.
SearchIsSound == TypeOK /\ LeftIsHopeless
=============================================================================
