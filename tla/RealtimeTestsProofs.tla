------------------------- MODULE RealtimeTestsProofs -------------------------
(***************************************************************************)
(* Proofs about RealtimeTests, for every test and every call graph.        *)
(*                                                                         *)
(* One visited set serves all the searches of a test, and a function whose *)
(* body is being walked counts as calling nothing.  Why no wait is lost:   *)
(* what has been left is hopeless (LeftIsHopeless), so whenever the stack  *)
(* is empty the visited functions are closed under calls and none of them  *)
(* has a time call.                                                        *)
(***************************************************************************)
EXTENDS RealtimeTests, SequenceTheorems, TLAPS

-----------------------------------------------------------------------------
(* The invariant. *)

\* The code does not change while it is searched.
Typed ==
  /\ test \in Seq(Calls)
  /\ bodies \in [Local -> Seq(Calls) \union {NoBody}]

\* What the walk of the test has seen up to the current call.
Signals ==
  /\ paused <=> \E n \in 1..(at - 1) : test[n] = "paused"
  /\ phase # "visit" /\ kind = "test" => at = Len(test) + 1
  /\ phase \in {"search", "decide"} => kind = "test"
  /\ phase = "search" => time_call = 0
  /\ phase = "visit" => visited = {} /\ next = 1
  /\ phase # "done" => warned = {}

\* In the walk time_call is the first time call, and until there is one the
\* local calls are kept, all of them and in order.
FirstSignal ==
  phase \in {"visit", "search"} =>
    /\ time_call = 0 =>
         /\ \A n \in 1..(at - 1) : ~Direct(test[n])
         /\ \A n \in 1..(at - 1) : test[n] \in Local => \E k \in DOMAIN local_callees : local_callees[k] = n
         /\ \A k \in DOMAIN local_callees : local_callees[k] < at
         /\ \A j, k \in DOMAIN local_callees : j < k => local_callees[j] < local_callees[k]
    /\ time_call # 0 =>
         /\ time_call < at /\ Direct(test[time_call])
         /\ \A n \in 1..(time_call - 1) : ~Direct(test[n])

\* s is a stack when v has been visited: each body may be come to from the
\* first, and the part before its current call is hopeless.
IsStack(s, v) ==
  /\ s \in Seq([fn: v, at: Nat \ {0}])
  /\ \A n \in 1..Len(s) :
       /\ bodies[s[n].fn] # NoBody
       /\ s[n].at <= Len(bodies[s[n].fn]) + 1
       /\ \A m \in 1..Len(s) : s[m].fn = s[n].fn => m = n
       /\ s[n].fn \in Reached(s[1].fn)
       /\ \A i \in 1..(s[n].at - 1) :
            bodies[s[n].fn][i] # "time" /\ (bodies[s[n].fn][i] \in Local => bodies[s[n].fn][i] \in v)

\* The stack is one that began with a call of the test.
Stacked ==
  IF phase = "search"
  THEN IsStack(stack, visited) /\ (stack # << >> => next > 1 /\ stack[1].fn = test[local_callees[next - 1]])
  ELSE stack = << >>

\* The calls that have been followed to the end wait for nothing.
Cleared ==
  phase = "search" =>
    \A k \in 1..(next - 1) :
      /\ test[local_callees[k]] \in visited
      /\ Waits(test[local_callees[k]]) => stack # << >> /\ k = next - 1

\* What the search decides is what the test calls first.
Decided ==
  phase = "decide" /\ ~paused =>
    IF time_call = 0 THEN Candidates = {}
    ELSE time_call \in Candidates /\ \A m \in Candidates : time_call <= m

Search == Typed /\ TypeOK /\ Signals /\ FirstSignal /\ Stacked /\ LeftIsHopeless
Inv == Search /\ Cleared /\ Decided /\ FirstWaitIsReported

-----------------------------------------------------------------------------
(* Facts about calls. *)

\* A set that is closed under calls and has f has all that f may come to.
LEMMA ReachedInClosed ==
  ASSUME NEW f \in Local, NEW fns \in SUBSET Local, f \in fns, Closed(fns)
  PROVE  Reached(f) \subseteq fns
BY DEF Reached

\* A chain of calls stays in what its first function may come to.
LEMMA ReachedIsClosed ==
  ASSUME NEW f \in Local, NEW g \in Reached(f), NEW h \in Callees(g)
  PROVE  h \in Reached(f)
BY DEF Reached, Closed, Callees

LEMMA ReachesItself == ASSUME NEW f \in Local PROVE f \in Reached(f)
BY DEF Reached

\* Outside all bodies, the visited functions come to no time call.
VisitedIsHopeless ==
  phase = "search" /\ stack = << >> => \A f \in visited : Waits(f) => Direct(f)

LEMMA OutsideBodies == Search => VisitedIsHopeless
<1> SUFFICES ASSUME Search, phase = "search", stack = << >>, NEW f \in visited
             PROVE  Waits(f) => Direct(f)
  BY DEF VisitedIsHopeless
<1>1. visited \subseteq Local /\ f \in Local
  BY DEF Search, TypeOK
<1>2. \A g \in visited : Hopeless(g)
  BY DEF Search, LeftIsHopeless, OnStack
<1>3. \A g \in visited : bodies[g] # NoBody => bodies[g] \in Seq(Calls)
  BY <1>1 DEF Search, Typed
<1>4. Closed(visited)
  BY <1>2 DEF Closed, Callees, Hopeless, ToSet
<1>5. \A g \in visited : "time" \notin ToSet(bodies[g])
  BY <1>2 DEF Hopeless, ToSet, NoBody
<1>6. QED
  BY <1>1, <1>4, <1>5, ReachedInClosed DEF Waits

-----------------------------------------------------------------------------
LEMMA InitInv == Init => Inv
<1> SUFFICES ASSUME Init PROVE Inv
  OBVIOUS
<1> USE DEF Init
<1>1. Typed
  BY CratesAssumption DEF Typed
<1>2. TypeOK
  <2>1. Len(test) \in Nat
    BY <1>1 DEF Typed
  <2>2. stack \in Seq([fn: visited, at: Nat \ {0}]) /\ local_callees \in Seq(1..Len(test))
    OBVIOUS
  <2>3. DOMAIN stack = {} /\ DOMAIN local_callees = {} /\ Len(local_callees) = 0
    OBVIOUS
  <2>4. at \in 1..(Len(test) + 1) /\ time_call \in 0..Len(test) /\ instant_now \in 0..Len(test)
    BY <2>1
  <2>5. next \in 1..(Len(local_callees) + 1)
    BY <2>3
  <2>6. QED
    BY <2>2, <2>3, <2>4, <2>5 DEF TypeOK
<1>3. Signals /\ FirstSignal /\ Stacked /\ Cleared /\ LeftIsHopeless
  BY DEF Signals, FirstSignal, Stacked, Cleared, LeftIsHopeless
<1>4. Decided /\ FirstWaitIsReported
  BY DEF Decided, FirstWaitIsReported
<1>5. QED
  BY <1>1, <1>2, <1>3, <1>4 DEF Inv, Search

\* What depends only on the code does not change.
LEMMA FixedUnchanged ==
  ASSUME UNCHANGED fixed
  PROVE  /\ Typed' <=> Typed
         /\ Candidates' = Candidates
         /\ \A n : Direct(n)' <=> Direct(n)
         /\ \A n : Waits(n)' <=> Waits(n)
         /\ \A g : Callees(g)' = Callees(g) /\ Reached(g)' = Reached(g)
BY DEF fixed, Typed, Candidates, Direct, Waits, Callees, Reached, Closed

\* The walk of the test.
LEMMA VisitStep == ASSUME Search, visit_expr PROVE Search'
<1>1. test \in Seq(Calls) /\ at \in 1..Len(test) /\ Len(test) \in Nat
  BY DEF Search, Typed, TypeOK, visit_expr
<1>2. /\ phase = "visit" /\ phase' = "visit" /\ at' = at + 1
      /\ UNCHANGED <<kind, test, bodies, next, visited, stack, warned>>
  BY DEF visit_expr, fixed
<1>3. Typed' /\ LeftIsHopeless' /\ Stacked'
  BY <1>2 DEF Search, Typed, LeftIsHopeless, Stacked
<1>4. /\ time_call' = IF time_call = 0 /\ Direct(test[at]) THEN at ELSE time_call
      /\ paused' = (paused \/ test[at] = "paused")
      /\ instant_now' \in {instant_now, at}
  BY DEF visit_expr, Direct
<1>5. local_callees' = IF time_call = 0 /\ test[at] \in Local THEN Append(local_callees, at) ELSE local_callees
  BY DEF visit_expr
<1>6. local_callees \in Seq(1..Len(test)) /\ local_callees' \in Seq(1..Len(test))
  <2>1. local_callees \in Seq(1..Len(test))
    BY DEF Search, TypeOK
  <2>2. Append(local_callees, at) \in Seq(1..Len(test))
    BY <1>1, <2>1, AppendProperties
  <2>3. QED
    BY <1>5, <2>1, <2>2
<1>7. \/ UNCHANGED local_callees
      \/ /\ Len(local_callees') = Len(local_callees) + 1
         /\ local_callees'[Len(local_callees')] = at /\ test[at] \in Local /\ time_call = 0
         /\ \A k \in 1..Len(local_callees) : local_callees'[k] = local_callees[k]
  BY <1>5, <1>6
<1>8. TypeOK'
  <2>1. /\ \A n \in DOMAIN local_callees' : test[local_callees'[n]] \in Local
        /\ next \in 1..(Len(local_callees') + 1)
    <3>1. /\ \A n \in 1..Len(local_callees) : test[local_callees[n]] \in Local
          /\ next \in 1..(Len(local_callees) + 1)
      BY <1>6 DEF Search, TypeOK
    <3>2. /\ DOMAIN local_callees' = 1..Len(local_callees')
          /\ Len(local_callees) \in Nat /\ Len(local_callees') \in Nat
      BY <1>6
    <3>3. CASE local_callees' = local_callees
      BY <1>2, <3>1, <3>2, <3>3
    <3>4. CASE local_callees' # local_callees
      <4>1. Len(local_callees') = Len(local_callees) + 1
        BY <1>7, <3>4
      <4>2. ASSUME NEW n \in 1..Len(local_callees') PROVE test[local_callees'[n]] \in Local
        <5>1. n = Len(local_callees') \/ n \in 1..Len(local_callees)
          BY <3>2, <4>1
        <5>2. QED
          BY <1>7, <3>1, <3>4, <5>1
      <4>3. next \in 1..(Len(local_callees') + 1)
        BY <3>1, <3>2, <4>1
      <4>4. QED
        BY <3>2, <4>2, <4>3
    <3>5. QED
      BY <3>3, <3>4
  <2>2. /\ at' \in 1..(Len(test) + 1) /\ time_call' \in 0..Len(test)
        /\ instant_now' \in 0..Len(test) /\ paused' \in BOOLEAN
    BY <1>1, <1>2, <1>4 DEF Search, TypeOK
  <2>3. QED
    BY <1>2, <1>6, <2>1, <2>2 DEF Search, TypeOK
<1>9. Signals'
  <2>1. (\E n \in 1..(at' - 1) : test[n] = "paused") <=> (\E n \in 1..(at - 1) : test[n] = "paused") \/ test[at] = "paused"
    BY <1>1, <1>2
  <2>2. paused \in BOOLEAN /\ paused' \in BOOLEAN /\ (paused <=> \E n \in 1..(at - 1) : test[n] = "paused")
    BY <1>8 DEF Search, TypeOK, Signals
  <2>3. QED
    BY <1>2, <1>4, <2>1, <2>2 DEF Search, Signals
<1>10. FirstSignal'
  <2>1. \A call : Direct(call)' <=> Direct(call)
    BY DEF Direct
  <2>2. CASE time_call = 0
    <3>1. /\ \A n \in 1..(at - 1) : ~Direct(test[n])
          /\ \A n \in 1..(at - 1) : test[n] \in Local => \E k \in 1..Len(local_callees) : local_callees[k] = n
          /\ \A k \in 1..Len(local_callees) : local_callees[k] < at
          /\ \A j, k \in 1..Len(local_callees) : j < k => local_callees[j] < local_callees[k]
      BY <1>2, <1>6, <2>2 DEF Search, FirstSignal
    <3>2. CASE Direct(test[at])
      <4>1. time_call' = at /\ at # 0
        BY <1>1, <1>4, <2>2, <3>2
      <4>2. QED
        BY <1>1, <1>2, <2>1, <3>1, <3>2, <4>1 DEF FirstSignal
    <3>3. CASE ~Direct(test[at])
      <4>1. time_call' = 0
        BY <1>4, <2>2, <3>3
      <4>2. \A n \in 1..(at' - 1) : ~Direct(test[n])
        BY <1>1, <1>2, <3>1, <3>3
      <4>3. \A n \in 1..(at' - 1) : test[n] \in Local => \E k \in 1..Len(local_callees') : local_callees'[k] = n
        <5>1. ASSUME NEW n \in 1..(at' - 1), test[n] \in Local, n # at
              PROVE  \E k \in 1..Len(local_callees') : local_callees'[k] = n
          <6>1. n \in 1..(at - 1)
            BY <1>1, <1>2, <5>1
          <6>2. PICK k \in 1..Len(local_callees) : local_callees[k] = n
            BY <3>1, <5>1, <6>1
          <6>3. QED
            BY <1>6, <1>7, <6>2
        <5>2. test[at] \in Local => \E k \in 1..Len(local_callees') : local_callees'[k] = at
          BY <1>5, <1>6, <1>1, <2>2
        <5>3. QED
          BY <5>1, <5>2
      <4>4. \A k \in 1..Len(local_callees') : local_callees'[k] < at'
        BY SMTT(30), <1>1, <1>2, <1>6, <1>7, <3>1
      <4>5. \A j, k \in 1..Len(local_callees') : j < k => local_callees'[j] < local_callees'[k]
        <5> SUFFICES ASSUME NEW j \in 1..Len(local_callees'), NEW k \in 1..Len(local_callees'), j < k
                     PROVE  local_callees'[j] < local_callees'[k]
          OBVIOUS
        <5>1. Len(local_callees) \in Nat /\ j \in 1..Len(local_callees) /\ local_callees'[j] = local_callees[j]
          BY <1>6, <1>7
        <5>2. CASE k \in 1..Len(local_callees)
          BY <1>7, <3>1, <5>1, <5>2
        <5>3. CASE k \notin 1..Len(local_callees)
          BY <1>7, <3>1, <5>1, <5>3
        <5>4. QED
          BY <5>2, <5>3
      <4>6. QED
        <5>1. DOMAIN local_callees' = 1..Len(local_callees')
          BY <1>6
        <5>2. QED
          BY <1>2, <2>1, <4>1, <4>2, <4>3, <4>4, <4>5, <5>1 DEF FirstSignal
    <3>4. QED
      BY <3>2, <3>3
  <2>3. CASE time_call # 0
    <3>1. /\ time_call \in Nat /\ time_call < at /\ Direct(test[time_call])
          /\ \A n \in 1..(time_call - 1) : ~Direct(test[n])
      BY <1>2, <2>3 DEF Search, FirstSignal, TypeOK
    <3>2. QED
      BY <1>1, <1>2, <1>4, <2>1, <2>3, <3>1 DEF FirstSignal
  <2>4. QED
    BY <2>2, <2>3
<1>11. QED
  BY <1>3, <1>8, <1>9, <1>10 DEF Search

LEMMA VisitedStep == ASSUME Search, Visited PROVE Search'
<1>1. /\ phase = "visit" /\ kind = "test" /\ at > Len(test)
      /\ phase' = IF time_call = 0 /\ ~paused THEN "search" ELSE "decide"
      /\ UNCHANGED <<kind, test, bodies, at, time_call, instant_now, paused, local_callees, next, visited, stack, warned>>
  BY DEF Visited, fixed, signals
<1>2. Typed' /\ TypeOK'
  BY <1>1 DEF Search, Typed, TypeOK
<1>3. stack = << >>
  BY <1>1 DEF Search, Stacked
<1>4. at = Len(test) + 1
  <2>1. Len(test) \in Nat
    BY DEF Search, Typed
  <2>2. at \in 1..(Len(test) + 1)
    BY DEF Search, TypeOK
  <2>3. QED
    BY <1>1, <2>1, <2>2
<1>5. Signals'
  BY <1>1, <1>4 DEF Search, Signals
<1>6. FirstSignal'
  BY <1>1 DEF Search, FirstSignal, Direct
<1>7. IsStack(stack, visited)'
  BY <1>1, <1>3 DEF IsStack
<1>8. Stacked'
  BY <1>1, <1>3, <1>7 DEF Stacked
<1>9. visited' = {}
  BY <1>1 DEF Search, Signals
<1>10. QED
  BY <1>2, <1>5, <1>6, <1>8, <1>9 DEF Search, LeftIsHopeless

-----------------------------------------------------------------------------
(* The search. *)

LEMMA LastElement ==
  ASSUME NEW S, NEW seq \in Seq(S), seq # << >>
  PROVE  Len(seq) \in Nat \ {0} /\ Len(seq) \in 1..Len(seq) /\ seq[Len(seq)] \in S
OBVIOUS

\* The current frame of a search that is in a body.
LEMMA FrameFacts ==
  ASSUME Search, phase = "search", stack # << >>
  PROVE  /\ Len(stack) \in Nat \ {0} /\ Frame = stack[Len(stack)]
         /\ Frame.fn \in visited /\ Frame.fn \in Local /\ Frame.at \in Nat \ {0}
         /\ bodies[Frame.fn] \in Seq(Calls)
         /\ Len(bodies[Frame.fn]) \in Nat /\ Frame.at <= Len(bodies[Frame.fn]) + 1
<1>1. stack \in Seq([fn: visited, at: Nat \ {0}])
  BY DEF Search, Stacked, IsStack
<1>2. Len(stack) \in Nat \ {0} /\ Frame = stack[Len(stack)] /\ Frame \in [fn: visited, at: Nat \ {0}]
  BY <1>1, LastElement DEF Frame, Last
<1>3. Frame.fn \in visited /\ Frame.fn \in Local /\ Frame.at \in Nat \ {0}
  BY <1>2 DEF Search, TypeOK
<1>4. bodies[Frame.fn] # NoBody /\ Frame.at <= Len(bodies[Frame.fn]) + 1
  BY <1>2 DEF Search, Stacked, IsStack
<1>5. bodies[Frame.fn] \in Seq(Calls)
  BY <1>3, <1>4 DEF Search, Typed
<1>6. QED
  BY <1>2, <1>3, <1>4, <1>5

\* The caller goes on after a call it has looked at.
LEMMA ResumeFacts ==
  ASSUME Search, Walking, Call # "time", NEW v \in SUBSET Local, visited \subseteq v, Call \in Local => Call \in v
  PROVE  /\ IsStack(Resumed, v)
         /\ Len(Resumed) = Len(stack)
         /\ \A n \in 1..Len(stack) : Resumed[n].fn = stack[n].fn
<1>1. /\ phase = "search" /\ stack # << >> /\ Frame.at <= Len(bodies[Frame.fn])
      /\ Call = bodies[Frame.fn][Frame.at]
  BY DEF Walking, Call
<1>2. IsStack(stack, visited)
  BY <1>1 DEF Search, Stacked
<1> DEFINE top == [Frame EXCEPT !.at = @ + 1]
<1>3. Frame \in [fn: visited, at: Nat \ {0}] /\ Frame = stack[Len(stack)] /\ Len(stack) \in 1..Len(stack)
  BY <1>1, <1>2, LastElement DEF IsStack, Frame, Last
<1>4. top \in [fn: v, at: Nat \ {0}] /\ top.fn = Frame.fn /\ top.at = Frame.at + 1
  BY <1>3
<1>5. Resumed = [stack EXCEPT ![Len(stack)] = top]
  BY <1>3 DEF Resumed
<1> HIDE DEF top
<1>6. stack \in Seq([fn: v, at: Nat \ {0}])
  <2>1. [fn: visited, at: Nat \ {0}] \subseteq [fn: v, at: Nat \ {0}]
    OBVIOUS
  <2>2. QED
    BY <1>2, <2>1, SeqMonotonic DEF IsStack
<1>7. /\ Resumed \in Seq([fn: v, at: Nat \ {0}])
      /\ Len(Resumed) = Len(stack)
      /\ \A n \in 1..Len(stack) : Resumed[n] = IF n = Len(stack) THEN top ELSE stack[n]
  BY <1>3, <1>4, <1>5, <1>6, ExceptSeq
<1>8. \A n \in 1..Len(stack) : Resumed[n].fn = stack[n].fn
  BY <1>3, <1>4, <1>7
<1>9. ASSUME NEW n \in 1..Len(Resumed)
      PROVE  /\ bodies[Resumed[n].fn] # NoBody
             /\ \A m \in 1..Len(Resumed) : Resumed[m].fn = Resumed[n].fn => m = n
             /\ Resumed[n].fn \in Reached(Resumed[1].fn)
  <2>1. n \in 1..Len(stack) /\ 1 \in 1..Len(stack)
    BY <1>3, <1>7
  <2>2. QED
    BY <1>2, <1>7, <1>8, <2>1 DEF IsStack
<1>10. ASSUME NEW n \in 1..Len(Resumed)
       PROVE  /\ Resumed[n].at <= Len(bodies[Resumed[n].fn]) + 1
              /\ \A i \in 1..(Resumed[n].at - 1) :
                   /\ bodies[Resumed[n].fn][i] # "time"
                   /\ bodies[Resumed[n].fn][i] \in Local => bodies[Resumed[n].fn][i] \in v
  <2>1. CASE n # Len(stack)
    <3>1. n \in 1..Len(stack) /\ Resumed[n] = stack[n]
      BY <1>7, <2>1
    <3>2. QED
      BY <1>2, <3>1 DEF IsStack
  <2>2. CASE n = Len(stack)
    <3>1. Resumed[n].fn = Frame.fn /\ Resumed[n].at = Frame.at + 1
      BY <1>3, <1>4, <1>7, <2>2
    <3>2. \A i \in 1..(Frame.at - 1) :
            bodies[Frame.fn][i] # "time" /\ (bodies[Frame.fn][i] \in Local => bodies[Frame.fn][i] \in visited)
      BY <1>2, <1>3 DEF IsStack
    <3>3. Frame.at \in Nat \ {0} /\ Len(bodies[Frame.fn]) \in Nat
      BY <1>1, FrameFacts
    <3>4. QED
      BY <1>1, <3>1, <3>2, <3>3
  <2>3. QED
    BY <2>1, <2>2
<1>11. QED
  BY <1>7, <1>8, <1>9, <1>10 DEF IsStack

\* A function that is not on the stack is entered.
LEMMA PushFacts ==
  ASSUME Typed, NEW v \in SUBSET Local, NEW fn \in v, bodies[fn] # NoBody,
         NEW s, IsStack(s, v), \A n \in 1..Len(s) : s[n].fn # fn,
         s # << >> => fn \in Callees(s[Len(s)].fn)
  PROVE  IsStack(Append(s, [fn |-> fn, at |-> 1]), v)
<1> DEFINE frame == [fn |-> fn, at |-> 1]
           t == Append(s, frame)
<1>1. frame \in [fn: v, at: Nat \ {0}] /\ frame.fn = fn /\ frame.at = 1
  OBVIOUS
<1>2. s \in Seq([fn: v, at: Nat \ {0}]) /\ Len(s) \in Nat
  BY LenProperties DEF IsStack
<1> HIDE DEF frame
<1>3. /\ t \in Seq([fn: v, at: Nat \ {0}]) /\ Len(t) = Len(s) + 1
      /\ \A n \in 1..Len(s) : t[n] = s[n]
      /\ t[Len(s) + 1] = frame
  BY <1>1, <1>2, AppendProperties
<1> HIDE DEF t
<1>4. Len(bodies[fn]) \in Nat
  BY DEF Typed
<1>5. ASSUME NEW n \in 1..Len(t)
      PROVE  /\ bodies[t[n].fn] # NoBody
             /\ t[n].at <= Len(bodies[t[n].fn]) + 1
             /\ \A m \in 1..Len(t) : t[m].fn = t[n].fn => m = n
             /\ t[n].fn \in Reached(t[1].fn)
             /\ \A i \in 1..(t[n].at - 1) :
                  bodies[t[n].fn][i] # "time" /\ (bodies[t[n].fn][i] \in Local => bodies[t[n].fn][i] \in v)
  <2>1. CASE n = Len(s) + 1
    <3>1. t[n] = frame
      BY <1>3, <2>1
    <3>2. \A m \in 1..Len(t) : t[m].fn = fn => m = n
      BY <1>2, <1>3, <2>1
    <3>3. fn \in Reached(t[1].fn)
      <4>1. CASE s = << >>
        BY <1>1, <1>3, <4>1, ReachesItself
      <4>2. CASE s # << >>
        <5>1. 1 \in 1..Len(s) /\ Len(s) \in 1..Len(s)
          BY <1>2, <4>2
        <5>2. t[1] = s[1] /\ s[1].fn \in Local /\ s[Len(s)].fn \in Reached(s[1].fn)
          <6>1. s[1] \in [fn: v, at: Nat \ {0}]
            BY <1>2, <5>1, ElementOfSeq
          <6>2. QED
            BY <1>3, <5>1, <6>1 DEF IsStack
        <5>3. QED
          BY <4>2, <5>2, ReachedIsClosed
      <4>3. QED
        BY <4>1, <4>2
    <3>4. QED
      BY <1>1, <1>4, <3>1, <3>2, <3>3
  <2>2. CASE n # Len(s) + 1
    <3>1. n \in 1..Len(s) /\ t[n] = s[n] /\ t[1] = s[1]
      <4>1. n \in 1..Len(s) /\ 1 \in 1..Len(s)
        BY <1>2, <1>3, <2>2
      <4>2. QED
        BY <1>3, <4>1
    <3>2. ASSUME NEW m \in 1..Len(t), t[m].fn = t[n].fn PROVE m = n
      <4>1. m # Len(s) + 1
        BY <1>1, <1>3, <3>1, <3>2
      <4>2. m \in 1..Len(s) /\ t[m] = s[m]
        BY <1>2, <1>3, <4>1
      <4>3. QED
        BY <3>1, <3>2, <4>2 DEF IsStack
    <3>3. QED
      BY <3>1, <3>2 DEF IsStack
  <2>3. QED
    BY <2>1, <2>2
<1>6. QED
  BY <1>3, <1>5 DEF IsStack, t, frame

\* What is hopeless stays so while more is visited.
LEMMA EnterFacts ==
  ASSUME Search, phase = "search", phase' = "search", UNCHANGED fixed, NEW fn \in Local, NEW outer,
         IsStack(outer, visited \union {fn}), Len(outer) = Len(stack),
         \A n \in 1..Len(stack) : outer[n].fn = stack[n].fn,
         outer # << >> => fn \in Callees(outer[Len(outer)].fn),
         Enter(fn, outer)
  PROVE  /\ IsStack(stack, visited)' /\ LeftIsHopeless' /\ visited' \subseteq Local
         /\ \/ stack' = outer
            \/ stack' = Append(outer, [fn |-> fn, at |-> 1])
<1> DEFINE v == visited \union {fn}
<1>1. visited \subseteq Local /\ v \in SUBSET Local /\ visited' = v
  BY DEF Search, TypeOK, Enter
<1>2. \A g : Callees(g)' = Callees(g) /\ Reached(g)' = Reached(g)
  BY FixedUnchanged
<1>3. IsStack(stack', v)
  <2>1. CASE fn \in visited \/ bodies[fn] = NoBody
    BY <2>1 DEF Enter
  <2>2. CASE ~(fn \in visited \/ bodies[fn] = NoBody)
    <3>1. \A n \in 1..Len(outer) : outer[n].fn # fn
      <4>1. \A n \in 1..Len(stack) : stack[n].fn \in visited
        <5>1. stack \in Seq([fn: visited, at: Nat \ {0}])
          BY DEF Search, Stacked, IsStack
        <5>2. \A n \in 1..Len(stack) : stack[n] \in [fn: visited, at: Nat \ {0}]
          BY <5>1, ElementOfSeq
        <5>3. QED
          BY <5>2
      <4>2. QED
        BY <2>2, <4>1
    <3>2. stack' = Append(outer, [fn |-> fn, at |-> 1])
      BY <2>2 DEF Enter
    <3>3. QED
      BY <1>1, <2>2, <3>1, <3>2, PushFacts DEF Search
  <2>3. QED
    BY <2>1, <2>2
<1>4. IsStack(stack, visited)'
  BY <1>1, <1>2, <1>3 DEF IsStack, fixed
<1>5. LeftIsHopeless'
  <2> SUFFICES ASSUME NEW f \in v PROVE f \in OnStack' \/ Hopeless(f)'
    BY <1>1 DEF LeftIsHopeless
  <2>1. CASE f \in visited /\ f \in OnStack
    <3>1. PICK n \in 1..Len(stack) : f = stack[n].fn
      BY <2>1 DEF OnStack, Search, Stacked, IsStack
    <3>2. n \in 1..Len(outer) /\ outer[n].fn = f
      BY <3>1
    <3>3. n \in DOMAIN stack' /\ stack'[n].fn = f
      <4>1. outer \in Seq([fn: v, at: Nat \ {0}])
        BY DEF IsStack
      <4>2. CASE stack' = outer
        BY <3>2, <4>1, <4>2
      <4>3. CASE stack' = Append(outer, [fn |-> fn, at |-> 1])
        <5>1. [fn |-> fn, at |-> 1] \in [fn: v, at: Nat \ {0}]
          OBVIOUS
        <5>2. n \in 1..Len(stack') /\ stack'[n] = outer[n] /\ stack' \in Seq([fn: v, at: Nat \ {0}])
          BY <3>2, <4>1, <4>3, <5>1, AppendProperties, LenProperties
        <5>3. QED
          BY <3>2, <5>2, LenProperties
      <4>4. QED
        BY <4>2, <4>3 DEF Enter
    <3>4. QED
      BY <3>3 DEF OnStack
  <2>2. CASE f \in visited /\ Hopeless(f)
    BY <1>1, <2>2 DEF Hopeless, fixed
  <2>3. CASE f \notin visited /\ bodies[f] = NoBody
    BY <2>3 DEF Hopeless, fixed
  <2>4. CASE f \notin visited /\ bodies[f] # NoBody
    <3>1. f = fn /\ stack' = Append(outer, [fn |-> fn, at |-> 1])
      BY <2>4 DEF Enter
    <3>2. outer \in Seq([fn: v, at: Nat \ {0}]) /\ [fn |-> fn, at |-> 1] \in [fn: v, at: Nat \ {0}]
      BY DEF IsStack
    <3>3. stack'[Len(outer) + 1] = [fn |-> fn, at |-> 1] /\ Len(outer) + 1 \in DOMAIN stack'
      BY <3>1, <3>2, AppendProperties, LenProperties
    <3>4. QED
      BY <3>1, <3>3 DEF OnStack
  <2>5. QED
    BY <2>1, <2>2, <2>3, <2>4 DEF Search, LeftIsHopeless
<1>6. QED
  BY <1>1, <1>4, <1>5 DEF Enter

\* What is left to show of a step that stays in the search.
LEMMA SearchGoesOn ==
  ASSUME Search, phase = "search", phase' = "search", UNCHANGED <<fixed, signals, warned>>,
         next' \in 1..(Len(local_callees) + 1), visited' \subseteq Local,
         IsStack(stack, visited)', LeftIsHopeless',
         stack' # << >> => next' > 1 /\ stack'[1].fn = test[local_callees[next' - 1]]
  PROVE  Search'
<1>1. Typed' /\ Signals' /\ FirstSignal'
  BY DEF Search, Typed, Signals, FirstSignal, Direct, fixed, signals
<1>2. Stacked'
  BY DEF Stacked, fixed, signals
<1>3. stack' \in Seq([fn: visited', at: Nat \ {0}])
  BY DEF IsStack
<1>4. \A n \in DOMAIN stack' :
        /\ stack'[n].at <= Len(bodies'[stack'[n].fn]) + 1
        /\ \A m \in DOMAIN stack' : stack'[m].fn = stack'[n].fn => m = n
  <2>1. DOMAIN stack' = 1..Len(stack')
    BY <1>3
  <2>2. QED
    BY <2>1 DEF IsStack
<1>5. TypeOK'
  BY <1>3, <1>4 DEF Search, TypeOK, fixed, signals
<1>6. QED
  BY <1>1, <1>2, <1>5 DEF Search

LEMMA FollowStep == ASSUME Search, FollowCallee PROVE Search'
<1>1. /\ phase = "search" /\ stack = << >> /\ next <= Len(local_callees) /\ next' = next + 1
      /\ Enter(test[local_callees[next]], << >>) /\ UNCHANGED <<fixed, phase, signals, warned>>
  BY DEF FollowCallee
<1> DEFINE fn == test[local_callees[next]]
<1>2. next \in 1..Len(local_callees) /\ Len(local_callees) \in Nat /\ fn \in Local
  <2>1. local_callees \in Seq(1..Len(test)) /\ next \in 1..(Len(local_callees) + 1)
    BY DEF Search, TypeOK
  <2>2. next \in 1..Len(local_callees) /\ Len(local_callees) \in Nat
    BY <1>1, <2>1
  <2>3. QED
    BY <2>1, <2>2 DEF Search, TypeOK
<1>3. IsStack(<< >>, visited \union {fn})
  BY DEF IsStack
<1> HIDE DEF fn
<1>4. /\ IsStack(stack, visited)' /\ LeftIsHopeless' /\ visited' \subseteq Local
      /\ stack' = << >> \/ stack' = Append(<< >>, [fn |-> fn, at |-> 1])
  BY <1>1, <1>2, <1>3, EnterFacts DEF fn
<1>5. stack' # << >> => stack'[1].fn = fn
  BY <1>4
<1>6. next' \in 1..(Len(local_callees) + 1) /\ next' > 1 /\ next' - 1 = next
  BY <1>1, <1>2
<1>7. QED
  BY <1>1, <1>4, <1>5, <1>6, SearchGoesOn DEF fn

LEMMA CallLocalStep == ASSUME Search, CallLocal PROVE Search'
<1>1. /\ Walking /\ Call \in Local /\ phase = "search" /\ stack # << >>
      /\ Enter(Call, Resumed) /\ UNCHANGED <<fixed, phase, signals, next, warned>>
  BY DEF CallLocal, Walking
<1>2. Call # "time" /\ visited \union {Call} \in SUBSET Local
  BY <1>1, PathsAssumption DEF Outside, Search, TypeOK
<1>3. /\ IsStack(Resumed, visited \union {Call}) /\ Len(Resumed) = Len(stack)
      /\ \A n \in 1..Len(stack) : Resumed[n].fn = stack[n].fn
  BY <1>1, <1>2, ResumeFacts
<1>4. Len(stack) \in 1..Len(stack) /\ 1 \in 1..Len(stack) /\ Frame = stack[Len(stack)]
  BY <1>1, FrameFacts
<1>5. Call \in Callees(Frame.fn)
  <2>1. Call \in ToSet(bodies[Frame.fn])
    BY <1>1, FrameFacts DEF Walking, Call, ToSet
  <2>2. bodies[Frame.fn] # NoBody
    BY <1>1, <1>4 DEF Search, Stacked, IsStack
  <2>3. QED
    BY <1>1, <2>1, <2>2 DEF Callees
<1>6. /\ IsStack(stack, visited)' /\ LeftIsHopeless' /\ visited' \subseteq Local
      /\ stack' = Resumed \/ stack' = Append(Resumed, [fn |-> Call, at |-> 1])
  BY <1>1, <1>3, <1>4, <1>5, EnterFacts
<1>7. stack'[1].fn = stack[1].fn
  <2>1. Resumed \in Seq([fn: visited \union {Call}, at: Nat \ {0}]) /\ [fn |-> Call, at |-> 1] \in [fn: visited \union {Call}, at: Nat \ {0}]
    BY <1>3 DEF IsStack
  <2>2. stack'[1] = Resumed[1]
    BY <1>3, <1>4, <1>6, <2>1, AppendProperties
  <2>3. QED
    BY <1>3, <1>4, <2>2
<1>8. next \in 1..(Len(local_callees) + 1) /\ next > 1 /\ stack[1].fn = test[local_callees[next - 1]]
  BY <1>1 DEF Search, TypeOK, Stacked
<1>9. QED
  BY <1>1, <1>6, <1>7, <1>8, SearchGoesOn

LEMMA CallOtherStep == ASSUME Search, CallOther PROVE Search'
<1>1. /\ Walking /\ Call \notin Local /\ Call # "time" /\ phase = "search" /\ stack # << >>
      /\ stack' = Resumed /\ UNCHANGED <<fixed, phase, signals, next, visited, warned>>
  BY DEF CallOther, Walking
<1>2. visited \in SUBSET Local
  BY DEF Search, TypeOK
<1>3. /\ IsStack(Resumed, visited) /\ Len(Resumed) = Len(stack)
      /\ \A n \in 1..Len(stack) : Resumed[n].fn = stack[n].fn
  BY <1>1, <1>2, ResumeFacts
<1>4. IsStack(stack, visited)'
  <2>1. \A g : Callees(g)' = Callees(g) /\ Reached(g)' = Reached(g)
    BY <1>1, FixedUnchanged
  <2>2. QED
    BY <1>1, <1>3, <2>1 DEF IsStack, fixed
<1>5. OnStack' = OnStack
  <2>1. DOMAIN Resumed = 1..Len(stack) /\ DOMAIN stack = 1..Len(stack)
    BY <1>1, <1>3 DEF IsStack, Search, Stacked
  <2>2. QED
    BY <1>1, <1>3, <2>1 DEF OnStack
<1>6. LeftIsHopeless'
  BY <1>1, <1>5 DEF Search, LeftIsHopeless, Hopeless, fixed
<1>7. stack'[1].fn = stack[1].fn
  BY <1>1, <1>3, FrameFacts
<1>8. next \in 1..(Len(local_callees) + 1) /\ next > 1 /\ stack[1].fn = test[local_callees[next - 1]]
  BY <1>1 DEF Search, TypeOK, Stacked
<1>9. QED
  BY <1>1, <1>2, <1>4, <1>6, <1>7, <1>8, SearchGoesOn

LEMMA FrontFacts ==
  ASSUME NEW S, NEW seq \in Seq(S), seq # << >>
  PROVE  /\ Front(seq) \in Seq(S) /\ Len(Front(seq)) = Len(seq) - 1 /\ Len(seq) \in Nat \ {0}
         /\ \A n \in 1..(Len(seq) - 1) : Front(seq)[n] = seq[n]
<1>1. Len(seq) \in Nat \ {0} /\ \A n \in 1..(Len(seq) - 1) : seq[n] \in S
  BY LastElement, ElementOfSeq
<1>2. Len(seq) - 1 \in Int /\ 1 \in Int
  BY <1>1
<1>3. /\ SubSeq(seq, 1, Len(seq) - 1) \in Seq(S)
      /\ Len(SubSeq(seq, 1, Len(seq) - 1)) = IF 1 <= Len(seq) - 1 THEN Len(seq) - 1 - 1 + 1 ELSE 0
      /\ \A i \in 1..(Len(seq) - 1 - 1 + 1) : SubSeq(seq, 1, Len(seq) - 1)[i] = seq[1 + i - 1]
  BY <1>1, <1>2, SubSeqProperties
<1>4. Len(seq) - 1 - 1 + 1 = Len(seq) - 1 /\ \A i \in 1..(Len(seq) - 1) : 1 + i - 1 = i
  BY <1>1
<1>5. Len(SubSeq(seq, 1, Len(seq) - 1)) = Len(seq) - 1
  <2>1. \A k \in Nat \ {0} : (IF 1 <= k - 1 THEN k - 1 - 1 + 1 ELSE 0) = k - 1
    OBVIOUS
  <2>2. QED
    BY <1>1, <1>3, <2>1
<1>6. QED
  BY <1>1, <1>3, <1>4, <1>5 DEF Front

\* A body that has been walked to its end is hopeless.
LEMMA ReturnStep == ASSUME Search, Return PROVE Search'
<1>1. /\ phase = "search" /\ stack # << >> /\ Frame.at > Len(bodies[Frame.fn])
      /\ stack' = Front(stack) /\ UNCHANGED <<fixed, phase, signals, next, visited, warned>>
  BY DEF Return
<1>2. IsStack(stack, visited) /\ stack \in Seq([fn: visited, at: Nat \ {0}])
  BY <1>1 DEF Search, Stacked, IsStack
<1>3. /\ stack' \in Seq([fn: visited, at: Nat \ {0}]) /\ Len(stack') = Len(stack) - 1 /\ Len(stack) \in Nat \ {0}
      /\ \A n \in 1..Len(stack') : n \in 1..Len(stack) /\ stack'[n] = stack[n]
  <2>1. /\ stack' \in Seq([fn: visited, at: Nat \ {0}]) /\ Len(stack') = Len(stack) - 1 /\ Len(stack) \in Nat \ {0}
        /\ \A n \in 1..(Len(stack) - 1) : stack'[n] = stack[n]
    BY <1>1, <1>2, FrontFacts
  <2>2. \A n \in 1..(Len(stack) - 1) : n \in 1..Len(stack)
    BY <2>1
  <2>3. QED
    BY <2>1, <2>2
<1>4. \A g : Callees(g)' = Callees(g) /\ Reached(g)' = Reached(g)
  BY <1>1, FixedUnchanged
<1>5. IsStack(stack, visited)'
  <2>1. ASSUME NEW n \in 1..Len(stack') PROVE 1 \in 1..Len(stack')
    BY <1>3
  <2>2. ASSUME NEW n \in 1..Len(stack')
        PROVE  /\ bodies[stack'[n].fn] # NoBody
               /\ stack'[n].at <= Len(bodies[stack'[n].fn]) + 1
               /\ \A m \in 1..Len(stack') : stack'[m].fn = stack'[n].fn => m = n
               /\ stack'[n].fn \in Reached(stack'[1].fn)
               /\ \A i \in 1..(stack'[n].at - 1) :
                    /\ bodies[stack'[n].fn][i] # "time"
                    /\ bodies[stack'[n].fn][i] \in Local => bodies[stack'[n].fn][i] \in visited
    <3>1. n \in 1..Len(stack) /\ stack'[n] = stack[n]
      BY <1>3
    <3>2. stack'[1] = stack[1]
      BY <1>3, <2>1
    <3>3. \A m \in 1..Len(stack') : stack'[m].fn = stack[n].fn => m = n
      BY <1>2, <1>3, <3>1 DEF IsStack
    <3>4. QED
      BY <1>2, <3>1, <3>2, <3>3 DEF IsStack
  <2>3. QED
    BY <1>1, <1>3, <1>4, <2>2 DEF IsStack, fixed
<1>6. Hopeless(Frame.fn)
  <2>1. Frame.at - 1 = Len(bodies[Frame.fn]) /\ bodies[Frame.fn] \in Seq(Calls) /\ Len(stack) \in 1..Len(stack)
    BY <1>1, FrameFacts
  <2>2. \A i \in 1..(Frame.at - 1) :
          bodies[Frame.fn][i] # "time" /\ (bodies[Frame.fn][i] \in Local => bodies[Frame.fn][i] \in visited)
    BY <1>1, <1>2, <2>1, FrameFacts DEF IsStack
  <2>3. QED
    BY <2>1, <2>2 DEF Hopeless
<1>7. LeftIsHopeless'
  <2> SUFFICES ASSUME NEW f \in visited PROVE f \in OnStack' \/ Hopeless(f)'
    BY <1>1 DEF LeftIsHopeless
  <2>1. ASSUME NEW n \in 1..Len(stack), f = stack[n].fn, n # Len(stack) PROVE f \in OnStack'
    <3>1. n \in DOMAIN stack' /\ stack'[n] = stack[n]
      BY <1>3, <2>1
    <3>2. QED
      BY <2>1, <3>1 DEF OnStack
  <2>2. f \in OnStack => f \in OnStack' \/ f = Frame.fn
    BY SMTT(30), <1>1, <1>2, <2>1, FrameFacts DEF OnStack
  <2>3. QED
    BY <1>1, <1>6, <2>2 DEF Search, LeftIsHopeless, Hopeless, fixed
<1>8. stack' # << >> => stack'[1].fn = stack[1].fn
  <2>1. ASSUME stack' # << >> PROVE 1 \in 1..Len(stack')
    BY <1>3, <2>1
  <2>2. QED
    BY <1>3, <2>1
<1>9. next \in 1..(Len(local_callees) + 1) /\ next > 1 /\ stack[1].fn = test[local_callees[next - 1]]
  BY <1>1 DEF Search, TypeOK, Stacked
<1>10. visited \subseteq Local
  BY DEF Search, TypeOK
<1>11. QED
  BY <1>1, <1>5, <1>7, <1>8, <1>9, <1>10, SearchGoesOn

\* The actions that end the search, or the check.
LEMMA EndStep ==
  ASSUME Search, NotATest \/ CallTime \/ NothingFound \/ check_fn
  PROVE  Search'
<1>1. /\ phase \in {"visit", "search", "decide"} /\ phase' \in {"decide", "done"} /\ stack' = << >>
      /\ (phase' = "decide" => warned' = warned /\ phase = "search")
      /\ UNCHANGED <<fixed, at, instant_now, paused, local_callees, next, visited>>
  <2>1. phase # "search" => stack = << >>
    BY DEF Search, Stacked
  <2>2. CASE NotATest
    BY <2>1, <2>2 DEF NotATest, signals
  <2>3. CASE CallTime
    BY <2>3 DEF CallTime, Walking
  <2>4. CASE NothingFound
    BY <2>4 DEF NothingFound, signals
  <2>5. CASE check_fn
    BY <2>1, <2>5 DEF check_fn, signals
  <2>6. QED
    BY <2>2, <2>3, <2>4, <2>5
<1>2. time_call' \in 0..Len(test)
  <2>1. CASE CallTime
    <3>1. next \in 1..(Len(local_callees) + 1) /\ next > 1 /\ local_callees \in Seq(1..Len(test))
      BY <2>1 DEF CallTime, Walking, Search, Stacked, TypeOK
    <3>2. next - 1 \in 1..Len(local_callees)
      BY <3>1
    <3>3. local_callees[next - 1] \in 1..Len(test) /\ Len(test) \in Nat
      BY <3>1, <3>2, ElementOfSeq DEF Search, Typed
    <3>4. QED
      BY <2>1, <3>3 DEF CallTime
  <2>2. CASE time_call' = time_call
    BY <2>2, <1>1 DEF Search, TypeOK, fixed
  <2>3. QED
    BY <2>1, <2>2 DEF NotATest, NothingFound, check_fn, signals
<1>3. Typed' /\ FirstSignal' /\ Stacked' /\ LeftIsHopeless'
  BY <1>1 DEF Search, Typed, FirstSignal, Stacked, LeftIsHopeless, fixed
<1>4. TypeOK'
  <2>1. stack' \in Seq([fn: visited', at: Nat \ {0}]) /\ DOMAIN stack' = {}
    BY <1>1
  <2>2. QED
    BY <1>1, <1>2, <2>1 DEF Search, TypeOK, fixed
<1>5. Signals'
  BY <1>1 DEF Search, Signals, NotATest, CallTime, NothingFound, check_fn, fixed, Walking
<1>6. QED
  BY <1>3, <1>4, <1>5 DEF Search

-----------------------------------------------------------------------------
(* Theorems. *)

\* An action of the search, or a stuttering step, keeps Search.
LEMMA SearchStep == ASSUME Search, [Next]_vars PROVE Search'
<1>1. CASE visit_expr
  BY <1>1, VisitStep
<1>2. CASE Visited
  BY <1>2, VisitedStep
<1>3. CASE FollowCallee
  BY <1>3, FollowStep
<1>4. CASE CallLocal
  BY <1>4, CallLocalStep
<1>5. CASE CallOther
  BY <1>5, CallOtherStep
<1>6. CASE Return
  BY <1>6, ReturnStep
<1>7. CASE NotATest \/ CallTime \/ NothingFound \/ check_fn
  BY <1>7, EndStep
<1>8. CASE UNCHANGED vars
  <2>1. UNCHANGED fixed
    BY <1>8 DEF vars
  <2>2. IsStack(stack, visited)' <=> IsStack(stack, visited)
    BY <1>8, <2>1, FixedUnchanged DEF vars, fixed, IsStack
  <2>3. Typed' /\ FirstSignal' /\ Signals'
    BY <1>8 DEF vars, fixed, signals, Search, Typed, FirstSignal, Signals
  <2>4. TypeOK'
    BY <1>8 DEF vars, fixed, signals, Search, TypeOK
  <2>5. Stacked'
    BY <1>8, <2>2 DEF vars, fixed, signals, Search, Stacked
  <2>6. LeftIsHopeless'
    BY <1>8 DEF vars, fixed, Search, LeftIsHopeless, OnStack, Hopeless
  <2>7. QED
    BY <2>3, <2>4, <2>5, <2>6 DEF Search
<1>9. QED
  BY <1>1, <1>2, <1>3, <1>4, <1>5, <1>6, <1>7, <1>8 DEF Next, has_transitive_time_call

\* The one visited set of a test is sound: however its helpers call each other,
\* a function that the search has left comes to no time call that is lost.
THEOREM SearchNeverForgets == Spec => []SearchIsSound
<1>1. Init => Search
  BY InitInv DEF Inv
<1>2. Search => SearchIsSound
  BY DEF Search, SearchIsSound
<1>3. QED
  BY <1>1, <1>2, SearchStep, PTL DEF Spec

LEMMA Before == ASSUME NEW max \in Nat, NEW n \in 1..(max + 1), NEW k \in 1..(n - 1) PROVE k \in 1..max
OBVIOUS

\* A step within the search clears the calls followed before.
LEMMA ClearedStep ==
  ASSUME Search, Search', Cleared, phase = "search", phase' = "search", UNCHANGED <<fixed, signals>>,
         visited \subseteq visited',
         \/ stack # << >> /\ next' = next
         \/ stack = << >> /\ next' = next + 1 /\ test[local_callees[next]] \in visited'
  PROVE  Cleared'
<1>1. next \in Nat \ {0} /\ next' \in 1..(Len(local_callees) + 1) /\ local_callees \in Seq(1..Len(test))
  <2>1. next \in 1..(Len(local_callees) + 1) /\ next' \in 1..(Len(local_callees') + 1) /\ local_callees \in Seq(1..Len(test))
    BY DEF Search, TypeOK
  <2>2. QED
    BY <2>1 DEF signals
<1>2. \A n : Waits(n)' <=> Waits(n)
  BY FixedUnchanged
<1>3. SUFFICES ASSUME NEW k \in 1..(next' - 1)
               PROVE  /\ test[local_callees[k]] \in visited'
                      /\ Waits(test[local_callees[k]]) => stack' # << >> /\ k = next' - 1
  BY <1>2 DEF Cleared, fixed, signals
<1>4. k \in 1..(next - 1) \/ (stack = << >> /\ k = next /\ next' = next + 1)
  <2>1. CASE next' = next
    BY <2>1
  <2>2. CASE stack = << >> /\ next' = next + 1
    BY <1>1, <2>2
  <2>3. QED
    BY <2>1, <2>2
<1>5. test[local_callees[k]] \in visited'
  BY <1>4 DEF Cleared
<1>6. ~Direct(test[local_callees[k]])
  <2>1. k \in 1..Len(local_callees) /\ Len(local_callees) \in Nat
    <3>1. Len(local_callees) \in Nat
      BY <1>1, LenProperties
    <3>2. next' \in 1..(Len(local_callees) + 1) /\ k \in 1..(next' - 1)
      BY <1>1
    <3>3. QED
      BY <3>1, <3>2, Before
  <2>2. local_callees[k] \in 1..Len(test) /\ Len(test) \in Nat
    BY <1>1, <2>1, ElementOfSeq DEF Search, Typed
  <2>3. time_call = 0 /\ at = Len(test) + 1
    BY DEF Search, Signals
  <2>4. local_callees[k] \in 1..(at - 1)
    BY <2>2, <2>3
  <2>5. QED
    BY <2>3, <2>4 DEF Search, FirstSignal
<1>7. ASSUME Waits(test[local_callees[k]]) PROVE stack' # << >>
  <2>1. VisitedIsHopeless'
    BY OutsideBodies, PTL
  <2>2. QED
    BY <1>2, <1>5, <1>6, <1>7, <2>1, FixedUnchanged DEF VisitedIsHopeless
<1>8. ASSUME Waits(test[local_callees[k]]) PROVE k = next' - 1
  <2>1. CASE k \in 1..(next - 1)
    <3>1. stack # << >> /\ k = next - 1
      BY <1>8, <2>1 DEF Cleared
    <3>2. next' = next
      BY <3>1
    <3>3. QED
      BY <3>1, <3>2
  <2>2. CASE k = next /\ next' = next + 1
    BY <1>1, <2>2
  <2>3. QED
    BY <1>4, <2>1, <2>2
<1>9. QED
  BY <1>5, <1>7, <1>8

\* A search that has something to find looks for a call it has not followed to
\* the end.
LEMMA Waiting ==
  ASSUME Search, Cleared, phase = "search"
  PROVE  /\ Candidates = {n \in 1..Len(test) : Waits(test[n])}
         /\ \A m \in Candidates : \E k \in 1..Len(local_callees) :
              /\ local_callees[k] = m /\ ~(k \in 1..(next - 1) /\ stack = << >>)
              /\ k \in 1..(next - 1) => k = next - 1
<1>1. time_call = 0 /\ at = Len(test) + 1
  BY DEF Search, Signals
<1>2. test \in Seq(Calls) /\ local_callees \in Seq(1..Len(test))
  BY DEF Search, Typed, TypeOK
<1>3. Len(test) \in Nat /\ DOMAIN test = 1..Len(test) /\ DOMAIN local_callees = 1..Len(local_callees)
  BY <1>2, LenProperties
<1>4. /\ \A n \in 1..Len(test) : ~Direct(test[n])
      /\ \A n \in 1..Len(test) : test[n] \in Local => \E k \in 1..Len(local_callees) : local_callees[k] = n
  <2>1. (at - 1) = Len(test)
    BY <1>1, <1>3
  <2>2. QED
    BY <1>1, <1>3, <2>1 DEF Search, FirstSignal
<1>5. Candidates = {n \in 1..Len(test) : Waits(test[n])}
  BY <1>3, <1>4 DEF Candidates
<1>6. SUFFICES ASSUME NEW m \in Candidates
               PROVE  \E k \in 1..Len(local_callees) :
                        /\ local_callees[k] = m /\ ~(k \in 1..(next - 1) /\ stack = << >>)
                        /\ k \in 1..(next - 1) => k = next - 1
  BY <1>5
<1>7. m \in 1..Len(test) /\ Waits(test[m]) /\ test[m] \in Local
  BY <1>4, <1>5 DEF Waits
<1>8. PICK k \in 1..Len(local_callees) : local_callees[k] = m
  BY <1>4, <1>7
<1>9. k \in 1..(next - 1) => stack # << >> /\ k = next - 1
  BY <1>7, <1>8 DEF Cleared
<1>10. QED
  BY <1>8, <1>9

\* The call that is blamed is the first that waits: those before are cleared.
LEMMA CallTimeDecides == ASSUME Search, Cleared, CallTime PROVE Decided'
<1> DEFINE c == local_callees[next - 1]
<1>1. /\ phase = "search" /\ stack # << >> /\ Frame.at <= Len(bodies[Frame.fn])
      /\ bodies[Frame.fn][Frame.at] = "time" /\ time_call' = c /\ UNCHANGED <<fixed, local_callees, next>>
  BY DEF CallTime, Walking, Call
<1>2. next \in 1..(Len(local_callees) + 1) /\ next > 1 /\ local_callees \in Seq(1..Len(test)) /\ stack[1].fn = test[c]
  BY <1>1 DEF Search, Stacked, TypeOK
<1>3. next - 1 \in 1..Len(local_callees) /\ Len(local_callees) \in Nat /\ DOMAIN local_callees = 1..Len(local_callees)
  BY <1>2
<1>4. c \in 1..Len(test) /\ Len(test) \in Nat /\ test[c] \in Local
  <2>1. c \in 1..Len(test)
    BY <1>2, <1>3, ElementOfSeq
  <2>2. Len(test) \in Nat
    BY LenProperties DEF Search, Typed
  <2>3. test[c] \in Local
    BY <1>3 DEF Search, TypeOK
  <2>4. QED
    BY <2>1, <2>2, <2>3
<1>5. Waits(test[c])
  <2>1. Frame.fn \in Reached(stack[1].fn)
    <3>1. Len(stack) \in 1..Len(stack) /\ Frame = stack[Len(stack)]
      BY <1>1, FrameFacts
    <3>2. \A n \in 1..Len(stack) : stack[n].fn \in Reached(stack[1].fn)
      BY <1>1 DEF Search, Stacked, IsStack
    <3>3. QED
      BY <3>1, <3>2
  <2>2. "time" \in ToSet(bodies[Frame.fn])
    BY <1>1, FrameFacts DEF ToSet
  <2>3. QED
    BY <1>2, <1>4, <2>1, <2>2 DEF Waits
<1>6. c \in Candidates
  BY <1>1, <1>4, <1>5, Waiting
<1>7. ASSUME NEW m \in Candidates PROVE c <= m
  <2>1. PICK k \in 1..Len(local_callees) : local_callees[k] = m /\ (k \in 1..(next - 1) => k = next - 1)
    BY <1>1, Waiting
  <2>2. k = next - 1 \/ next - 1 < k
    BY <1>2, <1>3, <2>1
  <2>3. next - 1 < k => c < m
    BY <1>1, <1>3, <2>1 DEF Search, FirstSignal, Signals
  <2>4. m \in 1..Len(test)
    BY <1>1, Waiting
  <2>5. QED
    BY <1>4, <2>1, <2>2, <2>3, <2>4
<1>8. Candidates' = Candidates /\ c # 0
  BY <1>1, <1>4, FixedUnchanged
<1>9. QED
  BY <1>1, <1>6, <1>7, <1>8 DEF Decided

\* When all calls have been followed, none waits.
LEMMA NothingDecides == ASSUME Search, Cleared, NothingFound PROVE Decided'
<1>1. phase = "search" /\ stack = << >> /\ next > Len(local_callees) /\ UNCHANGED <<fixed, time_call>>
  BY DEF NothingFound, signals
<1>2. local_callees \in Seq(1..Len(test)) /\ next \in 1..(Len(local_callees) + 1)
  BY DEF Search, TypeOK
<1>3. 1..Len(local_callees) \subseteq 1..(next - 1)
  BY <1>1, <1>2
<1>4. Candidates = {}
  BY <1>1, <1>3, Waiting
<1>5. time_call = 0 /\ Candidates' = Candidates
  BY <1>1, FixedUnchanged DEF Search, Signals
<1>6. QED
  BY <1>1, <1>4, <1>5 DEF Decided

\* A time call of the test itself is decided on without a search.
LEMMA VisitedDecides == ASSUME Search, Visited PROVE Cleared' /\ Decided'
<1>1. /\ phase = "visit" /\ kind = "test" /\ phase' = (IF time_call = 0 /\ ~paused THEN "search" ELSE "decide")
      /\ UNCHANGED <<fixed, time_call, paused, next, stack, at>> /\ at > Len(test)
  BY DEF Visited, signals
<1>2. next = 1
  BY <1>1 DEF Search, Signals
<1>3. Cleared'
  BY <1>1, <1>2 DEF Cleared
<1>4. test \in Seq(Calls) /\ Len(test) \in Nat /\ DOMAIN test = 1..Len(test) /\ at \in 1..(Len(test) + 1) /\ time_call \in 0..Len(test)
  BY LenProperties DEF Search, Typed, TypeOK
<1>5. ASSUME phase' = "decide", ~paused
      PROVE  time_call \in Candidates /\ \A m \in Candidates : time_call <= m
  <2>1. time_call # 0
    BY <1>1, <1>5
  <2>2. Direct(test[time_call]) /\ \A n \in 1..(time_call - 1) : ~Direct(test[n])
    BY <1>1, <2>1 DEF Search, FirstSignal
  <2>3. time_call \in 1..Len(test)
    BY <1>4, <2>1
  <2>4. Candidates = {n \in DOMAIN test : Direct(test[n])}
    BY <1>4, <2>2, <2>3 DEF Candidates
  <2>5. \A n \in 1..Len(test) : n \in 1..(time_call - 1) \/ time_call <= n
    BY <2>3
  <2>6. QED
    BY <1>4, <2>2, <2>3, <2>4, <2>5
<1>6. Decided'
  <2>1. Candidates' = Candidates
    BY <1>1, FixedUnchanged
  <2>2. phase' = "decide" /\ ~paused => time_call # 0
    BY <1>1
  <2>3. QED
    BY <1>1, <1>5, <2>1, <2>2 DEF Decided
<1>7. QED
  BY <1>3, <1>6

\* The diagnostics say what has been decided.
LEMMA ReportStep == ASSUME Search, Decided, check_fn PROVE FirstWaitIsReported'
<1>1. /\ phase = "decide" /\ UNCHANGED fixed
      /\ warned' = (IF time_call # 0 /\ ~paused THEN {<<"wait", time_call>>} ELSE {})
                   \union (IF instant_now # 0 /\ paused THEN {<<"instant", instant_now>>} ELSE {})
  BY DEF check_fn
<1>2. test \in Seq(Calls) /\ Len(test) \in Nat /\ DOMAIN test = 1..Len(test) /\ at = Len(test) + 1 /\ kind = "test"
  BY <1>1, LenProperties DEF Search, Typed, Signals
<1>3. paused <=> "paused" \in ToSet(test)
  <2>1. at - 1 = Len(test)
    BY <1>2
  <2>2. paused <=> \E n \in 1..Len(test) : test[n] = "paused"
    BY <2>1 DEF Search, Signals
  <2>3. QED
    BY <1>2, <2>2 DEF ToSet
<1>4. \A n : <<"wait", n>> \in warned' <=> time_call # 0 /\ ~paused /\ n = time_call
  BY <1>1
<1>5. Candidates \subseteq 1..Len(test)
  BY <1>2 DEF Candidates
<1> DEFINE minimal == {n \in Candidates : \A m \in Candidates : n <= m}
<1>6. CASE paused
  BY <1>1, <1>3, <1>4, <1>6 DEF FirstWaitIsReported, fixed
<1>7. CASE ~paused /\ time_call = 0
  <2>1. Candidates = {}
    BY <1>1, <1>7 DEF Decided
  <2>2. Candidates' = {}
    BY <1>1, <2>1, FixedUnchanged
  <2>3. QED
    BY <1>1, <1>3, <1>4, <1>7, <2>2 DEF FirstWaitIsReported, fixed
<1>8. CASE ~paused /\ time_call # 0
  <2>1. time_call \in Candidates /\ \A m \in Candidates : time_call <= m
    BY <1>1, <1>8 DEF Decided
  <2>2. \A n \in Candidates : (\A m \in Candidates : n <= m) <=> n = time_call
    BY <1>2, <1>5, <2>1
  <2>3. {n \in DOMAIN test : <<"wait", n>> \in warned'} = minimal
    BY <1>2, <1>4, <1>5, <1>8, <2>1, <2>2
  <2>4. Candidates' = Candidates /\ test' = test
    BY <1>1, FixedUnchanged DEF fixed
  <2>5. QED
    BY <1>3, <1>8, <2>3, <2>4 DEF FirstWaitIsReported
<1>9. QED
  BY <1>6, <1>7, <1>8

LEMMA InvStep == ASSUME Inv, [Next]_vars PROVE Inv'
<1>1. Search /\ Cleared /\ Decided /\ FirstWaitIsReported
  BY DEF Inv
<1>2. Search'
  BY <1>1, SearchStep
<1>3. CASE NotATest \/ visit_expr
  BY <1>2, <1>3 DEF NotATest, visit_expr, fixed, Inv, Cleared, Decided, FirstWaitIsReported
<1>4. CASE Visited
  <2>1. FirstWaitIsReported'
    BY <1>4 DEF Visited, FirstWaitIsReported
  <2>2. QED
    BY <1>1, <1>2, <1>4, <2>1, VisitedDecides DEF Inv
<1>5. CASE CallTime
  BY <1>1, <1>2, <1>5, CallTimeDecides DEF Inv, CallTime, Cleared, FirstWaitIsReported
<1>6. CASE NothingFound
  BY <1>1, <1>2, <1>6, NothingDecides DEF Inv, NothingFound, Cleared, FirstWaitIsReported
<1>7. CASE check_fn
  BY <1>1, <1>2, <1>7, ReportStep DEF Inv, check_fn, Cleared, Decided
<1>8. CASE FollowCallee \/ CallLocal \/ CallOther \/ Return
  <2>1. phase = "search" /\ phase' = "search" /\ UNCHANGED <<fixed, signals>>
    BY <1>8 DEF FollowCallee, CallLocal, CallOther, Return, Walking
  <2>2. visited \subseteq visited'
    BY <1>8 DEF FollowCallee, CallLocal, CallOther, Return, Enter
  <2>3. \/ stack # << >> /\ next' = next
        \/ stack = << >> /\ next' = next + 1 /\ test[local_callees[next]] \in visited'
    BY <1>8 DEF FollowCallee, CallLocal, CallOther, Return, Walking, Enter
  <2>4. Cleared'
    BY <1>1, <1>2, <2>1, <2>2, <2>3, ClearedStep
  <2>5. QED
    BY <1>2, <2>1, <2>4 DEF Inv, Decided, FirstWaitIsReported
<1>9. CASE UNCHANGED vars
  <2>1. UNCHANGED fixed
    BY <1>9 DEF vars
  <2>2. Cleared'
    BY <1>1, <1>9, <2>1, FixedUnchanged DEF vars, fixed, signals, Cleared
  <2>3. Decided' /\ FirstWaitIsReported'
    BY <1>1, <1>9, <2>1, FixedUnchanged DEF vars, fixed, signals, Decided, FirstWaitIsReported
  <2>4. QED
    BY <1>2, <2>2, <2>3 DEF Inv
<1>10. QED
  BY <1>3, <1>4, <1>5, <1>6, <1>7, <1>8, <1>9 DEF Next, has_transitive_time_call

\* A test that does not pause the clock is reported at its first call that can
\* come to a time call, and not at all when none can.
THEOREM FirstWaitFound == Spec => []FirstWaitIsReported
<1>1. Inv => FirstWaitIsReported
  BY DEF Inv
<1>2. QED
  BY <1>1, InitInv, InvStep, PTL DEF Spec
=============================================================================
