--------------------------- MODULE LintPassesProofs ---------------------------
(***************************************************************************)
(* Proofs about the passes that judge one place of the code at a time:     *)
(* BodyWalks, for every body; BuilderLints, ErrorTypes and LogMacros, for  *)
(* every crate.  Each specification is one of its own: the sections share  *)
(* only the facts about numbers at the beginning.                          *)
(***************************************************************************)
EXTENDS BodyWalks, BuilderLints, ErrorTypes, LogMacros, FiniteSetTheorems, WellFoundedInduction, TLAPS

-----------------------------------------------------------------------------
(***************************************************************************)
(* Facts about numbers and bodies.                                         *)
(***************************************************************************)
\* A nonempty set of numbers has a least element.
LEMMA LeastNat ==
  ASSUME NEW S \in SUBSET Nat, S # {}
  PROVE  \E x \in S : \A y \in S : x <= y
<1> DEFINE R == {ss \in Nat \X Nat : ss[1] < ss[2]}
<1>1. IsWellFoundedOn(R, Nat)
  BY NatLessThanWellFounded DEF OpToRel
<1>2. \A x, y \in Nat : <<y, x>> \in R <=> y < x
  OBVIOUS
<1> HIDE DEF R
<1>3. PICK x \in S : \A y \in S : ~ (<<y, x>> \in R)
  BY <1>1, WFMin
<1>4. \A y \in S : ~ (y < x)
  BY <1>3, <1>2, Zenon
<1>5. \A y \in S : x <= y
  BY <1>4
<1>6. QED
  BY <1>5

\* A set with zero that contains the successor of each of its numbers.
LEMMA Induction ==
  ASSUME NEW n \in Nat, NEW S, 0 \in S, \A k \in 1..n : k - 1 \in S => k \in S
  PROVE  \A k \in 0..n : k \in S
<1> DEFINE Missing == {k \in Nat : k <= n /\ k \notin S}
<1> SUFFICES ASSUME Missing # {} PROVE FALSE
  OBVIOUS
<1>1. PICK k \in Missing : \A m \in Missing : k <= m
  <2>1. Missing \in SUBSET Nat
    OBVIOUS
  <2> HIDE DEF Missing
  <2>2. QED
    BY <2>1, LeastNat
<1>2. k \in 1..n
  BY <1>1
<1>3. k - 1 \in Nat /\ k - 1 \notin Missing /\ k - 1 <= n
  BY <1>1, <1>2
<1>4. k - 1 \in S
  BY <1>3
<1>5. k \in S
  BY <1>2, <1>4
<1>6. QED
  BY <1>1, <1>5

Places == {"unknown", "dedicated", "executor"}

\* The first position of a nonempty set of them.
LEMMA MinOfPositions ==
  ASSUME NEW n \in Nat, NEW S \in SUBSET (1..n), S # {}
  PROVE  Min(S) \in S /\ \A i \in S : Min(S) <= i
<1>1. \E x \in S : \A y \in S : x <= y
  BY LeastNat
<1>2. QED
  BY <1>1 DEF Min

LEMMA Further ==
  ASSUME NEW x \in Nat, NEW y \in Nat, x < y, x >= 1
  PROVE  x \in 1..(y - 1) /\ 1..(x - 1) \subseteq 1..(y - 1)
OBVIOUS

\* The body is that of a function of the families.
BodyInv == \E family \in Families : \E f \in family : owner = f.owner /\ body = f.body

\* What is known of a body.
LEMMA BodyFacts ==
  ASSUME BodyInv
  PROVE  /\ Len(body) \in Nat /\ DOMAIN body = 1..Len(body) /\ Beyond \in Nat
         /\ \A k \in 1..Len(body) :
              /\ IsCall(body[k]) /\ body[k].callee.named =>
                   path_final_segment(strip_generic_args(body[k].callee.path))
                     = path_final_segment(body[k].callee.path)
              /\ \E n \in Nat : DOMAIN body[k].frames = 1..n
              /\ body[k].frames = << >> => DOMAIN body[k].frames = {}
              /\ body[k].slot \in {"then", "else"} =>
                   /\ k > 1 /\ body[k - 1].kind = "if"
                   /\ body[k].kind \in {"other", "if"}
                   /\ find_panic_macro(body[k].frames) # "none" =>
                        /\ body[k - 1].frames = body[k].frames
                        /\ body[k - 1].slot \notin {"then", "else"}
<1>1. PICK family \in Families : \E f \in family : owner = f.owner /\ body = f.body
  BY DEF BodyInv
<1>2. PICK f \in family : owner = f.owner /\ body = f.body
  BY <1>1
<1>3. /\ body \in Seq(ToSet(body))
      /\ \A k \in DOMAIN body :
           LET e == body[k] IN
           /\ e.frames \in Seq(ToSet(e.frames))
           /\ IsCall(e) /\ e.callee.named =>
                path_final_segment(strip_generic_args(e.callee.path)) = path_final_segment(e.callee.path)
           /\ e.slot \in {"then", "else"} =>
                /\ k > 1 /\ body[k - 1].kind = "if"
                /\ e.kind \in {"other", "if"}
                /\ find_panic_macro(e.frames) # "none" =>
                     /\ body[k - 1].frames = e.frames
                     /\ body[k - 1].slot \notin {"then", "else"}
  BY <1>2, FamiliesAssumption, Zenon DEF FamiliesAssumption
<1>4. Len(body) \in Nat /\ DOMAIN body = 1..Len(body) /\ Beyond \in Nat
  BY <1>3 DEF Beyond
<1>5. \A k \in 1..Len(body) : \E n \in Nat : DOMAIN body[k].frames = 1..n
  BY <1>3, <1>4
<1>6. \A k \in 1..Len(body) : body[k].frames = << >> => DOMAIN body[k].frames = {}
  OBVIOUS
<1>7. QED
  BY <1>3, <1>4, <1>5, <1>6, Zenon

\* No frame at all is no panic macro.
LEMMA PanicHasFrames ==
  ASSUME NEW e, find_panic_macro(e.frames) # "none"
  PROVE  e.frames # << >>
<1> SUFFICES ASSUME e.frames = << >> PROVE find_panic_macro(e.frames) = "none"
  OBVIOUS
<1>1. {n \in DOMAIN e.frames : e.frames[n] \in PanicMacros} = {}
  OBVIOUS
<1>2. QED
  BY <1>1 DEF find_panic_macro


-----------------------------------------------------------------------------
(***************************************************************************)
(* Chains of guards.                                                       *)
(***************************************************************************)
LEMMA FirstIsSeen ==
  ASSUME NEW k \in Nat, Overlooked(k)
  PROVE  Unwinds(k)
<1>1. PICK i \in 1..k : (k - i) % 2 = 1 /\ \A m \in (i + 1)..k : Unwinds(m)
  BY DEF Overlooked
<1>2. k \in (i + 1)..k
  BY <1>1
<1>3. QED
  BY <1>1, <1>2

\* A chain begins somewhere.
LEMMA ChainBegins ==
  ASSUME NEW k \in Nat \ {0}
  PROVE  \E i \in 1..k : ~Unwinds(i) /\ \A m \in (i + 1)..k : Unwinds(m)
<1> DEFINE S == {d \in Nat : d < k /\ ~Unwinds(k - d)}
<1>1. ~Unwinds(1)
  BY DEF Unwinds
<1>2. k - 1 \in S
  <2>1. k - (k - 1) = 1
    OBVIOUS
  <2>2. QED
    BY <1>1, <2>1
<1>3. PICK d \in S : \A c \in S : d <= c
  <2>1. S \in SUBSET Nat /\ S # {}
    BY <1>2
  <2> HIDE DEF S
  <2>2. QED
    BY <2>1, LeastNat
<1>4. k - d \in 1..k /\ ~Unwinds(k - d)
  BY <1>3
<1>5. ASSUME NEW m \in ((k - d) + 1)..k PROVE Unwinds(m)
  <2>1. k - m \in Nat /\ k - m < d /\ k - m < k /\ k - (k - m) = m
    BY <1>3, <1>5
  <2>2. k - m \notin S
    BY <2>1, <1>3
  <2>3. QED
    BY <2>1, <2>2
<1>6. QED
  BY <1>4, <1>5

\* Along a chain every second is overlooked.
LEMMA Alternates ==
  ASSUME NEW k \in Nat \ {0}, Unwinds(k + 1)
  PROVE  Overlooked(k + 1) <=> ~Overlooked(k)
<1>1. PICK i \in 1..k : ~Unwinds(i) /\ \A m \in (i + 1)..k : Unwinds(m)
  BY ChainBegins
<1>2. \A m \in (i + 1)..(k + 1) : Unwinds(m)
  BY <1>1
<1>3. \A j \in 1..(k + 1) : ~Unwinds(j) /\ (\A m \in (j + 1)..k : Unwinds(m)) => j = i
  <2> TAKE j \in 1..(k + 1)
  <2> HAVE ~Unwinds(j) /\ (\A m \in (j + 1)..k : Unwinds(m))
  <2>1. ~ (j > i)
    BY <1>2
  <2>2. ~ (i > j)
    BY <1>1
  <2>3. QED
    BY <2>1, <2>2
<1>4. Overlooked(k) <=> (k - i) % 2 = 1
  <2>1. ASSUME Overlooked(k) PROVE (k - i) % 2 = 1
    <3>1. PICK j \in 1..k : ~Unwinds(j) /\ (k - j) % 2 = 1 /\ \A m \in (j + 1)..k : Unwinds(m)
      BY <2>1 DEF Overlooked
    <3>2. j = i
      BY <3>1, <1>3
    <3>3. QED
      BY <3>1, <3>2
  <2>2. ASSUME (k - i) % 2 = 1 PROVE Overlooked(k)
    BY <2>2, <1>1 DEF Overlooked
  <2>3. QED
    BY <2>1, <2>2
<1>5. Overlooked(k + 1) <=> ((k + 1) - i) % 2 = 1
  <2>1. ASSUME Overlooked(k + 1) PROVE ((k + 1) - i) % 2 = 1
    <3>1. PICK j \in 1..(k + 1) : /\ ~Unwinds(j) /\ ((k + 1) - j) % 2 = 1
                                  /\ \A m \in (j + 1)..(k + 1) : Unwinds(m)
      BY <2>1 DEF Overlooked
    <3>2. j = i
      BY <3>1, <1>3
    <3>3. QED
      BY <3>1, <3>2
  <2>2. ASSUME ((k + 1) - i) % 2 = 1 PROVE Overlooked(k + 1)
    <3>1. i \in 1..(k + 1)
      OBVIOUS
    <3>2. QED
      BY <2>2, <3>1, <1>1, <1>2 DEF Overlooked
  <2>3. QED
    BY <2>1, <2>2
<1>6. (k + 1) - i = (k - i) + 1 /\ k - i \in Nat
  OBVIOUS
<1>7. \A d \in Nat : (d + 1) % 2 = 1 <=> ~ (d % 2 = 1)
  OBVIOUS
<1>8. QED
  BY <1>4, <1>5, <1>6, <1>7

-----------------------------------------------------------------------------
(***************************************************************************)
(* Control: the passes one after the other.                                *)
(***************************************************************************)
ControlInv ==
  /\ BodyInv
  /\ pass \in {"panic_in_drop", "fallible_new", "check_expr"}
  /\ at \in 0..Beyond
  /\ pass = "check_expr" => at >= 1
  /\ findings \subseteq 1..(at - 1)
  /\ pass = "check_expr" => findings = {}
  /\ warned \in [Lints -> SUBSET (1..Len(body))]
  /\ pass # "check_expr" /\ at >= 1 => Checks(pass)
  /\ pass = "panic_in_drop" => \A lint \in Lints : warned[lint] = {}
  /\ pass = "fallible_new" => \A lint \in Lints \ {"panic_in_drop"} : warned[lint] = {}

LEMMA ControlIsTyped == ControlInv => TypeOK
BY DEF ControlInv, TypeOK

\* The function is fixed.
LEMMA Fixed ==
  ASSUME Next \/ UNCHANGED vars
  PROVE  UNCHANGED <<owner, body>>
BY DEF Next, check_impl_item, Item, DropPanicFinder, DropClosure, DropGuard, DropMacro, DropOther,
       PanicFinder, NewClosure, NewMacro, NewOther, Emit, check_expr, Leave, Visit, vars

LEMMA ControlInit ==
  ASSUME Init
  PROVE  ControlInv
<1>1. BodyInv
  BY DEF Init, BodyInv
<1>2. Len(body) \in Nat /\ Beyond \in Nat
  BY <1>1, BodyFacts
<1>3. QED
  BY <1>1, <1>2 DEF Init, ControlInv

\* A step of a visitor goes further down, and finds what it is at or nothing.
VisitorStep ==
  /\ pass \in {"panic_in_drop", "fallible_new"} /\ at \in 1..Len(body)
  /\ UNCHANGED <<owner, body, pass, warned>>
  /\ at' \in (at + 1)..Beyond
  /\ findings' \in {findings, findings \union {at}}

LEMMA VisitorsStep ==
  ASSUME ControlInv, Item \/ DropPanicFinder \/ PanicFinder
  PROVE  VisitorStep
<1>1. Len(body) \in Nat /\ Beyond = Len(body) + 1
  BY BodyFacts DEF ControlInv, Beyond
<1>2. CASE Item
  BY <1>1, <1>2 DEF Item, Leave, Visit, VisitorStep
<1>3. CASE DropClosure
  BY <1>1, <1>3 DEF DropClosure, Visiting, Leave, Visit, VisitorStep
<1>4. CASE DropGuard
  BY <1>1, <1>4 DEF DropGuard, Visiting, Leave, Visit, VisitorStep
<1>5. CASE DropMacro
  BY <1>1, <1>5 DEF DropMacro, Visiting, Leave, Visit, VisitorStep
<1>6. CASE DropOther
  BY <1>1, <1>6 DEF DropOther, Visiting, Leave, Visit, VisitorStep
<1>7. CASE NewClosure
  BY <1>1, <1>7 DEF NewClosure, Visiting, Leave, Visit, VisitorStep
<1>8. CASE NewMacro
  BY <1>1, <1>8 DEF NewMacro, Visiting, Leave, Visit, VisitorStep
<1>9. CASE NewOther
  BY <1>1, <1>9 DEF NewOther, Visiting, Leave, Visit, VisitorStep
<1>10. QED
  BY <1>2, <1>3, <1>4, <1>5, <1>6, <1>7, <1>8, <1>9 DEF DropPanicFinder, PanicFinder

\* Nothing that is decided from the function changes.
LEMMA FunctionStays ==
  ASSUME UNCHANGED <<owner, body>>
  PROVE  /\ BodyInv' <=> BodyInv
         /\ Beyond' = Beyond
         /\ \A lint : Checks(lint)' <=> Checks(lint)
<1>1. BodyInv' <=> BodyInv
  BY DEF BodyInv
<1>2. Beyond' = Beyond
  BY DEF Beyond
<1>3. \A lint : Checks(lint)' <=> Checks(lint)
  BY DEF Checks, is_drop_impl, returns_result
<1>4. QED
  BY <1>1, <1>2, <1>3

LEMMA ControlKept ==
  ASSUME ControlInv, Next \/ UNCHANGED vars
  PROVE  ControlInv'
<1>1. /\ UNCHANGED <<owner, body>> /\ BodyInv' /\ Beyond' = Beyond
      /\ \A lint : Checks(lint)' <=> Checks(lint)
  BY Fixed, FunctionStays DEF ControlInv
<1>2. Len(body) \in Nat /\ Beyond = Len(body) + 1
  BY BodyFacts DEF ControlInv, Beyond
<1>3. "panic_in_drop" \in Lints /\ "fallible_new" \in Lints
  BY DEF Lints
<1>4. CASE check_impl_item
  <2>1. /\ pass # "check_expr" /\ at = 0 /\ UNCHANGED <<findings, warned>>
        /\ \/ Checks(pass) /\ at' = 1 /\ pass' = pass
           \/ pass = "panic_in_drop" /\ pass' = "fallible_new" /\ at' = 0
           \/ pass = "fallible_new" /\ pass' = "check_expr" /\ at' = 1
    BY <1>4 DEF check_impl_item, After, ControlInv
  <2>2. findings = {}
    BY <2>1 DEF ControlInv
  <2>3. QED
    BY <1>1, <1>2, <2>1, <2>2 DEF ControlInv
<1>5. CASE Item \/ DropPanicFinder \/ PanicFinder
  <2>1. /\ pass \in {"panic_in_drop", "fallible_new"} /\ at \in 1..Len(body)
        /\ UNCHANGED <<pass, warned>> /\ at' \in (at + 1)..Beyond
        /\ findings' \in {findings, findings \union {at}}
    BY <1>5, VisitorsStep DEF VisitorStep
  <2>2. findings \subseteq 1..(at - 1)
    BY DEF ControlInv
  <2>3. findings' \subseteq 1..(at' - 1)
    <3>1. at \in Nat /\ at' \in Nat /\ at < at' /\ at >= 1
      BY <1>2, <2>1
    <3>2. at \in 1..(at' - 1) /\ 1..(at - 1) \subseteq 1..(at' - 1)
      BY <3>1, Further
    <3>3. QED
      BY <2>1, <2>2, <3>2, Zenon
  <2>4. at' \in 0..Beyond /\ pass # "check_expr" /\ at >= 1
    BY <1>2, <2>1
  <2>5. QED
    BY <1>1, <2>1, <2>3, <2>4 DEF ControlInv
<1>6. CASE Emit
  <2>1. /\ pass # "check_expr" /\ at = Beyond /\ findings' = {}
        /\ warned' = [warned EXCEPT ![pass] = findings]
        /\ \/ pass = "panic_in_drop" /\ pass' = "fallible_new" /\ at' = 0
           \/ pass = "fallible_new" /\ pass' = "check_expr" /\ at' = 1
    BY <1>6 DEF Emit, After, ControlInv
  <2>2. findings \subseteq 1..Len(body)
    BY <1>2, <2>1 DEF ControlInv
  <2>3. warned' \in [Lints -> SUBSET (1..Len(body))]
    BY <1>3, <2>1, <2>2 DEF ControlInv
  <2>4. \A lint \in Lints : lint # pass => warned'[lint] = warned[lint]
    BY <2>1 DEF ControlInv
  <2>5. pass' = "fallible_new" => \A lint \in Lints \ {"panic_in_drop"} : warned'[lint] = {}
    BY <2>1, <2>4 DEF ControlInv
  <2>6. QED
    BY <1>1, <1>2, <2>1, <2>3, <2>5 DEF ControlInv
<1>7. CASE check_expr
  <2>1. /\ pass = "check_expr" /\ at \in 1..Len(body) /\ at' = at + 1 /\ UNCHANGED <<pass, findings>>
    BY <1>7 DEF check_expr
  <2>2. /\ warned' = [lint \in Lints |-> warned'[lint]]
        /\ \A lint \in Lints : warned'[lint] \in {warned[lint], warned[lint] \union {at}}
    BY <1>7 DEF check_expr
  <2>3. warned' \in [Lints -> SUBSET (1..Len(body))]
    <3>1. \A lint \in Lints : warned'[lint] \in SUBSET (1..Len(body))
      BY <2>1, <2>2 DEF ControlInv
    <3>2. QED
      BY <2>2, <3>1
  <2>4. QED
    BY <1>1, <1>2, <2>1, <2>3 DEF ControlInv
<1>8. CASE UNCHANGED vars
  BY <1>1, <1>8 DEF vars, ControlInv
<1>9. QED
  BY <1>4, <1>5, <1>6, <1>7, <1>8 DEF Next

\* The variables keep their types, whatever the body and the configuration.
THEOREM TypesHold == Spec => []TypeOK
<1>1. Init => ControlInv
  BY ControlInit
<1>2. ControlInv /\ [Next]_vars => ControlInv'
  BY ControlKept
<1>3. QED
  BY <1>1, <1>2, ControlIsTyped, PTL DEF Spec


-----------------------------------------------------------------------------
(***************************************************************************)
(* The visitor of panic_in_drop.                                           *)
(***************************************************************************)
Aborts(k) == Panics(k) /\ RunsHere(k, iife_closure_body) /\ ~OnlyWhenSafe(k)

Branches == {"then", "else"}

\* Expression k is left alone: what is in it does not run while unwinding.
Passes(k) ==
  /\ body[k].kind # "item"
  /\ body[k].kind \in Closures => iife_closure_body(k)
  /\ IsGuard(body[k]) /\ ~Unwinds(k + 1) => Overlooked(k)

\* The visitor has come to expression p.
DropOpen(p) ==
  /\ \A j \in 1..(p - 1) : Passes(j)
  /\ ~Overlooked(p)
  /\ body[p].slot \in Branches => find_panic_macro(body[p].frames) = "none"

\* Of the expressions above p it has found those that abort, up to the first
\* macro.
DropFound(found, p) ==
  /\ \A k \in found : Aborts(k)
  /\ \A k \in 1..(p - 1) : Aborts(k) => k \in found \/ \E j \in found : j < k /\ body[j].frames # << >>

DropInv ==
  /\ pass = "panic_in_drop" /\ at >= 1 =>
       DropFound(findings, at) /\ (at <= Len(body) => DropOpen(at))
  /\ pass # "panic_in_drop" /\ Checks("panic_in_drop") =>
       DropFound(warned["panic_in_drop"], Beyond)

LEMMA SlotsOfGuards ==
  ASSUME NEW e, IsGuard(e)
  PROVE  e.kind = "if" /\ e.kind \notin Closures \union {"item"} /\ UnwindingBranch(e) \in Branches
BY DEF IsGuard, Closures, UnwindingBranch, Branches

\* Below what is not left alone nothing aborts.
LEMMA NothingBelow ==
  ASSUME NEW p \in Nat, ~Passes(p), ~Overlooked(p), NEW k \in Nat, p \in 1..(k - 1)
  PROVE  ~Aborts(k)
<1>1. CASE body[p].kind = "item"
  BY <1>1 DEF Aborts, RunsHere
<1>2. CASE body[p].kind \in Closures /\ ~iife_closure_body(p)
  BY <1>2 DEF Aborts, RunsHere
<1>3. CASE IsGuard(body[p]) /\ ~Unwinds(p + 1)
  BY <1>3 DEF Aborts, OnlyWhenSafe
<1>4. QED
  BY <1>1, <1>2, <1>3 DEF Passes

\* What the visitor has come to and panics aborts.
LEMMA OpenAborts ==
  ASSUME NEW p \in Nat, DropOpen(p), Panics(p)
  PROVE  Aborts(p)
BY DEF Aborts, DropOpen, Passes, RunsHere, OnlyWhenSafe

\* It goes on to the next expression.
LEMMA DropGoesOn ==
  ASSUME BodyInv, NEW p \in 1..Len(body), DropOpen(p), Passes(p), ~IsGuard(body[p]),
         p + 1 <= Len(body),
         body[p].kind \in Closures \/ find_panic_macro(body[p].frames) = "none"
  PROVE  DropOpen(p + 1)
<1>1. Len(body) \in Nat /\ p \in Nat \ {0} /\ p + 1 \in 1..Len(body) /\ (p + 1) - 1 = p
  BY BodyFacts
<1>2. \A j \in 1..p : Passes(j)
  <2>1. \A j \in 1..p : j = p \/ j \in 1..(p - 1)
    BY <1>1
  <2>2. QED
    BY <2>1 DEF DropOpen
<1>3. ~Unwinds(p + 1)
  BY <1>1 DEF Unwinds, Parent
<1>4. ~Overlooked(p + 1)
  BY <1>1, <1>3, FirstIsSeen
<1>5. ASSUME body[p + 1].slot \in Branches, find_panic_macro(body[p + 1].frames) # "none" PROVE FALSE
  <2>1. body[p].kind = "if" /\ body[p].frames = body[p + 1].frames
    BY <1>1, <1>5, BodyFacts DEF Branches
  <2>2. body[p].kind \notin Closures
    BY <2>1 DEF Closures
  <2>3. QED
    BY <2>1, <2>2, <1>5
<1>6. QED
  BY <1>1, <1>2, <1>4, <1>5 DEF DropOpen

\* Or into the branch of a guard that runs while unwinding.
LEMMA DropGoesIn ==
  ASSUME BodyInv, NEW p \in 1..Len(body), DropOpen(p), IsGuard(body[p]),
         p < Len(body), body[p + 1].slot = UnwindingBranch(body[p])
  PROVE  /\ p + 2 <= Len(body) => DropOpen(p + 2)
         /\ ~Panics(p) /\ ~Panics(p + 1)
<1>1. /\ Len(body) \in Nat /\ p \in Nat \ {0} /\ p + 1 \in 1..Len(body) /\ (p + 1) - 1 = p
      /\ p + 1 \in Nat \ {0} /\ (p + 1) + 1 = p + 2
  BY BodyFacts
<1>2. Unwinds(p + 1)
  BY <1>1 DEF Unwinds, Parent
<1>3. Overlooked(p + 1)
  BY <1>1, <1>2, Alternates DEF DropOpen
<1>4. body[p + 1].slot \in Branches /\ body[p + 1].kind \in {"other", "if"}
  BY <1>1, SlotsOfGuards, BodyFacts DEF Branches
<1>5. Passes(p)
  BY <1>2, SlotsOfGuards DEF Passes, Closures
<1>6. Passes(p + 1)
  BY <1>3, <1>4 DEF Passes, Closures
<1>7. ~Panics(p) /\ ~Panics(p + 1)
  BY <1>4 DEF Panics, Branches
<1>8. ASSUME p + 2 <= Len(body) PROVE DropOpen(p + 2)
  <2>1. p + 2 \in 1..Len(body) /\ (p + 2) - 1 = p + 1
    BY <1>1, <1>8
  <2>2. \A j \in 1..(p + 1) : Passes(j)
    <3>1. \A j \in 1..(p + 1) : j = p \/ j = p + 1 \/ j \in 1..(p - 1)
      BY <1>1
    <3>2. QED
      BY <3>1, <1>5, <1>6 DEF DropOpen
  <2>3. ~Overlooked(p + 2)
    <3>1. CASE Unwinds(p + 2)
      BY <1>1, <1>3, <3>1, Alternates
    <3>2. CASE ~Unwinds(p + 2)
      BY <2>1, <3>2, FirstIsSeen
    <3>3. QED
      BY <3>1, <3>2
  <2>4. ~ (body[p + 2].slot \in Branches /\ find_panic_macro(body[p + 2].frames) # "none")
    <3>1. SUFFICES ASSUME body[p + 2].slot \in Branches, find_panic_macro(body[p + 2].frames) # "none"
                   PROVE  FALSE
      OBVIOUS
    <3>2. body[p + 1].slot \notin Branches
      BY <2>1, <3>1, BodyFacts DEF Branches
    <3>3. QED
      BY <1>4, <3>2
  <2>5. QED
    BY <2>1, <2>2, <2>3, <2>4 DEF DropOpen
<1>9. QED
  BY <1>7, <1>8

\* What is found grows with the way.
LEMMA FoundGrows ==
  ASSUME NEW p \in Nat, NEW q \in Nat, NEW found, NEW new, DropFound(found, p),
         \A k \in new : Aborts(k),
         \A k \in p..(q - 1) :
           Aborts(k) => k \in new \/ \E j \in new : j < k /\ body[j].frames # << >>
  PROVE  DropFound(found \union new, q)
<1>1. \A k \in found \union new : Aborts(k)
  BY DEF DropFound
<1>2. ASSUME NEW k \in 1..(q - 1), Aborts(k)
      PROVE  k \in found \union new \/ \E j \in found \union new : j < k /\ body[j].frames # << >>
  <2>1. CASE k \in 1..(p - 1)
    BY <1>2, <2>1 DEF DropFound
  <2>2. CASE k \in p..(q - 1)
    BY <1>2, <2>2
  <2>3. QED
    BY <2>1, <2>2
<1>3. QED
  BY <1>1, <1>2 DEF DropFound


\* The function does not change, nor what is decided from it.
LEMMA BodyStays ==
  ASSUME UNCHANGED <<owner, body>>
  PROVE  /\ \A k : Unwinds(k)' <=> Unwinds(k)
         /\ \A k : Overlooked(k)' <=> Overlooked(k)
         /\ \A k : Passes(k)' <=> Passes(k)
         /\ \A k : Aborts(k)' <=> Aborts(k)
<1>1. \A k : Unwinds(k)' <=> Unwinds(k)
  BY DEF Unwinds, Parent
<1>2. \A k : Overlooked(k)' <=> Overlooked(k)
  BY <1>1 DEF Overlooked
<1>3. \A k : iife_closure_body(k)' <=> iife_closure_body(k)
  BY DEF iife_closure_body, Parent
<1>4. \A k : Passes(k)' <=> Passes(k)
  BY <1>1, <1>2, <1>3 DEF Passes
<1>5. \A k : Panics(k)' <=> Panics(k)
  BY DEF Panics
<1>6. \A k : RunsHere(k, iife_closure_body)' <=> RunsHere(k, iife_closure_body)
  BY <1>3 DEF RunsHere
<1>7. \A k : OnlyWhenSafe(k)' <=> OnlyWhenSafe(k)
  BY <1>1, <1>2 DEF OnlyWhenSafe
<1>8. \A k : Aborts(k)' <=> Aborts(k)
  BY <1>5, <1>6, <1>7 DEF Aborts
<1>9. QED
  BY <1>1, <1>2, <1>4, <1>8

LEMMA DropNext ==
  ASSUME UNCHANGED <<owner, body>>,
         pass' = "panic_in_drop" /\ at' >= 1 =>
           DropFound(findings', at') /\ (at' <= Len(body) => DropOpen(at')),
         pass' # "panic_in_drop" /\ Checks("panic_in_drop") =>
           DropFound(warned'["panic_in_drop"], Beyond)
  PROVE  DropInv'
<1>1. Beyond' = Beyond /\ (Checks("panic_in_drop")' <=> Checks("panic_in_drop"))
  BY FunctionStays
<1>2. /\ \A k : Overlooked(k)' <=> Overlooked(k)
      /\ \A k : Passes(k)' <=> Passes(k)
      /\ \A k : Aborts(k)' <=> Aborts(k)
  BY BodyStays
<1>3. DropFound(findings, at)' <=> DropFound(findings', at')
  BY <1>2 DEF DropFound
<1>4. DropOpen(at)' <=> DropOpen(at')
  BY <1>2 DEF DropOpen
<1>5. DropFound(warned["panic_in_drop"], Beyond)' <=> DropFound(warned'["panic_in_drop"], Beyond)
  BY <1>1, <1>2 DEF DropFound
<1>6. QED
  BY <1>1, <1>3, <1>4, <1>5 DEF DropInv

LEMMA DropVisit ==
  ASSUME ControlInv, DropInv, pass = "panic_in_drop", Item \/ DropPanicFinder
  PROVE  DropInv'
<1>1. /\ Len(body) \in Nat /\ Beyond = Len(body) + 1 /\ BodyInv
  BY BodyFacts DEF ControlInv, Beyond
<1>2. /\ at \in 1..Len(body) /\ UNCHANGED <<owner, body, pass, warned>>
  BY DEF Item, DropPanicFinder, DropClosure, DropGuard, DropMacro, DropOther, Visiting, Leave, Visit
<1>3. at \in Nat /\ at + 1 \in Nat /\ at + 2 \in Nat /\ Beyond \in Nat /\ at >= 1 /\ at <= Len(body)
  BY <1>1, <1>2
<1>4. DropFound(findings, at) /\ DropOpen(at) /\ ~Overlooked(at)
  BY <1>3 DEF DropInv, DropOpen
<1>5. SUFFICES DropFound(findings', at') /\ (at' <= Len(body) => DropOpen(at'))
  BY <1>2, DropNext
<1>6. ASSUME ~Passes(at), ~Panics(at), findings' = findings \union {}, at' = Beyond
      PROVE  DropFound(findings', at')
  <2>1. \A k \in at..(Beyond - 1) : ~Aborts(k)
    <3> TAKE k \in at..(Beyond - 1)
    <3>1. k \in Nat /\ (k = at \/ at \in 1..(k - 1))
      BY <1>1, <1>3
    <3>2. QED
      BY <3>1, <1>3, <1>4, <1>6, NothingBelow DEF Aborts
  <2>2. DropFound(findings \union {}, Beyond)
    BY <1>3, <1>4, <2>1, FoundGrows
  <2>3. QED
    BY <1>6, <2>2
<1>7. ~ (Beyond <= Len(body))
  BY <1>1
<1>8. CASE Item
  <2>1. body[at].kind = "item" /\ findings' = findings \union {} /\ at' = Beyond
    BY <1>8 DEF Item, Leave, Visit
  <2>2. ~Passes(at) /\ ~Panics(at)
    BY <2>1 DEF Passes, Panics
  <2>3. QED
    BY <2>1, <2>2, <1>6, <1>7
<1>9. CASE DropClosure
  <2>1. body[at].kind \in Closures /\ ~Panics(at) /\ ~IsGuard(body[at]) /\ body[at].kind # "item"
    BY <1>9 DEF DropClosure, Panics, IsGuard, Closures
  <2>2. CASE iife_closure_body(at)
    <3>1. findings' = findings \union {} /\ at' = at + 1
      BY <1>9, <2>2 DEF DropClosure, Visit
    <3>2. Passes(at)
      BY <2>1, <2>2 DEF Passes
    <3>3. \A k \in at..((at + 1) - 1) : ~Aborts(k)
      BY <1>3, <2>1 DEF Aborts
    <3>4. DropFound(findings \union {}, at + 1)
      BY <1>3, <1>4, <3>3, FoundGrows
    <3>5. at + 1 <= Len(body) => DropOpen(at + 1)
      BY <1>1, <1>2, <1>4, <2>1, <3>2, DropGoesOn
    <3>6. QED
      BY <3>1, <3>4, <3>5
  <2>3. CASE ~iife_closure_body(at)
    <3>1. findings' = findings \union {} /\ at' = Beyond
      BY <1>9, <2>3 DEF DropClosure, Leave, Visit
    <3>2. ~Passes(at)
      BY <2>1, <2>3 DEF Passes
    <3>3. QED
      BY <2>1, <3>1, <3>2, <1>6, <1>7
  <2>4. QED
    BY <2>2, <2>3
<1>10. CASE DropGuard
  <2>1. IsGuard(body[at]) /\ ~Panics(at)
    BY <1>10 DEF DropGuard, Panics
  <2>2. CASE at < Len(body) /\ body[at + 1].slot = UnwindingBranch(body[at])
    <3>1. findings' = findings \union {} /\ at' = at + 2
      BY <1>10, <2>2 DEF DropGuard, Visit
    <3>2. (at + 2 <= Len(body) => DropOpen(at + 2)) /\ ~Panics(at + 1)
      BY <1>1, <1>2, <1>4, <2>1, <2>2, DropGoesIn
    <3>3. \A k \in at..((at + 2) - 1) : ~Aborts(k)
      <4>1. \A k \in at..((at + 2) - 1) : k = at \/ k = at + 1
        BY <1>3
      <4>2. QED
        BY <4>1, <2>1, <3>2 DEF Aborts
    <3>4. DropFound(findings \union {}, at + 2)
      BY <1>3, <1>4, <3>3, FoundGrows
    <3>5. QED
      BY <3>1, <3>2, <3>4
  <2>3. CASE at < Len(body) /\ body[at + 1].slot # UnwindingBranch(body[at])
    <3>1. findings' = findings \union {} /\ at' = Beyond
      BY <1>10, <2>3 DEF DropGuard, Leave, Visit
    <3>2. ~Unwinds(at + 1)
      BY <1>3, <2>3 DEF Unwinds, Parent
    <3>3. ~Passes(at)
      BY <1>4, <2>1, <3>2 DEF Passes
    <3>4. QED
      BY <2>1, <3>1, <3>3, <1>6, <1>7
  <2>4. CASE ~ (at < Len(body))
    <3>1. findings' = findings \union {} /\ at' = Beyond
      BY <1>10, <2>4 DEF DropGuard, Leave, Visit
    <3>2. \A k \in at..(Beyond - 1) : k = at
      BY <1>1, <1>3, <2>4
    <3>3. DropFound(findings \union {}, Beyond)
      <4>1. \A k \in at..(Beyond - 1) : ~Aborts(k)
        BY <3>2, <2>1 DEF Aborts
      <4>2. QED
        BY <1>3, <1>4, <4>1, FoundGrows
    <3>4. QED
      BY <3>1, <3>3, <1>7
  <2>5. QED
    BY <2>2, <2>3, <2>4
<1>11. CASE DropMacro
  <2>1. /\ body[at].kind \notin Closures \union {"item"} /\ ~IsGuard(body[at])
        /\ find_panic_macro(body[at].frames) # "none"
        /\ findings' = findings \union {at} /\ at' = Beyond
    BY <1>11 DEF DropMacro, Leave, Visit
  <2>2. Panics(at)
    BY <2>1, <1>4 DEF Panics, DropOpen, Branches
  <2>3. Aborts(at)
    BY <1>3, <1>4, <2>2, OpenAborts
  <2>4. body[at].frames # << >>
    BY <2>1, PanicHasFrames
  <2>5. \A k \in at..(Beyond - 1) : k = at \/ at < k
    BY <1>3
  <2>6. DropFound(findings \union {at}, Beyond)
    <3>1. \A k \in at..(Beyond - 1) :
            Aborts(k) => k \in {at} \/ \E j \in {at} : j < k /\ body[j].frames # << >>
      BY <2>4, <2>5
    <3>2. \A k \in {at} : Aborts(k)
      BY <2>3
    <3>3. QED
      BY <1>3, <1>4, <3>1, <3>2, FoundGrows
  <2>7. QED
    BY <2>1, <2>6, <1>7
<1>12. CASE DropOther
  <2> DEFINE new == IF panicking_unwrap_or_expect(body[at]) THEN {at} ELSE {}
  <2>1. /\ body[at].kind \notin Closures \union {"item"} /\ ~IsGuard(body[at])
        /\ find_panic_macro(body[at].frames) = "none"
        /\ findings' = findings \union new /\ at' = at + 1
    BY <1>12 DEF DropOther, Visit
  <2>2. Panics(at) <=> panicking_unwrap_or_expect(body[at])
    <3>1. ASSUME panicking_unwrap_or_expect(body[at]), body[at].slot \in Branches PROVE FALSE
      <4>1. body[at].kind = "method"
        BY <3>1 DEF panicking_unwrap_or_expect
      <4>2. body[at].kind \in {"other", "if"}
        BY <1>1, <1>2, <3>1, BodyFacts DEF Branches
      <4>3. QED
        BY <4>1, <4>2
    <3>2. QED
      BY <2>1, <3>1 DEF Panics, Branches
  <2>3. Passes(at)
    BY <2>1 DEF Passes
  <2>4. \A k \in at..((at + 1) - 1) : k = at
    BY <1>3
  <2>5. DropFound(findings \union new, at + 1)
    <3>1. \A k \in new : Aborts(k)
      BY <1>3, <1>4, <2>2, OpenAborts
    <3>2. \A k \in at..((at + 1) - 1) : Aborts(k) => k \in new
      BY <2>2, <2>4 DEF Aborts
    <3> HIDE DEF new
    <3>3. QED
      BY <1>3, <1>4, <3>1, <3>2, FoundGrows
  <2>6. at + 1 <= Len(body) => DropOpen(at + 1)
    BY <1>1, <1>2, <1>4, <2>1, <2>3, DropGoesOn
  <2> HIDE DEF new
  <2>7. QED
    BY <2>1, <2>5, <2>6
<1>13. QED
  BY <1>8, <1>9, <1>10, <1>11, <1>12 DEF DropPanicFinder


\* The sets of global_side_effect that list the path of a call.
Listing(k) ==
  {n \in DOMAIN GlobalSideEffects :
     strip_generic_args(body[k].callee.path) \in Paths(GlobalSideEffects[n])}

\* The first of them reports it, or none does.
LEMMA FirstListing ==
  ASSUME NEW k
  PROVE  \/ global_side_effect(k) = {}
         \/ \E n \in Listing(k) : n \in DOMAIN GlobalSideEffects /\ global_side_effect(k) = {GlobalSideEffects[n]}
<1> DEFINE first == CHOOSE n \in Listing(k) : \A m \in Listing(k) : n <= m
<1>1. Listing(k) \in SUBSET Nat
  BY DEF Listing, GlobalSideEffects
<1>2. Listing(k) # {} => first \in Listing(k)
  <2> HAVE Listing(k) # {}
  <2>1. \E n \in Listing(k) : \A m \in Listing(k) : n <= m
    BY <1>1, LeastNat
  <2>2. QED
    BY <2>1
<1>3. \/ global_side_effect(k) = {}
      \/ Listing(k) # {} /\ global_side_effect(k) = {GlobalSideEffects[first]}
  BY DEF global_side_effect, Listing
<1>4. \A n \in Listing(k) : n \in DOMAIN GlobalSideEffects
  BY DEF Listing
<1> HIDE DEF first
<1>5. QED
  BY <1>2, <1>3, <1>4

LEMMA SideEffectsAreTheirs ==
  ASSUME NEW k, NEW lint \in global_side_effect(k)
  PROVE  lint \in ToSet(GlobalSideEffects)
BY FirstListing DEF ToSet

\* A diagnostic, once given, stays.
LEMMA VerdictsStay ==
  ASSUME ControlInv, NEW lint \in {"panic_in_drop", "fallible_new"}, Next \/ UNCHANGED vars
  PROVE  warned'[lint] = IF pass = lint /\ Emit THEN findings ELSE warned[lint]
<1>1. lint \in Lints /\ lint \notin PathLints
  BY DEF Lints, PathLints, ToSet, GlobalSideEffects
<1>2. warned \in [Lints -> SUBSET (1..Len(body))]
  BY DEF ControlInv
<1>3. CASE check_impl_item \/ UNCHANGED vars
  <2>1. warned' = warned
    BY <1>3 DEF check_impl_item, vars
  <2>2. CASE check_impl_item
    <3>1. at = 0 /\ Beyond \in Nat /\ Beyond # 0
      BY <2>2, BodyFacts DEF check_impl_item, ControlInv, Beyond
    <3>2. QED
      BY <2>1, <3>1 DEF Emit
  <2>3. CASE UNCHANGED vars
    <3>1. pass' = pass
      BY <2>3 DEF vars
    <3>2. ~Emit
      BY <3>1 DEF Emit, After, ControlInv
    <3>3. QED
      BY <2>1, <3>2
  <2>4. QED
    BY <1>3, <2>2, <2>3
<1>4. CASE Item \/ DropPanicFinder \/ PanicFinder
  <2>1. UNCHANGED <<pass, warned>> /\ at \in 1..Len(body)
    BY <1>4, VisitorsStep DEF VisitorStep
  <2>2. at # Beyond
    BY <2>1, BodyFacts DEF ControlInv, Beyond
  <2>3. QED
    BY <2>1, <2>2 DEF Emit
<1>5. CASE Emit
  BY <1>1, <1>2, <1>5 DEF Emit
<1>6. CASE check_expr
  <2>1. pass = "check_expr" /\ ~Emit
    BY <1>6 DEF check_expr, Emit
  <2>2. warned'[lint] = warned[lint]
    <3>1. lint # "blocking_in_async" /\ lint # "unbounded_channel" /\ lint \notin ToSet(GlobalSideEffects)
      BY DEF ToSet, GlobalSideEffects
    <3>2. ~Reports(lint, at)
      BY <3>1, SideEffectsAreTheirs DEF Reports
    <3>3. QED
      BY <1>1, <1>6, <3>2 DEF check_expr
  <2>3. QED
    BY <2>1, <2>2
<1>7. QED
  BY <1>3, <1>4, <1>5, <1>6 DEF Next

LEMMA DropInit ==
  ASSUME Init
  PROVE  DropInv
BY DEF Init, DropInv

LEMMA DropBegins ==
  ASSUME BodyInv
  PROVE  DropFound({}, 1) /\ (1 <= Len(body) => DropOpen(1))
<1>1. DropFound({}, 1)
  BY DEF DropFound
<1>2. ~Unwinds(1)
  BY DEF Unwinds
<1>3. ~Overlooked(1)
  BY <1>2, FirstIsSeen
<1>4. ASSUME 1 <= Len(body) PROVE body[1].slot \notin Branches
  <2>1. 1 \in 1..Len(body)
    BY <1>4, BodyFacts
  <2>2. QED
    BY <2>1, BodyFacts DEF Branches
<1>5. QED
  BY <1>1, <1>3, <1>4 DEF DropOpen

LEMMA DropKept ==
  ASSUME ControlInv, DropInv, Next \/ UNCHANGED vars
  PROVE  DropInv'
<1>1. UNCHANGED <<owner, body>> /\ BodyInv
  BY Fixed DEF ControlInv
<1>2. warned'["panic_in_drop"] = IF pass = "panic_in_drop" /\ Emit THEN findings ELSE warned["panic_in_drop"]
  BY VerdictsStay
<1>3. CASE check_impl_item
  <2>1. /\ pass # "check_expr" /\ at = 0 /\ UNCHANGED <<findings, warned>>
        /\ \/ Checks(pass) /\ at' = 1 /\ pass' = pass
           \/ ~Checks(pass) /\ pass' # "panic_in_drop"
    BY <1>3 DEF check_impl_item, After, ControlInv
  <2>2. findings = {}
    BY <2>1 DEF ControlInv
  <2>3. CASE pass = "panic_in_drop" /\ Checks(pass)
    BY <1>1, <2>1, <2>2, <2>3, DropBegins, DropNext
  <2>4. CASE pass = "panic_in_drop" /\ ~Checks(pass)
    BY <1>1, <2>1, <2>4, DropNext
  <2>5. CASE pass # "panic_in_drop"
    <3>1. pass' # "panic_in_drop"
      BY <2>1, <2>5
    <3>2. QED
      BY <1>1, <2>1, <2>5, <3>1, DropNext DEF DropInv
  <2>6. QED
    BY <2>3, <2>4, <2>5
<1>4. CASE Item \/ DropPanicFinder \/ PanicFinder
  <2>1. CASE pass = "panic_in_drop"
    <3>1. ~PanicFinder
      BY <2>1 DEF PanicFinder, NewClosure, NewMacro, NewOther, Visiting
    <3>2. QED
      BY <1>4, <2>1, <3>1, DropVisit
  <2>2. CASE pass # "panic_in_drop"
    <3>1. UNCHANGED <<pass, warned>>
      BY <1>4, VisitorsStep DEF VisitorStep
    <3>2. QED
      BY <1>1, <2>2, <3>1, DropNext DEF DropInv
  <2>3. QED
    BY <2>1, <2>2
<1>5. CASE Emit
  <2>1. pass # "check_expr" /\ at = Beyond /\ pass' # "panic_in_drop" /\ Beyond \in Nat /\ Beyond >= 1
    BY <1>1, <1>5, BodyFacts DEF Emit, After, Beyond
  <2>2. CASE pass = "panic_in_drop"
    <3>1. DropFound(findings, Beyond)
      BY <2>1, <2>2 DEF DropInv
    <3>2. QED
      BY <1>1, <1>2, <1>5, <2>1, <2>2, <3>1, DropNext
  <2>3. CASE pass # "panic_in_drop"
    BY <1>1, <1>2, <2>1, <2>3, DropNext DEF DropInv
  <2>4. QED
    BY <2>2, <2>3
<1>6. CASE check_expr
  <2>1. pass = "check_expr" /\ pass' = pass
    BY <1>6 DEF check_expr
  <2>2. QED
    BY <1>1, <1>2, <2>1, DropNext DEF DropInv
<1>7. CASE UNCHANGED vars
  <2>1. UNCHANGED <<pass, at, findings, warned>>
    BY <1>7 DEF vars
  <2>2. QED
    BY <1>1, <2>1, DropNext DEF DropInv
<1>8. QED
  BY <1>3, <1>4, <1>5, <1>6, <1>7 DEF Next

LEMMA DropExact == ControlInv /\ DropInv => DropFindsDoublePanics
<1> SUFFICES ASSUME ControlInv, DropInv, Done, Checks("panic_in_drop")
             PROVE  LET aborts == {k \in 1..Len(body) : Panics(k) /\ RunsHere(k, iife_closure_body) /\ ~OnlyWhenSafe(k)}
                    IN  /\ warned["panic_in_drop"] \subseteq aborts
                        /\ \A k \in aborts : k \in warned["panic_in_drop"]
                                             \/ \E j \in warned["panic_in_drop"] : j < k /\ body[j].frames # << >>
  BY DEF DropFindsDoublePanics
<1>1. DropFound(warned["panic_in_drop"], Beyond)
  BY DEF DropInv, Done
<1>2. "panic_in_drop" \in Lints
  BY DEF Lints
<1>3. warned["panic_in_drop"] \subseteq 1..Len(body)
  BY <1>2 DEF ControlInv
<1>4. 1..(Beyond - 1) = 1..Len(body)
  BY BodyFacts DEF ControlInv, Beyond
<1>5. QED
  BY <1>1, <1>3, <1>4 DEF DropFound, Aborts

\* What panic_in_drop reports of a drop is, in every body, what may panic while
\* the thread unwinds: nothing a guard keeps for the other case or a closure
\* keeps for later, and all else up to the expansion of a panic macro.
THEOREM DropPanicsFound == Spec => []DropFindsDoublePanics
<1>1. Init => ControlInv /\ DropInv
  BY ControlInit, DropInit
<1>2. ControlInv /\ DropInv /\ [Next]_vars => ControlInv' /\ DropInv'
  BY ControlKept, DropKept
<1>3. QED
  BY <1>1, <1>2, DropExact, PTL DEF Spec

-----------------------------------------------------------------------------
(***************************************************************************)
(* The visitor of fallible_new.                                            *)
(***************************************************************************)
\* What the property says of an expression that panics in a constructor.
PanicsInNew(k) ==
  /\ RunsHere(k, RunsInNew) /\ body[k].kind \notin Closures \union {"item"}
  /\ panicking_unwrap_or_expect(body[k])
     \/ /\ {"todo", "unimplemented"} \intersect ToSet(body[k].frames) = {}
        /\ \E n \in DOMAIN body[k].frames :
             /\ body[k].frames[n] \in {"panic", "unreachable"}
             /\ \A m \in 1..(n - 1) : body[k].frames[m] \notin PanicMacros

NewOpen(p) ==
  \A j \in 1..(p - 1) : body[j].kind # "item" /\ (body[j].kind \in Closures => RunsInNew(j))

NewFound(found, p) == found # {} <=> \E k \in 1..(p - 1) : PanicsInNew(k)

NewInv ==
  /\ pass = "fallible_new" /\ at >= 1 =>
       NewFound(findings, at) /\ (at <= Len(body) => NewOpen(at))
  /\ pass = "check_expr" /\ Checks("fallible_new") =>
       NewFound(warned["fallible_new"], Beyond)

\* The first panic macro of a chain of expansions decides, if there is no
\* placeholder in it.
LEMMA FirstMacroDecides ==
  ASSUME BodyInv, NEW p \in 1..Len(body)
  PROVE  find_panic_macro(body[p].frames) \in NewMacros <=>
           /\ {"todo", "unimplemented"} \intersect ToSet(body[p].frames) = {}
           /\ \E n \in DOMAIN body[p].frames :
                /\ body[p].frames[n] \in {"panic", "unreachable"}
                /\ \A m \in 1..(n - 1) : body[p].frames[m] \notin PanicMacros
<1> DEFINE frames == body[p].frames
           named == {n \in DOMAIN frames : frames[n] \in PanicMacros}
<1>1. PICK last \in Nat : DOMAIN frames = 1..last
  BY BodyFacts
<1>2. named \in SUBSET (1..last)
  BY <1>1
<1>3. find_panic_macro(frames) =
        IF named = {} \/ ToSet(frames) \intersect {"todo", "unimplemented"} # {}
        THEN "none" ELSE frames[Min(named)]
  BY DEF find_panic_macro
<1>4. "none" \notin NewMacros /\ NewMacros = {"panic", "unreachable"} /\ NewMacros \subseteq PanicMacros
  BY DEF NewMacros, PanicMacros
<1>5. ASSUME find_panic_macro(frames) \in NewMacros
      PROVE  /\ {"todo", "unimplemented"} \intersect ToSet(frames) = {}
             /\ \E n \in DOMAIN frames :
                  /\ frames[n] \in {"panic", "unreachable"}
                  /\ \A m \in 1..(n - 1) : frames[m] \notin PanicMacros
  <2> HIDE DEF frames
  <2>1. named # {} /\ ToSet(frames) \intersect {"todo", "unimplemented"} = {} /\ frames[Min(named)] \in NewMacros
    BY <1>3, <1>4, <1>5
  <2>2. Min(named) \in named /\ \A i \in named : Min(named) <= i
    <3> HIDE DEF named
    <3> QED
      BY <1>2, <2>1, MinOfPositions
  <2>3. Min(named) \in 1..last
    BY <1>1, <2>2
  <2>4. \A m \in 1..(Min(named) - 1) : frames[m] \notin PanicMacros
    <3> DEFINE x == Min(named)
    <3>1. x \in 1..last /\ \A i \in named : x <= i
      BY <2>2, <2>3
    <3> HIDE DEF x
    <3>2. \A m \in 1..(x - 1) : m \in 1..last /\ ~ (x <= m)
      BY <3>1
    <3>3. \A m \in 1..(x - 1) : frames[m] \notin PanicMacros
      BY <1>1, <3>1, <3>2
    <3>4. QED
      BY <3>3 DEF x
  <2>5. QED
    BY <1>1, <1>4, <2>1, <2>3, <2>4
<1>6. ASSUME {"todo", "unimplemented"} \intersect ToSet(frames) = {},
             NEW n \in DOMAIN frames, frames[n] \in {"panic", "unreachable"},
             \A m \in 1..(n - 1) : frames[m] \notin PanicMacros
      PROVE  find_panic_macro(frames) \in NewMacros
  <2> HIDE DEF frames
  <2>1. n \in named
    BY <1>4, <1>6
  <2>2. Min(named) \in named /\ \A i \in named : Min(named) <= i
    <3> HIDE DEF named
    <3> QED
      BY <1>2, <2>1, MinOfPositions
  <2>3. Min(named) = n
    <3> DEFINE x == Min(named)
    <3>1. x \in 1..last /\ frames[x] \in PanicMacros /\ x <= n
      BY <1>1, <2>1, <2>2
    <3> HIDE DEF x
    <3>2. x \notin 1..(n - 1)
      BY <1>6, <3>1
    <3>3. x = n
      BY <1>1, <3>1, <3>2
    <3>4. QED
      BY <3>3 DEF x
  <2>4. QED
    BY <1>3, <1>4, <1>6, <2>1, <2>3
<1>7. QED
  BY <1>5, <1>6


LEMMA NewBodyStays ==
  ASSUME UNCHANGED <<owner, body>>
  PROVE  /\ \A k : RunsInNew(k)' <=> RunsInNew(k)
         /\ \A k : PanicsInNew(k)' <=> PanicsInNew(k)
<1>1. \A k : RunsInNew(k)' <=> RunsInNew(k)
  BY DEF RunsInNew, iife_closure_body, is_option_or_result_adapter_arg, Parent
<1>2. \A k : RunsHere(k, RunsInNew)' <=> RunsHere(k, RunsInNew)
  BY <1>1 DEF RunsHere
<1>3. \A k : PanicsInNew(k)' <=> PanicsInNew(k)
  BY <1>2 DEF PanicsInNew
<1>4. QED
  BY <1>1, <1>3

LEMMA NewNext ==
  ASSUME UNCHANGED <<owner, body>>,
         pass' = "fallible_new" /\ at' >= 1 =>
           NewFound(findings', at') /\ (at' <= Len(body) => NewOpen(at')),
         pass' = "check_expr" /\ Checks("fallible_new") =>
           NewFound(warned'["fallible_new"], Beyond)
  PROVE  NewInv'
<1>1. Beyond' = Beyond /\ (Checks("fallible_new")' <=> Checks("fallible_new"))
  BY FunctionStays
<1>2. /\ \A k : RunsInNew(k)' <=> RunsInNew(k)
      /\ \A k : PanicsInNew(k)' <=> PanicsInNew(k)
  BY NewBodyStays
<1>3. NewFound(findings, at)' <=> NewFound(findings', at')
  BY <1>2 DEF NewFound
<1>4. NewOpen(at)' <=> NewOpen(at')
  BY <1>2 DEF NewOpen
<1>5. NewFound(warned["fallible_new"], Beyond)' <=> NewFound(warned'["fallible_new"], Beyond)
  BY <1>1, <1>2 DEF NewFound
<1>6. QED
  BY <1>1, <1>3, <1>4, <1>5 DEF NewInv

\* A step that finds something exactly if there is something from p to q.
LEMMA NewGrows ==
  ASSUME NEW p \in Nat \ {0}, NEW q \in Nat, p <= q, NEW found, NEW new, NewFound(found, p),
         new # {} <=> \E k \in p..(q - 1) : PanicsInNew(k)
  PROVE  NewFound(found \union new, q)
<1>1. \A k \in 1..(q - 1) : k \in 1..(p - 1) \/ k \in p..(q - 1)
  OBVIOUS
<1>2. \A k \in 1..(p - 1) : k \in 1..(q - 1)
  OBVIOUS
<1>3. \A k \in p..(q - 1) : k \in 1..(q - 1)
  OBVIOUS
<1>4. found \union new # {} <=> found # {} \/ new # {}
  OBVIOUS
<1>5. QED
  BY <1>1, <1>2, <1>3, <1>4 DEF NewFound

LEMMA NewVisit ==
  ASSUME ControlInv, NewInv, pass = "fallible_new", Item \/ PanicFinder
  PROVE  NewInv'
<1>1. /\ Len(body) \in Nat /\ Beyond = Len(body) + 1 /\ BodyInv
  BY BodyFacts DEF ControlInv, Beyond
<1>2. /\ at \in 1..Len(body) /\ UNCHANGED <<owner, body, pass, warned>>
  BY DEF Item, PanicFinder, NewClosure, NewMacro, NewOther, Visiting, Leave, Visit
<1>3. /\ at \in Nat \ {0} /\ at + 1 \in Nat /\ Beyond \in Nat /\ at >= 1 /\ at <= Len(body)
      /\ at <= Beyond /\ at <= at + 1
  BY <1>1, <1>2
<1>4. NewFound(findings, at) /\ NewOpen(at)
  BY <1>3 DEF NewInv
<1>5. SUFFICES NewFound(findings', at') /\ (at' <= Len(body) => NewOpen(at'))
  BY <1>2, NewNext
<1>6. ~ (Beyond <= Len(body))
  BY <1>1
<1>7. \A k \in at..(Beyond - 1) : k = at \/ (k \in Nat /\ at \in 1..(k - 1))
  BY <1>1, <1>3
<1>8. \A k \in at..((at + 1) - 1) : k = at
  BY <1>3
<1>9. at \in at..(Beyond - 1) /\ at \in at..((at + 1) - 1)
  BY <1>1, <1>3
<1>10. \A j \in 1..((at + 1) - 1) : j = at \/ j \in 1..(at - 1)
  BY <1>3
<1>11. ASSUME body[at].kind = "item" \/ (body[at].kind \in Closures /\ ~RunsInNew(at)),
              findings' = findings \union {}, at' = Beyond
       PROVE  NewFound(findings', at')
  <2>1. \A k \in at..(Beyond - 1) : ~PanicsInNew(k)
    BY <1>7, <1>11 DEF PanicsInNew, RunsHere
  <2>2. NewFound(findings \union {}, Beyond)
    BY <1>3, <1>4, <2>1, NewGrows
  <2>3. QED
    BY <1>11, <2>2
<1>12. PanicsInNew(at) <=>
         /\ body[at].kind \notin Closures \union {"item"}
         /\ panicking_unwrap_or_expect(body[at]) \/ find_panic_macro(body[at].frames) \in NewMacros
  <2>1. RunsHere(at, RunsInNew)
    BY <1>4 DEF RunsHere, NewOpen
  <2>2. QED
    BY <1>1, <1>2, <2>1, FirstMacroDecides, Zenon DEF PanicsInNew
<1>13. CASE Item
  <2>1. body[at].kind = "item" /\ findings' = findings \union {} /\ at' = Beyond
    BY <1>13 DEF Item, Leave, Visit
  <2>2. QED
    BY <2>1, <1>6, <1>11
<1>14. CASE NewClosure
  <2>1. body[at].kind \in Closures /\ body[at].kind # "item"
    BY <1>14 DEF NewClosure, Closures
  <2>2. CASE RunsInNew(at)
    <3>1. findings' = findings \union {} /\ at' = at + 1
      BY <1>14, <2>2 DEF NewClosure, Visit
    <3>2. \A k \in at..((at + 1) - 1) : ~PanicsInNew(k)
      BY <1>8, <2>1 DEF PanicsInNew
    <3>3. NewFound(findings \union {}, at + 1)
      BY <1>3, <1>4, <3>2, NewGrows
    <3>4. NewOpen(at + 1)
      BY <1>4, <1>10, <2>1, <2>2 DEF NewOpen
    <3>5. QED
      BY <3>1, <3>3, <3>4
  <2>3. CASE ~RunsInNew(at)
    <3>1. findings' = findings \union {} /\ at' = Beyond
      BY <1>14, <2>3 DEF NewClosure, Leave, Visit
    <3>2. QED
      BY <2>1, <2>3, <3>1, <1>6, <1>11
  <2>4. QED
    BY <2>2, <2>3
<1>15. CASE NewMacro
  <2>1. /\ body[at].kind \notin Closures \union {"item"}
        /\ find_panic_macro(body[at].frames) \in NewMacros
        /\ findings' = findings \union {at} /\ at' = Beyond
    BY <1>15 DEF NewMacro, Leave, Visit
  <2>2. PanicsInNew(at)
    BY <1>12, <2>1
  <2>3. NewFound(findings \union {at}, Beyond)
    <3>1. {at} # {} <=> \E k \in at..(Beyond - 1) : PanicsInNew(k)
      BY <1>9, <2>2
    <3>2. QED
      BY <1>3, <1>4, <3>1, NewGrows
  <2>4. QED
    BY <2>1, <2>3, <1>6
<1>16. CASE NewOther
  <2> DEFINE new == IF panicking_unwrap_or_expect(body[at]) THEN {at} ELSE {}
  <2>1. /\ body[at].kind \notin Closures \union {"item"}
        /\ find_panic_macro(body[at].frames) \notin NewMacros
        /\ findings' = findings \union new /\ at' = at + 1
    BY <1>16 DEF NewOther, Visit
  <2>2. PanicsInNew(at) <=> panicking_unwrap_or_expect(body[at])
    BY <1>12, <2>1
  <2>3. new # {} <=> PanicsInNew(at)
    BY <2>2
  <2> HIDE DEF new
  <2>4. new # {} <=> \E k \in at..((at + 1) - 1) : PanicsInNew(k)
    BY <1>8, <1>9, <2>3
  <2>5. NewFound(findings \union new, at + 1)
    BY <1>3, <1>4, <2>4, NewGrows
  <2>6. NewOpen(at + 1)
    BY <1>4, <1>10, <2>1 DEF NewOpen
  <2>7. QED
    BY <2>1, <2>5, <2>6
<1>17. QED
  BY <1>13, <1>14, <1>15, <1>16 DEF PanicFinder

LEMMA NewBegins == NewFound({}, 1) /\ NewOpen(1)
BY DEF NewFound, NewOpen

LEMMA NewInit ==
  ASSUME Init
  PROVE  NewInv
BY DEF Init, NewInv

LEMMA NewKept ==
  ASSUME ControlInv, NewInv, Next \/ UNCHANGED vars
  PROVE  NewInv'
<1>1. UNCHANGED <<owner, body>> /\ BodyInv
  BY Fixed DEF ControlInv
<1>2. warned'["fallible_new"] = IF pass = "fallible_new" /\ Emit THEN findings ELSE warned["fallible_new"]
  BY VerdictsStay
<1>3. CASE check_impl_item
  <2>1. /\ pass # "check_expr" /\ at = 0 /\ UNCHANGED <<findings, warned>>
        /\ \/ Checks(pass) /\ at' = 1 /\ pass' = pass
           \/ pass = "panic_in_drop" /\ pass' = "fallible_new" /\ at' = 0
           \/ ~Checks(pass) /\ pass = "fallible_new" /\ pass' = "check_expr"
    BY <1>3 DEF check_impl_item, After, ControlInv
  <2>2. findings = {}
    BY <2>1 DEF ControlInv
  <2>3. CASE Checks(pass) /\ at' = 1 /\ pass' = pass
    <3>1. NewFound(findings', at') /\ NewOpen(at')
      BY <2>1, <2>2, <2>3, NewBegins
    <3>2. QED
      BY <1>1, <2>1, <2>3, <3>1, NewNext
  <2>4. CASE pass = "panic_in_drop" /\ pass' = "fallible_new" /\ at' = 0
    <3>1. ~ (at' >= 1)
      BY <2>4
    <3>2. QED
      BY <1>1, <2>4, <3>1, NewNext
  <2>5. CASE ~Checks(pass) /\ pass = "fallible_new" /\ pass' = "check_expr"
    BY <1>1, <2>5, NewNext
  <2>6. QED
    BY <2>1, <2>3, <2>4, <2>5
<1>4. CASE Item \/ DropPanicFinder \/ PanicFinder
  <2>1. CASE pass = "fallible_new"
    <3>1. ~DropPanicFinder
      BY <2>1 DEF DropPanicFinder, DropClosure, DropGuard, DropMacro, DropOther, Visiting
    <3>2. QED
      BY <1>4, <2>1, <3>1, NewVisit
  <2>2. CASE pass # "fallible_new"
    <3>1. UNCHANGED <<pass, warned>>
      BY <1>4, VisitorsStep DEF VisitorStep
    <3>2. QED
      BY <1>1, <2>2, <3>1, NewNext DEF NewInv
  <2>3. QED
    BY <2>1, <2>2
<1>5. CASE Emit
  <2>1. /\ at = Beyond /\ Beyond \in Nat /\ Beyond >= 1
        /\ \/ pass = "panic_in_drop" /\ pass' = "fallible_new" /\ at' = 0
           \/ pass = "fallible_new" /\ pass' = "check_expr"
    BY <1>1, <1>5, BodyFacts DEF Emit, After, ControlInv, Beyond
  <2>2. CASE pass = "fallible_new" /\ pass' = "check_expr"
    <3>1. NewFound(findings, Beyond)
      BY <2>1, <2>2 DEF NewInv
    <3>2. QED
      BY <1>1, <1>2, <1>5, <2>2, <3>1, NewNext
  <2>3. CASE pass = "panic_in_drop" /\ pass' = "fallible_new" /\ at' = 0
    <3>1. ~ (at' >= 1)
      BY <2>3
    <3>2. QED
      BY <1>1, <2>3, <3>1, NewNext
  <2>4. QED
    BY <2>1, <2>2, <2>3
<1>6. CASE check_expr
  <2>1. pass = "check_expr" /\ pass' = pass
    BY <1>6 DEF check_expr
  <2>2. QED
    BY <1>1, <1>2, <2>1, NewNext DEF NewInv
<1>7. CASE UNCHANGED vars
  <2>1. UNCHANGED <<pass, at, findings, warned>>
    BY <1>7 DEF vars
  <2>2. QED
    BY <1>1, <2>1, NewNext DEF NewInv
<1>8. QED
  BY <1>3, <1>4, <1>5, <1>6, <1>7 DEF Next

LEMMA NewExact == ControlInv /\ NewInv => NewFindsPanics
<1> SUFFICES ASSUME ControlInv, NewInv, Done, Checks("fallible_new")
             PROVE  warned["fallible_new"] # {} <=> \E k \in 1..Len(body) : PanicsInNew(k)
  BY Zenon DEF NewFindsPanics, PanicsInNew
<1>1. NewFound(warned["fallible_new"], Beyond)
  BY DEF NewInv, Done
<1>2. 1..(Beyond - 1) = 1..Len(body)
  BY BodyFacts DEF ControlInv, Beyond
<1>3. QED
  BY <1>1, <1>2 DEF NewFound

\* fallible_new reports a constructor, whatever its body, exactly if something
\* in it panics while it runs.
THEOREM NewPanicsFound == Spec => []NewFindsPanics
<1>1. Init => ControlInv /\ NewInv
  BY ControlInit, NewInit
<1>2. ControlInv /\ NewInv /\ [Next]_vars => ControlInv' /\ NewInv'
  BY ControlKept, NewKept
<1>3. QED
  BY <1>1, <1>2, NewExact, PTL DEF Spec


-----------------------------------------------------------------------------
(***************************************************************************)
(* Where the code runs.                                                    *)
(***************************************************************************)
LEMMA InsideIsPlace ==
  ASSUME NEW k, NEW outside \in Places
  PROVE  Inside(k, outside) \in Places
BY DEF Inside, Places

\* RunsOn is the function its definition says it is.
LEMMA WhereItRuns ==
  ASSUME Len(body) \in Nat
  PROVE  /\ RunsOn[0] = "unknown"
         /\ \A k \in 1..Len(body) : RunsOn[k] = Inside(k, RunsOn[k - 1])
         /\ \A k \in 0..Len(body) : RunsOn[k] \in Places
<1> DEFINE N == Len(body)
           From(n) == {f \in [0..n -> Places] : /\ f[0] = "unknown"
                                                /\ \A k \in 1..n : f[k] = Inside(k, f[k - 1])}
           IsRunsOn(f) == f = [k \in 0..N |-> IF k = 0 THEN "unknown" ELSE Inside(k, f[k - 1])]
           S == {n \in Nat : From(n) # {}}
<1>1. 0 \in S
  <2>1. [k \in 0..0 |-> "unknown"] \in From(0)
    BY DEF Places
  <2>2. QED
    BY <2>1
<1>2. ASSUME NEW n \in 1..N, n - 1 \in S PROVE n \in S
  <2>1. PICK f : f \in From(n - 1)
    BY <1>2
  <2> DEFINE g == [k \in 0..n |-> IF k = n THEN Inside(n, f[n - 1]) ELSE f[k]]
  <2>2. n \in Nat /\ n - 1 \in Nat /\ n - 1 \in 0..(n - 1) /\ n # 0 /\ n - 1 # n
    BY <1>2
  <2>3. f[n - 1] \in Places
    BY <2>1, <2>2
  <2>4. Inside(n, f[n - 1]) \in Places
    BY <2>3, InsideIsPlace
  <2>5. \A k \in 0..n : k = n \/ k \in 0..(n - 1)
    BY <2>2
  <2>6. g \in [0..n -> Places]
    <3>1. \A k \in 0..n : g[k] \in Places
      BY <2>1, <2>4, <2>5
    <3>2. QED
      BY <3>1
  <2>7. g[0] = "unknown"
    BY <2>1, <2>2
  <2>8. ASSUME NEW k \in 1..n PROVE g[k] = Inside(k, g[k - 1])
    <3>1. k \in 0..n /\ k - 1 \in 0..n /\ k - 1 # n /\ k - 1 \in 0..(n - 1)
      BY <2>2
    <3>2. g[k - 1] = f[k - 1]
      BY <3>1
    <3>3. CASE k = n
      BY <3>1, <3>2, <3>3
    <3>4. CASE k # n
      <4>1. k \in 1..(n - 1)
        BY <2>2, <3>4
      <4>2. f[k] = Inside(k, f[k - 1])
        BY <2>1, <4>1
      <4>3. g[k] = f[k]
        BY <3>1, <3>4
      <4>4. QED
        BY <3>2, <4>2, <4>3
    <3>5. QED
      BY <3>3, <3>4
  <2>9. g \in From(n)
    <3> HIDE DEF g
    <3> QED
      BY <2>6, <2>7, <2>8
  <2>10. QED
    BY <2>2, <2>9
<1>3. N \in S
  <2>1. \A k \in 0..N : k \in S
    <3> HIDE DEF S
    <3> QED
      BY <1>1, <1>2, Induction
  <2>2. QED
    BY <2>1
<1>4. PICK f : f \in From(N)
  BY <1>3
<1>5. IsRunsOn(f)
  <2>1. \A k \in 0..N : k = 0 \/ k \in 1..N
    OBVIOUS
  <2>2. \A k \in 0..N : f[k] = IF k = 0 THEN "unknown" ELSE Inside(k, f[k - 1])
    BY <1>4, <2>1
  <2>3. f = [k \in 0..N |-> f[k]]
    BY <1>4
  <2>4. QED
    BY <2>2, <2>3
<1>6. RunsOn = CHOOSE g : IsRunsOn(g)
  BY DEF RunsOn
<1>7. IsRunsOn(RunsOn)
  <2> HIDE DEF IsRunsOn
  <2> QED
    BY <1>5, <1>6
<1>8. \A k \in 0..N : RunsOn[k] = IF k = 0 THEN "unknown" ELSE Inside(k, RunsOn[k - 1])
  BY <1>7
<1>9. \A k \in 1..N : k # 0 /\ k \in 0..N /\ k - 1 \in 0..N
  OBVIOUS
<1>10. RunsOn[0] = "unknown"
  BY <1>8
<1>11. \A k \in 1..N : RunsOn[k] = Inside(k, RunsOn[k - 1])
  BY <1>8, <1>9
<1>12. \A k \in 0..N : RunsOn[k] \in Places
  <2> DEFINE T == {k \in Nat : RunsOn[k] \in Places}
  <2>1. 0 \in T
    BY <1>10 DEF Places
  <2>2. \A k \in 1..N : k - 1 \in T => k \in T
    BY <1>11, InsideIsPlace
  <2>3. \A k \in 0..N : k \in T
    <3> HIDE DEF T
    <3> QED
      BY <2>1, <2>2, Induction
  <2>4. QED
    BY <2>3
<1>13. QED
  BY <1>10, <1>11, <1>12

\* The filter by name lets every configured path pass.
LEMMA MatchIsListed ==
  ASSUME BodyInv, NEW k \in 1..Len(body), NEW paths
  PROVE  /\ IsCall(body[k]) /\ strip_generic_args(body[k].callee.path) \in paths => may_match(paths, body[k].callee)
         /\ match_call_path(body[k], paths) <=>
              IsCall(body[k]) /\ strip_generic_args(body[k].callee.path) \in paths
<1>1. IsCall(body[k]) /\ strip_generic_args(body[k].callee.path) \in paths => may_match(paths, body[k].callee)
  BY BodyFacts DEF may_match
<1>2. QED
  BY <1>1 DEF match_call_path

\* What encloses an expression is what encloses its parent, and the parent.
LEMMA EnclosingGrows ==
  ASSUME NEW k \in Nat \ {0}
  PROVE  Enclosing(k + 1) = IF body[k].kind = "item" THEN {}
                            ELSE IF body[k].kind \in Closures THEN Enclosing(k) \union {k}
                            ELSE Enclosing(k)
<1>1. \A j : j \in Enclosing(k + 1) <=>
               /\ j \in 1..k /\ body[j].kind \in Closures
               /\ \A i \in (j + 1)..k : body[i].kind # "item"
  BY DEF Enclosing
<1>2. \A j : j \in Enclosing(k) <=>
               /\ j \in 1..(k - 1) /\ body[j].kind \in Closures
               /\ \A i \in (j + 1)..(k - 1) : body[i].kind # "item"
  BY DEF Enclosing
<1>3. "item" \notin Closures
  BY DEF Closures
<1>4. ASSUME NEW j \in 1..(k - 1)
      PROVE  (\A i \in (j + 1)..k : body[i].kind # "item") <=>
               body[k].kind # "item" /\ \A i \in (j + 1)..(k - 1) : body[i].kind # "item"
  <2>1. k \in (j + 1)..k
    BY <1>4
  <2>2. \A i \in (j + 1)..k : i = k \/ i \in (j + 1)..(k - 1)
    BY <1>4
  <2>3. \A i \in (j + 1)..(k - 1) : i \in (j + 1)..k
    BY <1>4
  <2>4. QED
    BY <2>1, <2>2, <2>3
<1>5. \A j : j \in 1..k <=> j = k \/ j \in 1..(k - 1)
  OBVIOUS
<1>6. (k + 1)..k = {} /\ k \notin 1..(k - 1)
  OBVIOUS
<1>7. \A j : j \in Enclosing(k + 1) <=>
         \/ j = k /\ body[k].kind \in Closures
         \/ body[k].kind # "item" /\ j \in Enclosing(k)
  <2> TAKE j
  <2>1. CASE j = k
    BY <1>1, <1>2, <1>5, <1>6, <2>1
  <2>2. CASE j # k
    BY <1>1, <1>2, <1>4, <1>5, <2>2
  <2>3. QED
    BY <2>1, <2>2
<1>8. QED
  BY <1>3, <1>7

\* The two walks outwards agree with the evaluation from the outside in.
Agree(k) ==
  /\ RunsOn[k] = "dedicated" <=> is_inside_spawn_blocking(k + 1)
  /\ RunsOn[k] = "executor" <=> is_in_async_context(k + 1) /\ ~is_inside_spawn_blocking(k + 1)

LEMMA AgreeStep ==
  ASSUME BodyInv, NEW k \in 1..Len(body), Agree(k - 1)
  PROVE  Agree(k)
<1>1. /\ Len(body) \in Nat /\ k \in Nat \ {0} /\ (k - 1) + 1 = k /\ k - 1 \in 0..Len(body)
  BY BodyFacts
<1>2. RunsOn[k] = Inside(k, RunsOn[k - 1]) /\ RunsOn[k - 1] \in Places
  BY <1>1, WhereItRuns
<1>3. /\ RunsOn[k - 1] = "dedicated" <=> is_inside_spawn_blocking(k)
      /\ RunsOn[k - 1] = "executor" <=> is_in_async_context(k) /\ ~is_inside_spawn_blocking(k)
  BY <1>1 DEF Agree
<1>4. CASE body[k].kind = "item"
  <2>1. RunsOn[k] = "unknown"
    BY <1>2, <1>4 DEF Inside
  <2>2. Enclosing(k + 1) = {}
    BY <1>1, <1>4, EnclosingGrows
  <2>3. ~is_inside_spawn_blocking(k + 1) /\ ~is_in_async_context(k + 1)
    BY <2>2 DEF is_inside_spawn_blocking, is_in_async_context
  <2>4. QED
    BY <2>1, <2>3 DEF Agree
<1>5. CASE body[k].kind \notin Closures \union {"item"}
  <2>1. RunsOn[k] = RunsOn[k - 1]
    BY <1>2, <1>5 DEF Inside
  <2>2. Enclosing(k + 1) = Enclosing(k)
    BY <1>1, <1>5, EnclosingGrows
  <2>3. /\ is_inside_spawn_blocking(k + 1) <=> is_inside_spawn_blocking(k)
        /\ is_in_async_context(k + 1) <=> is_in_async_context(k)
    BY <2>2 DEF is_inside_spawn_blocking, is_in_async_context
  <2>4. QED
    BY <1>3, <2>1, <2>3 DEF Agree
<1>6. CASE body[k].kind \in Closures
  <2> DEFINE given == /\ k > 1 /\ IsCall(Parent(k))
                      /\ strip_generic_args(Parent(k).callee.path) \in SPAWN_BLOCKING_PATHS
  <2>1. body[k].kind # "item" /\ Enclosing(k + 1) = Enclosing(k) \union {k}
    BY <1>1, <1>6, EnclosingGrows DEF Closures
  <2>2. RunsOn[k] = IF RunsOn[k - 1] = "dedicated" \/ given THEN "dedicated"
                    ELSE IF body[k].kind # "closure" THEN "executor"
                    ELSE IF is_synchronously_invoked(k) THEN RunsOn[k - 1] ELSE "unknown"
    BY <1>2, <1>6, <2>1 DEF Inside
  <2>3. given <=> k > 1 /\ match_call_path(Parent(k), SPAWN_BLOCKING_PATHS)
    <3>1. CASE k > 1
      <4>1. k - 1 \in 1..Len(body)
        BY <1>1, <3>1
      <4>2. QED
        BY <4>1, MatchIsListed DEF Parent
    <3>2. QED
      BY <3>1
  <2> HIDE DEF given
  <2>4. is_inside_spawn_blocking(k + 1) <=> is_inside_spawn_blocking(k) \/ given
    BY <2>1, <2>3 DEF is_inside_spawn_blocking
  <2>5. \A i \in Enclosing(k) : i \in 1..(k - 1) /\ i < k /\ ~ (i > k)
    BY <1>1 DEF Enclosing
  <2>6. is_in_async_context(k + 1) <=>
          \/ body[k].kind # "closure"
          \/ is_synchronously_invoked(k) /\ is_in_async_context(k)
    <3>1. ASSUME body[k].kind # "closure" PROVE is_in_async_context(k + 1)
      <4>1. k \in Enclosing(k + 1) /\ \A i \in Enclosing(k + 1) : ~ (i > k)
        BY <1>1, <2>1, <2>5
      <4>2. QED
        BY <3>1, <4>1 DEF is_in_async_context
    <3>2. ASSUME body[k].kind = "closure", is_synchronously_invoked(k), is_in_async_context(k)
          PROVE  is_in_async_context(k + 1)
      <4>1. PICK j \in Enclosing(k) :
              /\ body[j].kind # "closure"
              /\ \A i \in Enclosing(k) : i > j => body[i].kind = "closure" /\ is_synchronously_invoked(i)
        BY <3>2 DEF is_in_async_context
      <4>2. \A i \in Enclosing(k + 1) : i > j => body[i].kind = "closure" /\ is_synchronously_invoked(i)
        BY <2>1, <3>2, <4>1
      <4>3. QED
        BY <2>1, <4>1, <4>2 DEF is_in_async_context
    <3>3. ASSUME body[k].kind = "closure", is_in_async_context(k + 1)
          PROVE  is_synchronously_invoked(k) /\ is_in_async_context(k)
      <4>1. PICK j \in Enclosing(k + 1) :
              /\ body[j].kind # "closure"
              /\ \A i \in Enclosing(k + 1) : i > j => body[i].kind = "closure" /\ is_synchronously_invoked(i)
        BY <3>3 DEF is_in_async_context
      <4>2. j \in Enclosing(k)
        BY <2>1, <3>3, <4>1
      <4>3. k > j /\ k \in Enclosing(k + 1)
        BY <1>1, <2>1, <2>5, <4>2
      <4>4. is_synchronously_invoked(k)
        BY <4>1, <4>3
      <4>5. is_in_async_context(k)
        BY <2>1, <4>1, <4>2 DEF is_in_async_context
      <4>6. QED
        BY <4>4, <4>5
    <3>4. QED
      BY <3>1, <3>2, <3>3
  <2>7. QED
    BY <1>2, <1>3, <2>2, <2>4, <2>6 DEF Agree, Places
<1>7. QED
  BY <1>4, <1>5, <1>6

LEMMA WalksAgree ==
  ASSUME BodyInv, NEW k \in 1..Len(body), body[k].kind \notin Closures \union {"item"}
  PROVE  RunsOn[k] = "executor" <=> is_in_async_context(k) /\ ~is_inside_spawn_blocking(k)
<1> DEFINE S == {n \in Nat : Agree(n)}
<1>1. Len(body) \in Nat /\ (k - 1) + 1 = k /\ k - 1 \in 0..Len(body)
  BY BodyFacts
<1>2. 0 \in S
  <2>1. RunsOn[0] = "unknown"
    BY <1>1, WhereItRuns
  <2>2. Enclosing(0 + 1) = {}
    BY DEF Enclosing
  <2>3. QED
    BY <2>1, <2>2 DEF Agree, is_inside_spawn_blocking, is_in_async_context
<1>3. \A n \in 1..Len(body) : n - 1 \in S => n \in S
  BY AgreeStep
<1>4. k - 1 \in S
  <2> HIDE DEF S
  <2> QED
    BY <1>1, <1>2, <1>3, Induction
<1>5. RunsOn[k] = RunsOn[k - 1]
  BY <1>1, WhereItRuns DEF Inside
<1>6. QED
  BY <1>1, <1>4, <1>5 DEF Agree


-----------------------------------------------------------------------------
(***************************************************************************)
(* The lints that are configured with paths.                               *)
(***************************************************************************)
Judged == IF pass = "check_expr" THEN 1..(at - 1) ELSE {}
PathInv == \A lint \in PathLints : warned[lint] = {k \in Judged : Reports(lint, k)}

LEMMA ReportsStay ==
  ASSUME UNCHANGED <<owner, body>>
  PROVE  \A lint, k : Reports(lint, k)' <=> Reports(lint, k)
<1>1. \A k : Enclosing(k)' = Enclosing(k)
  BY DEF Enclosing
<1>2. \A k : is_in_suppression_zone(k)' <=> is_in_suppression_zone(k)
  BY DEF is_in_suppression_zone, is_in_test_zone
<1>3. \A k : blocking_in_async(k)' <=> blocking_in_async(k)
  BY <1>1 DEF blocking_in_async, is_in_test_zone, is_in_async_context, is_inside_spawn_blocking,
              is_synchronously_invoked, Parent
<1>4. \A k : unbounded_channel(k)' <=> unbounded_channel(k)
  BY <1>2 DEF unbounded_channel
<1>5. \A k : global_side_effect(k)' = global_side_effect(k)
  BY <1>2 DEF global_side_effect
<1>6. QED
  BY <1>3, <1>4, <1>5 DEF Reports

LEMMA PathInit ==
  ASSUME Init
  PROVE  PathInv
<1>1. PathLints \subseteq Lints
  BY DEF Lints
<1>2. QED
  BY <1>1 DEF Init, PathInv, Judged

LEMMA PathKept ==
  ASSUME ControlInv, PathInv, Next \/ UNCHANGED vars
  PROVE  PathInv'
<1>1. \A lint, k : Reports(lint, k)' <=> Reports(lint, k)
  BY Fixed, ReportsStay
<1>2. SUFFICES \A lint \in PathLints : warned'[lint] = {k \in Judged' : Reports(lint, k)}
  BY <1>1 DEF PathInv
<1>3. \A lint \in PathLints : lint \in Lints /\ lint # "panic_in_drop" /\ lint # "fallible_new"
  BY DEF Lints, PathLints, ToSet, GlobalSideEffects
<1>4. warned \in [Lints -> SUBSET (1..Len(body))]
  BY DEF ControlInv
<1>5. CASE check_expr
  <2> TAKE lint \in PathLints
  <2>1. /\ pass = "check_expr" /\ pass' = pass /\ at' = at + 1 /\ at \in 1..Len(body)
        /\ warned'[lint] = IF Reports(lint, at) THEN warned[lint] \union {at} ELSE warned[lint]
    BY <1>3, <1>5 DEF check_expr
  <2>2. at \in Nat \ {0}
    BY <2>1, BodyFacts DEF ControlInv
  <2>3. \A k : k \in Judged' <=> k = at \/ k \in Judged
    <3>1. \A p \in Nat \ {0} : \A k : k \in 1..((p + 1) - 1) <=> k = p \/ k \in 1..(p - 1)
      OBVIOUS
    <3>2. Judged' = 1..((at + 1) - 1) /\ Judged = 1..(at - 1)
      BY <2>1 DEF Judged
    <3>3. QED
      BY <2>2, <3>1, <3>2
  <2>4. warned[lint] = {k \in Judged : Reports(lint, k)}
    BY DEF PathInv
  <2>5. QED
    BY <2>1, <2>3, <2>4
<1>6. ASSUME ~check_expr
      PROVE  /\ \A lint \in PathLints : warned'[lint] = warned[lint]
             /\ Judged' = Judged
  <2>1. CASE check_impl_item
    <3>1. /\ pass # "check_expr" /\ UNCHANGED warned
          /\ pass' # "check_expr" \/ at' = 1
      BY <2>1 DEF check_impl_item, After, ControlInv
    <3>2. QED
      BY <3>1 DEF Judged
  <2>2. CASE Item \/ DropPanicFinder \/ PanicFinder
    <3>1. pass # "check_expr" /\ UNCHANGED <<pass, warned>>
      BY <2>2, VisitorsStep DEF VisitorStep
    <3>2. QED
      BY <3>1 DEF Judged
  <2>3. CASE Emit
    <3>1. /\ pass # "check_expr" /\ warned' = [warned EXCEPT ![pass] = findings]
          /\ pass' # "check_expr" \/ at' = 1
      BY <2>3 DEF Emit, After, ControlInv
    <3>2. \A lint \in PathLints : lint # pass
      BY <1>3, <3>1 DEF ControlInv
    <3>3. QED
      BY <1>3, <1>4, <3>1, <3>2 DEF Judged
  <2>4. CASE UNCHANGED vars
    BY <2>4 DEF vars, Judged
  <2>5. QED
    BY <1>6, <2>1, <2>2, <2>3, <2>4 DEF Next
<1>7. QED
  BY <1>5, <1>6 DEF PathInv

LEMMA ExecutorExact ==
  ASSUME BodyInv, NEW k \in 1..Len(body)
  PROVE  Reports("blocking_in_async", k) <=>
           /\ ~owner.test /\ body[k].frames = << >> /\ IsCall(body[k])
           /\ strip_generic_args(body[k].callee.path) \in Paths("blocking_in_async")
           /\ RunsOn[k] = "executor"
<1>1. "blocking_in_async" \notin global_side_effect(k)
  <2>1. "blocking_in_async" \notin ToSet(GlobalSideEffects)
    BY DEF ToSet, GlobalSideEffects
  <2>2. QED
    BY <2>1, SideEffectsAreTheirs
<1>2. match_call_path(body[k], Paths("blocking_in_async")) <=>
        IsCall(body[k]) /\ strip_generic_args(body[k].callee.path) \in Paths("blocking_in_async")
  BY MatchIsListed
<1>3. IsCall(body[k]) => body[k].kind \notin Closures \union {"item"}
  BY DEF IsCall, Closures
<1>4. IsCall(body[k]) => (RunsOn[k] = "executor" <=> is_in_async_context(k) /\ ~is_inside_spawn_blocking(k))
  BY <1>3, WalksAgree
<1>5. Reports("blocking_in_async", k) <=> body[k].frames = << >> /\ blocking_in_async(k)
  BY <1>1 DEF Reports
<1>6. QED
  BY <1>2, <1>4, <1>5 DEF blocking_in_async, is_in_test_zone

LEMMA SideEffectsExact ==
  ASSUME BodyInv, NEW k \in 1..Len(body)
  PROVE  global_side_effect(k) # {} <=>
           /\ IsCall(body[k])
           /\ \E lint \in ToSet(GlobalSideEffects) : strip_generic_args(body[k].callee.path) \in Paths(lint)
           /\ ~owner.test
           /\ owner.entry => \E j \in 1..(k - 1) : body[j].kind = "item"
<1>1. k \in Nat \ {0} /\ \A j : j \in 1..k <=> j = k \/ j \in 1..(k - 1)
  BY BodyFacts
<1>2. IsCall(body[k]) => body[k].kind # "item"
  BY DEF IsCall
<1>3. IsCall(body[k]) =>
        (~is_in_suppression_zone(k) <=>
           ~owner.test /\ (owner.entry => \E j \in 1..(k - 1) : body[j].kind = "item"))
  BY <1>1, <1>2 DEF is_in_suppression_zone, is_in_test_zone
<1>4. Listing(k) # {} <=>
        \E lint \in ToSet(GlobalSideEffects) : strip_generic_args(body[k].callee.path) \in Paths(lint)
  BY DEF Listing, ToSet
<1>5. IsCall(body[k]) /\ Listing(k) # {} =>
        \E n \in DOMAIN GlobalSideEffects : may_match(Paths(GlobalSideEffects[n]), body[k].callee)
  BY MatchIsListed DEF Listing
<1>6. global_side_effect(k) # {} <=>
        /\ IsCall(body[k])
        /\ \E n \in DOMAIN GlobalSideEffects : may_match(Paths(GlobalSideEffects[n]), body[k].callee)
        /\ Listing(k) # {} /\ ~is_in_suppression_zone(k)
  BY DEF global_side_effect, Listing
<1>7. QED
  BY <1>3, <1>4, <1>5, <1>6

LEMMA PathsExact == ControlInv /\ PathInv => PathCallsAreFound
<1> SUFFICES ASSUME ControlInv, PathInv, Done
             PROVE  BlocksTheExecutor /\ NoConfiguredCallSlips
  BY DEF PathCallsAreFound, BlocksTheExecutor, NoConfiguredCallSlips
<1>1. BodyInv /\ Judged = 1..Len(body)
  BY BodyFacts DEF ControlInv, Done, Judged, Beyond
<1>2. \A lint \in PathLints : \A k \in 1..Len(body) : k \in warned[lint] <=> Reports(lint, k)
  BY <1>1 DEF PathInv
<1>3. BlocksTheExecutor
  <2>1. "blocking_in_async" \in PathLints
    BY DEF PathLints
  <2>2. QED
    BY <1>1, <1>2, <2>1, ExecutorExact DEF BlocksTheExecutor
<1>4. ASSUME NEW k \in 1..Len(body)
      PROVE  Cardinality({lint \in ToSet(GlobalSideEffects) : k \in warned[lint]}) =
               IF /\ body[k].frames = << >> /\ IsCall(body[k])
                  /\ \E lint \in ToSet(GlobalSideEffects) : strip_generic_args(body[k].callee.path) \in Paths(lint)
                  /\ ~owner.test
                  /\ owner.entry => \E j \in 1..(k - 1) : body[j].kind = "item"
               THEN 1 ELSE 0
  <2> DEFINE theirs == {lint \in ToSet(GlobalSideEffects) : k \in warned[lint]}
  <2>1. \A lint \in ToSet(GlobalSideEffects) :
          lint \in PathLints /\ lint # "blocking_in_async" /\ lint # "unbounded_channel"
    BY DEF PathLints, ToSet, GlobalSideEffects
  <2>2. \A lint \in ToSet(GlobalSideEffects) :
          k \in warned[lint] <=> body[k].frames = << >> /\ lint \in global_side_effect(k)
    BY <1>2, <2>1 DEF Reports
  <2>3. theirs = IF body[k].frames = << >> THEN global_side_effect(k) ELSE {}
    BY <2>2, SideEffectsAreTheirs
  <2> HIDE DEF theirs
  <2>4. CASE body[k].frames # << >> \/ global_side_effect(k) = {}
    <3>1. theirs = {}
      BY <2>3, <2>4
    <3>2. Cardinality(theirs) = 0
      BY <3>1, FS_EmptySet
    <3>3. QED
      BY <1>1, <2>4, <3>2, SideEffectsExact DEF theirs
  <2>5. CASE body[k].frames = << >> /\ global_side_effect(k) # {}
    <3>1. PICK lint : theirs = {lint}
      BY <2>3, <2>5, FirstListing
    <3>2. Cardinality(theirs) = 1
      BY <3>1, FS_Singleton
    <3>3. QED
      BY <1>1, <2>5, <3>2, SideEffectsExact DEF theirs
  <2>6. QED
    BY <2>4, <2>5
<1>5. QED
  BY <1>3, <1>4 DEF NoConfiguredCallSlips

\* In every body, and whatever paths are configured, a blocking call is reported
\* exactly if it runs on the executor, and a call that a set of side effects
\* lists by exactly one of its lints.
THEOREM PathCallsFound == Spec => []PathCallsAreFound
<1>1. Init => ControlInv /\ PathInv
  BY ControlInit, PathInit
<1>2. ControlInv /\ PathInv /\ [Next]_vars => ControlInv' /\ PathInv'
  BY ControlKept, PathKept
<1>3. QED
  BY <1>1, <1>2, PathsExact, PTL DEF Spec

-----------------------------------------------------------------------------
(***************************************************************************)
(* BuilderLints.                                                           *)
(***************************************************************************)
StructsAndEnums ==
  /\ crate \in Seq(ToSet(crate))
  /\ \A i \in Items :
       \/ /\ i \in Structs
          /\ \A n \in DOMAIN crate[i].attrs :
               /\ crate[i].attrs[n].cfg \in {"none", "always", "feature"}
               /\ \A p \in crate[i].attrs[n].derives : p \in DerivePaths /\ p \in Seq(ToSet(p))
       \/ /\ i \in Enums
          /\ crate[i].fns \in Seq(ToSet(crate[i].fns))
          /\ \A n \in DOMAIN crate[i].fns : crate[i].fns[n].params \in Nat /\ crate[i].fns[n].values \in Seq(Nat)

\* The passes before and after expansion.
Phases ==
  /\ pending \subseteq {i \in Structs : ~crate[i].expanded}
  /\ at \in 0..(Len(crate) + 1)
  /\ at > 0 => pending = {}
  /\ at = 0 => warned = {}

\* The registry has, under each name, what the structs of the name that have
\* been collected derive, and no empty entry.
Collected == {i \in Structs : ~crate[i].expanded} \ pending
Registered ==
  /\ \A name \in DOMAIN registry : registry[name] # {}
  /\ \A name, info : info \in Recorded(name) <=>
       \E i \in Collected : crate[i].name = name /\ info \in collect_derive_names(crate[i])

\* The diagnostics are those of the items that the late passes have visited.
Visited(i) == i \in Items /\ i < at /\ crate[i].kept
ItemsJudged ==
  /\ \A w \in warned : w \in {"suggest_builder", "needless_builder", "redundant_enum_variant_wrapper"} \X Items \X Nat
  /\ \A i \in Structs :
       /\ <<"suggest_builder", i, 0>> \in warned <=> Visited(i) /\ suggest_builder(crate[i])
       /\ <<"needless_builder", i, 0>> \in warned <=> Visited(i) /\ needless_builder(crate[i])
  /\ \A i \in Enums : \A n : <<"redundant_enum_variant_wrapper", i, n>> \in warned <=>
                               Visited(i) /\ n \in redundant_wrappers(crate[i])

BuilderInv == StructsAndEnums /\ Phases /\ Registered /\ ItemsJudged

LEMMA BuilderInitially ==
  ASSUME BuilderInit
  PROVE  BuilderInv
<1>1. StructsAndEnums
  BY BuilderCratesAssumption DEF BuilderInit, BuilderCratesAssumption, StructsAndEnums, Items, Structs, Enums
<1>2. Phases
  BY <1>1 DEF BuilderInit, Phases, StructsAndEnums
<1>3. Collected = {}
  BY DEF BuilderInit, Collected
<1>4. Registered
  BY <1>3 DEF BuilderInit, Registered, Recorded
<1>5. ItemsJudged
  BY DEF BuilderInit, ItemsJudged, Visited, StructsAndEnums, Structs, Enums, Items
<1>6. QED
  BY <1>1, <1>2, <1>4, <1>5 DEF BuilderInv

LEMMA CrateStays ==
  ASSUME UNCHANGED crate
  PROVE  /\ Items' = Items /\ Structs' = Structs /\ Enums' = Enums
         /\ StructsAndEnums' <=> StructsAndEnums
BY DEF Items, Structs, Enums, StructsAndEnums

LEMMA CollectKeeps ==
  ASSUME BuilderInv, NEW i \in pending, Collect(i)
  PROVE  BuilderInv'
<1> DEFINE name == crate[i].name
           derives == collect_derive_names(crate[i])
<1>1. /\ at = 0 /\ pending' = pending \ {i}
      /\ UNCHANGED <<crate, at, warned>>
      /\ registry' = IF derives = {} THEN registry ELSE Record(name, Recorded(name) \union derives)
  BY DEF Collect
<1>2. /\ StructsAndEnums' /\ Items' = Items /\ Structs' = Structs /\ Enums' = Enums
      /\ warned' = {}
  BY <1>1, CrateStays DEF BuilderInv, Phases
<1>3. Phases'
  BY <1>1, <1>2 DEF BuilderInv, Phases
<1>4. ItemsJudged'
  <2>1. \A k \in Items : ~Visited(k)'
    BY <1>1, <1>2 DEF Visited, BuilderInv, StructsAndEnums, Items
  <2>2. QED
    BY <1>2, <2>1 DEF ItemsJudged, Structs, Enums
<1>5. i \in Structs /\ ~crate[i].expanded
  BY DEF BuilderInv, Phases
<1>6. Collected' = Collected \union {i}
  BY <1>1, <1>2, <1>5 DEF Collected
<1> HIDE DEF name, derives
<1>7. Recorded(name) = {} <=> name \notin DOMAIN registry
  BY DEF Recorded, BuilderInv, Registered
<1>8. \A k : Recorded(k)' = IF k = name THEN Recorded(k) \union derives ELSE Recorded(k)
  <2>1. CASE derives = {}
    BY <1>1, <2>1 DEF Recorded
  <2>2. CASE derives # {}
    <3>1. /\ DOMAIN registry' = DOMAIN registry \union {name}
          /\ registry'[name] = Recorded(name) \union derives
          /\ \A k \in DOMAIN registry : k # name => registry'[k] = registry[k]
      BY <1>1, <2>2 DEF Record
    <3>2. QED
      BY <3>1 DEF Recorded
  <2>3. QED
    BY <2>1, <2>2
<1>9. \A k \in DOMAIN registry' : registry'[k] # {}
  <2>1. CASE derives = {}
    BY <1>1, <2>1 DEF BuilderInv, Registered
  <2>2. CASE derives # {}
    <3>1. /\ DOMAIN registry' = DOMAIN registry \union {name}
          /\ registry'[name] = Recorded(name) \union derives
          /\ \A k \in DOMAIN registry : k # name => registry'[k] = registry[k]
      BY <1>1, <2>2 DEF Record
    <3>2. QED
      BY <2>2, <3>1 DEF BuilderInv, Registered
  <2>3. QED
    BY <2>1, <2>2
<1>10. ASSUME NEW k, NEW info
       PROVE  info \in Recorded(k)' <=> \E j \in Collected \union {i} : crate[j].name = k /\ info \in collect_derive_names(crate[j])
  <2>1. info \in Recorded(k) <=> \E j \in Collected : crate[j].name = k /\ info \in collect_derive_names(crate[j])
    BY DEF BuilderInv, Registered
  <2>2. info \in Recorded(k)' <=> info \in Recorded(k) \/ (k = name /\ info \in derives)
    BY <1>8
  <2>3. QED
    BY <2>1, <2>2 DEF name, derives
<1>11. Registered'
  <2>1. \A j : (collect_derive_names(crate[j]))' = collect_derive_names(crate[j])
    BY <1>1 DEF collect_derive_names
  <2>2. \A k, info : info \in Recorded(k)' <=>
          \E j \in Collected' : crate'[j].name = k /\ info \in (collect_derive_names(crate[j]))'
    BY <1>1, <1>6, <1>10, <2>1
  <2>3. QED
    BY <1>9, <2>2 DEF Registered
<1>12. QED
  BY <1>2, <1>3, <1>4, <1>11 DEF BuilderInv

\* What is decided about an item does not change any more.
LEMMA LaterTheSame ==
  ASSUME UNCHANGED <<crate, pending, registry>>
  PROVE  /\ Registered' <=> Registered
         /\ \A item : suggest_builder(item)' <=> suggest_builder(item)
         /\ \A item : needless_builder(item)' <=> needless_builder(item)
<1>1. Items' = Items /\ Structs' = Structs
  BY CrateStays
<1>2. Collected' = Collected
  BY <1>1 DEF Collected
<1>3. \A name : Recorded(name)' = Recorded(name)
  BY DEF Recorded
<1>4. Registered' <=> Registered
  BY <1>2, <1>3 DEF Registered
<1>5. \A name, derives : has_any_derive(name, derives)' <=> has_any_derive(name, derives)
  BY <1>3 DEF has_any_derive
<1>6. \A name : has_bon_builder(name)' <=> has_bon_builder(name)
  BY <1>3 DEF has_bon_builder
<1>7. QED
  BY <1>4, <1>5, <1>6 DEF suggest_builder, needless_builder

LEMMA NextItem ==
  ASSUME NEW a \in Nat, NEW i \in Nat
  PROVE  i < a + 1 <=> i < a \/ i = a
OBVIOUS

LEMMA CheckKeeps ==
  ASSUME BuilderInv, check_item
  PROVE  BuilderInv'
<1>1. /\ at \in Items /\ at' = at + 1
      /\ UNCHANGED <<crate, pending, registry>>
  BY DEF check_item
<1>2. /\ StructsAndEnums' /\ Items' = Items /\ Structs' = Structs /\ Enums' = Enums
      /\ Registered'
  BY <1>1, CrateStays, LaterTheSame DEF BuilderInv
<1>3. at \in 1..Len(crate) /\ Items \subseteq Nat \ {0}
  BY <1>1 DEF BuilderInv, StructsAndEnums, Items
<1>4. Phases'
  <2>1. at + 1 \in 0..(Len(crate) + 1) /\ at + 1 > 0 /\ at > 0 /\ ~(at + 1 = 0)
    BY <1>3 DEF BuilderInv, StructsAndEnums
  <2>2. QED
    BY <1>1, <1>2, <2>1 DEF BuilderInv, Phases
<1>5. \A i \in Items : Visited(i)' <=> Visited(i) \/ (i = at /\ crate[i].kept)
  BY <1>1, <1>2, <1>3, NextItem DEF Visited
<1>6. \A i \in Structs : i \in Items /\ i \notin Enums /\ crate[i].kind # "enum"
  BY DEF Structs, Enums
<1>7. \A i \in Enums : i \in Items /\ crate[i].kind = "enum"
  BY DEF Enums
<1>8. at \in Structs \/ at \in Enums
  BY <1>1 DEF BuilderInv, StructsAndEnums
<1>9. \A w \in warned' : w \in {"suggest_builder", "needless_builder", "redundant_enum_variant_wrapper"} \X Items \X Nat
  <2>1. at \in Enums => redundant_wrappers(crate[at]) \subseteq Nat
    <3>1. at \in Enums => crate[at].fns \in Seq(ToSet(crate[at].fns))
      BY <1>1, <1>6 DEF BuilderInv, StructsAndEnums
    <3>2. at \in Enums => DOMAIN crate[at].fns \subseteq Nat
      BY <3>1
    <3>3. QED
      BY <3>2 DEF redundant_wrappers
  <2>2. warned' \subseteq warned \union {<<lint, at, 0>> : lint \in {"suggest_builder", "needless_builder"}}
                    \union {<<"redundant_enum_variant_wrapper", at, n>> : n \in Nat}
    BY <1>6, <1>8, <2>1 DEF check_item, Diagnose
  <2>3. QED
    BY <1>1, <2>2 DEF BuilderInv, ItemsJudged
<1>10. \A i \in Structs : <<"suggest_builder", i, 0>> \in warned' <=>
         <<"suggest_builder", i, 0>> \in warned \/ (i = at /\ crate[i].kept /\ suggest_builder(crate[i]))
  BY <1>6, <1>7, <1>8 DEF check_item, Diagnose
<1>11. \A i \in Structs : <<"needless_builder", i, 0>> \in warned' <=>
         <<"needless_builder", i, 0>> \in warned \/ (i = at /\ crate[i].kept /\ needless_builder(crate[i]))
  BY <1>6, <1>7, <1>8 DEF check_item, Diagnose
<1>12. \A i \in Enums : \A n : <<"redundant_enum_variant_wrapper", i, n>> \in warned' <=>
         <<"redundant_enum_variant_wrapper", i, n>> \in warned
         \/ (i = at /\ crate[i].kept /\ n \in redundant_wrappers(crate[i]))
  BY <1>6, <1>7, <1>8 DEF check_item, Diagnose
<1>13. \A item : (suggest_builder(item)' <=> suggest_builder(item)) /\ (needless_builder(item)' <=> needless_builder(item))
  BY <1>1, LaterTheSame
<1>14. ItemsJudged'
  <2>1. \A i \in Structs : <<"suggest_builder", i, 0>> \in warned' <=> Visited(i)' /\ suggest_builder(crate[i])
    BY <1>5, <1>6, <1>10 DEF BuilderInv, ItemsJudged
  <2>2. \A i \in Structs : <<"needless_builder", i, 0>> \in warned' <=> Visited(i)' /\ needless_builder(crate[i])
    BY <1>5, <1>6, <1>11 DEF BuilderInv, ItemsJudged
  <2>3. \A i \in Enums : \A n : <<"redundant_enum_variant_wrapper", i, n>> \in warned' <=>
          Visited(i)' /\ n \in redundant_wrappers(crate[i])
    BY <1>5, <1>7, <1>12 DEF BuilderInv, ItemsJudged
  <2>4. QED
    BY <1>1, <1>2, <1>9, <1>13, <2>1, <2>2, <2>3 DEF ItemsJudged
<1>15. QED
  BY <1>2, <1>4, <1>14 DEF BuilderInv

LEMMA ExpandKeeps ==
  ASSUME BuilderInv, Expand
  PROVE  BuilderInv'
<1>1. at = 0 /\ pending = {} /\ at' = 1 /\ UNCHANGED <<crate, pending, registry, warned>>
  BY DEF Expand
<1>2. /\ StructsAndEnums' /\ Items' = Items /\ Structs' = Structs /\ Enums' = Enums
      /\ Registered'
  BY <1>1, CrateStays, LaterTheSame DEF BuilderInv
<1>3. 1 \in 0..(Len(crate) + 1)
  BY DEF BuilderInv, StructsAndEnums
<1>4. Phases'
  BY <1>1, <1>2, <1>3 DEF BuilderInv, Phases
<1>5. Items \subseteq Nat \ {0} /\ warned' = {}
  BY <1>1 DEF BuilderInv, StructsAndEnums, Items, Phases
<1>6. \A i \in Items : ~Visited(i)'
  BY <1>1, <1>2, <1>5 DEF Visited
<1>7. ItemsJudged'
  BY <1>2, <1>5, <1>6 DEF ItemsJudged, Structs, Enums
<1>8. QED
  BY <1>2, <1>4, <1>7 DEF BuilderInv

LEMMA BuilderKept ==
  ASSUME BuilderInv, [BuilderNext]_builder_vars
  PROVE  BuilderInv'
<1>1. CASE UNCHANGED builder_vars
  <2>1. UNCHANGED <<crate, pending, registry, at, warned>>
    BY <1>1 DEF builder_vars
  <2>2. \A i : Visited(i)' <=> Visited(i)
    BY <2>1 DEF Visited, Items
  <2>3. QED
    BY <2>1, <2>2, CrateStays, LaterTheSame DEF BuilderInv, Phases, ItemsJudged
<1>2. QED
  BY <1>1, CollectKeeps, ExpandKeeps, CheckKeeps DEF BuilderNext

-----------------------------------------------------------------------------
(* What the registry says. *)

LEMMA BonByPath ==
  ASSUME NEW path, path \in Seq(ToSet(path))
  PROVE  derive_info(path).is_bon_builder <=> NamesBon(path)
<1>1. CASE Len(path) > 1
  <2> DEFINE tail == SubSeq(path, Len(path) - 1, Len(path))
  <2>1. /\ tail \in Seq(ToSet(path)) /\ Len(tail) = 2
        /\ tail[1] = path[Len(path) - 1] /\ tail[2] = path[Len(path)]
    BY <1>1
  <2> HIDE DEF tail
  <2>2. tail = <<"bon", "Builder">> <=> tail[1] = "bon" /\ tail[2] = "Builder"
    BY <2>1
  <2>3. NamesBon(path) <=> tail = <<"bon", "Builder">>
    BY <1>1 DEF NamesBon, tail
  <2>4. QED
    BY <1>1, <2>1, <2>2, <2>3 DEF derive_info, Last
<1>2. CASE ~(Len(path) > 1)
  BY <1>2 DEF derive_info, NamesBon
<1>3. QED
  BY <1>1, <1>2

\* What is collected of a struct is what it derives under no condition.
LEMMA DerivesCollected ==
  ASSUME StructsAndEnums, NEW i \in Structs
  PROVE  /\ \A n \in DOMAIN crate[i].attrs : crate[i].attrs[n].cfg # "feature" =>
              \A p \in crate[i].attrs[n].derives : derive_info(p) \in collect_derive_names(crate[i])
         /\ \A info \in collect_derive_names(crate[i]) :
              \E n \in DOMAIN crate[i].attrs : /\ crate[i].attrs[n].cfg # "feature"
                                               /\ \E p \in crate[i].attrs[n].derives : info = derive_info(p)
<1>1. \A n \in DOMAIN crate[i].attrs : crate[i].attrs[n].cfg \in {"none", "always", "feature"}
  BY DEF StructsAndEnums, Structs, Enums
<1>2. \A n \in DOMAIN crate[i].attrs : is_always_true_cfg(crate[i].attrs[n]) <=> crate[i].attrs[n].cfg # "feature"
  BY <1>1 DEF is_always_true_cfg
<1>3. QED
  BY <1>2 DEF collect_derive_names

LEMMA BonCollected ==
  ASSUME StructsAndEnums, NEW i \in Structs
  PROVE  WritesBon(crate[i]) <=>
           ~crate[i].expanded /\ \E info \in collect_derive_names(crate[i]) : info.is_bon_builder
<1>1. \A n \in DOMAIN crate[i].attrs : \A p \in crate[i].attrs[n].derives : p \in Seq(ToSet(p))
  BY DEF StructsAndEnums, Structs, Enums
<1>2. \A n \in DOMAIN crate[i].attrs : \A p \in crate[i].attrs[n].derives :
        derive_info(p).is_bon_builder <=> NamesBon(p)
  BY <1>1, BonByPath
<1>3. QED
  BY <1>2, DerivesCollected DEF WritesBon

\* The late passes find the builders of all structs of a name.
LEMMA BuildersByName ==
  ASSUME BuilderInv, at > 0, NEW name
  PROVE  has_bon_builder(name) <=> \E i \in Structs : crate[i].name = name /\ WritesBon(crate[i])
<1>1. Collected = {i \in Structs : ~crate[i].expanded}
  BY DEF Collected, BuilderInv, Phases
<1>2. \A info : info \in Recorded(name) <=>
        \E i \in Collected : crate[i].name = name /\ info \in collect_derive_names(crate[i])
  BY DEF BuilderInv, Registered
<1>3. has_bon_builder(name) <=>
        \E i \in Collected : crate[i].name = name /\ \E info \in collect_derive_names(crate[i]) : info.is_bon_builder
  BY <1>2 DEF has_bon_builder
<1>4. QED
  BY <1>1, <1>3, BonCollected DEF BuilderInv

LEMMA WarnedLate ==
  ASSUME BuilderInv, NEW i, Visited(i)
  PROVE  at > 0
BY DEF BuilderInv, Phases, StructsAndEnums, Visited, Items

LEMMA RegistryTyped == BuilderInv => BuilderTypeOK
<1> SUFFICES ASSUME BuilderInv PROVE BuilderTypeOK
  OBVIOUS
<1>1. ASSUME NEW name \in DOMAIN registry
      PROVE  registry[name] \subseteq DeriveInfos /\ registry[name] # {} /\ name \in {crate[i].name : i \in Structs}
  <2>1. Recorded(name) = registry[name] /\ registry[name] # {}
    BY <1>1 DEF Recorded, BuilderInv, Registered
  <2>2. \A info \in registry[name] :
          \E i \in Structs : crate[i].name = name /\ info \in collect_derive_names(crate[i])
    BY <2>1 DEF BuilderInv, Registered, Collected
  <2>3. \A i \in Structs : \A n \in DOMAIN crate[i].attrs : \A p \in crate[i].attrs[n].derives : p \in DerivePaths
    BY DEF BuilderInv, StructsAndEnums, Structs, Enums
  <2>4. \A i \in Structs : collect_derive_names(crate[i]) \subseteq DeriveInfos
    BY <2>3, DerivesCollected DEF DeriveInfos, BuilderInv
  <2>5. QED
    BY <2>1, <2>2, <2>4
<1>2. pending \subseteq Structs
  BY DEF BuilderInv, Phases
<1>3. warned \subseteq {"suggest_builder", "needless_builder", "redundant_enum_variant_wrapper"} \X Items \X Nat
  BY DEF BuilderInv, ItemsJudged
<1>4. at \in 0..(Len(crate) + 1)
  BY DEF BuilderInv, Phases
<1>5. QED
  BY <1>1, <1>2, <1>3, <1>4 DEF BuilderTypeOK

LEMMA VerdictsExact == BuilderInv => VerdictsAgree
<1> SUFFICES ASSUME BuilderInv PROVE VerdictsAgree
  OBVIOUS
<1>1. \A i \in Structs : <<"suggest_builder", i, 0>> \in warned =>
        ~ \E j \in Structs : Same(j, i) /\ WritesBon(crate[j])
  <2> SUFFICES ASSUME NEW i \in Structs, <<"suggest_builder", i, 0>> \in warned
               PROVE  ~ \E j \in Structs : Same(j, i) /\ WritesBon(crate[j])
    OBVIOUS
  <2>1. Visited(i) /\ ~has_bon_builder(crate[i].name)
    BY DEF BuilderInv, ItemsJudged, suggest_builder
  <2>2. QED
    BY <2>1, WarnedLate, BuildersByName DEF Same
<1>2. \A i \in Structs : <<"needless_builder", i, 0>> \in warned =>
        \E j \in Structs : Same(j, i) /\ WritesBon(crate[j])
  <2> SUFFICES ASSUME NEW i \in Structs, <<"needless_builder", i, 0>> \in warned
               PROVE  \E j \in Structs : Same(j, i) /\ WritesBon(crate[j])
    OBVIOUS
  <2>1. Visited(i) /\ has_bon_builder(crate[i].name)
    BY DEF BuilderInv, ItemsJudged, needless_builder
  <2>2. QED
    BY <2>1, WarnedLate, BuildersByName DEF Same
<1>3. NoBuilderTwice
  BY <1>1 DEF NoBuilderTwice, Same
<1>4. NeedlessHasBuilder
  BY <1>2 DEF NeedlessHasBuilder, Same
<1>5. NeverBoth
  BY <1>1, <1>2 DEF NeverBoth
<1>6. QED
  BY RegistryTyped, <1>3, <1>4, <1>5 DEF VerdictsAgree

LEMMA OwnNameExact == BuilderInv => OwnNameOwnVerdict
<1> SUFFICES ASSUME BuilderInv, AllVisited, NEW i \in Structs, crate[i].kept, \A j \in Structs : Same(i, j) => i = j
             PROVE  /\ <<"needless_builder", i, 0>> \in warned <=>
                         (WritesBon(crate[i]) /\ crate[i].named /\ field_count(crate[i]) <= NeedlessTo)
                    /\ <<"suggest_builder", i, 0>> \in warned =>
                         \A n \in DOMAIN crate[i].attrs : crate[i].attrs[n].cfg # "feature" =>
                           \A p \in crate[i].attrs[n].derives : Last(p) \notin SkipDerives /\ ~NamesBon(p)
  BY DEF OwnNameOwnVerdict
<1>1. Visited(i) /\ at > 0
  BY DEF Visited, Structs, Items, AllVisited, BuilderInv, StructsAndEnums, Phases
<1>2. has_bon_builder(crate[i].name) <=> WritesBon(crate[i])
  BY <1>1, BuildersByName DEF Same
<1>3. WritesBon(crate[i]) => ~crate[i].expanded
  BY DEF WritesBon
<1>4. <<"needless_builder", i, 0>> \in warned <=>
        (WritesBon(crate[i]) /\ crate[i].named /\ field_count(crate[i]) <= NeedlessTo)
  BY <1>1, <1>2, <1>3 DEF BuilderInv, ItemsJudged, needless_builder
<1>5. ASSUME <<"suggest_builder", i, 0>> \in warned, NEW n \in DOMAIN crate[i].attrs,
             crate[i].attrs[n].cfg # "feature", NEW p \in crate[i].attrs[n].derives
      PROVE  Last(p) \notin SkipDerives /\ ~NamesBon(p)
  <2>1. ~crate[i].expanded /\ ~has_bon_builder(crate[i].name) /\ ~has_any_derive(crate[i].name, SkipDerives)
    BY <1>5 DEF BuilderInv, ItemsJudged, suggest_builder
  <2>2. i \in Collected
    BY <1>1, <2>1 DEF Collected, BuilderInv, Phases
  <2>3. derive_info(p) \in Recorded(crate[i].name)
    BY <1>5, <2>2, DerivesCollected DEF BuilderInv, Registered
  <2>4. derive_info(p).last_segment = Last(p)
    BY DEF derive_info
  <2>5. ~WritesBon(crate[i])
    BY <1>2, <2>1
  <2>6. QED
    BY <1>5, <2>1, <2>3, <2>4, <2>5 DEF has_any_derive, WritesBon
<1>6. QED
  BY <1>4, <1>5

\* In every crate, in whatever order its files are collected and whatever the
\* thresholds, a struct that derives bon::Builder under that name and no condition
\* is not told to, a builder is called needless only where a struct of the name
\* derives it so, and no struct is told both.
THEOREM VerdictsAlwaysAgree == BuilderSpec => []VerdictsAgree
<1>1. QED
  BY BuilderInitially, BuilderKept, VerdictsExact, PTL DEF BuilderSpec

\* In every crate, a struct whose name is its own is judged by its own derives.
THEOREM OwnNamesJudged == BuilderSpec => []OwnNameOwnVerdict
<1>1. QED
  BY BuilderInitially, BuilderKept, OwnNameExact, PTL DEF BuilderSpec

-----------------------------------------------------------------------------
(* The parameters of a constructor that a wrapper forwards. *)

States == [ok : BOOLEAN, unmatched : Seq(Nat)]

\* swap_remove loses the one parameter that is removed.
LEMMA SwapRemove ==
  ASSUME NEW s \in Seq(Nat), NEW n \in DOMAIN s
  PROVE  /\ Without(s, n) \in Seq(Nat)
         /\ Len(Without(s, n)) = Len(s) - 1
         /\ \A k \in DOMAIN s : k # n => \E j \in DOMAIN Without(s, n) : Without(s, n)[j] = s[k]
<1> DEFINE N == Len(s)
           base == IF n = N THEN s ELSE [s EXCEPT ![n] = s[N]]
           w == SubSeq(base, 1, N - 1)
<1>1. N \in Nat /\ DOMAIN s = 1..N /\ n \in 1..N /\ N >= 1
  OBVIOUS
<1>2. base \in Seq(Nat) /\ Len(base) = N /\ DOMAIN base = 1..N
  OBVIOUS
<1>3. \A k \in 1..(N - 1) : base[k] = IF k = n THEN s[N] ELSE s[k]
  BY <1>1
<1>4. Without(s, n) = w
  BY <1>2 DEF Without, Front, Last
<1> HIDE DEF base
<1>5. w \in Seq(Nat) /\ Len(w) = N - 1 /\ DOMAIN w = 1..(N - 1) /\ \A k \in 1..(N - 1) : w[k] = base[k]
  BY <1>1, <1>2
<1> HIDE DEF w
<1>6. ASSUME NEW k \in DOMAIN s, k # n
      PROVE  \E j \in DOMAIN w : w[j] = s[k]
  <2>1. CASE k = N
    <3>1. n \in 1..(N - 1)
      BY <1>1, <1>6, <2>1
    <3>2. w[n] = s[k]
      BY <1>3, <1>5, <2>1, <3>1
    <3>3. QED
      BY <1>5, <3>1, <3>2
  <2>2. CASE k # N
    <3>1. k \in 1..(N - 1)
      BY <1>1, <2>2
    <3>2. w[k] = s[k]
      BY <1>3, <1>5, <1>6, <3>1
    <3>3. QED
      BY <1>5, <3>1, <3>2
  <2>3. QED
    BY <2>1, <2>2
<1>7. QED
  BY <1>4, <1>5, <1>6

LEMMA RemoveIsTyped ==
  ASSUME NEW state \in States, NEW value \in Nat
  PROVE  remove_parameter(state, value) \in States
<1> DEFINE places == {n \in DOMAIN state.unmatched : state.unmatched[n] = value}
<1>1. CASE ~state.ok \/ places = {}
  BY <1>1 DEF remove_parameter, States
<1>2. CASE state.ok /\ places # {}
  <2>1. Len(state.unmatched) \in Nat /\ places \in SUBSET (1..Len(state.unmatched))
    BY DEF States
  <2>2. Min(places) \in places
    BY <1>2, <2>1, MinOfPositions
  <2>3. Without(state.unmatched, Min(places)) \in Seq(Nat)
    BY <2>2, SwapRemove DEF States
  <2>4. QED
    BY <1>2, <2>3 DEF remove_parameter, States
<1>3. QED
  BY <1>1, <1>2

\* The parameters that are unmatched or equal to one of the first k values.
LEMMA RemoveMatches ==
  ASSUME NEW state \in States, NEW value \in Nat, remove_parameter(state, value).ok
  PROVE  LET next == remove_parameter(state, value).unmatched
         IN  /\ state.ok /\ Len(next) = Len(state.unmatched) - 1
             /\ \A k \in DOMAIN state.unmatched :
                  state.unmatched[k] = value \/ \E j \in DOMAIN next : next[j] = state.unmatched[k]
<1> DEFINE places == {n \in DOMAIN state.unmatched : state.unmatched[n] = value}
<1>1. state.ok /\ places # {}
  BY DEF remove_parameter, States
<1>2. Len(state.unmatched) \in Nat /\ places \in SUBSET (1..Len(state.unmatched))
  BY DEF States
<1>3. Min(places) \in places
  BY <1>1, <1>2, MinOfPositions
<1>4. remove_parameter(state, value).unmatched = Without(state.unmatched, Min(places))
  BY <1>1 DEF remove_parameter, States
<1>5. state.unmatched \in Seq(Nat) /\ Min(places) \in DOMAIN state.unmatched /\ state.unmatched[Min(places)] = value
  BY <1>3 DEF States
<1> DEFINE next == Without(state.unmatched, Min(places))
<1>6. /\ Len(next) = Len(state.unmatched) - 1
      /\ \A k \in DOMAIN state.unmatched : k # Min(places) => \E j \in DOMAIN next : next[j] = state.unmatched[k]
  <2> HIDE DEF places
  <2>1. QED
    BY <1>5, SwapRemove
<1> HIDE DEF places, next
<1>7. remove_parameter(state, value).unmatched = next
  BY <1>4 DEF next
<1>8. QED
  BY <1>1, <1>5, <1>6, <1>7

\* The function that forwards_each_parameter_once defines by recursion exists.
LEMMA AfterExists ==
  ASSUME NEW first \in States, NEW values \in Seq(Nat)
  PROVE  \E f \in [0..Len(values) -> States] :
           f = [k \in 0..Len(values) |-> IF k = 0 THEN first ELSE remove_parameter(f[k - 1], values[k])]
<1> DEFINE N == Len(values)
           From(n) == {f \in [0..n -> States] : /\ f[0] = first
                                                /\ \A k \in 1..n : f[k] = remove_parameter(f[k - 1], values[k])}
           S == {n \in Nat : From(n) # {}}
<1>1. N \in Nat /\ \A k \in 1..N : values[k] \in Nat
  OBVIOUS
<1>2. 0 \in S
  <2>1. [k \in 0..0 |-> first] \in From(0)
    OBVIOUS
  <2>2. QED
    BY <2>1
<1>3. ASSUME NEW n \in 1..N, n - 1 \in S PROVE n \in S
  <2>1. PICK f : f \in From(n - 1)
    BY <1>3
  <2> DEFINE g == [k \in 0..n |-> IF k = n THEN remove_parameter(f[n - 1], values[n]) ELSE f[k]]
  <2>2. n \in Nat /\ n - 1 \in Nat /\ n - 1 \in 0..(n - 1) /\ n # 0 /\ n - 1 # n
    BY <1>3
  <2>3. f[n - 1] \in States
    BY <2>1, <2>2
  <2>4. remove_parameter(f[n - 1], values[n]) \in States
    BY <1>1, <2>3, RemoveIsTyped
  <2>5. \A k \in 0..n : k # n => k \in 0..(n - 1) /\ f[k] \in States
    BY <2>1, <2>2
  <2>6. g \in [0..n -> States]
    BY <2>4, <2>5
  <2>7. g[0] = first
    BY <2>1, <2>2
  <2>8. ASSUME NEW k \in 1..n PROVE g[k] = remove_parameter(g[k - 1], values[k])
    <3>1. k \in 0..n /\ k - 1 \in 0..n /\ k - 1 # n
      BY <2>2
    <3>2. CASE k = n
      BY <3>1, <3>2, <2>2
    <3>3. CASE k # n
      <4>1. k \in 1..(n - 1)
        BY <2>2, <3>3
      <4>2. f[k] = remove_parameter(f[k - 1], values[k])
        BY <2>1, <4>1
      <4>3. QED
        BY <3>1, <3>3, <4>2
    <3>4. QED
      BY <3>2, <3>3
  <2> HIDE DEF g
  <2>9. g \in From(n)
    BY <2>6, <2>7, <2>8
  <2>10. QED
    BY <2>2, <2>9
<1>4. N \in S
  <2> HIDE DEF S
  <2>1. \A k \in 1..N : k - 1 \in S => k \in S
    BY <1>3
  <2>2. \A k \in 0..N : k \in S
    BY <1>1, <1>2, <2>1, Induction
  <2>3. QED
    BY <1>1, <2>2
<1>5. PICK f : f \in From(N)
  BY <1>4
<1>6. f \in [0..N -> States] /\ f[0] = first /\ \A k \in 1..N : f[k] = remove_parameter(f[k - 1], values[k])
  BY <1>5
<1>7. \A k \in 0..N : f[k] = IF k = 0 THEN first ELSE remove_parameter(f[k - 1], values[k])
  BY <1>1, <1>6
<1>8. f = [k \in 0..N |-> IF k = 0 THEN first ELSE remove_parameter(f[k - 1], values[k])]
  BY <1>6, <1>7
<1>9. QED
  BY <1>6, <1>8

\* If each of the values removes a parameter then all parameters are among them.
LEMMA ForwardsAll ==
  ASSUME NEW N \in Nat, NEW values \in Seq(Nat),
         forwards_each_parameter_once([n \in 1..N |-> n], values)
  PROVE  IsPermutationOf(values, N)
<1> DEFINE params == [n \in 1..N |-> n]
           first == [ok |-> TRUE, unmatched |-> params]
           Is(f) == f = [k \in 0..Len(values) |-> IF k = 0 THEN first ELSE remove_parameter(f[k - 1], values[k])]
           after == CHOOSE f : Is(f)
<1>1. params \in Seq(Nat) /\ Len(params) = N /\ first \in States
  BY DEF States
<1>2. Len(params) = Len(values) /\ after[Len(values)].ok
  BY DEF forwards_each_parameter_once
<1>3. Len(values) = N /\ DOMAIN values = 1..N /\ \A k \in 1..N : values[k] \in Nat
  BY <1>1, <1>2
<1>4. PICK f \in [0..N -> States] : Is(f)
  <2> HIDE DEF first
  <2>1. QED
    BY <1>1, <1>3, AfterExists
<1>5. Is(after)
  <2> HIDE DEF Is
  <2>1. QED
    BY <1>4
<1>6. /\ after[0] = first
      /\ \A k \in 1..N : after[k] = remove_parameter(after[k - 1], values[k])
  <2> HIDE DEF first, after
  <2>1. \A k \in 0..N : after[k] = IF k = 0 THEN first ELSE remove_parameter(after[k - 1], values[k])
    BY <1>3, <1>5
  <2>2. QED
    BY <2>1
<1> DEFINE Rest(k) == after[k].unmatched
           Matched(n, k) == \/ \E j \in DOMAIN Rest(k) : Rest(k)[j] = n
                            \/ \E j \in 1..k : values[j] = n
           S == {k \in 0..N : /\ after[k] \in States
                              /\ after[k].ok => Len(Rest(k)) = N - k /\ \A n \in 1..N : Matched(n, k)}
<1>7. 0 \in S
  <2>1. Rest(0) = params
    BY <1>6
  <2>2. \A n \in 1..N : Matched(n, 0)
    BY <2>1
  <2> HIDE DEF after, Matched, Rest, first
  <2>3. QED
    BY <1>1, <1>6, <2>1, <2>2
<1> HIDE DEF after, first, params
<1>8. ASSUME NEW k \in 1..N, k - 1 \in S PROVE k \in S
  <2>1. k - 1 \in 0..N /\ after[k - 1] \in States /\ values[k] \in Nat
    BY <1>3, <1>8
  <2>2. after[k] = remove_parameter(after[k - 1], values[k])
    BY <1>6
  <2>3. after[k] \in States
    BY <2>1, <2>2, RemoveIsTyped
  <2>4. ASSUME after[k].ok
        PROVE  Len(Rest(k)) = N - k /\ \A n \in 1..N : Matched(n, k)
    <3>1. /\ after[k - 1].ok /\ Len(Rest(k)) = Len(Rest(k - 1)) - 1
          /\ \A i \in DOMAIN Rest(k - 1) :
               Rest(k - 1)[i] = values[k] \/ \E j \in DOMAIN Rest(k) : Rest(k)[j] = Rest(k - 1)[i]
      BY <2>1, <2>2, <2>4, RemoveMatches
    <3>2. Len(Rest(k - 1)) = N - (k - 1) /\ \A n \in 1..N : Matched(n, k - 1)
      BY <1>8, <3>1
    <3>3. ASSUME NEW n \in 1..N PROVE Matched(n, k)
      <4>1. CASE \E j \in 1..(k - 1) : values[j] = n
        BY <4>1
      <4>2. CASE \E j \in DOMAIN Rest(k - 1) : Rest(k - 1)[j] = n
        <5>1. values[k] = n \/ \E j \in DOMAIN Rest(k) : Rest(k)[j] = n
          BY <3>1, <4>2
        <5>2. k \in 1..k
          BY <1>8
        <5>3. QED
          BY <5>1, <5>2
      <4>3. QED
        BY <3>2, <4>1, <4>2
    <3>4. QED
      BY <3>1, <3>2, <3>3
  <2> HIDE DEF Rest, Matched
  <2>5. QED
    BY <2>3, <2>4
<1>9. N \in S
  <2> HIDE DEF S
  <2>1. \A k \in 0..N : k \in S
    BY <1>7, <1>8, Induction
  <2>2. QED
    BY <2>1
<1>10. after[N].ok
  BY <1>2, <1>3
<1>11. Rest(N) \in Seq(Nat) /\ Len(Rest(N)) = 0 /\ \A n \in 1..N : Matched(n, N)
  BY <1>9, <1>10 DEF States
<1>12. DOMAIN Rest(N) = {}
  BY <1>11
<1>13. \A n \in 1..N : \E j \in 1..N : values[j] = n
  BY <1>11, <1>12
<1>14. QED
  BY <1>3, <1>13 DEF IsPermutationOf

LEMMA WrappersExact == BuilderInv => WrappersOnlyForward
<1> SUFFICES ASSUME BuilderInv, NEW i \in Enums, NEW n \in DOMAIN crate[i].fns,
                    <<"redundant_enum_variant_wrapper", i, n>> \in warned,
                    NEW k \in DOMAIN crate[i].fns, IsCtor(crate[i].fns[k])
             PROVE  /\ <<"redundant_enum_variant_wrapper", i, k>> \in warned
                    /\ crate[i].fns[k].builds = "variant"
                    /\ IsPermutationOf(crate[i].fns[k].values, crate[i].fns[k].params)
  BY DEF WrappersOnlyForward
<1>1. Visited(i) /\ n \in redundant_wrappers(crate[i])
  BY DEF BuilderInv, ItemsJudged
<1>2. k \in redundant_wrappers(crate[i]) /\ direct_wrapper(crate[i].fns[k])
  BY <1>1 DEF redundant_wrappers
<1>3. <<"redundant_enum_variant_wrapper", i, k>> \in warned
  BY <1>1, <1>2 DEF BuilderInv, ItemsJudged
<1>4. crate[i].fns[k].params \in Nat /\ crate[i].fns[k].values \in Seq(Nat)
  BY DEF BuilderInv, StructsAndEnums, Structs, Enums
<1>5. QED
  BY <1>2, <1>3, <1>4, ForwardsAll DEF direct_wrapper

\* However many parameters a constructor has, the list that shrinks and changes
\* its order accepts only a permutation of them; an enum's constructors are
\* reported all or none.
THEOREM WrappersForward == BuilderSpec => []WrappersOnlyForward
<1>1. QED
  BY BuilderInitially, BuilderKept, WrappersExact, PTL DEF BuilderSpec

-----------------------------------------------------------------------------
(***************************************************************************)
(* ErrorTypes.                                                             *)
(***************************************************************************)
\* The crate is one of those assumed.
TypesKnown ==
  /\ items \in Seq(ToSet(items))
  /\ \A n \in DOMAIN items : items[n].kind \in {"type", "impl"} => items[n].adt \in DOMAIN adts
  /\ at \in 1..(Len(items) + 1)

\* Before item a is visited a map holds, for each type, the last impl so far.
KeepsLast(map, trait, a) ==
  /\ \A adt \in DOMAIN map :
       /\ map[adt] \in Written(trait, adt) /\ map[adt] < a
       /\ \A m \in Written(trait, adt) : m < a => m <= map[adt]
  /\ \A adt : \A n \in Written(trait, adt) : n < a => adt \in DOMAIN map

\* Types are decided when all impls have been visited.
Deciding ==
  /\ decided \subseteq DOMAIN error_impls
  /\ decided # {} => at > Len(items)
  /\ \A w \in warned : w[2] \in DOMAIN items

\* The diagnostics so far are those of the types decided.
Decided ==
  /\ \A n : <<"manual_impls", n>> \in warned <=>
       \E adt \in decided \intersect DOMAIN display_impls : n = error_impls[adt]
  /\ \A n : <<"rendered_twice", n>> \in warned <=>
       \E adt \in decided \intersect DOMAIN display_impls :
         /\ n = display_impls[adt]
         /\ items[error_impls[adt]].source /\ items[error_impls[adt]].error_fields # {}
         /\ renders_source(items[n], items[error_impls[adt]].error_fields)
  /\ \A n : <<"no_source", n>> \in warned => ~items[n].source

ErrorInv ==
  /\ TypesKnown /\ KeepsLast(error_impls, "Error", at) /\ KeepsLast(display_impls, "Display", at)
  /\ Deciding /\ Decided

LEMMA PutKeeps ==
  ASSUME NEW map, NEW trait, NEW a \in DOMAIN items, items \in Seq(ToSet(items)),
         KeepsLast(map, trait, a), a \in Written(trait, items[a].adt)
  PROVE  KeepsLast(Put(map, items[a].adt, a), trait, a + 1)
<1> DEFINE key == items[a].adt
           new == Put(map, key, a)
<1>1. /\ DOMAIN new = DOMAIN map \union {key}
      /\ new[key] = a
      /\ \A adt \in DOMAIN map : adt # key => new[adt] = map[adt]
  BY DEF Put
<1>2. \A adt : Written(trait, adt) \subseteq DOMAIN items
  BY DEF Written
<1>3. DOMAIN items \subseteq Nat
  OBVIOUS
<1>4. \A adt : \A n \in Written(trait, adt) : items[n].adt = adt
  BY DEF Written
<1> HIDE DEF new, key
<1>5. a \in Written(trait, key)
  BY DEF key
<1>6. ASSUME NEW adt \in DOMAIN new
      PROVE  /\ new[adt] \in Written(trait, adt) /\ new[adt] < a + 1
             /\ \A m \in Written(trait, adt) : m < a + 1 => m <= new[adt]
  <2>1. CASE adt = key
    BY <1>1, <1>2, <1>3, <1>5, <2>1
  <2>2. CASE adt # key
    <3>1. adt \in DOMAIN map /\ new[adt] = map[adt]
      BY <1>1, <1>6, <2>2
    <3>2. a \notin Written(trait, adt)
      BY <1>4, <2>2 DEF key
    <3>3. QED
      BY <1>2, <1>3, <3>1, <3>2 DEF KeepsLast
  <2>3. QED
    BY <2>1, <2>2
<1>7. ASSUME NEW adt, NEW n \in Written(trait, adt), n < a + 1
      PROVE  adt \in DOMAIN new
  <2>1. n < a \/ n = a
    BY <1>2, <1>3, <1>7
  <2>2. CASE n < a
    BY <1>1, <1>7, <2>2 DEF KeepsLast
  <2>3. CASE n = a
    BY <1>1, <1>4, <1>7, <2>3 DEF key
  <2>4. QED
    BY <2>1, <2>2, <2>3
<1>8. KeepsLast(new, trait, a + 1)
  BY <1>6, <1>7 DEF KeepsLast
<1>9. QED
  BY <1>8 DEF new, key

LEMMA PassKeeps ==
  ASSUME NEW map, NEW trait, NEW a \in DOMAIN items, items \in Seq(ToSet(items)),
         KeepsLast(map, trait, a), \A adt : a \notin Written(trait, adt)
  PROVE  KeepsLast(map, trait, a + 1)
<1>1. \A adt : Written(trait, adt) \subseteq Nat
  BY DEF Written
<1>2. \A adt : \A n \in Written(trait, adt) : n < a + 1 <=> n < a
  BY <1>1
<1>3. \A n \in Nat : n < a => n < a + 1
  OBVIOUS
<1>4. QED
  BY <1>1, <1>2, <1>3 DEF KeepsLast

LEMMA ErrorInitially ==
  ASSUME ErrorInit
  PROVE  ErrorInv
<1>1. PICK crates \in ErrorCrates : \E c \in crates : items = c.items /\ adts = c.adts
  BY DEF ErrorInit
<1>2. PICK c \in crates : items = c.items /\ adts = c.adts
  BY <1>1
<1>3. TypesKnown
  BY <1>2, ErrorCratesAssumption DEF ErrorCratesAssumption, TypesKnown, ErrorInit
<1>4. DOMAIN error_impls = {} /\ DOMAIN display_impls = {}
  BY DEF ErrorInit
<1>5. \A trait, adt : \A n \in Written(trait, adt) : ~(n < at)
  BY <1>3 DEF Written, TypesKnown, ErrorInit
<1>6. KeepsLast(error_impls, "Error", at) /\ KeepsLast(display_impls, "Display", at)
  BY <1>4, <1>5 DEF KeepsLast
<1>7. Deciding /\ Decided
  BY DEF ErrorInit, Deciding, Decided
<1>8. QED
  BY <1>3, <1>6, <1>7 DEF ErrorInv

\* One item of the late pass.
VisitStep ==
  /\ at \in DOMAIN items /\ at' = at + 1
  /\ UNCHANGED <<items, adts, decided>>
  /\ \/ warned' = warned
     \/ \E what : /\ what \notin {"manual_impls", "rendered_twice"}
                  /\ what = "no_source" => ~items[at].source
                  /\ warned' = warned \union {<<what, at>>}
  /\ \/ error_impls' = error_impls /\ \A adt : at \notin Written("Error", adt)
     \/ error_impls' = Put(error_impls, items[at].adt, at) /\ at \in Written("Error", items[at].adt)
  /\ \/ display_impls' = display_impls /\ \A adt : at \notin Written("Display", adt)
     \/ display_impls' = Put(display_impls, items[at].adt, at) /\ at \in Written("Display", items[at].adt)

LEMMA ItemStep ==
  ASSUME TypesKnown, CheckFn \/ CheckItem
  PROVE  VisitStep
<1>1. CASE CheckFn
  BY <1>1 DEF CheckFn, At, Warn, VisitStep, Written
<1>2. CASE CheckType
  BY <1>2 DEF CheckType, At, Warn, VisitStep, Written
<1>3. CASE collect_error_impl
  BY <1>3 DEF collect_error_impl, At, Warn, VisitStep, Written, lacks_source
<1>4. CASE collect_display_impl
  BY <1>4 DEF collect_display_impl, At, Warn, VisitStep, Written
<1>5. CASE OtherImpl
  BY <1>5 DEF OtherImpl, At, Warn, VisitStep, Written
<1>6. QED
  BY <1>1, <1>2, <1>3, <1>4, <1>5 DEF CheckItem

LEMMA VisitKeepsErrors ==
  ASSUME ErrorInv, VisitStep
  PROVE  ErrorInv'
<1>1. items \in Seq(ToSet(items)) /\ at \in DOMAIN items /\ at' = at + 1
  BY DEF ErrorInv, TypesKnown, VisitStep
<1>2. items' = items /\ adts' = adts /\ decided' = decided
  BY DEF VisitStep
<1>3. TypesKnown'
  <2>1. at + 1 \in 1..(Len(items) + 1)
    BY <1>1
  <2>2. QED
    BY <1>1, <1>2, <2>1 DEF ErrorInv, TypesKnown
<1>4. \A trait, adt : Written(trait, adt)' = Written(trait, adt)
  BY <1>2 DEF Written
<1>5. KeepsLast(error_impls', "Error", at + 1)
  BY <1>1, PutKeeps, PassKeeps DEF ErrorInv, VisitStep
<1>6. KeepsLast(display_impls', "Display", at + 1)
  BY <1>1, PutKeeps, PassKeeps DEF ErrorInv, VisitStep
<1>7. KeepsLast(error_impls, "Error", at)' /\ KeepsLast(display_impls, "Display", at)'
  BY <1>1, <1>4, <1>5, <1>6 DEF KeepsLast
<1>8. decided = {}
  <2>1. ~(at > Len(items))
    BY <1>1
  <2>2. QED
    BY <2>1 DEF ErrorInv, Deciding
<1>9. Deciding'
  <2>1. \A w \in warned' : w[2] \in DOMAIN items
    BY <1>1 DEF ErrorInv, Deciding, VisitStep
  <2>2. QED
    BY <1>2, <1>8, <2>1 DEF Deciding
<1>10. Decided'
  <2>1. \A n : <<"manual_impls", n>> \in warned' <=> <<"manual_impls", n>> \in warned
    BY DEF VisitStep
  <2>2. \A n : <<"rendered_twice", n>> \in warned' <=> <<"rendered_twice", n>> \in warned
    BY DEF VisitStep
  <2>3. \A n : <<"no_source", n>> \in warned' => ~items[n].source
    BY DEF VisitStep, ErrorInv, Decided
  <2>4. decided \intersect DOMAIN display_impls = {} /\ decided' \intersect DOMAIN display_impls' = {}
    BY <1>2, <1>8
  <2>5. \A n : <<"manual_impls", n>> \notin warned /\ <<"rendered_twice", n>> \notin warned
    BY <2>4 DEF ErrorInv, Decided
  <2>6. QED
    BY <1>2, <2>1, <2>2, <2>3, <2>4, <2>5 DEF Decided
<1>11. QED
  BY <1>3, <1>7, <1>9, <1>10 DEF ErrorInv

\* What is said of a type in the end.
Repeats(adt) ==
  /\ items[error_impls[adt]].source /\ items[error_impls[adt]].error_fields # {}
  /\ renders_source(items[display_impls[adt]], items[error_impls[adt]].error_fields)

LEMMA DecidingKeepsErrors ==
  ASSUME ErrorInv, NEW adt, check_crate_post(adt)
  PROVE  ErrorInv'
<1>1. /\ at > Len(items) /\ adt \in DOMAIN error_impls
      /\ decided' = decided \union {adt}
      /\ UNCHANGED <<items, adts, at, error_impls, display_impls>>
  BY DEF check_crate_post
<1>2. warned' = warned \union
        (IF adt \in DOMAIN display_impls
         THEN {<<"manual_impls", error_impls[adt]>>}
              \union (IF Repeats(adt) THEN {<<"rendered_twice", display_impls[adt]>>} ELSE {})
         ELSE {})
  BY DEF check_crate_post, Repeats
<1>3. TypesKnown'
  BY <1>1 DEF ErrorInv, TypesKnown
<1>4. KeepsLast(error_impls, "Error", at)' /\ KeepsLast(display_impls, "Display", at)'
  BY <1>1 DEF ErrorInv, KeepsLast, Written
<1>5. Deciding'
  <2>1. error_impls[adt] \in DOMAIN items
    BY <1>1 DEF ErrorInv, KeepsLast, Written
  <2>2. adt \in DOMAIN display_impls => display_impls[adt] \in DOMAIN items
    BY <1>1 DEF ErrorInv, KeepsLast, Written
  <2>3. \A w \in warned' : w[2] \in DOMAIN items
    BY <1>2, <2>1, <2>2 DEF ErrorInv, Deciding
  <2>4. QED
    BY <1>1, <2>3 DEF ErrorInv, Deciding
<1>6. Decided'
  <2>1. \A n : <<"manual_impls", n>> \in warned' <=>
          \/ <<"manual_impls", n>> \in warned
          \/ adt \in DOMAIN display_impls /\ n = error_impls[adt]
    BY <1>2
  <2>2. \A n : <<"rendered_twice", n>> \in warned' <=>
          \/ <<"rendered_twice", n>> \in warned
          \/ adt \in DOMAIN display_impls /\ Repeats(adt) /\ n = display_impls[adt]
    BY <1>2
  <2>3. \A n : <<"no_source", n>> \in warned' => <<"no_source", n>> \in warned
    BY <1>2
  <2>4. \A n : <<"manual_impls", n>> \in warned' <=>
          \E a \in (decided \union {adt}) \intersect DOMAIN display_impls : n = error_impls[a]
    BY <2>1 DEF ErrorInv, Decided
  <2>5. \A n : <<"rendered_twice", n>> \in warned' <=>
          \E a \in (decided \union {adt}) \intersect DOMAIN display_impls : n = display_impls[a] /\ Repeats(a)
    BY <2>2 DEF ErrorInv, Decided, Repeats
  <2>6. QED
    BY <1>1, <2>3, <2>4, <2>5 DEF ErrorInv, Decided, Repeats, renders_source
<1>7. QED
  BY <1>3, <1>4, <1>5, <1>6 DEF ErrorInv

LEMMA ErrorKept ==
  ASSUME ErrorInv, [ErrorNext]_error_vars
  PROVE  ErrorInv'
<1>1. CASE CheckFn \/ CheckItem
  BY <1>1, ItemStep, VisitKeepsErrors DEF ErrorInv
<1>2. CASE \E adt \in DOMAIN adts : check_crate_post(adt)
  BY <1>2, DecidingKeepsErrors
<1>3. CASE UNCHANGED error_vars
  BY <1>3 DEF error_vars, ErrorInv, TypesKnown, KeepsLast, Deciding, Decided, Written, renders_source
<1>4. QED
  BY <1>1, <1>2, <1>3 DEF ErrorNext

\* The impl of a type that a map holds in the end.
LEMMA LastImpl ==
  ASSUME TypesKnown, at > Len(items), NEW map, NEW trait, KeepsLast(map, trait, at), NEW adt
  PROVE  /\ adt \in DOMAIN map <=> Written(trait, adt) # {}
         /\ adt \in DOMAIN map => /\ map[adt] \in Written(trait, adt)
                                  /\ \A m \in Written(trait, adt) : m <= map[adt]
<1>1. \A n \in Written(trait, adt) : n < at
  BY DEF Written, TypesKnown
<1>2. QED
  BY <1>1 DEF KeepsLast

LEMMA PairsExact == ErrorInv => PairsAreNamed
<1> SUFFICES ASSUME ErrorInv PROVE PairsAreNamed
  OBVIOUS
<1>1. \A trait, adt : Written(trait, adt) # {} => adt \in DOMAIN adts
  BY DEF Written, ErrorInv, TypesKnown
<1>2. ErrorTypeOK
  BY <1>1 DEF ErrorTypeOK, ErrorInv, TypesKnown, Deciding, KeepsLast
<1>3. ASSUME AllDecided, NEW adt \in DOMAIN adts
      PROVE  {n \in Written("Error", adt) : <<"manual_impls", n>> \in warned} =
               IF Written("Display", adt) = {} THEN {}
               ELSE {n \in Written("Error", adt) : \A m \in Written("Error", adt) : m <= n}
  <2>1. at > Len(items) /\ decided = DOMAIN error_impls
    BY <1>3 DEF AllDecided
  <2>2. \A a : /\ a \in DOMAIN error_impls <=> Written("Error", a) # {}
               /\ a \in DOMAIN error_impls => /\ error_impls[a] \in Written("Error", a)
                                              /\ \A m \in Written("Error", a) : m <= error_impls[a]
    BY <2>1, LastImpl DEF ErrorInv
  <2>3. \A a : a \in DOMAIN display_impls <=> Written("Display", a) # {}
    BY <2>1, LastImpl DEF ErrorInv
  <2>4. \A a : \A n \in Written("Error", a) : items[n].adt = a
    BY DEF Written
  <2>5. \A n \in Written("Error", adt) :
          <<"manual_impls", n>> \in warned <=> Written("Display", adt) # {} /\ n = error_impls[adt]
    <3> SUFFICES ASSUME NEW n \in Written("Error", adt)
                 PROVE  <<"manual_impls", n>> \in warned <=> Written("Display", adt) # {} /\ n = error_impls[adt]
      OBVIOUS
    <3>1. <<"manual_impls", n>> \in warned <=>
            \E a \in DOMAIN error_impls \intersect DOMAIN display_impls : n = error_impls[a]
      BY <2>1 DEF ErrorInv, Decided
    <3>2. \A a \in DOMAIN error_impls : n = error_impls[a] => a = adt
      BY <2>2, <2>4
    <3>3. adt \in DOMAIN error_impls
      BY <2>2
    <3>4. QED
      BY <2>3, <3>1, <3>2, <3>3
  <2>6. Written("Error", adt) \subseteq Nat
    BY DEF Written, ErrorInv, TypesKnown
  <2>7. \A n \in Written("Error", adt) :
          n = error_impls[adt] <=> \A m \in Written("Error", adt) : m <= n
    BY <2>2, <2>6
  <2>8. QED
    BY <2>5, <2>7
<1>4. HandWrittenPairsAreNamed
  BY <1>3 DEF HandWrittenPairsAreNamed
<1>5. QED
  BY <1>2, <1>4 DEF PairsAreNamed

LEMMA RepetitionExact == ErrorInv => RepetitionIsReal
<1> SUFFICES ASSUME ErrorInv, AllDecided, NEW adt \in DOMAIN adts,
                    NEW error \in Written("Error", adt), NEW display \in Written("Display", adt),
                    Written("Error", adt) = {error}
             PROVE  /\ ~(<<"rendered_twice", display>> \in warned /\ <<"no_source", error>> \in warned)
                    /\ Written("Display", adt) = {display} =>
                         (<<"rendered_twice", display>> \in warned <=>
                            /\ items[error].source /\ items[error].error_fields # {}
                            /\ ({"error"} \union items[error].error_fields) \intersect ToSet(items[display].fmt) # {})
  BY DEF RepetitionIsReal
<1>1. at > Len(items) /\ decided = DOMAIN error_impls
  BY DEF AllDecided
<1>2. adt \in DOMAIN error_impls /\ error_impls[adt] = error
  BY <1>1, LastImpl DEF ErrorInv
<1>3. \A a \in DOMAIN display_impls : display_impls[a] = display => a = adt
  BY <1>1, LastImpl DEF ErrorInv, Written
<1>4. <<"rendered_twice", display>> \in warned <=>
        /\ adt \in DOMAIN display_impls /\ display_impls[adt] = display
        /\ items[error].source /\ items[error].error_fields # {}
        /\ renders_source(items[display], items[error].error_fields)
  BY <1>1, <1>2, <1>3 DEF ErrorInv, Decided
<1>5. <<"no_source", error>> \in warned => ~items[error].source
  BY DEF ErrorInv, Decided
<1>6. Written("Display", adt) = {display} => adt \in DOMAIN display_impls /\ display_impls[adt] = display
  BY <1>1, LastImpl DEF ErrorInv
<1>7. renders_source(items[display], items[error].error_fields) <=>
        ({"error"} \union items[error].error_fields) \intersect ToSet(items[display].fmt) # {}
  BY DEF renders_source, ToSet
<1>8. QED
  BY <1>4, <1>5, <1>6, <1>7

\* In every crate, and in whatever order check_crate_post takes the types, those
\* with both impls by hand are reported, each at the last of its Error impls.
THEOREM PairsNamed == ErrorSpec => []PairsAreNamed
<1>1. QED
  BY ErrorInitially, ErrorKept, PairsExact, PTL DEF ErrorSpec

\* In every crate, the Display of a type with one Error impl is reported exactly
\* if there is a source() and fmt evaluates a field that is an error; source() is then not
\* called missing.
THEOREM RepetitionTold == ErrorSpec => []RepetitionIsReal
<1>1. QED
  BY ErrorInitially, ErrorKept, RepetitionExact, PTL DEF ErrorSpec

-----------------------------------------------------------------------------
(***************************************************************************)
(* LogMacros.                                                              *)
(***************************************************************************)

-----------------------------------------------------------------------------
(* How deep a token stands. *)

\* The tokens of a kind before i.
Before(tokens, kind, i) == {j \in 1..(i - 1) : tokens[j] \in kind}
Opening == {"open", "bracket"}

LEMMA BeforeGrows ==
  ASSUME NEW tokens, NEW kind, NEW i \in Nat \ {0}
  PROVE  /\ Cardinality(Before(tokens, kind, i)) \in Nat
         /\ Cardinality(Before(tokens, kind, i + 1)) =
              Cardinality(Before(tokens, kind, i)) + (IF tokens[i] \in kind THEN 1 ELSE 0)
<1> DEFINE S == Before(tokens, kind, i)
<1>1. IsFiniteSet(S)
  <2>1. IsFiniteSet(1..(i - 1))
    BY FS_Interval
  <2>2. S \in SUBSET (1..(i - 1))
    BY DEF Before
  <2>3. QED
    BY <2>1, <2>2, FS_Subset
<1>2. Before(tokens, kind, i + 1) = IF tokens[i] \in kind THEN S \cup {i} ELSE S
  BY DEF Before
<1>3. i \notin S
  BY DEF Before
<1> HIDE DEF S
<1>4. Cardinality(S \cup {i}) = Cardinality(S) + 1
  BY <1>1, <1>3, FS_AddElement
<1>5. Cardinality(S) \in Nat
  BY <1>1, FS_CardinalityType
<1>6. CASE tokens[i] \in kind
  BY <1>2, <1>4, <1>5, <1>6 DEF S
<1>7. CASE tokens[i] \notin kind
  BY <1>2, <1>5, <1>7 DEF S
<1>8. QED
  BY <1>6, <1>7

LEMMA DepthStep ==
  ASSUME NEW tokens, NEW i \in Nat \ {0}
  PROVE  /\ Depth(tokens, 1) = 0 /\ Depth(tokens, i) \in Int
         /\ Depth(tokens, i + 1) = CASE tokens[i] \in Opening -> Depth(tokens, i) + 1
                                     [] tokens[i] = "close" -> Depth(tokens, i) - 1
                                     [] OTHER -> Depth(tokens, i)
<1>1. \A n \in Nat : Depth(tokens, n) = Cardinality(Before(tokens, Opening, n)) - Cardinality(Before(tokens, {"close"}, n))
  BY DEF Depth, Before, Opening
<1>2. Before(tokens, Opening, 1) = {} /\ Before(tokens, {"close"}, 1) = {}
  BY DEF Before
<1>3. Depth(tokens, 1) = 0
  <2>1. Depth(tokens, 1) = Cardinality({}) - Cardinality({})
    BY <1>1, <1>2, 1 \in Nat, Zenon
  <2>2. Cardinality({}) = 0
    BY FS_EmptySet
  <2>3. QED
    BY <2>1, <2>2
<1>4. /\ Cardinality(Before(tokens, Opening, i)) \in Nat
      /\ Cardinality(Before(tokens, Opening, i + 1)) =
              Cardinality(Before(tokens, Opening, i)) + (IF tokens[i] \in Opening THEN 1 ELSE 0)
      /\ Cardinality(Before(tokens, {"close"}, i)) \in Nat
      /\ Cardinality(Before(tokens, {"close"}, i + 1)) =
              Cardinality(Before(tokens, {"close"}, i)) + (IF tokens[i] \in {"close"} THEN 1 ELSE 0)
  BY BeforeGrows
<1>5. Depth(tokens, i) \in Int
  BY <1>1, <1>4
<1>6. QED
  BY <1>1, <1>3, <1>4, <1>5 DEF Opening

-----------------------------------------------------------------------------
(* Scans that read on from a later position. *)

\* next is where a scan of n positions reads on, 0 where it ends, and last what
\* it then finds.
ReadsOn(n, next) == /\ next \in [1..n -> Nat]
                    /\ \A i \in 1..n : next[i] = 0 \/ (next[i] > i /\ next[i] <= n)
IsScan(n, next, last, f) == \A i \in 1..n : f[i] = IF next[i] = 0 THEN last[i] ELSE f[next[i]]

LEMMA ScanExists ==
  ASSUME NEW n \in Nat, NEW next, NEW Found, NEW last \in [1..n -> Found], ReadsOn(n, next)
  PROVE  \E f \in [1..n -> Found] : IsScan(n, next, last, f)
<1> USE DEF ReadsOn
<1> DEFINE From(k, f) == \A i \in (n + 1 - k)..n :
                           f[i] \in Found /\ f[i] = IF next[i] = 0 THEN last[i] ELSE f[next[i]]
           S == {k \in Nat : \E f : From(k, f)}
<1>1. 0 \in S
  <2>1. From(0, last)
    OBVIOUS
  <2>2. QED
    BY <2>1
<1>2. ASSUME NEW k \in 1..n, k - 1 \in S PROVE k \in S
  <2>1. PICK f : From(k - 1, f)
    BY <1>2
  <2> DEFINE i == n + 1 - k
             v == IF next[i] = 0 THEN last[i] ELSE f[next[i]]
             g == [j \in 1..n |-> IF j = i THEN v ELSE f[j]]
  <2>2. i \in 1..n /\ n + 1 - (k - 1) = i + 1
    OBVIOUS
  <2>3. \A j \in 1..n : g[j] = IF j = i THEN v ELSE f[j]
    OBVIOUS
  <2>4. \A j \in 1..n : next[j] # 0 => next[j] \in 1..n /\ next[j] > j
    OBVIOUS
  <2> HIDE DEF g
  <2>5. ASSUME NEW j \in (n + 1 - k)..n
        PROVE  g[j] \in Found /\ g[j] = IF next[j] = 0 THEN last[j] ELSE g[next[j]]
    <3>1. j \in 1..n /\ j >= i
      BY <2>2
    <3>2. next[j] # 0 => next[j] \in 1..n /\ next[j] # i /\ g[next[j]] = f[next[j]]
      BY <2>2, <2>3, <2>4, <3>1
    <3>3. CASE j = i
      <4>1. next[i] # 0 => f[next[i]] \in Found
        <5>1. next[i] # 0 => next[i] \in (n + 1 - (k - 1))..n
          BY <2>2, <2>4
        <5>2. QED
          BY <2>1, <5>1
      <4>2. last[i] \in Found
        BY <2>2
      <4>3. v \in Found
        BY <4>1, <4>2
      <4>4. QED
        BY <2>3, <3>1, <3>2, <3>3, <4>3
    <3>4. CASE j # i
      <4>1. j \in (n + 1 - (k - 1))..n
        BY <2>2, <3>1, <3>4
      <4>2. f[j] \in Found /\ f[j] = IF next[j] = 0 THEN last[j] ELSE f[next[j]]
        BY <2>1, <4>1
      <4>3. QED
        BY <2>3, <3>1, <3>2, <3>4, <4>2
    <3>5. QED
      BY <3>3, <3>4
  <2>6. From(k, g)
    BY <2>5
  <2>7. QED
    BY <2>6
<1>3. n \in S
  <2> HIDE DEF S
  <2>1. \A k \in 1..n : k - 1 \in S => k \in S
    BY <1>2
  <2>2. \A k \in 0..n : k \in S
    BY <1>1, <2>1, Induction
  <2>3. QED
    BY <2>2
<1>4. PICK f : From(n, f)
  BY <1>3
<1>5. \A i \in 1..n : f[i] \in Found /\ f[i] = IF next[i] = 0 THEN last[i] ELSE f[next[i]]
  BY <1>4
<1> DEFINE g == [i \in 1..n |-> f[i]]
<1>6. \A i \in 1..n : next[i] # 0 => next[i] \in 1..n
  OBVIOUS
<1>7. \A i \in 1..n : g[i] = IF next[i] = 0 THEN last[i] ELSE g[next[i]]
  BY <1>5, <1>6
<1>8. g \in [1..n -> Found]
  BY <1>5
<1>9. QED
  BY <1>7, <1>8 DEF IsScan

-----------------------------------------------------------------------------
(* Format strings. *)

\* A run of braces of odd length that ends in the literal; the one at i may
\* have begun before.
IsOddRun(chars, i, j, e) ==
  /\ i <= j /\ j <= e /\ (e - j) % 2 = 0 /\ \A k \in j..e : chars[k] = "brace"
  /\ j > i => chars[j - 1] # "brace"
  /\ e < Len(chars) => chars[e + 1] # "brace"
OddRun(chars, i) == \E e, j \in DOMAIN chars : IsOddRun(chars, i, j, e)

LEMMA OddRunStep ==
  ASSUME NEW chars, Len(chars) \in Nat, DOMAIN chars = 1..Len(chars), NEW i \in DOMAIN chars
  PROVE  /\ chars[i] # "brace" => (OddRun(chars, i) <=> OddRun(chars, i + 1))
         /\ chars[i] = "brace" /\ i < Len(chars) /\ chars[i + 1] = "brace" =>
              (OddRun(chars, i) <=> OddRun(chars, i + 2))
         /\ chars[i] = "brace" /\ ~(i < Len(chars) /\ chars[i + 1] = "brace") => OddRun(chars, i)
<1>1. DOMAIN chars = 1..Len(chars) /\ Len(chars) \in Nat
  OBVIOUS
<1>2. ASSUME chars[i] # "brace" PROVE OddRun(chars, i) <=> OddRun(chars, i + 1)
  <2>1. ASSUME NEW e \in DOMAIN chars, NEW j \in DOMAIN chars, IsOddRun(chars, i, j, e)
        PROVE  IsOddRun(chars, i + 1, j, e)
    <3>1. chars[j] = "brace"
      BY <1>1, <2>1 DEF IsOddRun
    <3>2. QED
      BY <1>1, <1>2, <2>1, <3>1 DEF IsOddRun
  <2>2. OddRun(chars, i) => OddRun(chars, i + 1)
    BY <2>1 DEF OddRun
  <2>3. ASSUME OddRun(chars, i + 1) PROVE OddRun(chars, i)
    <3>1. PICK e, j \in DOMAIN chars : IsOddRun(chars, i + 1, j, e)
      BY <2>3 DEF OddRun
    <3>2. IsOddRun(chars, i, j, e)
      BY <1>1, <1>2, <3>1 DEF IsOddRun
    <3>3. QED
      BY <3>2 DEF OddRun
  <2>4. QED
    BY <2>2, <2>3
<1>3. ASSUME chars[i] = "brace", i < Len(chars), chars[i + 1] = "brace"
      PROVE  OddRun(chars, i) <=> OddRun(chars, i + 2)
  <2>1. ASSUME OddRun(chars, i) PROVE OddRun(chars, i + 2)
    <3>1. PICK e, j \in DOMAIN chars : IsOddRun(chars, i, j, e)
      BY <2>1 DEF OddRun
    <3>2. e \in Int /\ j \in Int /\ i \in Int
      BY <1>1
    <3>3. CASE j = i
      <4>1. e # i /\ e # i + 1
        BY <1>1, <1>3, <3>1, <3>2, <3>3 DEF IsOddRun
      <4>2. i + 2 \in DOMAIN chars /\ IsOddRun(chars, i + 2, i + 2, e)
        BY <1>1, <3>1, <3>2, <3>3, <4>1 DEF IsOddRun
      <4>3. QED
        BY <4>2 DEF OddRun
    <3>4. CASE j # i
      <4>1. j - 1 # i /\ j - 1 # i + 1
        BY <1>1, <1>3, <3>1, <3>2, <3>4 DEF IsOddRun
      <4>2. i <= j /\ j <= e /\ (e - j) % 2 = 0 /\ \A k \in j..e : chars[k] = "brace"
        BY <3>1 DEF IsOddRun
      <4>3. i + 2 <= j /\ (j > i + 2 => j > i)
        BY <3>2, <3>4, <4>1, <4>2
      <4>4. /\ j > i => chars[j - 1] # "brace"
            /\ e < Len(chars) => chars[e + 1] # "brace"
        BY <3>1 DEF IsOddRun
      <4>5. IsOddRun(chars, i + 2, j, e)
        BY <4>2, <4>3, <4>4 DEF IsOddRun
      <4>6. QED
        BY <4>5 DEF OddRun
    <3>5. QED
      BY <3>3, <3>4
  <2>2. ASSUME OddRun(chars, i + 2) PROVE OddRun(chars, i)
    <3>1. PICK e, j \in DOMAIN chars : IsOddRun(chars, i + 2, j, e)
      BY <2>2 DEF OddRun
    <3>2. e \in Int /\ j \in Int /\ i \in Int
      BY <1>1
    <3>3. CASE j = i + 2
      <4>1. IsOddRun(chars, i, i, e)
        BY <1>1, <1>3, <3>1, <3>2, <3>3 DEF IsOddRun
      <4>2. QED
        BY <4>1 DEF OddRun
    <3>4. CASE j # i + 2
      <4>1. IsOddRun(chars, i, j, e)
        BY <3>1, <3>2, <3>4 DEF IsOddRun
      <4>2. QED
        BY <4>1 DEF OddRun
    <3>5. QED
      BY <3>3, <3>4
  <2>3. QED
    BY <2>1, <2>2
<1>4. ASSUME chars[i] = "brace", ~(i < Len(chars) /\ chars[i + 1] = "brace") PROVE OddRun(chars, i)
  <2>1. IsOddRun(chars, i, i, i)
    BY <1>1, <1>4 DEF IsOddRun
  <2>2. QED
    BY <2>1 DEF OddRun
<1>5. QED
  BY <1>2, <1>3, <1>4

\* What the scan of a literal finds from i on.
LEMMA PlaceholderScan ==
  ASSUME NEW chars, chars \in Seq(ToSet(chars)), NEW from,
         from = [i \in 1..(Len(chars) + 1) |->
                   IF i > Len(chars) THEN FALSE
                   ELSE IF chars[i] # "brace" THEN from[i + 1]
                   ELSE IF i < Len(chars) /\ chars[i + 1] = "brace" THEN from[i + 2]
                   ELSE TRUE]
  PROVE  from[1] <=> OddRun(chars, 1)
<1> DEFINE N == Len(chars)
           S == {k \in Nat : \A i \in 1..(N + 1) : i >= N + 1 - k => (from[i] <=> OddRun(chars, i))}
<1>1. DOMAIN chars = 1..N /\ N \in Nat
  OBVIOUS
<1>2. \A i \in 1..(N + 1) :
        from[i] = IF i > N THEN FALSE
                  ELSE IF chars[i] # "brace" THEN from[i + 1]
                  ELSE IF i < N /\ chars[i + 1] = "brace" THEN from[i + 2]
                  ELSE TRUE
  BY <1>1
<1>3. 0 \in S
  <2>1. ~ OddRun(chars, N + 1)
    BY <1>1 DEF OddRun, IsOddRun
  <2>2. ~ from[N + 1]
    BY <1>1, <1>2
  <2>3. \A i \in 1..(N + 1) : i >= N + 1 - 0 => i = N + 1
    BY <1>1
  <2>4. QED
    BY <2>1, <2>2, <2>3
<1>4. ASSUME NEW k \in 1..N, k - 1 \in S PROVE k \in S
  <2> DEFINE i == N + 1 - k
  <2>1. i \in 1..N /\ i + 1 \in 1..(N + 1) /\ i + 1 >= N + 1 - (k - 1) /\ i \in 1..(N + 1) /\ ~(i > N)
    BY <1>1
  <2>2. i < N => i + 2 \in 1..(N + 1) /\ i + 2 >= N + 1 - (k - 1)
    BY <1>1
  <2>3. from[i + 1] <=> OddRun(chars, i + 1)
    BY <1>4, <2>1
  <2>4. i < N => (from[i + 2] <=> OddRun(chars, i + 2))
    BY <1>4, <2>2
  <2> HIDE DEF S, i, N
  <2>5. /\ chars[i] # "brace" => (OddRun(chars, i) <=> OddRun(chars, i + 1))
        /\ chars[i] = "brace" /\ i < N /\ chars[i + 1] = "brace" => (OddRun(chars, i) <=> OddRun(chars, i + 2))
        /\ chars[i] = "brace" /\ ~(i < N /\ chars[i + 1] = "brace") => OddRun(chars, i)
    BY <1>1, <2>1, OddRunStep DEF N
  <2>10. from[i] <=> OddRun(chars, i)
    <3>6. CASE chars[i] # "brace"
      <4>1. from[i] = from[i + 1]
        BY <1>2, <2>1, <3>6
      <4>2. QED
        BY <2>3, <2>5, <3>6, <4>1
    <3>7. CASE chars[i] = "brace" /\ i < N /\ chars[i + 1] = "brace"
      <4>1. from[i] = from[i + 2]
        BY <1>2, <2>1, <3>7
      <4>2. QED
        BY <2>4, <2>5, <3>7, <4>1
    <3>8. CASE chars[i] = "brace" /\ ~(i < N /\ chars[i + 1] = "brace")
      <4>1. from[i] = TRUE
        BY <1>2, <2>1, <3>8
      <4>2. QED
        BY <2>5, <3>8, <4>1
    <3>9. QED
      BY <3>6, <3>7, <3>8
  <2>11. \A m \in 1..(N + 1) : m >= N + 1 - k => m = i \/ m >= N + 1 - (k - 1)
    BY <1>1 DEF i
  <2>12. \A m \in 1..(N + 1) : m >= N + 1 - (k - 1) => (from[m] <=> OddRun(chars, m))
    BY <1>4 DEF S
  <2>13. \A m \in 1..(N + 1) : m >= N + 1 - k => (from[m] <=> OddRun(chars, m))
    BY <2>10, <2>11, <2>12
  <2>14. k \in Nat
    BY <1>1
  <2>15. QED
    BY <2>13, <2>14 DEF S
<1>5. N \in S
  <2> HIDE DEF S
  <2>1. \A k \in 1..N : k - 1 \in S => k \in S
    BY <1>4
  <2>2. \A k \in 0..N : k \in S
    BY <1>1, <1>3, <2>1, Induction
  <2>3. QED
    BY <1>1, <2>2
<1>6. QED
  BY <1>1, <1>5

\* The literal has a brace that is not doubled, if only that of an escape.
SingleBrace(literal) ==
  LET chars == Literals[literal]
  IN  \E i \in DOMAIN chars, j \in DOMAIN chars :
        /\ j <= i /\ (i - j) % 2 = 0 /\ \A k \in j..i : chars[k] = "brace"
        /\ j > 1 => chars[j - 1] # "brace"
        /\ i < Len(chars) => chars[i + 1] # "brace"

LEMMA Placeholders ==
  ASSUME NEW literal \in DOMAIN Literals
  PROVE  has_format_placeholders(literal) <=> SingleBrace(literal)
<1> DEFINE chars == Literals[literal]
           N == Len(chars)
           Scan(f) == [i \in 1..(N + 1) |->
                         IF i > N THEN FALSE
                         ELSE IF chars[i] # "brace" THEN f[i + 1]
                         ELSE IF i < N /\ chars[i + 1] = "brace" THEN f[i + 2]
                         ELSE TRUE]
           next == [i \in 1..(N + 1) |->
                      IF i > N THEN 0
                      ELSE IF chars[i] # "brace" THEN i + 1
                      ELSE IF i < N /\ chars[i + 1] = "brace" THEN i + 2
                      ELSE 0]
           last == [i \in 1..(N + 1) |-> IF i > N THEN FALSE ELSE TRUE]
<1>1. chars \in Seq(ToSet(chars))
  BY LiteralsAssumption DEF LiteralsAssumption
<1>2. N \in Nat /\ DOMAIN chars = 1..N
  BY <1>1
<1> HIDE DEF chars, N
<1>3. next \in [1..(N + 1) -> Nat] /\ \A i \in 1..(N + 1) : next[i] = 0 \/ (next[i] > i /\ next[i] <= N + 1)
  BY <1>2
<1>4. PICK f \in [1..(N + 1) -> BOOLEAN] : IsScan(N + 1, next, last, f)
  <2> DEFINE M == N + 1
             Found == BOOLEAN
  <2>1. M \in Nat
    BY <1>2
  <2>2. ReadsOn(M, next)
    BY <1>3 DEF ReadsOn
  <2>3. last \in [1..M -> Found]
    OBVIOUS
  <2> HIDE DEF next, last, M, Found
  <2>4. \E f \in [1..M -> Found] : IsScan(M, next, last, f)
    BY <2>1, <2>2, <2>3, ScanExists
  <2>5. QED
    BY <2>4 DEF M, Found
<1>5. f = Scan(f)
  <2>1. ASSUME NEW i \in 1..(N + 1)
        PROVE  f[i] = IF i > N THEN FALSE
                      ELSE IF chars[i] # "brace" THEN f[i + 1]
                      ELSE IF i < N /\ chars[i + 1] = "brace" THEN f[i + 2]
                      ELSE TRUE
    <3>1. next[i] = IF i > N THEN 0
                    ELSE IF chars[i] # "brace" THEN i + 1
                    ELSE IF i < N /\ chars[i + 1] = "brace" THEN i + 2
                    ELSE 0
      OBVIOUS
    <3>2. last[i] = IF i > N THEN FALSE ELSE TRUE
      OBVIOUS
    <3> HIDE DEF next, last
    <3>3. f[i] = IF next[i] = 0 THEN last[i] ELSE f[next[i]]
      BY <1>4 DEF IsScan
    <3>4. CASE i > N
      <4>1. next[i] = 0
        BY <3>1, <3>4, Zenon
      <4>2. f[i] = FALSE
        BY <3>2, <3>3, <3>4, <4>1, Zenon
      <4>3. QED
        BY <3>4, <4>2, Zenon
    <3>5. CASE i <= N /\ chars[i] # "brace"
      <4>1. ~(i > N) /\ next[i] = i + 1 /\ next[i] # 0
        BY <1>2, <3>1, <3>5
      <4>2. QED
        BY <3>3, <3>5, <4>1, Zenon
    <3>6. CASE i <= N /\ chars[i] = "brace" /\ i < N /\ chars[i + 1] = "brace"
      <4>1. ~(i > N) /\ next[i] = i + 2 /\ next[i] # 0
        BY <1>2, <3>1, <3>6
      <4>2. QED
        BY <3>3, <3>6, <4>1, Zenon
    <3>7. CASE i <= N /\ chars[i] = "brace" /\ ~(i < N /\ chars[i + 1] = "brace")
      <4>1. ~(i > N) /\ next[i] = 0
        BY <1>2, <3>1, <3>7
      <4>2. f[i] = TRUE
        BY <3>2, <3>3, <3>7, <4>1, Zenon
      <4>3. QED
        BY <3>7, <4>1, <4>2, Zenon
    <3>8. i > N \/ i <= N
      BY <1>2
    <3>9. QED
      BY <3>4, <3>5, <3>6, <3>7, <3>8, Zenon
  <2>2. f = [i \in 1..(N + 1) |-> f[i]]
    BY <1>4
  <2>3. QED
    BY <2>1, <2>2
<1> DEFINE from == CHOOSE g : g = Scan(g)
<1>6. from = Scan(from)
  BY <1>5
<1>7. has_format_placeholders(literal) <=> from[1]
  BY DEF has_format_placeholders, chars, N
<1>8. from[1] <=> OddRun(chars, 1)
  <2> HIDE DEF from
  <2>1. QED
    BY <1>1, <1>6, PlaceholderScan DEF N
<1>9. OddRun(chars, 1) <=> SingleBrace(literal)
  <2>1. \A e, j \in DOMAIN chars :
          IsOddRun(chars, 1, j, e) <=> /\ j <= e /\ (e - j) % 2 = 0 /\ \A k \in j..e : chars[k] = "brace"
                                       /\ j > 1 => chars[j - 1] # "brace"
                                       /\ e < Len(chars) => chars[e + 1] # "brace"
    BY <1>2 DEF IsOddRun
  <2>2. QED
    BY <2>1 DEF OddRun, SingleBrace, chars
<1>10. QED
  BY <1>7, <1>8, <1>9

\* The two differ over escapes alone.
LEMMA SingleBraces ==
  ASSUME NEW literal \in DOMAIN Literals
  PROVE  /\ Captures(literal) => SingleBrace(literal)
         /\ SingleBrace(literal) /\ "escape" \notin ToSet(Literals[literal]) => Captures(literal)
<1> DEFINE chars == Literals[literal]
<1>1. chars \in Seq(ToSet(chars))
  BY LiteralsAssumption DEF LiteralsAssumption
<1>2. Captures(literal) => SingleBrace(literal)
  BY DEF Captures, SingleBrace
<1>3. ASSUME SingleBrace(literal), "escape" \notin ToSet(chars) PROVE Captures(literal)
  <2>1. PICK i \in DOMAIN chars, j \in DOMAIN chars :
          /\ j <= i /\ (i - j) % 2 = 0 /\ \A k \in j..i : chars[k] = "brace"
          /\ j > 1 => chars[j - 1] # "brace"
          /\ i < Len(chars) => chars[i + 1] # "brace"
    BY <1>3 DEF SingleBrace
  <2>2. \A k \in DOMAIN chars : chars[k] # "escape"
    BY <1>3 DEF ToSet
  <2>3. j > 1 => j - 1 \in DOMAIN chars
    BY <1>1
  <2>4. j > 1 => chars[j - 1] \notin {"brace", "escape"}
    BY <2>1, <2>2, <2>3
  <2>5. QED
    BY <2>1, <2>4 DEF Captures
<1>4. QED
  BY <1>2, <1>3

-----------------------------------------------------------------------------
(* Calls that the lint reads as they are meant. *)

\* The name is at the beginning; a string in the value follows the colon or
\* stands in parentheses.
IsPlainDirective(text, b, e) ==
  /\ b + 2 < e /\ text[b] \in Directives /\ text[b + 1] = "colon"
  /\ \A i \in (b + 2)..(e - 1) : Depth(text, i) = 0 =>
       text[i] \notin {"comma", "close"} /\ (IsLiteral(text[i]) => i = b + 2)
  /\ Depth(text, e) = 0 /\ (text[e] = "comma" \/ (text[e] = "close" /\ e = Len(text)))

\* The format string follows the directives.
IsPlainCall(call) ==
  LET next == AfterDirectives(call)
  IN  /\ call.text \in Seq(ToSet(call.text)) /\ call.ends \in Seq(DOMAIN call.text)
      /\ \A n \in DOMAIN call.ends : IsPlainDirective(call.text, Begin(call, n), call.ends[n])
      /\ call.fields \in Nat /\ call.fmt \in {0} \union DOMAIN call.text
      /\ call.fmt # 0 => IsLiteral(call.text[call.fmt])
      /\ call.fields > 0 => IsOther(call.text, next) /\ ~IsLiteral(call.text[next])
      /\ call.fields = 0 /\ call.fmt # 0 => call.fmt = next
      /\ call.fields = 0 /\ call.fmt = 0 => \A i \in next..Len(call.text) : ~IsLiteral(call.text[i])

-----------------------------------------------------------------------------
(* Where the parts of a call stand in its text. *)

LEMMA GreatestIs ==
  ASSUME NEW S \in SUBSET Int, NEW m \in S, \A x \in S : x <= m
  PROVE  Max(S) = m
<1>1. \E x \in S : \A y \in S : x >= y
  OBVIOUS
<1>2. Max(S) \in S /\ \A y \in S : Max(S) >= y
  BY <1>1 DEF Max
<1>3. Max(S) \in Int /\ m \in Int /\ Max(S) <= m /\ Max(S) >= m
  BY <1>2
<1>4. QED
  BY <1>3

LEMMA LeastIs ==
  ASSUME NEW S \in SUBSET Int, NEW m \in S, \A x \in S : m <= x
  PROVE  Min(S) = m
<1>1. \E x \in S : \A y \in S : x <= y
  OBVIOUS
<1>2. Min(S) \in S /\ \A y \in S : Min(S) <= y
  BY <1>1 DEF Min
<1>3. Min(S) \in Int /\ m \in Int /\ Min(S) <= m /\ Min(S) >= m
  BY <1>2
<1>4. QED
  BY <1>3

\* A position where a part of the text begins.
Begins(tokens, b) == b = 1 \/ (tokens[b - 1] = "comma" /\ Depth(tokens, b - 1) = 0)

\* Up to the next comma at depth 0 that is where the segment starts.
LEMMA SegmentStart ==
  ASSUME NEW tokens, NEW b \in Nat \ {0}, NEW i \in Nat, b <= i, Begins(tokens, b),
         \A j \in b..(i - 1) : ~(tokens[j] = "comma" /\ Depth(tokens, j) = 0)
  PROVE  seg_start(tokens, i) = b
<1> DEFINE S == {1} \union {j + 1 : j \in {j \in 1..(i - 1) : tokens[j] = "comma" /\ Depth(tokens, j) = 0}}
<1>1. S \in SUBSET Int
  OBVIOUS
<1>2. b \in S
  <2>1. CASE b = 1
    BY <2>1
  <2>2. CASE b # 1
    <3>1. b - 1 \in 1..(i - 1) /\ b = (b - 1) + 1 /\ tokens[b - 1] = "comma" /\ Depth(tokens, b - 1) = 0
      BY <2>2 DEF Begins
    <3>2. QED
      BY <3>1
  <2>3. QED
    BY <2>1, <2>2
<1>3. \A x \in S : x <= b
  OBVIOUS
<1> HIDE DEF S
<1>4. Max(S) = b
  BY <1>1, <1>2, <1>3, GreatestIs
<1>5. QED
  BY <1>4 DEF S, seg_start

\* The commas of a part of the tokens.
LEMMA FirstComma ==
  ASSUME NEW S, NEW tokens \in Seq(S), NEW b \in 1..(Len(tokens) + 1),
         NEW c, c = find_top_level_comma(SubSeq(tokens, b, Len(tokens)))
  PROVE  /\ c \in Nat
         /\ c = 0 => \A j \in b..Len(tokens) : tokens[j] # "comma"
         /\ c # 0 => /\ b + c - 1 \in b..Len(tokens) /\ tokens[b + c - 1] = "comma"
                     /\ \A j \in b..(b + c - 2) : tokens[j] # "comma"
<1> DEFINE N == Len(tokens)
           part == SubSeq(tokens, b, N)
           commas == {i \in DOMAIN part : part[i] = "comma"}
<1>1. N \in Nat /\ b \in Nat /\ b >= 1
  OBVIOUS
<1>2. DOMAIN part = 1..(N + 1 - b) /\ N + 1 - b \in Nat /\ \A i \in 1..(N + 1 - b) : part[i] = tokens[b + i - 1]
  OBVIOUS
<1> HIDE DEF N, part
<1>3. \A j \in b..N : j + 1 - b \in 1..(N + 1 - b) /\ b + (j + 1 - b) - 1 = j
  BY <1>1
<1>4. c = IF commas = {} THEN 0 ELSE Min(commas)
  BY DEF find_top_level_comma, N, part
<1>5. commas \in SUBSET (1..(N + 1 - b))
  BY <1>2
<1>6. \A j \in b..N : tokens[j] = "comma" <=> j + 1 - b \in commas
  <2> TAKE j \in b..N
  <2>1. part[j + 1 - b] = tokens[j]
    BY <1>2, <1>3
  <2>2. QED
    BY <1>2, <1>3, <2>1
<1>7. \A i \in commas : b + i - 1 \in b..N /\ tokens[b + i - 1] = "comma"
  BY <1>1, <1>2
<1> HIDE DEF commas
<1>8. CASE commas = {}
  BY <1>4, <1>6, <1>8 DEF N
<1>9. CASE commas # {}
  <2>1. Min(commas) \in commas /\ \A i \in commas : Min(commas) <= i
    BY <1>2, <1>5, <1>9, MinOfPositions
  <2>2. c \in commas /\ \A i \in commas : c <= i
    BY <1>4, <1>9, <2>1
  <2>3. c \in 1..(N + 1 - b)
    BY <1>5, <2>2
  <2>4. b + c - 1 \in b..N /\ tokens[b + c - 1] = "comma"
    BY <1>7, <2>2
  <2>5. ASSUME NEW j \in b..(b + c - 2) PROVE tokens[j] # "comma"
    <3>1. j \in b..N /\ ~(c <= j + 1 - b)
      BY <1>1, <2>3
    <3>2. QED
      BY <1>6, <2>2, <3>1
  <2>6. QED
    BY <2>3, <2>4, <2>5 DEF N
<1>10. QED
  BY <1>8, <1>9

\* What is at hand about a call once its record is taken apart.
LEMMA CallLaidOut ==
  ASSUME NEW call, IsPlainCall(call)
  PROVE  /\ call.text \in Seq(ToSet(call.text)) /\ Len(call.text) \in Nat /\ DOMAIN call.text = 1..Len(call.text)
         /\ Len(call.ends) \in Nat
         /\ \A n \in 1..Len(call.ends) :
              /\ Begin(call, n) \in Nat \ {0} /\ call.ends[n] \in 1..Len(call.text)
              /\ Begin(call, n) + 2 < call.ends[n] /\ Begin(call, n + 1) = call.ends[n] + 1
              /\ IsPlainDirective(call.text, Begin(call, n), call.ends[n])
              /\ Begins(call.text, Begin(call, n))
         /\ AfterDirectives(call) \in 1..(Len(call.text) + 1)
         /\ AfterDirectives(call) <= Len(call.text) =>
              Begins(call.text, AfterDirectives(call)) /\ Depth(call.text, AfterDirectives(call)) = 0
         /\ AfterDirectives(call) > 1 => Len(call.ends) >= 1 /\ call.ends[Len(call.ends)] = AfterDirectives(call) - 1
<1> DEFINE text == call.text
           ends == call.ends
           N == Len(text)
           D == Len(ends)
<1>1. /\ text \in Seq(ToSet(text)) /\ ends \in Seq(DOMAIN text)
      /\ \A n \in DOMAIN ends : IsPlainDirective(text, Begin(call, n), ends[n])
  BY DEF IsPlainCall
<1>2. N \in Nat /\ DOMAIN text = 1..N /\ D \in Nat /\ DOMAIN ends = 1..D
  BY <1>1
<1>3. \A n \in 1..D : ends[n] \in 1..N
  BY <1>1, <1>2
<1>4. \A n \in 1..(D + 1) : /\ n = 1 => Begin(call, n) = 1
                            /\ n # 1 => n - 1 \in 1..D /\ Begin(call, n) = ends[n - 1] + 1
  BY <1>2 DEF Begin
<1>5. ASSUME NEW n \in 1..(D + 1) PROVE Begin(call, n) \in 1..(N + 1)
  <2> HIDE DEF N, D, ends
  <2>1. n # 1 => ends[n - 1] \in 1..N
    BY <1>3, <1>4
  <2>2. QED
    BY <1>2, <1>4, <2>1
<1>6. ASSUME NEW n \in 1..(D + 1), Begin(call, n) <= N
      PROVE  Begins(text, Begin(call, n)) /\ Depth(text, Begin(call, n)) = 0
  <2>1. CASE n = 1
    BY <1>4, <2>1, DepthStep DEF Begins
  <2>2. CASE n # 1
    <3> DEFINE e == ends[n - 1]
    <3>1. n - 1 \in 1..D /\ Begin(call, n) = e + 1 /\ e \in Nat \ {0}
      BY <1>3, <1>4, <2>2
    <3>2. IsPlainDirective(text, Begin(call, n - 1), e)
      BY <1>1, <1>2, <3>1
    <3>3. e < N
      BY <1>2, <1>6, <3>1
    <3>4. text[e] = "comma" /\ Depth(text, e) = 0
      BY <1>2, <3>2, <3>3 DEF IsPlainDirective
    <3> HIDE DEF e, text
    <3>5. Depth(text, e + 1) = 0
      BY <3>1, <3>4, DepthStep DEF Opening
    <3>6. (e + 1) - 1 = e
      BY <3>1
    <3>7. QED
      BY <3>1, <3>4, <3>5, <3>6 DEF Begins
  <2>3. QED
    BY <2>1, <2>2
<1>7. ASSUME NEW n \in 1..D
      PROVE  /\ Begin(call, n) \in Nat \ {0} /\ ends[n] \in 1..N
             /\ Begin(call, n) + 2 < ends[n] /\ Begin(call, n + 1) = ends[n] + 1
             /\ IsPlainDirective(text, Begin(call, n), ends[n])
             /\ Begins(text, Begin(call, n))
  <2>1. n \in 1..(D + 1) /\ n + 1 \in 1..(D + 1) /\ n + 1 # 1 /\ (n + 1) - 1 = n
    BY <1>2
  <2>2. IsPlainDirective(text, Begin(call, n), ends[n])
    BY <1>1, <1>2
  <2>3. Begin(call, n) + 2 < ends[n]
    BY <2>2 DEF IsPlainDirective
  <2>4. Begin(call, n) \in Nat \ {0} /\ ends[n] \in 1..N
    BY <1>2, <1>3, <1>5, <2>1
  <2>5. Begin(call, n) <= N
    BY <1>2, <2>3, <2>4
  <2>6. Begin(call, n + 1) = ends[n] + 1
    BY <1>4, <2>1
  <2>7. QED
    BY <1>6, <2>1, <2>2, <2>3, <2>4, <2>5, <2>6
<1>8. D + 1 \in 1..(D + 1) /\ (D + 1) - 1 = D
  BY <1>2
<1>9. /\ AfterDirectives(call) \in 1..(N + 1)
      /\ AfterDirectives(call) <= N => Begins(text, AfterDirectives(call)) /\ Depth(text, AfterDirectives(call)) = 0
  BY <1>5, <1>6, <1>8 DEF AfterDirectives
<1>10. AfterDirectives(call) > 1 => D >= 1 /\ ends[D] = AfterDirectives(call) - 1
  <2>1. AfterDirectives(call) > 1 => D + 1 # 1
    BY <1>4, <1>8 DEF AfterDirectives
  <2>2. AfterDirectives(call) > 1 => AfterDirectives(call) = ends[D] + 1 /\ D >= 1
    BY <1>2, <1>4, <1>8, <2>1 DEF AfterDirectives
  <2>3. QED
    BY <1>2, <1>3, <2>2
<1>11. QED
  BY <1>1, <1>2, <1>7, <1>9, <1>10

\* Each position before the fields and the format string is in a directive.
LEMMA InDirective ==
  ASSUME NEW call, IsPlainCall(call), NEW i \in 1..(AfterDirectives(call) - 1)
  PROVE  \E n \in 1..Len(call.ends) : Begin(call, n) <= i /\ i <= call.ends[n]
<1> DEFINE D == Len(call.ends)
           S == {n \in 1..D : i <= call.ends[n]}
<1>1. /\ D \in Nat /\ Len(call.text) \in Nat /\ AfterDirectives(call) \in 1..(Len(call.text) + 1)
      /\ \A n \in 1..D : call.ends[n] \in 1..Len(call.text) /\ Begin(call, n + 1) = call.ends[n] + 1
      /\ AfterDirectives(call) > 1 => D >= 1 /\ call.ends[D] = AfterDirectives(call) - 1
  BY CallLaidOut
<1>2. i \in Nat /\ i >= 1 /\ AfterDirectives(call) > 1 /\ i <= AfterDirectives(call) - 1
  BY <1>1
<1>3. D \in S
  BY <1>1, <1>2
<1>4. PICK n \in S : \A m \in S : n <= m
  <2>1. S \in SUBSET Nat /\ S # {}
    BY <1>3
  <2> HIDE DEF S
  <2>2. QED
    BY <2>1, LeastNat
<1>5. Begin(call, n) <= i
  <2>1. CASE n = 1
    BY <1>2, <2>1 DEF Begin
  <2>2. CASE n # 1
    <3>1. n - 1 \in 1..D /\ ~(n <= n - 1)
      BY <1>4, <2>2
    <3>2. ~(i <= call.ends[n - 1])
      BY <1>4, <3>1
    <3>3. Begin(call, n) = call.ends[n - 1] + 1
      BY <2>2 DEF Begin
    <3>4. call.ends[n - 1] \in Nat
      <4>1. \A m \in 1..D : call.ends[m] \in 1..Len(call.text)
        BY <1>1
      <4> DEFINE m == n - 1
      <4>2. m \in 1..D
        BY <3>1
      <4> HIDE DEF m
      <4>3. call.ends[m] \in 1..Len(call.text)
        BY <4>1, <4>2
      <4>4. call.ends[m] \in Nat
        BY <1>1, <4>3
      <4>5. QED
        BY <4>4 DEF m
    <3>5. QED
      BY <1>2, <3>2, <3>3, <3>4
  <2>3. QED
    BY <2>1, <2>2
<1>6. QED
  BY <1>4, <1>5

\* Before the fields and the format string every string is the value of a
\* directive, and nothing closes the call but the end of its text.
LEMMA StringsInDirectives ==
  ASSUME NEW call, IsPlainCall(call), NEW i \in 1..(AfterDirectives(call) - 1), Depth(call.text, i) = 0
  PROVE  /\ IsLiteral(call.text[i]) => is_directive_value(call.text, i)
         /\ call.text[i] = "close" => i = Len(call.text)
<1> DEFINE text == call.text
<1>1. PICK n \in 1..Len(call.ends) : Begin(call, n) <= i /\ i <= call.ends[n]
  BY InDirective
<1> DEFINE b == Begin(call, n)
           e == call.ends[n]
<1>2. /\ text \in Seq(ToSet(text)) /\ Len(text) \in Nat
      /\ b \in Nat \ {0} /\ e \in 1..Len(text) /\ b + 2 < e /\ Begins(text, b)
      /\ IsPlainDirective(text, b, e)
  BY <1>1, CallLaidOut
<1>3. /\ text[b] \in Directives /\ text[b + 1] = "colon"
      /\ \A j \in (b + 2)..(e - 1) : Depth(text, j) = 0 =>
           text[j] \notin {"comma", "close"} /\ (IsLiteral(text[j]) => j = b + 2)
      /\ text[e] = "comma" \/ (text[e] = "close" /\ e = Len(text))
  BY <1>2 DEF IsPlainDirective
<1>4. \A token \in DOMAIN Literals : token \notin {"open", "bracket", "close", "comma", "colon", "target", "parent"}
  BY LiteralsAssumption DEF LiteralsAssumption, MacroDirectives, Directives
<1>5. text[b] # "close" /\ text[b] # "comma" /\ ~IsLiteral(text[b]) /\ ~IsLiteral(text[b + 1])
  BY <1>3, <1>4 DEF IsLiteral, Directives
<1>6. b <= i /\ i <= e /\ i \in Nat
  BY <1>1, <1>2
<1> HIDE DEF b, e, text
<1>7. i = b \/ i = b + 1 \/ i = e \/ i \in (b + 2)..(e - 1)
  BY <1>2, <1>6
<1>8. CASE i = b \/ i = b + 1
  BY <1>3, <1>5, <1>8 DEF text
<1>9. CASE i = e
  BY <1>3, <1>4, <1>9 DEF text, IsLiteral
<1>10. CASE i \in (b + 2)..(e - 1)
  <2>1. text[i] # "close" /\ (IsLiteral(text[i]) => i = b + 2)
    BY <1>3, <1>10 DEF text
  <2>2. ASSUME i = b + 2 PROVE is_directive_value(text, i)
    <3>1. \A j \in b..(i - 1) : j = b \/ j = b + 1
      BY <1>2, <2>2
    <3>2. \A j \in b..(i - 1) : ~(text[j] = "comma" /\ Depth(text, j) = 0)
      BY <1>3, <1>5, <3>1
    <3>3. seg_start(text, i) = b
      BY <1>2, <1>6, <3>2, SegmentStart
    <3> DEFINE segment == SubSeq(text, b, i - 1)
    <3>4. i - 1 = b + 1 /\ i - 1 <= Len(text)
      BY <1>2, <2>2
    <3>5. Len(segment) = 2 /\ segment[1] = text[b] /\ segment[2] = text[b + 1]
      BY <1>2, <3>4
    <3>6. QED
      BY <1>3, <3>3, <3>5 DEF is_directive_value
  <2>3. QED
    BY <2>1, <2>2 DEF text
<1>11. QED
  BY <1>7, <1>8, <1>9, <1>10

\* Where the lint sees the format string.
LEMMA FormatString ==
  ASSUME NEW call, IsPlainCall(call)
  PROVE  LET p == split_at_format_string(call.text)
         IN  /\ p # 0 => p \in DOMAIN call.text /\ p >= AfterDirectives(call) /\ IsLiteral(call.text[p])
             /\ call.fields = 0 => p = call.fmt
             /\ call.fields > 0 /\ p # 0 => p > AfterDirectives(call)
<1> DEFINE text == call.text
           N == Len(text)
           next == AfterDirectives(call)
           ends == {i \in DOMAIN text : text[i] = "close" /\ Depth(text, i) = 0}
           strings == {i \in DOMAIN text : /\ IsLiteral(text[i]) /\ Depth(text, i) = 0
                                           /\ ~is_directive_value(text, i)
                                           /\ \A e \in ends : i < e}
           p == split_at_format_string(text)
<1>1. /\ text \in Seq(ToSet(text)) /\ N \in Nat /\ DOMAIN text = 1..N
      /\ next \in 1..(N + 1)
      /\ next <= N => Begins(text, next) /\ Depth(text, next) = 0
  BY CallLaidOut
<1>2. p = IF strings = {} THEN 0 ELSE Min(strings)
  BY DEF split_at_format_string
<1>3. \A i \in 1..N : i < next => i \in 1..(next - 1)
  BY <1>1
<1>4. \A i \in strings : i >= next
  <2> SUFFICES ASSUME NEW i \in strings, i < next PROVE FALSE
    BY <1>1
  <2>1. i \in 1..(next - 1)
    BY <1>1, <1>3
  <2>2. is_directive_value(text, i)
    BY <2>1, StringsInDirectives
  <2>3. QED
    BY <2>2
<1>5. strings \in SUBSET (1..N)
  BY <1>1
<1>6. \A token \in DOMAIN Literals : token # "close"
  BY LiteralsAssumption DEF LiteralsAssumption
<1>7. /\ call.fields \in Nat /\ call.fmt \in {0} \union DOMAIN text
      /\ call.fmt # 0 => IsLiteral(text[call.fmt])
      /\ call.fields > 0 => IsOther(text, next) /\ ~IsLiteral(text[next])
      /\ call.fields = 0 /\ call.fmt # 0 => call.fmt = next
      /\ call.fields = 0 /\ call.fmt = 0 => \A i \in next..N : ~IsLiteral(text[i])
  BY DEF IsPlainCall, AfterDirectives
<1> HIDE DEF next
<1>8. \A i \in strings : /\ i \in 1..N /\ IsLiteral(text[i]) /\ \A e \in ends : i < e
  BY <1>1
<1>9. \A i \in ends : i \in 1..N /\ text[i] = "close" /\ Depth(text, i) = 0
  BY <1>1
<1>10. ASSUME p # 0 PROVE p \in strings
  <2> HIDE DEF strings, p
  <2>1. QED
    BY <1>1, <1>2, <1>5, <1>10, MinOfPositions
<1>11. ASSUME call.fields = 0, call.fmt # 0 PROVE p = call.fmt
  <2>1. next = call.fmt /\ next \in 1..N /\ IsLiteral(text[next]) /\ Depth(text, next) = 0
    BY <1>1, <1>7, <1>11
  <2>2. ~is_directive_value(text, next)
    <3>1. \A j \in next..(next - 1) : ~(text[j] = "comma" /\ Depth(text, j) = 0)
      BY <2>1
    <3> HIDE DEF text
    <3>2. seg_start(text, next) = next
      BY <1>1, <2>1, <3>1, SegmentStart
    <3>3. Len(SubSeq(text, next, next - 1)) # 2
      BY <1>1, <2>1
    <3>4. Len(SubSeq(text, seg_start(text, next), next - 1)) # 2
      BY <3>2, <3>3, Zenon
    <3>5. QED
      BY <3>4, Zenon DEF is_directive_value
  <2>3. ASSUME NEW e \in ends PROVE next < e
    <3>1. e # next
      BY <1>6, <1>9, <2>1 DEF IsLiteral
    <3>2. ASSUME e < next PROVE FALSE
      <4>1. e \in 1..(next - 1)
        BY <1>3, <1>9, <3>2
      <4>2. e = N
        BY <1>9, <4>1, StringsInDirectives DEF next
      <4>3. QED
        BY <1>1, <2>1, <3>2, <4>2
    <3>3. QED
      BY <1>9, <2>1, <3>1, <3>2
  <2>4. next \in strings
    BY <1>1, <2>1, <2>2, <2>3
  <2> HIDE DEF strings
  <2>5. \A i \in strings : next <= i
    BY <1>4, <1>5, <2>1
  <2>6. Min(strings) = next
    <3>1. strings \in SUBSET Int
      BY <1>5
    <3>2. QED
      BY <2>4, <2>5, <3>1, LeastIs
  <2>7. QED
    BY <1>2, <2>1, <2>4, <2>6
<1>12. ASSUME call.fields = 0, call.fmt = 0 PROVE p = call.fmt
  <2>1. ASSUME p # 0 PROVE FALSE
    <3>1. p \in 1..N /\ p >= next
      BY <1>4, <1>8, <1>10, <2>1
    <3>2. p \in next..N /\ IsLiteral(text[p])
      BY <1>1, <1>8, <1>10, <2>1, <3>1
    <3>3. QED
      BY <1>7, <1>12, <3>2
  <2>2. QED
    BY <1>12, <2>1
<1>13. ASSUME call.fields > 0, p # 0 PROVE p > next
  <2>1. p \in 1..N /\ IsLiteral(text[p]) /\ p >= next
    BY <1>4, <1>8, <1>10, <1>13
  <2>2. ~IsLiteral(text[next])
    BY <1>7, <1>13
  <2>3. p # next
    BY <2>1, <2>2
  <2>4. QED
    BY <1>1, <2>1, <2>3
<1>14. p # 0 => p \in DOMAIN text /\ p >= next /\ IsLiteral(text[p])
  BY <1>1, <1>4, <1>8, <1>10
<1>15. call.fields = 0 => p = call.fmt
  BY <1>11, <1>12
<1>16. QED
  BY <1>13, <1>14, <1>15 DEF next

\* What strip_leading_directives leaves from each position on.
IsLeft(before, rest) ==
  \A i \in 1..(Len(before) + 1) :
    rest[i] = IF i < Len(before) /\ before[i] \in Directives /\ before[i + 1] = "colon"
              THEN LET comma == find_top_level_comma(SubSeq(before, i + 2, Len(before)))
                   IN  IF comma = 0 THEN << >> ELSE rest[i + 2 + comma]
              ELSE SubSeq(before, i, Len(before))

LEMMA LeftExists ==
  ASSUME NEW S, NEW before \in Seq(S)
  PROVE  \E rest : IsLeft(before, rest) /\ strip_leading_directives(before) = rest[1]
<1> DEFINE N == Len(before)
           Directive(i) == i < N /\ before[i] \in Directives /\ before[i + 1] = "colon"
           comma(i) == find_top_level_comma(SubSeq(before, i + 2, N))
           Left(f) == [i \in 1..(N + 1) |->
                         IF Directive(i) THEN IF comma(i) = 0 THEN << >> ELSE f[i + 2 + comma(i)]
                         ELSE SubSeq(before, i, N)]
           next == [i \in 1..(N + 1) |-> IF Directive(i) /\ comma(i) # 0 THEN i + 2 + comma(i) ELSE 0]
           last == [i \in 1..(N + 1) |-> IF Directive(i) THEN << >> ELSE SubSeq(before, i, N)]
           Found == {last[i] : i \in 1..(N + 1)}
           M == N + 1
<1>1. N \in Nat /\ M \in Nat
  OBVIOUS
<1>2. ASSUME NEW i \in 1..(N + 1), Directive(i), comma(i) # 0
      PROVE  i + 2 + comma(i) \in Nat /\ i + 2 + comma(i) > i /\ i + 2 + comma(i) <= N + 1
  <2> DEFINE c == comma(i)
  <2>1. i + 2 \in 1..(Len(before) + 1)
    BY <1>2
  <2>2. c \in Nat /\ (c # 0 => (i + 2) + c - 1 \in (i + 2)..N)
    <3> HIDE DEF c
    <3>1. c = find_top_level_comma(SubSeq(before, i + 2, Len(before)))
      BY DEF c
    <3>2. QED
      BY <2>1, <3>1, FirstComma
  <2> HIDE DEF c
  <2>3. c # 0
    BY <1>2 DEF c
  <2>4. i + 2 + c \in Nat /\ i + 2 + c > i /\ i + 2 + c <= N + 1
    BY <1>1, <2>2, <2>3
  <2>5. QED
    BY <2>4 DEF c
<1> HIDE DEF comma
<1>3. ReadsOn(M, next)
  BY <1>1, <1>2 DEF ReadsOn
<1>4. last \in [1..M -> Found]
  OBVIOUS
<1>5. PICK f \in [1..M -> Found] : IsScan(M, next, last, f)
  <2> HIDE DEF next, last, M, Found
  <2>1. QED
    BY <1>1, <1>3, <1>4, ScanExists
<1>6. f = Left(f)
  <2>1. ASSUME NEW i \in 1..(N + 1)
        PROVE  f[i] = IF Directive(i) THEN IF comma(i) = 0 THEN << >> ELSE f[i + 2 + comma(i)]
                      ELSE SubSeq(before, i, N)
    <3>1. f[i] = IF next[i] = 0 THEN last[i] ELSE f[next[i]]
      BY <1>5 DEF IsScan
    <3>2. next[i] = IF Directive(i) /\ comma(i) # 0 THEN i + 2 + comma(i) ELSE 0
      OBVIOUS
    <3>3. last[i] = IF Directive(i) THEN << >> ELSE SubSeq(before, i, N)
      OBVIOUS
    <3>4. Directive(i) /\ comma(i) # 0 => i + 2 + comma(i) # 0
      BY <1>2
    <3> HIDE DEF next, last, Directive
    <3>5. QED
      BY <3>1, <3>2, <3>3, <3>4
  <2>2. f = [i \in 1..(N + 1) |-> f[i]]
    BY <1>5
  <2>3. QED
    BY <2>1, <2>2
<1> DEFINE rest == CHOOSE g : g = Left(g)
<1>7. rest = Left(rest)
  BY <1>6
<1>8. strip_leading_directives(before) = rest[1]
  BY DEF strip_leading_directives, comma
<1>9. IsLeft(before, rest)
  <2> HIDE DEF rest
  <2>1. \A i \in 1..(N + 1) :
          rest[i] = IF Directive(i) THEN IF comma(i) = 0 THEN << >> ELSE rest[i + 2 + comma(i)]
                    ELSE SubSeq(before, i, N)
    BY <1>7
  <2>2. QED
    BY <2>1 DEF IsLeft, comma
<1>10. QED
  BY <1>8, <1>9

\* What holds of a position when it holds of all later ones.
LEMMA Downward ==
  ASSUME NEW n \in Nat, NEW S, \A i \in 1..n : (\A j \in 1..n : j > i => j \in S) => i \in S
  PROVE  \A i \in 1..n : i \in S
<1> DEFINE Missing == {k \in Nat : k < n /\ n - k \notin S}
<1> SUFFICES ASSUME NEW i \in 1..n, i \notin S PROVE FALSE
  OBVIOUS
<1>1. n - i \in Missing
  <2>1. n - i \in Nat /\ n - i < n /\ n - (n - i) = i
    OBVIOUS
  <2>2. QED
    BY <2>1
<1>2. PICK k \in Missing : \A m \in Missing : k <= m
  <2>1. Missing \in SUBSET Nat /\ Missing # {}
    BY <1>1
  <2> HIDE DEF Missing
  <2>2. QED
    BY <2>1, LeastNat
<1>3. k \in Nat /\ k < n /\ n - k \notin S /\ n - k \in 1..n
  BY <1>2
<1>4. PICK j \in 1..n : j > n - k /\ j \notin S
  BY <1>3
<1>5. n - j \in Nat /\ n - j < n /\ n - (n - j) = j /\ ~(k <= n - j)
  BY <1>3, <1>4
<1>6. n - j \in Missing
  BY <1>4, <1>5
<1>7. QED
  BY <1>2, <1>5, <1>6

\* The name of the first field stays when the directives are stripped.
LEMMA FieldsAreLeft ==
  ASSUME NEW call, IsPlainCall(call), call.fields > 0,
         NEW p \in DOMAIN call.text, p > AfterDirectives(call)
  PROVE  ~(ToSet(strip_leading_directives(SubSeq(call.text, 1, p - 1))) \subseteq {"comma"})
<1> DEFINE text == call.text
           next == AfterDirectives(call)
           before == SubSeq(text, 1, p - 1)
           N == p - 1
<1>1. /\ text \in Seq(ToSet(text)) /\ Len(text) \in Nat /\ DOMAIN text = 1..Len(text)
      /\ next \in 1..(Len(text) + 1)
      /\ next <= Len(text) => Begins(text, next)
  BY CallLaidOut
<1>2. IsOther(text, next) /\ ~IsLiteral(text[next])
  BY DEF IsPlainCall, AfterDirectives
<1> HIDE DEF next, text
<1>3. N \in 1..Len(text) /\ next \in 1..N /\ next < Len(text) /\ p \in Nat
  BY <1>1 DEF text, next
<1>4. before \in Seq(ToSet(text)) /\ Len(before) = N /\ \A i \in 1..N : before[i] = text[i]
  BY <1>1, <1>3
<1>5. PICK rest : IsLeft(before, rest) /\ strip_leading_directives(before) = rest[1]
  BY <1>4, LeftExists
<1> HIDE DEF before, N
<1> DEFINE S == {i \in 1..next : text[next] \in ToSet(rest[i])}
<1>6. text[next] # "comma" /\ ~(text[next] \in Directives /\ text[next + 1] = "colon")
  BY <1>2, <1>3 DEF IsOther, IsKnown
<1>7. next # 1 => text[next - 1] = "comma"
  BY <1>1, <1>3 DEF Begins
<1>8. ASSUME NEW i \in 1..next, \A j \in 1..next : j > i => j \in S PROVE i \in S
  <2>1. i \in 1..(N + 1) /\ i \in 1..N
    BY <1>3
  <2> DEFINE Directive == i < N /\ before[i] \in Directives /\ before[i + 1] = "colon"
             c == find_top_level_comma(SubSeq(before, i + 2, Len(before)))
  <2>2. rest[i] = IF Directive THEN IF c = 0 THEN << >> ELSE rest[i + 2 + c] ELSE SubSeq(before, i, N)
    BY <1>4, <1>5, <2>1 DEF IsLeft
  <2>3. CASE ~Directive
    <3>1. rest[i] = SubSeq(before, i, N)
      BY <2>2, <2>3
    <3> DEFINE k == next - i + 1
    <3>2. k \in 1..(N + 1 - i) /\ i + k - 1 = next
      BY <1>3, <2>1
    <3>3. Len(rest[i]) = N + 1 - i /\ rest[i][k] = before[i + k - 1] /\ k \in DOMAIN rest[i]
      BY <1>3, <1>4, <2>1, <3>1, <3>2
    <3>4. rest[i][k] = text[next]
      BY <1>3, <1>4, <3>2, <3>3
    <3>5. QED
      BY <3>3, <3>4 DEF ToSet
  <2>4. CASE Directive
    <3>1. text[i] \in Directives /\ text[i + 1] = "colon"
      BY <1>3, <1>4, <2>1, <2>4
    <3>2. i # next
      BY <1>6, <3>1
    <3>3. i # next - 1 /\ i + 1 # next - 1
      BY <1>7, <3>1, <3>2 DEF Directives
    <3>4. next - 1 \in (i + 2)..N /\ i + 2 \in 1..(Len(before) + 1)
      BY <1>3, <1>4, <2>1, <3>2, <3>3
    <3>5. before[next - 1] = "comma"
      BY <1>3, <1>4, <1>7, <3>4
    <3>6. /\ c \in Nat
          /\ c = 0 => \A j \in (i + 2)..N : before[j] # "comma"
          /\ c # 0 => \A j \in (i + 2)..((i + 2) + c - 2) : before[j] # "comma"
      <4> HIDE DEF c
      <4>1. c = find_top_level_comma(SubSeq(before, i + 2, Len(before)))
        BY DEF c
      <4>2. QED
        BY <1>4, <3>4, <4>1, FirstComma
    <3> HIDE DEF c
    <3>7. c # 0 /\ ~(next - 1 <= (i + 2) + c - 2)
      BY <1>3, <2>1, <3>4, <3>5, <3>6
    <3>8. i + 2 + c \in 1..next /\ i + 2 + c > i
      BY <1>3, <2>1, <3>4, <3>6, <3>7
    <3>9. i + 2 + c \in S
      BY <1>8, <3>8
    <3>10. QED
      BY <2>2, <2>4, <3>7, <3>9
  <2>5. QED
    BY <2>3, <2>4
<1>9. 1 \in S
  <2> HIDE DEF S
  <2>1. next \in Nat
    BY <1>3
  <2>2. \A i \in 1..next : (\A j \in 1..next : j > i => j \in S) => i \in S
    BY <1>8
  <2>3. \A i \in 1..next : i \in S
    BY <2>1, <2>2, Downward
  <2>4. QED
    BY <1>3, <2>3
<1>10. text[next] \in ToSet(rest[1])
  BY <1>9
<1>11. QED
  BY <1>5, <1>6, <1>10 DEF before, text

\* Without a comma in their values the directives are stripped entirely.
LEMMA NothingIsLeft ==
  ASSUME NEW call, IsPlainCall(call), ~CommaInside(call), AfterDirectives(call) <= Len(call.text)
  PROVE  strip_leading_directives(SubSeq(call.text, 1, AfterDirectives(call) - 1)) = << >>
<1> DEFINE text == call.text
           next == AfterDirectives(call)
           before == SubSeq(text, 1, next - 1)
           N == next - 1
           D == Len(call.ends)
<1>1. /\ text \in Seq(ToSet(text)) /\ Len(text) \in Nat /\ DOMAIN text = 1..Len(text)
      /\ next \in 1..(Len(text) + 1)
      /\ D \in Nat
      /\ \A n \in 1..D :
              /\ Begin(call, n) \in Nat \ {0} /\ call.ends[n] \in 1..Len(text)
              /\ Begin(call, n) + 2 < call.ends[n] /\ Begin(call, n + 1) = call.ends[n] + 1
              /\ IsPlainDirective(text, Begin(call, n), call.ends[n])
  BY CallLaidOut
<1>2. \A n \in 1..D : \A i \in Begin(call, n)..(call.ends[n] - 1) : text[i] # "comma"
  BY <1>1 DEF CommaInside
<1>3. next = Begin(call, D + 1) /\ next <= Len(text)
  BY DEF AfterDirectives
<1> HIDE DEF next, text, D
<1>4. N \in Nat /\ N + 1 = next /\ N <= Len(text)
  BY <1>1, <1>3
<1>5. before \in Seq(ToSet(text)) /\ Len(before) = N /\ \A i \in 1..N : before[i] = text[i]
  BY <1>1, <1>4
<1>6. PICK rest : IsLeft(before, rest) /\ strip_leading_directives(before) = rest[1]
  BY <1>5, LeftExists
<1>7. SubSeq(before, next, N) = << >>
  BY <1>4, <1>5
<1> HIDE DEF before, N
<1> DEFINE S == {n \in 1..(D + 1) : Begin(call, n) <= next /\ rest[Begin(call, n)] = << >>}
<1>8. D + 1 \in S
  <2>1. next \in 1..(N + 1) /\ ~(next < N)
    BY <1>1, <1>4
  <2>2. rest[next] = SubSeq(before, next, N)
    BY <1>5, <1>6, <2>1 DEF IsLeft
  <2>3. QED
    BY <1>1, <1>3, <1>4, <1>7, <2>2
<1>9. ASSUME NEW n \in 1..D, n + 1 \in S PROVE n \in S
  <2> DEFINE b == Begin(call, n)
             e == call.ends[n]
             c == find_top_level_comma(SubSeq(before, b + 2, Len(before)))
  <2>1. /\ b \in Nat \ {0} /\ e \in 1..Len(text) /\ b + 2 < e /\ Begin(call, n + 1) = e + 1
        /\ IsPlainDirective(text, b, e)
        /\ e + 1 <= next /\ rest[e + 1] = << >>
        /\ \A i \in b..(e - 1) : text[i] # "comma"
    BY <1>1, <1>2, <1>9
  <2> HIDE DEF b, e
  <2>2. e <= N /\ b < N /\ b \in 1..N /\ b + 1 \in 1..N /\ e \in 1..N /\ b + 2 \in 1..(Len(before) + 1) /\ e < Len(text)
    BY <1>1, <1>3, <1>4, <1>5, <2>1
  <2>3. text[b] \in Directives /\ text[b + 1] = "colon" /\ text[e] = "comma"
    BY <2>1, <2>2 DEF IsPlainDirective
  <2>4. before[b] \in Directives /\ before[b + 1] = "colon" /\ before[e] = "comma"
    BY <1>5, <2>2, <2>3
  <2>5. rest[b] = IF c = 0 THEN << >> ELSE rest[b + 2 + c]
    <3>1. b \in 1..(Len(before) + 1) /\ b < Len(before)
      BY <1>4, <1>5, <2>2
    <3>2. QED
      BY <1>6, <2>4, <3>1 DEF IsLeft
  <2>6. /\ c \in Nat
        /\ c # 0 => /\ (b + 2) + c - 1 \in (b + 2)..N /\ before[(b + 2) + c - 1] = "comma"
                    /\ \A j \in (b + 2)..((b + 2) + c - 2) : before[j] # "comma"
    <3> HIDE DEF c
    <3>1. c = find_top_level_comma(SubSeq(before, b + 2, Len(before)))
      BY DEF c
    <3>2. QED
      BY <1>5, <2>2, <3>1, FirstComma
  <2> HIDE DEF c
  <2>7. c # 0 => b + 2 + c = e + 1
    <3> SUFFICES ASSUME c # 0 PROVE b + 2 + c = e + 1
      OBVIOUS
    <3> DEFINE q == (b + 2) + c - 1
    <3>1. q \in (b + 2)..N /\ before[q] = "comma" /\ \A j \in (b + 2)..(q - 1) : before[j] # "comma"
      BY <2>1, <2>6
    <3>2. q + 1 = b + 2 + c
      BY <2>1, <2>6
    <3> HIDE DEF q
    <3>3. text[q] = "comma"
      BY <1>4, <1>5, <2>1, <3>1
    <3>4. ~(q < e)
      BY <1>4, <2>1, <2>2, <3>1, <3>3
    <3>5. ~(e < q)
      BY <1>4, <2>1, <2>2, <2>4, <3>1
    <3>6. q = e
      BY <1>4, <2>1, <2>2, <3>1, <3>4, <3>5
    <3>7. QED
      BY <3>2, <3>6
  <2>8. rest[b] = << >> /\ b <= next
    BY <1>1, <1>4, <2>1, <2>2, <2>5, <2>7
  <2>9. QED
    BY <1>1, <2>8 DEF b
<1>10. 1 \in S
  <2> HIDE DEF S
  <2>1. D + 1 \in Nat /\ D \in Nat
    BY <1>1
  <2>2. ASSUME NEW i \in 1..(D + 1), \A j \in 1..(D + 1) : j > i => j \in S PROVE i \in S
    <3>1. CASE i = D + 1
      BY <1>8, <3>1
    <3>2. CASE i # D + 1
      <4>1. i \in 1..D /\ i + 1 \in 1..(D + 1) /\ i + 1 > i
        BY <2>1, <3>2
      <4>2. QED
        BY <1>9, <2>2, <4>1
    <3>3. QED
      BY <3>1, <3>2
  <2>3. \A i \in 1..(D + 1) : i \in S
    BY <2>1, <2>2, Downward
  <2>4. QED
    BY <2>1, <2>3
<1>11. Begin(call, 1) = 1
  BY DEF Begin
<1>12. QED
  BY <1>6, <1>10, <1>11 DEF before, text, next

\* What the lint finds in the text of such a call is what its author means.
LEMMA PlainTextsAreRead ==
  ASSUME NEW call, IsPlainCall(call)
  PROVE  /\ format_only_call(call.text) => /\ call.fields = 0 /\ call.fmt # 0
                                           /\ has_format_placeholders(call.text[call.fmt])
         /\ FormatOnly(call) /\ ~CommaInside(call) => format_only_call(call.text)
<1> DEFINE p == split_at_format_string(call.text)
           after == strip_leading_directives(SubSeq(call.text, 1, p - 1))
<1>1. /\ p # 0 => p \in DOMAIN call.text /\ p >= AfterDirectives(call) /\ IsLiteral(call.text[p])
      /\ call.fields = 0 => p = call.fmt
      /\ call.fields > 0 /\ p # 0 => p > AfterDirectives(call)
  BY FormatString
<1>2. /\ call.fields \in Nat /\ (call.fields = 0 /\ call.fmt # 0 => call.fmt = AfterDirectives(call))
      /\ call.fmt \in {0} \union DOMAIN call.text
  BY DEF IsPlainCall
<1>3. format_only_call(call.text) <=>
        p # 0 /\ has_format_placeholders(call.text[p]) /\ ToSet(after) \subseteq {"comma"}
  BY DEF format_only_call
<1>4. p # 0 /\ Captures(call.text[p]) => has_format_placeholders(call.text[p])
  BY <1>1, Placeholders, SingleBraces DEF IsLiteral
<1>5. call.fields > 0 /\ p # 0 => ~(ToSet(after) \subseteq {"comma"})
  BY <1>1, FieldsAreLeft
<1>6. call.fields = 0 /\ call.fmt # 0 /\ ~CommaInside(call) => after = << >>
  <2> SUFFICES ASSUME call.fields = 0, call.fmt # 0, ~CommaInside(call) PROVE after = << >>
    OBVIOUS
  <2>1. p = AfterDirectives(call) /\ p \in 1..Len(call.text) /\ Len(call.text) \in Nat
    BY <1>1, <1>2, CallLaidOut
  <2>2. AfterDirectives(call) <= Len(call.text)
    BY <2>1
  <2> HIDE DEF p
  <2>3. QED
    BY <2>1, <2>2, NothingIsLeft
<1> HIDE DEF p, after
<1>7. ToSet(<< >>) \subseteq {"comma"}
  BY DEF ToSet
<1>8. call.fields > 0 \/ call.fields = 0
  BY <1>2
<1>9. QED
  BY <1>1, <1>2, <1>3, <1>4, <1>5, <1>6, <1>7, <1>8 DEF FormatOnly

\* A directive that the lint knows is plain, but for a stray string.
LEMMA KnownIsPlain ==
  ASSUME NEW call, IsMacroCall(call), NEW n \in DOMAIN call.ends,
         IsKnown(call.text, Begin(call, n)), ~StrayString(call)
  PROVE  IsPlainDirective(call.text, Begin(call, n), call.ends[n])
<1> DEFINE text == call.text
           b == Begin(call, n)
           e == call.ends[n]
<1>1. /\ text \in Seq(ToSet(text)) /\ call.ends \in Seq(DOMAIN text) /\ IsDirective(text, b, e)
  BY DEF IsMacroCall
<1>2. e \in 1..Len(text) /\ Len(text) \in Nat /\ b \in Nat
  <2>1. /\ Len(text) \in Nat /\ DOMAIN text = 1..Len(text) /\ n \in 1..Len(call.ends)
        /\ \A m \in 1..Len(call.ends) : call.ends[m] \in DOMAIN text
    BY <1>1
  <2>2. n # 1 => n - 1 \in 1..Len(call.ends)
    BY <2>1
  <2>3. n # 1 => call.ends[n - 1] \in 1..Len(text)
    BY <2>1, <2>2
  <2>4. n # 1 => call.ends[n - 1] + 1 \in Nat
    BY <2>1, <2>3
  <2>5. QED
    BY <2>1, <2>4 DEF Begin
<1>3. text[b] \in Directives /\ text[b + 1] = "colon"
  BY DEF IsKnown
<1>4. ASSUME NEW i \in (b + 3)..(e - 1), Depth(text, i) = 0 PROVE ~IsLiteral(text[i])
  BY <1>4 DEF StrayString
<1> HIDE DEF text, b, e
<1>5. PICK name \in b..(e - 3), colon \in (b + 1)..(e - 2) :
        /\ text[name] \in MacroDirectives /\ text[colon] = "colon"
        /\ name < colon /\ \A i \in b..(colon - 1) : i # name => text[i] = "comment"
  BY <1>1 DEF IsDirective
<1>6. b + 2 < e
  BY <1>2, <1>5
<1>7. \A i \in b..(e - 1) : Depth(text, i) = 0 => text[i] \notin {"comma", "close"}
  BY <1>1 DEF IsDirective
<1>8. ASSUME NEW i \in (b + 2)..(e - 1), Depth(text, i) = 0
      PROVE  text[i] \notin {"comma", "close"} /\ (IsLiteral(text[i]) => i = b + 2)
  <2>1. i \in b..(e - 1) /\ (i = b + 2 \/ i \in (b + 3)..(e - 1))
    BY <1>2
  <2>2. QED
    BY <1>4, <1>7, <1>8, <2>1
<1>9. Depth(text, e) = 0 /\ (text[e] = "comma" \/ (text[e] = "close" /\ e = Len(text)))
  BY <1>1 DEF IsDirective
<1>10. IsPlainDirective(text, b, e)
  BY <1>3, <1>6, <1>8, <1>9 DEF IsPlainDirective
<1>11. QED
  BY <1>10 DEF text, b, e

\* A directive that the lint does not know is to it what a field is.
LEMMA UnknownIsOther ==
  ASSUME NEW call, IsMacroCall(call), NEW n \in DOMAIN call.ends, ~IsKnown(call.text, Begin(call, n))
  PROVE  IsOther(call.text, Begin(call, n)) /\ ~IsLiteral(call.text[Begin(call, n)])
<1> DEFINE text == call.text
           b == Begin(call, n)
           e == call.ends[n]
<1>1. /\ text \in Seq(ToSet(text)) /\ call.ends \in Seq(DOMAIN text) /\ IsDirective(text, b, e)
  BY DEF IsMacroCall
<1>2. e \in 1..Len(text) /\ Len(text) \in Nat
  BY <1>1
<1>3. b \in Int
  <2>1. n # 1 => n - 1 \in 1..Len(call.ends)
    BY <1>1
  <2>2. n # 1 => call.ends[n - 1] \in DOMAIN text
    BY <1>1, <2>1
  <2>3. n # 1 => call.ends[n - 1] + 1 \in Int
    BY <1>1, <2>2
  <2>4. QED
    BY <2>3 DEF Begin
<1> HIDE DEF text, b, e
<1>4. PICK name \in b..(e - 3), colon \in (b + 1)..(e - 2) :
        /\ text[name] \in MacroDirectives /\ text[colon] = "colon"
        /\ name < colon /\ \A i \in b..(colon - 1) : i # name => text[i] = "comment"
  BY <1>1 DEF IsDirective
<1>5. b \in b..(colon - 1) /\ b <= Len(text)
  BY <1>2, <1>3, <1>4
<1>6. text[b] \in MacroDirectives \union {"comment"}
  BY <1>4, <1>5
<1>7. text[b] # "comma"
  BY <1>6 DEF MacroDirectives, Directives
<1>8. ~IsLiteral(text[b])
  BY <1>6, LiteralsAssumption DEF LiteralsAssumption, IsLiteral
<1>9. QED
  BY <1>5, <1>7, <1>8 DEF IsOther, text, b

\* The text up to a position that the lint takes for the first field.
Cut(call, n) == [text |-> call.text, ends |-> SubSeq(call.ends, 1, n - 1), fields |-> 1, fmt |-> call.fmt]

LEMMA CutIsPlain ==
  ASSUME NEW call, IsMacroCall(call), ~StrayString(call), NEW n \in 1..(Len(call.ends) + 1),
         \A m \in 1..(n - 1) : IsKnown(call.text, Begin(call, m)),
         IsOther(call.text, Begin(call, n)), ~IsLiteral(call.text[Begin(call, n)])
  PROVE  IsPlainCall(Cut(call, n))
<1> DEFINE cut == Cut(call, n)
           ends == SubSeq(call.ends, 1, n - 1)
<1>1. /\ cut.text = call.text /\ cut.ends = ends /\ cut.fields = 1 /\ cut.fmt = call.fmt
  BY DEF Cut
<1>2. /\ call.text \in Seq(ToSet(call.text)) /\ call.ends \in Seq(DOMAIN call.text)
      /\ call.fmt \in {0} \union DOMAIN call.text
      /\ call.fmt # 0 => IsLiteral(call.text[call.fmt])
  BY DEF IsMacroCall
<1>3. Len(call.ends) \in Nat /\ DOMAIN call.ends = 1..Len(call.ends) /\ n - 1 \in 0..Len(call.ends)
  BY <1>2
<1>4. /\ ends \in Seq(DOMAIN call.text) /\ Len(ends) = n - 1 /\ DOMAIN ends = 1..(n - 1)
      /\ \A m \in 1..(n - 1) : ends[m] = call.ends[m]
  <2> DEFINE S == DOMAIN call.text
             all == call.ends
  <2>1. all \in Seq(S) /\ n - 1 \in Nat /\ n - 1 <= Len(all)
    BY <1>2, <1>3
  <2> HIDE DEF S, all
  <2>2. SubSeq(all, 1, n - 1) \in Seq(S)
    BY <2>1
  <2>3. /\ Len(SubSeq(all, 1, n - 1)) = n - 1 /\ DOMAIN SubSeq(all, 1, n - 1) = 1..(n - 1)
        /\ \A m \in 1..(n - 1) : SubSeq(all, 1, n - 1)[m] = all[m]
    BY <2>1
  <2>4. QED
    BY <2>2, <2>3 DEF S, all
<1> HIDE DEF cut, ends
<1>5. \A m \in 1..n : Begin(cut, m) = Begin(call, m)
  <2> TAKE m \in 1..n
  <2>1. m # 1 => m - 1 \in 1..(n - 1)
    BY <1>3
  <2>2. m # 1 => cut.ends[m - 1] = call.ends[m - 1]
    BY <1>1, <1>4, <2>1
  <2>3. QED
    BY <2>2 DEF Begin
<1>6. \A m \in DOMAIN cut.ends : IsPlainDirective(cut.text, Begin(cut, m), cut.ends[m])
  <2> TAKE m \in DOMAIN cut.ends
  <2>1. m \in 1..(n - 1) /\ m \in 1..n /\ m \in DOMAIN call.ends
    BY <1>1, <1>3, <1>4
  <2>2. IsPlainDirective(call.text, Begin(call, m), call.ends[m])
    BY <2>1, KnownIsPlain
  <2>3. QED
    BY <1>1, <1>4, <1>5, <2>1, <2>2
<1>7. AfterDirectives(cut) = Begin(call, n)
  <2>1. Len(cut.ends) + 1 = n /\ n \in 1..n
    BY <1>1, <1>3, <1>4
  <2>2. QED
    BY <1>5, <2>1 DEF AfterDirectives
<1>8. IsPlainCall(cut)
  BY <1>1, <1>2, <1>4, <1>6, <1>7 DEF IsPlainCall
<1>9. QED
  BY <1>8 DEF cut

\* What the lint finds in the text of a call that it does not misread is what
\* its author means.
LEMMA TextsAreRead ==
  ASSUME NEW call, IsMacroCall(call)
  PROVE  /\ format_only_call(args(call)) /\ ~Misread(call) => FormatOnly(call)
         /\ FormatOnly(call) /\ ~Lost(call) => format_only_call(args(call))
<1> DEFINE text == call.text
           next == AfterDirectives(call)
           D == Len(call.ends)
<1>1. call.delimiter = "paren" => args(call) = text
  BY DEF args
<1>2. /\ text \in Seq(ToSet(text)) /\ call.ends \in Seq(DOMAIN text)
      /\ call.fields \in Nat /\ call.fmt \in {0} \union DOMAIN text
      /\ call.fmt # 0 => IsLiteral(text[call.fmt])
      /\ call.fields > 0 => IsOther(text, next)
      /\ call.fields = 0 /\ call.fmt # 0 =>
           call.fmt = next \/ (call.fmt > next /\ IsOther(text, next) /\ ~IsLiteral(text[next]))
      /\ call.fields = 0 /\ call.fmt = 0 => \A i \in next..Len(text) : ~IsLiteral(text[i])
  BY DEF IsMacroCall
<1>3. D \in Nat /\ DOMAIN call.ends = 1..D /\ D + 1 \in 1..(D + 1) /\ (D + 1) - 1 = D /\ next = Begin(call, D + 1)
  BY <1>2 DEF AfterDirectives
<1>4. ASSUME NEW n \in 1..(D + 1), ~StrayString(call), \A m \in 1..(n - 1) : IsKnown(text, Begin(call, m)),
             IsOther(text, Begin(call, n)), ~IsLiteral(text[Begin(call, n)])
      PROVE  ~format_only_call(text)
  <2>1. IsPlainCall(Cut(call, n))
    BY <1>4, CutIsPlain
  <2>2. Cut(call, n).text = text /\ Cut(call, n).fields = 1
    BY DEF Cut
  <2>3. QED
    BY <2>1, <2>2, PlainTextsAreRead
<1>5. ASSUME ~StrayString(call), NEW n \in DOMAIN call.ends, ~IsKnown(text, Begin(call, n))
      PROVE  ~format_only_call(text)
  <2> DEFINE S == {m \in 1..D : ~IsKnown(text, Begin(call, m))}
  <2>1. S \in SUBSET Nat /\ S # {}
    BY <1>3, <1>5
  <2>2. PICK m \in S : \A k \in S : m <= k
    <3> HIDE DEF S
    <3>1. QED
      BY <2>1, LeastNat
  <2>3. m \in 1..D /\ m \in 1..(D + 1) /\ m \in DOMAIN call.ends /\ ~IsKnown(text, Begin(call, m))
    BY <1>3, <2>2
  <2>4. \A k \in 1..(m - 1) : IsKnown(text, Begin(call, k))
    <3> TAKE k \in 1..(m - 1)
    <3>1. k \in 1..D /\ ~(m <= k)
      BY <1>3, <2>3
    <3>2. QED
      BY <2>2, <3>1
  <2>5. IsOther(text, Begin(call, m)) /\ ~IsLiteral(text[Begin(call, m)])
    BY <2>3, UnknownIsOther
  <2>6. QED
    BY <1>4, <1>5, <2>3, <2>4, <2>5
<1>6. ASSUME ~StrayString(call), ~QuotedKey(call), \A n \in DOMAIN call.ends : IsKnown(text, Begin(call, n)),
             call.fmt > next => call.fields > 0
      PROVE  IsPlainCall(call)
  <2>1. \A n \in DOMAIN call.ends : IsPlainDirective(text, Begin(call, n), call.ends[n])
    BY <1>6, KnownIsPlain
  <2>2. call.fields > 0 => ~IsLiteral(text[next])
    BY <1>6 DEF QuotedKey
  <2>3. call.fields = 0 /\ call.fmt # 0 => call.fmt = next
    BY <1>2, <1>6
  <2> HIDE DEF next, text
  <2>4. QED
    BY <1>2, <2>1, <2>2, <2>3 DEF IsPlainCall, next, text
<1>7. ASSUME format_only_call(args(call)), ~Misread(call) PROVE FormatOnly(call)
  <2>1. format_only_call(text) /\ ~StrayString(call) /\ ~QuotedKey(call) /\ ~HasEscape(call)
    BY <1>1, <1>7 DEF Misread
  <2>2. \A n \in DOMAIN call.ends : IsKnown(text, Begin(call, n))
    BY <1>5, <2>1
  <2>3. ASSUME call.fmt > next, call.fields = 0 PROVE FALSE
    <3>1. call.fmt # 0 /\ call.fmt # next
      <4>1. Len(text) \in Nat /\ DOMAIN text = 1..Len(text)
        BY <1>2
      <4>2. next \in Nat \ {0}
        <5>1. D # 0 => D \in 1..D /\ call.ends[D] \in DOMAIN text
          BY <1>2, <1>3
        <5>2. D # 0 => call.ends[D] \in Nat
          BY <4>1, <5>1
        <5>3. QED
          BY <1>3, <5>2 DEF Begin
      <4>3. call.fmt \in Nat
        BY <1>2, <4>1
      <4>4. QED
        BY <2>3, <4>2, <4>3
    <3>2. IsOther(text, next) /\ ~IsLiteral(text[next])
      BY <1>2, <2>3, <3>1
    <3>3. \A m \in 1..((D + 1) - 1) : IsKnown(text, Begin(call, m))
      BY <1>3, <2>2
    <3>4. ~format_only_call(text)
      BY <1>3, <1>4, <2>1, <3>2, <3>3
    <3>5. QED
      BY <2>1, <3>4
  <2>4. call.fmt > next => call.fields > 0
    BY <1>2, <2>3
  <2>5. IsPlainCall(call)
    BY <1>6, <2>1, <2>2, <2>4
  <2>6. call.fields = 0 /\ call.fmt # 0 /\ has_format_placeholders(text[call.fmt])
    BY <2>1, <2>5, PlainTextsAreRead
  <2>7. text[call.fmt] \in DOMAIN Literals /\ "escape" \notin ToSet(Literals[text[call.fmt]])
    BY <1>2, <2>1, <2>6 DEF IsLiteral, HasEscape
  <2>8. Captures(text[call.fmt])
    BY <2>6, <2>7, Placeholders, SingleBraces
  <2>9. QED
    BY <2>6, <2>8 DEF FormatOnly
<1>8. ASSUME FormatOnly(call), ~Lost(call) PROVE format_only_call(args(call))
  <2>1. /\ call.delimiter = "paren" /\ ~StrayString(call) /\ ~CommaInside(call) /\ call.fmt = next
        /\ \A n \in DOMAIN call.ends : IsKnown(text, Begin(call, n))
    BY <1>8 DEF Lost
  <2>2. call.fields = 0
    BY <1>8 DEF FormatOnly
  <2>3. ~QuotedKey(call) /\ ~(call.fields > 0)
    BY <2>2 DEF QuotedKey
  <2>4. ~(call.fmt > next)
    <3>1. call.fmt \in Nat
      BY <1>2
    <3>2. QED
      BY <2>1, <3>1
  <2>5. IsPlainCall(call)
    BY <1>6, <2>1, <2>3, <2>4
  <2>6. format_only_call(text)
    BY <1>8, <2>1, <2>5, PlainTextsAreRead
  <2>7. QED
    BY <1>1, <2>1, <2>6
<1>9. QED
  BY <1>7, <1>8

-----------------------------------------------------------------------------
(* The passes over the expressions. *)

\* The call sites that an expression is the first to show.
SeenLog(k) == UNION {find_tracing_macro_callsite(exprs[j]) : j \in 1..k}
SeenDebug(k) == UNION {debug_callsite(exprs[j]) : j \in 1..k}
NewLog(k) == find_tracing_macro_callsite(exprs[k]) \ SeenLog(k - 1)
NewDebug(k) == debug_callsite(exprs[k]) \ SeenDebug(k - 1)

\* What is reported at an expression.
LogDue(k) == {s \in NewLog(k) : ~exprs[k].test /\ format_only(s)}
DebugDue(k) == {s \in NewDebug(k) : ~exprs[k].test}
ReportedAt(k) == ({"unstructured_log_fields"} \X LogDue(k) \X {k}) \union ({"debug_remnants"} \X DebugDue(k) \X {k})

CallsKnown ==
  /\ exprs \in Seq(ToSet(exprs))
  /\ \A k \in DOMAIN exprs :
       /\ exprs[k].frames \in Seq(ToSet(exprs[k].frames))
       /\ \A m, n \in DOMAIN exprs[k].frames :
            IsLevelMacro(exprs[k].frames[m]) /\ IsLevelMacro(exprs[k].frames[n]) => m = n
  /\ \A site \in DOMAIN calls : IsMacroCall(calls[site])

\* A pass has seen the call sites of the expressions behind it, and reported
\* those that were due there.
LogInv ==
  /\ CallsKnown
  /\ at \in 1..(Len(exprs) + 1)
  /\ seen_log = SeenLog(at - 1) /\ seen_debug = SeenDebug(at - 1)
  /\ warned = UNION {ReportedAt(k) : k \in 1..(at - 1)}

LEMMA LogInvInit == LogInit => LogInv
<1> SUFFICES ASSUME LogInit PROVE LogInv
  OBVIOUS
<1>1. CallsKnown
  BY LogCratesAssumption DEF LogInit, LogCratesAssumption, CallsKnown
<1>2. at \in 1..(Len(exprs) + 1) /\ 1..(at - 1) = {}
  BY <1>1 DEF LogInit, CallsKnown
<1>3. QED
  BY <1>1, <1>2 DEF LogInit, LogInv, SeenLog, SeenDebug

LEMMA LogInvNext == LogInv /\ [check_macro]_log_vars => LogInv'
<1> SUFFICES ASSUME LogInv, [check_macro]_log_vars PROVE LogInv'
  OBVIOUS
<1>1. CASE check_macro
  <2>1. exprs' = exprs /\ calls' = calls /\ at' = at + 1 /\ at \in DOMAIN exprs
    BY <1>1 DEF check_macro
  <2>2. CallsKnown'
    BY <2>1 DEF LogInv, CallsKnown
  <2>3. DOMAIN exprs = 1..Len(exprs) /\ Len(exprs) \in Nat /\ at \in Nat /\ at' - 1 = at
    BY <2>1 DEF LogInv, CallsKnown
  <2>4. 1..at = 1..(at - 1) \union {at}
    BY <2>1, <2>3
  <2>5. SeenLog(at - 1)' = SeenLog(at - 1) \union find_tracing_macro_callsite(exprs[at])
    BY <2>1, <2>3, <2>4 DEF SeenLog
  <2>6. SeenDebug(at - 1)' = SeenDebug(at - 1) \union debug_callsite(exprs[at])
    BY <2>1, <2>3, <2>4 DEF SeenDebug
  <2>7. /\ seen_log' = seen_log \union NewLog(at)
        /\ seen_debug' = seen_debug \union NewDebug(at)
        /\ warned' = warned \union ReportedAt(at)
    BY <1>1 DEF LogInv, check_macro, NewLog, NewDebug, ReportedAt, LogDue, DebugDue
  <2>8. seen_log' = SeenLog(at - 1)' /\ seen_debug' = SeenDebug(at - 1)'
    BY <2>5, <2>6, <2>7 DEF LogInv, NewLog, NewDebug
  <2>9. \A k \in 1..at : ReportedAt(k)' = ReportedAt(k)
    BY <2>1 DEF ReportedAt, LogDue, DebugDue, NewLog, NewDebug, SeenLog, SeenDebug, format_only
  <2>10. warned' = UNION {ReportedAt(k) : k \in 1..at}
    BY <2>4, <2>7 DEF LogInv
  <2>11. (UNION {ReportedAt(k) : k \in 1..(at - 1)})' = UNION {ReportedAt(k) : k \in 1..at}
    BY <2>1, <2>3, <2>9
  <2>12. at' \in 1..(Len(exprs') + 1)
    BY <2>1, <2>3
  <2>13. QED
    BY <2>2, <2>8, <2>10, <2>11, <2>12 DEF LogInv
<1>2. CASE UNCHANGED log_vars
  BY <1>2 DEF log_vars, LogInv, CallsKnown, SeenLog, SeenDebug, ReportedAt, LogDue, DebugDue, NewLog, NewDebug,
              format_only
<1>3. QED
  BY <1>1, <1>2

LEMMA LogInvHolds == LogSpec => []LogInv
BY LogInvInit, LogInvNext, PTL DEF LogSpec

\* The call sites of an expression, and its level macro.
LEMMA SitesOf ==
  ASSUME CallsKnown, NEW k \in DOMAIN exprs
  PROVE  /\ find_tracing_macro_callsite(exprs[k]) \subseteq Sites
         /\ debug_callsite(exprs[k]) \subseteq Sites
         /\ \A site : site \in find_tracing_macro_callsite(exprs[k]) <=> k \in LogExprs(site)
<1> DEFINE frames == exprs[k].frames
           macros == {n \in DOMAIN frames : IsLevelMacro(frames[n])}
<1>1. /\ frames \in Seq(ToSet(frames))
      /\ \A m, n \in DOMAIN frames : IsLevelMacro(frames[m]) /\ IsLevelMacro(frames[n]) => m = n
  BY DEF CallsKnown
<1>2. DOMAIN frames = 1..Len(frames) /\ Len(frames) \in Nat
  BY <1>1
<1>3. \A n \in DOMAIN frames : frames[n].site \in Sites
  BY DEF Sites
<1>4. find_tracing_macro_callsite(exprs[k]) = IF macros = {} THEN {} ELSE {frames[Min(macros)].site}
  BY DEF find_tracing_macro_callsite
<1>5. macros # {} => Min(macros) \in macros
  <2>1. macros \in SUBSET (1..Len(frames))
    BY <1>2
  <2> HIDE DEF macros, frames
  <2>2. QED
    BY <1>2, <2>1, MinOfPositions
<1>6. debug_callsite(exprs[k]) \subseteq Sites
  BY <1>3 DEF debug_callsite
<1>7. \A site : k \in LogExprs(site) <=> \E n \in macros : frames[n].site = site
  BY DEF LogExprs
<1>8. \A n \in macros : macros # {} /\ n = Min(macros)
  BY <1>1, <1>5
<1>9. \A site : site \in find_tracing_macro_callsite(exprs[k]) <=> \E n \in macros : frames[n].site = site
  <2> HIDE DEF macros, frames
  <2>1. QED
    BY <1>4, <1>5, <1>8
<1>10. find_tracing_macro_callsite(exprs[k]) \subseteq Sites
  <2>1. \A n \in macros : frames[n].site \in Sites
    BY <1>3
  <2> HIDE DEF macros, frames
  <2>2. QED
    BY <1>9, <2>1
<1>11. QED
  BY <1>6, <1>7, <1>9, <1>10

\* What a diagnostic says, taken apart.
LEMMA WarningsTakenApart ==
  ASSUME LogInv, NEW w \in warned
  PROVE  \E k \in 1..(at - 1) :
           /\ w[3] = k /\ k \in DOMAIN exprs /\ ~exprs[k].test
           /\ \/ w[1] = "unstructured_log_fields" /\ w[2] \in NewLog(k) /\ format_only(w[2])
              \/ w[1] = "debug_remnants" /\ w[2] \in NewDebug(k)
           /\ w = <<w[1], w[2], w[3]>>
<1>1. PICK k \in 1..(at - 1) : w \in ReportedAt(k)
  BY DEF LogInv
<1>2. k \in DOMAIN exprs
  BY DEF LogInv, CallsKnown
<1>3. CASE w \in {"unstructured_log_fields"} \X LogDue(k) \X {k}
  <2>1. w[1] = "unstructured_log_fields" /\ w[2] \in LogDue(k) /\ w[3] = k /\ w = <<w[1], w[2], w[3]>>
    BY <1>3
  <2>2. QED
    BY <1>2, <2>1 DEF LogDue
<1>4. CASE w \in {"debug_remnants"} \X DebugDue(k) \X {k}
  <2>1. w[1] = "debug_remnants" /\ w[2] \in DebugDue(k) /\ w[3] = k /\ w = <<w[1], w[2], w[3]>>
    BY <1>4
  <2>2. QED
    BY <1>2, <2>1 DEF DebugDue
<1>5. QED
  BY <1>1, <1>3, <1>4 DEF ReportedAt

\* The variables keep their types.
LEMMA LogTypes == LogInv => LogTypeOK
<1> SUFFICES ASSUME LogInv PROVE LogTypeOK
  OBVIOUS
<1>1. \A k \in 1..(at - 1) : k \in DOMAIN exprs
  BY DEF LogInv, CallsKnown
<1>2. SeenLog(at - 1) \subseteq Sites /\ SeenDebug(at - 1) \subseteq Sites
  BY <1>1, SitesOf DEF SeenLog, SeenDebug, LogInv
<1>3. ASSUME NEW s \in Warned("unstructured_log_fields") PROVE s \in seen_log
  <2>1. PICK w \in warned : w[1] = "unstructured_log_fields" /\ w[2] = s
    BY DEF Warned
  <2>2. PICK k \in 1..(at - 1) : w[2] \in NewLog(k)
    BY <2>1, WarningsTakenApart
  <2>3. QED
    BY <2>1, <2>2 DEF NewLog, SeenLog, LogInv
<1>4. ASSUME NEW s \in Warned("debug_remnants") PROVE s \in seen_debug
  <2>1. PICK w \in warned : w[1] = "debug_remnants" /\ w[2] = s
    BY DEF Warned
  <2>2. PICK k \in 1..(at - 1) : w[2] \in NewDebug(k)
    BY <2>1, WarningsTakenApart
  <2>3. QED
    BY <2>1, <2>2 DEF NewDebug, SeenDebug, LogInv
<1>5. QED
  BY <1>2, <1>3, <1>4 DEF LogTypeOK, LogInv

\* A call site is new to one expression only.
LEMMA NewOnce ==
  ASSUME NEW j \in Nat \ {0}, NEW k \in Nat \ {0}, NEW s,
         (s \in NewLog(j) /\ s \in NewLog(k)) \/ (s \in NewDebug(j) /\ s \in NewDebug(k))
  PROVE  j = k
<1>1. j < k => j \in 1..(k - 1)
  OBVIOUS
<1>2. k < j => k \in 1..(j - 1)
  OBVIOUS
<1>3. ~(j < k)
  BY <1>1 DEF NewLog, NewDebug, SeenLog, SeenDebug
<1>4. ~(k < j)
  BY <1>2 DEF NewLog, NewDebug, SeenLog, SeenDebug
<1>5. QED
  BY <1>3, <1>4

LEMMA LogOnce == LogInv => OncePerCall
<1> SUFFICES ASSUME LogInv PROVE OncePerCall
  OBVIOUS
<1>1. ASSUME NEW v \in warned, NEW w \in warned, v[1] = w[1], v[2] = w[2] PROVE v = w
  <2>1. PICK j \in 1..(at - 1) :
           /\ v[3] = j
           /\ \/ v[1] = "unstructured_log_fields" /\ v[2] \in NewLog(j)
              \/ v[1] = "debug_remnants" /\ v[2] \in NewDebug(j)
           /\ v = <<v[1], v[2], v[3]>>
    BY WarningsTakenApart
  <2>2. PICK k \in 1..(at - 1) :
           /\ w[3] = k
           /\ \/ w[1] = "unstructured_log_fields" /\ w[2] \in NewLog(k)
              \/ w[1] = "debug_remnants" /\ w[2] \in NewDebug(k)
           /\ w = <<w[1], w[2], w[3]>>
    BY WarningsTakenApart
  <2>3. (v[2] \in NewLog(j) /\ v[2] \in NewLog(k)) \/ (v[2] \in NewDebug(j) /\ v[2] \in NewDebug(k))
    BY <1>1, <2>1, <2>2
  <2>4. j \in Nat \ {0} /\ k \in Nat \ {0}
    OBVIOUS
  <2>5. j = k
    BY <2>3, <2>4, NewOnce
  <2>6. QED
    BY <1>1, <2>1, <2>2, <2>5
<1>2. \A w \in warned : ~exprs[w[3]].test
  BY WarningsTakenApart
<1>3. QED
  BY <1>1, <1>2 DEF OncePerCall

LEMMA LogOnlyFormats == LogInv => OnlyFormatOnly
<1> SUFFICES ASSUME LogInv, NEW s \in Warned("unstructured_log_fields")
             PROVE  s \in DOMAIN calls /\ (FormatOnly(calls[s]) \/ Misread(calls[s]))
  BY DEF OnlyFormatOnly
<1>1. PICK w \in warned : w[1] = "unstructured_log_fields" /\ w[2] = s
  BY DEF Warned
<1>2. format_only(s)
  BY <1>1, WarningsTakenApart
<1>3. s \in DOMAIN calls /\ format_only_call(args(calls[s]))
  BY <1>2 DEF format_only
<1>4. IsMacroCall(calls[s])
  BY <1>3 DEF LogInv, CallsKnown
<1>5. QED
  BY <1>3, <1>4, TextsAreRead

LEMMA LogNoneSlips == LogInv => NoneSlips
<1> SUFFICES ASSUME LogInv, at > Len(exprs), NEW site \in DOMAIN calls,
                    FormatOnly(calls[site]), ~Lost(calls[site]),
                    LogExprs(site) # {}, ~exprs[Min(LogExprs(site))].test
             PROVE  site \in Warned("unstructured_log_fields")
  BY DEF NoneSlips
<1> DEFINE k == Min(LogExprs(site))
           w == <<"unstructured_log_fields", site, k>>
<1>1. DOMAIN exprs = 1..Len(exprs) /\ Len(exprs) \in Nat /\ at = Len(exprs) + 1 /\ CallsKnown
  BY DEF LogInv, CallsKnown
<1>2. k \in LogExprs(site) /\ \A j \in LogExprs(site) : k <= j
  <2>1. LogExprs(site) \in SUBSET (1..Len(exprs))
    BY <1>1 DEF LogExprs
  <2>2. QED
    BY <1>1, <2>1, MinOfPositions
<1> HIDE DEF k
<1>3. k \in DOMAIN exprs /\ k \in 1..(at - 1)
  <2>1. k \in DOMAIN exprs
    BY <1>2 DEF LogExprs
  <2>2. QED
    BY <1>1, <2>1
<1>4. site \in find_tracing_macro_callsite(exprs[k])
  BY <1>1, <1>2, <1>3, SitesOf
<1>5. ASSUME NEW j \in 1..(k - 1) PROVE site \notin find_tracing_macro_callsite(exprs[j])
  <2>1. j \in DOMAIN exprs /\ ~(k <= j)
    BY <1>1, <1>3
  <2>2. j \notin LogExprs(site)
    BY <1>2, <2>1
  <2>3. QED
    BY <1>1, <2>1, <2>2, SitesOf
<1>6. site \in NewLog(k)
  BY <1>4, <1>5 DEF NewLog, SeenLog
<1>7. format_only(site)
  <2>1. IsMacroCall(calls[site])
    BY <1>1 DEF CallsKnown
  <2>2. QED
    BY <2>1, TextsAreRead DEF format_only
<1>8. site \in LogDue(k)
  BY <1>6, <1>7 DEF LogDue, k
<1>9. w \in ReportedAt(k)
  BY <1>8 DEF ReportedAt
<1>10. w \in warned
  BY <1>3, <1>9 DEF LogInv
<1>11. w[1] = "unstructured_log_fields" /\ w[2] = site
  OBVIOUS
<1>12. QED
  BY <1>10, <1>11 DEF Warned

\* A diagnostic of the passes over the logging macros is due: typed, one for a
\* call, never in a test, and only for a call that has no field and captures
\* values in its format string; or for one that is misread: it has another
\* delimiter, a stray string in a directive, a quoted key or an escape.
THEOREM LogWarningsDue == LogSpec => []WarningsAreDue
<1>1. LogInv => WarningsAreDue
  BY LogTypes, LogOnce, LogOnlyFormats DEF WarningsAreDue
<1>2. QED
  BY <1>1, LogInvHolds, PTL

\* When the walk is over each such call has been reported, unless the scan of
\* its text loses it (another delimiter, a directive that is not known or has a
\* stray string or a comma in its value, something before the format string)
\* or the call is visited in a test first.
THEOREM NoCallSlips == LogSpec => []NoneSlips
BY LogNoneSlips, LogInvHolds, PTL

=============================================================================
