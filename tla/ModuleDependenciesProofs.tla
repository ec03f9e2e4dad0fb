---------------------- MODULE ModuleDependenciesProofs ----------------------
(***************************************************************************)
(* Proofs about ModuleDependencies, for every crate and configuration.     *)
(***************************************************************************)
EXTENDS ModuleDependencies, SequenceTheorems, TLAPS

-----------------------------------------------------------------------------
(***************************************************************************)
(* What has been checked.                                                  *)
(***************************************************************************)
\* The definitions still pending are the last ones that the last node names.
Progress ==
  /\ IsCrate(config)
  /\ visited \in 0..Len(config.nodes)
  /\ pending \in Seq(Definitions)
  /\ phase \in {"walk", "dead", "done"}
  /\ pending # << >> => phase = "walk" /\ visited > 0
  /\ visited > 0 =>
       /\ Len(pending) <= Len(Named(visited))
       /\ \A i \in 1..Len(pending) :
            pending[i] = Named(visited)[Len(Named(visited)) - Len(pending) + i]

\* What a node names are definitions.
LEMMA NamedDefinitions ==
  ASSUME IsCrate(config), NEW k \in 1..Len(config.nodes)
  PROVE  Named(k) \in Seq(Definitions)
<1>1. config.nodes[k] \in Nodes
  BY DEF IsCrate
<1>2. config.nodes[k].res \in Seq(Definitions)
  BY <1>1 DEF Nodes
<1>3. resolve_def_id(config.nodes[k]) \in Seq(Definitions)
  BY <1>2 DEF resolve_def_id
<1>4. QED
  BY <1>2, <1>3 DEF Named, for_each_use_def_id

\* What it is for a position to have been checked.
CheckedExactly ==
  \A r : r \in Checked <=>
    /\ r \in Nat \X Nat
    /\ r[1] \in 1..visited
    /\ r[2] \in 1..(Len(Named(r[1])) - IF r[1] = visited THEN Len(pending) ELSE 0)

LEMMA CheckedPositions == Progress => CheckedExactly
<1> SUFFICES ASSUME Progress PROVE CheckedExactly
  OBVIOUS
<1>1. \A k \in 1..visited : Len(Named(k)) \in Nat /\ Len(pending) \in Nat
  BY NamedDefinitions DEF Progress
<1> DEFINE Top(k) == Len(Named(k)) - IF k = visited THEN Len(pending) ELSE 0
<1>2. visited \in Nat /\ \A k \in 1..visited : Top(k) \in Int
  BY <1>1 DEF Progress
<1>3. Checked = UNION {{k} \X (1..Top(k)) : k \in 1..visited}
  BY DEF Checked
<1> HIDE DEF Top
<1>4. ASSUME NEW r, r \in Checked
      PROVE  r \in Nat \X Nat /\ r[1] \in 1..visited /\ r[2] \in 1..Top(r[1])
  <2>1. PICK k \in 1..visited : r \in {k} \X (1..Top(k))
    BY <1>3, <1>4
  <2>2. r[1] = k /\ r[2] \in 1..Top(k) /\ r = <<r[1], r[2]>>
    BY <2>1
  <2>3. QED
    BY <1>2, <2>2
<1>5. ASSUME NEW r, r \in Nat \X Nat, r[1] \in 1..visited, r[2] \in 1..Top(r[1])
      PROVE  r \in Checked
  <2>1. r \in {r[1]} \X (1..Top(r[1]))
    BY <1>5
  <2>2. QED
    BY <1>3, <1>5, <2>1
<1>6. QED
  BY <1>4, <1>5 DEF CheckedExactly, Top

\* A reference is between two modules, and only those.
LEMMA CrossesOnce ==
  ASSUME NEW n, NEW def, NEW s, NEW t, Crosses(n, def, s, t)
  PROVE  /\ s \in Names /\ t \in Names /\ s # t
         /\ s \in top_level_module(n.owner) /\ t \in top_level_module(def.path)
         /\ \A u, v : Crosses(n, def, u, v) => u = s /\ v = t
<1>1. \A p, x : x \in top_level_module(p) => x = p[1] /\ << p[1] >> \in Modules
  BY DEF top_level_module
<1>2. \A x : << x >> \in Modules => x \in Names
  <2> SUFFICES ASSUME NEW x, << x >> \in Modules PROVE x \in Names
    OBVIOUS
  <2>1. Len(<< x >>) = 1 /\ << x >>[1] = x
    OBVIOUS
  <2>2. QED
    BY <2>1 DEF Names
<1>3. s = n.owner[1] /\ t = def.path[1] /\ s \in Names /\ t \in Names
  BY <1>1, <1>2, Zenon DEF Crosses
<1>4. ASSUME NEW u, NEW v, Crosses(n, def, u, v) PROVE u = s /\ v = t
  BY <1>1, <1>3, <1>4, Zenon DEF Crosses
<1>5. QED
  BY <1>3, <1>4 DEF Crosses

\* The names of top-level modules are names.
LEMMA NamesAreNames == Names \subseteq Nat
<1>1. \A p \in Seq(Nat) : Len(p) = 1 => p[1] \in Nat
  <2> SUFFICES ASSUME NEW p \in Seq(Nat), Len(p) = 1 PROVE p[1] \in Nat
    OBVIOUS
  <2>1. 1 \in 1..Len(p)
    OBVIOUS
  <2>2. QED
    BY <2>1, ElementOfSeq
<1>2. QED
  BY <1>1, CratesAssumption DEF CratesAssumption, Names

\* Whether a reference goes from one module to another does not change.
LEMMA DependsStays ==
  ASSUME UNCHANGED config
  PROVE  \A r, s, t : Depends(r, s, t)' <=> Depends(r, s, t)
BY DEF Depends, Crosses, Named, is_configured, allow

\* Visiting a node checks nothing yet.
LEMMA VisitStep ==
  ASSUME Progress, check_expr \/ check_ty \/ check_item
  PROVE  /\ Progress' /\ Checked' = Checked
         /\ UNCHANGED <<config, used_edges, warned_unlisted, phase, undecided, reported>>
<1>1. /\ phase = "walk" /\ pending = << >> /\ visited < Len(config.nodes)
      /\ visited' = visited + 1
      /\ UNCHANGED <<config, used_edges, warned_unlisted, phase, undecided, reported>>
  BY DEF check_expr, check_ty, check_item, Visit
<1>2. visited' \in 1..Len(config.nodes) /\ visited \in Nat
  BY <1>1 DEF Progress, IsCrate
<1>3. pending' = Named(visited')
  <2>1. CASE check_expr
    BY <1>1, <2>1 DEF check_expr, Visit, Named
  <2>2. CASE check_ty
    BY <1>1, <2>2 DEF check_ty, Visit, Named
  <2>3. CASE check_item
    BY <1>1, <2>3 DEF check_item, Visit, Named
  <2>4. QED
    BY <2>1, <2>2, <2>3
<1>4. \A k : Named(k)' = Named(k)
  BY <1>1 DEF Named
<1>5. pending' \in Seq(Definitions)
  BY <1>2, <1>3, NamedDefinitions DEF Progress
<1>6. Progress'
  BY <1>1, <1>2, <1>3, <1>4, <1>5 DEF Progress
<1>7. CheckedExactly /\ CheckedExactly'
  BY <1>6, CheckedPositions, PTL
<1>8. Checked' = Checked
  <2>1. \A k \in 1..visited' : Len(Named(k)) \in Nat
    BY <1>2, NamedDefinitions DEF Progress
  <2>2. Len(pending) = 0 /\ Len(Named(visited')) - Len(pending') = 0
    BY <1>1, <1>2, <1>3, <2>1
  <2>3. \A r : r \in Checked <=>
          r \in Nat \X Nat /\ r[1] \in 1..visited /\ r[2] \in 1..Len(Named(r[1]))
    BY <1>1, <1>2, <1>7, <2>1, <2>2 DEF CheckedExactly
  <2>4. \A r : r \in Checked' <=>
          /\ r \in Nat \X Nat /\ r[1] \in 1..visited'
          /\ r[2] \in 1..(Len(Named(r[1])) - IF r[1] = visited' THEN Len(pending') ELSE 0)
    BY <1>4, <1>7 DEF CheckedExactly
  <2>5. \A r : r \in Checked' <=> r \in Checked
    <3>1. ASSUME NEW r, r[1] = visited' PROVE r \notin Checked' /\ r \notin Checked
      <4>1. r \in Checked' => r[2] \in 1..(Len(Named(visited')) - Len(pending'))
        BY <2>4, <3>1
      <4>2. r[1] \notin 1..visited
        BY <1>1, <1>2, <3>1
      <4>3. QED
        BY <2>2, <2>3, <4>1, <4>2
    <3>2. ASSUME NEW r, r[1] # visited' PROVE r \in Checked' <=> r \in Checked
      <4>1. r[1] \in 1..visited' <=> r[1] \in 1..visited
        BY <1>1, <1>2, <3>2
      <4>2. r[1] \in 1..visited => Len(Named(r[1])) - 0 = Len(Named(r[1]))
        BY <2>1, <4>1
      <4>3. QED
        BY <2>3, <2>4, <3>2, <4>1, <4>2
    <3>3. QED
      BY <3>1, <3>2
  <2>6. QED
    BY <2>5
<1>9. QED
  BY <1>1, <1>6, <1>8

\* check_dependency checks the reference at Here, and no other.
LEMMA DependencyStep ==
  ASSUME Progress, check_dependency
  PROVE  /\ Progress' /\ Checked' = Checked \cup {Here}
         /\ UNCHANGED config
         /\ \A s, t : Depends(Here, s, t) <=> Crosses(node, Head(pending), s, t)
         /\ Here \in Nat \X Nat /\ Here[1] = visited /\ node = config.nodes[visited]
         /\ phase = "walk"
<1>1. /\ pending # << >> /\ pending' = Tail(pending)
      /\ UNCHANGED <<config, visited, phase, undecided>>
  BY DEF check_dependency
<1>2. /\ phase = "walk" /\ visited \in 1..Len(config.nodes) /\ visited \in Nat
      /\ pending \in Seq(Definitions)
  BY <1>1 DEF Progress, IsCrate
<1>3. Named(visited) \in Seq(Definitions) /\ \A k : Named(k)' = Named(k)
  BY <1>1, <1>2, NamedDefinitions DEF Progress, Named
<1> DEFINE n == Len(Named(visited))
           p == Len(pending)
<1>4. /\ n \in Nat /\ p \in Nat \ {0} /\ p <= n
      /\ Tail(pending) \in Seq(Definitions) /\ Len(Tail(pending)) = p - 1
      /\ Head(pending) = pending[1]
      /\ \A i \in 1..(p-1) : Tail(pending)[i] = pending[i+1]
  BY <1>1, <1>2, <1>3 DEF Progress
<1>5. pending[1] = Named(visited)[n - p + 1]
  BY <1>2, <1>4 DEF Progress
<1>6. Progress'
  <2>1. \A i \in 1..(p-1) : pending'[i] = Named(visited)[n - (p-1) + i]
    <3> SUFFICES ASSUME NEW i \in 1..(p-1)
                 PROVE  pending'[i] = Named(visited)[n - (p-1) + i]
      OBVIOUS
    <3>1. i + 1 \in 1..p /\ n - p + (i + 1) = n - (p-1) + i
      BY <1>4
    <3>2. pending[i+1] = Named(visited)[n - p + (i+1)]
      BY <1>2, <3>1 DEF Progress
    <3>3. QED
      BY <1>1, <1>4, <3>1, <3>2
  <2>2. Len(pending') = p - 1 /\ p - 1 <= n
    BY <1>1, <1>4
  <2>3. QED
    BY <1>1, <1>2, <1>3, <1>4, <2>1, <2>2 DEF Progress
<1>7. CheckedExactly /\ CheckedExactly'
  BY <1>6, CheckedPositions, PTL
<1>8. Here = <<visited, n - p + 1>> /\ Here \in Nat \X Nat /\ Here[1] = visited
  BY <1>2, <1>4 DEF Here
<1>9. Checked' = Checked \cup {Here}
  <2>1. \A r : r \in Checked' <=>
          /\ r \in Nat \X Nat /\ r[1] \in 1..visited
          /\ r[2] \in 1..(Len(Named(r[1])) - IF r[1] = visited THEN p - 1 ELSE 0)
    BY <1>1, <1>3, <1>4, <1>7 DEF CheckedExactly
  <2>2. \A r : r[1] # visited => (r \in Checked' <=> r \in Checked) /\ r # Here
    BY <1>7, <1>8, <2>1 DEF CheckedExactly
  <2>3. ASSUME NEW r, r[1] = visited
        PROVE  r \in Checked' <=> r \in Checked \/ r = Here
    <3>1. /\ r \in Checked' <=> r \in Nat \X Nat /\ r[2] \in 1..(n - (p-1))
          /\ r \in Checked <=> r \in Nat \X Nat /\ r[2] \in 1..(n - p)
      <4>1. Len(Named(r[1])) = n /\ r[1] \in 1..visited
        BY <1>2, <2>3
      <4>2. r \in Checked <=> /\ r \in Nat \X Nat /\ r[1] \in 1..visited
                              /\ r[2] \in 1..(Len(Named(r[1])) - p)
        BY <1>7, <2>3 DEF CheckedExactly
      <4>3. r \in Checked' <=> /\ r \in Nat \X Nat /\ r[1] \in 1..visited
                               /\ r[2] \in 1..(Len(Named(r[1])) - (p - 1))
        BY <2>1, <2>3
      <4>4. QED
        BY <4>1, <4>2, <4>3, Zenon
    <3>2. r = Here <=> r \in Nat \X Nat /\ r[2] = n - p + 1
      BY <1>2, <1>8, <2>3
    <3>3. \A j : j \in 1..(n - (p-1)) <=> j \in 1..(n - p) \/ j = n - p + 1
      BY <1>4
    <3>4. QED
      BY <3>1, <3>2, <3>3
  <2>4. QED
    BY <2>2, <2>3
<1>10. \A s, t : Depends(Here, s, t) <=> Crosses(node, Head(pending), s, t)
  BY <1>4, <1>5, <1>8 DEF Depends, node
<1>11. QED
  BY <1>1, <1>2, <1>6, <1>8, <1>9, <1>10 DEF node

-----------------------------------------------------------------------------
(***************************************************************************)
(* The steps of check_dependency.                                          *)
(***************************************************************************)
\* What Emit adds.
Found(lint, s, t) == [lint |-> lint, at |-> Here, source |-> s, target |-> t]

LEMMA Emitted ==
  ASSUME NEW lint, NEW s, NEW t, Emit(lint, s, t)
  PROVE  /\ reported \subseteq reported'
         /\ reported' \subseteq reported \cup {Found(lint, s, t)}
         /\ lint \notin node.allowed =>
              \E d \in reported' : d.lint = lint /\ d.at = Here /\ d.source = s
<1>1. Found(lint, s, t).lint = lint /\ Found(lint, s, t).at = Here
      /\ Found(lint, s, t).source = s
  BY DEF Found
<1>2. reported' = IF lint \in node.allowed THEN reported
                  ELSE reported \cup {Found(lint, s, t)}
  BY DEF Emit, Found
<1>3. QED
  BY <1>1, <1>2

\* A reference that is passed over goes from no module to another.
LEMMA PassedOver ==
  ASSUME PassOver
  PROVE  \A s, t : ~ Crosses(node, Head(pending), s, t)
BY DEF PassOver, Crosses

\* Every step of the lint is of one of these kinds.
Judging ==
  \/ PassOver
  \/ \E s, t \in Names : \/ WarnUnlisted(s, t) \/ LeaveUnconfigured(s, t)
                         \/ AllowEdge(s, t) \/ RejectEdge(s, t)

Standing ==
  /\ Checked' = Checked
  /\ UNCHANGED <<config, used_edges, warned_unlisted>>
  /\ \/ phase' = phase /\ UNCHANGED <<undecided, reported>>
     \/ check_crate_post
     \/ \E e \in undecided : LookUpDeadEdge(e)
     \/ Finish

LEMMA StepKinds ==
  ASSUME Progress, [Next]_vars
  PROVE  Progress' /\ (Judging \/ Standing)
<1>1. CASE check_expr \/ check_ty \/ check_item
  BY <1>1, VisitStep DEF Standing
<1>2. CASE Judging
  <2>1. check_dependency
    BY <1>2 DEF Judging, PassOver, WarnUnlisted, LeaveUnconfigured, AllowEdge, RejectEdge,
                LooksUp
  <2>2. QED
    BY <1>2, <2>1, DependencyStep
<1>3. CASE UNCHANGED vars
  BY <1>3 DEF vars, Progress, Named, Checked, Standing
<1>4. CASE check_crate_post \/ (\E e \in undecided : LookUpDeadEdge(e)) \/ Finish
  <2>1. /\ UNCHANGED <<config, visited, pending, used_edges, warned_unlisted>>
        /\ pending = << >> /\ phase' \in {"walk", "dead", "done"}
    BY <1>4 DEF check_crate_post, LookUpDeadEdge, Finish, Progress
  <2>2. Progress' /\ Checked' = Checked
    BY <2>1 DEF Progress, Named, Checked
  <2>3. QED
    BY <1>4, <2>1, <2>2 DEF Standing
<1>5. QED
  BY <1>1, <1>2, <1>3, <1>4 DEF Next, Judging

\* One that is judged is either passed over, or goes from s to t and no other way.
LEMMA JudgedOnce ==
  ASSUME NEW s, NEW t,
         WarnUnlisted(s, t) \/ LeaveUnconfigured(s, t) \/ AllowEdge(s, t) \/ RejectEdge(s, t)
  PROVE  /\ check_dependency /\ Crosses(node, Head(pending), s, t)
         /\ \A u, v : Crosses(node, Head(pending), u, v) => u = s /\ v = t
<1>1. check_dependency /\ Crosses(node, Head(pending), s, t)
  BY DEF WarnUnlisted, LeaveUnconfigured, AllowEdge, RejectEdge, LooksUp
<1>2. QED
  BY <1>1, CrossesOnce

\* What is judged is a reference of the crate, and the diagnostics stay.
LEMMA JudgingStep ==
  ASSUME Progress, Judging
  PROVE  /\ check_dependency /\ phase = "walk"
         /\ Checked' = Checked \cup {Here} /\ Here \in Nat \X Nat
         /\ UNCHANGED <<config, phase, undecided>>
         /\ node = config.nodes[Here[1]]
         /\ \A s, t : Depends(Here, s, t) <=> Crosses(node, Head(pending), s, t)
         /\ reported \subseteq reported'
<1>1. check_dependency /\ reported \subseteq reported'
  BY Emitted DEF Judging, PassOver, WarnUnlisted, LeaveUnconfigured, AllowEdge, RejectEdge,
     LooksUp
<1>2. QED
  BY <1>1, DependencyStep DEF check_dependency

-----------------------------------------------------------------------------
(***************************************************************************)
(* Nothing slips.                                                          *)
(***************************************************************************)
\* Why a reference to t need not be reported for what it is.
Excused(r, t) ==
  \/ \E d \in reported : d.at = r
  \/ "module_dependencies" \in config.nodes[r[1]].allowed
  \/ /\ config.exhaustive /\ t \notin all_modules
     /\ "module_dependencies_unlisted" \in config.nodes[r[1]].allowed

LEMMA SlipsInv ==
  ASSUME Progress, NothingSlips, [Next]_vars
  PROVE  NothingSlips'
<1>1. \A r \in Checked : \A s \in DOMAIN allow : \A t \in Names \ allow[s] :
        Depends(r, s, t) => Excused(r, t)
  BY DEF NothingSlips, Excused
<1>2. CASE Standing
  <2>1. Checked' = Checked /\ reported \subseteq reported' /\ config' = config
    BY <1>2 DEF Standing, check_crate_post, LookUpDeadEdge, Finish
  <2>2. \A r, s, t : Depends(r, s, t)' <=> Depends(r, s, t)
    BY <2>1, DependsStays
  <2>3. QED
    BY <1>1, <2>1, <2>2 DEF NothingSlips, Excused, allow, all_modules
<1>3. CASE Judging
  <2>1. /\ Checked' = Checked \cup {Here} /\ reported \subseteq reported' /\ config' = config
        /\ \A s, t : Depends(Here, s, t) <=> Crosses(node, Head(pending), s, t)
        /\ node = config.nodes[Here[1]]
    BY <1>3, JudgingStep
  <2>2. ASSUME NEW s \in DOMAIN allow, NEW t \in Names \ allow[s],
               Crosses(node, Head(pending), s, t)
        PROVE  \/ \E d \in reported' : d.at = Here
               \/ "module_dependencies" \in node.allowed
               \/ /\ config.exhaustive /\ t \notin all_modules
                  /\ "module_dependencies_unlisted" \in node.allowed
    <3>1. ~ PassOver
      BY <2>2, PassedOver
    <3>2. WarnUnlisted(s, t) \/ LeaveUnconfigured(s, t) \/ AllowEdge(s, t) \/ RejectEdge(s, t)
      BY <1>3, <2>2, <3>1, JudgedOnce DEF Judging
    <3>3. ~ LeaveUnconfigured(s, t) /\ ~ AllowEdge(s, t)
      BY <2>2 DEF LeaveUnconfigured, AllowEdge
    <3>4. CASE RejectEdge(s, t)
      <4>1. Emit("module_dependencies", s, t)
        BY <3>4 DEF RejectEdge
      <4>2. QED
        BY <4>1, Emitted
    <3>5. CASE WarnUnlisted(s, t)
      <4>1. s \in all_modules
        BY <2>2 DEF all_modules
      <4>2. /\ config.exhaustive /\ Unwarned(t)
            /\ Emit("module_dependencies_unlisted", t, t)
        BY <3>5, <4>1 DEF WarnUnlisted, Unwarned
      <4>3. QED
        BY <4>2, Emitted DEF Unwarned
    <3>6. QED
      BY <3>2, <3>3, <3>4, <3>5
  <2>3. \A r, s, t : Depends(r, s, t)' <=> Depends(r, s, t)
    BY <2>1, DependsStays
  <2>4. QED
    BY <1>1, <2>1, <2>2, <2>3 DEF NothingSlips, Excused, allow, all_modules
<1>4. QED
  BY <1>2, <1>3, StepKinds

-----------------------------------------------------------------------------
(***************************************************************************)
(* The uses of the allowed edges, and the dead ones.                       *)
(***************************************************************************)
\* An allowed edge counts as used exactly if a reference makes it.
UsesExactly ==
  \A s \in DOMAIN allow : \A t \in allow[s] :
    <<s, t>> \in used_edges <=> \E r \in Checked : Depends(r, s, t)

LEMMA UsesInv ==
  ASSUME Progress, UsesExactly, [Next]_vars
  PROVE  UsesExactly'
<1>1. CASE Standing
  <2>1. Checked' = Checked /\ UNCHANGED <<config, used_edges>>
    BY <1>1 DEF Standing
  <2>2. \A r, s, t : Depends(r, s, t)' <=> Depends(r, s, t)
    BY <2>1, DependsStays
  <2>3. QED
    BY <2>1, <2>2 DEF UsesExactly, allow
<1>2. CASE Judging
  <2>1. /\ Checked' = Checked \cup {Here} /\ config' = config
        /\ \A s, t : Depends(Here, s, t) <=> Crosses(node, Head(pending), s, t)
    BY <1>2, JudgingStep
  <2>2. ASSUME NEW s \in DOMAIN allow, NEW t \in allow[s]
        PROVE  <<s, t>> \in used_edges' <=>
                 <<s, t>> \in used_edges \/ Crosses(node, Head(pending), s, t)
    <3>1. CASE PassOver
      BY <3>1, PassedOver DEF PassOver
    <3>2. ASSUME NEW a \in Names, NEW b \in Names,
                 \/ WarnUnlisted(a, b) \/ LeaveUnconfigured(a, b)
                 \/ AllowEdge(a, b) \/ RejectEdge(a, b)
          PROVE  <<s, t>> \in used_edges' <=>
                   <<s, t>> \in used_edges \/ Crosses(node, Head(pending), s, t)
      <4>1. Crosses(node, Head(pending), s, t) <=> a = s /\ b = t
        BY <3>2, JudgedOnce
      <4>2. CASE WarnUnlisted(a, b)
        <5>1. s \in all_modules /\ t \in all_modules
          BY DEF all_modules
        <5>2. a # s \/ b # t
          BY <4>2, <5>1 DEF WarnUnlisted, Unwarned
        <5>3. QED
          BY <4>1, <4>2, <5>2 DEF WarnUnlisted
      <4>3. CASE LeaveUnconfigured(a, b)
        BY <4>1, <4>3 DEF LeaveUnconfigured
      <4>4. CASE AllowEdge(a, b)
        BY <4>1, <4>4 DEF AllowEdge
      <4>5. CASE RejectEdge(a, b)
        <5>1. <<s, t>> # <<a, b>>
          BY <4>5 DEF RejectEdge
        <5>2. QED
          BY <4>1, <4>5, <5>1 DEF RejectEdge
      <4>6. QED
        BY <3>2, <4>2, <4>3, <4>4, <4>5
    <3>3. QED
      BY <1>2, <3>1, <3>2 DEF Judging
  <2>3. \A r, s, t : Depends(r, s, t)' <=> Depends(r, s, t)
    BY <2>1, DependsStays
  <2>4. QED
    BY <2>1, <2>2, <2>3 DEF UsesExactly, allow
<1>3. QED
  BY <1>1, <1>2, StepKinds

AllowedEdges == UNION {{s} \X allow[s] : s \in DOMAIN allow}

\* The dead edges are worth reporting.
DeadDue == is_configured /\ config.coverage = "complete" /\ ~ config.testCrate

DeadReported ==
  {<<d.source, d.target>> :
     d \in {e \in reported : e.lint = "module_dependencies_dead_edge"}}

\* The allowed edges that have been looked up and found to be unused are reported.
DeadSoFar ==
  /\ undecided \subseteq AllowedEdges
  /\ phase # "dead" => undecided = {}
  /\ phase = "dead" => DeadDue
  /\ DeadReported = IF phase = "walk" \/ ~ DeadDue THEN {}
                    ELSE {e \in AllowedEdges \ undecided :
                            /\ e \notin used_edges
                            /\ "module_dependencies_dead_edge" \notin config.allowed}

\* A judged reference makes no edge dead.
LEMMA JudgingReportsNoDeadEdge ==
  ASSUME Judging
  PROVE  DeadReported' = DeadReported
<1>1. ASSUME NEW lint, NEW s, NEW t, Emit(lint, s, t),
             lint # "module_dependencies_dead_edge"
      PROVE  DeadReported' = DeadReported
  <2>1. Found(lint, s, t).lint # "module_dependencies_dead_edge"
    BY <1>1 DEF Found
  <2>2. {e \in reported' : e.lint = "module_dependencies_dead_edge"} =
          {e \in reported : e.lint = "module_dependencies_dead_edge"}
    BY <1>1, <2>1, Emitted
  <2>3. QED
    BY <2>2 DEF DeadReported
<1>2. CASE UNCHANGED reported
  BY <1>2 DEF DeadReported
<1>3. QED
  BY <1>1, <1>2 DEF Judging, PassOver, WarnUnlisted, LeaveUnconfigured, AllowEdge, RejectEdge

LEMMA DeadInv ==
  ASSUME Progress, DeadSoFar, [Next]_vars
  PROVE  DeadSoFar'
<1>1. CASE Judging
  <2>1. phase = "walk" /\ UNCHANGED <<config, phase, undecided>>
    BY <1>1, JudgingStep
  <2>2. QED
    BY <1>1, <2>1, JudgingReportsNoDeadEdge
       DEF DeadSoFar, DeadDue, AllowedEdges, is_configured, allow
<1>2. CASE phase' = phase /\ UNCHANGED <<config, used_edges, undecided, reported>>
  BY <1>2 DEF DeadSoFar, DeadReported, DeadDue, AllowedEdges, is_configured, allow
<1>3. CASE check_crate_post
  <2>1. /\ phase = "walk" /\ UNCHANGED <<config, used_edges, reported>>
        /\ IF DeadDue THEN phase' = "dead" /\ undecided' = AllowedEdges
           ELSE phase' = "done" /\ undecided' = undecided
    BY <1>3 DEF check_crate_post, DeadDue, AllowedEdges
  <2>2. QED
    BY <2>1 DEF DeadSoFar, DeadReported, DeadDue, AllowedEdges, is_configured, allow
<1>4. ASSUME NEW e \in undecided, LookUpDeadEdge(e)
      PROVE  DeadSoFar'
  <2>1. /\ phase = "dead" /\ UNCHANGED <<config, used_edges, phase>>
        /\ undecided' = undecided \ {e}
    BY <1>4 DEF LookUpDeadEdge
  <2>2. e \in AllowedEdges /\ e = <<e[1], e[2]>>
    BY DEF DeadSoFar, AllowedEdges
  <2>3. DeadReported' = IF \/ e \in used_edges
                           \/ "module_dependencies_dead_edge" \in config.allowed
                        THEN DeadReported ELSE DeadReported \cup {e}
    <3> DEFINE new == [lint |-> "module_dependencies_dead_edge", at |-> <<0, 0>>,
                       source |-> e[1], target |-> e[2]]
    <3>1. /\ new.lint = "module_dependencies_dead_edge"
          /\ <<new.source, new.target>> = e
      BY <2>2
    <3>2. reported' = IF \/ e \in used_edges
                         \/ "module_dependencies_dead_edge" \in config.allowed
                      THEN reported ELSE reported \cup {new}
      BY <1>4 DEF LookUpDeadEdge
    <3> HIDE DEF new
    <3>3. QED
      BY <3>1, <3>2 DEF DeadReported
  <2>4. AllowedEdges' = AllowedEdges /\ DeadDue' = DeadDue
    BY <2>1 DEF DeadDue, AllowedEdges, is_configured, allow
  <2>5. DeadDue /\ DeadReported = {f \in AllowedEdges \ undecided :
                            /\ f \notin used_edges
                            /\ "module_dependencies_dead_edge" \notin config.allowed}
    BY <2>1 DEF DeadSoFar
  <2>6. DeadReported' = {f \in AllowedEdges \ undecided' :
                            /\ f \notin used_edges
                            /\ "module_dependencies_dead_edge" \notin config.allowed}
    BY <2>1, <2>2, <2>3, <2>5
  <2>7. QED
    BY <2>1, <2>4, <2>5, <2>6 DEF DeadSoFar
<1>5. CASE Finish
  BY <1>5 DEF Finish, DeadSoFar, DeadReported, DeadDue, AllowedEdges, is_configured, allow
<1>6. QED
  BY <1>1, <1>2, <1>3, <1>4, <1>5, StepKinds DEF Standing

\* When the lint is done these are the allowed edges without a reference.
LEMMA DeadExact ==
  ASSUME UsesExactly, DeadSoFar
  PROVE  DeadEdgesExact
<1> SUFFICES ASSUME phase = "done"
             PROVE  DeadReported =
                      {e \in AllowedEdges :
                         /\ config.coverage = "complete" /\ ~ config.testCrate
                         /\ "module_dependencies_dead_edge" \notin config.allowed
                         /\ \A r \in Checked : ~ Depends(r, e[1], e[2])}
  BY DEF DeadEdgesExact, DeadReported, AllowedEdges
<1>1. \A e \in AllowedEdges :
        e \notin used_edges <=> \A r \in Checked : ~ Depends(r, e[1], e[2])
  BY DEF UsesExactly, AllowedEdges
<1>2. ~ is_configured => AllowedEdges = {}
  BY DEF is_configured, AllowedEdges
<1>3. undecided = {}
  BY DEF DeadSoFar
<1>4. QED
  BY <1>1, <1>2, <1>3 DEF DeadSoFar, DeadDue

-----------------------------------------------------------------------------
(***************************************************************************)
(* Types and warnings.                                                     *)
(***************************************************************************)
Shapes ==
  /\ used_edges \subseteq Names \X Names
  /\ warned_unlisted \subseteq Names
  /\ reported \subseteq [lint: Lints, at: Nat \X Nat, source: Nat, target: Nat]

LEMMA ShapesInv ==
  ASSUME Progress, DeadSoFar, Shapes, [Next]_vars
  PROVE  Shapes'
<1>1. ASSUME NEW lint \in Lints, NEW s \in Names, NEW t \in Names, Emit(lint, s, t),
             Here \in Nat \X Nat
      PROVE  reported' \subseteq [lint: Lints, at: Nat \X Nat, source: Nat, target: Nat]
  <2>1. Found(lint, s, t) \in [lint: Lints, at: Nat \X Nat, source: Nat, target: Nat]
    BY <1>1, NamesAreNames DEF Found
  <2>2. QED
    BY <1>1, <2>1, Emitted DEF Shapes
<1>2. {"module_dependencies", "module_dependencies_unlisted",
       "module_dependencies_dead_edge"} \subseteq Lints
  BY DEF Lints
<1>3. CASE Judging
  <2>1. Here \in Nat \X Nat
    BY <1>3, JudgingStep
  <2>2. CASE PassOver
    BY <2>2 DEF PassOver, Shapes
  <2>3. ASSUME NEW s \in Names, NEW t \in Names,
               WarnUnlisted(s, t) \/ LeaveUnconfigured(s, t) \/ AllowEdge(s, t) \/ RejectEdge(s, t)
        PROVE  Shapes'
    <3>1. CASE WarnUnlisted(s, t)
      <4>1. PICK m \in {s, t} : /\ warned_unlisted' = warned_unlisted \cup {m}
                                /\ Emit("module_dependencies_unlisted", m, m)
        BY <3>1 DEF WarnUnlisted
      <4>2. used_edges' = used_edges
        BY <3>1 DEF WarnUnlisted
      <4>3. QED
        BY <1>1, <1>2, <2>1, <4>1, <4>2 DEF Shapes
    <3>2. CASE LeaveUnconfigured(s, t)
      BY <3>2 DEF LeaveUnconfigured, LooksUp, Shapes
    <3>3. CASE AllowEdge(s, t)
      BY <3>3 DEF AllowEdge, LooksUp, Shapes
    <3>4. CASE RejectEdge(s, t)
      <4>1. /\ used_edges' = used_edges \cup {<<s, t>>} /\ warned_unlisted' = warned_unlisted
            /\ Emit("module_dependencies", s, t)
        BY <3>4 DEF RejectEdge, LooksUp
      <4>2. QED
        BY <1>1, <1>2, <2>1, <4>1 DEF Shapes
    <3>5. QED
      BY <2>3, <3>1, <3>2, <3>3, <3>4
  <2>4. QED
    BY <1>3, <2>2, <2>3 DEF Judging
<1>4. ASSUME NEW e \in undecided, LookUpDeadEdge(e), Standing
      PROVE  Shapes'
  <2>1. e[1] \in Nat /\ e[2] \in Nat
    <3>1. DOMAIN allow \subseteq Nat /\ \A s \in DOMAIN allow : allow[s] \subseteq Nat
      BY DEF Progress, IsCrate, allow
    <3>2. QED
      BY <3>1 DEF DeadSoFar, AllowedEdges
  <2>2. [lint |-> "module_dependencies_dead_edge", at |-> <<0, 0>>, source |-> e[1],
         target |-> e[2]] \in [lint: Lints, at: Nat \X Nat, source: Nat, target: Nat]
    BY <1>2, <2>1
  <2>3. QED
    BY <1>4, <2>2 DEF LookUpDeadEdge, Shapes
<1>5. CASE Standing /\ UNCHANGED reported
  BY <1>5 DEF Standing, Shapes
<1>6. QED
  BY <1>3, <1>4, <1>5, StepKinds DEF Standing, check_crate_post, Finish

\* What is reported of an unlisted module is kept in warned_unlisted.
Warnings ==
  /\ warned_unlisted \cap all_modules = {}
  /\ \A d \in reported : d.lint = "module_dependencies_unlisted" => d.source \in warned_unlisted
  /\ UnlistedOnce

\* In a step that reports nothing about unlisted modules and goes from no module
\* that is unknown, the warnings stay right.
LEMMA WarningsStay ==
  ASSUME Warnings, UNCHANGED <<config, warned_unlisted>>,
         reported \subseteq reported',
         \A d \in reported' : d.lint = "module_dependencies_unlisted" => d \in reported,
         config.exhaustive =>
           \A r \in Checked' \ Checked : \A s, t \in Names :
             Depends(r, s, t) => /\ s \in all_modules \cup warned_unlisted
                                 /\ t \in all_modules \cup warned_unlisted
  PROVE  Warnings'
<1>1. \A r, s, t : Depends(r, s, t)' <=> Depends(r, s, t)
  BY DependsStays
<1>2. all_modules' = all_modules
  BY DEF all_modules, allow
<1>3. QED
  BY <1>1, <1>2 DEF Warnings, UnlistedOnce

LEMMA WarningsInv ==
  ASSUME Progress, Warnings, [Next]_vars
  PROVE  Warnings'
<1>1. CASE Standing
  <2>1. /\ UNCHANGED <<config, warned_unlisted>> /\ Checked' = Checked
        /\ reported \subseteq reported'
        /\ \A d \in reported' : d.lint = "module_dependencies_unlisted" => d \in reported
    BY <1>1 DEF Standing, check_crate_post, LookUpDeadEdge, Finish
  <2>2. QED
    BY <2>1, WarningsStay
<1>2. CASE Judging
  <2>1. /\ Checked' = Checked \cup {Here} /\ config' = config
        /\ \A s, t : Depends(Here, s, t) <=> Crosses(node, Head(pending), s, t)
        /\ reported \subseteq reported' /\ node = config.nodes[Here[1]]
    BY <1>2, JudgingStep
  <2>2. CASE PassOver
    <3>1. UNCHANGED <<warned_unlisted, reported>>
      BY <2>2 DEF PassOver
    <3>2. QED
      BY <2>1, <2>2, <3>1, PassedOver, WarningsStay
  <2>3. ASSUME NEW a \in Names, NEW b \in Names,
               LeaveUnconfigured(a, b) \/ AllowEdge(a, b) \/ RejectEdge(a, b)
        PROVE  Warnings'
    <3>1. LooksUp(a, b) /\ warned_unlisted' = warned_unlisted
      BY <2>3 DEF LeaveUnconfigured, AllowEdge, RejectEdge, LooksUp
    <3>2. \A d \in reported' : d.lint = "module_dependencies_unlisted" => d \in reported
      <4>1. \A s, t : Found("module_dependencies", s, t).lint = "module_dependencies"
        BY DEF Found
      <4>2. QED
        BY <2>3, <4>1, Emitted DEF LeaveUnconfigured, AllowEdge, RejectEdge
    <3>3. config.exhaustive => /\ a \in all_modules \cup warned_unlisted
                               /\ b \in all_modules \cup warned_unlisted
      BY <3>1 DEF LooksUp, Unwarned
    <3>4. \A s, t : Depends(Here, s, t) => s = a /\ t = b
      BY <2>1, <2>3, JudgedOnce
    <3>5. QED
      BY <2>1, <3>1, <3>2, <3>3, <3>4, WarningsStay
  <2>4. ASSUME NEW a \in Names, NEW b \in Names, WarnUnlisted(a, b)
        PROVE  Warnings'
    <3>1. PICK m \in {a, b} :
            /\ Unwarned(m) /\ (m = b => ~ Unwarned(a))
            /\ warned_unlisted' = warned_unlisted \cup {m}
            /\ Emit("module_dependencies_unlisted", m, m)
      BY <2>4 DEF WarnUnlisted
    <3> DEFINE new == Found("module_dependencies_unlisted", m, m)
    <3>2. new.lint = "module_dependencies_unlisted" /\ new.source = m /\ new.at = Here
      BY DEF Found
    <3>3. /\ reported' \subseteq reported \cup {new}
          /\ \/ "module_dependencies_unlisted" \in node.allowed
             \/ \E d \in reported' : d.at = Here /\ d.source = m
      BY <3>1, Emitted
    <3> HIDE DEF new
    <3>4. all_modules' = all_modules /\ \A r, s, t : Depends(r, s, t)' <=> Depends(r, s, t)
      BY <2>1, DependsStays DEF all_modules, allow
    <3>5. m \notin all_modules /\ m \notin warned_unlisted
      BY <3>1 DEF Unwarned
    <3>6. /\ (warned_unlisted \cap all_modules)' = {}
          /\ \A d \in reported' : d.lint = "module_dependencies_unlisted"
                                   => d.source \in warned_unlisted'
      BY <3>1, <3>2, <3>3, <3>4, <3>5 DEF Warnings
    <3>7. \A d, e \in reported' :
            /\ d.lint = "module_dependencies_unlisted" /\ e.lint = d.lint
            /\ d.source = e.source
            => d = e
      BY <3>2, <3>3, <3>5 DEF Warnings, UnlistedOnce
    <3>8. \A s, t : Depends(Here, s, t) => s = a /\ t = b
      BY <2>1, <2>4, JudgedOnce
    <3>9. /\ a \in all_modules \cup warned_unlisted'
          /\ \/ b \in all_modules \cup warned_unlisted'
             \/ "module_dependencies_unlisted" \in node.allowed
             \/ \E d \in reported' : d.at = Here /\ d.source = a
      BY <3>1, <3>3 DEF Unwarned
    <3>10. config.exhaustive =>
             \A r \in Checked' : \A s, t \in Names :
               Depends(r, s, t) =>
                 /\ s \in all_modules \cup warned_unlisted'
                 /\ \/ t \in all_modules \cup warned_unlisted'
                    \/ "module_dependencies_unlisted" \in config.nodes[r[1]].allowed
                    \/ \E d \in reported' : d.at = r /\ d.source = s
      <4>1. CASE config.exhaustive
        <5>1. \A r \in Checked : \A s, t \in Names :
               Depends(r, s, t) =>
                 /\ s \in all_modules \cup warned_unlisted'
                 /\ \/ t \in all_modules \cup warned_unlisted'
                    \/ "module_dependencies_unlisted" \in config.nodes[r[1]].allowed
                    \/ \E d \in reported' : d.at = r /\ d.source = s
          BY <2>1, <3>1, <4>1 DEF Warnings, UnlistedOnce
        <5>2. QED
          BY <2>1, <3>8, <3>9, <5>1
      <4>2. QED
        BY <4>1
    <3>11. UnlistedOnce'
      BY <2>1, <3>4, <3>7, <3>10 DEF UnlistedOnce
    <3>12. QED
      BY <3>6, <3>11 DEF Warnings
  <2>5. QED
    BY <1>2, <2>2, <2>3, <2>4 DEF Judging
<1>3. QED
  BY <1>1, <1>2, StepKinds

-----------------------------------------------------------------------------
(***************************************************************************)
(* Only what is due is reported.                                           *)
(***************************************************************************)
\* A diagnostic is due: the body of OnlyDue.
Due(d) ==
  /\ d.at \in Checked
  /\ \E s, t \in Names :
       /\ Depends(d.at, s, t)
       /\ d.lint = "module_dependencies" =>
            d.source = s /\ d.target = t /\ s \in DOMAIN allow /\ t \notin allow[s]
       /\ d.lint = "module_dependencies_unlisted" =>
            config.exhaustive /\ d.source \in {s, t} \ all_modules

\* A due diagnostic stays due.
LEMMA DueStays ==
  ASSUME UNCHANGED config, Checked \subseteq Checked', NEW d, Due(d)
  PROVE  Due(d)'
<1>1. \A r, s, t : Depends(r, s, t)' <=> Depends(r, s, t)
  BY DependsStays
<1>2. all_modules' = all_modules
  BY DEF all_modules, allow
<1>3. QED
  BY <1>1, <1>2 DEF Due, allow

LEMMA DueInv ==
  ASSUME Progress, OnlyDue, [Next]_vars
  PROVE  OnlyDue'
<1>1. \A d \in reported : d.lint # "module_dependencies_dead_edge" => Due(d)
  BY DEF OnlyDue, Due
<1>2. SUFFICES \A d \in reported' : d.lint # "module_dependencies_dead_edge" => Due(d)'
  BY <1>2 DEF OnlyDue, Due
<1>3. CASE Standing
  <2>1. /\ UNCHANGED config /\ Checked' = Checked
        /\ \A d \in reported' : d.lint # "module_dependencies_dead_edge" => d \in reported
    BY <1>3 DEF Standing, check_crate_post, LookUpDeadEdge, Finish
  <2>2. QED
    BY <1>1, <2>1, DueStays
<1>4. CASE Judging
  <2>1. /\ Checked' = Checked \cup {Here} /\ config' = config
        /\ \A s, t : Depends(Here, s, t) <=> Crosses(node, Head(pending), s, t)
    BY <1>4, JudgingStep
  <2>2. \A d \in reported : d.lint # "module_dependencies_dead_edge" => Due(d)'
    BY <1>1, <2>1, DueStays
  <2>3. \A r, s, t : Depends(r, s, t)' <=> Depends(r, s, t)
    BY <2>1, DependsStays
  <2>4. all_modules' = all_modules
    BY <2>1 DEF all_modules, allow
  <2>5. CASE PassOver
    BY <2>2, <2>5 DEF PassOver
  <2>6. ASSUME NEW a \in Names, NEW b \in Names,
               WarnUnlisted(a, b) \/ LeaveUnconfigured(a, b) \/ AllowEdge(a, b) \/ RejectEdge(a, b)
        PROVE  \A d \in reported' : d.lint # "module_dependencies_dead_edge" => Due(d)'
    <3> SUFFICES ASSUME NEW d \in reported', d \notin reported
                 PROVE  Due(d)'
      BY <2>2
    <3>1. d.at = Here => Depends(d.at, a, b)' /\ d.at \in Checked'
      BY <2>1, <2>3, <2>6, JudgedOnce
    <3>2. CASE WarnUnlisted(a, b)
      <4>1. PICK m \in {a, b} : /\ Unwarned(m) /\ config.exhaustive
                                /\ Emit("module_dependencies_unlisted", m, m)
        BY <3>2 DEF WarnUnlisted
      <4>2. d = Found("module_dependencies_unlisted", m, m)
        BY <4>1, Emitted
      <4>3. d.lint = "module_dependencies_unlisted" /\ d.source = m /\ d.at = Here
        BY <4>2 DEF Found
      <4>4. m \in {a, b} \ all_modules
        BY <4>1 DEF Unwarned
      <4>5. QED
        BY <2>1, <2>4, <3>1, <4>1, <4>3, <4>4 DEF Due
    <3>3. CASE LeaveUnconfigured(a, b) \/ AllowEdge(a, b)
      BY <3>3 DEF LeaveUnconfigured, AllowEdge
    <3>4. CASE RejectEdge(a, b)
      <4>1. /\ a \in DOMAIN allow /\ b \notin allow[a]
            /\ d = Found("module_dependencies", a, b)
        BY <3>4, Emitted DEF RejectEdge
      <4>2. d.lint = "module_dependencies" /\ d.source = a /\ d.target = b /\ d.at = Here
        BY <4>1 DEF Found
      <4>3. QED
        BY <2>1, <3>1, <4>1, <4>2 DEF Due, allow
    <3>5. QED
      BY <2>6, <3>2, <3>3, <3>4
  <2>7. QED
    BY <1>4, <2>5, <2>6 DEF Judging
<1>5. QED
  BY <1>3, <1>4, StepKinds

-----------------------------------------------------------------------------
(***************************************************************************)
(* The theorems.                                                           *)
(***************************************************************************)
\* The inductive invariant.
Inv == Progress /\ Shapes /\ DeadSoFar /\ UsesExactly /\ Warnings /\ NothingSlips /\ OnlyDue

LEMMA Start == Init => Inv
<1> SUFFICES ASSUME Init PROVE Inv
  OBVIOUS
<1>1. PICK c \in CrateIds : config = Crate(c)
  BY DEF Init
<1>2. IsCrate(config)
  BY <1>1, CratesAssumption DEF CratesAssumption
<1>3. Progress
  BY <1>2 DEF Init, Progress, IsCrate
<1>4. Checked = {}
  BY DEF Init, Checked
<1>5. Shapes /\ DeadSoFar
  BY DEF Init, Shapes, DeadSoFar, DeadReported
<1>6. UsesExactly /\ NothingSlips /\ OnlyDue
  BY <1>4 DEF Init, UsesExactly, NothingSlips, OnlyDue
<1>7. Warnings
  BY <1>4 DEF Init, Warnings, UnlistedOnce
<1>8. QED
  BY <1>3, <1>5, <1>6, <1>7 DEF Inv

\* It holds throughout.
LEMMA Invariance == Spec => []Inv
<1>1. Inv /\ [Next]_vars => Inv'
  BY StepKinds, ShapesInv, DeadInv, UsesInv, WarningsInv, SlipsInv, DueInv DEF Inv
<1>2. QED
  BY <1>1, Start, PTL DEF Spec

\* The variables keep their types, for every crate and configuration.
THEOREM TypesHold == Spec => []TypeOK
<1>1. Inv => TypeOK
  BY DEF Inv, Progress, Shapes, DeadSoFar, AllowedEdges, TypeOK
<1>2. QED
  BY <1>1, Invariance, PTL

\* No forbidden dependency escapes check_dependency, for every crate, every
\* configuration, and whatever order the compiler visits the references in.
THEOREM NoneSlips == Spec => []NothingSlips
<1>1. Inv => NothingSlips
  BY DEF Inv
<1>2. QED
  BY <1>1, Invariance, PTL

\* check_dependency rejects only what the configuration forbids and warns only of
\* what it does not name, for every crate and configuration.
THEOREM OnlyDueReported == Spec => []OnlyDue
<1>1. Inv => OnlyDue
  BY DEF Inv
<1>2. QED
  BY <1>1, Invariance, PTL

\* warn_unlisted_once warns of a module once, and of every unlisted module that a
\* reference reaches, for every crate and configuration.
THEOREM WarnedOnce == Spec => []UnlistedOnce
<1>1. Inv => UnlistedOnce
  BY DEF Inv, Warnings
<1>2. QED
  BY <1>1, Invariance, PTL

\* check_crate_post calls exactly the allowed edges dead that no reference makes,
\* for every crate and configuration.
THEOREM DeadEdgesAreDead == Spec => []DeadEdgesExact
<1>1. Inv => DeadEdgesExact
  BY DeadExact DEF Inv
<1>2. QED
  BY <1>1, Invariance, PTL
=============================================================================
