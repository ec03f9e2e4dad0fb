------------------------ MODULE AcyclicModulesProofs ------------------------
(***************************************************************************)
(* Proofs about AcyclicModules, for every module tree and every crate.     *)
(***************************************************************************)
EXTENDS AcyclicModules, SequenceTheorems, WellFoundedInduction, TLAPS

-----------------------------------------------------------------------------
(***************************************************************************)
(* Facts about the operators.                                              *)
(***************************************************************************)
\* A nonempty set of numbers has a least element.
LEMMA LeastNat ==
  ASSUME NEW S \in SUBSET Nat, S # {}
  PROVE  \E x \in S : \A y \in S : x <= y
<1> DEFINE R == {ss \in Nat \X Nat : ss[1] < ss[2]}
<1>1. IsWellFoundedOn(R, Nat)
  BY NatLessThanWellFounded DEF OpToRel
<1>1a. \A x, y \in Nat : <<y, x>> \in R <=> y < x
  OBVIOUS
<1> HIDE DEF R
<1>2. PICK x \in S : \A y \in S : ~ (<<y, x>> \in R)
  BY <1>1, WFMin
<1>3. \A y \in S : ~ (y < x)
  BY <1>2, <1>1a, Zenon
<1>4. \A y \in S : x <= y
  BY <1>3
<1>5. QED
  BY <1>4

\* A set with zero that contains the successor of each of its numbers.
LEMMA Induction ==
  ASSUME NEW S, 0 \in S, \A n \in Nat : n \in S => n + 1 \in S
  PROVE  \A n \in Nat : n \in S
<1> DEFINE Missing == Nat \ S
<1> SUFFICES ASSUME Missing # {} PROVE FALSE
  OBVIOUS
<1>1. PICK n \in Missing : \A m \in Missing : n <= m
  BY LeastNat
<1>2. n - 1 \in Nat /\ n - 1 \in S /\ (n - 1) + 1 = n
  BY <1>1
<1>3. QED
  BY <1>2

\* Every definition is in some module of the crate: the root contains it.
LEMMA ItemModule ==
  ASSUME NEW def, def.path \in Seq(Nat)
  PROVE  item_module_def_id(Modules, def) \in Modules
<1> DEFINE Above == {m \in Modules : IsPrefix(m, def.path)}
           Depths == {Len(def.path) - Len(m) : m \in Above}
<1>1. << >> \in Above
  BY CratesAssumption DEF CratesAssumption, IsPrefix
<1>2. Depths \in SUBSET Nat
  BY CratesAssumption DEF CratesAssumption, IsPrefix
<1>3. PICK d \in Depths : \A e \in Depths : d <= e
  <2>1. Depths # {}
    BY <1>1
  <2> HIDE DEF Depths
  <2>2. QED
    BY <1>2, <2>1, LeastNat
<1>4. PICK m \in Above : d = Len(def.path) - Len(m)
  BY <1>3
<1>5. \A q \in Modules : IsPrefix(q, def.path) => Len(q) <= Len(m)
  <2> SUFFICES ASSUME NEW q \in Modules, IsPrefix(q, def.path)
               PROVE  Len(q) <= Len(m)
    OBVIOUS
  <2>1. d <= Len(def.path) - Len(q)
    BY <1>3
  <2>2. m \in Seq(Nat) /\ q \in Seq(Nat)
    BY CratesAssumption DEF CratesAssumption
  <2>3. QED
    BY <1>4, <2>1, <2>2
<1>6. QED
  BY <1>4, <1>5 DEF item_module_def_id

\* The shared beginning of two paths is a beginning of both.
LEMMA CommonLenOfBoth ==
  ASSUME NEW s \in Seq(Nat), NEW t \in Seq(Nat)
  PROVE  LET k == CommonLen(s, t)
         IN  /\ k \in 0..Len(s) /\ k <= Len(t)
             /\ SubSeq(s, 1, k) = SubSeq(t, 1, k)
             /\ k < Len(s) /\ k < Len(t) => s[k+1] # t[k+1]
<1> DEFINE Ends == {k \in 0..Len(s) :
                      /\ k <= Len(t)
                      /\ k < Len(s) /\ k < Len(t) => s[k+1] # t[k+1]}
<1>1. Ends \in SUBSET Nat /\ Ends # {}
  <2>1. CASE Len(s) <= Len(t)
    <3>1. Len(s) \in Ends
      BY <2>1
    <3>2. QED
      BY <3>1
  <2>2. CASE Len(t) < Len(s)
    <3>1. Len(t) \in Ends
      BY <2>2
    <3>2. QED
      BY <3>1
  <2>3. QED
    BY <2>1, <2>2
<1>2. PICK k \in Ends : \A j \in Ends : k <= j
  BY <1>1, LeastNat
<1>3. ASSUME NEW i \in 1..k PROVE s[i] = t[i]
  <2>1. i - 1 \notin Ends
    <3> HIDE DEF Ends
    <3>1. i - 1 \in Ends => k <= i - 1
      BY <1>2
    <3>2. k \in Nat
      BY <1>1
    <3>3. QED
      BY <3>1, <3>2
  <2>2. i - 1 \in 0..Len(s) /\ i - 1 < Len(s) /\ i - 1 < Len(t) /\ (i - 1) + 1 = i
    BY <1>2
  <2>3. QED
    BY <2>1, <2>2
<1>4. SubSeq(s, 1, k) = SubSeq(t, 1, k)
  BY <1>2, <1>3
<1>5. QED
  BY <1>2, <1>4 DEF CommonLen

\* The edge recorded for a reference joins two modules.
LEMMA RecordedEdge ==
  ASSUME crate \in CrateIds, NEW k \in 1..Len(hir.nodes),
         NEW def \in Range(hir.nodes[k].res)
  PROVE  record_edge(hir.nodes[k], def, k)
           \subseteq [source: Modules, target: Modules, span: 1..k]
<1>1. hir.nodes[k] \in Nodes
  BY CratesAssumption, ElementOfSeq DEF CratesAssumption, hir
<1>2. /\ hir.nodes[k].owner \in Modules
      /\ hir.nodes[k].res \in Seq(Definitions)
  BY <1>1 DEF Nodes
<1>3. def \in Definitions
  BY <1>2, RangeOfSeq
<1>4. def.path \in Seq(Nat)
  BY <1>3 DEF Definitions
<1>5. item_module_def_id(Modules, def) \in Modules
  BY <1>4, ItemModule
<1>6. QED
  BY <1>2, <1>5 DEF record_edge

\* The names of the siblings are names.
LEMMA SiblingNames ==
  ASSUME WalkTypes, NEW p \in DOMAIN build_sibling_graphs
  PROVE  Children(build_sibling_graphs[p]) \subseteq Nat
<1>1. ASSUME NEW e \in edges, Diverges(e)
      PROVE  Sibling(e).arc[1] \in Nat /\ Sibling(e).arc[2] \in Nat
  <2>1. e.source \in Seq(Nat) /\ e.target \in Seq(Nat)
    BY CratesAssumption DEF CratesAssumption, WalkTypes
  <2> DEFINE k == CommonLen(e.source, e.target)
  <2>2. k \in Nat
    BY <2>1, CommonLenOfBoth
  <2>3. k < Len(e.source) /\ k < Len(e.target)
    BY <1>1 DEF Diverges
  <2>4. Sibling(e).arc = <<e.source[k+1], e.target[k+1]>>
    BY DEF Sibling
  <2> HIDE DEF k
  <2>5. e.source[k+1] \in Nat /\ e.target[k+1] \in Nat
    BY SMTT(30), <2>1, <2>2, <2>3
  <2>6. QED
    BY <2>4, <2>5
<1>2. ASSUME NEW s \in build_sibling_graphs[p]
      PROVE  \E e \in edges : Diverges(e) /\ s = Sibling(e)
  BY DEF build_sibling_graphs
<1>3. ASSUME NEW a \in Arcs(build_sibling_graphs[p])
      PROVE  a[1] \in Nat /\ a[2] \in Nat
  BY <1>1, <1>2 DEF Arcs
<1>4. QED
  BY <1>3 DEF Children

LEMMA LexLeqSelf == \A s : LexLeq(s, s)
BY DEF LexLeq, IsPrefix

\* Returning from a call takes the last child off the path.
LEMMA Pop ==
  ASSUME NEW D, NEW p \in Seq(D), p # << >>
  PROVE  /\ Last(p) \in D /\ Len(p) \in DOMAIN p /\ Last(p) = p[Len(p)]
         /\ Front(p) \in Seq(D)
         /\ Len(Front(p)) = Len(p) - 1
         /\ DOMAIN Front(p) = 1..(Len(p) - 1)
         /\ \A i \in 1..(Len(p) - 1) : Front(p)[i] = p[i]
<1>1. Len(p) \in Nat \ {0} /\ DOMAIN p = 1..Len(p)
  BY EmptySeq, LenProperties
<1>2. \A i \in 1..Len(p) : p[i] \in D
  BY ElementOfSeq
<1>3. /\ Front(p) \in Seq(D)
      /\ Len(Front(p)) = Len(p) - 1
      /\ \A i \in 1..(Len(p) - 1) : Front(p)[i] = p[i]
  BY <1>1, <1>2, SubSeqProperties DEF Front
<1>4. DOMAIN Front(p) = 1..(Len(p) - 1)
  BY <1>3, LenProperties
<1>5. QED
  BY <1>1, <1>2, <1>3, <1>4 DEF Last

\* A call puts its child on the path.
LEMMA Push ==
  ASSUME NEW D, NEW p \in Seq(D), NEW n \in D
  PROVE  /\ Append(p, n) \in Seq(D)
         /\ Len(Append(p, n)) = Len(p) + 1
         /\ DOMAIN Append(p, n) = 1..(Len(p) + 1)
         /\ DOMAIN p = 1..Len(p) /\ Len(p) \in Nat
         /\ \A i \in 1..Len(p) : Append(p, n)[i] = p[i]
         /\ Append(p, n)[Len(p) + 1] = n
BY AppendProperties, LenProperties

-----------------------------------------------------------------------------
(***************************************************************************)
(* The search.                                                             *)
(***************************************************************************)
GraphNames ==
  /\ \A p \in DOMAIN graphs : Children(graphs[p]) \subseteq Nat
  /\ DOMAIN adj \subseteq Nat

\* What a call has left to look at are neighbours of its child.
Remaining == \A n \in DOMAIN adj : rest[n] \subseteq adj[n]

SearchInv == WalkTypes /\ SearchTypes /\ GrayIsOnPath /\ GraphNames /\ Remaining

\* Visiting a node keeps the invariant.
LEMMA SearchInvVisit ==
  ASSUME SearchInv, check_expr \/ check_ty \/ check_item
  PROVE  SearchInv'
<1> DEFINE k == visited + 1
           node == hir.nodes[k]
<1>1. /\ k \in 1..Len(hir.nodes) /\ visited' = k /\ crate' = crate
      /\ UNCHANGED <<phase, graphs, parents, searchVars>>
  BY DEF SearchInv, WalkTypes, check_expr, check_ty, check_item, Visit
<1>2. node.res \in Seq(Definitions)
  <2>1. node \in Nodes
    BY <1>1, CratesAssumption, ElementOfSeq DEF CratesAssumption, hir, SearchInv, WalkTypes
  <2>2. QED
    BY <2>1 DEF Nodes
<1>3. PICK R \in SUBSET Range(node.res) :
        edges' = edges \cup UNION {record_edge(node, def, k) : def \in R}
  <2>1. Range(resolve_def_id(node)) \subseteq Range(node.res)
    BY <1>2, EmptySeq, LenProperties DEF resolve_def_id, Range
  <2>2. QED
    BY <2>1 DEF check_expr, check_ty, check_item, Visit, for_each_use_def_id
<1>4. edges' \subseteq [source: Modules, target: Modules, span: 1..k]
  <2>1. \A def \in R : record_edge(node, def, k)
                         \subseteq [source: Modules, target: Modules, span: 1..k]
    BY <1>1, RecordedEdge DEF SearchInv, WalkTypes
  <2>2. edges \subseteq [source: Modules, target: Modules, span: 1..k]
    BY <1>1 DEF SearchInv, WalkTypes
  <2>3. QED
    BY <1>3, <2>1, <2>2
<1>5. WalkTypes'
  BY <1>1, <1>4 DEF WalkTypes, SearchInv, hir
<1>6. QED
  BY <1>1, <1>5 DEF SearchInv, SearchTypes, GrayIsOnPath, GraphNames, Remaining, searchVars

\* Building the graphs keeps the invariant.
LEMMA SearchInvGraphs ==
  ASSUME SearchInv, check_crate_post
  PROVE  SearchInv'
<1>1. UNCHANGED <<walkVars, searchVars>> /\ phase' = "emit"
      /\ graphs' = build_sibling_graphs /\ parents' = DOMAIN graphs'
  BY DEF check_crate_post
<1>2. \A p \in DOMAIN graphs' : Children(graphs'[p]) \subseteq Nat
  BY <1>1, SiblingNames DEF SearchInv
<1>3. WalkTypes'
  BY <1>1 DEF WalkTypes, SearchInv, hir, walkVars
<1>4. SearchTypes' /\ GrayIsOnPath' /\ Remaining'
  BY <1>1 DEF SearchInv, SearchTypes, GrayIsOnPath, Remaining, searchVars
<1>5. GraphNames'
  BY <1>1, <1>2 DEF GraphNames, SearchInv, searchVars
<1>6. QED
  BY <1>3, <1>4, <1>5 DEF SearchInv

\* Turning to the next parent keeps the invariant: nothing is gray, the path is
\* empty.
LEMMA SearchInvNextParent ==
  ASSUME SearchInv, NextParent
  PROVE  SearchInv'
<1>1. PICK p \in parents : parents' = parents \ {p} /\ adj' = Adjacency(graphs[p])
  BY DEF NextParent
<1>2. /\ color' = [n \in DOMAIN adj' |-> "white"]
      /\ rest' = [n \in DOMAIN adj' |-> {}]
      /\ path' = << >> /\ cycles' = << >> /\ phase' = "dfs"
      /\ UNCHANGED <<walkVars, graphs>>
  BY DEF NextParent
<1>3. DOMAIN adj' = Children(graphs[p]) /\ adj' \in [DOMAIN adj' -> SUBSET DOMAIN adj']
  BY <1>1 DEF Adjacency
<1>4. p \in DOMAIN graphs
  BY DEF SearchInv, SearchTypes
<1>5. WalkTypes'
  BY <1>2 DEF WalkTypes, SearchInv, hir, walkVars
<1>6. path' \in Seq(DOMAIN adj') /\ cycles' \in Seq(Seq(DOMAIN adj')) /\ path' = << >>
  BY <1>2
<1>7. SearchTypes'
  BY <1>1, <1>2, <1>3, <1>6 DEF SearchTypes, SearchInv
<1>8. GrayIsOnPath'
  <2>1. DOMAIN path' = {} /\ Len(path') = 0
    BY <1>6
  <2>2. \A n \in DOMAIN color' : color'[n] # "gray"
    BY <1>2
  <2>3. QED
    BY <2>1, <2>2 DEF GrayIsOnPath, Range
<1>9. GraphNames'
  BY <1>2, <1>3, <1>4 DEF GraphNames, SearchInv
<1>10. Remaining'
  BY <1>2 DEF Remaining
<1>11. QED
  BY <1>5, <1>7, <1>8, <1>9, <1>10 DEF SearchInv

\* A call of dfs keeps the invariant: its child is white, so not yet on the
\* path, and a neighbour of the last child of the path.
LEMMA SearchInvEnter ==
  ASSUME SearchInv, NEW n \in DOMAIN adj,
         NEW r \in [DOMAIN adj -> SUBSET DOMAIN adj],
         \A m \in DOMAIN adj : r[m] \subseteq adj[m],
         Enter(n, r),
         path # << >> => n \in adj[Last(path)],
         UNCHANGED <<walkVars, phase, graphs, parents, parent, adj>>
  PROVE  SearchInv'
<1>1. /\ color[n] = "white" /\ color' = [color EXCEPT ![n] = "gray"]
      /\ path' = Append(path, n) /\ rest' = [r EXCEPT ![n] = adj[n]]
      /\ UNCHANGED <<walkVars, phase, graphs, parents, adj, cycles>>
  BY DEF Enter
<1>2. path \in Seq(DOMAIN adj) /\ color \in [DOMAIN adj -> {"white", "gray", "black"}]
  BY DEF SearchInv, SearchTypes
<1>3. /\ path' \in Seq(DOMAIN adj) /\ Len(path') = Len(path) + 1
      /\ DOMAIN path' = 1..(Len(path) + 1) /\ DOMAIN path = 1..Len(path)
      /\ Len(path) \in Nat
      /\ \A i \in 1..Len(path) : path'[i] = path[i]
      /\ path'[Len(path) + 1] = n
  BY <1>1, <1>2, Push
<1>4. WalkTypes' /\ GraphNames'
  BY <1>1 DEF WalkTypes, GraphNames, SearchInv, hir, walkVars
<1>5. SearchTypes'
  <2>1. rest' \in [DOMAIN adj -> SUBSET DOMAIN adj]
    BY <1>1 DEF SearchInv, SearchTypes
  <2>2. color' \in [DOMAIN adj -> {"white", "gray", "black"}]
    BY <1>1, <1>2
  <2>3. QED
    BY <1>1, <1>3, <2>1, <2>2 DEF SearchTypes, SearchInv
<1>6. GrayIsOnPath'
  <2>1. \A i \in DOMAIN path : path[i] # n
    BY <1>1, <1>2, <1>3 DEF SearchInv, GrayIsOnPath, Range
  <2>2. ASSUME NEW m \in DOMAIN color'
        PROVE  color'[m] = "gray" <=> m \in Range(path')
    <3>1. m \in Range(path') <=> m \in Range(path) \/ m = n
      BY <1>3 DEF Range
    <3>2. QED
      BY <1>1, <1>2, <3>1 DEF SearchInv, GrayIsOnPath
  <2>3. \A i, j \in DOMAIN path' : path'[i] = path'[j] => i = j
    BY <1>3, <2>1 DEF SearchInv, GrayIsOnPath
  <2>4. ASSUME NEW i \in 1..(Len(path') - 1)
        PROVE  path'[i+1] \in adj'[path'[i]]
    <3>1. CASE i < Len(path)
      BY <1>1, <1>3, <3>1 DEF SearchInv, GrayIsOnPath
    <3>2. CASE i = Len(path)
      BY <1>1, <1>3, <3>2 DEF Last
    <3>3. Len(path') - 1 = Len(path)
      BY <1>3
    <3>4. i \in 1..Len(path)
      BY <3>3
    <3>5. i < Len(path) \/ i = Len(path)
      <4> DEFINE L == Len(path)
      <4>1. L \in Nat /\ i \in 1..L
        BY <1>3, <3>4
      <4> HIDE DEF L
      <4>2. i < L \/ i = L
        BY <4>1
      <4>3. QED
        BY <4>2 DEF L
    <3>6. QED
      BY <3>1, <3>2, <3>5
  <2>5. QED
    BY <2>2, <2>3, <2>4 DEF GrayIsOnPath
<1>7. Remaining'
  BY <1>1 DEF Remaining
<1>8. QED
  BY <1>4, <1>5, <1>6, <1>7 DEF SearchInv

\* The loop of detect_cycles keeps the invariant.
LEMMA SearchInvStartRoot ==
  ASSUME SearchInv, StartRoot
  PROVE  SearchInv'
<1>1. PICK n \in DOMAIN color : Enter(n, rest)
  BY DEF StartRoot
<1>2. /\ n \in DOMAIN adj /\ path = << >>
      /\ rest \in [DOMAIN adj -> SUBSET DOMAIN adj]
      /\ \A m \in DOMAIN adj : rest[m] \subseteq adj[m]
      /\ UNCHANGED <<walkVars, phase, graphs, parents, parent, adj>>
  BY DEF StartRoot, SearchInv, SearchTypes, Remaining
<1>3. QED
  BY <1>1, <1>2, SearchInvEnter

\* What a call looks at is a neighbour of the last child of the path, and what
\* it has left once it has looked is less.
LEMMA Looking ==
  ASSUME SearchInv, NEW n \in DOMAIN color, LooksAt(n)
  PROVE  /\ n \in DOMAIN adj /\ Last(path) \in DOMAIN adj
         /\ n \in adj[Last(path)]
         /\ Passed(n) \in [DOMAIN adj -> SUBSET DOMAIN adj]
         /\ \A m \in DOMAIN adj : Passed(n)[m] \subseteq adj[m]
         /\ UNCHANGED <<walkVars, phase, graphs, parents, parent, adj, found, reported>>
<1>1. path \in Seq(DOMAIN adj) /\ path # << >> /\ n \in rest[Last(path)]
  BY DEF LooksAt, SearchInv, SearchTypes
<1>2. Last(path) \in DOMAIN adj
  BY <1>1, Pop
<1>3. /\ rest \in [DOMAIN adj -> SUBSET DOMAIN adj]
      /\ \A m \in DOMAIN adj : rest[m] \subseteq adj[m]
  BY DEF SearchInv, SearchTypes, Remaining
<1>4. QED
  BY <1>1, <1>2, <1>3 DEF LooksAt, Passed, SearchInv, SearchTypes

\* The recursive call keeps the invariant.
LEMMA SearchInvDescend ==
  ASSUME SearchInv, NEW n \in DOMAIN color, Descend(n)
  PROVE  SearchInv'
BY Looking, SearchInvEnter DEF Descend

\* The part of the path from a gray child on is a nonempty path of children
\* that starts with it.
LEMMA BackEdge ==
  ASSUME SearchInv, NEW n \in DOMAIN color, color[n] = "gray"
  PROVE  \E i \in 1..Len(path) : /\ path[i] = n
                                 /\ PathFrom(n) = SubSeq(path, i, Len(path))
                                 /\ PathFrom(n) \in Seq(DOMAIN adj)
<1>1. path \in Seq(DOMAIN adj) /\ DOMAIN path = 1..Len(path) /\ Len(path) \in Nat
  BY LenProperties DEF SearchInv, SearchTypes
<1>2. \E i \in DOMAIN path : path[i] = n
  BY DEF SearchInv, GrayIsOnPath, Range
<1> DEFINE i == CHOOSE j \in DOMAIN path : path[j] = n
<1>3. i \in 1..Len(path) /\ path[i] = n
  BY <1>1, <1>2
<1>4. PathFrom(n) = SubSeq(path, i, Len(path))
  BY DEF PathFrom
<1> HIDE DEF i
<1>5. SubSeq(path, i, Len(path)) \in Seq(DOMAIN adj)
  BY <1>1, <1>3, SubSeqProperties, ElementOfSeq
<1>6. QED
  BY <1>3, <1>4, <1>5

\* Closing a cycle keeps the invariant.
LEMMA SearchInvCloseCycle ==
  ASSUME SearchInv, NEW n \in DOMAIN color, CloseCycle(n)
  PROVE  SearchInv'
<1>1. /\ color[n] = "gray" /\ cycles' = Append(cycles, PathFrom(n)) /\ rest' = Passed(n)
      /\ UNCHANGED <<color, path>>
      /\ UNCHANGED <<walkVars, phase, graphs, parents, parent, adj, found, reported>>
      /\ Passed(n) \in [DOMAIN adj -> SUBSET DOMAIN adj]
      /\ \A m \in DOMAIN adj : Passed(n)[m] \subseteq adj[m]
  BY Looking DEF CloseCycle
<1>2. PathFrom(n) \in Seq(DOMAIN adj)
  BY <1>1, BackEdge
<1>3. cycles' \in Seq(Seq(DOMAIN adj))
  BY <1>1, <1>2, AppendProperties DEF SearchInv, SearchTypes
<1>4. WalkTypes' /\ GraphNames' /\ GrayIsOnPath' /\ Remaining'
  BY <1>1 DEF WalkTypes, GraphNames, GrayIsOnPath, Remaining, SearchInv, hir, walkVars
<1>5. SearchTypes'
  BY <1>1, <1>3 DEF SearchInv, SearchTypes
<1>6. QED
  BY <1>4, <1>5 DEF SearchInv

\* Passing a black neighbour keeps the invariant.
LEMMA SearchInvSkipFinished ==
  ASSUME SearchInv, NEW n \in DOMAIN color, SkipFinished(n)
  PROVE  SearchInv'
<1>1. /\ rest' = Passed(n) /\ UNCHANGED <<color, path, cycles>>
      /\ UNCHANGED <<walkVars, phase, graphs, parents, parent, adj, found, reported>>
      /\ Passed(n) \in [DOMAIN adj -> SUBSET DOMAIN adj]
      /\ \A m \in DOMAIN adj : Passed(n)[m] \subseteq adj[m]
  BY Looking DEF SkipFinished
<1>2. WalkTypes' /\ GraphNames' /\ GrayIsOnPath' /\ Remaining'
  BY <1>1 DEF WalkTypes, GraphNames, GrayIsOnPath, Remaining, SearchInv, hir, walkVars
<1>3. SearchTypes'
  BY <1>1 DEF SearchInv, SearchTypes
<1>4. QED
  BY <1>2, <1>3 DEF SearchInv

\* Returning from a call keeps the invariant: the child that turns black is the
\* one that leaves the path.
LEMMA SearchInvRetreat ==
  ASSUME SearchInv, Retreat
  PROVE  SearchInv'
<1>1. /\ color' = [color EXCEPT ![Last(path)] = "black"] /\ path' = Front(path)
      /\ path # << >>
      /\ UNCHANGED <<walkVars, phase, graphs, parents, parent, adj, rest, cycles>>
  BY DEF Retreat
<1>2. /\ path \in Seq(DOMAIN adj) /\ DOMAIN path = 1..Len(path)
      /\ color \in [DOMAIN adj -> {"white", "gray", "black"}]
  BY LenProperties DEF SearchInv, SearchTypes
<1>3. /\ Last(path) \in DOMAIN adj /\ Len(path) \in DOMAIN path /\ Last(path) = path[Len(path)]
      /\ path' \in Seq(DOMAIN adj)
      /\ Len(path') = Len(path) - 1
      /\ DOMAIN path' = 1..(Len(path) - 1)
      /\ \A i \in 1..(Len(path) - 1) : path'[i] = path[i]
  BY <1>1, <1>2, Pop
<1>4. Len(path) \in Nat
  BY <1>2, LenProperties
<1>5. WalkTypes' /\ GraphNames' /\ Remaining'
  BY <1>1 DEF WalkTypes, GraphNames, Remaining, SearchInv, hir, walkVars
<1>6. SearchTypes'
  BY <1>1, <1>2, <1>3 DEF SearchInv, SearchTypes
<1>7. \A i, j \in DOMAIN path : path[i] = path[j] => i = j
  BY DEF SearchInv, GrayIsOnPath
<1>8. GrayIsOnPath'
  <2>1. ASSUME NEW m \in DOMAIN color'
        PROVE  color'[m] = "gray" <=> m \in Range(path')
    <3>1. m \in Range(path') <=> m \in Range(path) /\ m # Last(path)
      BY <1>2, <1>3, <1>4, <1>7 DEF Range
    <3>2. color[m] = "gray" <=> m \in Range(path)
      BY <1>1, <1>2 DEF SearchInv, GrayIsOnPath
    <3>3. QED
      BY <1>1, <1>2, <3>1, <3>2
  <2>2. \A i, j \in DOMAIN path' : path'[i] = path'[j] => i = j
    BY <1>2, <1>3, <1>4, <1>7
  <2>3. \A i \in 1..(Len(path') - 1) : path'[i+1] \in adj'[path'[i]]
    BY <1>1, <1>3, <1>4 DEF SearchInv, GrayIsOnPath
  <2>4. QED
    BY <2>1, <2>2, <2>3 DEF GrayIsOnPath
<1>9. QED
  BY <1>5, <1>6, <1>8 DEF SearchInv

\* The steps between two searches keep the invariant.
LEMMA SearchInvBetween ==
  ASSUME SearchInv, FinishDetection \/ EmitCycle \/ Finish
  PROVE  SearchInv'
<1>1. /\ UNCHANGED <<walkVars, graphs, parents, searchVars>>
      /\ phase' \in {"walk", "dfs", "emit", "done"}
  BY DEF FinishDetection, EmitCycle, Finish, SearchInv, SearchTypes
<1>2. QED
  BY <1>1 DEF SearchInv, WalkTypes, SearchTypes, GrayIsOnPath, GraphNames, Remaining, hir,
              walkVars, searchVars

\* The unwrap of position() never fails: on every module tree, for every crate.
THEOREM GrayOnPath == Spec => [](SearchInv /\ GrayIsOnPath)
<1>1. Init => SearchInv
  <2> SUFFICES ASSUME Init PROVE SearchInv
    OBVIOUS
  <2>1. path = << >> /\ cycles = << >> /\ adj = << >> /\ color = << >> /\ rest = << >>
        /\ DOMAIN adj = {} /\ DOMAIN path = {} /\ Len(path) = 0
    BY DEF Init
  <2>2. WalkTypes
    <3>1. Len(hir.nodes) \in Nat
      BY CratesAssumption, LenProperties DEF Init, CratesAssumption, hir
    <3>2. QED
      BY <3>1 DEF Init, WalkTypes
  <2>3. SearchTypes
    <3>1. path \in Seq(DOMAIN adj) /\ cycles \in Seq(Seq(DOMAIN adj))
      BY <2>1, EmptySeq
    <3>2. /\ adj \in [DOMAIN adj -> SUBSET DOMAIN adj]
          /\ rest \in [DOMAIN adj -> SUBSET DOMAIN adj]
          /\ color \in [DOMAIN adj -> {"white", "gray", "black"}]
      BY <2>1
    <3>3. QED
      BY <3>1, <3>2 DEF Init, SearchTypes
  <2>4. GrayIsOnPath
    BY <2>1 DEF GrayIsOnPath
  <2>5. GraphNames /\ Remaining
    BY <2>1 DEF Init, GraphNames, Remaining
  <2>6. QED
    BY <2>2, <2>3, <2>4, <2>5 DEF SearchInv
<1>2. SearchInv /\ [Next]_vars => SearchInv'
  <2> SUFFICES ASSUME SearchInv, [Next]_vars PROVE SearchInv'
    OBVIOUS
  <2>1. CASE check_expr \/ check_ty \/ check_item
    BY <2>1, SearchInvVisit
  <2>2. CASE check_crate_post
    BY <2>2, SearchInvGraphs
  <2>3. CASE NextParent
    BY <2>3, SearchInvNextParent
  <2>4. CASE StartRoot
    BY <2>4, SearchInvStartRoot
  <2>5. CASE dfs
    BY <2>5, SearchInvDescend, SearchInvCloseCycle, SearchInvSkipFinished DEF dfs
  <2>6. CASE Retreat
    BY <2>6, SearchInvRetreat
  <2>7. CASE FinishDetection \/ EmitCycle \/ Finish
    BY <2>7, SearchInvBetween
  <2>8. CASE UNCHANGED vars
    BY <2>8 DEF vars, walkVars, searchVars, SearchInv, WalkTypes, SearchTypes, GrayIsOnPath,
                GraphNames, Remaining, hir
  <2>9. QED
    BY <2>1, <2>2, <2>3, <2>4, <2>5, <2>6, <2>7, <2>8 DEF Next
<1>3. SearchInv => GrayIsOnPath
  BY DEF SearchInv
<1>4. QED
  BY <1>1, <1>2, <1>3, PTL DEF Spec

-----------------------------------------------------------------------------
(***************************************************************************)
(* What the search finds.                                                  *)
(***************************************************************************)
\* Between two searches what is still to be reported belongs to the parent
\* searched last, which is no longer among the parents to search.
Bookkeeping ==
  /\ phase \in {"walk", "dfs", "done"} => found = {}
  /\ phase = "walk" => reported = << >> /\ cycles = << >>
  /\ phase = "dfs" \/ found # {} =>
       parent \in DOMAIN graphs \ parents /\ adj = Adjacency(graphs[parent])
  /\ phase = "done" => parents = {}

CycleInv == SearchInv /\ Bookkeeping /\ ReportTypes /\ OnlyCycles

\* The part of the path that a back edge closes is a cycle.
LEMMA PathCloses ==
  ASSUME SearchInv, NEW n \in DOMAIN color, color[n] = "gray", n \in adj[Last(path)]
  PROVE  PathFrom(n) \in Seq(DOMAIN adj) /\ IsCycle(adj, PathFrom(n))
<1>1. PICK i \in 1..Len(path) : /\ path[i] = n
                                /\ PathFrom(n) = SubSeq(path, i, Len(path))
                                /\ PathFrom(n) \in Seq(DOMAIN adj)
  BY BackEdge
<1> DEFINE c == PathFrom(n)
           L == Len(path)
<1>2. path \in Seq(DOMAIN adj) /\ DOMAIN path = 1..L /\ L \in Nat
  BY LenProperties DEF SearchInv, SearchTypes
<1>3. \A j \in i..L : path[j] \in DOMAIN adj
  BY <1>1, <1>2, ElementOfSeq
<1>4. Len(c) = L - i + 1 /\ \A j \in 1..(L - i + 1) : c[j] = path[i + j - 1]
  BY <1>1, <1>2, <1>3, SubSeqProperties
<1>5. DOMAIN c = 1..(L - i + 1)
  BY <1>1, <1>4, LenProperties
<1>6. Last(path) = path[L]
  BY DEF Last
<1>7. /\ \A j, k \in DOMAIN path : path[j] = path[k] => j = k
      /\ \A j \in 1..(L - 1) : path[j+1] \in adj[path[j]]
  BY DEF SearchInv, GrayIsOnPath
<1> HIDE DEF c, L
<1>8. c # << >>
  BY <1>1, <1>2, <1>4, EmptySeq
<1>8a. i \in 1..L
  BY <1>1 DEF L
<1>9. ASSUME NEW j \in DOMAIN c, NEW k \in DOMAIN c, c[j] = c[k]
      PROVE  j = k
  <2>1. j \in 1..(L - i + 1) /\ k \in 1..(L - i + 1)
    BY <1>5
  <2>2. path[i + j - 1] = path[i + k - 1]
    BY <2>1, <1>4, <1>9
  <2>3. i + j - 1 \in DOMAIN path /\ i + k - 1 \in DOMAIN path
    BY <2>1, <1>2, <1>8a
  <2>4. i + j - 1 = i + k - 1
    BY <2>2, <2>3, <1>7
  <2>5. QED
    BY <2>1, <2>4, <1>2, <1>8a
<1>10. ASSUME NEW j \in DOMAIN c PROVE Succ(c, j) \in adj[c[j]]
  <2>1. j \in 1..(L - i + 1) /\ i \in 1..L
    BY <1>1, <1>5 DEF L
  <2>2. CASE j = Len(c)
    <3>1. c[j] = path[L] /\ c[1] = n
      BY <2>1, <2>2, <1>1, <1>2, <1>4
    <3>2. QED
      BY <2>2, <3>1, <1>6 DEF Succ
  <2>3. CASE j # Len(c)
    <3>1. j < L - i + 1 /\ i + j - 1 \in 1..(L - 1)
      BY <2>1, <2>3, <1>2, <1>4
    <3>2. c[j] = path[i + j - 1] /\ c[j + 1] = path[(i + j - 1) + 1]
      BY SMTT(30), <2>1, <3>1, <1>2, <1>4
    <3>3. QED
      BY <2>3, <3>1, <3>2, <1>7 DEF Succ
  <2>4. QED
    BY <2>2, <2>3
<1>11. QED
  BY <1>1, <1>8, <1>9, <1>10 DEF IsCycle, c

\* Rotating a cycle gives a cycle of the same children.
LEMMA Rotation ==
  ASSUME NEW D \in SUBSET Nat, NEW a, NEW c \in Seq(D), IsCycle(a, c)
  PROVE  /\ normalize_cycle(c) \in Seq(D) /\ IsCycle(a, normalize_cycle(c))
         /\ Range(normalize_cycle(c)) \subseteq Range(c)
         /\ \A i \in DOMAIN normalize_cycle(c) : normalize_cycle(c)[1] <= normalize_cycle(c)[i]
<1> DEFINE L == Len(c)
           Least == {i \in DOMAIN c : \A j \in DOMAIN c : c[i] <= c[j]}
           IsMin(i) == /\ \A j \in DOMAIN c : c[i] <= c[j]
                       /\ \A j \in 1..(i-1) : c[i] # c[j]
           m == CHOOSE i \in DOMAIN c : IsMin(i)
           r == normalize_cycle(c)
<1>1. /\ L \in Nat \ {0} /\ DOMAIN c = 1..L
      /\ \A i \in 1..L : c[i] \in D /\ c[i] \in Nat
  BY EmptySeq, LenProperties, ElementOfSeq DEF IsCycle
<1>2. \E i \in DOMAIN c : IsMin(i)
  <2>1. {c[i] : i \in DOMAIN c} \in SUBSET Nat /\ {c[i] : i \in DOMAIN c} # {}
    BY <1>1
  <2>2. PICK x \in {c[i] : i \in DOMAIN c} : \A y \in {c[i] : i \in DOMAIN c} : x <= y
    BY <2>1, LeastNat
  <2>3. PICK i \in DOMAIN c : c[i] = x
    BY <2>2
  <2>4. \A j \in DOMAIN c : c[i] <= c[j]
    BY <2>2, <2>3
  <2>5. \A j \in 1..(i-1) : c[i] # c[j]
    BY <1>1, <2>3 DEF IsCycle
  <2>6. QED
    BY <2>3, <2>4, <2>5
<1>3. m \in 1..L /\ \A j \in 1..L : c[m] <= c[j]
  BY <1>1, <1>2
<1>4. r = SubSeq(c, m, L) \o SubSeq(c, 1, m - 1)
  BY DEF normalize_cycle
<1>5. \A i, j \in 1..L : c[i] = c[j] => i = j
  BY <1>1 DEF IsCycle
<1>6. \A i \in 1..L : Succ(c, i) \in a[c[i]]
  BY <1>1 DEF IsCycle
<1>6a. \A i \in 1..L : Succ(c, i) = IF i = L THEN c[1] ELSE c[i + 1]
  BY DEF Succ
<1> HIDE DEF L, m, r
<1>7. /\ SubSeq(c, m, L) \in Seq(D) /\ Len(SubSeq(c, m, L)) = L - m + 1
      /\ \A i \in 1..(L - m + 1) : SubSeq(c, m, L)[i] = c[m + i - 1]
  <2>1. m \in Int /\ L \in Int /\ m <= L /\ \A i \in m..L : c[i] \in D
    BY <1>1, <1>3
  <2>2. QED
    BY <2>1, SubSeqProperties
<1>8. /\ SubSeq(c, 1, m - 1) \in Seq(D) /\ Len(SubSeq(c, 1, m - 1)) = m - 1
      /\ \A i \in 1..(m - 1) : SubSeq(c, 1, m - 1)[i] = c[i]
  <2>1. 1 \in Int /\ m - 1 \in Int /\ \A i \in 1..(m - 1) : c[i] \in D
    BY <1>1, <1>3
  <2>2. /\ SubSeq(c, 1, m - 1) \in Seq(D)
        /\ Len(SubSeq(c, 1, m - 1)) = IF 1 <= m - 1 THEN (m - 1) - 1 + 1 ELSE 0
        /\ \A i \in 1..((m - 1) - 1 + 1) : SubSeq(c, 1, m - 1)[i] = c[1 + i - 1]
    BY <2>1, SubSeqProperties
  <2>3. QED
    BY <2>2, <1>3, <1>1
<1>9. r \in Seq(D) /\ Len(r) = L
  <2>1. /\ r \in Seq(D)
        /\ Len(r) = Len(SubSeq(c, m, L)) + Len(SubSeq(c, 1, m - 1))
    BY <1>4, <1>7, <1>8, ConcatProperties
  <2>2. QED
    BY <2>1, <1>7, <1>8, <1>1, <1>3
<1>9a. L \in Nat /\ m \in Nat /\ 1 <= m /\ m <= L
  BY <1>1, <1>3
<1> DEFINE At(i) == IF i <= L - m + 1 THEN m + i - 1 ELSE i - (L - m + 1)
<1>10. ASSUME NEW i \in 1..L
       PROVE  At(i) \in 1..L /\ r[i] = c[At(i)]
  <2>1. At(i) \in 1..L
    BY <1>1, <1>3
  <2> DEFINE s1 == SubSeq(c, m, L)
             s2 == SubSeq(c, 1, m - 1)
  <2>2. s1 \in Seq(D) /\ s2 \in Seq(D) /\ Len(s1) = L - m + 1 /\ Len(s2) = m - 1
    BY <1>7, <1>8
  <2>3. r = s1 \o s2
    BY <1>4
  <2>4. /\ \A j \in 1..(L - m + 1) : s1[j] = c[m + j - 1]
        /\ \A j \in 1..(m - 1) : s2[j] = c[j]
    BY <1>7, <1>8
  <2> HIDE DEF s1, s2
  <2>5. \A j \in 1..(Len(s1) + Len(s2)) :
          (s1 \o s2)[j] = IF j <= Len(s1) THEN s1[j] ELSE s2[j - Len(s1)]
    BY <2>2, ConcatProperties
  <2>6. i \in 1..(Len(s1) + Len(s2))
    BY <2>2, <1>1, <1>3
  <2>7. r[i] = IF i <= L - m + 1 THEN s1[i] ELSE s2[i - (L - m + 1)]
    BY <2>2, <2>3, <2>5, <2>6
  <2>8. CASE i <= L - m + 1
    <3>1. i \in 1..(L - m + 1)
      BY <2>8, <1>1, <1>3
    <3>2. QED
      BY <2>1, <2>4, <2>7, <2>8, <3>1
  <2>9. CASE ~ (i <= L - m + 1)
    <3>1. i - (L - m + 1) \in 1..(m - 1)
      BY <2>9, <1>1, <1>3
    <3>2. QED
      BY <2>1, <2>4, <2>7, <2>9, <3>1
  <2>10. QED
    BY <2>8, <2>9
<1>11. DOMAIN r = 1..L /\ r # << >>
  BY <1>1, <1>9, LenProperties, EmptySeq
<1>12. ASSUME NEW i \in DOMAIN r, NEW j \in DOMAIN r, r[i] = r[j]
       PROVE  i = j
  <2>1. i \in 1..L /\ j \in 1..L
    BY <1>11
  <2>2. At(i) \in 1..L /\ At(j) \in 1..L /\ c[At(i)] = c[At(j)]
    BY <2>1, <1>10, <1>12
  <2>3. At(i) = At(j)
    <3> HIDE DEF At
    <3>1. QED
      BY <2>2, <1>5
  <2>4. i \in Nat /\ j \in Nat /\ 1 <= i /\ i <= L /\ 1 <= j /\ j <= L
    BY <2>1
  <2>5. CASE i <= L - m + 1
    BY <2>3, <2>4, <2>5, <1>9a
  <2>6. CASE ~ (i <= L - m + 1)
    BY <2>3, <2>4, <2>6, <1>9a
  <2>7. QED
    BY <2>5, <2>6
<1>13. ASSUME NEW i \in DOMAIN r PROVE Succ(r, i) \in a[r[i]]
  <2>1. i \in 1..L /\ At(i) \in 1..L /\ r[i] = c[At(i)]
    BY <1>10, <1>11
  <2> DEFINE n == IF i = L THEN 1 ELSE i + 1
  <2>2. n \in 1..L
    BY <2>1, <1>1
  <2>3. r[n] = c[At(n)]
    BY <2>2, <1>10
  <2>4. Succ(r, i) = r[n]
    BY <1>9 DEF Succ
  <2>5. At(n) = IF At(i) = L THEN 1 ELSE At(i) + 1
    <3>1. i \in Nat /\ 1 <= i /\ i <= L
      BY <2>1
    <3>2. CASE i = L
      BY <3>1, <3>2, <1>9a
    <3>3. CASE i # L /\ i < L - m + 1
      BY <3>1, <3>3, <1>9a
    <3>4. CASE i # L /\ i = L - m + 1
      BY <3>1, <3>4, <1>9a
    <3>5. CASE i # L /\ i > L - m + 1
      BY <3>1, <3>5, <1>9a
    <3>6. QED
      BY <3>1, <3>2, <3>3, <3>4, <3>5, <1>9a
  <2>6. Succ(r, i) = Succ(c, At(i))
    <3> HIDE DEF At, n
    <3>1. QED
      BY <2>1, <2>3, <2>4, <2>5, <1>6a
  <2>7. QED
    <3> HIDE DEF At
    <3>1. QED
      BY <2>1, <2>6, <1>6
<1>14. Range(r) \subseteq Range(c)
  <2> HIDE DEF At
  <2>1. QED
    BY <1>1, <1>10, <1>11 DEF Range
<1>15. \A i \in DOMAIN r : r[1] <= r[i]
  <2>1. At(1) = m /\ 1 \in 1..L
    BY <1>9a
  <2> HIDE DEF At
  <2>2. QED
    BY <2>1, <1>3, <1>10, <1>11
<1>16. QED
  BY <1>9, <1>11, <1>12, <1>13, <1>14, <1>15 DEF IsCycle, r

\* A step that leaves what is found and reported as it is keeps the invariant.
LEMMA CycleInvStays ==
  ASSUME CycleInv, SearchInv',
         UNCHANGED <<phase, graphs, parents, parent, adj, cycles, found, reported>>
  PROVE  CycleInv'
BY DEF CycleInv, Bookkeeping, ReportTypes, OnlyCycles

\* Building the graphs keeps it: nothing is found yet.
LEMMA CycleInvGraphs ==
  ASSUME CycleInv, SearchInv', check_crate_post
  PROVE  CycleInv'
<1>1. /\ found = {} /\ reported = << >> /\ cycles = << >> /\ phase' = "emit"
      /\ found' = {} /\ reported' = << >> /\ cycles' = << >>
  BY DEF check_crate_post, CycleInv, Bookkeeping, searchVars
<1>2. DOMAIN reported' = {} /\ DOMAIN cycles' = {}
  BY <1>1
<1>3. ReportTypes'
  BY <1>1, <1>2 DEF ReportTypes, CycleInv, Range
<1>4. OnlyCycles'
  BY <1>1, <1>2 DEF OnlyCycles
<1>5. Bookkeeping'
  BY <1>1 DEF Bookkeeping
<1>6. QED
  BY <1>3, <1>4, <1>5 DEF CycleInv

\* Turning to the next parent keeps it.
LEMMA CycleInvNextParent ==
  ASSUME CycleInv, SearchInv', NextParent
  PROVE  CycleInv'
<1>1. PICK p \in parents : /\ parents' = parents \ {p} /\ parent' = p
                           /\ adj' = Adjacency(graphs[p])
  BY DEF NextParent
<1>2. /\ found = {} /\ found' = {} /\ cycles' = << >> /\ phase' = "dfs"
      /\ UNCHANGED <<graphs, reported>>
  BY DEF NextParent
<1>3. p \in DOMAIN graphs
  BY DEF CycleInv, SearchInv, SearchTypes
<1>4. DOMAIN cycles' = {}
  BY <1>2
<1>5. Bookkeeping'
  BY <1>1, <1>2, <1>3 DEF Bookkeeping
<1>6. ReportTypes' /\ OnlyCycles'
  BY <1>2, <1>4 DEF CycleInv, ReportTypes, OnlyCycles
<1>7. QED
  BY <1>5, <1>6 DEF CycleInv

\* Closing a cycle keeps it: what is closed is a cycle.
LEMMA CycleInvCloseCycle ==
  ASSUME CycleInv, SearchInv', NEW n \in DOMAIN color, CloseCycle(n)
  PROVE  CycleInv'
<1>1. /\ color[n] = "gray" /\ n \in adj[Last(path)]
      /\ cycles' = Append(cycles, PathFrom(n))
      /\ UNCHANGED <<phase, graphs, parents, parent, adj, found, reported>>
  BY Looking DEF CycleInv, CloseCycle
<1>2. PathFrom(n) \in Seq(DOMAIN adj) /\ IsCycle(adj, PathFrom(n))
  BY <1>1, PathCloses DEF CycleInv
<1>3. cycles \in Seq(Seq(DOMAIN adj))
  BY DEF CycleInv, SearchInv, SearchTypes
<1>4. /\ DOMAIN cycles' = 1..(Len(cycles) + 1) /\ DOMAIN cycles = 1..Len(cycles)
      /\ Len(cycles) \in Nat
      /\ \A i \in 1..Len(cycles) : cycles'[i] = cycles[i]
      /\ cycles'[Len(cycles) + 1] = PathFrom(n)
  BY <1>1, <1>2, <1>3, Push
<1>5. \A i \in DOMAIN cycles' : IsCycle(adj', cycles'[i])
  <2> SUFFICES ASSUME NEW i \in DOMAIN cycles' PROVE IsCycle(adj, cycles'[i])
    BY <1>1
  <2>1. i \in 1..Len(cycles) \/ i = Len(cycles) + 1
    BY <1>4
  <2>2. CASE i \in 1..Len(cycles)
    BY <2>2, <1>4 DEF CycleInv, OnlyCycles
  <2>3. CASE i = Len(cycles) + 1
    BY <2>3, <1>2, <1>4
  <2>4. QED
    BY <2>1, <2>2, <2>3
<1>6. OnlyCycles'
  BY <1>1, <1>5 DEF CycleInv, OnlyCycles
<1>7. ReportTypes'
  BY <1>1 DEF CycleInv, ReportTypes
<1>8. phase = "dfs"
  BY DEF CloseCycle, LooksAt
<1>9. Bookkeeping'
  BY <1>1, <1>8 DEF CycleInv, Bookkeeping
<1>10. QED
  BY <1>6, <1>7, <1>9 DEF CycleInv

\* The end of a search keeps it: normalizing a cycle only rotates it.
LEMMA CycleInvFinishDetection ==
  ASSUME CycleInv, SearchInv', FinishDetection
  PROVE  CycleInv'
<1>1. /\ found' = {normalize_cycle(cycles[i]) : i \in DOMAIN cycles}
      /\ phase = "dfs" /\ phase' = "emit"
      /\ UNCHANGED <<graphs, parents, parent, adj, cycles, reported>>
  BY DEF FinishDetection, searchVars
<1>2. ASSUME NEW i \in DOMAIN cycles
      PROVE  /\ normalize_cycle(cycles[i]) \in Seq(DOMAIN adj)
             /\ IsCycle(adj, normalize_cycle(cycles[i]))
  <2>1. DOMAIN adj \in SUBSET Nat
    BY DEF CycleInv, SearchInv, GraphNames
  <2>2. cycles[i] \in Seq(DOMAIN adj)
    BY LenProperties, ElementOfSeq DEF CycleInv, SearchInv, SearchTypes
  <2>3. IsCycle(adj, cycles[i])
    BY DEF CycleInv, OnlyCycles
  <2>4. QED
    BY <2>1, <2>2, <2>3, Rotation
<1>3. \A c \in found' : c \in Seq(DOMAIN adj') /\ IsCycle(adj', c)
  BY <1>1, <1>2
<1>4. ReportTypes' /\ OnlyCycles'
  BY <1>1, <1>3 DEF CycleInv, ReportTypes, OnlyCycles
<1>5. Bookkeeping'
  BY <1>1 DEF CycleInv, Bookkeeping
<1>6. QED
  BY <1>4, <1>5 DEF CycleInv

\* Reporting a cycle keeps it.
LEMMA CycleInvEmitCycle ==
  ASSUME CycleInv, SearchInv', EmitCycle
  PROVE  CycleInv'
<1>1. PICK c \in found :
        /\ found' = found \ {c}
        /\ reported' = IF OptedOut THEN reported ELSE Append(reported, Diagnostic(parent, c))
  BY DEF EmitCycle
<1>2. phase = "emit" /\ UNCHANGED <<phase, graphs, parents, parent, adj, cycles>>
  BY DEF EmitCycle, searchVars
<1>3. /\ parent \in DOMAIN graphs /\ adj = Adjacency(graphs[parent])
      /\ c \in Seq(DOMAIN adj) /\ IsCycle(adj, c)
  BY <1>1 DEF CycleInv, Bookkeeping, ReportTypes, OnlyCycles
<1>4. DOMAIN adj = Children(graphs[parent])
  BY <1>3 DEF Adjacency
<1> DEFINE d == Diagnostic(parent, c)
<1>5. d.parent = parent /\ d.cycle = c
  BY DEF Diagnostic
<1> HIDE DEF d
<1>6. Bookkeeping'
  BY <1>1, <1>2 DEF CycleInv, Bookkeeping
<1>7. CASE reported' = reported
  BY <1>1, <1>2, <1>6, <1>7 DEF CycleInv, ReportTypes, OnlyCycles
<1>8. CASE reported' = Append(reported, d)
  <2> DEFINE R == Range(reported) \cup {d}
  <2>1. reported \in Seq(R)
    <3>1. reported \in Seq(Range(reported)) /\ Range(reported) \subseteq R
      BY DEF CycleInv, ReportTypes
    <3>2. QED
      BY <3>1, SeqMonotonic
  <2>2. d \in R
    OBVIOUS
  <2> HIDE DEF R
  <2>3. /\ reported' \in Seq(R)
        /\ DOMAIN reported' = 1..(Len(reported) + 1) /\ DOMAIN reported = 1..Len(reported)
        /\ Len(reported) \in Nat
        /\ \A i \in 1..Len(reported) : reported'[i] = reported[i]
        /\ reported'[Len(reported) + 1] = d
    BY <1>8, <2>1, <2>2, Push
  <2>4. reported' \in Seq(Range(reported'))
    BY <2>3, SeqOfRange
  <2>5. \A i \in DOMAIN reported' :
          /\ reported'[i].parent \in DOMAIN graphs
          /\ reported'[i].cycle \in Seq(Children(graphs[reported'[i].parent]))
          /\ IsCycle(Adjacency(graphs[reported'[i].parent]), reported'[i].cycle)
    <3> SUFFICES ASSUME NEW i \in DOMAIN reported'
                 PROVE  /\ reported'[i].parent \in DOMAIN graphs
                        /\ reported'[i].cycle \in Seq(Children(graphs[reported'[i].parent]))
                        /\ IsCycle(Adjacency(graphs[reported'[i].parent]), reported'[i].cycle)
      OBVIOUS
    <3>1. i \in 1..Len(reported) \/ i = Len(reported) + 1
      BY <2>3
    <3>2. CASE i \in 1..Len(reported)
      BY <3>2, <2>3 DEF CycleInv, ReportTypes, OnlyCycles
    <3>3. CASE i = Len(reported) + 1
      BY <3>3, <2>3, <1>3, <1>4, <1>5
    <3>4. QED
      BY <3>1, <3>2, <3>3
  <2>6. ReportTypes'
    BY <1>1, <1>2, <2>4, <2>5 DEF CycleInv, ReportTypes
  <2>7. OnlyCycles'
    BY <1>1, <1>2, <2>5 DEF CycleInv, OnlyCycles
  <2>8. QED
    BY <1>6, <2>6, <2>7 DEF CycleInv
<1>9. QED
  BY <1>1, <1>7, <1>8 DEF d

\* The end of check_crate_post keeps it.
LEMMA CycleInvFinish ==
  ASSUME CycleInv, SearchInv', Finish
  PROVE  CycleInv'
<1>1. /\ found = {} /\ parents = {} /\ phase' = "done"
      /\ UNCHANGED <<graphs, parents, parent, adj, cycles, found, reported>>
  BY DEF Finish, searchVars
<1>2. QED
  BY <1>1 DEF CycleInv, Bookkeeping, ReportTypes, OnlyCycles

\* The lint has the types the code gives it, and whatever it finds or reports,
\* for any crate, is a cycle of distinct children that really closes.
THEOREM CyclesOnly == Spec => [](CycleInv /\ TypeOK /\ OnlyCycles)
<1>1. Init /\ SearchInv => CycleInv
  <2> SUFFICES ASSUME Init, SearchInv PROVE CycleInv
    OBVIOUS
  <2>1. /\ reported = << >> /\ cycles = << >> /\ found = {} /\ phase = "walk"
        /\ DOMAIN reported = {} /\ DOMAIN cycles = {}
    BY DEF Init
  <2>2. reported \in Seq(Range(reported))
    BY <2>1, EmptySeq
  <2>3. QED
    BY <2>1, <2>2 DEF CycleInv, Bookkeeping, ReportTypes, OnlyCycles
<1>2. CycleInv /\ SearchInv' /\ [Next]_vars => CycleInv'
  <2> SUFFICES ASSUME CycleInv, SearchInv', [Next]_vars PROVE CycleInv'
    OBVIOUS
  <2>1. CASE check_expr \/ check_ty \/ check_item
    BY <2>1, CycleInvStays DEF check_expr, check_ty, check_item, Visit, searchVars
  <2>2. CASE check_crate_post
    BY <2>2, CycleInvGraphs
  <2>3. CASE NextParent
    BY <2>3, CycleInvNextParent
  <2>4. CASE StartRoot
    BY <2>4, CycleInvStays DEF StartRoot, Enter
  <2>5. CASE dfs
    <3>1. PICK n \in DOMAIN color : Descend(n) \/ CloseCycle(n) \/ SkipFinished(n)
      BY <2>5 DEF dfs
    <3>2. CASE Descend(n) \/ SkipFinished(n)
      BY <3>2, CycleInvStays DEF Descend, SkipFinished, LooksAt, Enter
    <3>3. CASE CloseCycle(n)
      BY <3>3, CycleInvCloseCycle
    <3>4. QED
      BY <3>1, <3>2, <3>3
  <2>6. CASE Retreat
    BY <2>6, CycleInvStays DEF Retreat
  <2>7. CASE FinishDetection
    BY <2>7, CycleInvFinishDetection
  <2>8. CASE EmitCycle
    BY <2>8, CycleInvEmitCycle
  <2>9. CASE Finish
    BY <2>9, CycleInvFinish
  <2>10. CASE UNCHANGED vars
    BY <2>10, CycleInvStays DEF vars, searchVars
  <2>11. QED
    BY <2>1, <2>2, <2>3, <2>4, <2>5, <2>6, <2>7, <2>8, <2>9, <2>10 DEF Next
<1>3. CycleInv => TypeOK /\ OnlyCycles
  BY DEF CycleInv, TypeOK, SearchInv
<1>4. QED
  BY <1>1, <1>2, <1>3, GrayOnPath, PTL DEF Spec

-----------------------------------------------------------------------------
(***************************************************************************)
(* Nothing is missed.                                                      *)
(***************************************************************************)
\* Some children that no cycle leaves: all of them, or those of one tangle.
Enclosed(a, C) ==
  \A c \in Seq(DOMAIN a) : IsCycle(a, c) /\ Range(c) \cap C # {} => Range(c) \subseteq C

FoundIn(C) == \E i \in DOMAIN cycles : Range(cycles[i]) \subseteq C

\* Among them, what is black is closed under dependencies and holds no knot, and
\* a child on the path has looked only at black children and at the one after it.
ExploredIn(C) ==
  /\ \A n \in C : color[n] = "black" => \A m \in adj[n] \cap C : color[m] = "black"
  /\ \A i \in DOMAIN path : path[i] \in C =>
       \A m \in (adj[path[i]] \cap C) \ rest[path[i]] :
         color[m] = "black" \/ (i < Len(path) /\ m = path[i+1])
  /\ \A S \in SUBSET C : Knot(adj, S) => \E n \in S : color[n] # "black"

\* This is so as long as no cycle among them is found.
Explored ==
  \A C \in SUBSET DOMAIN adj : Enclosed(adj, C) /\ ~ FoundIn(C) => ExploredIn(C)

\* The verdict on each parent whose search is over.
Searched == {p \in DOMAIN graphs \ parents : ~ (phase = "dfs" /\ p = parent)}

Verdicts ==
  << >> \notin hir.optOut =>
    /\ ReportedParents \subseteq Searched
    /\ \A p \in Searched :
         Cyclic(Adjacency(graphs[p])) <=> p \in ReportedParents \/ (p = parent /\ found # {})

VerdictInv == CycleInv /\ Explored /\ Verdicts

\* The children of a cycle are a knot, so a graph with a cycle is cyclic.
LEMMA CycleIsKnot ==
  ASSUME NEW a, NEW c \in Seq(DOMAIN a), IsCycle(a, c)
  PROVE  Cyclic(a)
<1> DEFINE S == {c[i] : i \in DOMAIN c}
<1>1. DOMAIN c = 1..Len(c) /\ Len(c) \in Nat \ {0}
  BY EmptySeq, LenProperties DEF IsCycle
<1>2. S \in SUBSET DOMAIN a
  BY <1>1, ElementOfSeq
<1>3. c[1] \in S
  BY <1>1
<1>4. ASSUME NEW n \in S PROVE a[n] \cap S # {}
  <2>1. PICK i \in DOMAIN c : n = c[i]
    OBVIOUS
  <2>2. Succ(c, i) \in a[n]
    BY <2>1 DEF IsCycle
  <2>3. Succ(c, i) \in S
    BY <1>1 DEF Succ
  <2>4. QED
    BY <2>2, <2>3
<1> HIDE DEF S
<1>5. QED
  BY <1>2, <1>3, <1>4 DEF Cyclic, Knot

\* A child may leave a knot that it is the only one of to depend on: black
\* children closed under dependencies, without a knot, stay so when a child
\* turns black whose neighbours are black.
LEMMA BlackWithoutKnot ==
  ASSUME NEW C, NEW a, NEW B \in SUBSET C, NEW n \in C,
         \A m \in B : a[m] \cap C \subseteq B,
         a[n] \cap C \subseteq B,
         \A S \in SUBSET B : ~ Knot(a, S)
  PROVE  \A S \in SUBSET (B \cup {n}) : ~ Knot(a, S)
<1> SUFFICES ASSUME NEW S \in SUBSET (B \cup {n}), Knot(a, S) PROVE FALSE
  OBVIOUS
<1> DEFINE T == S \cap B
<1>1. PICK m \in S : TRUE
  BY DEF Knot
<1>2. ASSUME NEW k \in S PROVE a[k] \cap T # {}
  <2>1. PICK j \in a[k] : j \in S
    BY DEF Knot
  <2>2. j \in B
    BY <2>1
  <2>3. QED
    BY <2>1, <2>2
<1>3. T # {} /\ \A k \in T : a[k] \cap T # {}
  BY <1>1, <1>2
<1>4. QED
  BY <1>3 DEF Knot

\* The verdict on a parent does not depend on the search of another.
LEMMA ExploredStays ==
  ASSUME Explored, UNCHANGED <<adj, color, path, rest, cycles>>
  PROVE  Explored'
<1>1. \A C : Enclosed(adj, C)' <=> Enclosed(adj, C)
  BY DEF Enclosed
<1>2. \A C : FoundIn(C)' <=> FoundIn(C)
  BY DEF FoundIn
<1>3. \A C : ExploredIn(C)' <=> ExploredIn(C)
  BY DEF ExploredIn
<1>4. QED
  BY <1>1, <1>2, <1>3 DEF Explored

LEMMA VerdictsStay ==
  ASSUME Verdicts,
         UNCHANGED <<crate, phase, graphs, parents, parent, found, reported>>
  PROVE  Verdicts'
BY DEF Verdicts, Searched, ReportedParents, hir

\* A call of dfs keeps the invariant: its child is white, so it is neither black
\* nor on the path, and it has looked at nothing.
LEMMA ExploredEnter ==
  ASSUME SearchInv, Explored, NEW n \in DOMAIN adj,
         NEW r \in [DOMAIN adj -> SUBSET DOMAIN adj], Enter(n, r), adj' = adj,
         \/ path = << >>
         \/ path # << >> /\ r = [rest EXCEPT ![Last(path)] = @ \ {n}]
  PROVE  Explored'
<1> SUFFICES ASSUME NEW C \in SUBSET DOMAIN adj, Enclosed(adj, C), ~ FoundIn(C)
             PROVE  ExploredIn(C)'
  BY DEF Explored, FoundIn, Enclosed, Enter
<1>1. /\ color[n] = "white" /\ color' = [color EXCEPT ![n] = "gray"]
      /\ path' = Append(path, n) /\ rest' = [r EXCEPT ![n] = adj[n]]
      /\ cycles' = cycles
  BY DEF Enter
<1>2. /\ path \in Seq(DOMAIN adj) /\ color \in [DOMAIN adj -> {"white", "gray", "black"}]
      /\ rest \in [DOMAIN adj -> SUBSET DOMAIN adj]
      /\ adj \in [DOMAIN adj -> SUBSET DOMAIN adj]
  BY DEF SearchInv, SearchTypes
<1>3. /\ path' \in Seq(DOMAIN adj) /\ Len(path') = Len(path) + 1
      /\ DOMAIN path' = 1..(Len(path) + 1) /\ DOMAIN path = 1..Len(path)
      /\ Len(path) \in Nat
      /\ \A i \in 1..Len(path) : path'[i] = path[i]
      /\ path'[Len(path) + 1] = n
  BY <1>1, <1>2, Push
<1>4. /\ \A m \in C : color[m] = "black" => \A k \in adj[m] \cap C : color[k] = "black"
      /\ \A i \in DOMAIN path : path[i] \in C =>
           \A m \in (adj[path[i]] \cap C) \ rest[path[i]] :
             color[m] = "black" \/ (i < Len(path) /\ m = path[i+1])
      /\ \A S \in SUBSET C : Knot(adj, S) => \E m \in S : color[m] # "black"
  BY DEF Explored, ExploredIn
<1>5. \A m \in DOMAIN adj : color'[m] = "black" <=> color[m] = "black"
  BY <1>1, <1>2
<1>6. \A m \in C : color'[m] = "black" => \A k \in adj'[m] \cap C : color'[k] = "black"
  BY <1>2, <1>4, <1>5
<1>7. \A S \in SUBSET C : Knot(adj', S) => \E m \in S : color'[m] # "black"
  BY <1>4, <1>5
<1>8. ASSUME NEW i \in DOMAIN path', path'[i] \in C,
             NEW m \in (adj'[path'[i]] \cap C) \ rest'[path'[i]]
      PROVE  color'[m] = "black" \/ (i < Len(path') /\ m = path'[i+1])
  <2>1. path'[i] # n
    BY <1>1, <1>2
  <2>2. i \in 1..Len(path) /\ path'[i] = path[i] /\ path[i] \in DOMAIN adj
    <3>1. i \in 1..(Len(path) + 1) /\ i # Len(path) + 1
      BY <1>3, <2>1
    <3>2. i \in 1..Len(path)
      BY <1>3, <3>1
    <3>3. QED
      BY <1>2, <1>3, <3>2, ElementOfSeq
  <2>3. m \in adj[path[i]] \cap C /\ m \notin r[path[i]] /\ m \in DOMAIN adj
    BY <1>1, <1>2, <2>1, <2>2
  <2>4. CASE m \notin rest[path[i]]
    <3>1. color[m] = "black" \/ (i < Len(path) /\ m = path[i+1])
      BY <1>3, <1>4, <1>8, <2>2, <2>3, <2>4
    <3>2. CASE color[m] = "black"
      BY <1>5, <2>3, <3>2
    <3>3. CASE i < Len(path) /\ m = path[i+1]
      <4>1. i + 1 \in 1..Len(path) /\ i < Len(path')
        BY <1>3, <2>2, <3>3
      <4>2. QED
        BY <1>3, <3>3, <4>1
    <3>4. QED
      BY <3>1, <3>2, <3>3
  <2>5. CASE m \in rest[path[i]]
    <3>1. path # << >> /\ r = [rest EXCEPT ![Last(path)] = @ \ {n}]
      BY <1>2, <1>3, <2>2, EmptySeq
    <3>2. Last(path) = path[i] /\ m = n
      BY <1>2, <2>2, <2>3, <2>5, <3>1
    <3>3. i = Len(path)
      <4>1. path[i] = path[Len(path)] /\ Len(path) \in DOMAIN path /\ i \in DOMAIN path
        BY <1>2, <1>3, <2>2, <3>1, <3>2, Pop
      <4>2. QED
        BY <4>1 DEF SearchInv, GrayIsOnPath
    <3>4. QED
      BY <1>3, <3>2, <3>3
  <2>6. QED
    BY <2>4, <2>5
<1>9. QED
  BY <1>1, <1>6, <1>7, <1>8 DEF ExploredIn

\* Passing a black neighbour keeps it: one more neighbour looked at is black.
LEMMA ExploredSkipFinished ==
  ASSUME SearchInv, Explored, NEW n \in DOMAIN color, SkipFinished(n)
  PROVE  Explored'
<1>1. /\ color[n] = "black" /\ rest' = [rest EXCEPT ![Last(path)] = @ \ {n}]
      /\ UNCHANGED <<adj, color, path, cycles>>
  BY DEF SkipFinished, LooksAt, Passed
<1>2. /\ path \in Seq(DOMAIN adj) /\ rest \in [DOMAIN adj -> SUBSET DOMAIN adj]
  BY DEF SearchInv, SearchTypes
<1> SUFFICES ASSUME NEW C \in SUBSET DOMAIN adj, ExploredIn(C) PROVE ExploredIn(C)'
  BY <1>1 DEF Explored, FoundIn, Enclosed
<1>3. ASSUME NEW i \in DOMAIN path, path[i] \in C,
             NEW m \in (adj[path[i]] \cap C) \ rest'[path[i]]
      PROVE  color[m] = "black" \/ (i < Len(path) /\ m = path[i+1])
  <2>1. path[i] \in DOMAIN rest
    BY <1>2, LenProperties, ElementOfSeq
  <2>2. m \notin rest[path[i]] \/ m = n
    BY <1>1, <2>1, <1>2
  <2>3. QED
    BY <1>1, <1>3, <2>2 DEF ExploredIn
<1>4. QED
  BY <1>1, <1>3 DEF ExploredIn

\* Closing a cycle keeps it: the children that the search does not explore to the
\* end are those that the cycle is found among.
LEMMA ExploredCloseCycle ==
  ASSUME SearchInv, Explored, NEW n \in DOMAIN color, CloseCycle(n)
  PROVE  Explored'
<1>1. /\ color[n] = "gray" /\ rest' = [rest EXCEPT ![Last(path)] = @ \ {n}]
      /\ cycles' = Append(cycles, PathFrom(n)) /\ n \in adj[Last(path)]
      /\ UNCHANGED <<adj, color, path>>
  BY Looking DEF CloseCycle, LooksAt, Passed
<1>2. /\ path \in Seq(DOMAIN adj) /\ rest \in [DOMAIN adj -> SUBSET DOMAIN adj]
      /\ cycles \in Seq(Seq(DOMAIN adj))
  BY DEF SearchInv, SearchTypes
<1>3. PathFrom(n) \in Seq(DOMAIN adj) /\ IsCycle(adj, PathFrom(n)) /\ n \in Range(PathFrom(n))
  <2>1. PathFrom(n) \in Seq(DOMAIN adj) /\ IsCycle(adj, PathFrom(n))
    BY <1>1, PathCloses
  <2>2. PICK i \in 1..Len(path) : path[i] = n /\ PathFrom(n) = SubSeq(path, i, Len(path))
    BY <1>1, BackEdge
  <2>3. Len(path) \in Nat
    BY <1>2, LenProperties
  <2>4. i \in Int /\ Len(path) \in Int /\ i <= Len(path) /\ \A j \in i..Len(path) : path[j] \in DOMAIN adj
    BY <1>2, <2>3, LenProperties, ElementOfSeq
  <2>5. Len(PathFrom(n)) >= 1 /\ PathFrom(n)[1] = n
    BY <2>2, <2>3, <2>4, SubSeqProperties
  <2>6. 1 \in DOMAIN PathFrom(n)
    BY <2>1, <2>5, LenProperties
  <2>7. QED
    BY <2>1, <2>5, <2>6 DEF Range
<1>4. /\ DOMAIN cycles' = 1..(Len(cycles) + 1) /\ DOMAIN cycles = 1..Len(cycles)
      /\ Len(cycles) \in Nat
      /\ \A i \in 1..Len(cycles) : cycles'[i] = cycles[i]
      /\ cycles'[Len(cycles) + 1] = PathFrom(n)
  BY <1>1, <1>2, <1>3, Push
<1> SUFFICES ASSUME NEW C \in SUBSET DOMAIN adj, Enclosed(adj, C), ~ FoundIn(C)'
             PROVE  ExploredIn(C)'
  BY <1>1 DEF Explored, Enclosed
<1>5. n \notin C
  <2>1. ~ (Range(PathFrom(n)) \subseteq C)
    BY <1>4 DEF FoundIn
  <2>2. QED
    BY <2>1, <1>3 DEF Enclosed
<1>6. ExploredIn(C)
  <2>1. ~ FoundIn(C)
    BY <1>4 DEF FoundIn
  <2>2. QED
    BY <2>1 DEF Explored
<1>7. ASSUME NEW i \in DOMAIN path, path[i] \in C,
             NEW m \in (adj[path[i]] \cap C) \ rest'[path[i]]
      PROVE  color[m] = "black" \/ (i < Len(path) /\ m = path[i+1])
  <2>1. path[i] \in DOMAIN rest
    BY <1>2, LenProperties, ElementOfSeq
  <2>2. m \notin rest[path[i]]
    BY <1>1, <2>1, <1>2, <1>5
  <2>3. QED
    BY <1>7, <2>2, <1>6 DEF ExploredIn
<1>8. QED
  BY <1>1, <1>6, <1>7 DEF ExploredIn

\* Returning from a call keeps it: all neighbours of the child that turns black
\* are black, and the call before it looked at that child last.
LEMMA ExploredRetreat ==
  ASSUME SearchInv, Explored, Retreat
  PROVE  Explored'
<1> SUFFICES ASSUME NEW C \in SUBSET DOMAIN adj, ExploredIn(C) PROVE ExploredIn(C)'
  BY DEF Explored, FoundIn, Enclosed, Retreat
<1> DEFINE n == Last(path)
           L == Len(path)
           B == {m \in C : color[m] = "black"}
<1>1. /\ color' = [color EXCEPT ![n] = "black"] /\ path' = Front(path)
      /\ path # << >> /\ rest[n] = {}
      /\ UNCHANGED <<adj, rest, cycles>>
  BY DEF Retreat
<1>2. /\ path \in Seq(DOMAIN adj) /\ color \in [DOMAIN adj -> {"white", "gray", "black"}]
      /\ adj \in [DOMAIN adj -> SUBSET DOMAIN adj]
      /\ L \in Nat /\ DOMAIN path = 1..L
  BY LenProperties DEF SearchInv, SearchTypes
<1>3. /\ n \in DOMAIN adj /\ L \in DOMAIN path /\ n = path[L]
      /\ Len(path') = L - 1
      /\ DOMAIN path' = 1..(L - 1)
      /\ \A i \in 1..(L - 1) : path'[i] = path[i]
  BY <1>1, <1>2, Pop
<1>4. /\ \A m \in C : color[m] = "black" => \A k \in adj[m] \cap C : color[k] = "black"
      /\ \A i \in DOMAIN path : path[i] \in C =>
           \A m \in (adj[path[i]] \cap C) \ rest[path[i]] :
             color[m] = "black" \/ (i < L /\ m = path[i+1])
      /\ \A S \in SUBSET C : Knot(adj, S) => \E m \in S : color[m] # "black"
  BY DEF ExploredIn
<1>5. color[n] = "gray"
  BY <1>2, <1>3 DEF SearchInv, GrayIsOnPath, Range
<1> HIDE DEF n, L
<1>6. \A m \in DOMAIN adj : color'[m] = "black" <=> color[m] = "black" \/ m = n
  BY <1>1, <1>2, <1>3
<1>7. n \in C => \A m \in adj[n] \cap C : color[m] = "black"
  BY <1>1, <1>2, <1>3, <1>4
<1>8. \A m \in C : color'[m] = "black" => \A k \in adj'[m] \cap C : color'[k] = "black"
  BY <1>1, <1>2, <1>3, <1>4, <1>6, <1>7
<1>9. ASSUME NEW S \in SUBSET C, Knot(adj', S)
      PROVE  \E m \in S : color'[m] # "black"
  <2>1. B \in SUBSET C /\ \A T \in SUBSET B : ~ Knot(adj, T)
    BY <1>4
  <2>2. CASE n \in C
    <3>1. (\A m \in B : adj[m] \cap C \subseteq B) /\ adj[n] \cap C \subseteq B
      BY <1>4, <1>7, <2>2
    <3>2. \A T \in SUBSET (B \cup {n}) : ~ Knot(adj, T)
      <4> HIDE DEF B
      <4>1. QED
        BY <2>1, <2>2, <3>1, BlackWithoutKnot
    <3>3. ~ (S \subseteq B \cup {n})
      BY <1>1, <1>9, <3>2
    <3>4. QED
      BY <1>1, <1>6, <3>3
  <2>3. CASE n \notin C
    <3>1. \E m \in S : color[m] # "black"
      BY <1>1, <1>4, <1>9
    <3>2. QED
      BY <1>6, <2>3, <3>1
  <2>4. QED
    BY <2>2, <2>3
<1>10. ASSUME NEW i \in DOMAIN path', path'[i] \in C,
              NEW m \in (adj'[path'[i]] \cap C) \ rest'[path'[i]]
       PROVE  color'[m] = "black" \/ (i < Len(path') /\ m = path'[i+1])
  <2>1. i \in 1..(L - 1) /\ i \in DOMAIN path /\ path'[i] = path[i]
    BY <1>2, <1>3
  <2>2. m \in adj[path[i]] \cap C /\ m \notin rest[path[i]]
    BY <1>1, <2>1
  <2>3. m \in DOMAIN adj
    BY <2>1, <2>2, <1>2, LenProperties, ElementOfSeq
  <2>4. color[m] = "black" \/ (i < L /\ m = path[i+1])
    BY <1>4, <1>10, <2>1, <2>2
  <2>5. CASE color[m] = "black"
    BY <1>6, <2>3, <2>5
  <2>6. CASE i < L /\ m = path[i+1]
    <3>1. CASE i = L - 1
      <4>1. m = n
        BY <1>2, <1>3, <2>1, <2>6, <3>1
      <4>2. QED
        BY <1>6, <2>3, <4>1
    <3>2. CASE i # L - 1
      <4>1. i < L - 1 /\ i + 1 \in 1..(L - 1)
        BY <1>2, <2>1, <3>2
      <4>2. QED
        BY <1>3, <2>6, <4>1
    <3>3. QED
      BY <3>1, <3>2
  <2>7. QED
    BY <2>4, <2>5, <2>6
<1>11. QED
  BY <1>8, <1>9, <1>10 DEF ExploredIn

\* When a search is over every child is black: the search has found a cycle
\* among any children that hold a knot and that no cycle leaves.
LEMMA SearchFinds ==
  ASSUME SearchInv, Explored, path = << >>, \A n \in DOMAIN color : color[n] # "white",
         NEW C \in SUBSET DOMAIN adj, Enclosed(adj, C), NEW S \in SUBSET C, Knot(adj, S)
  PROVE  FoundIn(C)
<1>1. color \in [DOMAIN adj -> {"white", "gray", "black"}]
  BY DEF SearchInv, SearchTypes
<1>2. \A n \in DOMAIN adj : color[n] = "black"
  <2>1. Range(path) = {}
    BY DEF Range
  <2>2. \A n \in DOMAIN adj : color[n] # "gray"
    BY <1>1, <2>1 DEF SearchInv, GrayIsOnPath
  <2>3. QED
    BY <1>1, <2>2
<1>3. ~ ExploredIn(C)
  BY <1>2 DEF ExploredIn
<1>4. QED
  BY <1>3 DEF Explored

\* So it has found one exactly if the graph is cyclic.
LEMMA SearchDecides ==
  ASSUME CycleInv, Explored, phase = "dfs", path = << >>,
         \A n \in DOMAIN color : color[n] # "white"
  PROVE  cycles # << >> <=> Cyclic(adj)
<1>1. cycles \in Seq(Seq(DOMAIN adj))
  BY DEF CycleInv, SearchInv, SearchTypes
<1>2. ASSUME Cyclic(adj) PROVE cycles # << >>
  <2>1. PICK S \in SUBSET DOMAIN adj : Knot(adj, S)
    BY <1>2 DEF Cyclic
  <2>2. Enclosed(adj, DOMAIN adj)
    BY RangeOfSeq DEF Enclosed
  <2>3. FoundIn(DOMAIN adj)
    BY <2>1, <2>2, SearchFinds DEF CycleInv
  <2>4. QED
    BY <2>3 DEF FoundIn
<1>3. ASSUME cycles # << >> PROVE Cyclic(adj)
  <2>1. 1 \in DOMAIN cycles
    BY <1>1, <1>3, EmptySeq, LenProperties
  <2>2. cycles[1] \in Seq(DOMAIN adj) /\ IsCycle(adj, cycles[1])
    BY <1>1, <2>1, LenProperties, ElementOfSeq DEF CycleInv, OnlyCycles
  <2>3. QED
    BY <2>2, CycleIsKnot
<1>4. QED
  BY <1>2, <1>3

\* Building the graphs keeps the invariant: no search is over.
LEMMA VerdictInvGraphs ==
  ASSUME VerdictInv, CycleInv', check_crate_post
  PROVE  VerdictInv'
<1>1. /\ parents' = DOMAIN graphs' /\ reported' = << >>
      /\ UNCHANGED <<cycles, adj, color, path, rest>>
  BY DEF check_crate_post, VerdictInv, CycleInv, Bookkeeping, searchVars
<1>2. Explored'
  BY <1>1, ExploredStays DEF VerdictInv
<1>3. ReportedParents' = {} /\ Searched' = {}
  BY <1>1 DEF ReportedParents, Searched
<1>4. Verdicts'
  BY <1>3 DEF Verdicts
<1>5. QED
  BY <1>2, <1>4 DEF VerdictInv

\* Turning to the next parent keeps it: every child is white, and the verdict on
\* the parent searched last no longer waits for cycles to be reported.
LEMMA VerdictInvNextParent ==
  ASSUME VerdictInv, CycleInv', NextParent
  PROVE  VerdictInv'
<1>1. PICK p \in parents : /\ parents' = parents \ {p} /\ parent' = p
                           /\ adj' = Adjacency(graphs[p])
  BY DEF NextParent
<1>2. /\ found = {} /\ found' = {} /\ path' = << >> /\ phase = "emit" /\ phase' = "dfs"
      /\ color' = [n \in DOMAIN adj' |-> "white"]
      /\ UNCHANGED <<crate, graphs, reported>>
  BY DEF NextParent, walkVars
<1>3. Explored'
  <2>1. DOMAIN path' = {}
    BY <1>2
  <2>2. \A n \in DOMAIN adj' : color'[n] = "white"
    BY <1>2
  <2>3. ASSUME NEW C \in SUBSET DOMAIN adj' PROVE ExploredIn(C)'
    <3>1. ASSUME NEW S \in SUBSET C, Knot(adj', S)
          PROVE  \E n \in S : color'[n] # "black"
      <4>1. PICK n \in S : TRUE
        BY <3>1 DEF Knot
      <4>2. QED
        BY <2>2, <4>1
    <3>2. QED
      BY <2>1, <2>2, <3>1 DEF ExploredIn
  <2>4. QED
    BY <2>3 DEF Explored
<1>4. Searched' = Searched
  BY <1>1, <1>2 DEF Searched
<1>5. Verdicts'
  <2> SUFFICES ASSUME << >> \notin hir.optOut PROVE Verdicts'
    BY <1>2 DEF Verdicts, hir
  <2>1. ReportedParents' = ReportedParents
    BY <1>2 DEF ReportedParents
  <2>2. ReportedParents \subseteq Searched
    BY DEF VerdictInv, Verdicts
  <2>3. ASSUME NEW q \in Searched
        PROVE  Cyclic(Adjacency(graphs[q])) <=> q \in ReportedParents
    BY <1>2 DEF VerdictInv, Verdicts
  <2>4. QED
    BY <1>2, <1>4, <2>1, <2>2, <2>3 DEF Verdicts
<1>6. QED
  BY <1>3, <1>5 DEF VerdictInv

\* The end of a search keeps it: the parent's verdict is what was found.
LEMMA VerdictInvFinishDetection ==
  ASSUME VerdictInv, CycleInv', FinishDetection
  PROVE  VerdictInv'
<1>1. /\ phase = "dfs" /\ phase' = "emit" /\ path = << >>
      /\ \A n \in DOMAIN color : color[n] # "white"
      /\ found' = {normalize_cycle(cycles[i]) : i \in DOMAIN cycles}
      /\ UNCHANGED <<crate, graphs, parents, parent, adj, color, path, rest, cycles, reported>>
  BY DEF FinishDetection, walkVars, searchVars
<1>2. Explored'
  BY <1>1, ExploredStays DEF VerdictInv
<1>3. parent \in DOMAIN graphs \ parents /\ adj = Adjacency(graphs[parent]) /\ found = {}
  BY <1>1 DEF VerdictInv, CycleInv, Bookkeeping
<1>4. cycles # << >> <=> Cyclic(adj)
  BY <1>1, SearchDecides DEF VerdictInv
<1>5. cycles # << >> <=> found' # {}
  <2>1. cycles \in Seq(Seq(DOMAIN adj))
    BY DEF VerdictInv, CycleInv, SearchInv, SearchTypes
  <2>2. cycles # << >> <=> DOMAIN cycles # {}
    <3>1. CASE cycles = << >>
      BY <3>1
    <3>2. CASE cycles # << >>
      <4>1. 1 \in DOMAIN cycles
        BY <2>1, <3>2, EmptySeq, LenProperties
      <4>2. QED
        BY <3>2, <4>1
    <3>3. QED
      BY <3>1, <3>2
  <2>3. QED
    BY <1>1, <2>2
<1>6. Searched' = Searched \cup {parent} /\ parent \notin Searched
  BY <1>1, <1>3 DEF Searched
<1>7. Verdicts'
  <2> SUFFICES ASSUME << >> \notin hir.optOut PROVE Verdicts'
    BY <1>1 DEF Verdicts, hir
  <2>1. ReportedParents' = ReportedParents
    BY <1>1 DEF ReportedParents
  <2>2. ReportedParents \subseteq Searched
    BY DEF VerdictInv, Verdicts
  <2>3. ASSUME NEW q \in Searched
        PROVE  Cyclic(Adjacency(graphs[q])) <=> q \in ReportedParents
    BY <1>3 DEF VerdictInv, Verdicts
  <2>4. Cyclic(Adjacency(graphs[parent])) <=> found' # {}
    BY <1>3, <1>4, <1>5
  <2>5. parent \notin ReportedParents
    BY <1>6, <2>2
  <2>6. QED
    BY <1>1, <1>6, <2>1, <2>2, <2>3, <2>4, <2>5 DEF Verdicts
<1>8. QED
  BY <1>2, <1>7 DEF VerdictInv

\* Reporting a cycle keeps it: the parent's verdict moves to the diagnostics.
LEMMA VerdictInvEmitCycle ==
  ASSUME VerdictInv, CycleInv', EmitCycle
  PROVE  VerdictInv'
<1>1. PICK c \in found :
        /\ found' = found \ {c}
        /\ reported' = IF OptedOut THEN reported ELSE Append(reported, Diagnostic(parent, c))
  BY DEF EmitCycle
<1>2. /\ phase = "emit"
      /\ UNCHANGED <<crate, phase, graphs, parents, parent, adj, color, path, rest, cycles>>
  BY DEF EmitCycle, walkVars, searchVars
<1>3. Explored'
  BY <1>2, ExploredStays DEF VerdictInv
<1>4. parent \in Searched
  BY <1>1, <1>2 DEF VerdictInv, CycleInv, Bookkeeping, Searched
<1>5. Searched' = Searched
  BY <1>2 DEF Searched
<1>6. Verdicts'
  <2> SUFFICES ASSUME << >> \notin hir.optOut PROVE Verdicts'
    BY <1>2 DEF Verdicts, hir
  <2> DEFINE d == Diagnostic(parent, c)
             R == Range(reported) \cup {d}
  <2>1. reported' = Append(reported, d) /\ d.parent = parent
    BY <1>1 DEF OptedOut, Diagnostic
  <2> HIDE DEF d
  <2>2. reported \in Seq(R)
    <3>1. reported \in Seq(Range(reported)) /\ Range(reported) \subseteq R
      BY DEF VerdictInv, CycleInv, ReportTypes
    <3>2. QED
      BY <3>1, SeqMonotonic
  <2>3. d \in R
    OBVIOUS
  <2> HIDE DEF R
  <2>4. /\ DOMAIN reported' = 1..(Len(reported) + 1) /\ DOMAIN reported = 1..Len(reported)
        /\ Len(reported) \in Nat
        /\ \A i \in 1..Len(reported) : reported'[i] = reported[i]
        /\ reported'[Len(reported) + 1] = d
    BY <2>1, <2>2, <2>3, Push
  <2>5. ReportedParents' = ReportedParents \cup {parent}
    <3>1. ReportedParents' \subseteq ReportedParents \cup {parent}
      <4> SUFFICES ASSUME NEW i \in DOMAIN reported'
                   PROVE  reported'[i].parent \in ReportedParents \cup {parent}
        BY DEF ReportedParents
      <4>1. i \in 1..Len(reported) \/ i = Len(reported) + 1
        BY <2>4
      <4>2. QED
        BY <4>1, <2>1, <2>4 DEF ReportedParents
    <3>2. ReportedParents \subseteq ReportedParents'
      BY <2>4 DEF ReportedParents
    <3>3. parent \in ReportedParents'
      BY <2>1, <2>4 DEF ReportedParents
    <3>4. QED
      BY <3>1, <3>2, <3>3
  <2>6. /\ ReportedParents \subseteq Searched
        /\ \A q \in Searched : Cyclic(Adjacency(graphs[q])) <=>
             q \in ReportedParents \/ (q = parent /\ found # {})
    BY DEF VerdictInv, Verdicts
  <2>7. ASSUME NEW q \in Searched'
        PROVE  Cyclic(Adjacency(graphs'[q]))  <=>
                 q \in ReportedParents' \/ (q = parent' /\ found' # {})
    BY <1>1, <1>2, <1>5, <2>5, <2>6
  <2>8. ReportedParents' \subseteq Searched'
    BY <1>4, <1>5, <2>5, <2>6
  <2>9. QED
    BY <2>7, <2>8 DEF Verdicts
<1>7. QED
  BY <1>3, <1>6 DEF VerdictInv

\* The end of check_crate_post keeps it.
LEMMA VerdictInvFinish ==
  ASSUME VerdictInv, CycleInv', Finish
  PROVE  VerdictInv'
<1>1. /\ phase = "emit" /\ phase' = "done"
      /\ UNCHANGED <<crate, graphs, parents, parent, adj, color, path, rest, cycles, found,
                     reported>>
  BY DEF Finish, walkVars, searchVars
<1>2. Explored'
  BY <1>1, ExploredStays DEF VerdictInv
<1>3. Searched' = Searched /\ ReportedParents' = ReportedParents /\ hir' = hir
  BY <1>1 DEF Searched, ReportedParents, hir
<1>4. Verdicts'
  BY <1>1, <1>3 DEF VerdictInv, Verdicts
<1>5. QED
  BY <1>2, <1>4 DEF VerdictInv

LEMMA VerdictInvHolds == Spec => []VerdictInv
<1>1. Init /\ CycleInv => VerdictInv
  <2> SUFFICES ASSUME Init, CycleInv PROVE VerdictInv
    OBVIOUS
  <2>1. /\ DOMAIN adj = {} /\ DOMAIN path = {} /\ DOMAIN graphs = {} /\ DOMAIN reported = {}
    BY DEF Init
  <2>2. Explored
    BY <2>1 DEF Explored, ExploredIn, Knot
  <2>3. ReportedParents = {} /\ Searched = {}
    BY <2>1 DEF ReportedParents, Searched
  <2>4. QED
    BY <2>2, <2>3 DEF Verdicts, VerdictInv
<1>2. VerdictInv /\ CycleInv' /\ [Next]_vars => VerdictInv'
  <2> SUFFICES ASSUME VerdictInv, CycleInv', [Next]_vars PROVE VerdictInv'
    OBVIOUS
  <2>1. CASE check_expr \/ check_ty \/ check_item
    <3>1. UNCHANGED <<crate, phase, graphs, parents, searchVars, found, reported>>
      BY <2>1 DEF check_expr, check_ty, check_item, Visit
    <3>2. Explored' /\ Verdicts'
      BY <3>1, ExploredStays, VerdictsStay DEF VerdictInv, searchVars
    <3>3. QED
      BY <3>2 DEF VerdictInv
  <2>2. CASE check_crate_post
    BY <2>2, VerdictInvGraphs
  <2>3. CASE NextParent
    BY <2>3, VerdictInvNextParent
  <2>4. CASE StartRoot
    <3>1. PICK n \in DOMAIN color : Enter(n, rest)
      BY <2>4 DEF StartRoot
    <3>2. /\ n \in DOMAIN adj /\ rest \in [DOMAIN adj -> SUBSET DOMAIN adj]
          /\ path = << >> /\ adj' = adj
          /\ UNCHANGED <<crate, phase, graphs, parents, parent, found, reported>>
      BY <2>4 DEF StartRoot, VerdictInv, CycleInv, SearchInv, SearchTypes, walkVars
    <3>3. Explored'
      BY <3>1, <3>2, ExploredEnter DEF VerdictInv, CycleInv
    <3>4. Verdicts'
      BY <3>2, VerdictsStay DEF VerdictInv
    <3>5. QED
      BY <3>3, <3>4 DEF VerdictInv
  <2>5. CASE dfs
    <3>1. PICK n \in DOMAIN color : Descend(n) \/ CloseCycle(n) \/ SkipFinished(n)
      BY <2>5 DEF dfs
    <3>2. LooksAt(n) /\ SearchInv
      BY <3>1 DEF Descend, CloseCycle, SkipFinished, VerdictInv, CycleInv
    <3>3. UNCHANGED <<crate, phase, graphs, parents, parent, adj, found, reported>>
      BY <3>2 DEF LooksAt, walkVars
    <3>4. Verdicts'
      BY <3>3, VerdictsStay DEF VerdictInv
    <3>5. CASE Descend(n)
      <4>1. /\ n \in DOMAIN adj /\ Passed(n) \in [DOMAIN adj -> SUBSET DOMAIN adj]
            /\ Enter(n, Passed(n)) /\ path # << >>
        BY <3>2, <3>5, Looking DEF Descend, LooksAt
      <4>2. Passed(n) = [rest EXCEPT ![Last(path)] = @ \ {n}]
        BY DEF Passed
      <4>3. Explored'
        BY <3>2, <3>3, <4>1, <4>2, ExploredEnter DEF VerdictInv
      <4>4. QED
        BY <3>4, <4>3 DEF VerdictInv
    <3>6. CASE CloseCycle(n)
      BY <3>2, <3>4, <3>6, ExploredCloseCycle DEF VerdictInv
    <3>7. CASE SkipFinished(n)
      BY <3>2, <3>4, <3>7, ExploredSkipFinished DEF VerdictInv
    <3>8. QED
      BY <3>1, <3>5, <3>6, <3>7
  <2>6. CASE Retreat
    <3>1. Verdicts'
      BY <2>6, VerdictsStay DEF Retreat, VerdictInv, walkVars
    <3>2. QED
      BY <2>6, <3>1, ExploredRetreat DEF VerdictInv, CycleInv
  <2>7. CASE FinishDetection
    BY <2>7, VerdictInvFinishDetection
  <2>8. CASE EmitCycle
    BY <2>8, VerdictInvEmitCycle
  <2>9. CASE Finish
    BY <2>9, VerdictInvFinish
  <2>10. CASE UNCHANGED vars
    <3>1. UNCHANGED <<crate, phase, graphs, parents, searchVars, found, reported>>
      BY <2>10 DEF vars, walkVars
    <3>2. Explored' /\ Verdicts'
      BY <3>1, ExploredStays, VerdictsStay DEF VerdictInv, searchVars
    <3>3. QED
      BY <3>2 DEF VerdictInv
  <2>11. QED
    BY <2>1, <2>2, <2>3, <2>4, <2>5, <2>6, <2>7, <2>8, <2>9, <2>10 DEF Next
<1>3. QED
  BY <1>1, <1>2, CyclesOnly, PTL DEF Spec

\* Searching each graph once, from every child not yet visited, with three
\* colours, is enough for every crate: a parent has a diagnostic exactly if its
\* graph is cyclic.
THEOREM CyclicExactlyReported == Spec => []ReportedIffCyclic
<1>1. VerdictInv => ReportedIffCyclic
  <2> SUFFICES ASSUME VerdictInv, phase = "done", << >> \notin hir.optOut
               PROVE  ReportedParents = {p \in DOMAIN graphs : Cyclic(Adjacency(graphs[p]))}
    BY DEF ReportedIffCyclic
  <2>1. found = {} /\ Searched = DOMAIN graphs
    BY DEF VerdictInv, CycleInv, Bookkeeping, Searched
  <2>2. /\ ReportedParents \subseteq Searched
        /\ \A p \in Searched : Cyclic(Adjacency(graphs[p])) <=> p \in ReportedParents
    BY <2>1 DEF VerdictInv, Verdicts
  <2>3. QED
    BY <2>1, <2>2
<1>2. QED
  BY <1>1, VerdictInvHolds, PTL

\* The variables keep their types, for every crate: whatever the callbacks see,
\* and however the search goes.
THEOREM TypesHold == Spec => []TypeOK
<1>1. Spec => [](CycleInv /\ TypeOK /\ OnlyCycles)
  BY CyclesOnly
<1> QED
  BY <1>1, PTL

-----------------------------------------------------------------------------
(***************************************************************************)
(* Every tangle.                                                           *)
(***************************************************************************)
LEMMA ReachesOn ==
  ASSUME NEW D, NEW a \in [D -> SUBSET D]
  PROVE  /\ \A m : Reaches(a, m, m)
         /\ \A k, m, n : Reaches(a, k, m) /\ Reaches(a, m, n) => Reaches(a, k, n)
         /\ \A m \in D : \A n \in a[m] : Reaches(a, m, n)
BY DEF Reaches

\* The children of a cycle come after one another.
LEMMA CycleReaches ==
  ASSUME NEW a, NEW c \in Seq(DOMAIN a), IsCycle(a, c), NEW m \in Range(c), NEW n \in Range(c)
  PROVE  Reaches(a, m, n)
<1> SUFFICES ASSUME NEW S \in SUBSET DOMAIN a, m \in S, \A k \in S : a[k] \subseteq S
             PROVE  n \in S
  BY DEF Reaches
<1> DEFINE L == Len(c)
<1>1. L \in Nat \ {0} /\ DOMAIN c = 1..L
  BY EmptySeq, LenProperties DEF IsCycle
<1>2. \A i \in 1..L : c[i] \in S => (IF i = L THEN c[1] ELSE c[i + 1]) \in S
  <2> TAKE i \in 1..L
  <2>1. Succ(c, i) \in a[c[i]]
    BY <1>1 DEF IsCycle
  <2>2. Succ(c, i) = IF i = L THEN c[1] ELSE c[i + 1]
    BY DEF Succ
  <2>3. QED
    BY <2>1, <2>2
<1> HIDE DEF L
<1>3. ASSUME NEW i \in 1..L, c[i] \in S, NEW j \in i..L PROVE c[j] \in S
  <2> DEFINE T == {d \in Nat : i + d <= L => c[i + d] \in S}
  <2>1. 0 \in T
    BY <1>3
  <2>2. \A d \in Nat : d \in T => d + 1 \in T
    <3> SUFFICES ASSUME NEW d \in Nat, d \in T, i + (d + 1) <= L PROVE c[i + (d + 1)] \in S
      OBVIOUS
    <3>1. i + d \in 1..L /\ i + d # L /\ (i + d) + 1 = i + (d + 1)
      BY <1>1
    <3>2. c[i + d] \in S
      BY <3>1
    <3>3. c[(i + d) + 1] \in S
      BY <3>1, <3>2, <1>2
    <3>4. QED
      BY <3>1, <3>3
  <2>3. j - i \in T
    <3>1. j - i \in Nat
      BY <1>1
    <3> HIDE DEF T
    <3>2. QED
      BY <2>1, <2>2, <3>1, Induction
  <2>4. i + (j - i) = j /\ j <= L
    BY <1>1
  <2>5. QED
    BY <2>3, <2>4
<1>4. PICK i \in 1..L, j \in 1..L : m = c[i] /\ n = c[j]
  BY <1>1 DEF Range
<1>5. c[L] \in S
  BY <1>1, <1>3, <1>4
<1>6. c[1] \in S
  BY <1>1, <1>2, <1>5
<1>7. QED
  BY <1>1, <1>3, <1>4, <1>6

\* Two children that come after each other are in one tangle: no cycle leaves
\* it, and every child in it depends on another in it.
LEMMA TangleIsKnot ==
  ASSUME NEW D, NEW a \in [D -> SUBSET D], NEW m \in D, NEW n \in D, m # n,
         Reaches(a, m, n), Reaches(a, n, m)
  PROVE  LET C == {k \in D : Reaches(a, m, k) /\ Reaches(a, k, m)}
         IN  Enclosed(a, C) /\ Knot(a, C)
<1> DEFINE C == {k \in D : Reaches(a, m, k) /\ Reaches(a, k, m)}
<1>1. \A k, x \in C : Reaches(a, k, x)
  BY ReachesOn
<1>2. ASSUME NEW k \in C, NEW x \in D, Reaches(a, k, x), Reaches(a, x, k) PROVE x \in C
  BY <1>2, ReachesOn
<1>3. m \in C /\ n \in C
  BY ReachesOn
<1>4. Enclosed(a, C)
  <2> SUFFICES ASSUME NEW c \in Seq(DOMAIN a), IsCycle(a, c), NEW k \in Range(c) \cap C,
                      NEW x \in Range(c)
               PROVE  x \in C
    BY DEF Enclosed
  <2>1. x \in D
    BY RangeOfSeq
  <2>2. Reaches(a, k, x) /\ Reaches(a, x, k)
    BY CycleReaches
  <2>3. QED
    BY <2>1, <2>2, <1>2
<1>5. ASSUME NEW k \in C, a[k] \cap C = {} PROVE FALSE
  <2> DEFINE S == {y \in D : ~ Reaches(a, y, k)} \cup {k}
  <2>1. S \in SUBSET DOMAIN a /\ k \in S
    OBVIOUS
  <2>2. ASSUME NEW y \in S, NEW z \in a[y] PROVE z \in S
    <3>1. z \in D /\ Reaches(a, y, z)
      BY ReachesOn
    <3>2. CASE y = k
      <4>1. ~ Reaches(a, z, k)
        BY <3>1, <3>2, <1>2, <1>5
      <4>2. QED
        BY <3>1, <4>1
    <3>3. CASE ~ Reaches(a, y, k)
      <4>1. ~ Reaches(a, z, k)
        BY <3>1, <3>3, ReachesOn
      <4>2. QED
        BY <3>1, <4>1
    <3>4. QED
      BY <3>2, <3>3
  <2>3. PICK x \in C : x # k
    BY <1>3
  <2>4. x \in S
    <3> HIDE DEF S, C
    <3>1. \A y \in S : a[y] \subseteq S
      BY <2>2
    <3>2. QED
      BY <2>1, <2>3, <3>1, <1>1 DEF Reaches
  <2>5. QED
    BY <2>3, <2>4, <1>1
<1>6. QED
  BY <1>3, <1>4, <1>5 DEF Knot

\* Of every tangle of a graph that has been searched a cycle is reported, or is
\* about to be.
Tangled(a, C) == Enclosed(a, C) /\ \E S \in SUBSET C : Knot(a, S)
Shown(p, C)   == \E i \in DOMAIN reported : reported[i].parent = p /\ Range(reported[i].cycle) \subseteq C
Tangles ==
  << >> \notin hir.optOut =>
    \A p \in Searched : \A C \in SUBSET DOMAIN Adjacency(graphs[p]) :
      Tangled(Adjacency(graphs[p]), C) =>
        Shown(p, C) \/ (p = parent /\ \E c \in found : Range(c) \subseteq C)

LEMMA TanglesFinishDetection ==
  ASSUME VerdictInv, Tangles, FinishDetection
  PROVE  Tangles'
<1>1. /\ phase = "dfs" /\ phase' = "emit" /\ path = << >>
      /\ \A n \in DOMAIN color : color[n] # "white"
      /\ found' = {normalize_cycle(cycles[i]) : i \in DOMAIN cycles}
      /\ UNCHANGED <<crate, graphs, parents, parent, adj, cycles, reported>>
  BY DEF FinishDetection, walkVars, searchVars
<1>2. parent \in DOMAIN graphs \ parents /\ adj = Adjacency(graphs[parent]) /\ found = {}
  BY <1>1 DEF VerdictInv, CycleInv, Bookkeeping
<1>3. Searched' = Searched \cup {parent} /\ parent \notin Searched
  BY <1>1, <1>2 DEF Searched
<1> SUFFICES ASSUME << >> \notin hir.optOut, NEW p \in Searched',
                    NEW C \in SUBSET DOMAIN Adjacency(graphs[p]), Tangled(Adjacency(graphs[p]), C)
             PROVE  Shown(p, C) \/ (p = parent /\ \E c \in found' : Range(c) \subseteq C)
  BY <1>1 DEF Tangles, Shown, hir
<1>4. CASE p \in Searched
  BY <1>2, <1>4 DEF Tangles
<1>5. CASE p = parent
  <2>1. C \in SUBSET DOMAIN adj /\ Tangled(adj, C)
    BY <1>2, <1>5
  <2>2. PICK S \in SUBSET C : Enclosed(adj, C) /\ Knot(adj, S)
    BY <2>1 DEF Tangled
  <2>3. SearchInv /\ Explored
    BY DEF VerdictInv, CycleInv
  <2>4. FoundIn(C)
    BY <1>1, <2>1, <2>2, <2>3, SearchFinds
  <2>5. PICK i \in DOMAIN cycles : Range(cycles[i]) \subseteq C
    BY <2>4 DEF FoundIn
  <2>6. DOMAIN adj \in SUBSET Nat /\ cycles[i] \in Seq(DOMAIN adj) /\ IsCycle(adj, cycles[i])
    BY LenProperties, ElementOfSeq DEF VerdictInv, CycleInv, SearchInv, SearchTypes, GraphNames, OnlyCycles
  <2>7. Range(normalize_cycle(cycles[i])) \subseteq Range(cycles[i])
    BY <2>6, Rotation
  <2>8. QED
    BY <1>1, <1>5, <2>5, <2>7
<1>6. QED
  BY <1>3, <1>4, <1>5

\* What a diagnostic that is emitted adds to the list.
LEMMA Emitted ==
  ASSUME CycleInv, EmitCycle
  PROVE  \E c \in found :
           /\ \A d \in found : LexLeq(c, d)
           /\ found' = found \ {c}
           /\ OptedOut => reported' = reported
           /\ ~ OptedOut =>
                /\ DOMAIN reported' = 1..(Len(reported) + 1) /\ DOMAIN reported = 1..Len(reported)
                /\ Len(reported) \in Nat
                /\ \A i \in 1..Len(reported) : reported'[i] = reported[i]
                /\ reported'[Len(reported) + 1] = Diagnostic(parent, c)
<1>1. PICK c \in found :
        /\ \A d \in found : LexLeq(c, d)
        /\ found' = found \ {c}
        /\ reported' = IF OptedOut THEN reported ELSE Append(reported, Diagnostic(parent, c))
  BY DEF EmitCycle
<1> DEFINE d == Diagnostic(parent, c)
           R == Range(reported) \cup {d}
<1>2. reported \in Seq(R) /\ d \in R
  <2>1. reported \in Seq(Range(reported)) /\ Range(reported) \subseteq R
    BY DEF CycleInv, ReportTypes
  <2>2. QED
    BY <2>1, SeqMonotonic
<1> HIDE DEF R, d
<1>3. /\ DOMAIN Append(reported, d) = 1..(Len(reported) + 1) /\ DOMAIN reported = 1..Len(reported)
      /\ Len(reported) \in Nat
      /\ \A i \in 1..Len(reported) : Append(reported, d)[i] = reported[i]
      /\ Append(reported, d)[Len(reported) + 1] = d
  BY <1>2, Push
<1>4. QED
  BY <1>1, <1>3 DEF d

LEMMA TanglesEmitCycle ==
  ASSUME VerdictInv, Tangles, EmitCycle
  PROVE  Tangles'
<1>1. UNCHANGED <<crate, phase, graphs, parents, parent, adj>>
  BY DEF EmitCycle, walkVars, searchVars
<1>2. Searched' = Searched
  BY <1>1 DEF Searched
<1> SUFFICES ASSUME << >> \notin hir.optOut, NEW p \in Searched,
                    NEW C \in SUBSET DOMAIN Adjacency(graphs[p]), Tangled(Adjacency(graphs[p]), C)
             PROVE  Shown(p, C)' \/ (p = parent /\ \E c \in found' : Range(c) \subseteq C)
  BY <1>1, <1>2 DEF Tangles, hir
<1>3. PICK c \in found :
        /\ found' = found \ {c}
        /\ DOMAIN reported' = 1..(Len(reported) + 1) /\ DOMAIN reported = 1..Len(reported)
        /\ Len(reported) \in Nat
        /\ \A i \in 1..Len(reported) : reported'[i] = reported[i]
        /\ reported'[Len(reported) + 1] = Diagnostic(parent, c)
  BY Emitted DEF VerdictInv, OptedOut
<1>4. CASE Shown(p, C)
  <2>1. PICK i \in DOMAIN reported : reported[i].parent = p /\ Range(reported[i].cycle) \subseteq C
    BY <1>4 DEF Shown
  <2>2. i \in DOMAIN reported' /\ reported'[i] = reported[i]
    BY <1>3
  <2>3. QED
    BY <2>1, <2>2 DEF Shown
<1>5. CASE p = parent /\ Range(c) \subseteq C
  <2>1. Diagnostic(parent, c).parent = p /\ Range(Diagnostic(parent, c).cycle) \subseteq C
    BY <1>5 DEF Diagnostic
  <2>2. QED
    BY <1>3, <2>1 DEF Shown
<1>6. QED
  BY <1>3, <1>4, <1>5 DEF Tangles

LEMMA TanglesKept ==
  ASSUME VerdictInv, Tangles, [Next]_vars
  PROVE  Tangles'
<1>1. CASE UNCHANGED <<crate, graphs, reported>> /\ Searched' = Searched /\ (found = {} \/ UNCHANGED <<parent, found>>)
  BY <1>1 DEF Tangles, Shown, hir
<1>2. CASE UNCHANGED <<crate, phase, graphs, parents, parent, found, reported>>
  BY <1>1, <1>2 DEF Searched
<1>3. CASE check_expr \/ check_ty \/ check_item \/ StartRoot \/ dfs \/ Retreat \/ UNCHANGED vars
  BY <1>2, <1>3
  DEF check_expr, check_ty, check_item, Visit, StartRoot, dfs, Descend, CloseCycle, SkipFinished, LooksAt,
      Retreat, vars, walkVars, searchVars
<1>4. CASE check_crate_post
  <2>1. Searched' = {}
    BY <1>4 DEF check_crate_post, Searched
  <2>2. QED
    BY <2>1 DEF Tangles
<1>5. CASE NextParent
  <2>1. PICK p \in parents : parents' = parents \ {p} /\ parent' = p
    BY <1>5 DEF NextParent
  <2>2. phase = "emit" /\ phase' = "dfs" /\ found = {} /\ UNCHANGED <<crate, graphs, reported>>
    BY <1>5 DEF NextParent, walkVars
  <2>3. Searched' = Searched
    BY <2>1, <2>2 DEF Searched
  <2>4. QED
    BY <1>1, <2>2, <2>3
<1>6. CASE FinishDetection
  BY <1>6, TanglesFinishDetection
<1>7. CASE EmitCycle
  BY <1>7, TanglesEmitCycle
<1>8. CASE Finish
  BY <1>1, <1>8 DEF Finish, walkVars, searchVars, Searched
<1>9. QED
  BY <1>3, <1>4, <1>5, <1>6, <1>7, <1>8 DEF Next

LEMMA TanglesHold == Spec => []Tangles
<1>1. Init => Tangles
  <2> SUFFICES ASSUME Init PROVE Searched = {}
    BY DEF Tangles
  <2>1. QED
    BY DEF Init, Searched
<1>2. VerdictInv /\ Tangles /\ [Next]_vars => Tangles'
  BY TanglesKept
<1>3. QED
  BY <1>1, <1>2, VerdictInvHolds, PTL DEF Spec

\* Searching a graph once reports a cycle of each of its tangles: the first
\* child of a tangle that is visited is still on the path when the search comes
\* back to it, wherever the search entered the graph and whatever it has found.
THEOREM TangleReported == Spec => []EveryTangleReported
<1>1. VerdictInv /\ Tangles => EveryTangleReported
  <2> SUFFICES ASSUME VerdictInv, Tangles, phase = "done", << >> \notin hir.optOut,
                      NEW p \in DOMAIN graphs,
                      NEW m \in DOMAIN Adjacency(graphs[p]), NEW n \in DOMAIN Adjacency(graphs[p]),
                      m # n, Reaches(Adjacency(graphs[p]), m, n),
                      Reaches(Adjacency(graphs[p]), n, m)
               PROVE  \E i \in DOMAIN reported :
                        /\ reported[i].parent = p
                        /\ \A k \in Range(reported[i].cycle) :
                             Reaches(Adjacency(graphs[p]), m, k) /\ Reaches(Adjacency(graphs[p]), k, m)
    BY DEF EveryTangleReported
  <2> DEFINE a == Adjacency(graphs[p])
             C == {k \in DOMAIN a : Reaches(a, m, k) /\ Reaches(a, k, m)}
  <2>1. a \in [DOMAIN a -> SUBSET DOMAIN a]
    BY DEF Adjacency
  <2>2. Tangled(a, C)
    <3>1. Enclosed(a, C) /\ Knot(a, C)
      BY <2>1, TangleIsKnot
    <3>2. QED
      BY <3>1 DEF Tangled
  <2>3. p \in Searched /\ found = {}
    BY DEF VerdictInv, CycleInv, Bookkeeping, Searched
  <2>4. Shown(p, C)
    BY <2>2, <2>3 DEF Tangles
  <2>5. QED
    BY <2>4 DEF Shown
<1>2. QED
  BY <1>1, VerdictInvHolds, TanglesHold, PTL

-----------------------------------------------------------------------------
(***************************************************************************)
(* The order of the diagnostics.                                           *)
(***************************************************************************)
LeastFirst(c) == \A j \in DOMAIN c : c[1] <= c[j]

\* A diagnostic has the labels of its cycle, and what is still to be searched or
\* reported does not come before it.
Due(r) ==
  /\ \A j \in DOMAIN r.cycle :
       r.labels[j] = FirstSpan(graphs[r.parent], <<r.cycle[j], Succ(r.cycle, j)>>)
  /\ LeastFirst(r.cycle)
  /\ \A q \in parents : LexLeq(r.parent, q)
  /\ phase = "dfs" \/ found # {} => LexLeq(r.parent, parent)
  /\ r.parent = parent => \A c \in found : LexLeq(r.cycle, c) /\ r.cycle # c

InOrder ==
  \A i, j \in DOMAIN reported : i < j =>
    /\ LexLeq(reported[i].parent, reported[j].parent)
    /\ reported[i].parent = reported[j].parent =>
         LexLeq(reported[i].cycle, reported[j].cycle) /\ reported[i].cycle # reported[j].cycle

OrderInv ==
  /\ OptedOut => reported = << >>
  /\ \A c \in found : LeastFirst(c)
  /\ phase = "dfs" \/ found # {} => \A q \in parents : LexLeq(parent, q)
  /\ \A i \in DOMAIN reported : Due(reported[i])
  /\ InOrder

LEMMA OrderStays ==
  ASSUME OrderInv, UNCHANGED <<crate, phase, graphs, parents, parent, found, reported>>
  PROVE  OrderInv'
BY DEF OrderInv, Due, InOrder, OptedOut, hir

\* What has a diagnostic has been searched.
LEMMA ReportedAreSearched ==
  ASSUME VerdictInv, OrderInv, NEW i \in DOMAIN reported
  PROVE  reported[i].parent \in Searched
<1>1. << >> \notin hir.optOut
  BY DEF OrderInv, OptedOut
<1>2. QED
  BY <1>1 DEF VerdictInv, Verdicts, ReportedParents

LEMMA OrderNextParent ==
  ASSUME VerdictInv, OrderInv, NextParent
  PROVE  OrderInv'
<1>1. PICK p \in parents : /\ \A q \in parents : LexLeq(p, q)
                           /\ parents' = parents \ {p} /\ parent' = p
  BY DEF NextParent
<1>2. found = {} /\ found' = {} /\ UNCHANGED <<crate, graphs, reported>>
  BY DEF NextParent, walkVars
<1>3. ASSUME NEW i \in DOMAIN reported PROVE Due(reported[i])'
  <2>1. reported[i].parent # p
    BY ReportedAreSearched DEF Searched
  <2>2. Due(reported[i])
    BY DEF OrderInv
  <2>3. QED
    BY <1>1, <1>2, <2>1, <2>2 DEF Due
<1>4. QED
  BY <1>1, <1>2, <1>3 DEF OrderInv, InOrder, OptedOut, hir

LEMMA OrderFinishDetection ==
  ASSUME VerdictInv, OrderInv, FinishDetection
  PROVE  OrderInv'
<1>1. /\ phase = "dfs" /\ found' = {normalize_cycle(cycles[i]) : i \in DOMAIN cycles}
      /\ UNCHANGED <<crate, graphs, parents, parent, reported>>
  BY DEF FinishDetection, walkVars, searchVars
<1>2. ASSUME NEW i \in DOMAIN cycles PROVE LeastFirst(normalize_cycle(cycles[i]))
  <2>1. DOMAIN adj \in SUBSET Nat /\ cycles[i] \in Seq(DOMAIN adj) /\ IsCycle(adj, cycles[i])
    BY LenProperties, ElementOfSeq DEF VerdictInv, CycleInv, SearchInv, SearchTypes, GraphNames, OnlyCycles
  <2>2. QED
    BY <2>1, Rotation DEF LeastFirst
<1>3. ASSUME NEW i \in DOMAIN reported PROVE Due(reported[i])'
  <2>1. reported[i].parent # parent
    BY <1>1, ReportedAreSearched DEF Searched
  <2>2. Due(reported[i])
    BY DEF OrderInv
  <2>3. QED
    BY <1>1, <2>1, <2>2 DEF Due
<1>4. QED
  BY <1>1, <1>2, <1>3 DEF OrderInv, InOrder, OptedOut, hir

LEMMA OrderEmitCycle ==
  ASSUME VerdictInv, OrderInv, EmitCycle
  PROVE  OrderInv'
<1>1. UNCHANGED <<crate, phase, graphs, parents, parent>>
  BY DEF EmitCycle, walkVars, searchVars
<1>2. PICK c \in found :
        /\ \A d \in found : LexLeq(c, d)
        /\ found' = found \ {c}
        /\ OptedOut => reported' = reported
        /\ ~ OptedOut =>
             /\ DOMAIN reported' = 1..(Len(reported) + 1) /\ DOMAIN reported = 1..Len(reported)
             /\ Len(reported) \in Nat
             /\ \A i \in 1..Len(reported) : reported'[i] = reported[i]
             /\ reported'[Len(reported) + 1] = Diagnostic(parent, c)
  BY Emitted DEF VerdictInv
<1>4. CASE OptedOut
  BY <1>1, <1>2, <1>4 DEF OrderInv, InOrder, OptedOut, hir
<1>5. CASE ~ OptedOut
  <2> DEFINE n == Len(reported)
             d == Diagnostic(parent, c)
  <2>1. /\ d.parent = parent /\ d.cycle = c
        /\ \A j \in DOMAIN c : d.labels[j] = FirstSpan(graphs[parent], <<c[j], Succ(c, j)>>)
    BY DEF Diagnostic
  <2> HIDE DEF d, n
  <2>2. /\ DOMAIN reported' = 1..(n + 1) /\ DOMAIN reported = 1..n /\ n \in Nat
        /\ \A i \in 1..n : reported'[i] = reported[i]
        /\ reported'[n + 1] = d
    BY <1>2, <1>5 DEF n, d
  <2>3. ASSUME NEW r, r = d PROVE Due(r)'
    BY <1>1, <1>2, <2>1, <2>3, LexLeqSelf DEF Due, OrderInv
  <2>4. ASSUME NEW r, Due(r) PROVE Due(r)'
    BY <1>1, <1>2, <2>4 DEF Due
  <2>5. ASSUME NEW i \in DOMAIN reported', NEW j \in DOMAIN reported', i < j
        PROVE  /\ LexLeq(reported'[i].parent, reported'[j].parent)
               /\ reported'[i].parent = reported'[j].parent =>
                    /\ LexLeq(reported'[i].cycle, reported'[j].cycle)
                    /\ reported'[i].cycle # reported'[j].cycle
    <3>1. i \in 1..n /\ (j \in 1..n \/ j = n + 1)
      BY <2>2, <2>5
    <3>2. CASE j \in 1..n
      BY <2>2, <2>5, <3>1, <3>2 DEF OrderInv, InOrder
    <3>3. CASE j = n + 1
      <4>1. Due(reported[i])
        BY <2>2, <3>1 DEF OrderInv
      <4>2. QED
        BY <1>2, <2>1, <2>2, <3>1, <3>3, <4>1 DEF Due
    <3>4. QED
      BY <3>1, <3>2, <3>3
  <2>6. ASSUME NEW i \in DOMAIN reported' PROVE Due(reported[i])'
    <3>1. i \in 1..n \/ i = n + 1
      BY <2>2
    <3>2. PICK r : r = reported'[i]
      OBVIOUS
    <3>3. Due(r)'
      BY <2>2, <2>3, <2>4, <3>1, <3>2 DEF OrderInv
    <3>4. QED
      BY <3>2, <3>3 DEF Due
  <2>7. InOrder'
    BY <2>5 DEF InOrder
  <2>8. QED
    BY <1>1, <1>2, <1>5, <2>6, <2>7 DEF OrderInv, OptedOut, hir
<1>6. QED
  BY <1>4, <1>5

LEMMA OrderInvHolds == Spec => []OrderInv
<1>1. Init => OrderInv
  <2> SUFFICES ASSUME Init PROVE OrderInv
    OBVIOUS
  <2>1. reported = << >> /\ found = {} /\ phase = "walk"
    BY DEF Init
  <2>2. QED
    BY <2>1 DEF OrderInv, InOrder
<1>2. VerdictInv /\ OrderInv /\ [Next]_vars => OrderInv'
  <2> SUFFICES ASSUME VerdictInv, OrderInv, [Next]_vars PROVE OrderInv'
    OBVIOUS
  <2>1. CASE check_expr \/ check_ty \/ check_item \/ StartRoot \/ dfs \/ Retreat \/ UNCHANGED vars
    BY <2>1, OrderStays
    DEF check_expr, check_ty, check_item, Visit, StartRoot, dfs, Descend, CloseCycle, SkipFinished,
        LooksAt, Retreat, vars, walkVars, searchVars
  <2>2. CASE check_crate_post
    <3>1. reported' = << >> /\ found' = {} /\ phase' = "emit"
      BY <2>2 DEF check_crate_post, VerdictInv, CycleInv, Bookkeeping
    <3>2. QED
      BY <3>1 DEF OrderInv, InOrder
  <2>3. CASE NextParent
    BY <2>3, OrderNextParent
  <2>4. CASE FinishDetection
    BY <2>4, OrderFinishDetection
  <2>5. CASE EmitCycle
    BY <2>5, OrderEmitCycle
  <2>6. CASE Finish
    <3>1. found = {} /\ phase' = "done" /\ UNCHANGED <<crate, graphs, parents, parent, found, reported>>
      BY <2>6 DEF Finish, walkVars, searchVars
    <3>2. QED
      BY <3>1 DEF OrderInv, Due, InOrder, OptedOut, hir
  <2>7. QED
    BY <2>1, <2>2, <2>3, <2>4, <2>5, <2>6 DEF Next
<1>3. QED
  BY <1>1, <1>2, VerdictInvHolds, PTL DEF Spec

-----------------------------------------------------------------------------
(***************************************************************************)
(* What the edges say.                                                     *)
(***************************************************************************)
\* What is below a child.
LEMMA PrefixOfAppend ==
  ASSUME NEW p \in Seq(Nat), NEW a \in Nat, NEW s \in Seq(Nat)
  PROVE  IsPrefix(Append(p, a), s) <=>
           Len(p) < Len(s) /\ s[Len(p) + 1] = a /\ \A i \in 1..Len(p) : s[i] = p[i]
<1> DEFINE q == Append(p, a)
           n == Len(p)
<1>1. /\ q \in Seq(Nat) /\ Len(q) = n + 1 /\ n \in Nat
      /\ \A i \in 1..n : q[i] = p[i]
      /\ q[n + 1] = a
  BY Push
<1> HIDE DEF q, n
<1>2. CASE n < Len(s)
  <2>1. /\ SubSeq(q, 1, n + 1) \in Seq(Nat) /\ SubSeq(s, 1, n + 1) \in Seq(Nat)
        /\ Len(SubSeq(q, 1, n + 1)) = n + 1 /\ Len(SubSeq(s, 1, n + 1)) = n + 1
        /\ \A i \in 1..(n + 1) : SubSeq(q, 1, n + 1)[i] = q[i] /\ SubSeq(s, 1, n + 1)[i] = s[i]
    BY <1>1, <1>2
  <2>2. SubSeq(q, 1, n + 1) = SubSeq(s, 1, n + 1) <=> \A i \in 1..(n + 1) : q[i] = s[i]
    <3>1. ASSUME \A i \in 1..(n + 1) : q[i] = s[i]
          PROVE  SubSeq(q, 1, n + 1) = SubSeq(s, 1, n + 1)
      BY <2>1, <3>1, SeqEqual
    <3>2. QED
      BY <2>1, <3>1
  <2>3. (\A i \in 1..(n + 1) : q[i] = s[i]) <=> s[n + 1] = a /\ \A i \in 1..n : s[i] = p[i]
    <3>1. \A i \in 1..(n + 1) : i \in 1..n \/ i = n + 1
      BY <1>1
    <3>2. n + 1 \in 1..(n + 1) /\ \A i \in 1..n : i \in 1..(n + 1)
      BY <1>1
    <3>3. QED
      BY <1>1, <3>1, <3>2
  <2>4. QED
    BY SMTT(30), <1>1, <1>2, <2>2, <2>3 DEF IsPrefix, q, n
<1>3. CASE ~ (n < Len(s))
  BY <1>1, <1>3 DEF IsPrefix, q, n
<1>4. QED
  BY <1>2, <1>3

\* Two paths part below p, for a and for b.
LEMMA PartingPaths ==
  ASSUME NEW s \in Seq(Nat), NEW t \in Seq(Nat), NEW p \in Seq(Nat), NEW a \in Nat, NEW b \in Nat
  PROVE  LET k == CommonLen(s, t)
         IN  (k < Len(s) /\ k < Len(t) /\ SubSeq(s, 1, k) = p /\ s[k+1] = a /\ t[k+1] = b)
               <=> (a # b /\ IsPrefix(Append(p, a), s) /\ IsPrefix(Append(p, b), t))
<1> DEFINE k == CommonLen(s, t)
           n == Len(p)
           From(x, q) == n < Len(q) /\ q[n + 1] = x /\ \A i \in 1..n : q[i] = p[i]
<1>1. IsPrefix(Append(p, a), s) /\ IsPrefix(Append(p, b), t) <=> From(a, s) /\ From(b, t)
  <2>1. IsPrefix(Append(p, a), s) <=> From(a, s)
    BY PrefixOfAppend
  <2>2. IsPrefix(Append(p, b), t) <=> From(b, t)
    BY PrefixOfAppend
  <2>3. QED
    BY <2>1, <2>2
<1>2. /\ k \in 0..Len(s) /\ k <= Len(t)
      /\ SubSeq(s, 1, k) = SubSeq(t, 1, k)
      /\ k < Len(s) /\ k < Len(t) => s[k+1] # t[k+1]
  BY CommonLenOfBoth
<1>3. n \in Nat /\ k \in Nat /\ Len(s) \in Nat /\ Len(t) \in Nat
  BY <1>2
<1> HIDE DEF k, n
<1>4. /\ SubSeq(s, 1, k) \in Seq(Nat) /\ Len(SubSeq(s, 1, k)) = k
      /\ \A i \in 1..k : SubSeq(s, 1, k)[i] = s[i] /\ SubSeq(t, 1, k)[i] = t[i]
  BY <1>2, <1>3
<1>5. \A i \in 1..k : s[i] = t[i]
  BY <1>2, <1>4
<1>6. ASSUME k < Len(s), k < Len(t), SubSeq(s, 1, k) = p, s[k+1] = a, t[k+1] = b
      PROVE  a # b /\ From(a, s) /\ From(b, t)
  <2>1. k = n
    BY <1>4, <1>6 DEF n
  <2>2. \A i \in 1..n : s[i] = p[i] /\ t[i] = p[i]
    BY <1>4, <1>5, <1>6, <2>1
  <2>3. QED
    BY <1>2, <1>6, <2>1, <2>2
<1>7. ASSUME a # b, From(a, s), From(b, t)
      PROVE  k < Len(s) /\ k < Len(t) /\ SubSeq(s, 1, k) = p /\ s[k+1] = a /\ t[k+1] = b
  <2>1. n < Len(s) /\ n < Len(t) /\ s[n + 1] = a /\ t[n + 1] = b
    BY <1>7
  <2>2. \A i \in 1..n : s[i] = p[i] /\ t[i] = p[i]
    BY <1>7
  <2>3. ~ (k < n)
    <3> SUFFICES ASSUME k < n PROVE FALSE
      OBVIOUS
    <3>1. k + 1 \in 1..n
      BY <1>3
    <3>2. k < Len(s) /\ k < Len(t)
      BY SMTT(30), <1>3, <2>1
    <3>3. QED
      BY <1>2, <2>2, <3>1, <3>2
  <2>4. ~ (n < k)
    <3> SUFFICES ASSUME n < k PROVE FALSE
      OBVIOUS
    <3>1. n + 1 \in 1..k
      BY <1>3
    <3>2. QED
      BY <1>5, <1>7, <2>1, <3>1
  <2>5. k = n
    BY <1>3, <2>3, <2>4
  <2>6. SubSeq(s, 1, k) = p
    <3>1. p \in Seq(Nat) /\ Len(p) = n
      BY DEF n
    <3>2. \A i \in 1..n : SubSeq(s, 1, k)[i] = p[i]
      BY <1>4, <2>2, <2>5
    <3>3. QED
      BY <1>4, <2>5, <3>1, <3>2, SeqEqual
  <2>7. QED
    BY <2>1, <2>5, <2>6
<1>8. QED
  BY <1>1, <1>6, <1>7 DEF k

\* An edge is between children a and b of p exactly if it leaves what is below
\* the one for what is below the other.
LEMMA SiblingOf ==
  ASSUME NEW e, e.source \in Seq(Nat), e.target \in Seq(Nat), NEW p \in Seq(Nat),
         NEW a \in Nat, NEW b \in Nat
  PROVE  (Diverges(e) /\ Sibling(e).parent = p /\ Sibling(e).arc = <<a, b>>)
           <=> (a # b /\ IsPrefix(Append(p, a), e.source) /\ IsPrefix(Append(p, b), e.target))
<1> DEFINE k == CommonLen(e.source, e.target)
<1>1. /\ Diverges(e) <=> k < Len(e.source) /\ k < Len(e.target)
      /\ Sibling(e).parent = SubSeq(e.source, 1, k)
      /\ Sibling(e).arc = <<e.source[k+1], e.target[k+1]>>
  BY DEF Diverges, Sibling
<1>2. (k < Len(e.source) /\ k < Len(e.target) /\ SubSeq(e.source, 1, k) = p
         /\ e.source[k+1] = a /\ e.target[k+1] = b)
        <=> (a # b /\ IsPrefix(Append(p, a), e.source) /\ IsPrefix(Append(p, b), e.target))
  BY SMTT(30), PartingPaths
<1> HIDE DEF k
<1>3. QED
  BY <1>1, <1>2

\* The edges are those of all references of the nodes visited, and the graphs
\* are built from those of the crate.
EdgesOf(k) ==
  UNION {record_edge(hir.nodes[k], hir.nodes[k].res[i], k) : i \in DOMAIN hir.nodes[k].res}

WalkInv ==
  /\ edges = UNION {EdgesOf(k) : k \in 1..visited}
  /\ phase = "walk" => graphs = << >>
  /\ phase # "walk" => visited = Len(hir.nodes) /\ graphs = build_sibling_graphs

LEMMA EdgesStay ==
  ASSUME UNCHANGED crate
  PROVE  \A k : EdgesOf(k)' = EdgesOf(k)
BY DEF EdgesOf, record_edge, hir

LEMMA GraphsStay ==
  ASSUME UNCHANGED edges
  PROVE  build_sibling_graphs' = build_sibling_graphs
BY DEF build_sibling_graphs

\* A callback records every reference of the node it sees: only an import names
\* more than one definition, and its callback looks at all of them.
LEMMA WalkInvVisit ==
  ASSUME SearchInv, WalkInv, check_expr \/ check_ty \/ check_item
  PROVE  WalkInv'
<1> DEFINE k == visited + 1
           node == hir.nodes[k]
<1>1. /\ phase = "walk" /\ visited' = k /\ k \in 1..Len(hir.nodes)
      /\ visited \in Nat /\ UNCHANGED <<crate, phase, graphs>>
  BY DEF SearchInv, WalkTypes, check_expr, check_ty, check_item, Visit
<1>2. /\ node.res \in Seq(Definitions)
      /\ node.kind = "use" \/ Len(node.res) <= 1
  <2>1. node \in Nodes
    BY <1>1, CratesAssumption, ElementOfSeq DEF CratesAssumption, hir, SearchInv, WalkTypes
  <2>2. crate \in CrateIds /\ k \in DOMAIN Crate(crate).nodes
    BY <1>1, CratesAssumption, LenProperties DEF CratesAssumption, hir, SearchInv, WalkTypes
  <2>3. QED
    BY <2>1, <2>2, CratesAssumption DEF CratesAssumption, Nodes, hir
<1>3. Range(for_each_use_def_id(node)) = Range(node.res)
  BY DEF for_each_use_def_id
<1>4. Len(node.res) <= 1 => Range(resolve_def_id(node)) = Range(node.res)
  <2> SUFFICES ASSUME Len(node.res) <= 1 PROVE Range(resolve_def_id(node)) = Range(node.res)
    OBVIOUS
  <2> DEFINE r == node.res
  <2>1. r \in Seq(Definitions) /\ Len(r) <= 1
    BY <1>2
  <2> HIDE DEF r
  <2>2. CASE r = << >>
    BY <2>2 DEF resolve_def_id, r
  <2>3. CASE r # << >>
    <3>a. Len(r) \in Nat \ {0} /\ DOMAIN r = 1..Len(r)
      BY <2>1, <2>3, EmptySeq, LenProperties
    <3>b. Len(r) = 1
      BY <2>1, <3>a
    <3>1. DOMAIN r = {1} /\ Head(r) = r[1]
      BY <2>1, <3>a, <3>b
    <3>2. DOMAIN <<Head(r)>> = {1} /\ <<Head(r)>>[1] = r[1]
      BY <3>1
    <3>3. Range(<<Head(r)>>) = Range(r)
      BY <3>1, <3>2 DEF Range
    <3>4. QED
      BY <2>3, <3>3 DEF resolve_def_id, r
  <2>4. QED
    BY <2>2, <2>3
<1>5. edges' = edges \cup UNION {record_edge(node, def, k) : def \in Range(node.res)}
  <2>1. CASE check_item
    BY <2>1, <1>3 DEF check_item, Visit
  <2>2. CASE check_expr
    BY <2>2, <1>2, <1>4 DEF check_expr, Visit
  <2>3. CASE check_ty
    BY <2>3, <1>2, <1>4 DEF check_ty, Visit
  <2>4. QED
    BY <2>1, <2>2, <2>3
<1>6. UNION {record_edge(node, def, k) : def \in Range(node.res)} = EdgesOf(k)
  BY DEF EdgesOf, Range
<1>7. edges' = UNION {EdgesOf(j) : j \in 1..k}
  <2>1. 1..k = (1..visited) \cup {k}
    BY <1>1
  <2> HIDE DEF k, node
  <2>2. edges = UNION {EdgesOf(j) : j \in 1..visited}
    BY DEF WalkInv
  <2>3. QED
    BY <1>5, <1>6, <2>1, <2>2
<1>8. \A j : EdgesOf(j)' = EdgesOf(j)
  BY <1>1, EdgesStay
<1>9. QED
  BY <1>1, <1>7, <1>8 DEF WalkInv

LEMMA WalkInvHolds == Spec => []WalkInv
<1>1. Init => WalkInv
  <2> SUFFICES ASSUME Init PROVE WalkInv
    OBVIOUS
  <2>1. visited = 0 /\ edges = {} /\ phase = "walk" /\ graphs = << >>
    BY DEF Init
  <2>2. QED
    BY <2>1 DEF WalkInv
<1>2. SearchInv /\ WalkInv /\ [Next]_vars => WalkInv'
  <2> SUFFICES ASSUME SearchInv, WalkInv, [Next]_vars PROVE WalkInv'
    OBVIOUS
  <2>1. CASE check_expr \/ check_ty \/ check_item
    BY <2>1, WalkInvVisit
  <2>2. CASE check_crate_post
    <3>1. /\ visited = Len(hir.nodes) /\ phase' = "emit" /\ graphs' = build_sibling_graphs
          /\ UNCHANGED <<crate, visited, edges>>
      BY <2>2 DEF check_crate_post, walkVars
    <3>2. QED
      BY <3>1, EdgesStay, GraphsStay DEF WalkInv, hir
  <2>3. CASE NextParent \/ FinishDetection \/ Finish
    <3>1. phase # "walk" /\ phase' # "walk" /\ UNCHANGED <<crate, visited, edges, graphs>>
      BY <2>3 DEF NextParent, FinishDetection, Finish, walkVars
    <3>2. QED
      BY <3>1, EdgesStay, GraphsStay DEF WalkInv, hir
  <2>4. CASE StartRoot \/ dfs \/ Retreat \/ EmitCycle \/ UNCHANGED vars
    <3>1. UNCHANGED <<crate, visited, edges, phase, graphs>>
      BY <2>4
      DEF StartRoot, dfs, Descend, CloseCycle, SkipFinished, LooksAt, Retreat, EmitCycle, vars, walkVars
    <3>2. QED
      BY <3>1, EdgesStay, GraphsStay DEF WalkInv, hir
  <2>5. QED
    BY <2>1, <2>2, <2>3, <2>4 DEF Next
<1>3. Spec => []SearchInv
  BY GrayOnPath, PTL
<1>4. QED
  BY <1>1, <1>2, <1>3, PTL DEF Spec

\* A node witnesses that a child of p depends on another exactly if it has an
\* edge from what is below the one to what is below the other.
LEMMA WitnessEdge ==
  ASSUME SearchInv, NEW k \in 1..Len(hir.nodes), NEW p \in Seq(Nat), NEW a \in Nat, NEW b \in Nat
  PROVE  /\ \A e \in EdgesOf(k) : e.span = k /\ e.source \in Modules /\ e.target \in Modules
         /\ Promise!Witnesses(k, p, a, b) <=>
              \E e \in EdgesOf(k) :
                a # b /\ IsPrefix(Append(p, a), e.source) /\ IsPrefix(Append(p, b), e.target)
<1> DEFINE node == hir.nodes[k]
           T(i) == item_module_def_id(Modules, node.res[i])
           Skip(i) == should_skip_ref(hir.testCrate, node, node.res[i])
           E(i) == record_edge(node, node.res[i], k)
<1>1. crate \in CrateIds /\ node \in Nodes
  BY CratesAssumption, ElementOfSeq DEF CratesAssumption, hir, SearchInv, WalkTypes
<1>2. node.owner \in Modules /\ node.res \in Seq(Definitions)
  BY <1>1 DEF Nodes
<1>3. \A i \in DOMAIN node.res : T(i) \in Modules
  <2> TAKE i \in DOMAIN node.res
  <2>1. node.res[i] \in Definitions
    BY <1>2, LenProperties, ElementOfSeq
  <2>2. node.res[i].path \in Seq(Nat)
    BY <2>1 DEF Definitions
  <2>3. QED
    BY <2>2, ItemModule
<1>4. \A i \in DOMAIN node.res :
        E(i) = IF Skip(i) \/ node.owner = T(i) THEN {}
               ELSE {[source |-> node.owner, target |-> T(i), span |-> k]}
  BY DEF record_edge
<1>5. EdgesOf(k) = UNION {E(i) : i \in DOMAIN node.res}
  BY DEF EdgesOf
<1>6. Promise!Witnesses(k, p, a, b) <=>
        /\ a # b /\ IsPrefix(Append(p, a), node.owner)
        /\ \E i \in DOMAIN node.res : ~ Skip(i) /\ IsPrefix(Append(p, b), T(i))
  BY DEF Promise!Witnesses, Promise!InSubtree, Promise!should_skip_ref, should_skip_ref,
         Promise!item_module_def_id, item_module_def_id, Promise!IsPrefix, IsPrefix, hir
<1>7. \A m \in Modules : a # b => ~ (IsPrefix(Append(p, a), m) /\ IsPrefix(Append(p, b), m))
  <2> TAKE m \in Modules
  <2>1. m \in Seq(Nat)
    BY CratesAssumption DEF CratesAssumption
  <2>2. IsPrefix(Append(p, a), m) => m[Len(p) + 1] = a
    BY <2>1, PrefixOfAppend
  <2>3. IsPrefix(Append(p, b), m) => m[Len(p) + 1] = b
    BY <2>1, PrefixOfAppend
  <2>4. QED
    BY <2>2, <2>3
<1> HIDE DEF node, T, Skip, E
<1>8. \A e \in EdgesOf(k) : e.span = k /\ e.source \in Modules /\ e.target \in Modules
  BY <1>2, <1>3, <1>4, <1>5
<1>9. ASSUME Promise!Witnesses(k, p, a, b)
      PROVE  \E e \in EdgesOf(k) :
               a # b /\ IsPrefix(Append(p, a), e.source) /\ IsPrefix(Append(p, b), e.target)
  <2>1. PICK i \in DOMAIN node.res : ~ Skip(i) /\ IsPrefix(Append(p, b), T(i))
    BY <1>6, <1>9
  <2>2. node.owner # T(i)
    BY <1>2, <1>6, <1>7, <1>9, <2>1
  <2> DEFINE e == [source |-> node.owner, target |-> T(i), span |-> k]
  <2>3. e \in EdgesOf(k)
    BY <1>4, <1>5, <2>1, <2>2
  <2>4. e.source = node.owner /\ e.target = T(i)
    OBVIOUS
  <2>5. QED
    BY <1>6, <1>9, <2>1, <2>3, <2>4
<1>10. ASSUME NEW e \in EdgesOf(k), a # b, IsPrefix(Append(p, a), e.source),
              IsPrefix(Append(p, b), e.target)
       PROVE  Promise!Witnesses(k, p, a, b)
  <2>1. PICK i \in DOMAIN node.res : e \in E(i)
    BY <1>5
  <2>2. ~ Skip(i) /\ e.source = node.owner /\ e.target = T(i)
    BY <1>4, <2>1
  <2>3. QED
    BY <1>6, <1>10, <2>2
<1>11. QED
  BY <1>8, <1>9, <1>10

\* So the spans of an arc are the nodes that witness it.
LEMMA SpansAreWitnesses ==
  ASSUME SearchInv, WalkInv, phase # "walk", NEW p \in DOMAIN graphs, p \in Seq(Nat),
         NEW a \in Nat, NEW b \in Nat
  PROVE  SpansOf(graphs[p], <<a, b>>) = {k \in 1..Len(hir.nodes) : Promise!Witnesses(k, p, a, b)}
<1> DEFINE Below(e) == a # b /\ IsPrefix(Append(p, a), e.source) /\ IsPrefix(Append(p, b), e.target)
<1>1. edges = UNION {EdgesOf(k) : k \in 1..Len(hir.nodes)} /\ graphs = build_sibling_graphs
  BY DEF WalkInv
<1>2. \A s : s \in graphs[p] <=> \E e \in edges : Diverges(e) /\ s = Sibling(e) /\ s.parent = p
  BY <1>1 DEF build_sibling_graphs
<1>3. \A e \in edges : Sibling(e).span = e.span
  BY DEF Sibling
<1>4. \A e \in edges : (Diverges(e) /\ Sibling(e).parent = p /\ Sibling(e).arc = <<a, b>>) <=> Below(e)
  <2> TAKE e \in edges
  <2>1. e.source \in Seq(Nat) /\ e.target \in Seq(Nat)
    BY CratesAssumption DEF CratesAssumption, SearchInv, WalkTypes
  <2>2. QED
    BY <2>1, SiblingOf
<1>5. \A n : n \in SpansOf(graphs[p], <<a, b>>) <=> \E e \in edges : Below(e) /\ n = e.span
  <2> TAKE n
  <2>1. n \in SpansOf(graphs[p], <<a, b>>) <=> \E s \in graphs[p] : s.arc = <<a, b>> /\ n = s.span
    BY DEF SpansOf
  <2>2. (\E s \in graphs[p] : s.arc = <<a, b>> /\ n = s.span)
          <=> \E e \in edges : Diverges(e) /\ Sibling(e).parent = p /\ Sibling(e).arc = <<a, b>>
                               /\ n = Sibling(e).span
    BY <1>2
  <2> HIDE DEF Below
  <2>3. QED
    BY <1>3, <1>4, <2>1, <2>2
<1> HIDE DEF Below
<1>6. \A k \in 1..Len(hir.nodes) :
        /\ \A e \in EdgesOf(k) : e.span = k
        /\ Promise!Witnesses(k, p, a, b) <=> \E e \in EdgesOf(k) : Below(e)
  BY WitnessEdge DEF Below
<1>7. \A e : e \in edges <=> \E k \in 1..Len(hir.nodes) : e \in EdgesOf(k)
  BY <1>1
<1>8. ASSUME NEW n
      PROVE  n \in SpansOf(graphs[p], <<a, b>>)
               <=> n \in 1..Len(hir.nodes) /\ Promise!Witnesses(n, p, a, b)
  <2>1. ASSUME n \in SpansOf(graphs[p], <<a, b>>)
        PROVE  n \in 1..Len(hir.nodes) /\ Promise!Witnesses(n, p, a, b)
    <3>1. PICK e \in edges : Below(e) /\ n = e.span
      BY <1>5, <2>1
    <3>2. PICK k \in 1..Len(hir.nodes) : e \in EdgesOf(k)
      BY <1>7
    <3>3. k = n /\ Promise!Witnesses(k, p, a, b)
      BY <1>6, <3>1, <3>2
    <3>4. QED
      BY <3>3
  <2>2. ASSUME n \in 1..Len(hir.nodes), Promise!Witnesses(n, p, a, b)
        PROVE  n \in SpansOf(graphs[p], <<a, b>>)
    <3>1. PICK e \in EdgesOf(n) : Below(e)
      BY <1>6, <2>2
    <3>2. e.span = n /\ e \in edges
      BY <1>6, <1>7, <2>2, <3>1
    <3>3. QED
      BY <1>5, <3>1, <3>2
  <2>3. QED
    BY <2>1, <2>2
<1>9. QED
  BY <1>8

\* A graph is that of a module: a module contains it.
LEMMA ParentsAreModules ==
  ASSUME SearchInv, WalkInv, phase # "walk", NEW p \in DOMAIN graphs
  PROVE  p \in Modules /\ p \in Seq(Nat)
<1>1. PICK e \in edges : p = Sibling(e).parent
  BY DEF WalkInv, build_sibling_graphs
<1>2. e.source \in Modules /\ e.source \in Seq(Nat) /\ e.target \in Seq(Nat)
  BY CratesAssumption DEF CratesAssumption, SearchInv, WalkTypes
<1>3. CommonLen(e.source, e.target) \in 0..Len(e.source)
  BY <1>2, CommonLenOfBoth
<1>4. p = SubSeq(e.source, 1, CommonLen(e.source, e.target))
  BY <1>1 DEF Sibling
<1>5. p \in Modules
  BY <1>2, <1>3, <1>4, CratesAssumption DEF CratesAssumption
<1>6. QED
  BY <1>5, CratesAssumption DEF CratesAssumption

\* The arcs of a graph are the dependencies among the children of its parent.
LEMMA ArcsAreDependencies ==
  ASSUME SearchInv, WalkInv, phase # "walk", NEW p \in DOMAIN graphs, NEW a \in Nat, NEW b \in Nat
  PROVE  <<a, b>> \in Arcs(graphs[p]) <=> Promise!DependsOn(p, a, b)
<1>1. <<a, b>> \in Arcs(graphs[p]) <=> SpansOf(graphs[p], <<a, b>>) # {}
  BY DEF Arcs, SpansOf
<1>2. SpansOf(graphs[p], <<a, b>>) = {k \in 1..Len(hir.nodes) : Promise!Witnesses(k, p, a, b)}
  BY ParentsAreModules, SpansAreWitnesses
<1>3. DOMAIN hir.nodes = 1..Len(hir.nodes)
  <2>1. hir.nodes \in Seq(Nodes)
    BY CratesAssumption DEF CratesAssumption, hir, SearchInv, WalkTypes
  <2>2. QED
    BY <2>1, LenProperties
<1>4. Promise!DependsOn(p, a, b) <=> \E k \in 1..Len(hir.nodes) : Promise!Witnesses(k, p, a, b)
  BY <1>3 DEF Promise!DependsOn, hir
<1>5. QED
  BY <1>1, <1>2, <1>4

\* The span that labels an arc is its first witness.
LEMMA FirstWitness ==
  ASSUME SearchInv, WalkInv, phase # "walk", NEW p \in DOMAIN graphs, NEW a \in Nat, NEW b \in Nat,
         <<a, b>> \in Arcs(graphs[p])
  PROVE  LET f == FirstSpan(graphs[p], <<a, b>>)
         IN  /\ f \in 1..visited /\ Promise!Witnesses(f, p, a, b)
             /\ \A k \in 1..(f - 1) : ~ Promise!Witnesses(k, p, a, b)
<1> DEFINE S == SpansOf(graphs[p], <<a, b>>)
           f == FirstSpan(graphs[p], <<a, b>>)
<1>1. S = {k \in 1..visited : Promise!Witnesses(k, p, a, b)}
  BY ParentsAreModules, SpansAreWitnesses DEF WalkInv
<1>2. S # {}
  BY DEF Arcs, SpansOf
<1>3. f = CHOOSE i \in S : \A j \in S : i <= j
  BY <1>2 DEF FirstSpan
<1>4. visited \in Nat
  BY CratesAssumption DEF SearchInv, WalkTypes
<1> HIDE DEF S, f
<1>5. \E i \in S : \A j \in S : i <= j
  <2>1. S \in SUBSET Nat
    BY <1>1
  <2>2. QED
    BY <1>2, <2>1, LeastNat
<1>6. f \in S /\ \A j \in S : f <= j
  BY <1>3, <1>5
<1>7. f \in 1..visited /\ Promise!Witnesses(f, p, a, b)
  BY <1>1, <1>6
<1>8. ASSUME NEW k \in 1..(f - 1), Promise!Witnesses(k, p, a, b) PROVE FALSE
  <2>1. k \in 1..visited /\ ~ (f <= k)
    BY <1>4, <1>7
  <2>2. k \in S
    BY <1>1, <1>8, <2>1
  <2>3. QED
    BY <1>6, <2>1, <2>2
<1>9. QED
  BY <1>7, <1>8 DEF f

\* What the user is shown is exact for every crate: cycles and nothing else,
\* every arc labelled with the first reference that witnesses it, in one order.
THEOREM DiagnosticsAreExact == Spec => []DiagnosticsExact
<1>1. VerdictInv /\ OrderInv /\ WalkInv => LabelsAreFirstWitnesses
  <2> SUFFICES ASSUME VerdictInv, OrderInv, WalkInv, NEW i \in DOMAIN reported,
                      NEW j \in DOMAIN reported[i].cycle
               PROVE  LET r == reported[i]
                          W(k) == Promise!Witnesses(k, r.parent, r.cycle[j], Succ(r.cycle, j))
                      IN  /\ r.labels[j] \in 1..visited
                          /\ W(r.labels[j])
                          /\ \A k \in 1..(r.labels[j] - 1) : ~ W(k)
    BY DEF LabelsAreFirstWitnesses
  <2> DEFINE p == reported[i].parent
             c == reported[i].cycle
             g == graphs[p]
  <2>1. SearchInv /\ phase # "walk" /\ p \in DOMAIN graphs
    BY DEF VerdictInv, CycleInv, Bookkeeping, ReportTypes
  <2>2. c \in Seq(Children(g)) /\ IsCycle(Adjacency(g), c) /\ Children(g) \subseteq Nat
    BY <2>1 DEF VerdictInv, CycleInv, ReportTypes, OnlyCycles, SearchInv, GraphNames
  <2>3. c[j] \in Children(g)
    BY <2>2, LenProperties, ElementOfSeq
  <2>4. Succ(c, j) \in Adjacency(g)[c[j]]
    BY <2>2 DEF IsCycle
  <2>5. Succ(c, j) \in Children(g) /\ <<c[j], Succ(c, j)>> \in Arcs(g)
    BY <2>3, <2>4 DEF Adjacency
  <2>6. reported[i].labels[j] = FirstSpan(g, <<c[j], Succ(c, j)>>)
    BY DEF OrderInv, Due
  <2>7. c[j] \in Nat /\ Succ(c, j) \in Nat
    BY <2>2, <2>3, <2>5
  <2> HIDE DEF p, c
  <2>8. QED
    BY <2>1, <2>5, <2>6, <2>7, FirstWitness DEF p, c
<1>2. VerdictInv => OnlyCycles
  BY DEF VerdictInv, CycleInv
<1>3. OrderInv => DiagnosticsOrdered
  BY DEF OrderInv, InOrder, Due, LeastFirst, DiagnosticsOrdered
<1>4. QED
  BY <1>1, <1>2, <1>3, VerdictInvHolds, OrderInvHolds, WalkInvHolds, PTL DEF DiagnosticsExact

-----------------------------------------------------------------------------
(***************************************************************************)
(* The promise.                                                            *)
(***************************************************************************)
\* What depends on a child of a module is a child of it.
LEMMA DependersAreChildren ==
  ASSUME SearchInv, NEW p \in Seq(Nat), NEW a \in Nat, NEW b, Promise!DependsOn(p, a, b)
  PROVE  a \in Promise!ChildNames(p)
<1>1. PICK k \in DOMAIN hir.nodes : IsPrefix(Append(p, a), hir.nodes[k].owner)
  BY DEF Promise!DependsOn, Promise!Witnesses, Promise!InSubtree, Promise!IsPrefix, IsPrefix, hir
<1> DEFINE m == hir.nodes[k].owner
           q == Append(p, a)
<1>2. m \in Modules
  <2>1. hir.nodes \in Seq(Nodes)
    BY CratesAssumption DEF CratesAssumption, hir, SearchInv, WalkTypes
  <2>2. hir.nodes[k] \in Nodes
    BY <2>1, LenProperties, ElementOfSeq
  <2>3. QED
    BY <2>2 DEF Nodes
<1>3. q \in Seq(Nat) /\ Len(q) = Len(p) + 1 /\ q[Len(p) + 1] = a /\ \A i \in 1..Len(p) : q[i] = p[i]
  BY Push
<1>4. Len(q) \in 0..Len(m) /\ SubSeq(q, 1, Len(q)) = SubSeq(m, 1, Len(q))
  BY <1>1, <1>2, <1>3, CratesAssumption DEF CratesAssumption, IsPrefix
<1>5. SubSeq(m, 1, Len(q)) \in Modules
  BY <1>2, <1>4, CratesAssumption DEF CratesAssumption
<1> HIDE DEF q
<1>6. SubSeq(q, 1, Len(q)) = q
  BY <1>3
<1>7. q # << >> /\ Last(q) = a /\ Front(q) = p
  <2>1. q # << >> /\ q[Len(q)] = a
    BY <1>3, EmptySeq
  <2>2. Front(q) \in Seq(Nat) /\ Len(Front(q)) = Len(p) /\ \A i \in 1..Len(p) : Front(q)[i] = p[i]
    <3>1. /\ Front(q) \in Seq(Nat) /\ Len(Front(q)) = Len(q) - 1
          /\ \A i \in 1..(Len(q) - 1) : Front(q)[i] = q[i]
      BY <1>3, <2>1, Pop
    <3>2. Len(q) - 1 = Len(p)
      BY <1>3
    <3>3. QED
      BY <1>3, <3>1, <3>2
  <2>3. Front(q) = p
    BY <2>2, SeqEqual
  <2>4. QED
    BY <2>1, <2>3 DEF Last
<1>8. QED
  BY <1>4, <1>5, <1>6, <1>7 DEF Promise!ChildNames, Promise!Last, Promise!Front, Last, Front

\* Where a child depends on another there is a graph.
LEMMA DependenceHasGraph ==
  ASSUME SearchInv, WalkInv, phase # "walk", NEW p \in Seq(Nat), NEW a \in Nat, NEW b \in Nat,
         Promise!DependsOn(p, a, b)
  PROVE  p \in DOMAIN graphs
<1>1. DOMAIN hir.nodes = 1..Len(hir.nodes)
  <2>1. hir.nodes \in Seq(Nodes)
    BY CratesAssumption DEF CratesAssumption, hir, SearchInv, WalkTypes
  <2>2. QED
    BY <2>1, LenProperties
<1>2. PICK k \in 1..Len(hir.nodes) : Promise!Witnesses(k, p, a, b)
  BY <1>1 DEF Promise!DependsOn, hir
<1>3. PICK e \in EdgesOf(k) :
        a # b /\ IsPrefix(Append(p, a), e.source) /\ IsPrefix(Append(p, b), e.target)
  BY <1>2, WitnessEdge
<1>4. e \in edges
  BY <1>3 DEF WalkInv
<1>5. e.source \in Seq(Nat) /\ e.target \in Seq(Nat)
  BY <1>4, CratesAssumption DEF CratesAssumption, SearchInv, WalkTypes
<1>6. Diverges(e) /\ Sibling(e).parent = p
  BY <1>3, <1>5, SiblingOf
<1>7. QED
  BY <1>4, <1>6 DEF WalkInv, build_sibling_graphs

\* The parents whose graph is cyclic are the modules whose children depend on
\* each other in a circle.
LEMMA CyclicIsCircle ==
  ASSUME SearchInv, WalkInv, phase # "walk"
  PROVE  {p \in DOMAIN graphs : Cyclic(Adjacency(graphs[p]))} = {p \in Modules : Promise!InACircle(p)}
<1>1. ASSUME NEW p \in DOMAIN graphs, Cyclic(Adjacency(graphs[p]))
      PROVE  p \in Modules /\ Promise!InACircle(p)
  <2> DEFINE g == graphs[p]
  <2>1. p \in Modules /\ p \in Seq(Nat)
    BY ParentsAreModules
  <2>2. PICK S \in SUBSET Children(g) : S # {} /\ \A n \in S : Adjacency(g)[n] \cap S # {}
    BY <1>1 DEF Cyclic, Knot, Adjacency
  <2>3. Children(g) \subseteq Nat
    BY DEF SearchInv, GraphNames
  <2>4. \A n \in S : \E m \in S : Promise!DependsOn(p, n, m)
    <3> TAKE n \in S
    <3>1. PICK m \in S : <<n, m>> \in Arcs(g)
      BY <2>2 DEF Adjacency
    <3>2. n \in Nat /\ m \in Nat
      BY <2>2, <2>3
    <3>3. QED
      BY <3>1, <3>2, ArcsAreDependencies
  <2>5. S \subseteq Promise!ChildNames(p)
    <3> SUFFICES ASSUME NEW n \in S PROVE n \in Promise!ChildNames(p)
      OBVIOUS
    <3>1. PICK m \in S : Promise!DependsOn(p, n, m)
      BY <2>4
    <3>2. n \in Nat
      BY <2>2, <2>3
    <3>3. QED
      BY <2>1, <3>1, <3>2, DependersAreChildren
  <2>6. QED
    BY <2>1, <2>2, <2>4, <2>5 DEF Promise!InACircle
<1>2. ASSUME NEW p \in Modules, Promise!InACircle(p)
      PROVE  p \in DOMAIN graphs /\ Cyclic(Adjacency(graphs[p]))
  <2>1. PICK S \in SUBSET Promise!ChildNames(p) :
          S # {} /\ \A a \in S : \E b \in S : Promise!DependsOn(p, a, b)
    BY <1>2 DEF Promise!InACircle
  <2>2. p \in Seq(Nat)
    BY CratesAssumption DEF CratesAssumption
  <2>3. S \subseteq Nat
    <3> SUFFICES ASSUME NEW q \in Modules, q # << >> PROVE Last(q) \in Nat
      BY <2>1 DEF Promise!ChildNames, Promise!Last, Last
    <3>1. q \in Seq(Nat)
      BY CratesAssumption DEF CratesAssumption
    <3>2. QED
      BY <3>1, Pop
  <2>4. p \in DOMAIN graphs
    <3>1. PICK a \in S, b \in S : Promise!DependsOn(p, a, b)
      BY <2>1
    <3>2. QED
      BY <2>2, <2>3, <3>1, DependenceHasGraph
  <2> DEFINE g == graphs[p]
  <2>5. \A a, b \in S : Promise!DependsOn(p, a, b) => <<a, b>> \in Arcs(g)
    BY <2>3, <2>4, ArcsAreDependencies
  <2>6. S \subseteq Children(g)
    <3> SUFFICES ASSUME NEW a \in S PROVE a \in Children(g)
      OBVIOUS
    <3>1. PICK b \in S : <<a, b>> \in Arcs(g)
      BY <2>1, <2>5
    <3>2. QED
      BY <3>1 DEF Children
  <2>7. \A a \in S : Adjacency(g)[a] \cap S # {}
    <3> TAKE a \in S
    <3>1. PICK b \in S : <<a, b>> \in Arcs(g)
      BY <2>1, <2>5
    <3>2. b \in Adjacency(g)[a]
      BY <2>6, <3>1 DEF Adjacency
    <3>3. QED
      BY <3>2
  <2>8. QED
    BY <2>1, <2>4, <2>6, <2>7 DEF Cyclic, Knot, Adjacency
<1>3. QED
  BY <1>1, <1>2

\* The lint implements its promise: it decides once, when it is done, and what
\* it has reported by then are the modules whose children depend on each other
\* in a circle, whatever graphs, edges and searches it took to find out.  (That
\* it does decide is for the model checker.)
THEOREM ImplementsPromise == Spec => Promise!Safety
<1>1. Init => Promise!Init
  BY DEF Init, Promise!Init
<1> DEFINE Inv == VerdictInv /\ OrderInv /\ WalkInv
<1>2. Inv /\ [Next]_vars => [Promise!Decide]_(Promise!vars)
  <2> SUFFICES ASSUME Inv, [Next]_vars PROVE [Promise!Decide]_(Promise!vars)
    OBVIOUS
  <2>1. CASE Finish
    <3>1. /\ phase = "emit" /\ phase' = "done" /\ found = {} /\ parents = {}
          /\ UNCHANGED <<crate, graphs, reported>>
      BY <2>1 DEF Finish, walkVars
    <3>2. ReportedParents' = IF << >> \in Crate(crate).optOut THEN {}
                             ELSE {p \in Modules : Promise!InACircle(p)}
      <4>1. ReportedParents' = ReportedParents
        BY <3>1 DEF ReportedParents
      <4>2. CASE << >> \in Crate(crate).optOut
        <5>1. reported = << >>
          BY <4>2 DEF OrderInv, OptedOut, hir
        <5>2. ReportedParents = {}
          BY <5>1 DEF ReportedParents
        <5>3. QED
          BY <4>1, <4>2, <5>2
      <4>3. CASE << >> \notin Crate(crate).optOut
        <5>1. /\ ReportedParents \subseteq Searched /\ Searched = DOMAIN graphs
              /\ \A p \in Searched : Cyclic(Adjacency(graphs[p])) <=> p \in ReportedParents
          BY <3>1, <4>3 DEF VerdictInv, Verdicts, Searched, hir
        <5>2. ReportedParents = {p \in DOMAIN graphs : Cyclic(Adjacency(graphs[p]))}
          BY <5>1
        <5>3. QED
          BY <3>1, <4>1, <4>3, <5>2, CyclicIsCircle DEF VerdictInv, CycleInv
      <4>4. QED
        BY <4>2, <4>3
    <3>3. QED
      BY <3>1, <3>2 DEF Promise!Decide, Promise!vars
  <2>2. CASE UNCHANGED <<crate, phase, reported>>
    BY <2>2 DEF Promise!vars, ReportedParents
  <2>3. CASE UNCHANGED crate /\ phase # "done" /\ phase' # "done"
    BY <2>3 DEF Promise!vars
  <2>4. UNCHANGED <<crate, phase, reported>> \/ (UNCHANGED crate /\ phase # "done" /\ phase' # "done") \/ Finish
    BY DEF Next, check_expr, check_ty, check_item, Visit, check_crate_post, NextParent, StartRoot, dfs,
           Descend, CloseCycle, SkipFinished, LooksAt, Retreat, FinishDetection, EmitCycle, vars, walkVars
  <2>5. QED
    BY <2>1, <2>2, <2>3, <2>4
<1>3. QED
  BY <1>1, <1>2, VerdictInvHolds, OrderInvHolds, WalkInvHolds, PTL DEF Spec, Promise!Safety

=============================================================================
