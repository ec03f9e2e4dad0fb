--------------------------- MODULE AcyclicModules ---------------------------
(***************************************************************************)
(* The acyclic_modules lint (src/src/lints/acyclic_modules.rs).            *)
(*                                                                         *)
(* While the compiler walks the crate, the lint records an edge for every  *)
(* reference from one module to another.  After the walk it groups the     *)
(* edges into one graph per parent module, whose nodes are the parent's    *)
(* children, and searches each graph depth first with three colours: a     *)
(* child that is met while it is gray closes a cycle, which is cut out of  *)
(* the current path.  The cycles of one graph are rotated to start at      *)
(* their smallest name, sorted and reported with the references that       *)
(* witness their edges.                                                    *)
(*                                                                         *)
(* The recursion of dfs is unfolded: path is its call stack, rest[n] is    *)
(* what the loop of the call for n has left to look at.                    *)
(***************************************************************************)
EXTENDS HirRefs, FiniteSets

CONSTANTS
  Modules,  \* the paths of the modules of a crate, the root << >> among them
  CrateIds, \* the crates to check
  Crate(_)  \* what each of them is: see CratesAssumption

Definitions == [local: BOOLEAN, path: Seq(Nat)]

Nodes == [kind: {"expr", "ty", "use"}, owner: Modules, res: Seq(Definitions),
          expansion: BOOLEAN, test: BOOLEAN]

\* A crate is the nodes of its HIR in the order the compiler visits them,
\* whether it is compiled with --test, and the modules that carry an
\* #[expect(acyclic_modules)] or #[allow(acyclic_modules)].  What contains a
\* module is a module, and only an import names more than one definition.
CratesAssumption ==
  /\ << >> \in Modules /\ Modules \subseteq Seq(Nat)
  /\ \A m \in Modules : \A n \in 0..Len(m) : SubSeq(m, 1, n) \in Modules
  /\ \A c \in CrateIds :
       /\ Crate(c).nodes \in Seq(Nodes)
       /\ \A k \in DOMAIN Crate(c).nodes :
            Crate(c).nodes[k].kind = "use" \/ Len(Crate(c).nodes[k].res) <= 1
       /\ Crate(c).testCrate \in BOOLEAN
       /\ Crate(c).optOut \subseteq Modules
ASSUME CratesAssumption

VARIABLES
  crate,     \* the crate being checked, one of CrateIds
  visited,   \* how many of its nodes the compiler has visited
  edges,     \* the recorded edges, in the order of their spans
  phase,     \* "walk", then "emit" and "dfs" in turn, then "done"
  graphs,    \* the sibling edges of each parent module, once the walk is over
  parents,   \* the parent modules whose graph is still to be searched
  parent,    \* the parent module whose graph is being searched
  adj,       \* the neighbours of each child in that graph
  color,     \* the colour of each child; "white" is the map's missing key
  path,      \* the children on the current DFS path
  rest,      \* the neighbours the call of dfs for a child has yet to look at
  cycles,    \* the cycles found in this graph, in the order they were found
  found,     \* the cycles still to be reported for this graph, normalized
  reported   \* the diagnostics emitted so far

walkVars == <<crate, visited, edges>>
searchVars == <<parent, adj, color, path, rest, cycles>>
vars == <<walkVars, phase, graphs, parents, searchVars, found, reported>>

hir == Crate(crate)

-----------------------------------------------------------------------------
(***************************************************************************)
(* Recording references.                                                   *)
(***************************************************************************)
\* Sensitivity: the span of the node before.
record_edge_SpanBefore(node, def, span) ==
  {[source |-> node.owner, target |-> t, span |-> span - 1] :
     t \in {item_module_def_id(Modules, def)} \ {node.owner}}

\* record_edge for one reference, as a set of at most one edge.  The span of a
\* reference is the position of its node.
record_edge(node, def, span) ==
  LET target == item_module_def_id(Modules, def)
  IN  IF should_skip_ref(hir.testCrate, node, def) \/ node.owner = target
      THEN {}
      ELSE {[source |-> node.owner, target |-> target, span |-> span]}

-----------------------------------------------------------------------------
(***************************************************************************)
(* The sibling graphs.                                                     *)
(***************************************************************************)
\* Sensitivity: only the top-level names are compared.
CommonLen_TopOnly(s, t) == 0

\* How many leading names two paths share.
CommonLen(s, t) ==
  CHOOSE k \in 0..Len(s) :
    /\ k <= Len(t) /\ SubSeq(s, 1, k) = SubSeq(t, 1, k)
    /\ k < Len(s) /\ k < Len(t) => s[k+1] # t[k+1]

\* Neither path is a prefix of the other, so the edge is between siblings.
Diverges(e) ==
  LET k == CommonLen(e.source, e.target)
  IN  k < Len(e.source) /\ k < Len(e.target)

\* Where one edge goes: the parent, the two children, and its span.
Sibling(e) ==
  LET k == CommonLen(e.source, e.target)
  IN  [parent |-> SubSeq(e.source, 1, k),
       arc |-> <<e.source[k+1], e.target[k+1]>>, span |-> e.span]

\* build_sibling_graphs: the sibling edges of each parent.
build_sibling_graphs ==
  LET siblings == {Sibling(e) : e \in {f \in edges : Diverges(f)}}
  IN  [p \in {s.parent : s \in siblings} |-> {s \in siblings : s.parent = p}]

\* The arcs and the children of one graph.
Arcs(graph) == {s.arc : s \in graph}

Children(graph) == UNION {{a[1], a[2]} : a \in Arcs(graph)}

\* The adjacency detect_cycles builds, every arc once.
Adjacency(graph) ==
  [n \in Children(graph) |-> {m \in Children(graph) : <<n, m>> \in Arcs(graph)}]

\* The spans that witness an arc.
SpansOf(graph, arc) == {s.span : s \in {t \in graph : t.arc = arc}}

\* Sensitivity: the last witness wins.
FirstSpan_LastWins(graph, arc) ==
  IF SpansOf(graph, arc) = {} THEN 0
  ELSE CHOOSE i \in SpansOf(graph, arc) : \A j \in SpansOf(graph, arc) : i >= j

\* The first span that witnesses an arc; 0 when no edge does.
FirstSpan(graph, arc) ==
  IF SpansOf(graph, arc) = {} THEN 0
  ELSE CHOOSE i \in SpansOf(graph, arc) : \A j \in SpansOf(graph, arc) : i <= j

-----------------------------------------------------------------------------
(***************************************************************************)
(* Cycles.                                                                 *)
(***************************************************************************)
\* The child after position i of a cycle, which is its first after its last.
Succ(c, i) == IF i = Len(c) THEN c[1] ELSE c[i + 1]

\* normalize_cycle: rotate a cycle to start at its smallest name.
normalize_cycle(c) ==
  LET min == CHOOSE i \in DOMAIN c :
               /\ \A j \in DOMAIN c : c[i] <= c[j]
               /\ \A j \in 1..(i-1) : c[i] # c[j]
  IN  SubSeq(c, min, Len(c)) \o SubSeq(c, 1, min - 1)

\* The part of a DFS path that starts at child n.
PathFrom(n) ==
  SubSeq(path, CHOOSE i \in DOMAIN path : path[i] = n, Len(path))

\* emit_cycle_diagnostic: the cycle and the span that witnesses each arc.
Diagnostic(p, c) ==
  [parent |-> p, cycle |-> c,
   labels |-> [i \in DOMAIN c |-> FirstSpan(graphs[p], <<c[i], Succ(c, i)>>)]]

\* A lint that is emitted after the walk has the level of the crate root: an
\* #[expect] or #[allow] on any module below it is not looked at.
OptedOut == << >> \in hir.optOut

-----------------------------------------------------------------------------
(***************************************************************************)
(* The actions.                                                            *)
(***************************************************************************)
Init ==
  /\ crate \in CrateIds
  /\ visited = 0
  /\ edges = {}
  /\ phase = "walk"
  /\ graphs = << >>
  /\ parents = {}
  /\ parent = << >>
  /\ adj = << >>
  /\ color = << >>
  /\ path = << >>
  /\ rest = << >>
  /\ cycles = << >>
  /\ found = {}
  /\ reported = << >>

\* The compiler visits the next node, if it is of the kind one callback sees.
Visit(kind, Resolve(_)) ==
  /\ phase = "walk" /\ visited < Len(hir.nodes)
  /\ LET node == hir.nodes[visited + 1]
     IN  /\ node.kind = kind
         /\ edges' = edges \cup
                UNION {record_edge(node, def, visited + 1) :
                         def \in Range(Resolve(node))}
  /\ visited' = visited + 1
  /\ UNCHANGED <<crate, phase, graphs, parents, searchVars, found, reported>>

check_expr == Visit("expr", resolve_def_id)
check_ty   == Visit("ty", resolve_def_id)
check_item == Visit("use", for_each_use_def_id)

\* check_crate_post begins: the walk is over, the graphs are built.
check_crate_post ==
  /\ phase = "walk" /\ visited = Len(hir.nodes)
  /\ graphs' = build_sibling_graphs
  /\ parents' = DOMAIN graphs'
  /\ phase' = "emit"
  /\ UNCHANGED <<walkVars, searchVars, found, reported>>

\* detect_cycles begins for the next parent, in the order of paths.
NextParent ==
  /\ phase = "emit" /\ found = {}
  /\ \E p \in parents :
       /\ \A q \in parents : LexLeq(p, q)
       /\ parents' = parents \ {p}
       /\ parent' = p
       /\ adj' = Adjacency(graphs[p])
  /\ color' = [n \in DOMAIN adj' |-> "white"]
  /\ rest' = [n \in DOMAIN adj' |-> {}]
  /\ path' = << >>
  /\ cycles' = << >>
  /\ phase' = "dfs"
  /\ UNCHANGED <<walkVars, graphs, found, reported>>

\* dfs is called for child n, with r what its callers have left to look at.
Enter(n, r) ==
  /\ color[n] = "white"
  /\ color' = [color EXCEPT ![n] = "gray"]
  /\ path' = Append(path, n)
  /\ rest' = [r EXCEPT ![n] = adj[n]]
  /\ UNCHANGED cycles

\* The loop over the sorted nodes calls dfs for the first unvisited one.
StartRoot ==
  /\ phase = "dfs" /\ path = << >>
  /\ \E n \in DOMAIN color :
       /\ \A m \in DOMAIN color : color[m] = "white" => n <= m
       /\ Enter(n, rest)
  /\ UNCHANGED <<walkVars, phase, graphs, parents, parent, adj, found, reported>>

\* The call at the end of the path looks at its next neighbour n.
LooksAt(n) ==
  /\ phase = "dfs" /\ path # << >>
  /\ n \in rest[Last(path)]
  /\ \A m \in rest[Last(path)] : n <= m
  /\ UNCHANGED <<walkVars, phase, graphs, parents, parent, adj, found, reported>>

Passed(n) == [rest EXCEPT ![Last(path)] = @ \ {n}]

\* An unvisited neighbour: recurse.
Descend(n) == LooksAt(n) /\ Enter(n, Passed(n))

\* A gray neighbour: a back edge, which closes a cycle.
CloseCycle(n) ==
  /\ LooksAt(n)
  /\ color[n] = "gray"
  /\ cycles' = Append(cycles, PathFrom(n))
  /\ rest' = Passed(n)
  /\ UNCHANGED <<color, path>>

\* A black neighbour: nothing to do.
SkipFinished(n) ==
  /\ LooksAt(n)
  /\ color[n] = "black"
  /\ rest' = Passed(n)
  /\ UNCHANGED <<color, path, cycles>>

\* Sensitivity: a finished child stays gray, or becomes unvisited again.
Retreat_StaysGray ==
  /\ phase = "dfs" /\ path # << >> /\ rest[Last(path)] = {}
  /\ path' = Front(path)
  /\ UNCHANGED <<walkVars, phase, graphs, parents, parent, adj, color, rest, cycles,
                 found, reported>>

\* The call at the end of the path returns.
Retreat ==
  /\ phase = "dfs" /\ path # << >> /\ rest[Last(path)] = {}
  /\ color' = [color EXCEPT ![Last(path)] = "black"]
  /\ path' = Front(path)
  /\ UNCHANGED <<walkVars, phase, graphs, parents, parent, adj, rest, cycles,
                 found, reported>>

\* Sensitivity: the search stops after its first root, or its first cycle.
FinishDetection_FirstRoot ==
  /\ phase = "dfs" /\ path = << >>
  /\ \E n \in DOMAIN color : color[n] # "white"
  /\ found' = {normalize_cycle(cycles[i]) : i \in DOMAIN cycles}
  /\ phase' = "emit"
  /\ UNCHANGED <<walkVars, graphs, parents, searchVars, reported>>

FinishDetection_FirstCycle ==
  /\ phase = "dfs" /\ path = << >>
  /\ cycles # << >> \/ \A n \in DOMAIN color : color[n] # "white"
  /\ found' = {normalize_cycle(cycles[i]) : i \in DOMAIN cycles}
  /\ phase' = "emit"
  /\ UNCHANGED <<walkVars, graphs, parents, searchVars, reported>>

\* detect_cycles returns: the cycles are normalized and sorted, duplicates go.
FinishDetection ==
  /\ phase = "dfs" /\ path = << >>
  /\ \A n \in DOMAIN color : color[n] # "white"
  /\ found' = {normalize_cycle(cycles[i]) : i \in DOMAIN cycles}
  /\ phase' = "emit"
  /\ UNCHANGED <<walkVars, graphs, parents, searchVars, reported>>

\* The next cycle of this graph, in their order, is reported.
EmitCycle ==
  /\ phase = "emit"
  /\ \E c \in found :
       /\ \A d \in found : LexLeq(c, d)
       /\ found' = found \ {c}
       /\ reported' = IF OptedOut THEN reported
                      ELSE Append(reported, Diagnostic(parent, c))
  /\ UNCHANGED <<walkVars, phase, graphs, parents, searchVars>>

Finish ==
  /\ phase = "emit" /\ found = {} /\ parents = {}
  /\ phase' = "done"
  /\ UNCHANGED <<walkVars, graphs, parents, searchVars, found, reported>>

dfs == \E n \in DOMAIN color : Descend(n) \/ CloseCycle(n) \/ SkipFinished(n)

Next ==
  \/ check_expr \/ check_ty \/ check_item \/ check_crate_post
  \/ NextParent \/ StartRoot \/ dfs \/ Retreat
  \/ FinishDetection \/ EmitCycle \/ Finish

\* The lint runs on the compiler's thread: a callback that has begun goes on.
Spec == Init /\ [][Next]_vars /\ WF_vars(Next)

-----------------------------------------------------------------------------
(***************************************************************************)
(* Properties.                                                             *)
(***************************************************************************)
\* The variables have their types, whatever crate is checked.
WalkTypes ==
  /\ crate \in CrateIds
  /\ visited \in 0..Len(hir.nodes)
  /\ edges \subseteq [source: Modules, target: Modules, span: 1..visited]

SearchTypes ==
  /\ phase \in {"walk", "dfs", "emit", "done"}
  /\ parents \subseteq DOMAIN graphs
  /\ adj \in [DOMAIN adj -> SUBSET DOMAIN adj]
  /\ color \in [DOMAIN adj -> {"white", "gray", "black"}]
  /\ path \in Seq(DOMAIN adj)
  /\ rest \in [DOMAIN adj -> SUBSET DOMAIN adj]
  /\ cycles \in Seq(Seq(DOMAIN adj))

ReportTypes ==
  /\ \A c \in found : c \in Seq(DOMAIN adj)
  /\ reported \in Seq(Range(reported))
  /\ \A i \in DOMAIN reported :
       /\ reported[i].parent \in DOMAIN graphs
       /\ reported[i].cycle \in Seq(Children(graphs[reported[i].parent]))

TypeOK == WalkTypes /\ SearchTypes /\ ReportTypes

\* "Gray node is guaranteed to be on the current DFS path": the unwrap of
\* position() in dfs never fails.  The gray children are those on the path,
\* each once, and each depends on the next.
GrayIsOnPath ==
  /\ \A n \in DOMAIN color : color[n] = "gray" <=> n \in Range(path)
  /\ \A i, j \in DOMAIN path : path[i] = path[j] => i = j
  /\ \A i \in 1..(Len(path) - 1) : path[i+1] \in adj[path[i]]

\* A cycle of a graph, given by its adjacency: distinct children, each
\* depending on the next and the last on the first.
IsCycle(a, c) ==
  /\ c # << >>
  /\ \A i, j \in DOMAIN c : c[i] = c[j] => i = j
  /\ \A i \in DOMAIN c : Succ(c, i) \in a[c[i]]

\* What is found and what is reported are cycles of the graph they are found
\* in: the lint, which denies by default, never rejects a crate for a path that
\* does not close.
OnlyCycles ==
  /\ \A i \in DOMAIN cycles : IsCycle(adj, cycles[i])
  /\ \A c \in found : IsCycle(adj, c)
  /\ \A i \in DOMAIN reported :
       IsCycle(Adjacency(graphs[reported[i].parent]), reported[i].cycle)

\* Children among which every one depends on another of them: some of them
\* form a cycle, and the children of a cycle are such a set.
Knot(a, S) == S # {} /\ \A n \in S : a[n] \cap S # {}

Cyclic(a) == \E S \in SUBSET DOMAIN a : Knot(a, S)

ReportedParents == {reported[i].parent : i \in DOMAIN reported}

\* Searching each graph once, from every child not yet visited, is enough: when
\* the lint is done the parents with a diagnostic are those whose graph is
\* cyclic.
ReportedIffCyclic ==
  phase = "done" /\ << >> \notin hir.optOut =>
    ReportedParents = {p \in DOMAIN graphs : Cyclic(Adjacency(graphs[p]))}

\* Child n comes after child m along the dependencies of a graph.
Reaches(a, m, n) ==
  \A S \in SUBSET DOMAIN a : m \in S /\ (\A k \in S : a[k] \subseteq S) => n \in S

\* Every group of mutually dependent siblings has a diagnostic for one of its
\* cycles: a user who breaks the reported cycles and runs the lint again sees
\* each tangle shrink, and none is hidden by another.
EveryTangleReported ==
  phase = "done" /\ << >> \notin hir.optOut =>
    \A p \in DOMAIN graphs :
      LET a == Adjacency(graphs[p])
      IN  \A m, n \in DOMAIN a :
            m # n /\ Reaches(a, m, n) /\ Reaches(a, n, m) =>
              \E i \in DOMAIN reported :
                /\ reported[i].parent = p
                /\ \A k \in Range(reported[i].cycle) : Reaches(a, m, k) /\ Reaches(a, k, m)

\* The lint implements the promise: it decides when it is done, and flags the
\* parents it has reported a cycle of.
Promise == INSTANCE CyclePromise WITH
  status <- IF phase = "done" THEN "decided" ELSE "pending",
  flagged <- IF phase = "done" THEN ReportedParents ELSE {}

KeepsPromise == Promise!Spec

\* Every arc of a reported cycle is labelled, and by the first reference of the
\* crate that witnesses it, at whatever depth the reference was made: the user
\* is shown where each dependency of the cycle comes from.
LabelsAreFirstWitnesses ==
  \A i \in DOMAIN reported :
    LET r == reported[i]
    IN  \A j \in DOMAIN r.cycle :
          LET W(k) == Promise!Witnesses(k, r.parent, r.cycle[j], Succ(r.cycle, j))
          IN  /\ r.labels[j] \in 1..visited
              /\ W(r.labels[j])
              /\ \A k \in 1..(r.labels[j] - 1) : ~ W(k)

\* The diagnostics come in one order that does not depend on the order of the
\* references or of the hash maps: parents in order, the cycles of a parent in
\* order, none twice, each starting with its smallest name.
DiagnosticsOrdered ==
  /\ \A i, j \in DOMAIN reported : i < j =>
       /\ LexLeq(reported[i].parent, reported[j].parent)
       /\ reported[i].parent = reported[j].parent =>
            /\ LexLeq(reported[i].cycle, reported[j].cycle)
            /\ reported[i].cycle # reported[j].cycle
  /\ \A i \in DOMAIN reported : \A j \in DOMAIN reported[i].cycle :
       reported[i].cycle[1] <= reported[i].cycle[j]

\* What the user is shown at the end: cycles and nothing else, every arc with the
\* first place in the crate it comes from, in one order.
DiagnosticsExact == OnlyCycles /\ LabelsAreFirstWitnesses /\ DiagnosticsOrdered
=============================================================================
