------------------------ MODULE TopologicalOrdering ------------------------
(***************************************************************************)
(* The topological_ordering lint (src/src/lints/topological_ordering.rs).  *)
(*                                                                         *)
(* While the compiler walks the crate, the lint collects the items of each *)
(* module and the references between definitions.  After the walk it       *)
(* resolves the references to items of one module, gives the references of *)
(* an impl block to the type it implements, finds the strongly connected   *)
(* components with Tarjan's algorithm, and reports the items that come     *)
(* before what they reference, components apart, and the impl blocks that  *)
(* are separated from their type.                                          *)
(*                                                                         *)
(* The recursion of strongconnect is unfolded: calls is its call stack,    *)
(* rest[v] is what the loop of the call for v has left to look at.         *)
(***************************************************************************)
EXTENDS Naturals, Sequences, FiniteSets, SequencesExt

CONSTANTS
  CrateIds, \* the crates to check
  Crate(_), \* what each of them is, see below
  None      \* no definition

(***************************************************************************)
(* A crate is a record                                                     *)
(*   [chain   |-> each definition followed by the definitions it is in,    *)
(*    mods    |-> the definitions that are modules,                        *)
(*    allowed |-> the definitions with #[allow(topological_ordering)],     *)
(*    walk    |-> the items and references in the order they are visited]. *)
(* An item is its definition, the local definition its self type resolves  *)
(* to when it is an impl block, whether it is of a kind the lint looks at, *)
(* outside macros and tests.  A reference is the definition that owns it,  *)
(* the local definition it resolves to, and whether it is outside macros.  *)
(* The compiler visits every item once, and what an impl block implements  *)
(* is no impl block itself.                                                *)
(***************************************************************************)
CratesAssumption ==
  \A c \in CrateIds :
    LET defs == DOMAIN Crate(c).chain
        walk == Crate(c).walk
    IN  /\ None \notin defs
        /\ Crate(c).chain \in [defs -> Seq(defs)]
        /\ Crate(c).mods \subseteq defs /\ Crate(c).allowed \subseteq defs
        /\ walk \in Seq(Range(walk))
        /\ \A k \in DOMAIN walk :
             \/ /\ walk[k].event = "item"
                /\ walk[k].def \in defs /\ walk[k].impl_self_ty \in defs \cup {None}
             \/ /\ walk[k].event = "ref"
                /\ walk[k].owner \in defs /\ walk[k].target \in defs \cup {None}
        /\ \A k, l \in DOMAIN walk :
             walk[k].event = "item" /\ walk[l].event = "item" =>
               /\ walk[k].def = walk[l].def => k = l
               /\ walk[k].impl_self_ty = walk[l].def => walk[l].impl_self_ty = None
ASSUME CratesAssumption

VARIABLES
  hir,       \* the crate being checked
  visited,   \* how much of its walk is over
  modules,   \* the items collected for each module, in their order
  raw_refs,  \* the references collected; the span of one is its place in the walk
  phase,     \* "walk", then "next" and "scc" for each module in turn, then "done"
  todo,      \* the modules still to be checked
  module,    \* the module being checked
  refs,      \* the references between its items, remapped
  adj,       \* what each of its items references
  index,     \* when strongconnect was called for each item of it; 0 is never
  lowlink,   \* the least index it is known to reach on the stack
  stack,     \* the items whose component is open
  calls,     \* the items whose call of strongconnect is open
  rest,      \* the items each of these calls has yet to look at
  sccs,      \* the components found, in their order
  reported   \* the diagnostics that no attribute has silenced

walkVars == <<hir, visited, modules, raw_refs>>
sccVars == <<refs, adj, index, lowlink, stack, calls, rest, sccs>>
vars == <<walkVars, phase, todo, module, sccVars, reported>>

\* An attribute on a definition or on something it is in allows the lint there.
Allows(def) == Range(hir.chain[def]) \cap hir.allowed # {}

\* check_crate: the lint is off when the crate allows it.
enabled == \A d \in hir.allowed : Len(hir.chain[d]) > 1

-----------------------------------------------------------------------------
(***************************************************************************)
(* From references of definitions to references of items.  The items of a  *)
(* module are a sequence of [def, impl_self_ty], and a reference between   *)
(* them is [from, to, span], with their places in it.                      *)
(***************************************************************************)
LeastOf(S) == CHOOSE i \in S : \A j \in S : i <= j

\* The places of a definition among the items: one, or none.
PlacesOf(items, def) == {i \in DOMAIN items : items[i].def = def}

\* find_module_item: the places, in a module, of the nearest definition at or
\* around one that is an item of some module.
find_module_item(m, def) ==
  LET chain == hir.chain[def]
      IsItem(d) == \E k \in DOMAIN modules : PlacesOf(modules[k], d) # {}
      near == {i \in DOMAIN chain : IsItem(chain[i])}
  IN  IF near = {} THEN {} ELSE PlacesOf(modules[m], chain[LeastOf(near)])

\* The references between different items of one module.
module_refs(m) ==
  UNION {{[from |-> i, to |-> j, span |-> r.span] :
            i \in find_module_item(m, r.owner), j \in find_module_item(m, r.target)} :
           r \in raw_refs}

\* Sensitivity: an impl block keeps its references.
remap_impl_refs_Not(items, rs) == {r \in rs : r.from # r.to}

\* remap_impl_refs: an impl block stands for its self type when that is an item
\* too; then what refers to itself is dropped.
remap_impl_refs(items, rs) ==
  LET Remap(i) == LET t == PlacesOf(items, items[i].impl_self_ty)
                  IN  IF t = {} THEN i ELSE LeastOf(t)
  IN  {r \in {[from |-> Remap(s.from), to |-> Remap(s.to), span |-> s.span] : s \in rs} :
         r.from # r.to}

\* build_adj_list: what each item references, every item once.
build_adj_list(items, rs) ==
  [v \in DOMAIN items |-> {w \in DOMAIN items : \E r \in rs : r.from = v /\ r.to = w}]

-----------------------------------------------------------------------------
(***************************************************************************)
(* What is wrong with the order of the items of a module, given which of   *)
(* them are in one component.                                              *)
(***************************************************************************)
\* Sensitivity: an item is reported for what comes before it.
find_ordering_violations_Swapped(rs, scc) ==
  {r \in rs : scc[r.from] # scc[r.to] /\ r.from > r.to}

\* find_ordering_violations: the references to an item that comes later, where
\* scc maps every item to its component.
find_ordering_violations(rs, scc) ==
  {r \in rs : scc[r.from] # scc[r.to] /\ r.from < r.to}

\* check_impl_grouping: the impl blocks with an unrelated item between them and
\* their self type.
check_impl_grouping(items) ==
  {i \in DOMAIN items :
     \E t \in PlacesOf(items, items[i].impl_self_ty) :
       \E k \in DOMAIN items :
         /\ (t < k /\ k < i) \/ (i < k /\ k < t)
         /\ items[k].def # items[t].def
         /\ items[k].impl_self_ty # items[t].def}

\* The component of every item.
item_to_scc == [v \in DOMAIN index |-> CHOOSE k \in DOMAIN sccs : v \in sccs[k]]

\* The diagnostics of a module: one for its order, with the level of the item
\* whose reference comes first in the code, and one for each impl block.
emit_module_diagnostic(items, ordering, grouping) ==
  LET first == CHOOSE r \in ordering : \A q \in ordering : r.span <= q.span
  IN  (IF ordering = {} \/ Allows(items[first.from].def) THEN {}
       ELSE {[kind |-> "order", def |-> items[r.from].def] : r \in ordering})
      \cup {[kind |-> "group", def |-> items[i].def] :
              i \in {g \in grouping : ~ Allows(items[g].def)}}

-----------------------------------------------------------------------------
Init ==
  /\ \E c \in CrateIds : hir = Crate(c)
  /\ visited = 0
  /\ modules = << >>
  /\ raw_refs = {}
  /\ phase = "walk"
  /\ todo = {}
  /\ module = None
  /\ refs = {}
  /\ adj = << >>
  /\ index = << >>
  /\ lowlink = << >>
  /\ stack = << >>
  /\ calls = << >>
  /\ rest = << >>
  /\ sccs = << >>
  /\ reported = {}

\* The compiler visits the next thing of the walk.
Visit(event) ==
  /\ phase = "walk" /\ visited < Len(hir.walk)
  /\ hir.walk[visited + 1].event = event
  /\ visited' = visited + 1
  /\ UNCHANGED <<hir, phase, todo, module, sccVars, reported>>

\* check_item: an item directly in a module is collected.
check_item ==
  /\ Visit("item")
  /\ LET item == hir.walk[visited + 1]
         parent == hir.chain[item.def][2]
     IN  modules' =
           IF enabled /\ item.counts /\ parent \in hir.mods
           THEN [m \in DOMAIN modules \cup {parent} |->
                   LET before == IF m \in DOMAIN modules THEN modules[m] ELSE << >>
                   IN  IF m = parent
                       THEN Append(before, [def |-> item.def,
                                            impl_self_ty |-> item.impl_self_ty])
                       ELSE before]
           ELSE modules
  /\ UNCHANGED raw_refs

\* check_expr and check_ty: a reference to a local definition is collected.
record_ref ==
  /\ Visit("ref")
  /\ LET r == hir.walk[visited + 1]
     IN  raw_refs' = IF enabled /\ r.counts /\ r.target # None
                     THEN raw_refs \cup {[owner |-> r.owner, target |-> r.target,
                                          span |-> visited + 1]}
                     ELSE raw_refs
  /\ UNCHANGED modules

\* check_crate_post begins.
check_crate_post ==
  /\ phase = "walk" /\ visited = Len(hir.walk)
  /\ todo' = {m \in DOMAIN modules : Len(modules[m]) > 1}
  /\ phase' = "next"
  /\ UNCHANGED <<walkVars, module, sccVars, reported>>

\* compute_sccs begins for one of the modules, in the order of the hash map.
StartModule(m) ==
  /\ phase = "next"
  /\ todo' = todo \ {m}
  /\ module' = m
  /\ refs' = remap_impl_refs(modules[m], module_refs(m))
  /\ adj' = build_adj_list(modules[m], refs')
  /\ index' = [v \in DOMAIN modules[m] |-> 0]
  /\ lowlink' = [v \in DOMAIN modules[m] |-> 0]
  /\ rest' = [v \in DOMAIN modules[m] |-> {}]
  /\ stack' = << >> /\ calls' = << >> /\ sccs' = << >>
  /\ phase' = "scc"
  /\ UNCHANGED <<walkVars, reported>>

\* strongconnect is called for item v, with r what its callers have left.
Call(v, r) ==
  /\ index[v] = 0
  /\ LET counter == Cardinality({w \in DOMAIN index : index[w] # 0}) + 1
     IN  /\ index' = [index EXCEPT ![v] = counter]
         /\ lowlink' = [lowlink EXCEPT ![v] = counter]
  /\ stack' = Append(stack, v)
  /\ calls' = Append(calls, v)
  /\ rest' = [r EXCEPT ![v] = adj[v]]
  /\ UNCHANGED sccs

InScc == phase = "scc" /\ UNCHANGED <<walkVars, phase, todo, module, refs, adj, reported>>

\* The loop of compute_sccs calls it for the first item without an index.
CallRoot(v) ==
  /\ InScc /\ calls = << >>
  /\ \A w \in DOMAIN index : index[w] = 0 => v <= w
  /\ Call(v, rest)

\* The innermost call looks at its next neighbour w.
LooksAt(w) ==
  /\ InScc /\ calls # << >>
  /\ w \in rest[Last(calls)]
  /\ \A u \in rest[Last(calls)] : w <= u

Looked(w) == [rest EXCEPT ![Last(calls)] = @ \ {w}]

\* A neighbour without an index: recurse.
Recurse(w) == LooksAt(w) /\ Call(w, Looked(w))

Lower(v, n) == [lowlink EXCEPT ![v] = IF n < @ THEN n ELSE @]

\* Sensitivity: whether the neighbour is on the stack is not asked.
MeetOpen_Any(w) ==
  /\ LooksAt(w)
  /\ index[w] # 0
  /\ lowlink' = Lower(Last(calls), index[w])
  /\ rest' = Looked(w)
  /\ UNCHANGED <<index, stack, calls, sccs>>

\* A neighbour whose component is open.  The flag on_stack of the code is that an
\* item is on the stack.
MeetOpen(w) ==
  /\ LooksAt(w)
  /\ index[w] # 0 /\ w \in Range(stack)
  /\ lowlink' = Lower(Last(calls), index[w])
  /\ rest' = Looked(w)
  /\ UNCHANGED <<index, stack, calls, sccs>>

\* Sensitivity: the loop does not go on.
MeetClosed_Stays(w) ==
  /\ LooksAt(w)
  /\ index[w] # 0 /\ w \notin Range(stack)
  /\ UNCHANGED sccVars

\* A neighbour whose component is found.
MeetClosed(w) ==
  /\ LooksAt(w)
  /\ index[w] # 0 /\ w \notin Range(stack)
  /\ rest' = Looked(w)
  /\ UNCHANGED <<index, lowlink, stack, calls, sccs>>

\* The innermost call returns, and its caller takes over its lowlink.
Return ==
  /\ calls # << >> /\ rest[Last(calls)] = {}
  /\ calls' = Front(calls)
  /\ lowlink' = IF Len(calls) = 1 THEN lowlink
                ELSE Lower(Last(Front(calls)), lowlink[Last(calls)])

\* ... after popping a component, when the call is for the first item of one.
CloseComponent ==
  /\ InScc /\ Return
  /\ LET v == Last(calls)
         at == CHOOSE i \in DOMAIN stack : stack[i] = v
     IN  /\ lowlink[v] = index[v]
         /\ sccs' = Append(sccs, {stack[i] : i \in at..Len(stack)})
         /\ stack' = SubSeq(stack, 1, at - 1)
  /\ UNCHANGED <<index, rest>>

LeaveOpen ==
  /\ InScc /\ Return
  /\ lowlink[Last(calls)] # index[Last(calls)]
  /\ UNCHANGED <<index, stack, rest, sccs>>

\* The components are known: the order of the module's items is judged.
ReportModule ==
  /\ phase = "scc" /\ calls = << >> /\ \A v \in DOMAIN index : index[v] # 0
  /\ reported' = reported \cup
       emit_module_diagnostic(modules[module],
                              find_ordering_violations(refs, item_to_scc),
                              check_impl_grouping(modules[module]))
  /\ phase' = "next"
  /\ UNCHANGED <<walkVars, todo, module, sccVars>>

Finish ==
  /\ phase = "next" /\ todo = {}
  /\ phase' = "done"
  /\ UNCHANGED <<walkVars, todo, module, sccVars, reported>>

strongconnect ==
  \/ \E w \in DOMAIN index : Recurse(w)
  \/ \E w \in DOMAIN index : MeetOpen(w)
  \/ \E w \in DOMAIN index : MeetClosed(w)
  \/ CloseComponent \/ LeaveOpen

Next ==
  \/ check_item \/ record_ref \/ check_crate_post
  \/ \E m \in todo : StartModule(m)
  \/ \E v \in DOMAIN index : CallRoot(v)
  \/ strongconnect
  \/ ReportModule \/ Finish

\* The lint runs on the compiler's thread: a callback that has begun goes on.
Spec == Init /\ [][Next]_vars /\ WF_vars(Next)

-----------------------------------------------------------------------------
(***************************************************************************)
(* Properties.                                                             *)
(***************************************************************************)
\* In graph a, w can be reached from v; each can be reached from the other.
Reaches(a, v, w) ==
  \A S \in SUBSET DOMAIN a : v \in S /\ (\A u \in S : a[u] \subseteq S) => w \in S

Mutual(a, v, w) == Reaches(a, v, w) /\ Reaches(a, w, v)

\* The variables have their types, whatever crate is checked.
TypeOK ==
  /\ visited \in 0..Len(hir.walk)
  /\ DOMAIN modules \subseteq hir.mods
  /\ \A m \in DOMAIN modules :
       \A i \in DOMAIN modules[m] : hir.chain[modules[m][i].def][2] = m
  /\ \A r \in raw_refs : {r.owner, r.target} \subseteq DOMAIN hir.chain /\ r.span <= visited
  /\ phase \in {"walk", "next", "scc", "done"}
  /\ todo \subseteq DOMAIN modules
  /\ index \in [DOMAIN index -> 0..Cardinality(DOMAIN index)]
  /\ lowlink \in [DOMAIN index -> 0..Cardinality(DOMAIN index)]
  /\ rest \in [DOMAIN index -> SUBSET DOMAIN index]
  /\ Range(stack) \cup Range(calls) \subseteq DOMAIN index
  /\ \A k \in DOMAIN sccs : sccs[k] \subseteq DOMAIN index
  /\ reported \subseteq [kind: {"order", "group"}, def: DOMAIN hir.chain]

\* The stack strongconnect shares between its calls: what is visited is on it or
\* in a component, never both; from each item on it those above can be reached;
\* and every item whose call has returned reaches one further down.
StackIsChain ==
  /\ {v \in DOMAIN index : index[v] # 0} = Range(stack) \cup UNION Range(sccs)
  /\ Range(stack) \cap UNION Range(sccs) = {}
  /\ \A i, j \in DOMAIN stack : i < j =>
       index[stack[i]] < index[stack[j]] /\ Reaches(adj, stack[i], stack[j])
  /\ \A j \in DOMAIN stack : stack[j] \notin Range(calls) =>
       \E i \in 1..(j-1) : Reaches(adj, stack[j], stack[i])

\* Tarjan's algorithm finds the strongly connected components, at every moment:
\* a component is complete when it is popped.
ComponentsExact ==
  /\ \A k \in DOMAIN sccs : \A v \in sccs[k] :
       sccs[k] = {w \in DOMAIN index : Mutual(adj, v, w)}
  /\ \A k, l \in DOMAIN sccs : k # l => sccs[k] \cap sccs[l] = {}

\* What a user sees: the unit of an item, which is its self type when it is an
\* impl block of a type among the items of its module.
Unit(m, i) ==
  IF PlacesOf(modules[m], modules[m][i].impl_self_ty) = {}
  THEN modules[m][i].def ELSE modules[m][i].impl_self_ty

\* Some code in unit d of module m names something in unit e.
UnitUses(m, d, e) ==
  \E k \in DOMAIN hir.walk :
    LET r == hir.walk[k]
    IN  /\ r.event = "ref" /\ r.counts /\ r.target # None
        /\ \E i \in find_module_item(m, r.owner) : Unit(m, i) = d
        /\ \E j \in find_module_item(m, r.target) : Unit(m, j) = e

\* The units of a module and what each uses of the others.
Uses(m) ==
  LET Units == {Unit(m, i) : i \in DOMAIN modules[m]}
  IN  [d \in Units |-> {e \in Units \ {d} : UnitUses(m, d, e)}]

\* The items of a module that use one that comes later and does not use them in turn.
TooEarly(m) ==
  LET uses == Uses(m)
      Before(i, j) ==
        LET d == modules[m][i].def
            e == modules[m][j].def
        IN  i < j /\ d \in DOMAIN uses /\ e \in uses[d] /\ ~ Reaches(uses, e, d)
  IN  {i \in DOMAIN modules[m] : \E j \in DOMAIN modules[m] : Before(i, j)}

\* When the lint is done, and nothing is allowed, an item is reported exactly if
\* it comes before something it uses, unless the two depend on each other, however
\* indirectly and through whatever impl blocks.
OrderExact ==
  phase = "done" /\ hir.allowed = {} =>
    \A m \in DOMAIN modules :
      {d \in reported : d.kind = "order" /\ hir.chain[d.def][2] = m} =
        {[kind |-> "order", def |-> modules[m][i].def] : i \in TooEarly(m)}

\* The lint asks for nothing impossible: the items of every module have an order
\* in which it is silent, components, units and all.
Reordered(items, p) == [i \in DOMAIN items |-> items[p[i]]]

SilentInOrder(m, found, p) ==
  LET items == Reordered(modules[m], p)
      Place(i) == CHOOSE k \in DOMAIN items : p[k] = i
      rs == remap_impl_refs(items,
                {[from |-> Place(r.from), to |-> Place(r.to), span |-> r.span] :
                   r \in found})
      a == build_adj_list(items, rs)
  IN  /\ check_impl_grouping(items) = {}
      /\ find_ordering_violations(rs, [v \in DOMAIN a |-> {w \in DOMAIN a : Mutual(a, v, w)}]) = {}

Satisfiable ==
  phase = "done" =>
    \A m \in DOMAIN modules : LET found == module_refs(m) IN
      \E p \in {q \in [DOMAIN modules[m] -> DOMAIN modules[m]] : IsInjective(q)} :
        SilentInOrder(m, found, p)

\* Each module is judged once, and the lint ends.
Terminates == <>(phase = "done")

\* What strongconnect relies on and what it yields: the variables keep their types,
\* the stack its shape, and what is popped from it is a component.
TarjanIsExact == TypeOK /\ StackIsChain /\ ComponentsExact
=============================================================================
