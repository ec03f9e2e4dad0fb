------------------------- MODULE ModuleDependencies -------------------------
(***************************************************************************)
(* The module_dependencies lint (src/src/lints/module_dependencies.rs).    *)
(*                                                                         *)
(* A configuration lists, for top-level modules, the modules each may      *)
(* depend on.  While the compiler walks the crate, a reference from one    *)
(* top-level module to another is rejected when the configuration does not *)
(* allow it.  In exhaustive mode a module the configuration does not name  *)
(* is warned about, once, instead; after the walk the allowed edges that   *)
(* no reference used are reported as dead.                                 *)
(***************************************************************************)
EXTENDS HirRefs, FiniteSets

CONSTANTS
  Modules,  \* the paths of the modules of a crate
  CrateIds, \* the crates to check
  Crate(_)  \* what each of them is: see IsCrate

Definitions == [local: BOOLEAN, path: Seq(Nat)]

Lints == {"module_dependencies", "module_dependencies_unlisted",
          "module_dependencies_dead_edge"}

Nodes == [kind: {"expr", "ty", "use"}, owner: Modules, res: Seq(Definitions),
          expansion: BOOLEAN, test: BOOLEAN, allowed: SUBSET Lints]

\* A crate is the nodes of its HIR in the order the compiler visits them, each
\* with the lints an attribute allows there, the lints its root allows, whether
\* it is compiled with --test, and its [module_dependencies] configuration.
IsCrate(c) ==
  /\ c.nodes \in Seq(Nodes)
  /\ c.allowed \subseteq Lints
  /\ c.testCrate \in BOOLEAN
  /\ c.exhaustive \in BOOLEAN
  /\ c.coverage \in {"complete", "incomplete"}
  /\ DOMAIN c.allow \subseteq Nat
  /\ \A m \in DOMAIN c.allow : c.allow[m] \subseteq Nat

CratesAssumption ==
  Modules \subseteq Seq(Nat) /\ \A c \in CrateIds : IsCrate(Crate(c))
ASSUME CratesAssumption

VARIABLES
  config,           \* the crate being checked and its configuration
  visited,          \* how many of its nodes the compiler has visited
  pending,          \* the definitions the last of them names, still to be checked
  used_edges,       \* the edges that were seen from a configured module
  warned_unlisted,  \* the modules that were found to be unlisted
  phase,            \* "walk", "dead" while dead edges are reported, then "done"
  undecided,        \* the allowed edges still to be looked up among the used
  reported          \* the diagnostics that no attribute has silenced

vars == <<config, visited, pending, used_edges, warned_unlisted, phase, undecided, reported>>

allow  == config.allow
node   == config.nodes[visited]

-----------------------------------------------------------------------------
\* top_level_module: none for an item whose topmost ancestor below the root is
\* not a module.
top_level_module(path) ==
  IF path # << >> /\ << path[1] >> \in Modules THEN {path[1]} ELSE {}

\* The modules the configuration names, as a source or as a dependency.
all_modules == DOMAIN allow \cup UNION {allow[m] : m \in DOMAIN allow}

is_configured == DOMAIN allow # {} \/ config.exhaustive

\* A reference at a node to a definition goes from one module to another, and
\* counts.
Crosses(n, def, source, target) ==
  /\ is_configured
  /\ ~ should_skip_ref(config.testCrate, n, def)
  /\ source \in top_level_module(n.owner)
  /\ target \in top_level_module(def.path)
  /\ source # target

\* Sensitivity: the token is not taken.
Unwarned_Always(m) == m \notin all_modules

\* warn_unlisted_once would warn about the module.
Unwarned(m) == m \notin all_modules \cup warned_unlisted

\* What node k names.  Only an import names more than one definition.
Named(k) ==
  LET n == config.nodes[k]
  IN  IF n.kind = "use" THEN for_each_use_def_id(n) ELSE resolve_def_id(n)

\* A diagnostic at the reference being checked, unless an attribute allows the
\* lint there.  A reference is a node and a position in what the node names.
Here == <<visited, Len(Named(visited)) - Len(pending) + 1>>

Emit(lint, source, target) ==
  reported' = IF lint \in node.allowed THEN reported
              ELSE reported \cup {[lint |-> lint, at |-> Here,
                                   source |-> source, target |-> target]}

-----------------------------------------------------------------------------
Init ==
  /\ \E c \in CrateIds : config = Crate(c)
  /\ visited = 0
  /\ pending = << >>
  /\ used_edges = {}
  /\ warned_unlisted = {}
  /\ phase = "walk"
  /\ undecided = {}
  /\ reported = {}

\* The compiler visits the next node, if it is of the kind one callback sees.
Visit(kind, Resolve(_)) ==
  /\ phase = "walk" /\ pending = << >> /\ visited < Len(config.nodes)
  /\ config.nodes[visited + 1].kind = kind
  /\ visited' = visited + 1
  /\ pending' = Resolve(config.nodes[visited + 1])
  /\ UNCHANGED <<config, used_edges, warned_unlisted, phase, undecided, reported>>

check_expr == Visit("expr", resolve_def_id)
check_ty   == Visit("ty", resolve_def_id)
check_item == Visit("use", for_each_use_def_id)

\* check_dependency for the next definition, which takes one of the five ways
\* below.
check_dependency ==
  /\ pending # << >>
  /\ pending' = Tail(pending)
  /\ UNCHANGED <<config, visited, phase, undecided>>

\* The reference does not count.
PassOver ==
  /\ check_dependency
  /\ \A source, target \in top_level_module(node.owner)
                             \cup top_level_module(Head(pending).path) :
       ~ Crosses(node, Head(pending), source, target)
  /\ UNCHANGED <<used_edges, warned_unlisted, reported>>

\* Exhaustive mode: the source is unlisted, else the target is.  The reference
\* is not looked at further.
WarnUnlisted(source, target) ==
  /\ check_dependency
  /\ Crosses(node, Head(pending), source, target)
  /\ config.exhaustive
  /\ \E m \in {source, target} :
       /\ Unwarned(m) /\ (m = target => ~ Unwarned(source))
       /\ warned_unlisted' = warned_unlisted \cup {m}
       /\ Emit("module_dependencies_unlisted", m, m)
  /\ UNCHANGED used_edges

\* The reference is looked up in the allowlists.
LooksUp(source, target) ==
  /\ check_dependency
  /\ Crosses(node, Head(pending), source, target)
  /\ config.exhaustive => ~ Unwarned(source) /\ ~ Unwarned(target)
  /\ UNCHANGED warned_unlisted

\* The source has no allowlist.
LeaveUnconfigured(source, target) ==
  /\ LooksUp(source, target)
  /\ source \notin DOMAIN allow
  /\ UNCHANGED <<used_edges, reported>>

\* Sensitivity: the edge is not marked as used.
AllowEdge_Unmarked(source, target) ==
  /\ LooksUp(source, target)
  /\ source \in DOMAIN allow /\ target \in allow[source]
  /\ UNCHANGED <<used_edges, reported>>

\* Sensitivity: the edge is recorded for the module around the reference, not for
\* the top-level one.
AllowEdge_Nearest(source, target) ==
  /\ LooksUp(source, target)
  /\ source \in DOMAIN allow /\ target \in allow[source]
  /\ used_edges' = used_edges \cup {<<node.owner[Len(node.owner)], target>>}
  /\ UNCHANGED reported

AllowEdge(source, target) ==
  /\ LooksUp(source, target)
  /\ source \in DOMAIN allow /\ target \in allow[source]
  /\ used_edges' = used_edges \cup {<<source, target>>}
  /\ UNCHANGED reported

\* Sensitivity: an edge is rejected only the first time it is seen.
RejectEdge_Once(source, target) ==
  /\ LooksUp(source, target)
  /\ source \in DOMAIN allow /\ target \notin allow[source]
  /\ used_edges' = used_edges \cup {<<source, target>>}
  /\ IF <<source, target>> \in used_edges THEN UNCHANGED reported
     ELSE Emit("module_dependencies", source, target)

\* Sensitivity: an allowed edge does not return early.
RejectEdge_Always(source, target) ==
  /\ LooksUp(source, target)
  /\ source \in DOMAIN allow
  /\ used_edges' = used_edges \cup {<<source, target>>}
  /\ Emit("module_dependencies", source, target)

RejectEdge(source, target) ==
  /\ LooksUp(source, target)
  /\ source \in DOMAIN allow /\ target \notin allow[source]
  /\ used_edges' = used_edges \cup {<<source, target>>}
  /\ Emit("module_dependencies", source, target)

\* check_crate_post begins.  A compilation that does not see every cfg slice,
\* or of tests, says nothing of dead edges.
check_crate_post ==
  /\ phase = "walk" /\ pending = << >> /\ visited = Len(config.nodes)
  /\ IF is_configured /\ config.coverage = "complete" /\ ~ config.testCrate
     THEN /\ phase' = "dead"
          /\ undecided' = UNION {{s} \X allow[s] : s \in DOMAIN allow}
     ELSE phase' = "done" /\ UNCHANGED undecided
  /\ UNCHANGED <<config, visited, pending, used_edges, warned_unlisted, reported>>

\* One allowed edge is looked up, in the order of the hash map.  A dead edge has
\* no place in the code: only an attribute of the crate silences the diagnostic.
LookUpDeadEdge(e) ==
  /\ phase = "dead"
  /\ undecided' = undecided \ {e}
  /\ reported' = IF \/ e \in used_edges
                       \/ "module_dependencies_dead_edge" \in config.allowed
                    THEN reported
                    ELSE reported \cup {[lint |-> "module_dependencies_dead_edge",
                                         at |-> <<0, 0>>, source |-> e[1], target |-> e[2]]}
  /\ UNCHANGED <<config, visited, pending, used_edges, warned_unlisted, phase>>

Finish ==
  /\ phase = "dead" /\ undecided = {}
  /\ phase' = "done"
  /\ UNCHANGED <<config, visited, pending, used_edges, warned_unlisted, undecided, reported>>

\* The top-level modules.
Names == {m[1] : m \in {p \in Modules : Len(p) = 1}}

Next ==
  \/ check_expr \/ check_ty \/ check_item
  \/ PassOver
  \/ \E s, t \in Names : WarnUnlisted(s, t)
  \/ \E s, t \in Names : LeaveUnconfigured(s, t)
  \/ \E s, t \in Names : AllowEdge(s, t)
  \/ \E s, t \in Names : RejectEdge(s, t)
  \/ check_crate_post
  \/ \E e \in undecided : LookUpDeadEdge(e)
  \/ Finish

\* The lint runs on the compiler's thread: a callback that has begun goes on.
Spec == Init /\ [][Next]_vars /\ WF_vars(Next)

-----------------------------------------------------------------------------
\* The variables have their types, whatever crate is checked.
TypeOK ==
  /\ IsCrate(config)
  /\ visited \in 0..Len(config.nodes)
  /\ pending \in Seq(Definitions)
  /\ used_edges \subseteq Names \X Names
  /\ warned_unlisted \subseteq Names
  /\ phase \in {"walk", "dead", "done"}
  /\ undecided \subseteq UNION {{s} \X allow[s] : s \in DOMAIN allow}
  /\ reported \subseteq [lint: Lints, at: Nat \X Nat, source: Nat, target: Nat]

\* The references of the crate that have been checked so far.
Checked ==
  UNION {{k} \X (1 .. (Len(Named(k)) - IF k = visited THEN Len(pending) ELSE 0)) :
           k \in 1..visited}

\* A checked reference goes from one module to another.
Depends(r, source, target) ==
  Crosses(config.nodes[r[1]], Named(r[1])[r[2]], source, target)

\* "Any reference to an item in an undeclared module is a compile-time error"
\* (module_dependencies.rs:19): a reference that a configured module is not
\* allowed to make has a diagnostic of its own, whatever was reported before and
\* in whatever mode, unless an attribute silences it.  The exception is a
\* reference to an unlisted module where module_dependencies_unlisted is allowed.
NothingSlips ==
  \A r \in Checked : \A s \in DOMAIN allow : \A t \in Names \ allow[s] :
    Depends(r, s, t) =>
      \/ \E d \in reported : d.at = r
      \/ "module_dependencies" \in config.nodes[r[1]].allowed
      \/ /\ config.exhaustive /\ t \notin all_modules
         /\ "module_dependencies_unlisted" \in config.nodes[r[1]].allowed

\* A reference the configuration allows is never rejected, and nothing else is
\* but references between modules: the lint denies by default, so a diagnostic
\* that is not due breaks a build.
OnlyDue ==
  \A d \in reported :
    d.lint # "module_dependencies_dead_edge" =>
      /\ d.at \in Checked
      /\ \E s, t \in Names :
           /\ Depends(d.at, s, t)
           /\ d.lint = "module_dependencies" =>
                d.source = s /\ d.target = t /\ s \in DOMAIN allow /\ t \notin allow[s]
           /\ d.lint = "module_dependencies_unlisted" =>
                config.exhaustive /\ d.source \in {s, t} \ all_modules

\* In exhaustive mode no module is reported twice, and after a reference between
\* unlisted modules its source is known, its target too unless the reference
\* itself was spent on the source.
UnlistedOnce ==
  /\ \A d, e \in reported :
       /\ d.lint = "module_dependencies_unlisted" /\ e.lint = d.lint
       /\ d.source = e.source
       => d = e
  /\ config.exhaustive =>
       \A r \in Checked : \A s, t \in Names :
         Depends(r, s, t) =>
           /\ s \in all_modules \cup warned_unlisted
           /\ \/ t \in all_modules \cup warned_unlisted
              \/ "module_dependencies_unlisted" \in config.nodes[r[1]].allowed
              \/ \E d \in reported : d.at = r /\ d.source = s

\* When the lint is done the edges reported dead are the allowed edges that no
\* reference makes, and none in a compilation that cannot know: neither a
\* warning about an unlisted module nor an attribute hides the use of an edge.
DeadEdgesExact ==
  phase = "done" =>
    {<<d.source, d.target>> :
       d \in {e \in reported : e.lint = "module_dependencies_dead_edge"}} =
      {e \in UNION {{s} \X allow[s] : s \in DOMAIN allow} :
         /\ config.coverage = "complete" /\ ~ config.testCrate
         /\ "module_dependencies_dead_edge" \notin config.allowed
         /\ \A r \in Checked : ~ Depends(r, e[1], e[2])}

=============================================================================
