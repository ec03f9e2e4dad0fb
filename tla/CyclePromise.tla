---------------------------- MODULE CyclePromise ----------------------------
(***************************************************************************)
(* What the acyclic_modules lint promises, without graphs or searches: in  *)
(* one step it decides for every module whether the dependencies among its *)
(* children run in a circle.  A child depends on another when code of its  *)
(* subtree, outside tests and macros, names an item of the other's subtree.*)
(***************************************************************************)
EXTENDS HirRefs

CONSTANTS Modules, CrateIds, Crate(_)

VARIABLES
  crate,    \* the crate being checked
  status,   \* "pending", then "decided"
  flagged   \* the modules whose children have a cycle reported

vars == <<crate, status, flagged>>

\* Node k of the crate witnesses that child a of module p depends on child b.
Witnesses(k, p, a, b) ==
  LET node == Crate(crate).nodes[k]
  IN  /\ a # b
      /\ InSubtree(node.owner, Append(p, a))
      /\ \E i \in DOMAIN node.res :
           /\ ~ should_skip_ref(Crate(crate).testCrate, node, node.res[i])
           /\ InSubtree(item_module_def_id(Modules, node.res[i]), Append(p, b))

DependsOn(p, a, b) == \E k \in DOMAIN Crate(crate).nodes : Witnesses(k, p, a, b)

ChildNames(p) == {Last(m) : m \in {q \in Modules : q # << >> /\ Front(q) = p}}

\* Some children all depend on another of their number.
InACircle(p) ==
  \E S \in SUBSET ChildNames(p) :
    S # {} /\ \A a \in S : \E b \in S : DependsOn(p, a, b)

Init ==
  /\ crate \in CrateIds
  /\ status = "pending"
  /\ flagged = {}

Decide ==
  /\ status = "pending"
  /\ status' = "decided"
  /\ flagged' = IF << >> \in Crate(crate).optOut THEN {}
                ELSE {p \in Modules : InACircle(p)}
  /\ UNCHANGED crate

\* It decides once, and it does decide, of every crate.
Safety == Init /\ [][Decide]_vars
Spec == Safety /\ <>(status = "decided")
=============================================================================
