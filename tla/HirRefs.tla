------------------------------ MODULE HirRefs ------------------------------
(***************************************************************************)
(* The shared front end of the module-level lints                          *)
(* (src/src/lints/hir_refs.rs): which nodes of the compiler's HIR are      *)
(* references to a definition, and which of those references count.        *)
(*                                                                         *)
(* A module path is the sequence of the names below the crate root; the    *)
(* root itself is << >>.  A name is its rank in the order of strings, so   *)
(* that names can be sorted.  A definition is a record                     *)
(*    [local |-> it belongs to the crate being checked,                    *)
(*     path  |-> its full path, through the modules that contain it],      *)
(* and a node of the HIR is a record                                       *)
(*    [kind      |-> the callback that sees it: "expr", "ty" or "use",     *)
(*     owner     |-> the path of the module that contains it,              *)
(*     res       |-> the definitions it resolves to,                       *)
(*     expansion |-> it comes from the expansion of a macro,               *)
(*     test      |-> it is inside #[cfg(test)] or a #[test] function].     *)
(***************************************************************************)
EXTENDS Naturals, Sequences, SequencesExt

\* resolve_expr_def_id and resolve_ty_def_id: at most one definition, none for
\* a node that is not a path, a struct literal or a method call, or whose
\* resolution is not a definition (res is empty).
resolve_def_id(node) == IF node.res = << >> THEN << >> ELSE << Head(node.res) >>

\* for_each_use_def_id: the definitions an import names, one per namespace.
for_each_use_def_id(node) == node.res

\* should_skip_ref: external items, macro expansions, test crates, test code.
should_skip_ref(testCrate, node, def) ==
  \/ ~ def.local
  \/ node.expansion
  \/ testCrate
  \/ node.test

\* item_module_def_id: the nearest module at or above a definition.
item_module_def_id(modules, def) ==
  CHOOSE m \in modules :
    /\ IsPrefix(m, def.path)
    /\ \A q \in modules : IsPrefix(q, def.path) => Len(q) <= Len(m)

\* The code inside module m's subtree: m itself and everything below it.
InSubtree(path, m) == IsPrefix(m, path)

\* The order of paths and of cycles: name by name, a prefix before the longer.
LexLeq(s, t) ==
  \/ IsPrefix(s, t)
  \/ \E i \in 1..Len(s) :
       /\ i <= Len(t)
       /\ s[i] < t[i]
       /\ \A j \in 1..(i-1) : s[j] = t[j]
=============================================================================
