------------------------------ MODULE MCCrates ------------------------------
(***************************************************************************)
(* References for the crates that the MC modules check.                    *)
(***************************************************************************)
EXTENDS Naturals, Sequences, FiniteSets

\* An item of module m; no module has the name 9.
Item(m) == [local |-> TRUE, path |-> m \o <<9>>]

\* A reference that counts.
Ref(kind, owner, res) ==
  [kind |-> kind, owner |-> owner, res |-> res, expansion |-> FALSE, test |-> FALSE]

\* The elements of a list at positions I, in their order.
Chosen(list, I) ==
  [j \in 1..Cardinality(I) |->
     list[CHOOSE i \in I : Cardinality({h \in I : h < i}) = j - 1]]
=============================================================================
