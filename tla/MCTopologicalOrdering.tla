----------------------- MODULE MCTopologicalOrdering -----------------------
(***************************************************************************)
(* TopologicalOrdering over the reference graphs of four items, plain or   *)
(* impl blocks, in one module or two.                                      *)
(***************************************************************************)
EXTENDS TopologicalOrdering

CONSTANT NoDef

Root == 0
Sub  == 5     \* a module in the root

\* An item and, inside it, a method or nested function.
Inner(d) == d + 10

It(def, parent, self) ==
  [event |-> "item", def |-> def, parent |-> parent, impl_self_ty |-> self, counts |-> TRUE]

\* The kinds of module tree: four functions; impl blocks after, before, between
\* and away from their types; two modules, with an item that does not count.
Trees ==
  << << It(1, Root, NoDef), It(2, Root, NoDef), It(3, Root, NoDef), It(4, Root, NoDef) >>,
     << It(1, Root, NoDef), It(2, Root, NoDef), It(3, Root, 1), It(4, Root, 2) >>,
     << It(1, Root, 2), It(2, Root, NoDef), It(3, Root, NoDef), It(4, Root, 2) >>,
     << It(1, Root, NoDef), It(2, Root, NoDef), It(3, Root, 1), It(4, Root, NoDef) >>,
     << It(1, Root, NoDef), It(6, Sub, NoDef), It(7, Sub, 1), It(2, Root, 6) >>,
     << It(6, Sub, NoDef), [It(7, Sub, NoDef) EXCEPT !.counts = FALSE], It(1, Root, 6),
        It(2, Root, NoDef) >>,
     << It(1, Root, 2), It(2, Root, NoDef), It(3, Root, NoDef), It(4, Root, NoDef) >>,
     << It(1, Root, NoDef), It(2, Inner(1), NoDef), It(3, Root, NoDef), It(4, Root, NoDef) >> >>

\* A definition in its items, from the inside out.
ChainOf(tree, d) ==
  LET Around(p) == IF p = Root THEN <<Root>> ELSE IF p = Sub THEN <<Sub, Root>>
                   ELSE <<p, p - 10, Root>>
      ItemChain(i) == <<tree[i].def>> \o Around(tree[i].parent)
  IN  IF d = Root \/ d = Sub THEN Around(d)
      ELSE LET i == CHOOSE k \in DOMAIN tree : d \in {tree[k].def, Inner(tree[k].def)}
           IN  IF d = tree[i].def THEN ItemChain(i) ELSE <<d>> \o ItemChain(i)

\* The reference from the item at place i to the one at j.  Some are made by the
\* method of an item, some name one.
RefOf(tree, i, j) ==
  [event |-> "ref", counts |-> TRUE,
   owner  |-> IF (i + j) % 2 = 0 THEN tree[i].def ELSE Inner(tree[i].def),
   target |-> IF i % 2 = 0 THEN tree[j].def ELSE Inner(tree[j].def)]

\* An item, its references in the order of their targets, one to nothing local,
\* and the next item.
WalkOf(tree, pairs) ==
  LET Part(i) == <<tree[i]>>
                   \o [k \in 1..Cardinality({q \in pairs : q[1] = i}) |->
                         RefOf(tree, i, CHOOSE j \in DOMAIN tree :
                           <<i, j>> \in pairs
                           /\ Cardinality({q \in pairs : q[1] = i /\ q[2] < j}) = k - 1)]
  IN  Part(1) \o <<[RefOf(tree, 1, 1) EXCEPT !.target = NoDef]>> \o Part(2) \o Part(3)
        \o Part(4)

MCCrate(c) ==
  LET tree == Trees[c.tree]
      defs == {Root, Sub} \cup UNION {{tree[i].def, Inner(tree[i].def)} : i \in 1..4}
  IN  [chain |-> [d \in defs |-> ChainOf(tree, d)], mods |-> {Root, Sub},
       allowed |-> c.allowed, walk |-> WalkOf(tree, c.pairs)]

Pairs == {q \in (1..4) \X (1..4) : q[1] # q[2]}

Ids(trees, most, allowed) ==
  [tree : trees, pairs : {S \in SUBSET Pairs : Cardinality(S) <= most}, allowed : allowed]

MaxPairs == 6     \* of the 12 references between four functions
MaxImplPairs == 4 \* where there are impl blocks or two modules

MCCrateIds ==
  Ids({1}, MaxPairs, {{}}) \cup Ids(2..8, MaxImplPairs, {{}}) \cup Ids({3}, 2, {{Root}, {1}})
=============================================================================
