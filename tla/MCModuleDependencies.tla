------------------------ MODULE MCModuleDependencies ------------------------
(***************************************************************************)
(* ModuleDependencies over subsets of a list of references, under every    *)
(* mode and a choice of allowlists.                                        *)
(***************************************************************************)
EXTENDS ModuleDependencies, MCCrates, TLC

MCModules == {<< >>, <<1>>, <<2>>, <<3>>, <<1,4>>}

At(reference, allowed) == reference @@ [allowed |-> allowed]

\* References between three modules, in submodules and imports, under
\* attributes, and references that do not count.
References ==
  << At(Ref("expr", <<1,4>>, <<Item(<<2>>)>>), {}),
     At(Ref("use",  <<1>>,   <<Item(<<2>>), Item(<<3>>)>>), {}),
     At(Ref("ty",   <<2>>,   <<Item(<<3>>)>>), {}),
     At(Ref("ty",   <<3>>,   <<Item(<<1>>)>>), {"module_dependencies_unlisted"}),
     At(Ref("expr", <<1>>,   <<Item(<<3>>)>>), {"module_dependencies"}),
     At(Ref("ty",   <<1>>,   <<Item(<<3>>)>>), {"module_dependencies_unlisted"}),
     At(Ref("expr", <<1>>,   <<Item(<<3>>)>>), {}),
     At(Ref("ty",   <<3>>,   <<Item(<<2>>)>>), {}),
     At(Ref("expr", << >>,   <<Item(<<1>>)>>), {}),
     At(Ref("expr", <<2>>,   <<Item(<< >>), Item(<<1>>)>>), {}),
     At([Ref("ty",  <<1>>,   <<Item(<<2>>)>>) EXCEPT !.test = TRUE], {}) >>

Allowlists ==
  << << >>, 1 :> {2}, 1 :> {2} @@ 2 :> {}, 1 :> {2,3} @@ 2 :> {3}, 2 :> {3} @@ 3 :> {1},
     1 :> {1,2} @@ 3 :> {} >>

MaxReferences == 4   \* of the references listed

MCCrateIds ==
  [refs : {I \in SUBSET (1..Len(References)) : Cardinality(I) <= MaxReferences},
   testCrate : {FALSE}, exhaustive : BOOLEAN, coverage : {"complete", "incomplete"},
   allow : 1..Len(Allowlists)]
  \cup
  [refs : SUBSET (1..3), testCrate : {TRUE}, exhaustive : BOOLEAN, coverage : {"complete"},
   allow : 1..Len(Allowlists)]

MCCrate(c) ==
  [nodes |-> Chosen(References, c.refs), testCrate |-> c.testCrate,
   allowed |-> IF 2 \in c.refs /\ 5 \in c.refs THEN {"module_dependencies_dead_edge"} ELSE {},
   exhaustive |-> c.exhaustive, coverage |-> c.coverage, allow |-> Allowlists[c.allow]]
=============================================================================
