-------------------------- MODULE MCAcyclicModules --------------------------
(***************************************************************************)
(* AcyclicModules over every graph of four siblings, and over every subset *)
(* of a list of references in a small module tree.                         *)
(***************************************************************************)
EXTENDS AcyclicModules, MCCrates, Integers

MCModules == {<< >>, <<1>>, <<2>>, <<3>>, <<4>>, <<1,1>>, <<1,2>>, <<2,1>>}

\* The crate that has the references of a list at positions I.
CrateWith(list, I, testCrate, optOut) ==
  [nodes |-> Chosen(list, I), testCrate |-> testCrate, optOut |-> optOut]

\* All dependencies between the siblings 1..n, one reference each.
Flat(n) ==
  [k \in 1..(n * (n-1)) |->
     LET from == ((k-1) \div (n-1)) + 1
         skip == ((k-1) % (n-1)) + 1
         to   == IF skip < from THEN skip ELSE skip + 1
     IN  Ref("ty", <<from>>, <<Item(<<to>>)>>)]

\* References that cross the levels of the tree, and references that do not count.
Nested ==
  << Ref("expr", <<1,1>>, <<Item(<<2,1>>)>>),
     Ref("expr", <<1,2>>, << >>),
     Ref("ty",   <<2>>,   <<Item(<<1,2>>)>>),
     Ref("expr", <<1,2>>, <<Item(<<1,1>>)>>),
     Ref("expr", <<1,1>>, <<Item(<<1>>)>>),
     Ref("use",  <<1>>,   <<Item(<<1,2>>), Item(<<2,1>>)>>),
     [Ref("ty",  <<1,1>>, <<Item(<<1,2>>)>>) EXCEPT !.expansion = TRUE],
     [Ref("ty",  <<2,1>>, <<Item(<<1,1>>)>>) EXCEPT !.test = TRUE],
     Ref("ty",   <<1,1>>, <<Item(<<1,2>>)>>),
     Ref("use",  <<3>>,   <<[local |-> TRUE, path |-> <<1>>], [local |-> FALSE, path |-> <<2>>]>>),
     Ref("expr", <<1,2>>, <<Item(<<3>>)>>) >>

\* A crate is named by the list and the positions of its references, whether
\* it is a test crate, and the modules that opt out.
MCCrate(c) == CrateWith(IF c.flat = 0 THEN Nested ELSE Flat(c.flat),
                        c.refs, c.testCrate, c.optOut)

Ids(flat, size, most, testCrate, optOut) ==
  [flat : {flat}, refs : {I \in SUBSET (1..size) : Cardinality(I) <= most},
   testCrate : {testCrate}, optOut : {optOut}]

MaxFlatRefs == 6    \* of the 12 dependencies four siblings can have

MCCrateIds ==
  Ids(4, 12, MaxFlatRefs, FALSE, {}) \cup Ids(0, 11, 11, FALSE, {})
    \cup Ids(0, 6, 6, FALSE, {<< >>}) \cup Ids(3, 6, 6, TRUE, {<<1>>})
=============================================================================
