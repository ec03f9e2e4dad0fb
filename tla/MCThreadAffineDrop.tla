------------------------- MODULE MCThreadAffineDrop -------------------------
(***************************************************************************)
(* Four types: two instances of one wrapper, a local type and a type of    *)
(* another crate.  MaxDepth is 2 and MaxEdges 3, so both limits are met.   *)
(***************************************************************************)
EXTENDS ThreadAffineDrop

MCTypes  == 1..4
MCAdts   == {"Outer", "Wrap", "Mine", "Theirs"}
MCAdtOf  == <<"Wrap", "Wrap", "Mine", "Theirs">>
MCLocal  == {"Outer", "Mine"}
MCName   == [adt \in MCAdts |-> adt]
MCReasons == {"main thread", "loop"}

Lists(max) == UNION {[1..n -> MCTypes] : n \in 0..max}
UnsafeSend == [expanded |-> FALSE, of |-> "Send", unsafe |-> TRUE, adt |-> TRUE]
Plain == [impl |-> UnsafeSend, self |-> "Outer", fields |-> <<1>>,
          kind |-> <<"adt", "adt", "adt", "adt">>, owns |-> <<<<2>>, <<3>>, <<4>>, <<>>>>,
          attributes |-> [a \in MCLocal |-> <<>>], consts |-> [a \in MCLocal |-> <<>>], external |-> <<>>]

Attribute(on, reason) == [on |-> on, reason |-> reason]
OnMine(attributes) == [a \in MCLocal |-> IF a = "Mine" THEN attributes ELSE <<>>]
Theirs(reason) == [path |-> "Theirs", reason |-> reason]

\* Who is declared: the local type, the foreign one, or both.
Ways == {"local", "foreign", "both"}
Declare(c, way) ==
  [c EXCEPT !.attributes = OnMine(IF way = "foreign" THEN <<>> ELSE <<Attribute("struct", "loop")>>),
            !.external = IF way = "local" THEN <<>> ELSE <<Theirs("main thread")>>]

\* Every ownership of up to two parts by the wrappers; every kind; wide types.
Graphs == {Declare([Plain EXCEPT !.owns = <<o, p, q, <<>>>>], way) :
             o \in Lists(2), p \in Lists(2), q \in {<<>>, <<4, 3>>}, way \in Ways}
Kinded == {Declare([Plain EXCEPT !.kind = <<k, l, m, n>>, !.owns = <<<<2, 3>>, <<o, 3>>, <<>>, <<3>>>>], way) :
             k \in Kinds, l \in Kinds, m \in {"adt", "union"}, n \in {"adt", "container", "manually_drop"},
             o \in {1, 4}, way \in Ways}
Wide   == {Declare([Plain EXCEPT !.owns = <<o, <<4, 3>>, <<4>>, <<>>>>, !.fields = f], way) :
             o \in Lists(4) \ Lists(2), f \in {<<1, 2>>, <<2, 3, 1>>}, way \in Ways}
\* Every way of declaring, and every impl.
Entry(path, reason) == [path |-> path, reason |-> reason]
Marks == {<<>>, <<"loop">>, <<"computed", "main thread">>, <<"main thread", "loop">>}
Tables == {<<>>, <<Entry("Mine", "loop")>>, <<Entry("Theirs", "loop"), Entry("Theirs", "main thread")>>,
           <<Entry("Theirs", "loop"), Entry("Outer", "loop")>>}
Declarations ==
  {[Plain EXCEPT !.attributes = [a \in MCLocal |-> IF a = s THEN m ELSE <<>>], !.consts = OnMine(c),
                 !.external = e, !.impl = i] :
     s \in MCLocal, m \in {<<>>} \union {<<a>> : a \in Attributes}, c \in Marks, e \in Tables,
     i \in {UnsafeSend, [UnsafeSend EXCEPT !.expanded = TRUE], [UnsafeSend EXCEPT !.of = "Sync"],
            [UnsafeSend EXCEPT !.adt = FALSE], [UnsafeSend EXCEPT !.unsafe = FALSE]}}

MCCrates == Graphs \union Kinded \union Wide \union Declarations
=============================================================================
