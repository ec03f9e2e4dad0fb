---------------------------- MODULE MCBuilderLints ----------------------------
(***************************************************************************)
(* BuilderCrates of two structs, which may share their name, of a single struct   *)
(* with every exemption, and of an enum with up to two functions.  The     *)
(* thresholds overlap: two fields are both enough and too few.             *)
(***************************************************************************)
EXTENDS BuilderLints

Bon == <<"bon", "Builder">>
MCPaths == {Bon, <<"my", "bon", "Builder">>, <<"derive_builder", "Builder">>, <<"Builder">>, <<"std", "default", "Default">>}
MCSkipDerives == {"Default"}

Fn == [has_self |-> FALSE, output |-> <<"Self">>, expanded |-> FALSE, simple |-> TRUE,
       builds |-> "variant", params |-> 0, values |-> <<>>]
Struct == [kind |-> "struct", name |-> "A", expanded |-> FALSE, kept |-> TRUE, attrs |-> <<>>,
           lifetime |-> FALSE, repr_c |-> FALSE, named |-> TRUE, fields |-> 2, phantoms |-> 0,
           is_builder |-> FALSE, default |-> FALSE, fns |-> <<Fn>>]
Attr(cfg, derives) == [cfg |-> cfg, derives |-> derives]

\* A struct without derives, with one, or with two attributes.
AttrLists == {<<>>} \union {<<Attr(c, {p})>> : c \in {"none", "always", "feature"}, p \in MCPaths}
             \union {<<Attr("none", {<<"std", "default", "Default">>}), Attr("feature", {Bon})>>, <<Attr("none", MCPaths)>>}
Structs2 == {[Struct EXCEPT !.name = n, !.attrs = a, !.kept = k, !.fields = f] :
               n \in {"A", "B"}, a \in AttrLists, k \in BOOLEAN, f \in 1..3}
Pairs == {<<x, y>> : x \in {s \in Structs2 : s.name = "A" /\ s.fields = 2}, y \in Structs2}

Exempt == {<<[Struct EXCEPT !.expanded = e, !.lifetime = l, !.repr_c = r, !.named = m, !.phantoms = p,
                            !.is_builder = b, !.default = d, !.fns = f, !.attrs = a]>> :
             e \in BOOLEAN, l \in BOOLEAN, r \in BOOLEAN, m \in BOOLEAN, p \in 0..1, b \in BOOLEAN, d \in BOOLEAN,
             f \in {<<>>, <<[Fn EXCEPT !.output = <<"Box", "Self">>]>>, <<[Fn EXCEPT !.output = <<"Option", "Self">>]>>},
             a \in {<<>>, <<Attr("none", {Bon})>>}}

Values == UNION {[1..n -> 0..2] : n \in 0..2}
Fns == {[Fn EXCEPT !.params = p, !.values = v, !.has_self = s, !.output = o] :
          p \in 0..2, v \in Values, s \in BOOLEAN, o \in {<<"Self">>, <<"Result", "Self">>, <<"Result", "Box", "Self">>}}
OddFns == {[Fn EXCEPT !.expanded = e, !.simple = s, !.builds = b] :
             e \in BOOLEAN, s \in BOOLEAN, b \in {"variant", "other enum", "updated variant", "call"}}
MCEnums == {<<[kind |-> "enum", name |-> "E", kept |-> TRUE, fns |-> <<f, g>>]>> : f \in Fns, g \in OddFns}
           \union {<<[kind |-> "enum", name |-> "E", kept |-> TRUE, fns |-> <<f>>]>> :
                     f \in {[Fn EXCEPT !.params = 3, !.values = v] : v \in [1..3 -> 0..3]}}

MCCrates == Pairs \union Exempt \union MCEnums
=============================================================================
