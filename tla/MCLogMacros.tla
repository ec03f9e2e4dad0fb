----------------------------- MODULE MCLogMacros -----------------------------
(***************************************************************************)
(* Calls with up to two directives, a field and an argument; calls with up *)
(* to one, written in every way; and, for a few calls, every sequence of   *)
(* three expressions they leave behind.                                    *)
(***************************************************************************)
EXTENDS LogMacros, TLC

MCLiterals ==
  "plain" :> <<"x">> @@ "capture" :> <<"x", "brace", "end">> @@ "escaped" :> <<"brace", "brace", "x", "end">>
  @@ "mixed" :> <<"brace", "brace", "brace", "end", "comma">>
  @@ "unicode" :> <<"escape", "brace", "x", "end">>

Upto(set, n) == UNION {[1..k -> set] : k \in 0..n}

Heads == {<<"target">>, <<"parent">>, <<"name">>, <<"comment", "target">>}
Values == {<<"T">>, <<"plain">>, <<"capture">>, <<"raw", "capture">>, <<"comment", "plain">>, <<"f", "open", "capture", "close">>,
           <<"f", "open", "x", "comma", "y", "close">>}
Fields == {<<"user">>, <<"user", "=", "capture">>, <<"?", "f", "open", "plain", "close">>, <<"capture", "=", "x">>}
Leads == {<< >>, <<"raw">>, <<"comment">>, <<"concat", "open">>}
Args == {<< >>, <<<<"capture">>>>, <<<<"f", "open", "capture", "close">>>>}

\* The format string behind its lead, none without a literal.
Format(lead, literal) ==
  IF literal = "none" THEN << >>
  ELSE <<lead \o <<literal>> \o (IF "open" \in ToSet(lead) THEN <<"close">> ELSE << >>)>>

\* The parts of a call one after the other, a comma between two of them.
Call(delimiter, directives, fields, lead, literal, arguments) ==
  LET heads == [n \in DOMAIN directives |-> directives[n].head \o <<"colon">> \o directives[n].value]
      parts == heads \o fields \o Format(lead, literal) \o (IF literal = "none" THEN << >> ELSE arguments)
      ended == [n \in DOMAIN parts |-> parts[n] \o <<IF n = Len(parts) THEN "close" ELSE "comma">>]
      Length(n) == Len(FlattenSeq(SubSeq(ended, 1, n)))
  IN  [delimiter |-> delimiter,
       text |-> IF parts = << >> THEN <<"close">> ELSE FlattenSeq(ended),
       ends |-> [n \in DOMAIN heads |-> Length(n)],
       fields |-> Len(fields),
       fmt |-> IF literal = "none" THEN 0 ELSE Length(Len(heads) + Len(fields)) + Len(lead) + 1]

Expansion(name, krate, site) == [name |-> name, krate |-> krate, site |-> site]
E(frames, test) == [frames |-> frames, test |-> test]
info(site) == <<Expansion("event", "tracing", 9), Expansion("info", "tracing", site)>>

Shown(call) == [exprs |-> <<E(info(1), FALSE)>>, calls |-> 1 :> call]
Directed ==
  {Shown(Call("paren", d, f, << >>, m, a)) :
     d \in Upto([head : Heads, value : Values], 2), f \in Upto(Fields \ {<<"user", "=", "capture">>}, 1),
     m \in {"plain", "capture", "none"}, a \in {<< >>, <<<<"capture">>>>}}
Written ==
  {Shown(Call(w, d, f, l, m, a)) :
     w \in {"paren", "bracket", "brace"}, d \in Upto([head : Heads, value : Values], 1), f \in Upto(Fields, 1),
     l \in Leads, m \in DOMAIN MCLiterals \union {"none"}, a \in Args}
Frames ==
  { << >>, info(1), info(2), <<Expansion("event", "tracing", 9)>>, <<Expansion("info", "log", 1)>>,
    <<Expansion("println", "std", 3)>>, <<Expansion("dbg", "mine", 3)>>,
    <<Expansion("format_args", "core", 8), Expansion("println", "std", 3)>>,
    <<Expansion("eprintln", "std", 4)>> \o info(1) }
Walks == {[exprs |-> es, calls |-> (1 :> Call("paren", << >>, << >>, << >>, "capture", <<<<"x">>>>) @@ 2 :> Call("paren", << >>, f, << >>, "mixed", << >>))] :
            es \in [1..3 -> {E(fr, t) : fr \in Frames, t \in BOOLEAN}], f \in {<< >>, <<<<"user">>>>}}
MCCrates == {Directed, Written, Walks}
=============================================================================
