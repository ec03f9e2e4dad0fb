---------------------------- MODULE MCErrorTypes ----------------------------
(***************************************************************************)
(* Every order of three impls of two types, one generic, that the compiler *)
(* accepts; every type; every function.                                    *)
(***************************************************************************)
EXTENDS ErrorTypes, TLC

CONSTANTS Plain, Generic

Adts(v, n, t) == Plain :> [vis |-> v, error_name |-> n, test |-> t] @@ Generic :> [vis |-> "pub", error_name |-> TRUE, test |-> FALSE]

Impl(adt, args, trait, expanded, source, fields, fmt) ==
  [kind |-> "impl", adt |-> adt, args |-> args, trait |-> trait, expanded |-> expanded,
   source |-> source, error_fields |-> fields, fmt |-> fmt]
Fmts == {<<"self">>, <<"self", "error">>, <<"cause">>, <<"code", "deferred">>}
Impls ==
  { Impl(a[1], a[2], "Error", x, s, f, << >>) :
      a \in {<<Plain, "any">>, <<Generic, "A">>, <<Generic, "B">>}, x \in {FALSE}, s \in BOOLEAN, f \in {{}, {"cause"}} }
  \union { Impl(Plain, "any", "Error", TRUE, TRUE, {"cause"}, << >>), Impl(Plain, "any", "Clone", FALSE, FALSE, {}, << >>) }
  \union { Impl(a[1], a[2], "Display", FALSE, FALSE, {}, f) : a \in {<<Plain, "any">>, <<Generic, "A">>, <<Generic, "B">>}, f \in Fmts }
  \union { Impl(Plain, "any", "Display", TRUE, FALSE, {}, <<"cause">>) }

\* One impl of a trait for a type.
Coherent(s) ==
  \A m \in DOMAIN s, n \in DOMAIN s :
    m # n => ~(s[m].adt = s[n].adt /\ s[m].trait = s[n].trait /\ s[m].args = s[n].args)

Type == [kind |-> "type", adt |-> Plain, expanded |-> FALSE]
Fn(v, e, async, error, reachable, test) ==
  [kind |-> "fn", expanded |-> FALSE, closure |-> FALSE, trait_method |-> FALSE, entry |-> e, test |-> test, vis |-> v,
   reachable |-> reachable, output |-> async \o <<"Result">>, error |-> error]
Vis == {"pub", "pub(crate)", "private at the root", "narrower"}

MCCrates ==
  { {[items |-> s, adts |-> Adts("pub", TRUE, FALSE)] : s \in {s \in [1..3 -> Impls] : Coherent(s)}},
    {[items |-> <<Type, i>>, adts |-> Adts(v, n, t)] : i \in Impls, v \in Vis, n \in BOOLEAN, t \in BOOLEAN},
    {[items |-> <<Fn(v, e, a, error, r, t)>>, adts |-> Adts("pub", TRUE, FALSE)] :
       v \in Vis, e \in BOOLEAN, a \in {<< >>, <<"impl Future">>}, r \in BOOLEAN, t \in BOOLEAN,
       error \in {"&str", "Cow<str>", "Box<dyn Error>", "anyhow::Error", "miette::Report", "Typed"}} }
=============================================================================
