----------------------------- MODULE BuilderLints -----------------------------
(***************************************************************************)
(* The lints about how structs and enums are constructed.                  *)
(*                                                                         *)
(* Derive attributes are gone once macros are expanded.  A pass that runs  *)
(* before (bon_builder_collector) therefore records them in STRUCT_DERIVES,*)
(* by the bare name of the struct: names are not resolved yet.  It meets   *)
(* the items of a file when the file is loaded, also those that cfg will   *)
(* remove, and never those a macro writes.  suggest_builder and            *)
(* needless_builder read the map in the late passes, item by item;         *)
(* redundant_enum_variant_wrapper looks at all constructors of an enum.    *)
(*                                                                         *)
(* A path is the sequence of its segments, a type in a signature the       *)
(* sequence of its heads: <<"Result", "Self">> is Result<Self, _>.         *)
(* The walk is at an item, or at 0 before expansion; a diagnostic is       *)
(* <<lint, item, position in the item>>.                                   *)
(***************************************************************************)
EXTENDS LatePass, FiniteSets, SequencesExt

CONSTANTS
  BuilderCrates,       \* the crates: sequences of items in source order
  DerivePaths,  \* the paths of derives
  SkipDerives,  \* suggest_builder.skip_derives
  SuggestFrom,  \* suggest_builder.threshold
  NeedlessTo    \* needless_builder.threshold

ThresholdsAssumption == SuggestFrom \in Nat /\ NeedlessTo \in Nat
ASSUME ThresholdsAssumption

\* A crate is a sequence of structs, with their attributes, and of enums, whose
\* functions have parameters and pass values on.
BuilderCratesAssumption ==
  \A c \in BuilderCrates :
    /\ c \in Seq(ToSet(c))
    /\ \A i \in DOMAIN c :
         \/ /\ c[i].kind = "struct"
            /\ \A n \in DOMAIN c[i].attrs :
                 /\ c[i].attrs[n].cfg \in {"none", "always", "feature"}
                 /\ \A p \in c[i].attrs[n].derives : p \in DerivePaths /\ p \in Seq(ToSet(p))
         \/ /\ c[i].kind = "enum"
            /\ c[i].fns \in Seq(ToSet(c[i].fns))
            /\ \A n \in DOMAIN c[i].fns : c[i].fns[n].params \in Nat /\ c[i].fns[n].values \in Seq(Nat)
ASSUME BuilderCratesAssumption

VARIABLES
  crate,     \* the items, fixed
  pending,   \* the items that are not macro output and not yet collected
  registry   \* STRUCT_DERIVES

builder_vars == <<crate, pending, registry, at, warned>>

Items   == DOMAIN crate
Structs == {i \in Items : crate[i].kind = "struct"}
Enums   == {i \in Items : crate[i].kind = "enum"}

-----------------------------------------------------------------------------
(* bon_builder_collector *)

\* Sensitivity: any Builder is taken for bon's.
derive_info_LastOnly(path) ==
  [last_segment |-> Last(path), is_bon_builder |-> Last(path) = "Builder"]

derive_info(path) ==
  [last_segment   |-> Last(path),
   is_bon_builder |-> /\ Last(path) = "Builder"
                      /\ Len(path) > 1 /\ path[Len(path) - 1] = "bon"]
DeriveInfos == {derive_info(p) : p \in DerivePaths}

\* derive(...), or under a condition that always holds: cfg_attr(all(), ...).
is_always_true_cfg(attr) == attr.cfg \in {"none", "always"}
collect_derive_names(item) ==
  UNION {{derive_info(p) : p \in item.attrs[n].derives} :
           n \in {k \in DOMAIN item.attrs : is_always_true_cfg(item.attrs[k])}}

Record(name, derives) ==
  [n \in DOMAIN registry \union {name} |-> IF n = name THEN derives ELSE registry[n]]
Recorded(name) == IF name \in DOMAIN registry THEN registry[name] ELSE {}
has_any_derive(name, derives) == \E info \in Recorded(name) : info.last_segment \in derives
has_bon_builder(name) == \E info \in Recorded(name) : info.is_bon_builder

BuilderInit ==
  /\ crate \in BuilderCrates
  /\ pending = {i \in Structs : ~crate[i].expanded}
  /\ registry = << >>
  /\ at = 0
  /\ warned = {}

\* Sensitivity: a later struct of the name replaces the earlier one's derives.
Collect_Replaces(i) ==
  /\ at = 0 /\ i \in pending
  /\ pending' = pending \ {i}
  /\ LET derives == collect_derive_names(crate[i])
     IN  registry' = IF derives = {} THEN registry ELSE Record(crate[i].name, derives)
  /\ UNCHANGED <<crate, at, warned>>

\* Files are loaded, and their items visited, as the expansion reaches them.
Collect(i) ==
  /\ at = 0 /\ i \in pending
  /\ pending' = pending \ {i}
  /\ LET name == crate[i].name
         derives == collect_derive_names(crate[i])
     IN  registry' = IF derives = {} THEN registry
                     ELSE Record(name, Recorded(name) \union derives)
  /\ UNCHANGED <<crate, at, warned>>

\* Attributes that apply are expanded, items that cfg excludes are removed.
Expand ==
  /\ at = 0 /\ pending = {}
  /\ at' = 1
  /\ UNCHANGED <<crate, pending, registry, warned>>

-----------------------------------------------------------------------------
(* suggest_builder, needless_builder *)

\* constructor::return_adt: one Result or Box is peeled.
return_adt(type) == IF Head(type) \in {"Result", "Box"} THEN type[2] ELSE Head(type)

\* PhantomData does not count.
field_count(item) == item.fields - item.phantoms

has_ctor(item) == \E n \in DOMAIN item.fns : return_adt(item.fns[n].output) = "Self"

suggest_builder(item) ==
  /\ ~item.expanded
  /\ ~item.lifetime /\ ~item.repr_c /\ item.named
  /\ field_count(item) >= SuggestFrom
  /\ ~has_bon_builder(item.name)
  /\ ~item.is_builder
  /\ ~has_any_derive(item.name, SkipDerives)
  /\ ~item.default
  /\ has_ctor(item)

needless_builder(item) ==
  /\ ~item.expanded /\ item.named
  /\ has_bon_builder(item.name)
  /\ field_count(item) <= NeedlessTo

-----------------------------------------------------------------------------
(* redundant_enum_variant_wrapper.  A function of an enum passes values:   *)
(* parameters by their position, 0 for anything else.                      *)

Without(s, n) == IF n = Len(s) THEN Front(s) ELSE Front([s EXCEPT ![n] = Last(s)])

\* Sensitivity: a parameter stays after it is matched.
forwards_each_parameter_once_Any(params, values) ==
  Len(params) = Len(values) /\ ToSet(values) \subseteq ToSet(params)

\* swap_remove of the first unmatched parameter that the value is.
remove_parameter(state, value) ==
  LET places == {n \in DOMAIN state.unmatched : state.unmatched[n] = value}
  IN  IF ~state.ok \/ places = {} THEN [state EXCEPT !.ok = FALSE]
      ELSE [state EXCEPT !.unmatched = Without(@, Min(places))]

forwards_each_parameter_once(params, values) ==
  LET after[k \in 0..Len(values)] ==
        IF k = 0 THEN [ok |-> TRUE, unmatched |-> params] ELSE remove_parameter(after[k - 1], values[k])
  IN  Len(params) = Len(values) /\ after[Len(values)].ok

IsCtor(fn) == ~fn.has_self /\ return_adt(fn.output) = "Self"
direct_wrapper(fn) ==
  /\ ~fn.expanded
  /\ fn.simple                  \* every parameter is a plain binding
  /\ fn.builds = "variant"      \* a variant of this enum, written in full
  /\ forwards_each_parameter_once([n \in 1..fn.params |-> n], fn.values)

\* One constructor that does more exempts the enum.
redundant_wrappers(item) ==
  LET ctors == {n \in DOMAIN item.fns : IsCtor(item.fns[n])}
  IN  IF \A n \in ctors : direct_wrapper(item.fns[n]) THEN ctors ELSE {}

Diagnose(lint, applies) == IF applies THEN {<<lint, at, 0>>} ELSE {}

\* One item of the late walk: what cfg has removed is not there.
check_item ==
  /\ at \in Items
  /\ at' = at + 1
  /\ LET item == crate[at]
     IN  warned' = warned \union
           (IF ~item.kept THEN {}
            ELSE IF item.kind = "enum"
            THEN {<<"redundant_enum_variant_wrapper", at, n>> : n \in redundant_wrappers(item)}
            ELSE Diagnose("suggest_builder", suggest_builder(item))
                 \union Diagnose("needless_builder", needless_builder(item)))
  /\ UNCHANGED <<crate, pending, registry>>

BuilderNext == (\E i \in pending : Collect(i)) \/ Expand \/ check_item
BuilderSpec == BuilderInit /\ [][BuilderNext]_builder_vars

-----------------------------------------------------------------------------
(* Properties. *)

\* The variables keep their types.
BuilderTypeOK ==
  /\ pending \subseteq Structs
  /\ DOMAIN registry \subseteq {crate[i].name : i \in Structs}
  /\ \A name \in DOMAIN registry : registry[name] \subseteq DeriveInfos /\ registry[name] # {}
  /\ at \in 0..(Len(crate) + 1)
  /\ warned \subseteq ({"suggest_builder", "needless_builder", "redundant_enum_variant_wrapper"}
                        \X Items \X Nat)

\* The struct itself says bon::Builder, under no condition, and at the end of a
\* path, as the collector takes it: my::bon::Builder is one (mod.rs:43 says
\* "exactly"), a Builder that is imported or derived under cfg_attr is not.
NamesBon(path) == Len(path) > 1 /\ SubSeq(path, Len(path) - 1, Len(path)) = <<"bon", "Builder">>
WritesBon(item) ==
  /\ ~item.expanded
  /\ \E n \in DOMAIN item.attrs : item.attrs[n].cfg # "feature" /\ \E p \in item.attrs[n].derives : NamesBon(p)
Same(i, j) == crate[i].name = crate[j].name
AllVisited == at > Len(crate)

\* A struct that names a builder so is never told to have one, whatever else
\* has its name and in whatever order the files are loaded.
NoBuilderTwice == \A i \in Structs : WritesBon(crate[i]) => <<"suggest_builder", i, 0>> \notin warned

\* A builder is called needless only where a struct of that name has one: the
\* Builder of another crate and a conditional derive do not count.
NeedlessHasBuilder ==
  \A i \in Structs : <<"needless_builder", i, 0>> \in warned => \E j \in Structs : Same(i, j) /\ WritesBon(crate[j])

\* No struct is told both to have a builder and not to, even if the two
\* thresholds overlap.
NeverBoth == \A i \in Structs : ~(<<"suggest_builder", i, 0>> \in warned /\ <<"needless_builder", i, 0>> \in warned)

\* What name-only matching costs: a struct whose name is its own is judged by
\* its own derives.
OwnNameOwnVerdict ==
  AllVisited => \A i \in Structs :
    (crate[i].kept /\ \A j \in Structs : Same(i, j) => i = j) =>
      /\ <<"needless_builder", i, 0>> \in warned <=>
           (WritesBon(crate[i]) /\ crate[i].named /\ field_count(crate[i]) <= NeedlessTo)
      /\ <<"suggest_builder", i, 0>> \in warned =>
           \A n \in DOMAIN crate[i].attrs : crate[i].attrs[n].cfg # "feature" =>
             \A p \in crate[i].attrs[n].derives : Last(p) \notin SkipDerives /\ ~NamesBon(p)

\* The wrappers reported for an enum are all of its constructors, and each
\* passes its parameters on, every one exactly once, in any order.
IsPermutationOf(values, n) == /\ Len(values) = n
                              /\ \A p \in 1..n : \E k \in DOMAIN values : values[k] = p
WrappersOnlyForward ==
  \A i \in Enums : \A n \in DOMAIN crate[i].fns :
    <<"redundant_enum_variant_wrapper", i, n>> \in warned =>
      \A k \in DOMAIN crate[i].fns : IsCtor(crate[i].fns[k]) =>
        /\ <<"redundant_enum_variant_wrapper", i, k>> \in warned
        /\ crate[i].fns[k].builds = "variant"
        /\ IsPermutationOf(crate[i].fns[k].values, crate[i].fns[k].params)

\* The builder lints and the registry agree: whoever derives bon::Builder under
\* that name and no condition is not told to, and nobody is told both.
VerdictsAgree == BuilderTypeOK /\ NoBuilderTwice /\ NeedlessHasBuilder /\ NeverBoth
=============================================================================
