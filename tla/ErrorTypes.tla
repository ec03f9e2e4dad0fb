----------------------------- MODULE ErrorTypes -----------------------------
(***************************************************************************)
(* proper_error_type: the error types of an API implement Error, are not   *)
(* erased in signatures, and do not say twice what source() returns.       *)
(*                                                                         *)
(* The late pass meets functions, types and impl blocks in source order.   *)
(* What needs both the Error and the Display impl of a type is decided     *)
(* when the crate has been walked, from two maps that are keyed by the     *)
(* type alone: of several impls for different arguments of a generic type  *)
(* the last one stays.  Macro output is not looked at, so a derived impl   *)
(* counts as an impl but is never in the maps.                             *)
(*                                                                         *)
(* An item has a kind and, for                                             *)
(*   "type"  adt;                                                          *)
(*   "impl"  adt, trait, args |-> the arguments it is for, or "any",       *)
(*           source |-> it has an item source, error_fields |-> the fields *)
(*           whose types implement Error, fmt |-> what fmt evaluates: a    *)
(*           field, "error" (a value of an error type), "self", or, in a   *)
(*           closure, "deferred";                                          *)
(*   "fn"    closure, trait_method, entry, test, vis, reachable, output    *)
(*           |-> the heads of its type, error |-> that of its error.       *)
(*                                                                         *)
(* The walk is at an item; a diagnostic is <<what, item>>.                 *)
(***************************************************************************)
EXTENDS LatePass, FiniteSets, SequencesExt

CONSTANT
  ErrorCrates  \* sets of [items, adts] records; adts: type |-> [vis, error_name, test]

\* A crate knows the types it declares or has impl blocks for.
ErrorCratesAssumption ==
  \A crates \in ErrorCrates : \A c \in crates :
    /\ c.items \in Seq(ToSet(c.items))
    /\ \A n \in DOMAIN c.items : c.items[n].kind \in {"type", "impl"} => c.items[n].adt \in DOMAIN c.adts
ASSUME ErrorCratesAssumption

VARIABLES
  items, adts,    \* the crate, fixed
  error_impls,    \* adt |-> the impl of Error in the map
  display_impls,  \* adt |-> the impl of Display in the map
  decided         \* the types check_crate_post has come to

error_vars == <<items, adts, at, error_impls, display_impls, decided, warned>>

Put(map, key, value) == [k \in DOMAIN map \union {key} |-> IF k = key THEN value ELSE map[k]]

-----------------------------------------------------------------------------
\* pub, or pub(crate) that is written: at the crate root an item without a
\* keyword is as visible.
vis_if_at_least_pub_crate(vis) == vis \in {"pub", "pub(crate)"}

classify_unstructured(error) ==
  CASE error \in {"&str", "String", "Cow<str>", "Box<dyn Error>"} -> "Basic"
    [] error \in {"anyhow::Error", "miette::Report"} -> "ErasedCrate"
    [] OTHER -> "None"

\* Erased errors matter only where other crates can reach the function.
check_fn(item) ==
  /\ ~item.expanded /\ ~item.trait_method /\ ~item.entry /\ ~item.test /\ ~item.closure
  /\ vis_if_at_least_pub_crate(item.vis)
  /\ Head(peel_async_fn_return_ty(item.output)) = "Result"
  /\ \/ classify_unstructured(item.error) = "Basic"
     \/ classify_unstructured(item.error) = "ErasedCrate" /\ item.reachable

\* A derived impl counts, one for some arguments of a generic type does not.
implements_error(adt) ==
  \E n \in DOMAIN items : /\ items[n].kind = "impl" /\ items[n].trait = "Error"
                          /\ items[n].adt = adt /\ items[n].args = "any"

check_error_named_type(item) ==
  /\ ~item.expanded /\ adts[item.adt].error_name
  /\ vis_if_at_least_pub_crate(adts[item.adt].vis) /\ ~adts[item.adt].test
  /\ ~implements_error(item.adt)

lacks_source(item) ==
  /\ ~item.source /\ item.error_fields # {}
  /\ vis_if_at_least_pub_crate(adts[item.adt].vis)

\* What fmt evaluates outside closures, but for self.
renders_source(display, error_fields) ==
  \E n \in DOMAIN display.fmt : display.fmt[n] = "error" \/ display.fmt[n] \in error_fields

-----------------------------------------------------------------------------
ErrorInit ==
  /\ \E crates \in ErrorCrates : \E c \in crates : items = c.items /\ adts = c.adts
  /\ at = 1
  /\ error_impls = << >> /\ display_impls = << >>
  /\ decided = {} /\ warned = {}

At(kind) == at \in DOMAIN items /\ items[at].kind = kind /\ at' = at + 1
Warn(what, applies) == warned' = IF applies THEN warned \union {<<what, at>>} ELSE warned

CheckFn ==
  /\ At("fn") /\ Warn("signature", check_fn(items[at]))
  /\ UNCHANGED <<items, adts, error_impls, display_impls, decided>>

CheckType ==
  /\ At("type") /\ Warn("no_error", check_error_named_type(items[at]))
  /\ UNCHANGED <<items, adts, error_impls, display_impls, decided>>

\* Sensitivity: the first impl stays.
collect_error_impl_First ==
  /\ At("impl") /\ ~items[at].expanded /\ items[at].trait = "Error"
  /\ Warn("no_source", lacks_source(items[at]))
  /\ error_impls' = IF items[at].adt \in DOMAIN error_impls THEN error_impls ELSE Put(error_impls, items[at].adt, at)
  /\ UNCHANGED <<items, adts, display_impls, decided>>

\* collect_trait_impls.
collect_error_impl ==
  /\ At("impl") /\ ~items[at].expanded /\ items[at].trait = "Error"
  /\ Warn("no_source", lacks_source(items[at]))
  /\ error_impls' = Put(error_impls, items[at].adt, at)
  /\ UNCHANGED <<items, adts, display_impls, decided>>

collect_display_impl ==
  /\ At("impl") /\ ~items[at].expanded /\ items[at].trait = "Display"
  /\ display_impls' = Put(display_impls, items[at].adt, at)
  /\ UNCHANGED <<items, adts, error_impls, decided, warned>>

OtherImpl ==
  /\ At("impl") /\ (items[at].expanded \/ items[at].trait \notin {"Error", "Display"})
  /\ UNCHANGED <<items, adts, error_impls, display_impls, decided, warned>>

\* Sensitivity: an impl without source() is asked, too.
check_crate_post_AnySource(adt) ==
  /\ at > Len(items) /\ adt \in DOMAIN error_impls \ decided
  /\ decided' = decided \union {adt}
  /\ warned' = warned \union
       (IF adt \notin DOMAIN display_impls THEN {}
        ELSE LET error == items[error_impls[adt]]
                 display == items[display_impls[adt]]
             IN  {<<"manual_impls", error_impls[adt]>>}
                 \union IF error.error_fields # {} /\ renders_source(display, error.error_fields)
                        THEN {<<"rendered_twice", display_impls[adt]>>} ELSE {})
  /\ UNCHANGED <<items, adts, at, error_impls, display_impls>>

\* check_crate_post: the maps are hash maps, the types come in any order.
check_crate_post(adt) ==
  /\ at > Len(items) /\ adt \in DOMAIN error_impls \ decided
  /\ decided' = decided \union {adt}
  /\ warned' = warned \union
       (IF adt \notin DOMAIN display_impls THEN {}
        ELSE LET error == items[error_impls[adt]]
                 display == items[display_impls[adt]]
             IN  {<<"manual_impls", error_impls[adt]>>}
                 \union IF /\ error.source /\ error.error_fields # {}
                           /\ renders_source(display, error.error_fields)
                        THEN {<<"rendered_twice", display_impls[adt]>>} ELSE {})
  /\ UNCHANGED <<items, adts, at, error_impls, display_impls>>

CheckItem == CheckType \/ collect_error_impl \/ collect_display_impl \/ OtherImpl
ErrorNext == CheckFn \/ CheckItem \/ \E adt \in DOMAIN adts : check_crate_post(adt)
ErrorSpec == ErrorInit /\ [][ErrorNext]_error_vars

-----------------------------------------------------------------------------
(* Properties. *)

Written(trait, adt) ==
  {n \in DOMAIN items : /\ items[n].kind = "impl" /\ ~items[n].expanded
                        /\ items[n].trait = trait /\ items[n].adt = adt}
AllDecided == at > Len(items) /\ decided = DOMAIN error_impls

\* The variables keep their types: the maps hold impls of their types.
ErrorTypeOK ==
  /\ at \in 1..(Len(items) + 1)
  /\ DOMAIN error_impls \subseteq DOMAIN adts /\ \A adt \in DOMAIN error_impls : error_impls[adt] \in Written("Error", adt)
  /\ DOMAIN display_impls \subseteq DOMAIN adts /\ \A adt \in DOMAIN display_impls : display_impls[adt] \in Written("Display", adt)
  /\ decided \subseteq DOMAIN error_impls
  /\ \A w \in warned : w[2] \in DOMAIN items

\* Wherever the two impls stand, a type that has both by hand is reported
\* once, at the last of its Error impls; a derived one never makes a pair.
HandWrittenPairsAreNamed ==
  AllDecided => \A adt \in DOMAIN adts :
    LET errors == Written("Error", adt)
    IN  {n \in errors : <<"manual_impls", n>> \in warned} =
          IF Written("Display", adt) = {} THEN {} ELSE {n \in errors : \A m \in errors : m <= n}

\* A type with one Error impl is told that its Display repeats source() iff
\* there is a source() and fmt evaluates a field that is an error; it is then never told
\* that source() is missing.
RepetitionIsReal ==
  AllDecided => \A adt \in DOMAIN adts : \A error \in Written("Error", adt), display \in Written("Display", adt) :
    Written("Error", adt) = {error} =>
      /\ ~(<<"rendered_twice", display>> \in warned /\ <<"no_source", error>> \in warned)
      /\ Written("Display", adt) = {display} =>
           (<<"rendered_twice", display>> \in warned <=>
              /\ items[error].source /\ items[error].error_fields # {}
              /\ ({"error"} \union items[error].error_fields) \intersect ToSet(items[display].fmt) # {})

\* The two maps keep their types, and at the end every pair of impls is named.
PairsAreNamed == ErrorTypeOK /\ HandWrittenPairsAreNamed
=============================================================================
