------------------------------ MODULE LogMacros ------------------------------
(***************************************************************************)
(* The lints about calls of logging macros: unstructured_log_fields and    *)
(* debug_remnants.  A late pass only meets the expressions that a macro    *)
(* has left behind, several for one call.  Each lint therefore looks for   *)
(* the macro in the chain of expansions and remembers the call sites it    *)
(* has seen; what the call says is read again from its source text.        *)
(*                                                                         *)
(* An expression is [frames |-> its expansions, innermost first,           *)
(* test |-> it is in a test zone], an expansion [name, krate |-> of the    *)
(* macro, site |-> its call site].  The text of a call is the sequence of  *)
(* the tokens after its opening delimiter: a string literal is one, "raw"  *)
(* the r or r# before a raw one, "comment" a comment, "open" and "bracket" *)
(* an opening parenthesis and bracket, "close" what closes either.  A call *)
(* is [delimiter |-> "paren", "bracket" or "brace", text, ends |-> the     *)
(* positions where its directives end, fields |-> how many it has, fmt |-> *)
(* where its format string is, 0 without one]: the lint reads the          *)
(* delimiter and the text, the rest is what the author means by it.        *)
(* Left out are calls with a quote, a comma, a parenthesis or a bracket in *)
(* a comment, a character or a raw or nested string: the scan of the code  *)
(* takes it for one of the call.                                           *)
(* The walk is at an expression; a diagnostic is <<lint, call site,        *)
(* expression>>.                                                           *)
(***************************************************************************)
EXTENDS LatePass, FiniteSets, SequencesExt, FiniteSetsExt

CONSTANTS
  LogCrates,  \* sets of [exprs, calls] records
  Literals    \* the string literals: token |-> its characters, "escape" being
              \* \u before the braced code of a character that is not a brace

VARIABLES
  exprs,     \* the expressions, in the order of the walk, fixed
  calls,     \* call site |-> what is written there, fixed
  seen_log, seen_debug  \* seen_callsites of the two passes

log_vars == <<exprs, calls, at, seen_log, seen_debug, warned>>

-----------------------------------------------------------------------------
(* The text of a call *)

Directives == {"target", "parent"}
IsLiteral(token) == token \in DOMAIN Literals

\* What the lint takes for the arguments follows the first parenthesis, even
\* if the call is written with other delimiters.
args(call) ==
  LET opens == {i \in DOMAIN call.text : call.text[i] = "open"}
  IN  IF call.delimiter = "paren" THEN call.text
      ELSE IF opens = {} THEN << >> ELSE SubSeq(call.text, Min(opens) + 1, Len(call.text))

Depth(tokens, i) ==
  Cardinality({j \in 1..(i - 1) : tokens[j] \in {"open", "bracket"}})
    - Cardinality({j \in 1..(i - 1) : tokens[j] = "close"})

\* The position after the last comma at depth 0 before i.
seg_start(tokens, i) ==
  Max({1} \union {j + 1 : j \in {j \in 1..(i - 1) : tokens[j] = "comma" /\ Depth(tokens, j) = 0}})

\* "net" in target: "net" is not the format string.
is_directive_value(tokens, i) ==
  LET segment == SubSeq(tokens, seg_start(tokens, i), i - 1)
  IN  Len(segment) = 2 /\ segment[1] \in Directives /\ segment[2] = "colon"

\* Sensitivity: a literal in the argument of a function counts.
split_at_format_string_AnyDepth(tokens) ==
  LET strings == {i \in DOMAIN tokens : IsLiteral(tokens[i]) /\ ~is_directive_value(tokens, i)}
  IN  IF strings = {} THEN 0 ELSE Min(strings)

\* The position of the format string, 0 if the call ends before one.
split_at_format_string(tokens) ==
  LET ends == {i \in DOMAIN tokens : tokens[i] = "close" /\ Depth(tokens, i) = 0}
      strings == {i \in DOMAIN tokens : /\ IsLiteral(tokens[i]) /\ Depth(tokens, i) = 0
                                        /\ ~is_directive_value(tokens, i)
                                        /\ \A e \in ends : i < e}
  IN  IF strings = {} THEN 0 ELSE Min(strings)

\* The literal has a brace that is not doubled: the scan steps over two at a time.
has_format_placeholders(literal) ==
  LET chars == Literals[literal]
      from[i \in 1..(Len(chars) + 1)] ==
        IF i > Len(chars) THEN FALSE
        ELSE IF chars[i] # "brace" THEN from[i + 1]
        ELSE IF i < Len(chars) /\ chars[i + 1] = "brace" THEN from[i + 2]
        ELSE TRUE
  IN  from[1]

\* The first comma that is not in a literal, whatever encloses it.
find_top_level_comma(tokens) ==
  LET commas == {i \in DOMAIN tokens : tokens[i] = "comma"} IN IF commas = {} THEN 0 ELSE Min(commas)

\* What is left of the tokens after the directives at their beginning.
strip_leading_directives(before) ==
  LET rest[i \in 1..(Len(before) + 1)] ==
        IF i < Len(before) /\ before[i] \in Directives /\ before[i + 1] = "colon"
        THEN LET comma == find_top_level_comma(SubSeq(before, i + 2, Len(before)))
             IN  IF comma = 0 THEN << >> ELSE rest[i + 2 + comma]
        ELSE SubSeq(before, i, Len(before))
  IN  rest[1]

format_only_call(tokens) ==
  LET fmt == split_at_format_string(tokens)
      after_directives == strip_leading_directives(SubSeq(tokens, 1, fmt - 1))
  IN  /\ fmt # 0
      /\ has_format_placeholders(tokens[fmt])
      /\ ToSet(after_directives) \subseteq {"comma"}

-----------------------------------------------------------------------------
(* What can be written *)

\* tracing has one directive more than the lint knows.
MacroDirectives == Directives \union {"name"}

LiteralsAssumption ==
  \A token \in DOMAIN Literals :
    /\ Literals[token] \in Seq(ToSet(Literals[token]))
    /\ token \notin {"open", "bracket", "close", "comma", "colon", "comment", "raw"} \union MacroDirectives
ASSUME LiteralsAssumption

\* A directive from b to the comma or the closing delimiter at e: a name, a
\* colon and an expression, and comments wherever the author likes.
IsDirective(text, b, e) ==
  /\ \E name \in b..(e - 3), colon \in (b + 1)..(e - 2) :
       /\ text[name] \in MacroDirectives /\ text[colon] = "colon"
       /\ name < colon /\ \A i \in b..(colon - 1) : i # name => text[i] = "comment"
  /\ \A i \in b..(e - 1) : Depth(text, i) = 0 => text[i] \notin {"comma", "close"}
  /\ Depth(text, e) = 0 /\ (text[e] = "comma" \/ (text[e] = "close" /\ e = Len(text)))

\* The lint sees a directive at b.
IsKnown(text, b) == b < Len(text) /\ text[b] \in Directives /\ text[b + 1] = "colon"

\* Something else than a directive that the lint knows.
IsOther(text, b) == b <= Len(text) /\ text[b] # "comma" /\ ~IsKnown(text, b)

\* Where the n-th directive begins, or what follows the last one.
Begin(call, n) == IF n = 1 THEN 1 ELSE call.ends[n - 1] + 1
AfterDirectives(call) == Begin(call, Len(call.ends) + 1)

\* The directives, then the fields, then the format string and its arguments.
\* A field begins with its name, which may be quoted, or with a sigil; before
\* the format string may stand a comment, the r of a raw string or a macro.
IsMacroCall(call) ==
  LET next == AfterDirectives(call)
  IN  /\ call.delimiter \in {"paren", "bracket", "brace"}
      /\ call.text \in Seq(ToSet(call.text)) /\ call.ends \in Seq(DOMAIN call.text)
      /\ \A n \in DOMAIN call.ends : IsDirective(call.text, Begin(call, n), call.ends[n])
      /\ call.fields \in Nat /\ call.fmt \in {0} \union DOMAIN call.text
      /\ call.fmt # 0 => IsLiteral(call.text[call.fmt])
      /\ call.fields > 0 => IsOther(call.text, next)
      /\ call.fields = 0 /\ call.fmt # 0 =>
           call.fmt = next \/ (call.fmt > next /\ IsOther(call.text, next) /\ ~IsLiteral(call.text[next]))
      /\ call.fields = 0 /\ call.fmt = 0 => \A i \in next..Len(call.text) : ~IsLiteral(call.text[i])

Levels == {"info", "warn", "debug", "error", "trace"}
IsLevelMacro(frame) == frame.krate = "tracing" /\ frame.name \in Levels

\* The level macros of tracing do not expand to each other.
LogCratesAssumption ==
  \A crates \in LogCrates : \A c \in crates :
    /\ c.exprs \in Seq(ToSet(c.exprs))
    /\ \A k \in DOMAIN c.exprs :
         /\ c.exprs[k].frames \in Seq(ToSet(c.exprs[k].frames))
         /\ \A m, n \in DOMAIN c.exprs[k].frames :
              IsLevelMacro(c.exprs[k].frames[m]) /\ IsLevelMacro(c.exprs[k].frames[n]) => m = n
    /\ \A site \in DOMAIN c.calls : IsMacroCall(c.calls[site])
ASSUME LogCratesAssumption

-----------------------------------------------------------------------------
(* The passes *)

LogInit ==
  /\ \E crates \in LogCrates : \E c \in crates : exprs = c.exprs /\ calls = c.calls
  /\ at = 1
  /\ seen_log = {} /\ seen_debug = {} /\ warned = {}

\* Sensitivity: the innermost expansion alone is looked at.
find_tracing_macro_callsite_Innermost(e) ==
  {e.frames[n].site : n \in {n \in DOMAIN e.frames : n = 1 /\ IsLevelMacro(e.frames[n])}}

\* Outwards to the first level macro of tracing.
find_tracing_macro_callsite(e) ==
  LET macros == {n \in DOMAIN e.frames : IsLevelMacro(e.frames[n])}
  IN  IF macros = {} THEN {} ELSE {e.frames[Min(macros)].site}

\* The innermost expansion alone.
DebugMacros == {"println", "print", "eprintln", "dbg"}
debug_callsite(e) ==
  {e.frames[n].site : n \in {n \in DOMAIN e.frames :
     n = 1 /\ e.frames[n].name \in DebugMacros /\ e.frames[n].krate \in {"std", "core"}}}

\* The text of a call of a macro that is not at hand is not in calls.
format_only(site) == site \in DOMAIN calls /\ format_only_call(args(calls[site]))

\* Both passes look at each expression.  A call site counts as seen before
\* it is known whether it is reported.
check_macro ==
  /\ at \in DOMAIN exprs
  /\ LET e == exprs[at]
         log == find_tracing_macro_callsite(e) \ seen_log
         debug == debug_callsite(e) \ seen_debug
     IN  /\ seen_log' = seen_log \union log
         /\ seen_debug' = seen_debug \union debug
         /\ warned' = warned
              \union ({"unstructured_log_fields"} \X {s \in log : ~e.test /\ format_only(s)} \X {at})
              \union ({"debug_remnants"} \X {s \in debug : ~e.test} \X {at})
  /\ at' = at + 1
  /\ UNCHANGED <<exprs, calls>>

LogSpec == LogInit /\ [][check_macro]_log_vars

-----------------------------------------------------------------------------
(* Properties. *)

Sites == UNION {{exprs[k].frames[n].site : n \in DOMAIN exprs[k].frames} : k \in DOMAIN exprs}
Warned(lint) == {w[2] : w \in {w \in warned : w[1] = lint}}

\* The variables keep their types.
LogTypeOK ==
  /\ at \in 1..(Len(exprs) + 1)
  /\ seen_log \subseteq Sites /\ seen_debug \subseteq Sites
  /\ Warned("unstructured_log_fields") \subseteq seen_log
  /\ Warned("debug_remnants") \subseteq seen_debug

\* However many expressions a call leaves behind, it is reported once, and
\* never for one that is in a test.
OncePerCall ==
  /\ \A v \in warned, w \in warned : v[1] = w[1] /\ v[2] = w[2] => v = w
  /\ \A w \in warned : ~exprs[w[3]].test

\* A single brace, not that of an escape: it ends a run of braces of odd length.
Captures(literal) ==
  LET chars == Literals[literal]
  IN  \E i \in DOMAIN chars, j \in DOMAIN chars :
        /\ j <= i /\ (i - j) % 2 = 0 /\ \A k \in j..i : chars[k] = "brace"
        /\ j > 1 => chars[j - 1] \notin {"brace", "escape"}
        /\ i < Len(chars) => chars[i + 1] # "brace"
FormatOnly(call) == call.fields = 0 /\ call.fmt # 0 /\ Captures(call.text[call.fmt])

\* The string of a directive is not all of its value: it is raw, follows a
\* comment or stands in a block.  It is taken for the format string.
StrayString(call) ==
  \E n \in DOMAIN call.ends : \E i \in (Begin(call, n) + 3)..(call.ends[n] - 1) :
    IsKnown(call.text, Begin(call, n)) /\ IsLiteral(call.text[i]) /\ Depth(call.text, i) = 0
QuotedKey(call) == call.fields > 0 /\ IsLiteral(call.text[AfterDirectives(call)])
HasEscape(call) == call.fmt # 0 /\ "escape" \in ToSet(Literals[call.text[call.fmt]])

\* What the lint may report without a reason: another string of the call is
\* taken for the format string, or \u{..} for a captured value.
Misread(call) == call.delimiter # "paren" \/ StrayString(call) \/ QuotedKey(call) \/ HasEscape(call)

\* Only calls that have no field and capture values in their format string
\* are reported, whatever the strings in their directives and arguments say;
\* but for those that are misread.
OnlyFormatOnly ==
  \A site \in Warned("unstructured_log_fields") :
    site \in DOMAIN calls /\ (FormatOnly(calls[site]) \/ Misread(calls[site]))

\* The comma of a call in the value of a directive is taken for its end.
CommaInside(call) ==
  \E n \in DOMAIN call.ends : \E i \in Begin(call, n)..(call.ends[n] - 1) : call.text[i] = "comma"

\* What the lint may lose: it finds no arguments, does not see that a directive
\* is one (the name of the event, a comment before the colon) or where it ends,
\* or finds something before the format string (a comment, r, concat!).
Lost(call) ==
  \/ call.delimiter # "paren"
  \/ \E n \in DOMAIN call.ends : ~IsKnown(call.text, Begin(call, n))
  \/ StrayString(call) \/ CommaInside(call)
  \/ call.fmt # AfterDirectives(call)

LogExprs(site) ==
  {k \in DOMAIN exprs : \E n \in DOMAIN exprs[k].frames :
     exprs[k].frames[n].site = site /\ IsLevelMacro(exprs[k].frames[n])}

\* No such call slips through but for those exceptions, unless it is visited
\* in a test first: a macro may put one call into a test and elsewhere.
NoneSlips ==
  at > Len(exprs) => \A site \in DOMAIN calls :
    /\ FormatOnly(calls[site]) /\ ~Lost(calls[site])
    /\ LogExprs(site) # {} /\ ~exprs[Min(LogExprs(site))].test
    => site \in Warned("unstructured_log_fields")

\* A diagnostic is due: typed, one for a call, and only for a call that puts its
\* values into the message or is misread.
WarningsAreDue == LogTypeOK /\ OncePerCall /\ OnlyFormatOnly
=============================================================================
