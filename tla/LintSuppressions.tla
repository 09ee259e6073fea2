--------------------------- MODULE LintSuppressions ---------------------------
(***************************************************************************)
(* NOLINT comments, and the header guard, whose check reads some of them      *)
(* before their lines are reached: ParseNolintSuppressions,                  *)
(* ProcessGlobalSuppresions, IsErrorSuppressedByNolint and                   *)
(* CheckForHeaderGuard of tools/cpplint/cpplint.py.                          *)
(***************************************************************************)
EXTENDS LintBlocks

CONSTANTS
  Nolint,        \* token -> [next, category] of the comments that suppress
  GlobalNolint,  \* token -> the categories it suppresses in the whole file
  Known, Legacy  \* _ERROR_CATEGORIES, _LEGACY_ERROR_CATEGORIES

NoSuppressions == [lines |-> {}, global |-> {}]

(* ParseNolintSuppressions: the first NOLINT of a line counts.  The value is     *)
(* the suppressions and the reports.                                         *)
ParseNolintSuppressions(suppressions, raw_line, n) ==
  LET first   == SelectInSeq(raw_line, LAMBDA t : t \in DOMAIN Nolint)
      comment == Nolint[raw_line[first]]
      for     == IF comment.next THEN n + 1 ELSE n
  IN IF first = 0 THEN [suppressions |-> suppressions, reports |-> {}]
     ELSE IF comment.category \in Known \cup {"*"}
     THEN [suppressions |-> [suppressions EXCEPT !.lines = @ \cup {<<comment.category, for>>}],
           reports |-> {}]
     ELSE [suppressions |-> suppressions,
           reports |-> IF comment.category \in Legacy THEN {}
                       ELSE {Report(n, "readability/nolint", 5)}]

ProcessGlobalSuppressions(suppressions, lines) ==
  [suppressions EXCEPT !.global =
     UNION {GlobalNolint[t] : t \in {u \in DOMAIN GlobalNolint : \E l \in ToSet(lines) : Has(l, u)}}]

(* Mutant: NOLINT without a category is not looked up. *)
IsErrorSuppressedByCategory(suppressions, category, n) ==
  \/ category \in suppressions.global
  \/ <<category, n>> \in suppressions.lines

IsErrorSuppressedByNolint(suppressions, category, n) ==
  \/ category \in suppressions.global
  \/ <<category, n>> \in suppressions.lines
  \/ <<"*", n>> \in suppressions.lines

-----------------------------------------------------------------------------
(* CheckForHeaderGuard, of the lines without raw strings.  cppvar is the        *)
(* variable that the path of the file asks for; deprecated, with one more     *)
(* underscore, gives reports of confidence 0.  The value is what happens: a   *)
(* sequence of stages, each the suppressions read so far and the reports that *)
(* they may suppress.                                                        *)

Stage(suppressions, reports) == [suppressions |-> suppressions, reports |-> reports]

(* The first line of at least two words that begins with a directive.         *)
FirstWith(lines, directive) ==
  SelectInSeq(lines, LAMBDA l : Len(l) >= 2 /\ l[1] = directive)

(* A comment after #endif that names the guard.                               *)
EndifNames(line, mark, var) == IsPrefix(<<"#endif", mark, var>>, line)

(* "//" comments, by a regular expression that knows no escapes.              *)
HasLineComment(line) ==
  Commented([i \in DOMAIN line |-> IF line[i] = "\\\"" THEN "\"" ELSE line[i]])

EndifReports(lines, endif, cppvar, deprecated) ==
  LET line == IF endif = 0 THEN <<>> ELSE lines[endif]
      at   == IF endif = 0 THEN 1 ELSE endif
      Marks == IF \E i \in 2 .. Len(lines) - 1 : HasLineComment(lines[i])
               THEN {"//"} ELSE {"//", "/*"}
  IN CASE \E mark \in Marks : EndifNames(line, mark, cppvar) -> {}
       [] \E mark \in Marks : EndifNames(line, mark, deprecated) ->
            {Report(at, "build/header_guard", 0)}
       [] OTHER -> {Report(at, "build/header_guard", 5)}

CheckForHeaderGuard(suppressions, lines, indented, cppvar, deprecated) ==
  LET ifndef == FirstWith(lines, "#ifndef")
      define == FirstWith(lines, "#define")
      endif  == SelectLastInSeq([i \in DOMAIN lines |-> IF i \in indented THEN <<>> ELSE lines[i]],
                                LAMBDA l : At(l, 1, {"#endif"}))
      guard  == lines[ifndef][2]
      level  == IF guard = deprecated THEN 0 ELSE 5
      style  == IF guard = cppvar THEN Stage(suppressions, {})
                ELSE LET read == ParseNolintSuppressions(suppressions, lines[ifndef], ifndef)
                     IN Stage(read.suppressions,
                              read.reports \cup {Report(ifndef, "build/header_guard", level)})
      read   == ParseNolintSuppressions(style.suppressions,
                                        IF endif = 0 THEN lines[1] ELSE lines[endif], endif)
      Exempt(l) == \/ At(l, 1, {"#pragma once"})
                   \/ \E i \in DOMAIN l : l[i] = "//" /\ At(l, i + 1, {"NOLINT(build/header_guard)"})
  IN IF \E l \in ToSet(lines) : Exempt(l) THEN <<>>
     ELSE IF ifndef = 0 \/ define = 0 THEN <<Stage(suppressions, {Report(1, "build/header_guard", 5)})>>
     ELSE IF guard # lines[define][2] THEN <<Stage(suppressions, {Report(1, "build/header_guard", 5)})>>
     ELSE <<style, Stage(read.suppressions,
                         read.reports \cup EndifReports(lines, endif, cppvar, deprecated))>>

=============================================================================
