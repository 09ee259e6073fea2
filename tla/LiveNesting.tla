----------------------------- MODULE LiveNesting -----------------------------
(***************************************************************************)
(* What the nesting of a file with preprocessor directives should be: the    *)
(* lines from #if to the first #else, #elif or #endif count, those of the    *)
(* other branches do not ("Preprocessor condition evaluates to true from #if *)
(* up to first #else/#elif/#endif", tools/cpplint/cpplint.py:3025).          *)
(***************************************************************************)
EXTENDS Integers, SequencesExt

CONSTANTS
  Nest(_, _, _),  \* the blocks that are open behind a line, given those before it
  If, Else        \* the directives that begin a condition, and its other branches

VARIABLES elided, line,
  kept,       \* the blocks opened by the lines that count
  conditions  \* for every open #if, whether its #else was seen

Dead == \E i \in DOMAIN conditions : conditions[i]

Init == line = 1 /\ kept = <<>> /\ conditions = <<>>

Conditional(directive) ==
  CASE directive \in If -> Append(conditions, FALSE)
    [] directive \in Else /\ conditions # <<>> ->
         Append(Front(conditions), TRUE)
    [] directive = "#endif" /\ conditions # <<>> -> Front(conditions)
    [] OTHER -> conditions

Read ==
  /\ line \in DOMAIN elided
  /\ conditions' = Conditional(IF elided[line] = <<>> THEN "" ELSE elided[line][1])
  /\ kept' = IF Dead' THEN kept ELSE Nest(kept, elided, line)
  /\ line' = line + 1

Spec == Init /\ [][Read]_<<line, kept, conditions>>
=============================================================================
