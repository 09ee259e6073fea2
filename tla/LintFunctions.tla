---------------------------- MODULE LintFunctions ----------------------------
(***************************************************************************)
(* The length of functions: the class _FunctionState and                     *)
(* CheckForFunctionLengths of tools/cpplint/cpplint.py.                      *)
(***************************************************************************)
EXTENDS LintBlocks

CONSTANTS
  NormalTrigger, TestTrigger,  \* _NORMAL_TRIGGER and _TEST_TRIGGER
  Macros                       \* the names in capitals

NewFunctionState == [in_a_function |-> FALSE, lines_in_function |-> 0, test |-> FALSE]

BaseTrigger(test) == IF test THEN TestTrigger ELSE NormalTrigger

(* int(log2(lines / base)), at most 5.                                       *)
ErrorLevel(lines, base) == Max({0} \cup {k \in 1 .. 5 : base * 2 ^ k <= lines})

(* Mutant: at the limit, not above it. *)
LengthReportsEager(f, n, verbose_level) ==
  LET base == BaseTrigger(f.test)
  IN IF f.in_a_function /\ f.lines_in_function >= base * 2 ^ verbose_level
     THEN {Report(n, "readability/fn_size", ErrorLevel(f.lines_in_function, base))}
     ELSE {}

(* _FunctionState.Check, at the end of a function.                            *)
LengthReports(f, n, verbose_level) ==
  LET base == BaseTrigger(f.test)
  IN IF f.in_a_function /\ f.lines_in_function > base * 2 ^ verbose_level
     THEN {Report(n, "readability/fn_size", ErrorLevel(f.lines_in_function, base))}
     ELSE {}

(* An unindented line begins a function if it starts with words and a          *)
(* parenthesis.  The last word names it; a macro does so only if it is a test. *)
StartsFunction(line) ==
  LET name == SelectInSeq(line, LAMBDA t : t \in NotWord \ {"*", "&"}) - 1
  IN name > 0 /\ IsWord(line, 1) /\ line[name + 1] = "(" /\ line[name] \notin Macros \ {"TEST"}

(* CheckForFunctionLengths.  A start is followed by its body, or by a           *)
(* semicolon or a body on one line, which are ignored.                        *)
CheckForFunctionLengths(f, lines, indented, n, verbose_level) ==
  LET line == lines[n]
      name == line[SelectInSeq(line, LAMBDA t : t = "(") - 1]
      body == SelectInSubSeq(lines, n, Len(lines),
                             LAMBDA l : Has(l, "{") \/ Has(l, ";") \/ Has(l, "}"))
      ignored == Has(lines[body], ";") \/ Has(lines[body], "}")
      Value(state, reports) == [state |-> state, reports |-> reports]
  IN IF ~indented /\ StartsFunction(line)
     THEN IF body = 0 THEN Value(f, {Report(n, "readability/fn_size", 5)})
          ELSE IF ignored THEN Value(f, {})
          ELSE Value([in_a_function |-> TRUE, lines_in_function |-> 0,
                      test |-> name = "TEST"], {})
     ELSE IF ~indented /\ line = <<"}">>
     THEN Value([f EXCEPT !.in_a_function = FALSE], LengthReports(f, n, verbose_level))
     ELSE IF line # <<>> /\ f.in_a_function
     THEN Value([f EXCEPT !.lines_in_function = @ + 1], {})
     ELSE Value(f, {})

=============================================================================
