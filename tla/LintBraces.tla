------------------------------ MODULE LintBraces ------------------------------
(***************************************************************************)
(* Where braces and semicolons may stand: CheckBraces,                       *)
(* CheckTrailingSemicolon and CheckEmptyBlockBody of                         *)
(* tools/cpplint/cpplint.py.  A line is indented or it is not; the exception *)
(* for array initializers that do not fit on a line is left out.             *)
(***************************************************************************)
EXTENDS LintFunctions, LintSuppressions

EndsWith(line, tokens) == line # <<>> /\ Last(line) \in tokens

(* Some tokens in a row, from a position on.                                  *)
Stands(line, i, tokens) ==
  \A k \in DOMAIN tokens : At(line, i + k - 1, {tokens[k]})

GetPreviousNonBlankLine(elided, n) ==
  LET p == SelectLastInSubSeq(elided, 1, n - 1, LAMBDA l : l # <<>>)
  IN IF p = 0 THEN <<>> ELSE elided[p]

-----------------------------------------------------------------------------
(* CheckBraces.                                                              *)

BraceAlone(line, previous) ==
  /\ line = <<"{">>
  /\ ~EndsWith(previous, {",", ";", ":", "}", "{", "("}) /\ ~At(previous, 1, Hash)

ElseBelowBrace(line, previous) ==
  /\ At(line, 1, {"else"}) /\ (Len(line) = 1 \/ At(line, 2, {"if", "{"}))
  /\ previous = <<"}">>

(* Braces on one side of an else and not on the other.                        *)
UnevenElse(elided, n) ==
  LET line == elided[n]
      ElseIf == {i \in DOMAIN line : Stands(line, i, <<"else", "if", "(">>)}
      Elses  == {i \in DOMAIN line : line[i] = "else"}
      Left(i) == At(line, i - 1, {"}"})
  IN IF ElseIf # {}
     THEN (\E i \in ElseIf : Left(i))
          # Has(After(elided, CloseExpression(elided, n, Min(ElseIf) + 2)), "{")
     ELSE \E i \in Elses :
            \/ Left(i) /\ ~Has(From(line, i + 1), "{")
            \/ At(line, i + 1, {"{"}) /\ ~Has(Upto(line, i - 1), "}")

ElseOnOneLine(line) ==
  /\ \E i \in DOMAIN line : line[i] = "else" /\ i < Len(line) /\ line[i + 1] # "{"
  /\ \A i \in DOMAIN line : ~Stands(line, i, <<"else", "if">>)

DoOnOneLine(line) == At(line, 1, {"do"}) /\ Len(line) > 1 /\ line[2] # "{"

(* A line with one pair of braces, that of a lambda expression at its end.     *)
IsLambda(line) ==
  LET b == Find(line, "{", 1)
      c == Find(line, "}", 1)
  IN /\ b # 0 /\ b < c /\ Count(line, "{") = 1 /\ Count(line, "}") = 1
     /\ \E i, j \in 1 .. b : /\ i < j /\ line[i] = "[" /\ line[j] = "]"
                             /\ ~Has(Upto(line, i), ";")
                             /\ \A k \in i + 1 .. j - 1 : line[k] \notin {"[", "]"}
     /\ EndsWith(line, {";", ","}) /\ \A k \in c + 1 .. Len(line) - 1 : line[k] = ")"

(* The body of an if or else without braces ends at the first semicolon, which   *)
(* should end a line, and the next line should not be indented as if it        *)
(* belonged to the body or stand at another depth if it is an else.           *)
Indent(elided, indented, m) == m \in indented /\ elided[m] # <<>>

(* Mutant: only an else that is indented more. *)
AmbiguousElseInside(elided, indented, n, m) ==
  /\ At(elided[m], 1, {"else"})
  /\ Indent(elided, indented, m) /\ ~Indent(elided, indented, n)

AmbiguousElse(elided, indented, n, m) ==
  /\ At(elided[m], 1, {"else"})
  /\ Indent(elided, indented, m) # Indent(elided, indented, n)

IfPositions(line) == {i \in DOMAIN line : Stands(line, i, <<"if", "(">>)}

(* The body ends at the semicolon of a line.                                  *)
EndsUnclear(elided, indented, n, conditional, last) ==
  LET tail == From(elided[last], Find(elided[last], ";", 1) + 1)
  IN IF \A k \in DOMAIN tail : tail[k] = "}" \/ (tail[k] = "\\" /\ k = Len(tail))
     THEN /\ last < Len(elided)
          /\ \/ Indent(elided, indented, last + 1) /\ ~Indent(elided, indented, n)
             \/ conditional /\ AmbiguousElse(elided, indented, n, last + 1)
     ELSE ~IsLambda(elided[last])

(* The body begins behind the condition, or behind the else.                  *)
BodyUnclear(elided, indented, n, conditional, end) ==
  LET after == After(elided, end)
      stops == {m \in end.line .. Len(elided) : Has(IF m = end.line THEN after ELSE elided[m], ";")}
  IN /\ end.pos # 0 /\ stops # {} /\ ~At(after, 1, {"{"})
     /\ ~(after = <<>> /\ end.line < Len(elided) /\ At(elided[end.line + 1], 1, {"{"}))
     /\ EndsUnclear(elided, indented, n, conditional, Min(stops))

UnbracedBody(elided, indented, n) ==
  LET line  == elided[n]
      ifs   == IfPositions(line)
      elses == {i \in DOMAIN line : line[i] = "else"}
  IN /\ ifs \cup elses # {} /\ ~At(line, 1, Hash)
     /\ BodyUnclear(elided, indented, n, ifs # {},
                    IF ifs # {} THEN CloseExpression(elided, n, Min(ifs) + 1)
                    ELSE [line |-> n, pos |-> Min(elses) + 1])

CheckBraces(elided, indented, n) ==
  LET line     == elided[n]
      previous == GetPreviousNonBlankLine(elided, n)
      Bad(condition, category, confidence) ==
        IF condition THEN {Report(n, category, confidence)} ELSE {}
  IN Bad(BraceAlone(line, previous), "whitespace/braces", 4)
     \cup Bad(ElseBelowBrace(line, previous), "whitespace/newline", 4)
     \cup Bad(UnevenElse(elided, n), "readability/braces", 5)
     \cup Bad(ElseOnOneLine(line) \/ DoOnOneLine(line), "whitespace/newline", 4)
     \cup Bad(UnbracedBody(elided, indented, n), "readability/braces", 4)

-----------------------------------------------------------------------------
(* Several commands on a line, for the semicolons in CheckStyle.  Those of a     *)
(* lambda, of a loop, which may begin on the line before, and of a case that    *)
(* breaks do not count.                                                      *)
BeginsLambda(line) ==
  \E i, j \in DOMAIN line :
    LET brace == SelectInSubSeq(line, j, Len(line), LAMBDA t : t \in {"{", "}"})
        next  == SelectInSubSeq(line, brace + 1, Len(line), LAMBDA t : t \in {"{", "}"})
    IN /\ i < j /\ line[i] = "[" /\ line[j] = "]"
       /\ \A k \in 1 .. i - 1 : line[k] \notin {"{", "}", ";"}
       /\ \A k \in i + 1 .. j - 1 : line[k] \notin {"[", "]"}
       /\ brace # 0 /\ line[brace] = "{" /\ next # 0 /\ line[next] = "}"

SeveralCommands(elided, without_raw, n) ==
  LET line     == elided[n]
      previous == GetPreviousNonBlankLine(elided, n)
      breaks   == \E i \in DOMAIN line : Stands(line, i, <<"break", ";">>)
  IN /\ Count(line, ";") > 1 /\ ~BeginsLambda(without_raw[n])
     /\ ~Has(line, "for") /\ (~Has(previous, "for") \/ Has(previous, ";"))
     /\ ~(breaks /\ (Has(line, "case") \/ Has(line, "default:")))

-----------------------------------------------------------------------------
(* CheckTrailingSemicolon.                                                   *)

SafeMacros == {"TEST", "TEST_F", "MATCHER", "MATCHER_P", "TYPED_TEST",
               "EXCLUSIVE_LOCKS_REQUIRED", "SHARED_LOCKS_REQUIRED", "LOCKS_EXCLUDED",
               "INTERFACE_DEF"}

(* What stands before the parentheses before a brace, if that is not a body.   *)
NotBefore(prefix) ==
  LET n == Len(prefix)
  IN \/ EndsWith(prefix, Macros \ SafeMacros)
     \/ EndsWith(prefix, {"]"})
        /\ \A i \in DOMAIN prefix : ~Stands(prefix, i, <<"operator", "[", "]">>)
     \/ At(prefix, n - 1, {"struct", "union"}) /\ prefix[n] = "alignas"
     \/ EndsWith(prefix, {"decltype"})
     \/ EndsWith(prefix, {"="}) /\ IsWord(prefix, n - 1)

(* Mutant: whatever the line before ends with. *)
OpensBlockAnywhere(elided, n) == At(elided[n], 1, {"{"})

(* A brace that begins a line, after a statement or a block.                   *)
OpensBlock(elided, n) ==
  /\ At(elided[n], 1, {"{"})
  /\ EndsWith(GetPreviousNonBlankLine(elided, n), {";", "{", "}"})

(* What stands before the parentheses before a brace makes it no body.        *)
NoBody(elided, open) ==
  /\ open.pos # 0
  /\ \/ NotBefore(Upto(elided[open.line], open.pos - 1))
     \/ open.line > 2 /\ EndsWith(elided[open.line - 1], {"]"})

(* The brace of a line that opens a body, which needs no semicolon behind it; 0 *)
(* if there is none.                                                         *)
BodyBrace(elided, n) ==
  LET line  == elided[n]
      after == {i \in DOMAIN line : line[i] = "{" /\ At(line, i - 1, {")"})}
      other == {i \in DOMAIN line : /\ line[i] = "{"
                                    /\ \/ At(line, i - 1, {"else"})
                                       \/ Stands(line, i - 2, <<")", "const">>)}
  IN IF after # {}
     THEN IF NoBody(elided, ReverseCloseExpression(elided, n, Max(after) - 1))
          THEN 0 ELSE Max(after)
     ELSE IF other # {} THEN Max(other)
     ELSE IF OpensBlock(elided, n) THEN 1 ELSE 0

(* The line with the semicolon behind the body that a line opens: 0 if there is *)
(* none.                                                                     *)
SemicolonAt(elided, end) ==
  IF end.pos # 0 /\ At(elided[end.line], end.pos, {";"}) THEN end.line ELSE 0

TrailingSemicolon(elided, n) ==
  SemicolonAt(elided, CloseExpression(elided, n, BodyBrace(elided, n)))

(* The NOLINT comments of that line and of the one before are read.            *)
SemicolonReports(suppressions, raw, end) ==
  LET one == ParseNolintSuppressions(suppressions, raw[end - 1], end - 1)
      two == ParseNolintSuppressions(one.suppressions, raw[end], end)
  IN IF end = 0 THEN Stage(suppressions, {})
     ELSE Stage(two.suppressions,
                one.reports \cup two.reports \cup {Report(end, "readability/braces", 4)})

CheckTrailingSemicolon(suppressions, elided, raw, n) ==
  SemicolonReports(suppressions, raw, TrailingSemicolon(elided, n))

-----------------------------------------------------------------------------
(* CheckEmptyBlockBody.  Its reports are about the line where the condition     *)
(* ends.                                                                     *)

(* The first line that is not blank, from one on; after the last if none.     *)
NextNonBlank(elided, n) ==
  Min({m \in n .. Len(elided) : elided[m] # <<>>} \cup {Len(elided) + 1})

(* The braces after a condition: what is inside them is blank, and no comment. *)
EmptyBraces(elided, raw, m, i, close) ==
  /\ close.pos # 0 /\ raw[m] = CleanseComments(raw[m])
  /\ IF close.line = m THEN close.pos = i + 2
     ELSE /\ i = Len(elided[m]) /\ close.pos = 2
          /\ \A k \in m + 1 .. close.line - 1 : raw[k] = <<>>

(* Mutant: only an else on the line of the brace. *)
FollowedByElseHere(elided, close) ==
  At(From(elided[close.line], close.pos), 1, {"else"})

FollowedByElse(elided, close) ==
  LET rest == From(elided[close.line], close.pos)
      next == NextNonBlank(elided, close.line + 1)
  IN IF rest # <<>> THEN At(rest, 1, {"else"})
     ELSE next \in DOMAIN elided /\ At(elided[next], 1, {"else"})

(* A body in braces at a place: empty, and no else follows.                   *)
EmptyIf(elided, raw, m, i) ==
  LET Empty(close) == EmptyBraces(elided, raw, m, i, close) /\ ~FollowedByElse(elided, close)
  IN m \in DOMAIN elided /\ At(elided[m], i, {"{"}) /\ Empty(CloseExpression(elided, m, i))

EmptyBodyReports(elided, raw, keyword, end) ==
  LET rest == From(elided[end.line], end.pos)
      m    == IF rest # <<>> THEN end.line ELSE NextNonBlank(elided, end.line + 1)
  IN IF end.pos = 0 THEN {}
     ELSE (IF ~At(rest, 1, {";"}) THEN {}
           ELSE {Report(end.line, IF keyword = "if" THEN "whitespace/empty_conditional_body"
                                  ELSE "whitespace/empty_loop_body", 5)})
          \cup (IF keyword = "if" /\ EmptyIf(elided, raw, m, IF rest # <<>> THEN end.pos ELSE 1)
                THEN {Report(end.line, "whitespace/empty_if_body", 4)} ELSE {})

CheckEmptyBlockBody(elided, raw, n) ==
  IF ~At(elided[n], 1, {"for", "while", "if"}) \/ ~At(elided[n], 2, {"("}) THEN {}
  ELSE EmptyBodyReports(elided, raw, elided[n][1], CloseExpression(elided, n, 2))

=============
