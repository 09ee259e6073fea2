----------------------------- MODULE LintConditions -----------------------------
(***************************************************************************)
(* Assertion macros for which a better one exists: CheckCheck of             *)
(* tools/cpplint/cpplint.py and its tables.  "||" is one token; the other     *)
(* operators are put together from those of one character.                   *)
(***************************************************************************)
EXTENDS LintBraces

CONSTANT Literals  \* the words that are numbers

(* _CHECK_MACROS in the order in which they are looked for, and what is said of *)
(* an expression: that it holds, or that it does not.                        *)
CHECK_MACROS == <<"DCHECK", "CHECK", "EXPECT_TRUE", "ASSERT_TRUE", "EXPECT_FALSE", "ASSERT_FALSE">>
Negates(macro) == macro \in {"EXPECT_FALSE", "ASSERT_FALSE"}

(* Mutant: the inverse of "<" is ">". *)
ReplacementTurned(macro, operator) ==
  LET same == ("==" :> "EQ") @@ ("!=" :> "NE") @@ (">=" :> "GE") @@ (">" :> "GT")
              @@ ("<=" :> "LE") @@ ("<" :> "LT")
      inverse == ("==" :> "NE") @@ ("!=" :> "EQ") @@ (">=" :> "LE") @@ (">" :> "LT")
                 @@ ("<=" :> "GE") @@ ("<" :> "GT")
  IN IF Negates(macro) THEN inverse[operator] ELSE same[operator]

(* _CHECK_REPLACEMENT: what comes behind the "_" in the name of the macro.     *)
Replacement(macro, operator) ==
  LET same == ("==" :> "EQ") @@ ("!=" :> "NE") @@ (">=" :> "GE") @@ (">" :> "GT")
              @@ ("<=" :> "LE") @@ ("<" :> "LT")
      inverse == ("==" :> "NE") @@ ("!=" :> "EQ") @@ (">=" :> "LT") @@ (">" :> "LE")
                 @@ ("<=" :> "GT") @@ ("<" :> "GE")
  IN IF Negates(macro) THEN inverse[operator] ELSE same[operator]

(* The macro that a line calls, and its parenthesis: the first in the order,    *)
(* the last in the line.                                                     *)
CallOf(line, macro) ==
  SelectLastInSeq([i \in DOMAIN line |-> <<line[i], At(line, i + 1, {"("})>>],
                  LAMBDA t : t = <<macro, TRUE>>)

FindCheckMacro(line) ==
  LET i == SelectInSeq(CHECK_MACROS, LAMBDA macro : CallOf(line, macro) # 0)
  IN IF i = 0 THEN [macro |-> "", pos |-> 0]
     ELSE [macro |-> CHECK_MACROS[i], pos |-> CallOf(line, CHECK_MACROS[i]) + 1]

(* The operator at a position: its text, and how many tokens it has.           *)
Operator(e, i) ==
  LET Is(s) == Stands(e, i, s)
  IN CASE Is(<<"&", "&">>) \/ Is(<<"||">>)                        -> <<"logical", 2>>
       [] Is(<<"<", "<">>) \/ Is(<<">", ">">>) \/ Is(<<"-", ">">>) -> <<"", 2>>
       [] Is(<<"=", "=">>) -> <<"==", 2>>
       [] Is(<<"!", "=">>) -> <<"!=", 2>>
       [] Is(<<">", "=">>) -> <<">=", 2>>
       [] Is(<<"<", "=">>) -> <<"<=", 2>>
       [] Is(<<">">>) /\ ~Is(<<">", ">">>) /\ ~Is(<<">", "=">>) -> <<">", 1>>
       [] Is(<<"<">>) /\ ~Is(<<"<", "<">>) /\ ~Is(<<"<", "=">>) -> <<"<", 1>>
       [] OTHER -> <<"", 1>>

(* The relation an expression is, with the number of tokens to the left of its   *)
(* operator and up to the right; an operator "" means that it is none.        *)
Relation(e) ==
  LET None == [operator |-> "", left |-> 0, right |-> 0]
      from[i \in Nat] ==
        LET op  == Operator(e, i)
            end == FindEndOfExpressionInLine(e, i + 1, <<"(">>)
        IN IF i > Len(e) THEN None
           ELSE IF e[i] = "(" THEN IF end.at = 0 THEN None ELSE from[end.at]
           ELSE IF op[1] = "logical" THEN None
           ELSE IF op[1] = "" THEN from[i + op[2]]
           ELSE [operator |-> op[1], left |-> i - 1, right |-> i + op[2]]
  IN from[1]

IsLiteral(e) ==
  LET number == IF At(e, 1, {"-", "+"}) THEN Tail(e) ELSE e
  IN \/ Len(number) = 1 /\ number[1] \in Literals
     \/ Len(e) > 1 /\ e[1] \in Quote /\ Last(e) = e[1]

(* What stands between a parenthesis and the one that closes it.               *)
Between(elided, n, pos, end) ==
  IF end.line = n THEN SubSeq(elided[n], pos + 1, end.pos - 2)
  ELSE From(elided[n], pos + 1) \o FlattenSeq(SubSeq(elided, n + 1, end.line - 1))
       \o Upto(elided[end.line], end.pos - 2)

ComparesLiteral(left, right) ==
  /\ left # <<>> /\ right # <<>>
  /\ ~Has(right, "||") /\ \A i \in DOMAIN right : ~Stands(right, i, <<"&", "&">>)
  /\ IsLiteral(left) \/ IsLiteral(right)

(* The expression is a comparison with a literal, and nothing is behind it but   *)
(* the ";".                                                                  *)
IsReplaceable(e, relation) ==
  relation.operator # "" /\ ComparesLiteral(Upto(e, relation.left), From(e, relation.right))
Asserts(e) == IsReplaceable(e, Relation(e))
AssertsUpTo(elided, n, pos, end) ==
  /\ end.pos # 0 /\ At(elided[end.line], end.pos, {";"})
  /\ Asserts(Between(elided, n, pos, end))
AssertsFrom(elided, n, pos) ==
  pos # 0 /\ AssertsUpTo(elided, n, pos, CloseExpression(elided, n, pos))

CheckCheck(elided, n) ==
  IF AssertsFrom(elided, n, FindCheckMacro(elided[n]).pos)
  THEN {Report(n, "readability/check", 2)} ELSE {}

=============================================================================
