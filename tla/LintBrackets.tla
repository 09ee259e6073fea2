----------------------------- MODULE LintBrackets -----------------------------
(***************************************************************************)
(* The matching of brackets across lines: CloseExpression and                *)
(* ReverseCloseExpression of tools/cpplint/cpplint.py, and their client      *)
(* InTemplateArgumentList.  A position is the index of a token in an elided  *)
(* line (LintText); "<" and ">" may be brackets of a template or operators.  *)
(***************************************************************************)
EXTENDS LintText

Opening == {"(", "[", "{"}
Closing == {")", "]", "}"}
Mark    == Opening \cup Closing \cup Quote \cup {"<", ">", ";", "=", ":", "-", ",", ".", "*", "&"}
If      == {"#if", "#ifdef", "#ifndef"}
Else    == {"#else", "#elif"}
Hash    == If \cup Else \cup {"#endif", "#include", "#define", "#pragma once"}
Access  == {"public:", "protected:", "private:"}
NotWord == Mark \cup Hash \cup Access \cup {"//", "/*", "*/", "\\"}

Pairs(open, close) == <<open, close>> \in {<<"(", ")">>, <<"[", "]">>, <<"{", "}">>}

(* The token at a position, and that it is a word (with spaces around it).   *)
At(line, i, tokens) == i \in DOMAIN line /\ line[i] \in tokens
IsWord(line, i) == i \in DOMAIN line /\ line[i] \notin NotWord

(* Mutant: operators stay. *)
DropOperatorsNot(stack, mark) == stack

(* The stack without the "<", or ">", that were operators after all.         *)
DropOperators(stack, mark) ==
  SubSeq(stack, 1, SelectLastInSeq(stack, LAMBDA t : t # mark))

TopIs(stack, token) == stack # <<>> /\ Last(stack) = token

(* The end of a scan of a line: the position found, or 0, and the stack with  *)
(* which the next line goes on.  An empty one means that there is no end.    *)
Found(i)      == [at |-> i, stack |-> <<>>]
GoOn(stack)   == [at |-> 0, stack |-> stack]
NotFound      == GoOn(<<>>)

-----------------------------------------------------------------------------
(* FindEndOfExpressionInLine.                                                *)

(* "->", and the second character of an operator's name.                     *)
NoEnd(line, i) ==
  \/ At(line, i - 1, {"-", "operator"})
  \/ At(line, i - 2, {"operator"}) /\ ~IsWord(line, i - 1)

FindEndOfExpressionInLine(line, startpos, opened) ==
  LET from[i \in Nat, stack \in Seq(STRING)] ==
        LET t    == line[i]
            rest == IF t \in Closing \cup {";"} THEN DropOperators(stack, "<") ELSE stack
            Next(s) == from[i + 1, s]
            Pop  == IF Len(rest) = 1 THEN Found(i + 1) ELSE Next(Front(rest))
        IN IF i > Len(line) THEN GoOn(stack)
           ELSE CASE t \in Opening -> Next(Append(stack, t))
                  [] t = "<" /\ At(line, i - 1, {"<"}) ->
                       IF ~TopIs(stack, "<") THEN Next(stack)
                       ELSE IF Len(stack) = 1 THEN NotFound ELSE Next(Front(stack))
                  [] t = "<" /\ ~At(line, i - 1, {"<"}) ->
                       Next(IF At(line, i - 1, {"operator"}) THEN stack
                            ELSE Append(stack, t))
                  [] t \in Closing ->
                       IF rest # <<>> /\ Pairs(Last(rest), t) THEN Pop ELSE NotFound
                  [] t = ">" ->
                       IF NoEnd(line, i) \/ ~TopIs(stack, "<") THEN Next(stack) ELSE Pop
                  [] t = ";" -> IF rest = <<>> THEN NotFound ELSE Next(rest)
                  [] OTHER -> Next(stack)
  IN from[startpos, opened]

(* Just after the bracket that closes the one at a position; or 0 in the last   *)
(* line that was read in search of it.                                       *)
Nowhere(n) == [line |-> n, pos |-> 0]

CloseExpression(elided, linenum, pos) ==
  LET line == elided[linenum]
      from[n \in Nat, start \in Nat, stack \in Seq(STRING)] ==
        LET Then(scan) ==
              IF scan.at # 0 THEN [line |-> n, pos |-> scan.at]
              ELSE IF scan.stack = <<>> \/ n = Len(elided) THEN Nowhere(n)
              ELSE from[n + 1, 1, scan.stack]
        IN Then(FindEndOfExpressionInLine(elided[n], start, stack))
  IN IF \/ ~At(line, pos, Opening \cup {"<"})
        \/ line[pos] = "<" /\ At(line, pos + 1, {"<", "="})
     THEN Nowhere(linenum)
     ELSE from[linenum, pos, <<>>]

-----------------------------------------------------------------------------
(* FindStartOfExpressionInLine.                                              *)

(* "->", ">=" with spaces around it, and the name of an operator.             *)
NoStart(line, i) ==
  \/ At(line, i - 1, {"-", "operator"})
  \/ IsWord(line, i - 1) /\ At(line, i + 1, {"="}) /\ IsWord(line, i + 2)

FindStartOfExpressionInLine(line, endpos, opened) ==
  LET from[i \in Int, stack \in Seq(STRING)] ==
        LET t    == line[i]
            rest == IF t \in Opening \cup {";"} THEN DropOperators(stack, ">") ELSE stack
            Next(s) == from[i - 1, s]
            Pop  == IF Len(rest) = 1 THEN Found(i) ELSE Next(Front(rest))
        IN IF i < 1 THEN GoOn(stack)
           ELSE CASE t \in Closing -> Next(Append(stack, t))
                  [] t = ">" -> IF NoStart(line, i) THEN from[i - 2, stack]
                                ELSE Next(Append(stack, t))
                  [] t = "<" -> IF At(line, i - 1, {"<"}) THEN from[i - 2, stack]
                                ELSE IF TopIs(stack, ">") THEN Pop ELSE Next(stack)
                  [] t \in Opening ->
                       IF rest # <<>> /\ Pairs(t, Last(rest)) THEN Pop ELSE NotFound
                  [] t = ";" -> IF rest = <<>> THEN NotFound ELSE Next(rest)
                  [] OTHER -> Next(stack)
  IN from[endpos, opened]

ReverseCloseExpression(elided, linenum, pos) ==
  LET from[n \in Nat, end \in Nat, stack \in Seq(STRING)] ==
        LET Then(scan) ==
              IF scan.at # 0 THEN [line |-> n, pos |-> scan.at]
              ELSE IF scan.stack = <<>> \/ n = 1 THEN Nowhere(n)
              ELSE from[n - 1, Len(elided[n - 1]), scan.stack]
        IN Then(FindStartOfExpressionInLine(elided[n], end, stack))
  IN IF ~At(elided[linenum], pos, Closing \cup {">"}) THEN Nowhere(linenum)
     ELSE from[linenum, pos, <<>>]

-----------------------------------------------------------------------------
(* What follows a bracket: if it was not found, the code reads the last         *)
(* character of the line, the one at position -1.                            *)
After(elided, end) ==
  LET line == elided[end.line]
  IN From(line, IF end.pos # 0 THEN end.pos ELSE Max({1, Len(line)}))

-----------------------------------------------------------------------------
(* Whether what stands from a position on looks like the rest of a template   *)
(* argument.                                                                 *)
InTemplateArgumentList(elided, linenum, pos) ==
  LET looks[n \in Nat, p \in Nat] ==
        LET line == elided[n]
            i    == FirstAt(line, p, LAMBDA l, j :
                      l[j] \in {"{", "}", ";", "=", "[", "]", ".", "<", ">"})
            Behind(end) == end.pos # 0 /\ looks[end.line, end.pos]
        IN IF n > Len(elided) THEN FALSE
           ELSE IF i = 0 THEN looks[n + 1, 1]
           ELSE IF line[i] = "<" THEN Behind(CloseExpression(elided, n, i))
           ELSE line[i] \notin {"{", "}", ";"}
  IN looks[linenum, pos]

=============================================================================
