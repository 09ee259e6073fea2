-------------------------- MODULE LintStylePromises --------------------------
(***************************************************************************)
(* What the checks of style promise, stated of the code as C++ reads it.     *)
(***************************************************************************)
EXTENDS LintFilePromises

(* All tokens of the code, in order, as places.                              *)
Places ==
  FlattenSeq([n \in DOMAIN elided |-> [i \in DOMAIN elided[n] |-> <<n, i>>]])

IndexOf(p) == SelectInSeq(Places, LAMBDA q : q = p)

(* The token some places after a place, or before it; "" if there is none.    *)
Beside(p, k) ==
  LET i == IndexOf(p) + k
  IN IF i \in DOMAIN Places THEN TokenAt(Places[i]) ELSE ""

(* The bracket that closes another; <<0, 0>> if it stays open.                *)
PartnerOf(p) ==
  LET ends == {pair[2] : pair \in {q \in Matching.pairs : q[1] = p}}
  IN IF ends = {} THEN <<0, 0>> ELSE CHOOSE q \in ends : TRUE

-----------------------------------------------------------------------------
(* Indentation and the structure that C++ sees.                              *)

(* Files of statements on single lines and of conditions, elses among them, on   *)
(* lines of their own, without braces.                                       *)
IsCondition(n) == IsPrefix(<<"if", "(">>, elided[n]) /\ Last(elided[n]) = ")"
IsStatement(n) == Len(elided[n]) = 2 /\ elided[n][2] = ";" /\ IsWord(elided[n], 1)
AnElse(n)      == elided[n] = <<"else">>

Code == 2 .. Len(elided) - 1

(* The conditions that still lack an else before a line: an else takes the last *)
(* of them, and a statement that no else follows ends them all.               *)
ConditionsBefore(n) ==
  LET open[k \in 1 .. n] ==
        IF k <= 2 THEN <<>>
        ELSE CASE IsCondition(k - 1) -> Append(open[k - 1], k - 1)
               [] AnElse(k - 1)      -> Front(open[k - 1])
               [] OTHER              -> IF AnElse(k) THEN open[k - 1] ELSE <<>>
  IN open[n]

StatementStarts(n) == n \in Code /\ (n = 2 \/ (IsStatement(n - 1) /\ ~AnElse(n)))

Unbraced ==
  /\ \A n \in Code : IsCondition(n) \/ IsStatement(n) \/ AnElse(n)
  /\ \A n \in Code : ~IsStatement(n) => n + 1 \in Code /\ ~AnElse(n + 1)
  /\ \A n \in Code : AnElse(n) => n > 2 /\ IsStatement(n - 1) /\ ConditionsBefore(n) # <<>>

(* If nothing is said of braces, every else has the indentation of the if that   *)
(* C++ gives it to, however many ifs and elses without braces belong to one    *)
(* unindented statement: cpplint sees it without parsing the statement         *)
(* (tools/cpplint/cpplint.py:4297, "We also check for ambiguous if/else        *)
(* nesting without braces").                                                 *)
ElseTells ==
  /\ Done /\ Unbraced /\ Reported("readability/braces") = {}
  /\ \A n \in source.indented : ~StatementStarts(n)
  => \A n \in {m \in Code : AnElse(m)} :
       n \in source.indented <=> Last(ConditionsBefore(n)) \in source.indented

(* A semicolon is reported to be needless only behind the closing brace of the   *)
(* body of a function, a statement or a block: never behind a class, an        *)
(* initializer or a lambda, though only the line of the opening brace and the  *)
(* one before are looked at.                                                 *)
SemicolonsEndBodies ==
  Done /\ WellBracketed /\ (\A l \in ToSet(elided) : ~Has(l, "if") /\ ~Has(l, "else")) =>
    \A n \in Reported("readability/braces") :
      \E pair \in Matching.pairs :
        LET p == pair[1]  q == pair[2]
        IN /\ q[1] = n /\ Beside(q, 1) = ";"
           /\ Beside(p, -1) \in {")", "const", ";", "{", "}"}

(* The bodies of conditions and loops that begin a line and are empty: nothing   *)
(* but a semicolon, or braces with no comment up to the line of the last.      *)
Heads(words) == {p \in ToSet(Places) : p[2] = 1 /\ TokenAt(p) \in words /\ Beside(p, 1) = "("}
HeadEnd(p)   == PartnerOf(<<p[1], 2>>)
Stops(p)     == HeadEnd(p) # <<0, 0>> /\ Beside(HeadEnd(p), 1) = ";"
                /\ At(elided[HeadEnd(p)[1]], HeadEnd(p)[2] + 1, {";"})
NothingIn(p) ==
  /\ HeadEnd(p) # <<0, 0>> /\ Beside(HeadEnd(p), 1) = "{" /\ Beside(HeadEnd(p), 2) = "}"
  /\ Beside(HeadEnd(p), 3) # "else"
  /\ LET i    == IndexOf(HeadEnd(p))
         Body == Places[i + 1][1] .. Max({Places[i + 1][1], Places[i + 2][1] - 1})
     IN \A n \in Body : ~Has(clean.raw_lines[n], "//") /\ ~Has(clean.raw_lines[n], "/*")

(* Exactly the empty bodies are reported, at the line where the condition ends,  *)
(* however many lines stand between the head, the braces and what follows.     *)
EmptyBodies ==
  LET EndOf(P(_), words) == {HeadEnd(p)[1] : p \in {q \in Heads(words) : P(q)}}
  IN Done /\ WellBracketed /\ WithoutAsm =>
       /\ Reported("whitespace/empty_loop_body") = EndOf(Stops, {"for", "while"})
       /\ Reported("whitespace/empty_conditional_body") = EndOf(Stops, {"if"})
       /\ Reported("whitespace/empty_if_body") = EndOf(NothingIn, {"if"})

(* What is said of braces and semicolons is right: that an else belongs to    *)
(* another if, that a semicolon is needless, and that a body is empty.       *)
BracesReported == ElseTells /\ SemicolonsEndBodies /\ EmptyBodies
=============================================================================
