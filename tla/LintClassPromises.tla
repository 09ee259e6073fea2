-------------------------- MODULE LintClassPromises --------------------------
(***************************************************************************)
(* What the checks of classes and declarations promise, stated of the code   *)
(* as C++ reads it.                                                          *)
(***************************************************************************)
EXTENDS LintStylePromises

-----------------------------------------------------------------------------
(* Classes.                                                                  *)

(* The brace of a class or namespace stands on the line of its head.           *)
BraceOf(p) ==
  CASE Beside(p, -2) \in {"class", "struct"}                   -> "class"
    [] "namespace" \in {Beside(p, -1), Beside(p, -2)}          -> "namespace"
    [] Upto(elided[p[1]], p[2]) = <<"extern", "\"", "\"", "{">> -> "extern"
    [] OTHER                                                   -> "block"
HeadsOnLine ==
  \A n \in DOMAIN elided : \A i \in DOMAIN elided[n] :
    elided[n][i] \in {"class", "struct", "namespace"} => Has(From(elided[n], i), "{")

Balanced == Done /\ WellBracketed /\ ~Conditional /\ HeadsOnLine /\ WithoutAsm

(* The brackets that are open where a line begins, and the last of them.        *)
OpenAt(n) ==
  LET closed == {pair[1] : pair \in {q \in Matching.pairs : q[2][1] < n}}
  IN {p \in ToSet(Brackets) \ closed : p[1] < n}
Innermost(P) == CHOOSE p \in P : \A q \in P : ~Before(p, q)

(* Of the lines with an access label, exactly those are reported that follow     *)
(* directly on other declarations in a class whose closing brace stands more   *)
(* lines below its head than a small class has: whether or not other blocks    *)
(* and classes stand in it.                                                  *)
SectionsSpaced ==
  LET Labels   == {n \in DOMAIN elided : At(elided[n], 1, Access)}
      Classes(n) == {p \in OpenAt(n) : TokenAt(p) = "{" /\ BraceOf(p) = "class"}
      Big(p)   == PartnerOf(p)[1] - p[1] > SmallClass
      Apart(n) == elided[n - 1] = <<>> \/ Has(elided[n - 1], "class")
  IN Balanced =>
       Reported("whitespace/blank_line") \cap Labels =
         {n \in Labels : /\ Classes(n) # {} /\ ~Apart(n)
                         /\ Big(Innermost(Classes(n))) /\ Innermost(Classes(n))[1] < n - 1}

(* Of the blank lines of code, which those of raw strings and comments are not,  *)
(* exactly those are reported that come first in a block, or last before its   *)
(* brace, if no else with more behind it comes there, or after an access       *)
(* label, unless the block is a namespace or extern "C".                     *)
BlankLines ==
  LET modes    == Modes(Lines)
      blank    == {n \in DOMAIN Lines : Lines[n] = <<>> /\ modes[n][1] = "code"}
      BlockAt(n) == IF OpenAt(n) = {} THEN "block" ELSE BraceOf(Innermost(OpenAt(n)))
      Starting(n) == \E p \in OpenAt(n) : p[1] = n - 1 /\ TokenAt(p) = "{"
      Ending(n) == n < Len(elided) /\ At(elided[n + 1], 1, {"}"})
                  /\ \A i \in 1 .. Len(elided[n + 1]) - 2 : ~Stands(elided[n + 1], i, <<"}", "else">>)
      AfterLabel(n) == At(elided[n - 1], 1, Access)
  IN Balanced /\ Readable
     /\ (\A n \in DOMAIN elided : \A p \in OpenAt(n) : TokenAt(p) = "{")
     => Reported("whitespace/blank_line") \ {n \in DOMAIN elided : elided[n] # <<>>} =
          {n + 1 : n \in {m \in blank : /\ BlockAt(m + 1) \in {"block", "class"}
                                        /\ Starting(m + 1) \/ Ending(m + 1) \/ AfterLabel(m + 1)}}

(* Blank lines are called for and turned down where the blocks and classes that  *)
(* C++ sees call for it.                                                     *)
BlankLinesReported == SectionsSpaced /\ BlankLines

-----------------------------------------------------------------------------
(* Constructors.                                                             *)

(* The parameters of the constructor on a line, divided by the commas outside of *)
(* brackets; every "<" is one.                                               *)
Angles(tokens) == Count(tokens, "<") - Count(tokens, ">")
ListOf(l) == SubSeq(l, Declared(l) + 2, ClosesList(l, Declared(l) + 1) - 1)
Bracketed(list) ==
  Angles(list) = 0 /\ \A i \in DOMAIN list : Angles(Upto(list, i)) >= 0
ArgumentsOf(list) ==
  LET commas == {i \in DOMAIN list : /\ list[i] = "," /\ Angles(Upto(list, i)) = 0
                                     /\ Count(Upto(list, i), "(") = Count(Upto(list, i), ")")}
      ends == {0, Len(list) + 1} \cup commas
      StopOf(i) == Min({j \in ends : j > i})
  IN {<<i, SubSeq(list, i + 1, StopOf(i) - 1)>> : i \in ends \ {Len(list) + 1}}

(* Whether C++ can call the constructor on a line with one argument.           *)
CallableWithOne(l) ==
  LET required == {a \in ArgumentsOf(ListOf(l)) : ~Has(a[2], "=") /\ ~Has(a[2], "&&...")}
  IN ListOf(l) \notin {<<>>, <<"void">>} /\ Cardinality(required) <= 1

(* The constructors that an indented line declares, of the class it stands in. *)
ConstructorLines ==
  {n \in source.indented :
     LET P == {p \in OpenAt(n) : TokenAt(p) = "{" /\ BraceOf(p) = "class"}
     IN P # {} /\ IsConstructor(elided[n], Beside(Innermost(P), -1))}

(* Of the constructors, exactly those are reported that C++ can call with one    *)
(* argument and are not marked explicit, but for initializer lists and copies,  *)
(* and those that take none and are: whatever commas stand in the types and    *)
(* default values of parameters.  (Three parameters, the last of them a pack,  *)
(* are left out: cpplint counts them wrong.)                                 *)
ExplicitReported ==
  LET Explicit(n) == Has(Upto(elided[n], Declared(elided[n])), "explicit")
      Exempt(n) == \/ Has(elided[n], "std::initializer_list")
                   \/ IsCopy(ListOf(elided[n]), elided[n][Declared(elided[n])])
  IN /\ Balanced
     /\ \A n \in ConstructorLines : /\ Bracketed(ListOf(elided[n]))
                                    /\ ~Has(elided[n], "&&...") \/ Count(elided[n], ",") < 2
     => Reported("runtime/explicit") =
          {n \in ConstructorLines :
             IF Explicit(n) THEN ListOf(elided[n]) \in {<<>>, <<"void">>}
             ELSE CallableWithOne(elided[n]) /\ ~Exempt(n)}

(* cpplint fails only on a constructor with parameters in which some "<" or "("   *)
(* is not closed, and on the address of a cast with the end of whose type a     *)
(* line ends; and then has printed what it found up to there.                 *)
FailsOnOperators ==
  phase = "died" =>
    LET l == elided[line - 1]
    IN \/ IsConstructor(l, l[Declared(l)]) /\ ~Bracketed(ListOf(l))
       \/ /\ \E i \in DOMAIN l : l[i] = "&" /\ At(l, i + 1, CastWords) /\ At(l, i + 2, {"<"})
          /\ \E n \in line - 1 .. Len(elided) : EndsWith(elided[n], {">"})

-----------------------------------------------------------------------------
(* Functions.                                                                *)

(* The text from the parameters of the function that a line declares virtual to  *)
(* the end of the declaration, as places.                                    *)
VirtualTail(n) ==
  LET opens == {p \in ToSet(Places) : p[1] >= n /\ TokenAt(p) = "("}
      close == PartnerOf(CHOOSE p \in opens : \A q \in opens : ~Before(q, p))
      stops == {p \in ToSet(Places) : Before(close, p) /\ TokenAt(p) \in {";", "{", "}"}}
  IN IF opens = {} \/ close = <<0, 0>> THEN {}
     ELSE {p \in ToSet(Places) : Before(close, p) /\ \A q \in stops : Before(p, q)}

(* A function is reported to be declared virtual and override, or override and    *)
(* final, only if it is: the override of the next declaration is not taken for *)
(* its own where declarations end their lines.  And it is reported if the      *)
(* words stand on at most two lines below and nothing but words before them.   *)
VirtualRedundant ==
  LET Redundant(n) == /\ Has(elided[n], "virtual")
                      /\ \E p \in VirtualTail(n) : TokenAt(p) \in {"override", "final"}
      Both(n) == {"override", "final"} \subseteq ToSet(elided[n])
      Plainly(n) == /\ Has(elided[n], "(") /\ ~HasColon(elided[n])
                    /\ \A p \in VirtualTail(n) : IsWord(elided[p[1]], p[2]) /\ p[1] <= n + 2
  IN /\ Done /\ WellBracketed /\ WithoutAsm
     /\ \A n \in DOMAIN elided : \A i \in 1 .. Len(elided[n]) - 1 :
          elided[n][i] \notin {";", "{", "}"}
     => \A n \in DOMAIN elided :
          /\ n \in Reported("readability/inheritance") => Redundant(n) \/ Both(n)
          /\ Redundant(n) /\ Plainly(n) => n \in Reported("readability/inheritance")

(* A reference is reported to lack a const only where functions are declared: at  *)
(* no place in a body.  A declaration of its own with one is reported there,   *)
(* but for the two lines after a function whose references are allowed.       *)
ReferencesReported ==
  LET Declares(n) == \E T \in ToSet(elided[n]) : elided[n] = <<"f", "(", T, "&", "t", ")", ";">>
      InBody(n) == \E p \in OpenAt(n) : /\ TokenAt(p) = "{"
                     /\ p = Innermost({q \in OpenAt(n) : TokenAt(q) = "{"})
                     /\ BraceOf(p) \in {"block", "extern"}
      Behind(n) == \/ EndsWith(elided[n - 1], {",", ")"})
                   \/ \E m \in Max({1, n - 2}) .. n - 1 : Allows(elided[m])
  IN Balanced =>
       /\ \A n \in Reported("runtime/references") : ~InBody(n)
       /\ \A n \in DOMAIN elided : Declares(n) /\ elided[n][3] \notin Streams /\ ~InBody(n)
                                     /\ ~Behind(n) => n \in Reported("runtime/references")

(* What is said of a declaration is true of it: of its parameters, explicit,    *)
(* virtual and override.                                                     *)
DeclarationsReported == ExplicitReported /\ VirtualRedundant /\ ReferencesReported

-----------------------------------------------------------------------------
(* Checks.                                                                   *)

(* What a relation of two numbers is worth.                                   *)
Holds(operator, a, b) ==
  CASE operator \in {"==", "EQ"} -> a = b
    [] operator \in {"!=", "NE"} -> a # b
    [] operator \in {">=", "GE"} -> a >= b
    [] operator \in {">", "GT"}  -> a > b
    [] operator \in {"<=", "LE"} -> a <= b
    [] operator \in {"<", "LT"}  -> a < b

(* The relational operators of a check outside of all parentheses within its own. *)
Inside(open) ==
  LET close == PartnerOf(open)
  IN {p \in ToSet(Places) : Before(open, p) /\ Before(p, close)}
Outermost(open) ==
  LET pairs == {q \in Matching.pairs : Before(open, q[1])}
  IN {p \in Inside(open) : \A pair \in pairs : Before(p, pair[1]) \/ Before(pair[2], p)}
Signs == {"<", ">", "!", "=", "-", "&"}
Relations(open) ==
  {p \in Outermost(open) :
     /\ TokenAt(p) \in Signs \ {"-", "&"} /\ Operator(elided[p[1]], p[2])[1] # ""
     /\ Beside(p, -1) \notin Signs}

(* An expression has operands between its operators.                          *)
Spaced(open) ==
  \A p \in Inside(open) : ~({TokenAt(p), Beside(p, 1), Beside(p, 2)} \subseteq Signs)

(* A check is reported only if it is a relation of two operands: an operator in   *)
(* parentheses is none, one of && and || has a relation as its operand and is   *)
(* none; and the macro that is proposed holds of the operands when the one in   *)
(* the code does.                                                            *)
ChecksReplaceable ==
  Done /\ WellBracketed =>
    \A n \in Reported("readability/check") :
      LET found    == FindCheckMacro(elided[n])
          open     == <<n, found.pos>>
          end      == CloseExpression(elided, n, found.pos)
          operator == Relation(Between(elided, n, found.pos, end)).operator
      IN Spaced(open) =>
         /\ Relations(open) # {}
         /\ \A p \in Outermost(open) : TokenAt(p) # "||" /\ ~(TokenAt(p) = "&" /\ Beside(p, 1) = "&")
         /\ \A a, b \in 0 .. 2 :
              Holds(Replacement(found.macro, operator), a, b)
                = (Holds(operator, a, b) # Negates(found.macro))
=============================================================================
