--------------------------- MODULE LintCastPromises ---------------------------
(***************************************************************************)
(* What the checks of casts promise, stated of the code as C++ reads it.     *)
(***************************************************************************)
EXTENDS LintClassPromises

(* Lines of which no report about casts but those below is made.              *)
WithoutCalls(n) == FunctionCall(elided[n]) = 0 /\ ~ExpectingFunctionArgs(elided, n)

-----------------------------------------------------------------------------
(* Casts like those of C: a type in parentheses with an operand behind it.    *)

CastAt(p) ==
  /\ TokenAt(p) = "(" /\ PartnerOf(p)[1] = p[1]
  /\ \/ Beside(p, 1) \in Numbers /\ Beside(p, 2) = ")"
     \/ IsWord(elided[p[1]], p[2] + 1) /\ Beside(p, 2) = "*" /\ Beside(p, 3) = ")"
Operand(p) == IsWord(elided[p[1]], PartnerOf(p)[2] + 1)
              /\ elided[p[1]][PartnerOf(p)[2] + 1] \notin {"const", "throw", "final", "override"}
Casts(n) == {p \in ToSet(Brackets) : p[1] = n /\ CastAt(p)}

(* The parentheses around a place.                                            *)
Around(p) ==
  LET closed == {pair[1] : pair \in {q \in Matching.pairs : ~Before(p, q[2])}}
  IN {e \in ToSet(Brackets) \ closed : TokenAt(e) = "(" /\ Before(e, p)}

(* The arguments of a macro, not more than four lines above; no parentheses stand *)
(* in parentheses there.                                                     *)
Excused(p) ==
  \E e \in Around(p) :
    LET between == {q \in ToSet(Brackets) : TokenAt(q) = "(" /\ Before(e, q) /\ Before(q, p)}
        name    == IF e = Places[1] THEN e ELSE Places[IndexOf(e) - 1]
    IN /\ Around(p) \ Around(e) = {e}
       /\ TokenAt(name) \in Macros /\ name[1] >= p[1] - 4
       /\ \A q, r \in between : r \notin Around(q)

(* The parameter of a postfix operator, whose name stands right before it, with    *)
(* nothing but ends of lines between, and behind a space.                      *)
IsPostfix(p) ==
  /\ Beside(p, -1) \in {"operator++", "operator--"}
  /\ LET name == Places[IndexOf(p) - 1]
     IN /\ name[1] = p[1] \/ (p[1] \notin source.indented /\ name[1] >= p[1] - 4)
        /\ name[2] > 1 \/ name[1] \in source.indented

(* No line runs into the next, as unindented words do.                        *)
Divided ==
  \A k \in 2 .. Len(Places) :
    LET p == Places[k - 1]  q == Places[k]
    IN IsWord(elided[p[1]], p[2]) /\ IsWord(elided[q[1]], q[2]) /\ q[2] = 1
       => q[1] \in source.indented

(* A cast that is the only one on its line is reported if and only if it is not    *)
(* among the arguments of a macro, nor the parameter of a postfix operator,     *)
(* which may begin on a line above: the comments at                           *)
(* tools/cpplint/cpplint.py:5837 and 5845.                                    *)
CastsReported ==
  Done /\ WellBracketed /\ Divided =>
    \A n \in DOMAIN elided :
      Cardinality(Casts(n)) = 1 /\ WithoutCalls(n) /\ ~Addresses(elided[n], n \in source.indented) =>
        LET p == CHOOSE q \in Casts(n) : TRUE
        IN Operand(p) /\ Beside(p, -1) \notin Macros \cup {"sizeof"} =>
             (n \in Reported("readability/casting")) = ~(Excused(p) \/ IsPostfix(p))

-----------------------------------------------------------------------------
(* The address of a cast, by the place of its "&", to a type of words.        *)

AddressAt(p) ==
  /\ TokenAt(p) = "&" /\ Beside(p, 1) \in CastWords /\ Beside(p, 2) = "<"
  /\ p[2] > 1 \/ p[1] \in source.indented
  /\ p[2] + 2 \in DOMAIN elided[p[1]]

(* Where its type ends, if that is ">" and only words and stars come before.   *)
TypeEndOf(p) ==
  SelectInSubSeq(Places, IndexOf(p) + 3, Len(Places),
                 LAMBDA q : TokenAt(q) # "*" /\ ~IsWord(elided[q[1]], q[2]))
Simple(p)  == TypeEndOf(p) # 0 /\ TokenAt(Places[TypeEndOf(p)]) = ">"
TypeEnds(p) == LET q == Places[TypeEndOf(p)] IN q[2] = Len(elided[q[1]])

Subscripted(p) ==
  LET open  == Places[TypeEndOf(p) + 1]
      close == PartnerOf(open)
      next  == Places[IndexOf(close) + 1]
  IN /\ TypeEndOf(p) < Len(Places) /\ TokenAt(open) = "(" /\ open[1] = Places[TypeEndOf(p)][1]
     /\ close # <<0, 0>> /\ IndexOf(close) < Len(Places) /\ next[1] - close[1] \in {0, 1}
     /\ TokenAt(next) = "[" \/ (TokenAt(next) = "-" /\ Beside(next, 1) = ">"
                               /\ next[2] < Len(elided[next[1]]))

(* Of the address of a cast it is said that it may be that of a temporary, or, if   *)
(* what is cast is dereferenced up to the next line, that parentheses are       *)
(* missing; but where the type ends a line cpplint fails, and nothing is said.  *)
AddressesTold ==
  Done /\ WellBracketed =>
    \A p \in ToSet(Places) :
      LET n == p[1]
      IN AddressAt(p) /\ Simple(p) /\ Count(elided[n], "&") = 1 /\ WithoutCalls(n) =>
           /\ ~TypeEnds(p)
           /\ Subscripted(p) => n \in Reported("readability/casting") \ Reported("runtime/casting")
           /\ ~Subscripted(p) => n \in Reported("runtime/casting")


(* Of casts, exactly what is true is said, or cpplint fails where it must.    *)
CastsTold == CastsReported /\ AddressesTold /\ FailsOnOperators
=============================================================================
