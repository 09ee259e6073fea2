----------------------------- MODULE LintParameters -----------------------------
(***************************************************************************)
(* References that are not const: CheckForNonConstReference of               *)
(* tools/cpplint/cpplint.py and what it calls, which read the lines          *)
(* backwards.  A type whose qualified name is split across lines is left      *)
(* out; "A::f" is one word.                                                  *)
(***************************************************************************)
EXTENDS LintBraces

CONSTANTS
  Qualified,  \* the names with "::" in them
  Streams,    \* the names that end with "stream"
  Allowed     \* swap, operator<< and operator>>, static_assert, COMPILE_ASSERT

(* Calls are looked for on a line and on the nine before it.                  *)
Nearby(n) == Max({1, n - 9}) .. n

(* The first parenthesis of a line, if it is one that opens behind a word.     *)
OpensCall(line) ==
  LET i == SelectInSeq(line, LAMBDA t : t \in {"(", ")"})
  IN IF i # 0 /\ line[i] = "(" /\ IsWord(line, i - 1) THEN i ELSE 0

Calls(elided, n) == {m \in Nearby(n) : OpensCall(elided[m]) # 0}

IsDerivedFunction(elided, n) ==
  LET m   == Max(Calls(elided, n))
      end == CloseExpression(elided, m, OpensCall(elided[m]))
  IN /\ Calls(elided, n) # {} /\ end.pos # 0
     /\ Has(From(elided[end.line], end.pos), "override")

IsOutOfLineMethodDefinition(elided, n) ==
  LET m == Max(Calls(elided, n))
  IN Calls(elided, n) # {} /\ elided[m][OpensCall(elided[m]) - 1] \in Qualified

(* The lines back to the first that shows whether they are an initializer list. *)
IsInitializerList(elided, n) ==
  LET LineOf(m)  == IF m = n /\ EndsWith(elided[m], {"{"}) THEN Front(elided[m]) ELSE elided[m]
      Member(m)  == LET l == LineOf(m)
                    IN \/ \E i \in DOMAIN l : l[i] = ":" /\ IsWord(l, i + 1) /\ At(l, i + 2, {"(", "{"})
                       \/ IsSuffix(<<"}", ",">>, l)
      shown == {m \in 3 .. n : Member(m) \/ EndsWith(LineOf(m), {"{", "}", ";"})}
  IN shown # {} /\ Member(Max(shown))

(* The line, or with the lines before it where the template parameters begin    *)
(* that end on it.                                                           *)
WholeType(elided, n) ==
  LET line  == elided[n]
      start == ReverseCloseExpression(elided, n, SelectLastInSeq(line, LAMBDA t : t = ">"))
  IN IF n > 2 /\ Has(line, ">") /\ start.pos # 0 /\ start.line < n
     THEN FlattenSeq(SubSeq(elided, start.line, n)) ELSE line

(* A line that begins with a colon, behind lines that end like one of a list.   *)
FollowsColon(elided, n) ==
  LET lines == {m \in Nearby(n) \ {1, n} :
                  \A k \in m .. n - 1 : EndsWith(elided[k], {")", ","})}
  IN \E m \in lines : At(elided[m], 1, {":"}) /\ Len(elided[m]) > 1

(* A function whose references may be what they like, on the line or, if it     *)
(* has no open parenthesis, on the two before it.                            *)
Allows(line) ==
  \E i \in DOMAIN line : line[i] \in Allowed /\ At(line, i + 1, {"("})

IsAllowed(elided, line, n) ==
  \/ Allows(line)
  \/ /\ \A i \in 2 .. Len(line) : line[i] = "(" => Has(From(line, i), ")")
     /\ \E m \in Max({1, n - 2}) .. n - 1 : Allows(elided[m])

-----------------------------------------------------------------------------
(* The parameters.                                                           *)

WithoutBodies(line) ==
  LET from[i \in 1 .. Len(line) + 1] ==
        LET close == Find(line, "}", i)
        IN IF i > Len(line) THEN <<>>
           ELSE IF line[i] = "{" /\ close # 0 THEN from[close + 1]
           ELSE <<line[i]>> \o from[i + 1]
  IN from[1]

(* Where the type before a reference ends, const and "*" behind it apart.      *)
TypeEnd(line, i) ==
  SelectLastInSubSeq(line, 1, i - 1, LAMBDA t : t \notin {"const", "*"})

(* Where it begins: with a word, or with template parameters before which one   *)
(* stands; 0 if there is no type.                                            *)
TypeStart(line, e) ==
  LET depth(k) == Count(SubSeq(line, k, e), ">") - Count(SubSeq(line, k, e), "<")
      opens == {k \in 1 .. e : depth(k) = 0}
  IN IF ~At(line, e, {">"}) THEN IF IsWord(line, e) THEN e ELSE 0
     ELSE IF opens = {} THEN 0
     ELSE IF IsWord(line, Max(opens) - 1) THEN Max(opens) - 1 ELSE Max(opens)

(* Where the parameter ends that the reference is part of; 0 if it is none.    *)
ParameterEnd(line, i) ==
  LET stop == SelectInSubSeq(line, i + 3, Len(line), LAMBDA t : t \in {",", "(", ")"})
  IN IF \/ line[i] # "&" \/ TypeEnd(line, i) = 0 \/ ~IsWord(line, i + 1)
        \/ TypeStart(line, TypeEnd(line, i)) = 0 THEN 0
     ELSE IF At(line, i + 2, {",", ")"}) THEN i + 2
     ELSE IF At(line, i + 2, {"="}) /\ stop > i + 3 /\ line[stop] # "(" THEN stop
     ELSE 0

(* const stands behind the type, or before it and nothing else behind.         *)
IsConst(line, i) ==
  LET start == TypeStart(line, TypeEnd(line, i))
      first == IF At(line, start - 1, {"typename", "class", "struct", "union", "enum"})
               THEN start - 1 ELSE start
  IN \/ line[i - 1] = "const"
     \/ At(line, first - 1, {"const"}) /\ TypeEnd(line, i) = i - 1

(* References that are parameters, default arguments apart.                   *)
References(line) ==
  {i \in DOMAIN line : /\ ParameterEnd(line, i) # 0
                       /\ \A k \in 1 .. i - 1 : ParameterEnd(line, k) < i}

(* Mutant: in functions, too. *)
DeclaringInBlocks(top) == top.kind \in {"", "class", "namespace", "block"}

(* Functions are declared at the top, in classes and in namespaces.           *)
Declaring(top) == top.kind \in {"", "class", "namespace"}

HasNonConst(decls) ==
  \E i \in References(decls) : ~IsConst(decls, i) /\ decls[i - 1] \notin Streams

(* What the line, or the whole of its type, shows.                            *)
Refers(elided, line, n) ==
  ~EndsWith(line, {"\\"}) /\ ~IsAllowed(elided, line, n) /\ HasNonConst(WithoutBodies(line))

CheckForNonConstReference(previous_stack_top, elided, n) ==
  IF /\ Has(elided[n], "&")
     /\ ~IsDerivedFunction(elided, n) /\ ~IsOutOfLineMethodDefinition(elided, n)
     /\ Declaring(previous_stack_top)
     /\ ~FollowsColon(elided, n) /\ ~IsInitializerList(elided, n)
     /\ Refers(elided, WholeType(elided, n), n)
  THEN {Report(n, "runtime/references", 2)} ELSE {}

=============================================================================
