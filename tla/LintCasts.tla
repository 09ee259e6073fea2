------------------------------- MODULE LintCasts -------------------------------
(***************************************************************************)
(* Casts: CheckCasts, CheckCStyleCast and ExpectingFunctionArgs of           *)
(* tools/cpplint/cpplint.py.  No space stands around "static_cast" and the    *)
(* other words of casts, nor before a comma; "operator++" is a word.          *)
(***************************************************************************)
EXTENDS LintBraces

CONSTANTS
  Numbers,  \* int, bool, double and the others
  Mocks     \* MOCK_METHOD1 and the others

CastWords == {"static_cast", "dynamic_cast", "down_cast", "reinterpret_cast"}

(* What no space divides.                                                    *)
Unspaced(tokens) ==
  Len(tokens) > 1 => \A i \in DOMAIN tokens : ~IsWord(tokens, i) /\ tokens[i] # ":"

-----------------------------------------------------------------------------
(* Types of functions are expected, where "int(int)" is no cast.              *)
ExpectingFunctionArgs(elided, n) ==
  LET Mock(line) == At(line, 1, Mocks) /\ At(line, 2, {"("})
      before == elided[n - 1]
  IN \/ Mock(elided[n])
     \/ /\ n > 2
        /\ \/ Mock(before) /\ Len(before) = 2
           \/ /\ Mock(before) /\ Len(before) > 3 /\ Last(before) = ","
              /\ Unspaced(SubSeq(before, 3, Len(before) - 1))
           \/ Mock(elided[n - 2]) /\ Len(elided[n - 2]) = 2
           \/ IsSuffix(<<"std::function", "<">>, before)

-----------------------------------------------------------------------------
(* Casts like functions: the first one of a line that has parameters.         *)

FunctionCall(line) ==
  FirstAt(line, 1, LAMBDA l, i :
    l[i] \in Numbers /\ At(l, i + 1, {"("}) /\ i + 2 \in DOMAIN l /\ l[i + 2] # ")")

(* Behind new, or the first argument of a template.                           *)
NewOrTemplate(line, i) ==
  LET before == IF At(line, i - 1, {"const"}) THEN i - 2 ELSE i - 1
  IN \/ At(line, before, {"new"})
     \/ At(line, before, {"<"}) /\ before > 1 /\ ~IsWord(line, before - 1)
     \/ At(line, before, {"<"}) /\ At(line, before - 1, CastWords)

(* An array: no other check of casts is made of the line then.                *)
IsArray(line, i) ==
  LET close == SelectInSubSeq(line, i + 2, Len(line), LAMBDA t : t \in {"(", ")"})
  IN close # 0 /\ line[close] = ")" /\ At(line, close + 1, {"["})

(* Pointers to functions, placement new and aliases.                          *)
IsOtherType(line, i) ==
  LET close == Find(line, ")", i)
  IN \/ Stands(line, i + 1, <<"(", "*", ")">>)
     \/ /\ close > i + 2 /\ At(line, close + 1, {"("})
        /\ Unspaced(SubSeq(line, i + 2, close - 1)) /\ ~Has(SubSeq(line, i + 2, close - 1), "(")
     \/ At(line, 1, {"using"}) /\ At(line, 3, {"="}) /\ At(line, 4, {line[i]})
     \/ \E j, k \in DOMAIN line :
          /\ line[j] = "new" /\ At(line, j + 1, {"("}) /\ line[k] = ")" /\ k > j + 2
          /\ At(line, k + 1, {line[i]}) /\ Unspaced(SubSeq(line, j + 2, k - 1))

CallsType(line, i) == ~NewOrTemplate(line, i) /\ ~IsOtherType(line, i)

-----------------------------------------------------------------------------
(* CheckCStyleCast: the first place of a line that looks like a cast.         *)

(* The type in parentheses: of numbers, of a string literal, or a pointer.    *)
IsNumberCast(l, i) == l[i] = "(" /\ At(l, i + 1, Numbers) /\ At(l, i + 2, {")"})
PointerEnd(l, i) ==
  LET close == SelectInSubSeq(l, i + 2, Len(l), LAMBDA t : t # "*")
  IN IF l[i] = "(" /\ IsWord(l, i + 1) /\ close > i + 2 /\ l[close] = ")" THEN close ELSE 0
IsStringCast(l, i)  == At(l, i + 1, {"char"}) /\ PointerEnd(l, i) # 0
                       /\ At(l, PointerEnd(l, i) + 1, {"\""})
IsPointerCast(l, i) == PointerEnd(l, i) # 0

(* Whether a text ends among the arguments of a macro, which are at most in one  *)
(* more pair of parentheses.                                                 *)
InMacro(text) ==
  \E i \in DOMAIN text :
    /\ text[i] \in Macros /\ At(text, i + 1, {"("})
    /\ LET depth[k \in i + 1 .. Len(text)] ==
             IF k = i + 1 THEN 0
             ELSE depth[k - 1] + (IF text[k] = "(" THEN 1 ELSE IF text[k] = ")" THEN -1 ELSE 0)
       IN depth[Len(text)] = 0 /\ \A k \in i + 1 .. Len(text) : depth[k] \in {0, 1}

(* Mutant: the line alone. *)
ContextLine(elided, indented, n, i) == Upto(elided[n], i - 1)

(* A text and the next line: without a space between, two words become one,    *)
(* which names a macro only if both do.                                      *)
Joined(text, line, indented) ==
  IF ~indented /\ text # <<>> /\ IsWord(text, Len(text)) /\ IsWord(line, 1)
     /\ ~({Last(text), line[1]} \subseteq Macros)
  THEN Front(text) \o <<"word">> \o Tail(line) ELSE text \o line

(* What stands before a place, with the four lines above but for the first.    *)
Context(elided, indented, n, i) ==
  LET text[m \in 1 .. n] ==
        IF m = 1 \/ m < n - 4 THEN <<>>
        ELSE Joined(text[m - 1], IF m = n THEN Upto(elided[n], i - 1) ELSE elided[m], m \in indented)
  IN text[n]

(* Mutant: only the line alone and the one above are looked at. *)
OperatorEndsNear(elided, indented, n, i) ==
  LET m      == IF i = 1 /\ n \notin indented /\ n > 2 THEN n - 1 ELSE n
      tokens == IF m = n THEN Upto(elided[n], i - 1) ELSE elided[m]
  IN EndsWith(tokens, {"operator++", "operator--"}) /\ (Len(tokens) > 1 \/ m \in indented)

(* Whether the same text ends with one of the operators, a space before it.      *)
OperatorEnds(elided, indented, n, i) ==
  LET above  == {m \in 2 .. n - 1 : m >= n - 4 /\ elided[m] # <<>>}
      m      == IF i = 1 /\ n \notin indented /\ above # {} THEN Max(above) ELSE n
      tokens == IF m = n THEN Upto(elided[n], i - 1) ELSE elided[m]
  IN EndsWith(tokens, {"operator++", "operator--"}) /\ (Len(tokens) > 1 \/ m \in indented)

CheckCStyleCast(elided, indented, n, i, rest) ==
  /\ i # 0
  /\ ~EndsWith(Upto(elided[n], i - 1), {"sizeof", "alignof", "alignas"} \cup Macros)
  /\ ~InMacro(Context(elided, indented, n, i))
  /\ ~OperatorEnds(elided, indented, n, i)
  /\ ~At(rest, 1, {";", "const", "throw", "final", "override", "=", ">", "{", ")", ","})
  /\ ~Stands(rest, 1, <<"-", ">">>)

CStyleCast(elided, indented, n) ==
  LET line     == elided[n]
      number   == FirstAt(line, 1, IsNumberCast)
      string   == FirstAt(line, 1, IsStringCast)
      pointer  == FirstAt(line, 1, IsPointerCast)
  IN \/ /\ ~ExpectingFunctionArgs(elided, n)
        /\ CheckCStyleCast(elided, indented, n, number, From(line, number + 3))
     \/ CheckCStyleCast(elided, indented, n, string, <<"\"">>)
     \/ pointer # 0 /\ CheckCStyleCast(elided, indented, n, pointer,
                          From(line, PointerEnd(line, pointer) + 1))

-----------------------------------------------------------------------------
(* The addresses of casts.  Something stands before the "&": a token, or the    *)
(* spaces of an indented line.                                               *)

IsAddress(line, i, indented) ==
  /\ line[i] = "&" /\ (i > 1 \/ indented)
  /\ \/ At(line, i + 1, CastWords)
     \/ LET close == Find(line, ")", i)
        IN /\ At(line, i + 1, {"("}) /\ close > i + 2 /\ line[i + 2] # "*"
           /\ (IsWord(line, close + 1) \/ At(line, close + 1, {"("}))

(* The type of the last cast whose address is taken, its "<" and ">": then the   *)
(* character after it is read, and cpplint fails if there is none.             *)
CastType(elided, n) ==
  LET casts == {i \in DOMAIN elided[n] : elided[n][i] = "<" /\ At(elided[n], i - 1, CastWords)
                                          /\ At(elided[n], i - 2, {"&"})}
  IN IF casts = {} THEN Nowhere(n) ELSE CloseExpression(elided, n, Max(casts))

Dereferences(tokens) == Stands(tokens, 1, <<"-", ">">>) \/ At(tokens, 1, {"["})

(* What the cast is of, between parentheses, is dereferenced behind them: on     *)
(* their line or on the next.                                                *)
EndDereferences(elided, end) ==
  /\ end.pos # 0
  /\ Dereferences(From(elided[end.line], end.pos)
                  \o (IF end.line < Len(elided) THEN elided[end.line + 1] ELSE <<>>))

TypeDereferences(elided, type) ==
  /\ type.pos # 0 /\ At(elided[type.line], type.pos, {"("})
  /\ EndDereferences(elided, CloseExpression(elided, type.line, type.pos))

(* Mutant: what follows is looked for on the line of the cast. *)
IsDereferencedHere(elided, n) ==
  TypeDereferences(Upto(elided, n), CastType(Upto(elided, n), n))

IsDereferenced(elided, n) == TypeDereferences(elided, CastType(elided, n))

Addresses(line, indented) == \E i \in DOMAIN line : IsAddress(line, i, indented)

EndsItsLine(elided, type) == type.pos # 0 /\ type.pos \notin DOMAIN elided[type.line]

FailsOnCast(elided, indented, n) ==
  LET line == elided[n]
      call == FunctionCall(line)
  IN /\ ~(call # 0 /\ IsArray(line, call) /\ ~ExpectingFunctionArgs(elided, n))
     /\ Addresses(line, n \in indented)
     /\ EndsItsLine(elided, CastType(elided, n))

CastReports(n, condition, category) == IF condition THEN {Report(n, category, 4)} ELSE {}

(* The two reports on addresses of casts.                                     *)
AddressReports(n, dereferenced) ==
  CastReports(n, dereferenced, "readability/casting")
  \cup CastReports(n, ~dereferenced, "runtime/casting")

CheckCasts(elided, indented, n) ==
  LET line == elided[n]
      call == IF ExpectingFunctionArgs(elided, n) THEN 0 ELSE FunctionCall(line)
  IN IF line = <<>> \/ IsInclude(line) \/ (call # 0 /\ IsArray(line, call)) THEN {}
     ELSE CastReports(n, \/ call # 0 /\ CallsType(line, call)
                         \/ CStyleCast(elided, indented, n), "readability/casting")
          \cup (IF Addresses(line, n \in indented) /\ ~FailsOnCast(elided, indented, n)
                THEN AddressReports(n, IsDereferenced(elided, n)) ELSE {})

=============================================================================
