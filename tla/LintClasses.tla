------------------------------ MODULE LintClasses ------------------------------
(***************************************************************************)
(* What classes declare: CheckSectionSpacing, the blank lines of             *)
(* CheckSpacing, the constructors of CheckForNonStandardConstructs,          *)
(* CheckRedundantVirtual and CheckRedundantOverrideOrFinal of                *)
(* tools/cpplint/cpplint.py.  "public:", "&&...", "std::initializer_list"    *)
(* are words; names are unqualified; the exceptions for lines that are       *)
(* indented by four or six spaces are left out.                              *)
(***************************************************************************)
EXTENDS LintBraces

CONSTANT SmallClass  \* the lines up to which a class is small: 24 in the code

AccessKeywords == {"public", "protected", "private"}

-----------------------------------------------------------------------------
(* Mutant: the first closing brace. *)
LastLineFirst(elided, start) ==
  LET ends == {n \in start .. Len(elided) : Has(elided[n], "}")}
  IN IF ends = {} THEN 0 ELSE Min(ends)

(* The end of a class, if its braces are alone on their lines: last_line of     *)
(* _ClassInfo.  A head that its line does not end has no end but its own line. *)
LastLine(elided, start) ==
  LET depth[n \in start - 1 .. Len(elided)] ==
        IF n < start THEN 0
        ELSE depth[n - 1] + Count(elided[n], "{") - Count(elided[n], "}")
      ends == {n \in start .. Len(elided) : depth[n] = 0}
  IN IF ends = {} THEN 0 ELSE Min(ends)

CheckSectionSpacing(class, clean, n) ==
  LET start    == class.starting_linenum
      previous == clean.lines[n - 1]
      heads    == {i \in start .. n - 1 : EndsWith(clean.lines[i], {"{"})}
      head     == IF heads = {} THEN start ELSE Min(heads)
  IN IF /\ LastLine(clean.elided, start) - start > SmallClass /\ n > start
        /\ At(clean.lines[n], 1, Access)
        /\ previous # <<>> /\ ~Has(previous, "class") /\ ~Has(previous, "struct")
        /\ ~EndsWith(previous, {"\\"})
        /\ head < n - 1
     THEN {Report(n, "whitespace/blank_line", 3)} ELSE {}

-----------------------------------------------------------------------------
(* Mutant: comments and strings removed. *)
IsBlankElided(clean, n) == clean.elided[n] = <<>>

IsBlank(clean, n) == clean.lines_without_raw_strings[n] = <<>>

(* "} else " with the space before what follows it on its line.               *)
ElseAfterBrace(tokens) ==
  \E i \in DOMAIN tokens : /\ Stands(tokens, i, <<"}", "else">>) /\ i + 1 < Len(tokens)
                          /\ tokens[i + 2] \notin {"(", ")", ",", ";"}

(* Blank lines in blocks, those of namespaces and extern "C" apart.           *)
CheckBlankLines(s, clean, n) ==
  LET raw      == clean.lines_without_raw_strings
      previous == IF n = 1 THEN Last(clean.elided) ELSE clean.elided[n - 1]
      brace    == SelectLastInSeq(previous, LAMBDA t : t = "{")
      Blank(condition, confidence) ==
        IF condition THEN {Report(n, "whitespace/blank_line", confidence)} ELSE {}
  IN IF ~IsBlank(clean, n) \/ TopIsA(s, "namespace") \/ TopIsA(s, "extern") THEN {}
     ELSE Blank(brace # 0 /\ ~Has(From(previous, brace), "}"), 2)
          \cup Blank(/\ n < Len(raw) /\ At(raw[n + 1], 1, {"}"})
                     /\ ~ElseAfterBrace(raw[n + 1]), 3)
          \cup Blank(At(previous, 1, Access), 3)

-----------------------------------------------------------------------------
(* Constructors that are declared on one indented line.                       *)

Specifiers == {"inline", "constexpr", "explicit"}

(* The first token after the specifiers.                                      *)
Declared(line) == SelectInSeq(line, LAMBDA t : t \notin Specifiers)

(* The parentheses that close the ones at a position, with at most one level of *)
(* others inside; 0 if there are none.                                       *)
ClosesList(line, open) ==
  LET depth[i \in open - 1 .. Len(line)] ==
        IF i < open THEN 0
        ELSE depth[i - 1] + (IF line[i] = "(" THEN 1 ELSE IF line[i] = ")" THEN -1 ELSE 0)
      ends == {i \in open .. Len(line) : depth[i] = 0}
  IN IF ends = {} \/ \E i \in open .. Min(ends) : depth[i] > 2 THEN 0 ELSE Min(ends)

IsConstructor(line, name) ==
  LET i == Declared(line)
  IN /\ i > 0 /\ line[i] = name /\ At(line, i + 1, {"("}) /\ ClosesList(line, i + 1) # 0
     /\ Cardinality({k \in 1 .. i - 1 : line[k] = "explicit"}) < 2

(* What the commas divide the parameters into.                                *)
SplitAt(tokens) ==
  LET from[i \in 1 .. Len(tokens) + 1] ==
        IF i > Len(tokens) THEN <<<<>>>>
        ELSE IF tokens[i] = "," THEN <<<<>>>> \o from[i + 1]
        ELSE <<<<tokens[i]>> \o Head(from[i + 1])>> \o Tail(from[i + 1])
  IN IF tokens = <<>> THEN <<>> ELSE from[1]

(* Mutants: parentheses alone; pieces that close what they open, too. *)
OpensParentheses(arg) == Count(arg, "(") > Count(arg, ")")
OpensOrCloses(arg) == Count(arg, "<") >= Count(arg, ">") /\ Has(arg, ">")

(* Pieces that open more "<" or "(" than they close go on with the next one.   *)
(* cpplint itself fails when the last piece does.                            *)
Opens(arg) == Count(arg, "<") > Count(arg, ">") \/ Count(arg, "(") > Count(arg, ")")

Collapse(pieces) ==
  LET from[i \in 1 .. Len(pieces) + 1, arg \in Seq(STRING)] ==
        IF Opens(arg)
        THEN IF i > Len(pieces) THEN [args |-> <<>>, died |-> TRUE]
             ELSE from[i + 1, arg \o <<",">> \o pieces[i]]
        ELSE LET rest == IF i > Len(pieces) THEN [args |-> <<>>, died |-> FALSE]
                         ELSE from[i + 1, pieces[i]]
             IN [rest EXCEPT !.args = <<arg>> \o @]
  IN IF pieces = <<>> THEN [args |-> <<>>, died |-> FALSE] ELSE from[2, pieces[1]]

Parameters(line) ==
  LET open == Declared(line) + 1
  IN Collapse(SplitAt(SubSeq(line, open + 1, ClosesList(line, open) - 1)))

IsCopy(arg, name) ==
  LET i     == SelectInSeq(arg, LAMBDA t : t \notin {"const", "volatile"})
      angle == IF At(arg, i + 1, {"<"}) THEN Find(arg, ">", i + 1) ELSE i
      j     == IF At(arg, angle + 1, {"const"}) THEN angle + 2 ELSE angle + 1
  IN i > 0 /\ arg[i] = name /\ angle # 0 /\ At(arg, j, {"&", "&&..."})

OneArgument(args) ==
  LET defaulted == {i \in DOMAIN args : Has(args[i], "=")}
      variadic  == {i \in DOMAIN args : Has(args[i], "&&...")}
  IN /\ args # <<>> /\ args # <<<<"void">>>>
     /\ \/ Cardinality(defaulted) >= Len(args) - 1
        \/ Len(args) <= 2 /\ variadic # {}

(* The class on top has a name, and its head is complete.                     *)
InClass(s) ==
  InnermostClass(s) # 0 /\ s[InnermostClass(s)].seen_open_brace

Constructs(s, elided, indented, n) ==
  n \in indented /\ InClass(s) /\ IsConstructor(elided[n], s[InnermostClass(s)].name)

CheckConstructors(s, elided, indented, n) ==
  LET line     == elided[n]
      name     == s[InnermostClass(s)].name
      args     == Parameters(line).args
      explicit == Has(Upto(line, Declared(line)), "explicit")
  IN IF ~Constructs(s, elided, indented, n) \/ Parameters(line).died THEN {}
     ELSE IF \/ /\ ~explicit /\ OneArgument(args)
                /\ ~Has(args[1], "std::initializer_list") /\ ~IsCopy(args[1], name)
             \/ explicit /\ args \in {<<>>, <<<<"void">>>>}
     THEN {Report(n, "runtime/explicit", 5)} ELSE {}

(* Whether cpplint fails on a line.                                           *)
Fails(s, elided, indented, n) ==
  Constructs(s, elided, indented, n) /\ Parameters(elided[n]).died

-----------------------------------------------------------------------------
(* Virtual functions.  The parenthesis after the last "virtual" of a line is    *)
(* looked for from a fixed column on, before which no other stands here.       *)

(* A colon with something behind it; a line that begins with one is indented.   *)
HasColon(line) == \E i \in 1 .. Len(line) - 1 : line[i] \in Access \cup {":"}

(* Mutant: up to the third line in any case. *)
AfterParametersThree(elided, end) ==
  LET TextOf(m) == IF m = end.line THEN From(elided[m], end.pos) ELSE elided[m]
  IN UNION {ToSet(TextOf(m)) : m \in end.line .. Min({end.line + 2, Len(elided)})}

(* The text after the parameters, in the line where they end and the two after   *)
(* it, up to the first line that does not end with a word.                   *)
AfterParameters(elided, end) ==
  LET TextOf(m) == IF m = end.line THEN From(elided[m], end.pos) ELSE elided[m]
      Complete(m)   == TextOf(m) # <<>> /\ ~IsWord(TextOf(m), Len(TextOf(m)))
      Lines     == {m \in end.line .. Min({end.line + 2, Len(elided)}) :
                      \A k \in end.line .. m - 1 : ~Complete(k)}
  IN UNION {ToSet(TextOf(m)) : m \in Lines}

CheckRedundantVirtual(elided, n) ==
  LET line    == elided[n]
      virtual == SelectLastInSeq(line, LAMBDA t : t = "virtual")
      starts  == {m \in n .. Min({n + 2, Len(elided)}) : Has(elided[m], "(")}
      start   == Min(starts)
      end     == CloseExpression(elided, start, Find(elided[start], "(", 1))
  IN IF /\ virtual # 0 /\ ~At(line, virtual - 1, AccessKeywords)
        /\ ~At(line, virtual + 1, AccessKeywords) /\ ~HasColon(line)
        /\ starts # {} /\ end.pos # 0
        /\ AfterParameters(elided, end) \cap {"override", "final"} # {}
     THEN {Report(n, "readability/inheritance", 4)} ELSE {}

CheckRedundantOverrideOrFinal(elided, n) ==
  LET line     == elided[n]
      close    == SelectLastInSeq(line, LAMBDA t : t = ")")
      fragment == From(line, Max({close, 1}))
  IN IF /\ close # 0 \/ (n > 2 /\ Has(elided[n - 1], ")"))
        /\ Has(fragment, "override") /\ Has(fragment, "final")
     THEN {Report(n, "readability/inheritance", 4)} ELSE {}

=============================================================================
