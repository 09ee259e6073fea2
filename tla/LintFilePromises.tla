--------------------------- MODULE LintFilePromises ---------------------------
(***************************************************************************)
(* What the linting of a file promises, stated of the file as C++ sees it    *)
(* and not of the states cpplint keeps.                                      *)
(***************************************************************************)
EXTENDS LintFile

Lines == source.lines
Done  == phase = "done"

(* The lines of a file, of those between the markers, with reports of a        *)
(* category among some.                                                      *)
Reported(category) == {r.line : r \in {q \in raised : q.category = category}}

-----------------------------------------------------------------------------
(* The types of what the linting of a file changes.  What is printed was       *)
(* raised, and every report is about a line of the file or (0) about none.    *)
Blocks == [kind : {"block", "extern", "class", "namespace"}, name : STRING,
           starting_linenum : Nat, seen_open_brace : BOOLEAN, open_parentheses : Int,
           inline_asm : {"no", "inside", "end", "block"}]
TypeOK ==
  /\ phase \in {"begin", "lines", "done", "died"}
  /\ line \in 1 .. Len(elided) + 1 /\ Len(clean.raw_lines) = Len(elided)
  /\ stack \in Seq(Blocks)
  /\ \A i \in DOMAIN pp_stack : /\ pp_stack[i].stack_before_if \in Seq(Blocks)
                                /\ pp_stack[i].stack_before_else \in Seq(Blocks)
                                /\ pp_stack[i].seen_else \in BOOLEAN
  /\ include_state.section \in Sections
  /\ function_state.lines_in_function \in 0 .. line
  /\ raised \subseteq [line : 0 .. Len(elided), category : Category, confidence : 0 .. 5]
  /\ reported \subseteq raised

-----------------------------------------------------------------------------
(* The text of a file, read in one pass.  Line ends close line comments,      *)
(* strings and characters.                                                   *)

(* The mode after a token, which may close a raw string with the one before.  *)
Step(mode, l, i) ==
  CASE mode = "code" /\ RawStart(l, i)      -> "raw"
    [] mode = "code" /\ l[i] = "//"         -> "comment"
    [] mode = "code" /\ l[i] = "/*"         -> "block"
    [] mode = "code" /\ l[i] = "\""         -> "string"
    [] mode = "code" /\ l[i] = "'"          -> "char"
    [] mode = "block" /\ l[i] = "*/"        -> "code"
    [] mode = "string" /\ l[i] = "\""       -> "code"
    [] mode = "char" /\ l[i] = "'"          -> "code"
    [] mode = "raw" /\ i > 1 /\ RawEnd(l, i - 1) -> "code"
    [] OTHER                                -> mode

(* The modes before each token of each line, and after the last.              *)
Modes(lines) ==
  LET on[n \in 0 .. Len(lines)] ==
        LET start == IF n < 2 THEN "code"
                     ELSE LET last == on[n - 1][Len(lines[n - 1]) + 1]
                          IN IF last \in {"block", "raw"} THEN last ELSE "code"
            after[i \in 1 .. Len(lines[n]) + 1] ==
              IF i = 1 THEN start ELSE Step(after[i - 1], lines[n], i - 1)
        IN IF n = 0 THEN <<>> ELSE after
  IN on

IsCode(modes, n, i) == modes[n][i] = "code" /\ modes[n][i + 1] = "code"

CodeOf(lines, modes, n) ==
  LET code == {i \in DOMAIN lines[n] : IsCode(modes, n, i)}
  IN [k \in 1 .. Cardinality(code) |->
        lines[n][CHOOSE i \in code : Cardinality({j \in code : j <= i}) = k]]

WithoutQuotes(l) == SelectSeq(l, LAMBDA t : t \notin Quote)

(* A file that a compiler accepts: what is opened is closed.                  *)
WellFormed(lines, modes) ==
  \A n \in DOMAIN lines :
    LET end == modes[n][Len(lines[n]) + 1]
    IN /\ end \notin {"string", "char"}
       /\ n = Len(lines) => end \notin {"block", "raw"}
       /\ \A i \in DOMAIN lines[n] : lines[n][i] = "*/" => modes[n][i] # "code"

(* What cpplint does not handle: quotes in a comment between /* and */, the   *)
(* start of a raw string inside of anything but code or a line comment, a     *)
(* line of a raw string that looks like the start of a comment, and anything  *)
(* after the end of a comment of several lines.                              *)
Tame(lines, modes) ==
  \A n \in DOMAIN lines :
    /\ modes[n][1] = "raw" => ~Starts(lines[n])
    /\ modes[n][1] = "block" => \A i \in 1 .. Len(lines[n]) - 1 : lines[n][i] # "*/"
    /\ \A i \in DOMAIN lines[n] :
         /\ modes[n][i] = "block" => lines[n][i] \notin Quote
         /\ RawStart(lines[n], i) => modes[n][i] \in {"code", "comment"}

(* Files without those, of which no multi-line comment or string is reported.  *)
Readable ==
  /\ WellFormed(Lines, Modes(Lines)) /\ Tame(Lines, Modes(Lines))
  /\ Reported("readability/multiline_comment") = {}
  /\ Reported("readability/multiline_string") = {}

(* In a file that is readable so the checks see the code, all of it and nothing else,    *)
(* whatever comments, strings and raw strings contain, in whatever order the  *)
(* passes of CleansedLines and RemoveMultiLineComments come.  (The name of an *)
(* included file is kept.)                                                   *)
TextCleansed ==
  LET modes == Modes(Lines)
  IN Done /\ Readable
     => \A n \in {m \in DOMAIN Lines : ~IsInclude(Lines[m])} :
          WithoutQuotes(elided[n + 1]) = CodeOf(Lines, modes, n)

-----------------------------------------------------------------------------
(* Brackets.  A place is a line and a position in it.                         *)

TokenAt(p) == elided[p[1]][p[2]]
Before(p, q) == p[1] < q[1] \/ (p[1] = q[1] /\ p[2] < q[2])
Brackets ==
  SelectSeq(FlattenSeq([n \in DOMAIN elided |-> [i \in DOMAIN elided[n] |-> <<n, i>>]]),
            LAMBDA p : TokenAt(p) \in Opening \cup Closing)

(* The brackets left open, those that close each other, and whether all that    *)
(* do are of a kind: as if there were no other tokens.                       *)
Matching ==
  LET brackets == Brackets
      upto[k \in 0 .. Len(brackets)] ==
        LET b == brackets[k]  u == upto[k - 1]
        IN IF k = 0 THEN [open |-> <<>>, pairs |-> {}, well |-> TRUE]
           ELSE IF TokenAt(b) \in Opening THEN [u EXCEPT !.open = Append(@, b)]
           ELSE IF u.open = <<>> THEN [u EXCEPT !.well = FALSE]
           ELSE [open |-> Front(u.open), pairs |-> u.pairs \cup {<<Last(u.open), b>>},
                 well |-> u.well /\ Pairs(TokenAt(Last(u.open)), TokenAt(b))]
  IN upto[Len(brackets)]

(* No bracket closes one of another kind, though some may never be closed.    *)
WellBracketed == Matching.well

(* In well-bracketed text CloseExpression finds the bracket that closes         *)
(* another, over any number of lines and whatever "<", ">" and ";" stand      *)
(* between, be they templates, shifts or comparisons; and                     *)
(* ReverseCloseExpression finds the way back.                                *)
BracketsMatch ==
  Done /\ WellBracketed =>
    \A pair \in Matching.pairs :
      LET p == pair[1]  q == pair[2]
      IN /\ CloseExpression(elided, p[1], p[2]) = [line |-> q[1], pos |-> q[2] + 1]
         /\ ReverseCloseExpression(elided, q[1], q[2]) = [line |-> p[1], pos |-> p[2]]

-----------------------------------------------------------------------------
(* Blocks.                                                                   *)

Conditional == \E l \in ToSet(elided) : Directive(l) \in If \cup Else

(* A head of a class or namespace that its line does not end goes on with a    *)
(* brace, or a semicolon, at the beginning of the next.                      *)
HeadsComplete ==
  \A n \in DOMAIN elided :
    /\ At(elided[n], 1, {"class", "struct", "namespace"})
    /\ \A i \in DOMAIN elided[n] : elided[n][i] \notin Consumed
    => At(elided[n + 1], 1, {"{", ";"})

(* The braces that lines before the next have opened and not closed.          *)
OpenBraces ==
  {p \in ToSet(Brackets) :
     /\ TokenAt(p) = "{" /\ p[1] < line
     /\ LET end == CloseExpression(elided, p[1], p[2]) IN end.pos = 0 \/ end.line >= line}

(* In well-bracketed text without conditionals, and outside of the head of a   *)
(* class or namespace, the blocks on the stack are those whose brace is open, *)
(* line by line and from the outermost on: the lines that NestingState.Update *)
(* reads one by one and the text that CloseExpression reads ahead agree.      *)
OpenBlocks ==
  /\ phase = "lines" /\ SeenOpenBrace(stack) /\ ~Conditional /\ HeadsComplete
  /\ WellBracketed
  =>
    /\ Cardinality(OpenBraces) = Len(stack)
    /\ \A i \in DOMAIN stack :
         Cardinality({p \in OpenBraces : p[1] < stack[i].starting_linenum}) < i

(* What is a bracket, which one it matches and which blocks it opens are the  *)
(* same for cpplint and for C++.                                             *)
BlocksMatch == BracketsMatch /\ OpenBlocks

-----------------------------------------------------------------------------
(* Includes.                                                                 *)

IsIf(n)       == Directive(elided[n]) \in If
IsElse(n)     == Directive(elided[n]) \in Else
IsEndif(n)    == Directive(elided[n]) = "#endif"
Includes      == {n \in DOMAIN elided : IsInclude(elided[n])}
HeaderAt(n)   == elided[n][3]
TypeAt(n)     == ClassifyInclude(source.info, HeaderAt(n), elided[n][2] = "<",
                                 source.include_order)
OfSystem(n)   == TypeAt(n) \in {"c", "cpp", "other_sys"}
OfModule(n)   == TypeAt(n) \in {"likely_my", "possible_my"}
ThirdParty(n) == Header[HeaderAt(n)].third_party /\ ~Like(source.info, HeaderAt(n))
Foreign(n)    == ForeignSource(source.info, HeaderAt(n))
WithoutAsm    == \A l \in ToSet(elided) : ~Has(l, "asm")

(* Each header is included once, and none is a source file or of a third party. *)
PlainIncludes ==
  /\ WithoutAsm
  /\ \A n \in Includes : ~ThirdParty(n) /\ ~Foreign(n)
  /\ \A m, n \in Includes : HeaderAt(m) = HeaderAt(n) => m = n

(* The includes before one, back to the last directive.                       *)
Since(n) == {m \in Includes : /\ m < n
                              /\ \A k \in m .. n : ~(IsIf(k) \/ IsElse(k) \/ IsEndif(k))}

(* The place of an include in the order: those of the module come first, or    *)
(* count like any other header of the project.                               *)
PlaceOf(n) ==
  IF OfSystem(n) THEN Rank(TypeAt(n))
  ELSE IF OfModule(n) /\ \A m \in Since(n) : OfModule(m) THEN Rank("my_h")
  ELSE Rank("other_h")

TooLate(n) == OfSystem(n) /\ \E m \in Since(n) : PlaceOf(m) > PlaceOf(n)

(* An include is reported to be out of order exactly if one that stands between *)
(* it and the last directive belongs behind it; one report does not make the   *)
(* next.                                                                     *)
OrderReported ==
  Done /\ PlainIncludes =>
    Reported("build/include_order") = {n \in Includes : TooLate(n)}

(* An include is reported to be out of alphabetical order exactly if the line    *)
(* before includes a header that belongs to the same section and comes later in *)
(* the alphabet; where the order of sections is broken, that alone is reported. *)
AlphabetReported ==
  LET Section(n) == Max({PlaceOf(m) : m \in Since(n) \cup {n}})
  IN Done /\ PlainIncludes =>
       Reported("build/include_alpha") =
         {n \in Includes : /\ n - 1 \in Since(n) /\ ~TooLate(n)
                           /\ Section(n - 1) = Section(n)
                           /\ Header[HeaderAt(n - 1)].rank > Header[HeaderAt(n)].rank}

(* Conditionals are closed and do not nest.                                   *)
Unnested ==
  \A n \in DOMAIN elided : IsIf(n) \/ IsElse(n) \/ IsEndif(n) =>
    LET before == {m \in 1 .. n - 1 : IsIf(m) \/ IsEndif(m)}
    IN IF IsIf(n) THEN before = {} \/ IsEndif(Max(before))
       ELSE before # {} /\ IsIf(Max(before))

(* The branch of an include is not over before a line, or was the last.        *)
StillThere(m, n) ==
  \/ \A k \in 1 .. m : IsIf(k) => \E j \in k .. m : IsEndif(j)
  \/ \A k \in m .. n : IsElse(k) => \E j \in m .. k : IsEndif(j)

(* A header is reported to be included again exactly if an earlier line         *)
(* includes it, unless a line that #else makes an alternative to it: of the    *)
(* branches of a conditional, only the last counts for what follows.           *)
DuplicatesReported ==
  Done /\ Unnested /\ WithoutAsm /\ (\A n \in Includes : ~Foreign(n)) =>
    {r.line : r \in {q \in raised : q.category = "build/include" /\ q.confidence = 4}} =
      {n \in Includes : \E m \in Includes :
         /\ m < n /\ HeaderAt(m) = HeaderAt(n) /\ ~ThirdParty(m)
         /\ StillThere(m, n)}

(* The header of a file: it stands beside it and has its name, but for "_test"  *)
(* and the like and for "-inl", and an include ends like its path.  Where       *)
(* directories "public" and "internal" hide each other it is not looked for    *)
(* there.                                                                    *)
OwnHeader(path) ==
  LET name    == WithoutExtension(path)
      stem    == WithoutExtension(source.info.full)
      Cut(n)  == SubSeq(n, 1, Len(n) - 2)
  IN /\ ExtensionOf(path) \in HeaderExt
     /\ (IF IsSuffix(<<"-", "inl">>, name) THEN Cut(name) ELSE name)
        = (IF IsTest(stem) THEN Cut(stem) ELSE stem)
     /\ \E n \in Includes : IsSuffix(Header[HeaderAt(n)].path, path)
Layered(path) == \E i \in DOMAIN path : path[i] \in {"public", "internal"}

(* Without #else, a file is asked for exactly the headers of the library that   *)
(* declare what it uses and that it includes nowhere, neither itself nor, in a *)
(* source file, through its own header.  A source file without one that can be *)
(* opened is asked for nothing.                                              *)
NeedsMet ==
  LET isSource == ExtensionOf(source.info.path) \in SourceExt
      included == {HeaderAt(n) : n \in Includes}
      opened   == IF isSource THEN {path \in DOMAIN Contents : OwnHeader(path)} ELSE {}
      provided == included \cup UNION {Contents[path] : path \in opened}
  IN Done /\ (\A n \in DOMAIN elided : ~IsElse(n)) /\ WithoutAsm
     /\ (\A n \in Includes : ~ThirdParty(n) /\ ~Foreign(n) /\ ~Layered(Header[HeaderAt(n)].path))
     /\ ~Layered(source.info.full)
     => Reported("build/include_what_you_use") =
          IF isSource /\ opened = {} THEN {}
          ELSE {Required(elided)[h] : h \in DOMAIN Required(elided) \ provided}

(* Of the includes of a file, exactly those are reported that are out of        *)
(* order, there twice or missing.                                            *)
IncludesReported == OrderReported /\ AlphabetReported /\ DuplicatesReported /\ NeedsMet

-----------------------------------------------------------------------------
(* Suppressions and lengths of functions.                                    *)

(* The NOLINT comment of a line: the first.                                   *)
NolintOf(n) ==
  LET l == clean.raw_lines[n]
      i == SelectInSeq(l, LAMBDA t : t \in DOMAIN Nolint)
  IN IF i = 0 THEN [next |-> FALSE, category |-> ""] ELSE Nolint[l[i]]

Suppressed(n, category) ==
  \/ \E l \in ToSet(Lines) : \E t \in ToSet(l) :
       t \in DOMAIN GlobalNolint /\ category \in GlobalNolint[t]
  \/ \E m \in {n - 1, n} \cap DOMAIN clean.raw_lines :
       /\ NolintOf(m).next = (m = n - 1)
       /\ NolintOf(m).category \in ({category} \cap Known) \cup {"*"}

(* "NOLINT" on a line and "NOLINTNEXTLINE" on the line before suppress what is    *)
(* reported of the line, and nothing else does but the filters and the         *)
(* verbosity (usage text, tools/cpplint/cpplint.py:96): whether a report is    *)
(* raised at its line, above it, below it or at the end of the file.  Only the *)
(* checks that run before the first line are different, and those of empty     *)
(* bodies, which report lines whose comments are not read yet.                *)
NolintRead(r) ==
  /\ r.category \notin {"build/header_guard", "readability/multiline_comment", "legal/copyright"}
  /\ r.category \in {"whitespace/empty_loop_body", "whitespace/empty_conditional_body",
                     "whitespace/empty_if_body"} => At(elided[r.line], 1, {"for", "while", "if"})

NolintExact ==
  Done => \A r \in raised :
    NolintRead(r) =>
      (r \in reported <=> /\ r.confidence >= source.verbose_level
                          /\ ~Filtered(source.filters, r.category)
                          /\ ~Suppressed(r.line, r.category))

(* The functions of a file whose heads and closing braces alone are unindented: *)
(* pairs of the line where one begins and the line where it ends.             *)
Unindented(n) == n \notin source.indented
EndsFunction(n) == Unindented(n) /\ clean.lines[n] = <<"}">>
HeadOf(n) == Unindented(n) /\ StartsFunction(clean.lines[n]) /\ Has(clean.lines[n], "{")
             /\ ~Has(clean.lines[n], ";") /\ ~Has(clean.lines[n], "}")
Functions ==
  {<<m, n>> \in (DOMAIN elided) \X (DOMAIN elided) :
     /\ m < n /\ HeadOf(m) /\ EndsFunction(n)
     /\ \A k \in m + 1 .. n - 1 : ~HeadOf(k) /\ ~EndsFunction(k)}

(* At the verbosity levels that confidence reaches, a function is reported at    *)
(* its last line exactly if it has more lines that are not blank than the      *)
(* level allows; and the confidence of the report is enough for it to be shown. *)
FunctionSizes ==
  LET NotBlank(f) == Cardinality({k \in f[1] + 1 .. f[2] - 1 : clean.lines[k] # <<>>})
      Trigger(f)  == BaseTrigger(Has(clean.lines[f[1]], "TEST"))
      Long == {f \in Functions : NotBlank(f) > Trigger(f) * 2 ^ source.verbose_level}
  IN /\ Done /\ WithoutAsm /\ source.verbose_level <= 5
     /\ \A n \in DOMAIN elided : Unindented(n) /\ StartsFunction(clean.lines[n]) => HeadOf(n)
     => /\ Reported("readability/fn_size") = {f[2] : f \in Long}
        /\ \A r \in raised : r.category = "readability/fn_size" =>
             r.confidence >= source.verbose_level
=============================================================================
