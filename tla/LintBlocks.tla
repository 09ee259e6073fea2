------------------------------ MODULE LintBlocks ------------------------------
(***************************************************************************)
(* The stack of open blocks, and what one line of a file does to it: the     *)
(* classes _BlockInfo, _ExternCInfo, _ClassInfo and _NamespaceInfo and most  *)
(* of NestingState.Update in tools/cpplint/cpplint.py.  Base classes and     *)
(* access levels, which nothing reads, and the checks of indentation are     *)
(* left out.                                                                 *)
(***************************************************************************)
EXTENDS LintBrackets

CONSTANT NamespaceLines  \* how long a namespace may be without a closing comment

(* A block on the stack.                                                     *)
Block(kind, name, at, seen_open_brace) ==
  [kind |-> kind, name |-> name, starting_linenum |-> at,
   seen_open_brace |-> seen_open_brace, open_parentheses |-> 0, inline_asm |-> "no"]

BlockInfo(at)           == Block("block", "", at, TRUE)
ExternCInfo(at)         == Block("extern", "", at, TRUE)
ClassInfo(name, at)     == Block("class", name, at, FALSE)
NamespaceInfo(name, at) == Block("namespace", name, at, FALSE)

ChecksIndentation(block) == block.kind \in {"class", "namespace"}

SeenOpenBrace(stack) == stack = <<>> \/ Last(stack).seen_open_brace
TopIsA(stack, kind)  == stack # <<>> /\ Last(stack).kind = kind
InAsmBlock(stack)    == stack # <<>> /\ Last(stack).inline_asm # "no"

InnermostClass(stack) == SelectLastInSeq(stack, LAMBDA b : b.kind = "class")

(* The stack with its top changed.                                           *)
WithTop(stack, block) == Append(Front(stack), block)

-----------------------------------------------------------------------------
(* Parentheses and inline assembly, of the block that is open as the line     *)
(* begins.                                                                   *)

AsmAt(line) ==
  /\ At(line, 1, {"asm"})
  /\ \/ At(line, 2, {"{", "("})
     \/ At(line, 2, {"volatile"}) /\ At(line, 3, {"{", "("})

CountParentheses(stack, line) ==
  IF stack = <<>> THEN stack
  ELSE LET top   == Last(stack)
           depth == Count(line, "(") - Count(line, ")")
           open  == top.open_parentheses + depth
           asm   == CASE top.inline_asm \in {"no", "end"} ->
                           IF depth # 0 /\ open = 1 /\ AsmAt(line) THEN "inside" ELSE "no"
                      [] top.inline_asm = "inside" /\ open = 0 -> "end"
                      [] OTHER -> top.inline_asm
       IN WithTop(stack, [top EXCEPT !.open_parentheses = open, !.inline_asm = asm])

-----------------------------------------------------------------------------
(* The declarations at the beginning of a line.                              *)

(* The namespaces declared, one after the other, and the rest of the line.    *)
ConsumeNamespaces(line, linenum) ==
  LET from[l \in Seq(STRING)] ==
        LET named == IsWord(l, 2)
            rest  == From(l, IF named THEN 3 ELSE 2)
            brace == Find(rest, "{", 1)
            next  == from[From(rest, brace + 1)]
            new   == [NamespaceInfo(IF named THEN l[2] ELSE "", linenum)
                        EXCEPT !.seen_open_brace = brace # 0]
        IN IF ~At(l, 1, {"namespace"}) THEN [opened |-> <<>>, rest |-> l]
           ELSE [next EXCEPT !.opened = <<new>> \o @]
  IN from[line]

(* Where the head of a class declaration ends that the line begins with, its   *)
(* name being the last word of it; 0 if there is none.                       *)
ClassHead(line) ==
  LET Parameter(i) == IsWord(line, i) \/ At(line, i, {"<", ">", ",", ":", "="})
      Parameters(p) == \/ p = 0
                     \/ /\ At(line, 1, {"template"}) /\ At(line, 2, {"<"})
                        /\ p > 2 /\ At(line, p, {">"})
                        /\ \A i \in 3 .. p : Parameter(i)
      Heads == {p + 2 : p \in {q \in 0 .. Len(line) :
                  Parameters(q) /\ At(line, q + 1, {"class", "struct"}) /\ IsWord(line, q + 2)}}
      Runs == {j \in DOMAIN line : Heads # {} /\ j >= Max(Heads)
                                   /\ \A i \in Max(Heads) .. j : IsWord(line, i)}
  IN IF Runs = {} THEN 0 ELSE Max(Runs)

(* A class is declared unless it is an argument, of a function or a template.  *)
(* The position given to InTemplateArgumentList is that in the rest of the    *)
(* line, whatever namespaces were consumed before it.                        *)
DeclaresClass(stack, elided, linenum, rest) ==
  /\ ClassHead(rest) # 0
  /\ stack = <<>> \/ Last(stack).open_parentheses = 0
  /\ ~InTemplateArgumentList(elided, linenum, ClassHead(rest) + 1)

-----------------------------------------------------------------------------
(* The braces, semicolons and closing parentheses of what is left of the       *)
(* line.  The value is the stack, and the blocks that were closed.            *)

Consumed == {"{", ";", ")", "}"}

(* The text up to a brace from the last mark that was consumed before it.     *)
Text(line, i) ==
  SubSeq(line, SelectLastInSubSeq(line, 1, i - 1, LAMBDA t : t \in Consumed) + 1, i)

(* Mutant: every brace opens a block of its own. *)
OpenBraceAnew(stack, line, i, elided, linenum) ==
  Append(stack, BlockInfo(linenum))

(* A brace belongs to the class or namespace that still lacks one.            *)
OpenBrace(stack, line, i, elided, linenum) ==
  IF ~SeenOpenBrace(stack)
  THEN WithTop(stack, [Last(stack) EXCEPT !.seen_open_brace = TRUE])
  ELSE IF line = elided[linenum] /\ Upto(line, i) = <<"extern", "\"", "\"", "{">>
  THEN Append(stack, ExternCInfo(linenum))
  ELSE Append(stack, [BlockInfo(linenum) EXCEPT !.inline_asm =
                        IF AsmAt(Text(line, i)) THEN "block" ELSE "no"])

ConsumeBraces(stack, line, elided, linenum) ==
  LET upto[i \in 0 .. Len(line)] ==
        IF i = 0 THEN [stack |-> stack, ended |-> <<>>]
        ELSE LET s == upto[i - 1].stack
             IN CASE line[i] = "{" ->
                       [upto[i - 1] EXCEPT !.stack = OpenBrace(s, line, i, elided, linenum)]
                  [] line[i] \in {";", ")"} ->
                       [upto[i - 1] EXCEPT !.stack = IF SeenOpenBrace(s) THEN s ELSE Front(s)]
                  [] line[i] = "}" /\ s # <<>> ->
                       [stack |-> Front(s), ended |-> Append(upto[i - 1].ended, Last(s))]
                  [] OTHER -> upto[i - 1]
  IN upto[Len(line)]

(* What a line does to the stack, directives apart.                           *)
Nested(stack, elided, linenum) ==
  LET spaces  == ConsumeNamespaces(elided[linenum], linenum)
      counted == CountParentheses(stack, elided[linenum]) \o spaces.opened
      head    == ClassHead(spaces.rest)
  IN IF DeclaresClass(counted, elided, linenum, spaces.rest)
     THEN ConsumeBraces(Append(counted, ClassInfo(spaces.rest[head], linenum)),
                        From(spaces.rest, head + 1), elided, linenum)
     ELSE ConsumeBraces(counted, spaces.rest, elided, linenum)

Nest(stack, elided, linenum) == Nested(stack, elided, linenum).stack

-----------------------------------------------------------------------------
(* Reports when blocks end.  A report is a line, a category and a confidence. *)

Report(line, category, confidence) ==
  [line |-> line, category |-> category, confidence |-> confidence]

(* _ClassInfo.CheckEnd: a DISALLOW macro is the last thing in its class.      *)
ClassEndReports(class, elided, linenum) ==
  LET Inside == class.starting_linenum + 1 .. linenum - 1
      Disallows(i) ==
        \E j \in 1 .. Len(elided[i]) - 3 :
           SubSeq(elided[i], j, j + 3) = <<"DISALLOW_COPY_AND_ASSIGN", "(", class.name, ")">>
      macros == {i \in Inside : Disallows(i)}
      Misplaced(i) == i = Max(macros) /\ \E j \in Inside : j > i /\ elided[j] # <<>>
  IN {Report(i, "readability/constructors", 3) : i \in {m \in macros : Misplaced(m)}}

(* _NamespaceInfo.CheckEnd: the closing brace names the namespace in a comment, *)
(* or none stands there and the namespace is short.                          *)
NamespaceEndReports(namespace, raw_lines, linenum) ==
  LET raw == raw_lines[linenum]
      text == SelectSeq(raw, LAMBDA t : t # "*/")
      brace == SelectInSeq(raw, LAMBDA t : t # ";" /\ t # "}")
      comment == At(raw, 1, {"}"}) /\ At(raw, brace, {"//", "/*"})
                 /\ \A i \in 2 .. brace - 1 : raw[i] = ";"
      named == IF namespace.name = "" THEN <<"namespace">> ELSE <<"namespace", namespace.name>>
  IN IF \/ linenum - namespace.starting_linenum < NamespaceLines
           /\ ~(comment /\ Has(raw, "namespace"))
        \/ comment /\ IsSuffix(named, text)
     THEN {} ELSE {Report(linenum, "readability/namespace", 5)}

EndReports(ended, clean, linenum) ==
  UNION {CASE b.kind = "class"     -> ClassEndReports(b, clean.elided, linenum)
           [] b.kind = "namespace" -> NamespaceEndReports(b, clean.raw_lines, linenum)
           [] OTHER                -> {} : b \in ToSet(ended)}

(* CheckCompletedBlocks, at the end of the file.                              *)
CompletedBlocksReports(stack) ==
  {Report(b.starting_linenum,
          IF b.kind = "class" THEN "build/class" ELSE "build/namespaces", 5) :
     b \in {c \in ToSet(stack) : ChecksIndentation(c)}}

=============================================================================
