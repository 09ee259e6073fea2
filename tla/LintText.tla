------------------------------- MODULE LintText -------------------------------
(***************************************************************************)
(* How cpplint strips comments and strings from a file: the class            *)
(* CleansedLines and RemoveMultiLineComments of tools/cpplint/cpplint.py.    *)
(*                                                                           *)
(* A line is a sequence of tokens.  Words, colons and the marks "//", "/*"   *)
(* and "*/" stand with spaces around them, but no space stands between a word *)
(* and a parenthesis, a comma or a semicolon; all other tokens stand without, *)
(* so that R, a quote and a parenthesis open a raw string.  The named         *)
(* delimiters of raw strings, digit separators and white space are left out. *)
(***************************************************************************)
EXTENDS Integers, SequencesExt

Quote == {"\"", "'"}
EmptyString == <<"\"", "\"">>

(* The first position of a token in a line, from a position on; else 0.      *)
Find(line, token, from) ==
  SelectInSubSeq(line, from, Len(line), LAMBDA t : t = token)

(* The first position, from a position on, at which a test holds; else 0.    *)
FirstAt(line, from, At(_, _)) ==
  LET I == {i \in from .. Len(line) : At(line, i)}
  IN IF I = {} THEN 0 ELSE Min(I)

Has(line, token) == \E i \in DOMAIN line : line[i] = token
Upto(line, i) == SubSeq(line, 1, i)
From(line, i) == SubSeq(line, i, Len(line))

-----------------------------------------------------------------------------
(* RemoveMultiLineComments.  A comment is looked for only at the start of a   *)
(* line; it goes on to the first line that ends with its end mark.           *)

Starts(line) == line # <<>> /\ line[1] = "/*" /\ ~Has(line, "*/")
Ends(line)   == line # <<>> /\ Last(line) = "*/"

(* Whether the comment is still open after a line.                           *)
OpenAfter(lines) ==
  LET open[i \in 0 .. Len(lines)] ==
        i > 0 /\ (open[i - 1] \/ Starts(lines[i])) /\ ~Ends(lines[i])
  IN open

RemoveMultiLineComments(lines) ==
  LET open == OpenAfter(lines)
      Removed(i) == /\ open[i - 1] \/ Starts(lines[i])
                    /\ \E j \in i .. Len(lines) : Ends(lines[j])
  IN [i \in DOMAIN lines |-> IF Removed(i) THEN <<"/*", "*/">> ELSE lines[i]]

(* The lines where a comment starts whose end is not found: at most one.     *)
UnendedComments(lines) ==
  LET open == OpenAfter(lines)
  IN {i \in DOMAIN lines :
        /\ Starts(lines[i]) /\ ~open[i - 1]
        /\ \A j \in i .. Len(lines) : open[j]}

-----------------------------------------------------------------------------
(* CleanseRawStrings.                                                        *)

RawStart(line, i) == /\ i + 2 \in DOMAIN line
                     /\ SubSeq(line, i, i + 2) = <<"R", "\"", "(">>
RawEnd(line, i)   == /\ i + 1 \in DOMAIN line
                     /\ SubSeq(line, i, i + 1) = <<")", "\"">>

(* Whether a "//" in a line may be read as a comment: outside of the strings *)
(* and characters that are closed before it.  An escaped quote may be read   *)
(* as one that closes a string, or as part of it.                            *)
Moves(mode, token) ==
  CASE mode = "code"   /\ token = "\""   -> {"string"}
    [] mode = "code"   /\ token = "'"    -> {"char"}
    [] mode = "code"   /\ token = "\\\"" -> {"string"}
    [] mode = "string" /\ token = "\""   -> {"code"}
    [] mode = "string" /\ token = "\\\"" -> {"string", "code"}
    [] mode = "char"   /\ token = "'"    -> {"code"}
    [] OTHER                             -> {mode}

Commented(line) ==
  LET modes[i \in 0 .. Len(line)] ==
        IF i = 0 THEN {"code"} ELSE UNION {Moves(m, line[i]) : m \in modes[i - 1]}
  IN \E i \in DOMAIN line : line[i] = "//" /\ "code" \in modes[i - 1]

(* The raw strings of a line become empty strings.  The value is the line,    *)
(* and whether it ends inside of a raw string.                               *)
CleanseRawString(line, inside) ==
  LET replaced[l \in Seq(STRING)] ==
        LET start  == FirstAt(l, 1, RawStart)
            end    == FirstAt(l, start + 3, RawEnd)
            prefix == Upto(l, start - 1)
        IN IF start = 0 \/ Commented(prefix) THEN [line |-> l, inside |-> FALSE]
           ELSE IF end = 0 THEN [line |-> prefix \o EmptyString, inside |-> TRUE]
           ELSE replaced[prefix \o EmptyString \o From(l, end + 2)]
      close == FirstAt(line, 1, RawEnd)
  IN IF ~inside THEN replaced[line]
     ELSE IF close = 0 THEN [line |-> EmptyString, inside |-> TRUE]
     ELSE replaced[EmptyString \o From(line, close + 2)]

CleanseRawStrings(lines) ==
  LET clean[i \in 0 .. Len(lines)] ==
        IF i = 0 THEN [line |-> <<>>, inside |-> FALSE]
        ELSE CleanseRawString(lines[i], clean[i - 1].inside)
  IN [i \in DOMAIN lines |-> clean[i].line]

-----------------------------------------------------------------------------
(* CleanseComments, and what a line is without its strings.                   *)

(* Is what follows in a string?  Quotes are counted; a quoted quote is none.  *)
IsCppString(line) ==
  LET quoted[i \in -1 .. Len(line)] ==
        /\ i > 2 /\ SubSeq(line, i - 2, i) = <<"'", "\"", "'">>
        /\ ~quoted[i - 2]
      quotes == Cardinality({i \in DOMAIN line : line[i] = "\""})
  IN (quotes - Cardinality({i \in DOMAIN line : quoted[i]})) % 2 = 1

(* The C comments that end on the line.                                      *)
WithoutComments(line) ==
  LET from[i \in 1 .. Len(line) + 1] ==
        IF i > Len(line) THEN <<>>
        ELSE IF line[i] = "/*" /\ Find(line, "*/", i) # 0
             THEN from[Find(line, "*/", i) + 1]
        ELSE <<line[i]>> \o from[i + 1]
  IN from[1]

CleanseComments(line) ==
  LET at == Find(line, "//", 1)
  IN WithoutComments(
       IF at # 0 /\ ~IsCppString(Upto(line, at - 1)) THEN Upto(line, at - 1) ELSE line)

IsInclude(line) ==
  /\ Len(line) > 2 /\ line[1] = "#include" /\ line[2] \in {"<", "\""}
  /\ \E i \in 3 .. Len(line) : line[i] \in {">", "\""}

CollapseStrings(line) ==
  LET s == SelectSeq(line, LAMBDA t : t # "\\\"")
      from[i \in 1 .. Len(s) + 1] ==
        IF i > Len(s) THEN <<>>
        ELSE IF s[i] \notin Quote THEN <<s[i]>> \o from[i + 1]
        ELSE LET second == Find(s, s[i], i + 1)
             IN IF second = 0 THEN From(s, i)
                ELSE <<s[i], s[i]>> \o from[second + 1]
  IN IF IsInclude(line) THEN line ELSE from[1]

(* Mutant: comments are removed before strings. *)
CleansedLinesSwapped(raw_lines) ==
  LET without_raw == CleanseRawStrings(raw_lines)
  IN [raw_lines |-> raw_lines,
      lines_without_raw_strings |-> without_raw,
      lines  |-> [i \in DOMAIN raw_lines |-> CleanseComments(without_raw[i])],
      elided |-> [i \in DOMAIN raw_lines |->
                    CollapseStrings(CleanseComments(without_raw[i]))]]

CleansedLines(raw_lines) ==
  LET without_raw == CleanseRawStrings(raw_lines)
  IN [raw_lines |-> raw_lines,
      lines_without_raw_strings |-> without_raw,
      lines  |-> [i \in DOMAIN raw_lines |-> CleanseComments(without_raw[i])],
      elided |-> [i \in DOMAIN raw_lines |->
                    CleanseComments(CollapseStrings(without_raw[i]))]]

-----------------------------------------------------------------------------
(* CheckForMultilineCommentsAndStrings, on an elided line.                    *)

Count(line, token) == Cardinality({i \in DOMAIN line : line[i] = token})

MultilineComment(elided) == Count(elided, "/*") > Count(elided, "*/")
MultilineString(elided)  == Count(elided, "\"") % 2 = 1

=============================================================================
