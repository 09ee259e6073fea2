------------------------------ MODULE MCLintFile ------------------------------
(***************************************************************************)
(* Families of small files, each for some of the promises and checked        *)
(* against all of them.                                                      *)
(***************************************************************************)
EXTENDS LintCastPromises

(* All sequences over a set up to a length.                                  *)
AtMost(S, k) == UNION {[1 .. j -> S] : j \in 0 .. k}

(* A file src/<name> in /home, and the header of its name.                     *)
InSrc(name) ==
  [path |-> <<"src", "/">> \o name, full |-> <<"/", "home", "/", "src", "/">> \o name]
DefaultInfo == InSrc(<<"a", ".", "cc">>)
AHeader     == InSrc(<<"a", ".", "h">>)

(* A file of the lines of code; those that begin with x are indented.         *)
File(lines) ==
  [lines |-> <<>> \o lines, indented |-> {i + 1 : i \in {j \in DOMAIN lines : At(lines[j], 1, {"x"})}},
   info |-> DefaultInfo, cppvar |-> "A_H_", deprecated |-> "A_H__", extensions |-> <<"h", "hpp">>,
   verbose_level |-> 1, filters |-> <<>>, include_order |-> "default"]

-----------------------------------------------------------------------------
(* Texts put together from pieces, and divided into lines.                    *)

SplitLines(text) ==
  LET ends == {0, Len(text) + 1} \cup {i \in DOMAIN text : text[i] = "\n"}
      Stop(k) == CHOOSE e \in ends : Cardinality({f \in ends : f <= e}) = k
  IN [k \in 1 .. Cardinality(ends) - 1 |-> SubSeq(text, Stop(k) + 1, Stop(k + 1) - 1)]

IsText(s, Pieces, k) == \E p \in AtMost(Pieces, k) : s = File(SplitLines(FlattenSeq(p)))

RawPieces == {<<"R", "\"", "(">>, <<")", "\"">>, <<"\n">>}

(* Comments, strings and raw strings.                                        *)
TextFile(s) ==
  \/ IsText(s, RawPieces \cup {<<"c">>, <<"\"">>, <<"//">>, <<"/*">>, <<"*/">>}, 4)
  \/ IsText(s, RawPieces \cup {<<"//">>}, 5)
  \/ IsText(s, {<<"c">>, <<"\n">>, <<"/*">>, <<"*/">>}, 5)

(* Brackets of two kinds, and templates or operators.                         *)
BracketFile(s) ==
  \/ IsText(s, {<<"(">>, <<")">>, <<"{">>, <<"}">>, <<"<">>, <<">">>, <<"\n">>}, 4)
  \/ IsText(s, {<<"(">>, <<")">>, <<"<">>, <<">">>, <<";">>}, 5)

-----------------------------------------------------------------------------
(* Blocks and conditionals.                                                  *)

BlockFile(s) ==
  \/ \E t \in AtMost(
       {<<"{">>, <<"}">>, <<"class", "A", "{">>, <<"class", "A">>, <<"struct", "A", ";">>,
        <<"namespace", "n", "{", "class", "B", "{">>, <<"}", ";", "//", "namespace", "n">>,
        <<"extern", "\"", "C", "\"", "{">>, <<"void", "f", "(", "class", "A", ")", "{">>,
        <<"template", "<", "class", "T", ">">>}, 3) : s = File(t)
  \/ \E t \in AtMost({<<"{">>, <<"asm", "(">>, <<")">>, <<"}">>}, 4) : s = File(t)
  \/ \E t \in AtMost({<<"x", ";">>, <<>>, <<"}", ";">>}, 2) :
       s = File(<<<<"class", "A", "{">>, <<"DISALLOW_COPY_AND_ASSIGN", "(", "A", ")">>>> \o t)

ConditionalFile(s) ==
  \E t \in AtMost({<<"#if">>, <<"#else">>, <<"#endif">>, <<"{">>, <<"}">>}, 5) : s = File(t)

(* What stands in a namespace, indented.                                     *)
IndentFile(s) ==
  \E t \in AtMost({<<"namespace", "n", "{">>, <<"class", "A", "{">>, <<"class", "A", ";">>,
                   <<"#define", "A", "\\">>, <<"}">>}, 3) :
    s = [File(t) EXCEPT !.indented = 2 .. Len(t) + 1]

-----------------------------------------------------------------------------
(* Includes.                                                                 *)

Named(path, rank) == [path |-> path, third_party |-> FALSE, rank |-> rank]
MCHeader ==
  ("src/a.h" :> Named(<<"src", "/", "a", ".", "h">>, 5))
  @@ ("src/b.h" :> Named(<<"src", "/", "b", ".", "h">>, 6))
  @@ ("b.h" :> Named(<<"b", ".", "h">>, 1))
  @@ ("b-inl.h" :> Named(<<"b", "-", "inl", ".", "h">>, 1))
  @@ ("public/a.h" :> Named(<<"public", "/", "a", ".", "h">>, 3))
  @@ ("c.h" :> Named(<<"c", ".", "h">>, 2))
  @@ ("string" :> Named(<<"string">>, 7)) @@ ("vector" :> Named(<<"vector">>, 8))
  @@ ("z.cc" :> Named(<<"z", ".", "cc">>, 9))
  @@ ("lua.h" :> [Named(<<"lua", ".", "h">>, 4) EXCEPT !.third_party = TRUE])

Angle(h)  == <<"#include", "<", h, ">">>
Quoted(h) == <<"#include", "\"", h, "\"">>

IncludeFile(s) ==
  \/ \E t \in AtMost({Quoted("src/a.h"), Quoted("src/b.h"), Angle("c.h"), Angle("string"),
                      Angle("vector"), <<>>}, 4) : s = File(t)
  \/ \E t \in AtMost({Quoted("src/a.h"), Angle("vector"), <<"#if">>, <<"#else">>,
                      <<"#endif">>}, 4) : s = File(t)
  \/ \E t \in AtMost({Quoted("z.cc"), Quoted("lua.h"), Quoted("public/a.h"), Angle("c.h"),
                      Angle("vector")}, 3) :
       \/ s = [File(t) EXCEPT !.include_order = "standardcfirst"]
       \/ s = [File(t) EXCEPT !.info = InSrc(<<"lua", ".", "cc">>)]

(* src/b.h, its variant b-inl.h, src/xb.h and src/internal/b.h can be opened.   *)
MCContents ==
  (InSrc(<<"b", ".", "h">>).full :> {"vector"})
  @@ (InSrc(<<"b", "-", "inl", ".", "h">>).full :> {"string"})
  @@ (InSrc(<<"x", "b", ".", "h">>).full :> {"string"})
  @@ (InSrc(<<"internal", "/", "b", ".", "h">>).full :> {"vector"})
MCTemplate  == ("vector" :> "vector") @@ ("string" :> "string")

(* What headers and source files need and whether they include their own.      *)
NeedFile(s) ==
  \E t \in AtMost({<<"vector", "<", "T", ">">>, <<"string", ";">>, Angle("vector"),
                   Quoted("b.h"), Quoted("src/b.h"), Quoted("b-inl.h"), <<"#if">>}, 3) :
    \/ s = [File(t) EXCEPT !.info = AHeader]
    \/ \E name \in {<<"b">>, <<"x", "b">>, <<"b", "_", "test">>, <<"internal", "/", "b">>} :
         s = [File(t) EXCEPT !.info = InSrc(name \o <<".", "cc">>)]

-----------------------------------------------------------------------------
(* Suppressions, header guards and the lengths of functions.                  *)

Off(p) == [sign |-> "-", of |-> p]

MCNolint ==
  ("NOLINT" :> [next |-> FALSE, category |-> "*"])
  @@ ("NOLINT(build/class)" :> [next |-> FALSE, category |-> "build/class"])
  @@ ("NOLINT(build/header_guard)" :> [next |-> FALSE, category |-> "build/header_guard"])
  @@ ("NOLINT(other)" :> [next |-> FALSE, category |-> "other"])
  @@ ("NOLINT(legacy)" :> [next |-> FALSE, category |-> "legacy"])
  @@ ("NOLINTNEXTLINE" :> [next |-> TRUE, category |-> "*"])

(* Stands for the categories of the files marked as C or kernel code, whose     *)
(* checks are left out.                                                      *)
MCGlobalNolint == "C file" :> {"readability/multiline_string"}

NolintAheadFile(s) ==
  \E t \in AtMost({<<"f", "(", ")", "{">>, <<"if", "(", "a">>, <<")", ";", "//", "NOLINT">>,
                   <<"}", ";", "//", "NOLINT">>, <<"//", "NOLINTNEXTLINE">>}, 3) : s = File(t)

NolintFile(s) ==
  \E t \in AtMost({<<"class", "A", "{", "//", "NOLINT(build/class)">>, <<"class", "A", "{">>,
                   <<"c", "\"", "//", "NOLINT(other)">>, <<"c", "\"">>, <<"//", "NOLINTNEXTLINE">>,
                   <<"/*", "NOLINT(legacy)">>, <<"//", "C file">>, <<"//", "NUL", "U+FFFD">>,
                   Quoted("c.h")}, 3) :
    \/ s = File(t)
    \/ s = [File(t) EXCEPT !.verbose_level = 5]
    \/ s = [File(t) EXCEPT !.filters = <<Off("build/include"), Off("build/class")>>]

GuardFile(s) ==
  \E t \in AtMost({<<"#ifndef", "A_H_">>, <<"#define", "A_H_">>, <<"#ifndef", "A_H__", "//", "NOLINT">>,
                   <<"#define", "A_H__">>, <<"#endif", "//", "A_H_">>, <<"#endif", "/*", "A_H__">>,
                   <<"//", "NOLINT(build/header_guard)">>, <<"#pragma once">>}, 3) :
    s = [File(t) EXCEPT !.info = AHeader]

FunctionFile(s) ==
  \/ \E head \in {<<"f", "(", ")", "{">>, <<"TEST", "(", ")", "{">>, <<"MACRO", "(", ")", "{">>} :
       \E v \in 0 .. 1 : \E t \in AtMost({<<"x", ";">>, <<>>, <<"}">>, head}, 4) :
         s = [File(<<head>> \o t) EXCEPT !.verbose_level = v]
  \/ \E t \in AtMost({<<"f", "(", ")">>, <<"f", "(", ")", ";">>, <<"{">>, <<"x", ";">>, <<"}">>}, 3) :
       s = File(t)

-----------------------------------------------------------------------------
(* Braces: conditions without braces, what a semicolon may follow, and bodies    *)
(* with nothing in them.                                                     *)

Cond(a) == <<"if", "(", a, ")">>
ElseFile(s) ==
  \E t \in AtMost({Cond("a"), <<"else">>, <<"x", ";">>}, 4)
          \cup {<<Cond("a"), Cond("b"), <<"x", ";">>, <<"else">>, <<"x", ";">>, <<"else">>, <<"x", ";">>>>,
                <<Cond("a"), <<"x", ";">>, <<"else">>, Cond("b"), <<"x", ";">>, <<"else">>, <<"x", ";">>>>} :
    \E I \in SUBSET {i \in DOMAIN t : t[i] # <<"x", ";">>} :
      s = [File(t) EXCEPT !.indented = @ \cup {i + 1 : i \in I}]

SemicolonFile(s) ==
  \E t \in AtMost({<<"f", "(", ")", "{">>, <<"class", "A", "{">>, <<"[", "]", "(", ")", "{">>,
                   <<"{">>, <<"class", "A">>, <<"}", ";">>, <<"}">>}, 3) :
    s = File(<<<<"x", ";">>>> \o t)

EmptyFile(s) ==
  \E head \in {<<"if", "(", "a", ")">>, <<"if", "(", "a">>, <<"while", "(", ")", ";">>} :
    \E t \in AtMost({<<")", ";">>, <<")", "{">>, <<"{">>, <<"{", "}">>, <<"}">>, <<"}", "else">>, <<"else">>,
                     <<"/*", "c", "*/">>, <<>>}, 3) : s = File(<<head>> \o t)

(* One of each report.                                                       *)
BraceFile(s) ==
  \E t \in AtMost({<<"if", "(", "a", ")", "x", ";">>, <<"}", "else">>, <<"else", "x", ";">>,
                   <<"else", "if", "(", "a", ")", "{">>, <<"do", "x", ";">>, <<"}">>,
                   <<"if", "(", "a", ")", "b", ";", "c", ";">>,
                   <<"if", "(", "a", ")", "[", "]", "{", "x", ";", "}", ";">>}, 2) : s = File(t)

BodyFile(s) == ElseFile(s) \/ SemicolonFile(s) \/ EmptyFile(s) \/ BraceFile(s)

-----------------------------------------------------------------------------
(* Classes, their sections and constructors.                                 *)

SectionFile(s) ==
  \E head \in {<<"class", "A", "{">>, <<"f", "(", ")", "{">>, <<"namespace", "n", "{">>} :
    \E t \in AtMost({<<"public:">>, <<"int", "x", ";">>, <<>>, <<"}", ";">>, <<"class", "B", "{">>}, 4) :
      s = File(<<head>> \o t)

BlankFile(s) ==
  \E p \in AtMost({<<"R", "\"", "(">>, <<")", "\"">>, <<"\n">>, <<"}">>, <<"/*">>, <<"*/">>}, 4) :
    s = File(SplitLines(<<"{", "\n">> \o FlattenSeq(p)))

ConstructorFile(s) ==
  \E P \in {AtMost({<<"i">>, <<",">>, <<"=">>, <<"<">>, <<">">>}, 4),
            AtMost({<<"void">>, <<"const", "A", "&">>, <<"std::initializer_list">>, <<"&&...">>,
                    <<",", "i">>}, 2)} :
    \E p \in P : \E e \in {<<>>, <<"explicit">>} :
      s = [File(<<<<"class", "A", "{">>, e \o <<"A", "(">> \o FlattenSeq(p) \o <<")", ";">>>>)
             EXCEPT !.indented = {3}]

-----------------------------------------------------------------------------
(* Functions: what stands behind their parameters, and what they take.         *)

VirtualFile(s) ==
  \E t \in AtMost({<<"virtual", "f", "(", ")">>, <<"g", "(", ")", "override", ";">>, <<"override">>,
                   <<"const">>, <<"final", ";">>, <<";">>, <<>>}, 3) :
    s = File(<<<<"virtual", "f", "(", ")">>>> \o t)

ReferenceFile(s) ==
  \E head \in {<<"class", "A", "{">>, <<"f", "(", ")", "{">>, <<"namespace", "n", "{">>} :
    \E t \in AtMost({<<"f", "(", "T", "&", "t", ")", ";">>, <<"f", "(", "const", "T", "&", "t", ",">>,
                     <<"T", "<">>, <<"B", ">", "&", "t", "=", "c", ")", "override", ";">>,
                     <<"A::f", "(", "T", "&", "t", ")", "{">>, <<":", "b", "(", "T", "&", "t", ")", ",">>,
                     <<"swap", "(", "T", "&", "t", ")", ";">>, <<"}">>}, 2) : s = File(<<head>> \o t)

CheckFile(s) ==
  \E macro \in {"CHECK", "EXPECT_FALSE"} :
    \E t \in AtMost({<<"a">>, <<"1">>, <<"(", "a">>, <<"1", ")">>, <<"<">>, <<"=", "=">>,
                     <<"&", "&">>, <<"\n">>}, 3)
            \cup AtMost({<<"a">>, <<"1">>, <<"<">>, <<"&", "&">>}, IF macro = "CHECK" THEN 5 ELSE 3) :
      s = File(SplitLines(<<macro, "(">> \o FlattenSeq(t) \o <<")", ";">>))

(* One of each operator and macro.                                           *)
RelationFile(s) ==
  \E macro \in ToSet(CHECK_MACROS) :
    \E op \in {<<"=", "=">>, <<"!", "=">>, <<">", "=">>, <<">">>, <<"<", "=">>, <<"<">>, <<"-", ">">>,
               <<"<", "<">>, <<"||">>} :
      s = File(<<<<macro, "(", "a">> \o op \o <<"\"", "c", "\"", ")", ";">>>>)

-----------------------------------------------------------------------------
(* Casts: in macros and functions, addresses of them, and one of each report.   *)

CastFile(s) ==
  \E head \in {<<"MACRO", "(">>, <<"f", "(">>} : \E k \in {0, 3} :
    \E t \in AtMost({<<"(", "a", ")", ",">>, <<"f", "(", "(", "a", ")", ")", ",">>, <<")", ";">>,
                     <<"MACRO", "(">>, <<"(", "int", ")", "b", ",">>, <<"(", "T", "*", ")", "b">>}, 3) :
      s = File(<<head>> \o [i \in 1 .. k |-> <<>>] \o t)

AddressFile(s) ==
  \E a, b, c \in {<<>>, <<"\n">>} :
    \E t \in {<<"-", ">", "b", ";">>, <<"[", "c", "]", ";">>, <<";">>, <<>>, <<"\n", "[", "c", "]", ";">>} :
      \E word \in {"static_cast", "dynamic_cast"} : \E u \in {<<"T">>, <<"int", "*">>} :
        s = File(SplitLines(<<"x", "=", "&", word, "<">> \o u \o a \o <<">">> \o b
                            \o <<"(", "a", ")">> \o c \o t))

NumberFile(s) ==
  \E t \in AtMost({<<"new", "int", "(", "x", ")", ";">>, <<"x", "=", "int", "(", "x", ")", ";">>,
                   <<"int", "(", "x", ")", "[", "c", "]", "(", "int", ")", "c", ";">>,
                   <<"x", "=", "&", "(", "T", ")", "c", ";">>, <<"using", "F", "=", "int", "(", "x", ")", ";">>,
                   <<"new", "(", "x", ")", "int", "(", "x", ")", ";">>, <<"int", "(", "*", ")", "(", "x", ")", ";">>,
                   <<"(", "char", "*", ")", "\"", "c", "\"", ";">>, <<"operator++", "(", "int", ")", "x", ";">>,
                   <<"T", "operator++", "(", "int", ")", "x", ";">>,
                   <<"MOCK_METHOD1", "(", "f", ",">>, <<"std::function", "<">>, <<"int", "(", "int", ")", ">">>,
                   <<"static_cast", "<", "int", "(", "x", ")", ">">>, <<"sizeof", "(", "int", ")", "c", ";">>,
                   <<"for", "(", "a", ";", "b", ";", "c", ")">>, <<"case", "a", ":", "b", ";", "break", ";">>}, 2) :
    s = File(t)

PostfixFile(s) ==
  \E name \in {<<"operator++">>, <<"T", "operator++">>, <<"x", "operator--">>} :
    \E k \in 0 .. 4 : \E above \in {<<>>, <<"f", ";">>} :
      \E t \in {<<"(", "int", ")", "b", ";">>, <<"b", "(", "int", ")", "b", ";">>} :
        \E I \in SUBSET {2, k + 3} :
          s = [File(<<name>> \o [i \in 1 .. k |-> IF i = 2 THEN above ELSE <<>>] \o <<t>>)
                 EXCEPT !.indented = I]

CastsFile(s) == CastFile(s) \/ AddressFile(s) \/ NumberFile(s) \/ PostfixFile(s)

FunctionsFile(s) == VirtualFile(s) \/ ReferenceFile(s) \/ CheckFile(s) \/ RelationFile(s)

ClassFile(s) == SectionFile(s) \/ BlankFile(s) \/ ConstructorFile(s)

AnyFile(s) ==
  \/ TextFile(s) \/ BracketFile(s) \/ BlockFile(s) \/ ConditionalFile(s) \/ IndentFile(s)
  \/ IncludeFile(s) \/ NeedFile(s) \/ NolintFile(s) \/ NolintAheadFile(s) \/ GuardFile(s) \/ FunctionFile(s)
  \/ BodyFile(s) \/ ClassFile(s) \/ FunctionsFile(s) \/ CastsFile(s)

-----------------------------------------------------------------------------
IncludeChecks == {"build/include", "build/include_alpha", "build/include_order",
              "build/include_subdir", "build/include_what_you_use"}
MCCategory == IncludeChecks \cup
  {"build/class", "build/header_guard", "build/namespaces", "legal/copyright",
   "readability/constructors", "readability/fn_size", "readability/multiline_comment",
   "readability/multiline_string", "readability/namespace", "readability/nolint",
   "readability/nul", "readability/utf8", "runtime/indentation_namespace",
   "readability/braces", "whitespace/braces", "whitespace/empty_conditional_body",
   "whitespace/empty_if_body", "whitespace/empty_loop_body", "whitespace/ending_newline",
   "whitespace/newline", "whitespace/blank_line", "runtime/explicit", "runtime/references",
   "readability/check", "readability/inheritance", "readability/casting", "runtime/casting"}
MCTopLevel == [c \in MCCategory |-> c]
MCCovers   == ("build/class" :> {"build/class"}) @@ ("build/include" :> IncludeChecks)
MCPrefix   == DOMAIN MCCovers
=============================================================================
