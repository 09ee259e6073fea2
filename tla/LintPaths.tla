------------------------------ MODULE LintPaths ------------------------------
(***************************************************************************)
(* What tools/cpplint/cpplint.py makes of paths: FileInfo.Split,             *)
(* _DropCommonSuffixes and FilesBelongToSameModule.  A path is a sequence of *)
(* pieces: "/", "-", "_", "." and the words between them; where one name     *)
(* ends like another, a word is cut in two.                                  *)
(***************************************************************************)
EXTENDS Integers, SequencesExt

CONSTANTS
  SourceExt, HeaderExt   \* GetNonHeaderExtensions, GetHeaderExtensions

(* os.path.split and os.path.splitext.                                       *)
SlashAt(path)   == SelectLastInSeq(path, LAMBDA p : p = "/")
DirName(path)   == SubSeq(path, 1, SlashAt(path) - 1)
BaseName(path)  == SubSeq(path, SlashAt(path) + 1, Len(path))

HasExtension(path)     == Len(path) > 2 /\ path[Len(path) - 1] = "."
ExtensionOf(path)      == IF HasExtension(path) THEN Last(path) ELSE ""
WithoutExtension(path) == IF HasExtension(path) THEN SubSeq(path, 1, Len(path) - 2) ELSE path

Within(part, path) ==
  \E i \in 0 .. Len(path) - Len(part) : SubSeq(path, i + 1, i + Len(part)) = part

-----------------------------------------------------------------------------
TestSuffixes == {"test", "regtest", "unittest"}

(* _TEST_FILE_SUFFIX, at the end of a name without extension.                 *)
IsTest(name) ==
  LET n == Len(name) IN n > 1 /\ name[n - 1] = "_" /\ name[n] \in TestSuffixes

DropCommonSuffixes(path) ==
  LET n == Len(path)
  IN IF /\ n > 3 /\ HasExtension(path) /\ path[n - 3] \in {"-", "_"}
        /\ \/ path[n - 2] \in TestSuffixes /\ path[n] \in SourceExt
           \/ path[n - 2] \in {"inl", "imp", "internal"} /\ path[n] \in HeaderExt
     THEN SubSeq(path, 1, n - 4)
     ELSE WithoutExtension(path)

(* What stands before the first punctuation.                                  *)
FirstComponent(name) ==
  LET i == SelectInSeq(name, LAMBDA p : p \in {"-", "_", "."})
  IN IF i = 0 THEN name ELSE SubSeq(name, 1, i - 1)

(* os.path.normpath(dir + '/../public')                                      *)
PublicDir(dir) ==
  IF dir = <<>> THEN <<"/", "public">> ELSE SubSeq(dir, 1, SlashAt(dir)) \o <<"public">>

-----------------------------------------------------------------------------
(* FilesBelongToSameModule.                                                  *)

(* path.replace('/layer/', '/')                                              *)
WithoutLayer(path, layer) ==
  LET from[i \in 1 .. Len(path) + 1] ==
        IF i > Len(path) THEN <<>>
        ELSE IF i + 2 <= Len(path) /\ SubSeq(path, i, i + 2) = <<"/", layer, "/">>
             THEN <<"/">> \o from[i + 3]
             ELSE <<path[i]>> \o from[i + 1]
  IN from[1]
WithoutLayers(path) == WithoutLayer(WithoutLayer(path, "public"), "internal")

(* The two paths without what may differ in one module.                       *)
ModuleOfSource(cc) ==
  LET name == WithoutExtension(cc)
  IN WithoutLayers(IF IsTest(name) THEN SubSeq(name, 1, Len(name) - 2) ELSE name)
ModuleOfHeader(h) ==
  LET name == WithoutExtension(h)
  IN WithoutLayers(IF IsSuffix(<<"-", "inl">>, name) THEN SubSeq(name, 1, Len(name) - 2)
                   ELSE name)

FilesBelongToSameModule(cc, h) ==
  /\ ExtensionOf(cc) \in SourceExt /\ ExtensionOf(h) \in HeaderExt
  /\ IsSuffix(ModuleOfHeader(h), ModuleOfSource(cc))

(* The path at which the header is then looked for.                           *)
HeaderPath(cc, h) ==
  LET source == ModuleOfSource(cc)
  IN SubSeq(source, 1, Len(source) - Len(ModuleOfHeader(h))) \o h
=============================================================================
