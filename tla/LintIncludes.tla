----------------------------- MODULE LintIncludes -----------------------------
(***************************************************************************)
(* The #include lines of a file: the class _IncludeState, CheckIncludeLine,  *)
(* CheckHeaderFileIncluded and CheckForIncludeWhatYouUse of                  *)
(* tools/cpplint/cpplint.py.  The file is known by its path in the         *)
(* repository, info.path, and its absolute path, info.full.                  *)
(***************************************************************************)
EXTENDS LintBlocks, LintPaths

CONSTANTS
  Header,      \* header -> its [path, third_party, rank]: the path as included,
               \* and the rank in the order of canonical names
  CppHeaders, CHeaders,  \* the standard ones
  Contents,    \* the path of a header that can be opened -> what it includes
  Template     \* a template of the library -> the header that declares it

NoHeader == ""
CppExt   == {"hpp", "hxx", "h++"}

-----------------------------------------------------------------------------
(* _IncludeState.                                                            *)

Sections == {"initial", "my_h", "c", "cpp", "other_sys", "other_h"}
Rank(section) ==
  CASE section = "initial" -> 0 [] section = "my_h"      -> 1 [] section = "c"       -> 2
    [] section = "cpp"     -> 3 [] section = "other_sys" -> 4 [] section = "other_h" -> 5

NewIncludeState == [include_list |-> << <<>> >>, section |-> "initial", last_header |-> NoHeader]

(* The lines of the same header, in the lists that are left.                 *)
FindHeader(s, header) ==
  {p[2] : p \in {q \in UNION {ToSet(l) : l \in ToSet(s.include_list)} : q[1] = header}}

(* Mutant: #else keeps what the branches before it include. *)
ResetSectionKeeping(s, directive) ==
  [include_list |-> IF directive \in If THEN Append(s.include_list, <<>>) ELSE s.include_list,
   section |-> "initial", last_header |-> NoHeader]

ResetSection(s, directive) ==
  [include_list |-> CASE directive \in If   -> Append(s.include_list, <<>>)
                      [] directive \in Else -> Append(Front(s.include_list), <<>>)
                      [] OTHER              -> s.include_list,
   section |-> "initial", last_header |-> NoHeader]

(* CheckNextIncludeOrder: the section that a header belongs to, or "none" if   *)
(* it comes too late.                                                        *)
NextSection(section, header_type) ==
  IF header_type \in {"c", "cpp", "other_sys"}
  THEN IF Rank(section) <= Rank(header_type) THEN header_type ELSE "none"
  ELSE IF header_type \in {"likely_my", "possible_my"} /\ Rank(section) <= Rank("my_h")
       THEN "my_h" ELSE "other_h"

(* Mutant: an include that comes too late counts as a new section. *)
CheckNextIncludeOrderLate(s, header_type) ==
  LET next == NextSection(s.section, header_type)
  IN CASE next = "none"    -> [s EXCEPT !.section = header_type, !.last_header = NoHeader]
       [] next = s.section -> s
       [] OTHER            -> [s EXCEPT !.section = next, !.last_header = NoHeader]

(* Mutant: the last header is kept in the next section. *)
CheckNextIncludeOrderKeeping(s, header_type) ==
  LET next == NextSection(s.section, header_type)
  IN IF next = "none" THEN [s EXCEPT !.last_header = NoHeader]
     ELSE [s EXCEPT !.section = next]

(* Mutant: an error is taken for a section. *)
CheckNextIncludeOrderBlind(s, header_type) ==
  LET next == NextSection(s.section, header_type)
  IN IF next = s.section THEN s
     ELSE [s EXCEPT !.section = next, !.last_header = NoHeader]

(* _last_header is forgotten when the section changes or the order is wrong.   *)
CheckNextIncludeOrder(s, header_type) ==
  LET next == NextSection(s.section, header_type)
  IN CASE next = "none"    -> [s EXCEPT !.last_header = NoHeader]
       [] next = s.section -> s
       [] OTHER            -> [s EXCEPT !.section = next, !.last_header = NoHeader]

(* A header is compared with the one of the line before.                      *)
IsInAlphabeticalOrder(s, previous_line, header) ==
  ~ /\ s.last_header # NoHeader
    /\ Header[s.last_header].rank > Header[header].rank
    /\ At(previous_line, 1, {"#include"})

-----------------------------------------------------------------------------
(* _ClassifyInclude.                                                         *)
ClassifyInclude(info, header, angle_brackets, include_order) ==
  LET path   == Header[header].path
      target == DropCommonSuffixes(info.path)
      other  == DropCommonSuffixes(path)
      likely == /\ BaseName(target) = BaseName(other)
                /\ DirName(other) \in {DirName(target), PublicDir(DirName(target))}
  IN IF angle_brackets /\ ExtensionOf(path) \notin CppExt
     THEN CASE header \in CppHeaders -> "cpp"
            [] header \notin CppHeaders
               /\ (include_order = "default" \/ header \in CHeaders) -> "c"
            [] OTHER -> "other_sys"
     ELSE CASE likely -> "likely_my"
            [] ~likely /\ FirstComponent(BaseName(target)) = FirstComponent(BaseName(other))
                 -> "possible_my"
            [] OTHER -> "other_h"

(* The path of the header file of the same name with an extension, and its name *)
(* in the repository: that of a file that does not exist is its absolute path. *)
HeaderOf(info, ext)   == WithoutExtension(info.full) \o <<".", ext>>
HeaderName(info, ext) == IF HeaderOf(info, ext) \in DOMAIN Contents
                         THEN WithoutExtension(info.path) \o <<".", ext>>
                         ELSE HeaderOf(info, ext)

(* One of two names is part of the other.                                     *)
Alike(name, header) ==
  Within(name, Header[header].path) \/ Within(Header[header].path, name)

Like(info, header) == \E ext \in HeaderExt : Alike(HeaderName(info, ext), header)

ForeignSource(info, header) ==
  /\ ExtensionOf(Header[header].path) \in SourceExt
  /\ DirName(Header[header].path) # DirName(info.path)

(* CheckIncludeLine.  The value is the new state and the reports.  A duplicate  *)
(* or a source file of another directory is not listed, nor is a header of a  *)
(* third party that is not like the header of the file.                      *)
CheckIncludeLine(s, info, include_order, lines, elided, n) ==
  LET line   == lines[n]
      header == line[3]
      path   == Header[header].path
      type   == ClassifyInclude(info, header, line[2] = "<", include_order)
      added  == [s EXCEPT !.include_list =
                   Append(Front(@), Append(Last(@), <<header, n>>))]
      next   == CheckNextIncludeOrder(added, type)
      Bad(condition, category) == IF condition THEN {Report(n, category, 4)} ELSE {}
      subdir == Bad(line[2] = "\"" /\ SlashAt(path) = 0 /\ ExtensionOf(path) = "h"
                    /\ ~Header[header].third_party, "build/include_subdir")
  IN IF FindHeader(s, header) # {} \/ ForeignSource(info, header)
     THEN [state |-> s, reports |-> subdir \cup Bad(TRUE, "build/include")]
     ELSE IF Header[header].third_party /\ ~Like(info, header)
     THEN [state |-> s, reports |-> subdir]
     ELSE [state   |-> [next EXCEPT !.last_header = header],
           reports |-> subdir
             \cup Bad(NextSection(s.section, type) = "none", "build/include_order")
             \cup Bad(~IsInAlphabeticalOrder(next, elided[n - 1], header),
                      "build/include_alpha")]

(* The beginning of CheckLanguage.                                           *)
CheckLanguage(s, info, include_order, lines, elided, n) ==
  LET line == elided[n]
  IN IF line = <<>> THEN [state |-> s, reports |-> {}]
     ELSE IF IsInclude(line) THEN CheckIncludeLine(s, info, include_order, lines, elided, n)
     ELSE IF line[1] \in If \cup Else \cup {"#endif"}
          THEN [state |-> ResetSection(s, line[1]), reports |-> {}]
     ELSE [state |-> s, reports |-> {}]

-----------------------------------------------------------------------------
(* The end of the file.                                                      *)

(* Mutant: the last list alone. *)
ListedLast(s) == Last(s.include_list)

Listed(s) == FlattenSeq(s.include_list)

(* CheckHeaderFileIncluded.  `extensions` is the set of header extensions in    *)
(* the order in which it happens to be enumerated.  A match ends the check,    *)
(* also for the headers that follow.                                         *)
CheckHeaderFileIncluded(s, info, extensions) ==
  LET existing == SelectSeq(extensions, LAMBDA e : HeaderOf(info, e) \in DOMAIN Contents)
      Matched(e) == \E p \in ToSet(Listed(s)) : Alike(HeaderName(info, e), p[1])
      first == IF Listed(s) = <<>> THEN 0 ELSE Listed(s)[1][2]
  IN IF IsTest(WithoutExtension(info.path)) \/ existing = <<>> \/ Matched(existing[1]) THEN {}
     ELSE {Report(first, "build/include", 5)}

(* CheckForIncludeWhatYouUse: the headers needed and the last line that needs   *)
(* each.                                                                     *)
Required(elided) ==
  LET Uses(n, header) ==
        /\ elided[n] # <<>> /\ elided[n][1] \notin Hash
        /\ \E i \in DOMAIN elided[n] :
             /\ elided[n][i] \in DOMAIN Template /\ Template[elided[n][i]] = header
             /\ elided[n][i] = "string" \/ At(elided[n], i + 1, {"<"})
      needed == {header \in {Template[t] : t \in DOMAIN Template} :
                   \E n \in DOMAIN elided : Uses(n, header)}
  IN [header \in needed |-> Max({n \in DOMAIN elided : Uses(n, header)})]

(* What the file includes, directly or through a header of the same module that *)
(* can be opened.                                                            *)
CheckForIncludeWhatYouUse(s, info, elided) ==
  LET direct  == {p[1] : p \in ToSet(Listed(s))}
      own     == {Header[h].path : h \in direct}
      opened  == {HeaderPath(info.full, path) :
                    path \in {q \in own : FilesBelongToSameModule(info.full, q)}}
                 \cap DOMAIN Contents
      known   == direct \cup UNION {Contents[path] : path \in opened}
      missing == DOMAIN Required(elided) \ known
  IN IF opened = {} /\ ExtensionOf(info.path) \in SourceExt THEN {}
     ELSE {Report(Required(elided)[header], "build/include_what_you_use", 4) :
             header \in missing}

=============================================================================
