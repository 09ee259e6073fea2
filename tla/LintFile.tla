------------------------------- MODULE LintFile -------------------------------
(***************************************************************************)
(* The linting of one file: ProcessFileData and ProcessLine of               *)
(* tools/cpplint/cpplint.py, which put the text, the nesting of blocks, the  *)
(* includes, the lengths of functions and the suppressions together.  The    *)
(* checks that only match one line against a pattern, which are most of      *)
(* CheckStyle and CheckLanguage, are left out.                               *)
(***************************************************************************)
EXTENDS LintState, LintNesting, LintIncludes, LintClasses, LintParameters, LintConditions,
        LintCasts

CONSTANTS
  IsSource(_),    \* the files considered, and the settings: records of the
                  \* lines, which of them are indented, the paths of the file
                  \* (info), the variable its header guard should have and
                  \* the old form of it, the header extensions as they happen
                  \* to be enumerated, verbosity, filters and include order
  CopyrightLines  \* where "Copyright" is looked for: the first 10 lines

VARIABLES
  source,         \* the file and the settings: never changes
  phase,          \* "begin", "lines", "done" or, after a failure, "died"
  clean,          \* CleansedLines
  suppressions,   \* _error_suppressions and _global_error_suppressions
  include_state, function_state,
  raised,         \* every report the checks made
  reported        \* those that were printed

file == <<source, clean>>
vars == <<nesting, elided, file, phase, suppressions, include_state, function_state,
          raised, reported>>

(* Error: what is printed of some reports.                                    *)
Shown(reports, s) ==
  {r \in reports : ShouldPrintError(IsErrorSuppressedByNolint(s, r.category, r.line),
                     source.filters, source.verbose_level, r.category, r.confidence)}

-----------------------------------------------------------------------------
(* ProcessFileData up to the first line.  The lines stand between two markers,  *)
(* so that line i of the file is line i + 1 here.  A comment without an end is *)
(* reported one line below the one it starts on.                             *)

Marker == <<"//", "marker">>

CopyrightReports(lines) ==
  IF \E i \in 2 .. CopyrightLines + 1 : i \in DOMAIN lines /\ Has(lines[i], "Copyright")
  THEN {} ELSE {Report(1, "legal/copyright", 5)}

Begin ==
  /\ phase = "begin"
  /\ LET lines  == <<Marker>> \o source.lines \o <<Marker>>
         global == ProcessGlobalSuppressions(NoSuppressions, lines)
         start  == Stage(NoSuppressions, CopyrightReports(lines))
         ending == Stage(global, {Report(i + 1, "readability/multiline_comment", 5) :
                                    i \in UnendedComments(lines)})
         Guard(text) ==
           IF ExtensionOf(source.info.path) \notin HeaderExt THEN <<>>
           ELSE CheckForHeaderGuard(global, text.lines_without_raw_strings, source.indented,
                                    source.cppvar, source.deprecated)
         Checked(stages) ==
           /\ suppressions' = Last(stages).suppressions
           /\ raised'   = UNION {s.reports : s \in ToSet(stages)}
           /\ reported' = UNION {Shown(s.reports, s.suppressions) : s \in ToSet(stages)}
         Begun(text) == /\ clean' = text /\ elided' = text.elided
                        /\ Checked(<<start, ending>> \o Guard(text))
     IN Begun(CleansedLines(RemoveMultiLineComments(lines)))
  /\ phase' = "lines"
  /\ UNCHANGED <<nesting, source, include_state, function_state>>

-----------------------------------------------------------------------------
(* The checks of one line, in the order in which ProcessLine makes them, with   *)
(* the blocks open behind it and the one that was on top before.              *)

(* CheckStyle, trailing semicolons apart.                                    *)
CheckStyle(blocks, n) ==
  (IF SeveralCommands(elided, clean.lines_without_raw_strings, n)
   THEN {Report(n, "whitespace/newline", 0)} ELSE {})
  \cup CheckBraces(elided, source.indented, n)
  \cup CheckEmptyBlockBody(elided, clean.raw_lines, n)
  \cup CheckBlankLines(blocks, clean, n)
  \cup CheckCheck(elided, n)
  \cup (IF InnermostClass(blocks) = 0 THEN {}
        ELSE CheckSectionSpacing(blocks[InnermostClass(blocks)], clean, n))

(* cpplint fails in the checks of casts or of constructors, and then makes no     *)
(* check that follows.                                                       *)
Dies(blocks, n) ==
  FailsOnCast(elided, source.indented, n) \/ Fails(blocks, elided, source.indented, n)

CheckDeclarations(blocks, top, n) ==
  IF FailsOnCast(elided, source.indented, n) THEN {}
  ELSE CheckForNonConstReference(top, elided, n)
       \cup CheckConstructors(blocks, elided, source.indented, n)
       \cup (IF Dies(blocks, n) THEN {}
             ELSE CheckRedundantVirtual(elided, n) \cup CheckRedundantOverrideOrFinal(elided, n))

(* CheckForMultilineCommentsAndStrings.                                      *)
CheckMultiline(n) ==
  (IF MultilineComment(elided[n]) THEN {Report(n, "readability/multiline_comment", 5)} ELSE {})
  \cup (IF MultilineString(elided[n]) THEN {Report(n, "readability/multiline_string", 5)} ELSE {})

(* CheckForNamespaceIndentation.                                             *)
CheckIndentation(blocks, top, n) ==
  IF n \in source.indented /\ elided[n] # <<>> /\ MayNotIndent(blocks, top, elided, n)
  THEN {Report(n, "runtime/indentation_namespace", 4)} ELSE {}

(* ProcessLine.  Nothing more is checked inside of inline assembly.  The NOLINT *)
(* comments that are read ahead are about lines of which nothing was reported.  *)
ProcessLine ==
  /\ phase = "lines"
  /\ Update
  /\ LET nolint == ParseNolintSuppressions(suppressions, clean.raw_lines[line], line)
         ended  == Nested(UpdatePreprocessor(Directive(elided[line])).stack, elided, line).ended
         always == nolint.reports \cup CheckIndentation(stack', previous_stack_top', line)
                   \cup EndReports(ended, clean, line)
         length == CheckForFunctionLengths(function_state, clean.lines,
                     line \in source.indented, line, source.verbose_level)
         ahead  == CheckTrailingSemicolon(nolint.suppressions, elided, clean.raw_lines, line)
         language == CheckLanguage(include_state, source.info, source.include_order,
                                   clean.lines, elided, line)
         Printed(all, s) == /\ raised' = raised \cup all /\ suppressions' = s
                            /\ reported' = reported \cup Shown(all, s)
     IN IF InAsmBlock(stack')
        THEN Printed(always, nolint.suppressions)
             /\ UNCHANGED <<phase, include_state, function_state>>
        ELSE /\ Printed(always \cup length.reports \cup CheckMultiline(line)
                        \cup CheckStyle(stack', line) \cup ahead.reports \cup language.reports
                        \cup CheckCasts(elided, source.indented, line)
                        \cup CheckDeclarations(stack', previous_stack_top', line),
                        ahead.suppressions)
             /\ function_state' = length.state /\ include_state' = language.state
             /\ phase' = IF Dies(stack', line) THEN "died" ELSE "lines"
  /\ UNCHANGED <<elided, file>>

(* CheckForBadCharacters, in lines that are not part of a multi-line comment.  *)
BadCharacterReports(lines) ==
  {Report(i, "readability/utf8", 5) : i \in {j \in DOMAIN lines : Has(lines[j], "U+FFFD")}}
  \cup {Report(i, "readability/nul", 5) : i \in {j \in DOMAIN lines : Has(lines[j], "NUL")}}

(* CheckForNewlineAtEOF: the text ends in a line end, which an empty line follows. *)
NewlineReports(lines) ==
  IF lines # <<>> /\ Last(lines) = <<>> THEN {}
  ELSE {Report(Len(lines) + 1, "whitespace/ending_newline", 5)}

(* After the last line: what is still open, and what was not included.        *)
End ==
  /\ phase = "lines" /\ line \notin DOMAIN elided
  /\ LET reports ==
           CompletedBlocksReports(stack)
           \cup CheckForIncludeWhatYouUse(include_state, source.info, elided)
           \cup (IF ExtensionOf(source.info.path) \notin SourceExt THEN {}
                 ELSE CheckHeaderFileIncluded(include_state, source.info, source.extensions))
           \cup BadCharacterReports(clean.raw_lines)
           \cup NewlineReports(source.lines)
     IN /\ raised' = raised \cup reports
        /\ reported' = reported \cup Shown(reports, suppressions)
  /\ phase' = "done"
  /\ UNCHANGED <<nesting, elided, file, suppressions, include_state, function_state>>

-----------------------------------------------------------------------------
Init ==
  /\ IsSource(source) /\ phase = "begin"
  /\ clean = CleansedLines(<<>>) /\ elided = <<>>
  /\ NestingInit
  /\ suppressions = NoSuppressions
  /\ include_state = NewIncludeState /\ function_state = NewFunctionState
  /\ raised = {} /\ reported = {}

Next == Begin \/ ProcessLine \/ End

Spec == Init /\ [][Next]_vars
=============================================================================
