------------------------------- MODULE LintRun -------------------------------
(***************************************************************************)
(* One run of tools/cpplint/cpplint.py: ParseArguments, then ProcessFile for *)
(* every file, with the CPPLINT.cfg files found from the directory of the   *)
(* file upwards (ProcessConfigOverrides), then the exit status.  What the   *)
(* checks find in a file is chosen freely here; LintFile models it.         *)
(***************************************************************************)
EXTENDS LintState, LintCheckouts, LintReport

CONSTANTS
  ExtOf,               \* the extensions of files
  Sorted,              \* the files in the order of their names
  Extension, DefaultHeaders, DefaultSources,
  DefaultFilters,      \* _DEFAULT_FILTERS
  Worlds,              \* the command lines considered, each with what CPPLINT.cfg
                       \* files and marks of checkouts there are in every directory
  Findings,            \* category and confidence of what a check may report
  MaxErrors            \* bound on the errors reported in a run

ASSUME FileAssumption ==
  /\ ExtOf \in [File -> Extension]
  /\ Sorted \in Seq(File) /\ ToSet(Sorted) = File

(* A CPPLINT.cfg that can be read is a sequence of options.                   *)
Configuration(cfg) ==
  \/ cfg.kind \in {"none", "unreadable"}
  \/ /\ cfg.kind = "file" /\ cfg.options \in Seq(ToSet(cfg.options))
     /\ \A o \in ToSet(cfg.options) : o.name = "filter" => o.filters \in Seq(Filter)

ASSUME InputsAssumption ==
  /\ DefaultFilters \in Seq(Filter)
  /\ \A w \in Worlds : /\ w[1].files \subseteq File /\ w[1].filters \in Seq(Filter)
                       /\ w[1].quiet \in BOOLEAN /\ w[1].counting \in Counting
                       /\ \A d \in Dir : Configuration(w[2][d])
  /\ \A f \in Findings : f.category \in Category

(* What a root option says and the directory it leads to: a text that names of  *)
(* files begin with is the path of the directory.                            *)
RootLeads(d, o) ==
  /\ o.dir \in Dir \cup {None} /\ o.text \in Seq(ToSet(o.text))
  /\ \A f \in File : IsStrictPrefix(PathOf(d) \o o.text, FullName(f)) =>
       o.dir \in Dir /\ PathOf(o.dir) = PathOf(d) \o o.text

ASSUME RootAssumption ==
  \A w \in Worlds : \A d \in Dir :
    w[2][d].kind = "file" =>
      \A o \in ToSet(w[2][d].options) : o.name = "root" => RootLeads(d, o)

VARIABLES
  args, tree, marks,   \* sys.argv, the configuration files and the checkouts:
                       \* never change
  phase,               \* where the run is
  filenames, file,     \* what main() still has to do, and what it does
  at, base_name,       \* the loop of ProcessConfigOverrides
  cfg_filters,         \*   the filters it has collected
  settings,            \* the globals _line_length, _valid_extensions, ...
  filters, filters_backup, verbose_level, quiet, counting,
  error_count, errors_by_category, old_errors,
  status,              \* the exit status, or Running
  junit_errors, junit_failures, \* what PrintError and Error keep for the report,
  report,                       \* and the report, once it is written
  shown, linted, announced, \* history: errors printed, files that
                            \* ProcessFileData saw, "Done processing" lines
  guards                    \* and the guards that were asked for, <<>> if none

inputs  == <<args, tree, marks>>
state   == <<filters, filters_backup, verbose_level, quiet, counting>>
counts  == <<error_count, errors_by_category, old_errors>>
junit   == <<junit_errors, junit_failures, report>>
config  == <<at, base_name, cfg_filters, settings>>
history == <<shown, linted, announced, guards>>
vars == <<inputs, phase, filenames, file, config, state, counts, status, junit, history>>

Running == -1

NoReport == FormatJUnitXML(<<>>, <<>>)

(* PrintError.  What is not kept for a report goes to the terminal.           *)
About(of, what) == [of |-> of, what |-> what]
PrintError(messages) ==
  junit_errors' = junit_errors \o (IF args.output = "junit" THEN messages ELSE <<>>)

-----------------------------------------------------------------------------
(* Extensions.                                                              *)

GetHeaderExtensions(s) ==
  IF s.headers # {} THEN s.headers
  ELSE IF s.extensions # {} THEN s.extensions \cap DefaultHeaders
  ELSE DefaultHeaders

GetAllExtensions(s) ==
  GetHeaderExtensions(s) \cup
    (IF s.extensions # {} THEN s.extensions ELSE DefaultSources)

DefaultSettings ==
  [line_length |-> 80, extensions |-> {}, headers |-> {}, root |-> NoRoot,
   include_order |-> "default"]

-----------------------------------------------------------------------------
(* ParseArguments.  Directories are named with --recursive only, and at      *)
(* least one path is.                                                       *)

(* --recursive replaces a directory by the files below it, and keeps those   *)
(* of a valid extension; --exclude drops files, and files below directories. *)
ExpandDirectories(s) ==
  {f \in File : /\ f \in args.files \/ args.dirs \cap Above(f) # {}
                /\ ExtOf[f] \in GetAllExtensions(s)}

FilterExcludedFiles(fnames) ==
  {f \in fnames : ~(f \in args.exclude \/ args.excludeDirs \cap Above(f) # {})}

ParseArguments ==
  /\ phase = "args"
  /\ settings' = [DefaultSettings EXCEPT !.line_length = args.linelength,
                                         !.extensions = args.extensions,
                                         !.headers = args.headers,
                                         !.root = args.root]
  /\ LET named == IF args.recursive THEN ExpandDirectories(settings') ELSE args.files
     IN filenames' = FilterExcludedFiles(named)
  /\ filters' = DefaultFilters \o args.filters
  /\ verbose_level' = args.verbose /\ quiet' = args.quiet
  /\ counting' = args.counting
  /\ phase' = IF WellSigned(args.filters) THEN "next" ELSE "died"
  /\ UNCHANGED <<inputs, file, at, base_name, cfg_filters, filters_backup,
                 counts, status, junit, history>>

-----------------------------------------------------------------------------
(* ProcessFile up to the configuration.                                     *)

(* main() goes through the files in the order of their names.                *)
First(fnames) == Sorted[Min({i \in DOMAIN Sorted : Sorted[i] \in fnames})]

(* Mutant: the errors before the file are not counted. *)
ProcessFileStale ==
  /\ phase = "next" /\ filenames # {}
  /\ file' = First(filenames) /\ filenames' = filenames \ {file'}
  /\ filters_backup' = filters
  /\ at' = DirOf[file'] /\ base_name' = file' /\ cfg_filters' = <<>>
  /\ phase' = "config"
  /\ UNCHANGED <<inputs, settings, filters, verbose_level, quiet, counting,
                 counts, status, junit, history>>

(* Mutant: the file remains in the list. *)
ProcessFileAgain ==
  /\ phase = "next" /\ filenames # {}
  /\ file' = First(filenames) /\ UNCHANGED filenames
  /\ filters_backup' = filters /\ old_errors' = error_count
  /\ at' = DirOf[file'] /\ base_name' = file' /\ cfg_filters' = <<>>
  /\ phase' = "config"
  /\ UNCHANGED <<inputs, settings, filters, verbose_level, quiet, counting,
                 error_count, errors_by_category, status, junit, history>>

ProcessFile ==
  /\ phase = "next" /\ filenames # {}
  /\ file' = First(filenames) /\ filenames' = filenames \ {file'}
  /\ filters_backup' = filters /\ old_errors' = error_count
  /\ at' = DirOf[file'] /\ base_name' = file' /\ cfg_filters' = <<>>
  /\ phase' = "config"
  /\ UNCHANGED <<inputs, settings, filters, verbose_level, quiet, counting,
                 error_count, errors_by_category, status, junit, history>>

(* What one line of a CPPLINT.cfg does.  `read` collects it: the settings,   *)
(* the filters, the messages, whether to look further up, and how the file   *)
(* ended.                                                                    *)
Option(read, o, dir, base) ==
  CASE o.name = "set noparent"  -> [read EXCEPT !.keep_looking = FALSE]
    [] o.name = "filter"        -> [read EXCEPT !.filters = Append(@, o.filters)]
    [] o.name = "exclude_files" ->
         IF base \in o.matches THEN [read EXCEPT !.end = "excluded"] ELSE read
    [] o.name = "linelength"    -> [read EXCEPT !.settings.line_length = o.length]
    [] o.name = "extensions"    -> [read EXCEPT !.settings.extensions = o.extensions]
    [] o.name = "root"          -> 
         [read EXCEPT !.settings.root = [text |-> PathOf(dir) \o o.text, dir |-> o.dir]]
    [] o.name = "headers"       -> [read EXCEPT !.settings.headers = o.extensions]
    [] o.name = "includeorder"  ->
         IF o.order = "standardcfirst"
         THEN [read EXCEPT !.settings.include_order = o.order]
         ELSE IF o.order = "default" THEN read ELSE [read EXCEPT !.end = "usage"]
    [] OTHER                    -> [read EXCEPT !.messages = Append(@, About(dir, o.name))]

ReadOptions(options, read, dir, base) ==
  LET upto[k \in 0 .. Len(options)] ==
        IF k = 0 THEN read
        ELSE IF upto[k - 1].end # "read" THEN upto[k - 1]
             ELSE Option(upto[k - 1], options[k], dir, base)
  IN upto[Len(options)]

NotYet == [settings |-> settings, filters |-> cfg_filters, messages |-> <<>>,
           keep_looking |-> TRUE, end |-> "read"]

(* Mutant: the patterns are compared with the name of the file only. *)
ReadFromFile(dir, base) ==
  IF tree[dir].kind = "none" THEN NotYet
  ELSE IF tree[dir].kind = "unreadable"
       THEN [NotYet EXCEPT !.keep_looking = FALSE, !.messages = <<About(dir, "unreadable")>>]
  ELSE ReadOptions(tree[dir].options, NotYet, dir, file)

(* One round of the loop in ProcessConfigOverrides.  A CPPLINT.cfg that       *)
(* cannot be opened ends the search.                                        *)
ReadFrom(dir, base) ==
  IF tree[dir].kind = "none" THEN NotYet
  ELSE IF tree[dir].kind = "unreadable"
       THEN [NotYet EXCEPT !.keep_looking = FALSE, !.messages = <<About(dir, "unreadable")>>]
  ELSE ReadOptions(tree[dir].options, NotYet, dir, base)

Config ==
  /\ phase = "config" /\ at # None
  /\ LET read == ReadFrom(at, base_name)
         up   == read.end = "read" /\ read.keep_looking /\ at # Root
     IN /\ PrintError(read.messages)
        /\ settings' = read.settings /\ cfg_filters' = read.filters
        /\ base_name' = IF up THEN at ELSE base_name
        /\ at' = IF up THEN Parent[at] ELSE None
        /\ phase' = CASE read.end = "excluded" -> "next"
                      [] read.end = "usage"    -> "died"
                      [] OTHER                 -> "config"
        /\ filters' = IF read.end = "excluded" THEN filters_backup ELSE filters
  /\ UNCHANGED <<inputs, filenames, file, filters_backup, verbose_level, quiet,
                 counting, counts, status, junit_failures, report, history>>

(* Mutant: those of the nearest directory first. *)
CollectedNearestFirst(collected) ==
  LET from[k \in 0 .. Len(collected)] ==
        IF k = 0 THEN <<>> ELSE from[k - 1] \o collected[k]
  IN from[Len(collected)]

(* The collected filters, those of the topmost directory first.             *)
Collected(collected) ==
  LET from[k \in 0 .. Len(collected)] ==
        IF k = 0 THEN <<>> ELSE collected[k] \o from[k - 1]
  IN from[Len(collected)]

ApplyFilters ==
  /\ phase = "config" /\ at = None
  /\ filters' = filters \o Collected(cfg_filters)
  /\ phase' = IF WellSigned(Collected(cfg_filters)) THEN "open" ELSE "died"
  /\ UNCHANGED <<inputs, filenames, file, config, filters_backup, verbose_level,
                 quiet, counting, counts, status, junit, history>>

-----------------------------------------------------------------------------
(* The rest of ProcessFile.                                                 *)

Restore == filters' = filters_backup /\ UNCHANGED filters_backup

(* Mutant: without restoring the filters. *)
OpenFailsEarly ==
  /\ phase = "open"
  /\ phase' = "next"
  /\ UNCHANGED <<inputs, filenames, file, config, state, counts, status, junit, history>>

(* The file cannot be opened.                                               *)
OpenFails ==
  /\ phase = "open"
  /\ PrintError(<<About(file, "unreadable")>>)
  /\ phase' = "next" /\ Restore
  /\ UNCHANGED <<inputs, filenames, file, config, verbose_level, quiet, counting,
                 counts, status, junit_failures, report, history>>

(* ProcessFileData asks for the repository name of every file and, in a header,  *)
(* for the guard.                                                            *)
Open ==
  /\ phase = "open"
  /\ LET valid == ExtOf[file] \in GetAllExtensions(settings)
     IN /\ phase' = IF valid /\ NeverEnds(marks, args.repository, file) THEN "hangs"
                    ELSE "lint"
        /\ PrintError(IF valid THEN <<>> ELSE <<About(file, "extension")>>)
        /\ linted' = IF valid THEN linted \cup {file} ELSE linted
        /\ guards' = IF ~valid \/ phase' = "hangs" \/ ExtOf[file] \notin GetHeaderExtensions(settings)
                     THEN guards
                     ELSE [guards EXCEPT ![file] =
                             GetHeaderGuardCPPVariable(marks, args.repository, settings.root,
                                                       args.cwd, file)]
  /\ UNCHANGED <<inputs, filenames, file, config, state, counts, status,
                 junit_failures, report, shown, announced>>

(* A check of ProcessFileData calls Error, which prints unless the filters,  *)
(* the verbosity or (LintFile) a NOLINT comment is against it.               *)
Error(f) ==
  /\ phase = "lint" /\ ExtOf[file] \in GetAllExtensions(settings)
  /\ Len(shown) < MaxErrors
  /\ ShouldPrintError(FALSE, filters, verbose_level, f.category, f.confidence)
  /\ error_count' = error_count + 1
  /\ errors_by_category' =
       IncrementErrorCount(counting, errors_by_category, f.category)
  /\ shown' = Append(shown, [file |-> file, category |-> f.category])
  /\ junit_failures' = IF args.output = "junit"
                       THEN Append(junit_failures, About(file, f.category)) ELSE junit_failures
  /\ UNCHANGED <<inputs, phase, filenames, file, config, state, old_errors,
                 status, junit_errors, report, linted, announced, guards>>

FileDone ==
  /\ phase = "lint"
  /\ announced' = IF args.output # "junit" /\ (~quiet \/ old_errors # error_count)
                  THEN announced \cup {file} ELSE announced
  /\ phase' = "next" /\ Restore
  /\ UNCHANGED <<inputs, filenames, file, config, verbose_level, quiet, counting,
                 counts, status, junit, shown, linted, guards>>

WriteReport ==
  report' = IF args.output = "junit" THEN FormatJUnitXML(junit_errors, junit_failures) ELSE report

(* Mutant: the number of errors is the exit status. *)
ExitCount ==
  /\ phase = "next" /\ filenames = {}
  /\ phase' = "done" /\ status' = error_count
  /\ WriteReport
  /\ UNCHANGED <<inputs, filenames, file, config, state, counts, junit_errors,
                 junit_failures, history>>

(* Mutant: only the errors of the last file count. *)
ExitLast ==
  /\ phase = "next" /\ filenames = {}
  /\ phase' = "done" /\ status' = IF error_count > old_errors THEN 1 ELSE 0
  /\ WriteReport
  /\ UNCHANGED <<inputs, filenames, file, config, state, counts, junit_errors,
                 junit_failures, history>>

(* The report, and sys.exit(_cpplint_state.error_count > 0)                   *)
Exit ==
  /\ phase = "next" /\ filenames = {}
  /\ phase' = "done" /\ status' = IF error_count > 0 THEN 1 ELSE 0
  /\ WriteReport
  /\ UNCHANGED <<inputs, filenames, file, config, state, counts, junit_errors,
                 junit_failures, history>>

-----------------------------------------------------------------------------
Init ==
  /\ \E w \in Worlds : args = w[1] /\ tree = w[2] /\ marks = w[3]
  /\ phase = "args" /\ filenames = {} /\ file = None
  /\ at = None /\ base_name = None /\ cfg_filters = <<>>
  /\ settings = DefaultSettings
  /\ filters = DefaultFilters /\ filters_backup = DefaultFilters
  /\ verbose_level = 1 /\ quiet = FALSE /\ counting = "total"
  /\ error_count = 0 /\ errors_by_category = NoCounts /\ old_errors = 0
  /\ status = Running
  /\ junit_errors = <<>> /\ junit_failures = <<>> /\ report = NoReport
  /\ shown = <<>> /\ linted = {} /\ announced = {} /\ guards = [f \in File |-> <<>>]

Next ==
  \/ ParseArguments
  \/ ProcessFile
  \/ Config
  \/ ApplyFilters
  \/ OpenFails
  \/ Open
  \/ \E f \in Findings : Error(f)
  \/ FileDone
  \/ Exit

Spec == Init /\ [][Next]_vars

(* The run is one loop of one thread: it goes on while it can.               *)
FairSpec == Spec /\ WF_vars(Next)

-----------------------------------------------------------------------------
(* The types of what the run changes.                                        *)
OptionNames ==
  {o.name : o \in UNION {ToSet(tree[d].options) : d \in {x \in Dir : tree[x].kind = "file"}}}
Messages == [of : File \cup Dir, what : {"unreadable", "extension"} \cup OptionNames]

TypeOK ==
  /\ phase \in {"args", "next", "config", "open", "lint", "hangs", "done", "died"}
  /\ filenames \subseteq File /\ file \in File \cup {None}
  /\ at \in Dir \cup {None}
  /\ filters \in Seq(Filter) /\ filters_backup \in Seq(Filter)
  /\ cfg_filters \in Seq(Seq(Filter))
  /\ quiet \in BOOLEAN /\ counting \in Counting
  /\ error_count \in Nat /\ old_errors \in Nat
  /\ shown \in Seq([file : File, category : Category])
  /\ junit_errors \in Seq(Messages)
  /\ junit_failures \in Seq([of : File, what : Category])
  /\ linted \subseteq File /\ announced \subseteq File /\ DOMAIN guards = File
  /\ status \in {Running, 0, 1}

(* The filters that hold for every file: the default ones and those of the   *)
(* command line.                                                            *)
CommonFilters == DefaultFilters \o args.filters

(* "Used to restore the state after each file": whichever way ProcessFile    *)
(* returns - excluded by a CPPLINT.cfg, not readable, or linted - the filters *)
(* are those of the command line again.                                     *)
FiltersRestored == phase \in {"next", "done"} => filters = CommonFilters

(* The exit status tells whether an error was printed, in any file.          *)
StatusTells ==
  /\ error_count = Len(shown)
  /\ phase = "done" => (status = 1 <=> shown # <<>>)
=============================================================================
