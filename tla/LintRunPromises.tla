--------------------------- MODULE LintRunPromises ---------------------------
(***************************************************************************)
(* What a run of cpplint promises: what is reported for a file follows from  *)
(* the file, the CPPLINT.cfg files above it and the command line, and not    *)
(* from the files linted before it.                                         *)
(***************************************************************************)
EXTENDS LintRun

(* A file of one of these names could not be told from a case of the report   *)
(* that is no file's.                                                        *)
ASSUME ReportAssumption == {"errors", "passed"} \cap File = {}

-----------------------------------------------------------------------------
(* The usage text, read as definitions: which CPPLINT.cfg files count for a  *)
(* file, nearest first, and which of their options.                         *)

Path(d) ==
  LET up[x \in Dir] == IF x = Root THEN <<Root>> ELSE <<x>> \o up[Parent[x]]
  IN up[d]
PathTo(f) == Path(DirOf[f])

Options(d) == IF tree[d].kind = "file" THEN tree[d].options ELSE <<>>

(* A file that says "set noparent" or cannot be read is the last to count.   *)
Stops(d) ==
  tree[d].kind = "unreadable" \/ \E o \in ToSet(Options(d)) : o.name = "set noparent"

Consulted(f) ==
  {i \in DOMAIN PathTo(f) : \A j \in 1 .. i - 1 : ~Stops(PathTo(f)[j])}

(* The lines of those files: pairs of a place in the path and one in the file. *)
Places(f) == UNION {{i} \X DOMAIN Options(PathTo(f)[i]) : i \in Consulted(f)}
OptionAt(f, p) == Options(PathTo(f)[p[1]])[p[2]]

(* A file is excluded by a pattern that matches its name, or the name of the *)
(* directory through which the CPPLINT.cfg was reached.                     *)
BaseAt(f, i) == IF i = 1 THEN f ELSE PathTo(f)[i - 1]
Excluded(f) ==
  \E p \in Places(f) : /\ OptionAt(f, p).name = "exclude_files"
                       /\ BaseAt(f, p[1]) \in OptionAt(f, p).matches

(* Of the filters of a line, the rightmost that concerns a category decides.  *)
Concerning(s, category) == {k \in DOMAIN s : category \in Covers[s[k].of]}
Silences(s, category) ==
  \E k \in Concerning(s, category) :
    s[k].sign = "-" /\ \A j \in Concerning(s, category) : j <= k

(* Of the lines that concern it, the first one of the nearest directory; if    *)
(* there are none, the command line and, before it, the default filters.     *)
FilterLines(f, category) ==
  {p \in Places(f) : /\ OptionAt(f, p).name = "filter"
                     /\ Concerning(OptionAt(f, p).filters, category) # {}}
Nearer(p, q) == p[1] < q[1] \/ (p[1] = q[1] /\ p[2] < q[2])
Nearest(lines) == CHOOSE p \in lines : \A q \in lines : p = q \/ Nearer(p, q)

Silenced(f, category) ==
  LET lines == FilterLines(f, category)
  IN IF lines = {} THEN Silences(CommonFilters, category)
     ELSE Silences(OptionAt(f, Nearest(lines)).filters, category)

(* The line length of the nearest directory that sets one.                   *)
LineLength(f) ==
  LET lines == {p \in Places(f) : OptionAt(f, p).name = "linelength"}
  IN IF lines = {} THEN args.linelength ELSE OptionAt(f, Nearest(lines)).length

-----------------------------------------------------------------------------
(* Whatever was linted before, and however it ended, a file is linted with   *)
(* the filters of its own directories and the command line.                 *)
OwnFilters ==
  phase = "lint" => \A c \in Category : Filtered(filters, c) <=> Silenced(file, c)

(* A file that a consulted CPPLINT.cfg excludes is not linted, and nothing   *)
(* is reported for a file that is not.                                      *)
ExcludedUntouched ==
  /\ \A f \in linted : ~Excluded(f)
  /\ \A i \in DOMAIN shown : shown[i].file \in linted

(* Unless a report is asked for, a file is announced exactly when something    *)
(* was printed for it with --quiet, and whenever something was without.       *)
AnnouncedIfShown ==
  phase = "next" /\ args.output # "junit" =>
    LET reported == {shown[i].file : i \in DOMAIN shown}
    IN reported \subseteq announced /\ (quiet => announced = reported)

(* The categories printed for a file, in order.                              *)
FoundIn(f) ==
  LET upto[k \in 0 .. Len(shown)] ==
        IF k = 0 THEN <<>>
        ELSE IF shown[k].file = f THEN Append(upto[k - 1], shown[k].category)
             ELSE upto[k - 1]
  IN upto[Len(shown)]

(* The files that the command line asks for.                                 *)
AskedFor ==
  FilterExcludedFiles(
    IF args.recursive
    THEN ExpandDirectories([extensions |-> args.extensions, headers |-> args.headers])
    ELSE args.files)

(* The report of --output=junit has one case for each file with errors, and in  *)
(* it all errors that were found in the file, in order, whatever other files   *)
(* were linted between; and it says "passed" only if nothing was found and no  *)
(* file was left out, but for those that are excluded.                       *)
ReportComplete ==
  LET named(n) == {k \in DOMAIN report.cases : report.cases[k].name = n}
      under(k) == [i \in DOMAIN report.cases[k].texts |-> report.cases[k].texts[i].what]
  IN phase = "done" /\ args.output = "junit" =>
       /\ \A f \in File : IF FoundIn(f) = <<>> THEN named(f) = {}
                          ELSE \E k \in named(f) : named(f) = {k} /\ under(k) = FoundIn(f)
       /\ named("passed") # {} =>
            shown = <<>> /\ \A f \in AskedFor : f \in linted \/ Excluded(f)

(* The statistics by category are those of the errors printed.               *)
StatisticsAgree ==
  LET keys == {CountedAs(counting, shown[i].category) : i \in DOMAIN shown}
      of(k) == {i \in DOMAIN shown : CountedAs(counting, shown[i].category) = k}
  IN IF counting = "total" THEN errors_by_category = NoCounts
     ELSE errors_by_category = [k \in keys |-> Cardinality(of(k))]

(* "CPPLINT.cfg has an effect on files in the same directory and all         *)
(* sub-directories, unless overridden by a nested configuration file"        *)
(* (tools/cpplint/cpplint.py:269), said of the line length.                  *)
OwnLineLength ==
  phase = "lint" => settings.line_length = LineLength(file)

-----------------------------------------------------------------------------
(* Header guards.                                                            *)

Guard(path) == [i \in DOMAIN path |-> Folded[path[i]]] \o <<"_">>

(* The checkouts a file is in, one in another.                                *)
Tops(f) == {d \in Above(f) \ {Root} : marks[d] # {}}

(* Files whose guard comes from a checkout and nothing else: no part of the name *)
(* is rewritten, and no directory is a checkout of an old Subversion.          *)
Guarded(f) ==
  /\ guards[f] # <<>> /\ Tops(f) # {} /\ ~Renames(args.cwd, f)
  /\ \A d \in Dir : ".svn" \notin marks[d]
NoRoots ==
  /\ args.root = NoRoot /\ args.repository = None
  /\ \A d \in Dir : \A o \in ToSet(Options(d)) : o.name # "root"

(* "thus people on different computers who have checked the source out to        *)
(* different locations won't see bogus errors" (tools/cpplint/cpplint.py:1570): *)
(* the guard of a header is its path in a checkout it is in, and two headers of *)
(* a checkout, linted one after the other, are asked for the same guard only if *)
(* their paths there differ in nothing but punctuation and case.               *)
GuardsPortable ==
  NoRoots =>
    \A f \in {h \in File : Guarded(h)} :
      /\ \E d \in Tops(f) : guards[f] = Guard(Below(d, f))
      /\ \A g \in {h \in File : Guarded(h) /\ Tops(h) \cap Tops(f) # {}} :
           guards[f] = guards[g] =>
             \E d \in Tops(f) \cap Tops(g) : Guard(Below(d, f)) = Guard(Below(d, g))

(* "Paths are relative to the directory of the CPPLINT.cfg" (cpplint.py:246):    *)
(* where the root option in force comes from a CPPLINT.cfg, a header below that *)
(* directory is asked for the guard of its path from there, whatever checkouts *)
(* it is in, and any other header for the one it would have without.           *)
RootHonoured ==
  phase = "lint" /\ guards[file] # <<>> /\ settings.root \notin {NoRoot, args.root}
  /\ ~Renames(args.cwd, file)
  => guards[file] = IF settings.root.dir \in Above(file)
                    THEN Guard(Below(settings.root.dir, file))
                    ELSE Guard(RepositoryName(marks, args.repository, file))

-----------------------------------------------------------------------------
(* A run comes to an end, unless a file is in a checkout of an old Subversion    *)
(* that reaches up to the topmost directory.                                 *)
Terminates ==
  (\A f \in File : ~NeverEnds(marks, args.repository, f)) => <>(phase \in {"done", "died"})

(* A file is linted, or left out, as the configuration of its own directories *)
(* and the command line say, after any other files: nothing of theirs is left. *)
OwnConfiguration == FiltersRestored /\ OwnFilters /\ ExcludedUntouched

(* The errors printed, those counted by category and the exit status agree    *)
(* over the whole run.                                                       *)
CountsAgree == StatisticsAgree /\ StatusTells

(* The guard that is asked for is the one the documentation promises, in a    *)
(* checkout and below a root of a CPPLINT.cfg.                               *)
GuardsTell == GuardsPortable /\ RootHonoured
=============================================================================
