------------------------------ MODULE MCLintRun ------------------------------
(***************************************************************************)
(* A root with two directories, one of them with a directory of its own; a    *)
(* source file or a header in each; and CPPLINT.cfg files of up to two lines. *)
(***************************************************************************)
EXTENDS LintRunPromises

Include == "build/include"
Order   == "build/include_order"
Alpha   == "build/include_alpha"
Tabs    == "whitespace/tab"

MCCategory == {Include, Order, Alpha, Tabs}
MCTopLevel == [c \in MCCategory |-> IF c = Tabs THEN "whitespace" ELSE "build"]
MCCovers   == ("" :> MCCategory) @@ (Include :> {Include, Order, Alpha})
              @@ (Order :> {Order}) @@ (Alpha :> {Alpha}) @@ ("whitespace" :> {Tabs})
MCPrefix   == DOMAIN MCCovers

Off(p) == [sign |-> "-", of |-> p]
On(p)  == [sign |-> "+", of |-> p]

MCDir     == {"root", "lib", "sub", "app"}
MCParent  == [d \in MCDir \ {"root"} |-> IF d = "sub" THEN "lib" ELSE "root"]
MCFile    == {"app.cc", "app.h", "lib.h", "lib_sub.h", "sub.cc", "sub.h"}
MCDirOf   == [f \in MCFile |-> CASE f \in {"app.cc", "app.h"} -> "app"
                                [] f \in {"lib.h", "lib_sub.h"} -> "lib"
                                [] f \in {"sub.cc", "sub.h"} -> "sub"]
MCExtOf   == [f \in MCFile |-> IF f \in {"app.cc", "sub.cc"} THEN "cc" ELSE "h"]
MCSorted  == <<"app.cc", "app.h", "lib.h", "lib_sub.h", "sub.cc", "sub.h">>

(* The headers are c++/x.h, lib/x.h, lib/sub-x.h and lib/sub/x.h.              *)
MCNameOf  == [d \in {"root", "lib", "sub"} |-> <<d>>] @@ ("app" :> <<"c++">>)
             @@ [f \in {"app.cc", "sub.cc"} |-> <<"x", ".", "cc">>]
             @@ ("lib_sub.h" :> <<"sub", "-", "x", ".", "h">>)
             @@ [f \in {"app.h", "lib.h", "sub.h"} |-> <<"x", ".", "h">>]
MCFolded  == [p \in {"/", "-", "."} |-> "_"] @@ ("lib" :> "LIB") @@ ("sub" :> "SUB")
             @@ ("x" :> "X") @@ ("h" :> "H") @@ ("cc" :> "CC") @@ ("root" :> "ROOT")
             @@ ("c++" :> "C__") @@ ("cpp" :> "CPP")

DefaultArgs ==
  [cwd |-> "root", root |-> NoRoot, repository |-> None,
   files |-> {"app.cc", "lib.h", "sub.cc"}, dirs |-> {}, recursive |-> FALSE, exclude |-> {},
   excludeDirs |-> {}, filters |-> <<>>, verbose |-> 1, quiet |-> FALSE,
   counting |-> "total", linelength |-> 80, extensions |-> {}, headers |-> {},
   output |-> "emacs"]

MCCommandLines ==
  {DefaultArgs,
   [DefaultArgs EXCEPT !.quiet = TRUE, !.counting = "detailed",
                       !.filters = <<Off(""), On(Order)>>, !.linelength = 100,
                       !.output = "junit"],
   [DefaultArgs EXCEPT !.files = {}, !.dirs = {"lib", "app"}, !.recursive = TRUE,
                       !.excludeDirs = {"app"}, !.verbose = 4, !.quiet = TRUE,
                       !.counting = "toplevel"],
   [DefaultArgs EXCEPT !.filters = <<[sign |-> "none", of |-> "whitespace"]>>],
   [DefaultArgs EXCEPT !.output = "junit", !.extensions = {"cc"}, !.exclude = {"sub.cc"}],
   [DefaultArgs EXCEPT !.files = {"app.h"}, !.dirs = {"lib"}, !.recursive = TRUE,
                       !.extensions = {"cc"}, !.verbose = 5, !.output = "junit"]}

-----------------------------------------------------------------------------
(* Lines of a CPPLINT.cfg.                                                   *)

NoParent    == [name |-> "set noparent"]
FilterIs(s) == [name |-> "filter", filters |-> s]
Exclude(s)  == [name |-> "exclude_files", matches |-> s]
Length(n)   == [name |-> "linelength", length |-> n]

File_(options) == [kind |-> "file", options |-> options]
NoFile         == [kind |-> "none"]
Unreadable     == [kind |-> "unreadable"]

AnyConfig ==
  {NoFile, Unreadable,
   File_(<<FilterIs(<<Off(Include)>>), FilterIs(<<On(Include), Off(Order)>>)>>),
   File_(<<FilterIs(<<On(Alpha), Off("whitespace")>>), NoParent>>),
   File_(<<Length(120), Exclude({"lib.h", "sub", "app"})>>)}

OddConfig ==
  {File_(<<Exclude({"lib.h"}), FilterIs(<<[sign |-> "none", of |-> Alpha]>>)>>),
   File_(<<[name |-> "extensions", extensions |-> {"h"}],
           [name |-> "headers", extensions |-> {"h", "cc"}]>>),
   File_(<<[name |-> "root", text |-> <<"src", "/">>, dir |-> None],
           [name |-> "includeorder", order |-> "standardcfirst"],
           [name |-> "verbose"]>>),
   File_(<<[name |-> "includeorder", order |-> "default"],
           [name |-> "includeorder", order |-> "alphabetic"]>>)}

MCTrees ==
  {t \in [MCDir -> AnyConfig \cup OddConfig] :
     /\ t["app"] \in {NoFile, File_(<<FilterIs(<<Off(Include)>>), FilterIs(<<On(Include), Off(Order)>>)>>)}
     /\ t["sub"] \in AnyConfig
     /\ t["root"] \in AnyConfig}

(* Nothing but line lengths.                                                 *)
LengthTrees == [MCDir -> {NoFile, File_(<<Length(100)>>), File_(<<Length(120)>>)}]

-----------------------------------------------------------------------------
(* Checkouts and root directories, for headers of which nothing is reported.    *)

RootIs(text, dir) == File_(<<[name |-> "root", text |-> text, dir |-> dir]>>)

RootTrees ==
  {[d \in MCDir |-> NoFile],
   [d \in MCDir |-> IF d = "lib" THEN RootIs(<<"sub", "/">>, "sub") ELSE NoFile],
   [d \in MCDir |-> IF d = "sub" THEN RootIs(<<"..", "/", "..", "/">>, "root") ELSE NoFile],
   [d \in MCDir |-> IF d = "root" THEN RootIs(<<"gone", "/">>, None) ELSE NoFile]}

HeaderArgs ==
  [DefaultArgs EXCEPT !.files = {"app.h", "lib.h", "lib_sub.h", "sub.h"}, !.verbose = 5,
                      !.quiet = TRUE]
RootCommandLines ==
  {HeaderArgs, [HeaderArgs EXCEPT !.cwd = "app", !.repository = "lib"],
   [HeaderArgs EXCEPT !.cwd = "lib", !.root = [text |-> <<"sub", "/">>, dir |-> "sub"]],
   [HeaderArgs EXCEPT !.cwd = "sub", !.root = [text |-> <<"..", "/">>, dir |-> "lib"]]}

NoMarks   == [d \in MCDir |-> {}]
Checkouts == [MCDir -> {{}, {".git"}, {".svn"}}]

MCWorlds     == (MCCommandLines \X MCTrees \X {NoMarks})
                \cup (RootCommandLines \X RootTrees \X Checkouts)
LengthWorlds == MCCommandLines \X LengthTrees \X {NoMarks}

MCFindings == {[category |-> Order, confidence |-> 4],
               [category |-> Alpha, confidence |-> 4],
               [category |-> Tabs, confidence |-> 1]}

MCDefaultFilters == <<Off(Alpha)>>
MCDefaultHeaders == {"h", "hpp"}
MCDefaultSources == {"c", "cc"}
MCExtension      == MCDefaultHeaders \cup MCDefaultSources
=============================================================================
