----------------------------- MODULE LintCheckouts -----------------------------
(***************************************************************************)
(* The header guard a file should have: FileInfo.RepositoryName and          *)
(* GetHeaderGuardCPPVariable of tools/cpplint/cpplint.py, over a tree of      *)
(* directories some of which are the tops of checkouts.  Paths are sequences *)
(* of pieces: "/", other punctuation, and the words between them; that of a  *)
(* directory ends in "/".  No file is in the topmost directory itself.        *)
(***************************************************************************)
EXTENDS Integers, SequencesExt

CONSTANTS
  Dir, Root, Parent,   \* directories, the topmost one, Dir \ {Root} -> Dir
  File, DirOf,         \* files and their directories
  NameOf,              \* the pieces of the name of a file or directory
  Folded               \* piece -> what is left of it in a guard: "_" of
                       \* punctuation, and words in capital letters

ASSUME TreeAssumption ==
  /\ Root \in Dir /\ Parent \in [Dir \ {Root} -> Dir]
  /\ DirOf \in [File -> Dir \ {Root}]

(* Whoever goes up comes to the topmost directory: none are above each other.  *)
ASSUME UpwardsAssumption ==
  \A D \in SUBSET (Dir \ {Root}) : (\A d \in D : Parent[d] \in D) => D = {}

(* A name is not empty, has no "/" in it, and belongs to one directory of those *)
(* beside each other.                                                        *)
ASSUME NamesAssumption ==
  /\ \A x \in (Dir \ {Root}) \cup File :
       NameOf[x] # <<>> /\ NameOf[x] \in Seq(DOMAIN Folded \ {"/"})
  /\ \A d, e \in Dir \ {Root} : Parent[d] = Parent[e] /\ NameOf[d] = NameOf[e] => d = e

None == "None"

ASSUME NoneAssumption == None \notin Dir \cup File

(* The directories a file is in, directly or not.                           *)
Above(f) ==
  LET up[d \in Dir] == IF d = Root THEN {Root} ELSE {d} \cup up[Parent[d]]
  IN up[DirOf[f]]

(* The path of a file from one of the directories above it.                   *)
Below(d, f) ==
  LET from[x \in Dir] == IF x \in {d, Root} THEN <<>> ELSE from[Parent[x]] \o NameOf[x] \o <<"/">>
  IN from[DirOf[f]] \o NameOf[f]

FullName(f) == <<"/">> \o Below(Root, f)

PathOf(d) ==
  LET from[x \in Dir] == IF x = Root THEN <<"/">> ELSE from[Parent[x]] \o NameOf[x] \o <<"/">>
  IN from[d]

-----------------------------------------------------------------------------
(* RepositoryName.  marks are the directories .git, .hg and .svn that there are. *)

(* The loop up from a directory as long as the one above has a .svn.  If all     *)
(* have, the topmost too, it does not end: NeverEnds.                        *)
TopOfSvn(marks, d) ==
  LET up[x \in Dir] == IF ".svn" \in marks[Parent[x]] THEN up[Parent[x]] ELSE x
  IN up[d]

NeverEnds(marks, repository, f) ==
  repository \notin Above(f) /\ \A d \in Above(f) : ".svn" \in marks[d]

(* Mutant: the nearest checkout. *)
NearestMarked(marks, d) ==
  LET top[x \in Dir] ==
        IF x = Root THEN None ELSE IF marks[x] # {} THEN x ELSE top[Parent[x]]
  IN top[d]

(* The topmost directory with a mark, but for Root; None if there is none.      *)
TopMarked(marks, d) ==
  LET top[x \in Dir] ==
        IF x = Root THEN None
        ELSE IF top[Parent[x]] # None THEN top[Parent[x]]
        ELSE IF marks[x] # {} THEN x ELSE None
  IN top[d]

RepositoryName(marks, repository, f) ==
  CASE repository \in Above(f) -> Below(repository, f)
    [] repository \notin Above(f) /\ ".svn" \in marks[DirOf[f]] ->
         Below(TopOfSvn(marks, DirOf[f]), f)
    [] OTHER -> IF TopMarked(marks, DirOf[f]) = None THEN FullName(f)
                ELSE Below(TopMarked(marks, DirOf[f]), f)

-----------------------------------------------------------------------------
(* GetHeaderGuardCPPVariable.                                                *)

(* A file is named from the working directory, or by its absolute path.  "c++"  *)
(* in that name is replaced before anything else, and what does not exist      *)
(* under the new name has no repository.                                     *)
Renamed(path) == [i \in DOMAIN path |-> IF path[i] = "c++" THEN "cpp" ELSE path[i]]
Renames(cwd, f) ==
  IF cwd \in Above(f) THEN Renamed(Below(cwd, f)) # Below(cwd, f)
  ELSE Renamed(FullName(f)) # FullName(f)
NewName(cwd, f) ==
  IF cwd \in Above(f) THEN PathOf(cwd) \o Renamed(Below(cwd, f)) ELSE Renamed(FullName(f))

(* StripListPrefix; the path itself if the other is not a prefix.             *)
Stripped(path, prefix) ==
  IF IsStrictPrefix(prefix, path) THEN SubSeq(path, Len(prefix) + 1, Len(path)) ELSE path

NoRoot == [text |-> <<>>, dir |-> None]

(* Mutant: only the path in the repository is compared. *)
FixupPathFromRootText(root, name, full) ==
  IF root = NoRoot THEN name ELSE Stripped(name, root.text)

(* The path from _root, a text and the directory that os.path.abspath makes of  *)
(* it.                                                                       *)
FixupPathFromRoot(root, name, full) ==
  IF root = NoRoot THEN name
  ELSE IF IsStrictPrefix(root.text, name) THEN Stripped(name, root.text)
  ELSE IF root.dir # None /\ IsStrictPrefix(PathOf(root.dir), full)
       THEN Stripped(full, PathOf(root.dir))
  ELSE name

GetHeaderGuardCPPVariable(marks, repository, root, cwd, f) ==
  LET full == IF Renames(cwd, f) THEN NewName(cwd, f) ELSE FullName(f)
      name == IF Renames(cwd, f) THEN full ELSE RepositoryName(marks, repository, f)
      path == FixupPathFromRoot(root, name, full)
  IN [i \in DOMAIN path |-> Folded[path[i]]] \o <<"_">>
=============================================================================
