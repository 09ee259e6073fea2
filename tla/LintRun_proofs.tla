---------------------------- MODULE LintRun_proofs ----------------------------
(***************************************************************************)
(* Theorems about a run of cpplint, for every tree of directories, every      *)
(* command line, whatever the CPPLINT.cfg files say, and any number of        *)
(* errors.                                                                   *)
(***************************************************************************)
EXTENDS LintRunPromises, FiniteSetTheorems, SequenceTheorems, WellFoundedInduction, TLAPS

IsSeq(s) == s \in Seq({s[i] : i \in DOMAIN s})

LEMMA SeqIs ==
  ASSUME NEW s, IsSeq(s)
  PROVE  Len(s) \in Nat /\ DOMAIN s = 1 .. Len(s) /\ (s = <<>> <=> Len(s) = 0)
<1> DEFINE E == {s[i] : i \in DOMAIN s}
<1>1. s \in Seq(E)
  BY DEF IsSeq
<1> HIDE DEF E
<1> QED BY <1>1, EmptySeq, LenProperties

LEMMA SeqOfItself == ASSUME NEW S, NEW s \in Seq(S) PROVE IsSeq(s)
<1> DEFINE E == {s[i] : i \in DOMAIN s}
<1>1. /\ DOMAIN s = 1 .. Len(s) /\ Len(s) \in Nat /\ s \in [1 .. Len(s) -> S]
  BY LenProperties
<1>2. s = [i \in 1 .. Len(s) |-> s[i]]
  BY <1>1
<1>3. \A i \in 1 .. Len(s) : s[i] \in E
  BY <1>1
<1> HIDE DEF E
<1>4. s \in [1 .. Len(s) -> E]
  BY <1>2, <1>3
<1>5. s \in Seq(E)
  BY <1>1, <1>4
<1> QED  BY <1>5 DEF IsSeq, E

LEMMA AppendIs ==
  ASSUME NEW s, IsSeq(s), NEW e
  PROVE  LET t == Append(s, e)
         IN /\ IsSeq(t) /\ Len(t) = Len(s) + 1 /\ t[Len(s) + 1] = e
            /\ \A i \in 1 .. Len(s) : t[i] = s[i]
<1> DEFINE E == {s[i] : i \in DOMAIN s}
           t == Append(s, e)
<1>1. s \in Seq(E)
  BY DEF IsSeq
<1> HIDE DEF E
<1>2. s \in Seq(E \cup {e}) /\ Len(s) \in Nat
  BY <1>1, SeqMonotonic
<1>3. /\ t \in Seq(E \cup {e}) /\ Len(t) = Len(s) + 1 /\ t[Len(s) + 1] = e
      /\ \A i \in 1 .. Len(s) : t[i] = s[i]
  BY <1>2, AppendProperties
<1>4. IsSeq(t)
  BY <1>3, SeqOfItself
<1> QED BY <1>3, <1>4 DEF t

-----------------------------------------------------------------------------
(* The filters.                                                              *)

(* What the loop over the CPPLINT.cfg files starts from, and what comes back.  *)
FiltersKept ==
  /\ phase \in {"next", "config", "done"} => filters = CommonFilters
  /\ phase \in {"config", "open", "lint"} => filters_backup = CommonFilters

LEMMA FiltersKeptStep == FiltersKept /\ [Next]_vars => FiltersKept'
<1> SUFFICES ASSUME FiltersKept, [Next]_vars PROVE FiltersKept'
  OBVIOUS
<1> USE DEF FiltersKept, CommonFilters, inputs
<1>1. CASE ParseArguments
  BY <1>1 DEF ParseArguments
<1>2. CASE ProcessFile
  BY <1>2 DEF ProcessFile
<1>3. CASE Config
  BY <1>3 DEF Config
<1>4. CASE ApplyFilters
  BY <1>4 DEF ApplyFilters
<1>5. CASE OpenFails
  BY <1>5 DEF OpenFails, Restore
<1>6. CASE Open
  BY <1>6 DEF Open, state
<1>7. ASSUME NEW f \in Findings, Error(f) PROVE FiltersKept'
  BY <1>7 DEF Error, state
<1>8. CASE FileDone
  BY <1>8 DEF FileDone, Restore
<1>9. CASE Exit
  BY <1>9 DEF Exit, state
<1>10. CASE UNCHANGED vars
  BY <1>10 DEF vars, state
<1> QED BY <1>1, <1>2, <1>3, <1>4, <1>5, <1>6, <1>7, <1>8, <1>9, <1>10 DEF Next

(* Whatever CPPLINT.cfg files a file has, and however it ends, the next file is *)
(* linted from the filters of the command line (cpplint.py:1326, 6609).        *)
THEOREM FiltersAreRestored == Spec => []FiltersRestored
<1>1. Init => FiltersKept
  BY DEF Init, FiltersKept
<1>2. FiltersKept => FiltersRestored
  BY DEF FiltersKept, FiltersRestored
<1> QED BY <1>1, <1>2, FiltersKeptStep, PTL DEF Spec

-----------------------------------------------------------------------------
(* The errors.                                                               *)

ErrorsCounted == IsSeq(shown) /\ error_count = Len(shown)
StatusRight   == phase = "done" => (status = 1 <=> shown # <<>>)

LEMMA ErrorsCountedStep == ErrorsCounted /\ [Next]_vars => ErrorsCounted'
<1> SUFFICES ASSUME ErrorsCounted, [Next]_vars PROVE ErrorsCounted'
  OBVIOUS
<1>1. ASSUME NEW f \in Findings, Error(f) PROVE ErrorsCounted'
  <2>1. /\ error_count' = error_count + 1
        /\ shown' = Append(shown, [file |-> file, category |-> f.category])
    BY <1>1 DEF Error
  <2> QED BY <2>1, AppendIs DEF ErrorsCounted
<1>2. CASE UNCHANGED <<shown, error_count>>
  BY <1>2 DEF ErrorsCounted
<1> USE DEF counts, history
<1>3. CASE ParseArguments
  BY <1>2, <1>3 DEF ParseArguments
<1>4. CASE ProcessFile
  BY <1>2, <1>4 DEF ProcessFile
<1>5. CASE Config
  BY <1>2, <1>5 DEF Config
<1>6. CASE ApplyFilters
  BY <1>2, <1>6 DEF ApplyFilters
<1>7. CASE OpenFails
  BY <1>2, <1>7 DEF OpenFails
<1>8. CASE Open
  BY <1>2, <1>8 DEF Open
<1>9. CASE FileDone
  BY <1>2, <1>9 DEF FileDone
<1>10. CASE Exit
  BY <1>2, <1>10 DEF Exit
<1>11. CASE UNCHANGED vars
  BY <1>2, <1>11 DEF vars
<1> QED BY <1>1, <1>3, <1>4, <1>5, <1>6, <1>7, <1>8, <1>9, <1>10, <1>11 DEF Next

LEMMA ErrorsCountedInit == Init => ErrorsCounted
<1>1. IsSeq(<<>>)
  BY EmptySeq DEF IsSeq
<1> QED BY <1>1, EmptySeq DEF Init, ErrorsCounted

(* Only Exit ends a run in good order.                                        *)
LEMMA StatusStep == ErrorsCounted /\ StatusRight /\ [Next]_vars => StatusRight'
<1> SUFFICES ASSUME ErrorsCounted, StatusRight, [Next]_vars PROVE StatusRight'
  OBVIOUS
<1> USE DEF StatusRight
<1>1. CASE phase' # "done"
  BY <1>1
<1>2. CASE Exit
  <2>1. /\ status' = (IF error_count > 0 THEN 1 ELSE 0) /\ shown' = shown
    BY <1>2 DEF Exit, history
  <2> QED BY <2>1, SeqIs DEF ErrorsCounted
<1>3. CASE UNCHANGED vars
  BY <1>3 DEF vars, history
<1>4. ASSUME NEW f \in Findings, Error(f) PROVE phase' # "done"
  BY <1>4 DEF Error
<1>5. CASE Config
  BY <1>1, <1>5 DEF Config
<1> QED
  BY <1>1, <1>2, <1>3, <1>4, <1>5 DEF Next, ParseArguments, ProcessFile, ApplyFilters,
     OpenFails, Open, FileDone

(* The exit status is 1 exactly if an error was printed in a file, whichever it  *)
(* was and however the others ended (cpplint.py:6896).                         *)
THEOREM StatusIsRight == Spec => []StatusTells
<1>1. Init => ErrorsCounted /\ StatusRight
  BY ErrorsCountedInit DEF Init, StatusRight
<1>2. ErrorsCounted /\ StatusRight => StatusTells
  BY DEF ErrorsCounted, StatusRight, StatusTells
<1> QED BY <1>1, <1>2, ErrorsCountedStep, StatusStep, PTL DEF Spec

-----------------------------------------------------------------------------
(* The statistics of a sequence of errors.                                    *)

KeysOf(s, c)      == {CountedAs(c, s[i].category) : i \in DOMAIN s}
PlacesOf(s, c, k) == {i \in DOMAIN s : CountedAs(c, s[i].category) = k}
CountsOf(s, c)    == [k \in KeysOf(s, c) |-> Cardinality(PlacesOf(s, c, k))]

(* An error more bumps its category and no other.                             *)
LEMMA CountsAppend ==
  ASSUME NEW s, IsSeq(s), NEW c, NEW e
  PROVE  CountsOf(Append(s, e), c) = Bumped(CountsOf(s, c), CountedAs(c, e.category))
<1> DEFINE t == Append(s, e)
           n == Len(s)
           key == CountedAs(c, e.category)
           K == KeysOf(s, c)
<1>1. n \in Nat /\ DOMAIN s = 1 .. n
  BY SeqIs
<1>2. /\ DOMAIN t = 1 .. n + 1 /\ t[n + 1] = e
      /\ \A i \in 1 .. n : t[i] = s[i]
  BY AppendIs, SeqIs
<1> HIDE DEF t, n
<1>3. KeysOf(t, c) = K \cup {key}
  <2>1. ASSUME NEW k \in KeysOf(t, c) PROVE k \in K \cup {key}
    BY <1>1, <1>2 DEF KeysOf
  <2>2. ASSUME NEW k \in K PROVE k \in KeysOf(t, c)
    BY <1>1, <1>2 DEF KeysOf
  <2>3. key \in KeysOf(t, c)
    BY <1>1, <1>2 DEF KeysOf
  <2> QED BY <2>1, <2>2, <2>3
<1>4. ASSUME NEW k
      PROVE  Cardinality(PlacesOf(t, c, k)) =
               Cardinality(PlacesOf(s, c, k)) + (IF k = key THEN 1 ELSE 0)
  <2> DEFINE P == PlacesOf(s, c, k)
  <2>1. P \subseteq 1 .. n /\ n + 1 \notin P
    BY <1>1 DEF PlacesOf
  <2>2. PlacesOf(t, c, k) = IF k = key THEN P \cup {n + 1} ELSE P
    BY <1>1, <1>2 DEF PlacesOf
  <2>3. IsFiniteSet(P) /\ Cardinality(P) \in Nat
    <3>1. IsFiniteSet(1 .. n)
      BY <1>1, FS_Interval
    <3>2. IsFiniteSet(P)
      BY <2>1, <3>1, FS_Subset
    <3> QED BY <3>2, FS_CardinalityType
  <2>4. Cardinality(P \cup {n + 1}) = Cardinality(P) + 1
    BY <2>1, <2>3, FS_AddElement
  <2>5. CASE k = key
    <3>1. PlacesOf(t, c, k) = P \cup {n + 1}
      BY <2>2, <2>5
    <3> HIDE DEF P
    <3>2. Cardinality(PlacesOf(t, c, k)) = Cardinality(P) + 1
      BY <2>4, <3>1
    <3> QED BY <2>5, <3>2 DEF P
  <2>6. CASE k # key
    <3>1. PlacesOf(t, c, k) = P
      BY <2>2, <2>6
    <3> QED BY <2>3, <2>6, <3>1
  <2> QED BY <2>5, <2>6
<1>5. ASSUME NEW k, k \notin K PROVE Cardinality(PlacesOf(s, c, k)) = 0
  <2>1. PlacesOf(s, c, k) = {}
    BY <1>5 DEF PlacesOf, KeysOf
  <2> QED BY <2>1, FS_EmptySet
<1>6. DOMAIN CountsOf(s, c) = K /\ \A k \in K : CountsOf(s, c)[k] = Cardinality(PlacesOf(s, c, k))
  BY DEF CountsOf
<1> DEFINE B == Bumped(CountsOf(s, c), key)
           N(k) == Cardinality(PlacesOf(s, c, k))
<1> HIDE DEF K, key
<1>7. DOMAIN B = K \cup {key} /\ \A k \in K \cup {key} :
        B[k] = (IF k \in K THEN CountsOf(s, c)[k] ELSE 0) + (IF k = key THEN 1 ELSE 0)
  BY <1>6 DEF Bumped
<1>8. \A k \in K \cup {key} : B[k] = N(k) + (IF k = key THEN 1 ELSE 0)
  <2> TAKE k \in K \cup {key}
  <2>1. CASE k \in K
    BY <1>6, <1>7, <2>1
  <2>2. CASE k \notin K
    BY <1>5, <1>7, <2>2
  <2> QED BY <2>1, <2>2
<1>9. /\ DOMAIN CountsOf(t, c) = K \cup {key}
      /\ \A k \in K \cup {key} : CountsOf(t, c)[k] = N(k) + (IF k = key THEN 1 ELSE 0)
  BY <1>3, <1>4 DEF CountsOf
<1>10. B = [k \in K \cup {key} |-> B[k]] /\ CountsOf(t, c) = [k \in K \cup {key} |-> CountsOf(t, c)[k]]
  BY <1>3, <1>6 DEF Bumped, CountsOf
<1> HIDE DEF B, N
<1>11. B = CountsOf(t, c)
  BY <1>8, <1>9, <1>10
<1> QED BY <1>11 DEF B, t, key

LEMMA AgreeIs ==
  StatisticsAgree <=> errors_by_category = IF counting = "total" THEN NoCounts
                                           ELSE CountsOf(shown, counting)
BY DEF StatisticsAgree, CountsOf, KeysOf, PlacesOf

NothingYet ==
  phase = "args" => shown = <<>> /\ errors_by_category = NoCounts /\ announced = {}

LEMMA NothingYetStep == NothingYet /\ [Next]_vars => NothingYet'
<1> SUFFICES ASSUME NothingYet, [Next]_vars, phase' = "args" PROVE UNCHANGED vars
  BY DEF NothingYet, vars, history, counts
<1>1. ASSUME NEW f \in Findings PROVE ~Error(f)
  BY DEF Error
<1>2. ~ParseArguments /\ ~ProcessFile /\ ~Config /\ ~ApplyFilters /\ ~OpenFails /\ ~Open
      /\ ~FileDone /\ ~Exit
  BY DEF ParseArguments, ProcessFile, Config, ApplyFilters, OpenFails, Open, FileDone, Exit
<1> QED BY <1>1, <1>2 DEF Next

LEMMA StatisticsStep ==
  ErrorsCounted /\ NothingYet /\ StatisticsAgree /\ [Next]_vars => StatisticsAgree'
<1> SUFFICES ASSUME ErrorsCounted, NothingYet, StatisticsAgree, [Next]_vars
             PROVE  StatisticsAgree'
  OBVIOUS
<1>0. StatisticsAgree' <=> errors_by_category' = IF counting' = "total" THEN NoCounts
                                                 ELSE CountsOf(shown', counting')
  BY DEF StatisticsAgree, CountsOf, KeysOf, PlacesOf
<1>1. CASE UNCHANGED <<errors_by_category, counting, shown>>
  BY <1>0, <1>1, AgreeIs
<1>2. ASSUME NEW f \in Findings, Error(f) PROVE StatisticsAgree'
  <2> DEFINE e == [file |-> file, category |-> f.category]
  <2>1. /\ counting' = counting /\ shown' = Append(shown, e) /\ e.category = f.category
        /\ errors_by_category' = IncrementErrorCount(counting, errors_by_category, f.category)
    BY <1>2 DEF Error, state
  <2> HIDE DEF e
  <2>2. CASE counting = "total"
    BY <1>0, <2>1, <2>2, AgreeIs DEF IncrementErrorCount
  <2>3. CASE counting # "total"
    <3>1. errors_by_category' = Bumped(CountsOf(shown, counting), CountedAs(counting, e.category))
      BY <2>1, <2>3, AgreeIs DEF IncrementErrorCount
    <3>2. CountsOf(shown', counting) = errors_by_category'
      BY <2>1, <3>1, CountsAppend DEF ErrorsCounted
    <3> QED BY <1>0, <2>1, <2>3, <3>2
  <2> QED BY <2>2, <2>3
<1>3. CASE ParseArguments
  <2>1. /\ shown = <<>> /\ errors_by_category = NoCounts
        /\ UNCHANGED <<shown, errors_by_category>>
    BY <1>3 DEF ParseArguments, NothingYet, history, counts
  <2>2. CountsOf(<<>>, counting') = NoCounts
    <3>1. KeysOf(<<>>, counting') = {}
      BY DEF KeysOf
    <3>2. ASSUME NEW f, NEW g, f = [k \in {} |-> Cardinality(PlacesOf(<<>>, counting', k))],
                 g = [k \in {} |-> 0]
          PROVE  f = g
      BY <3>2
    <3> QED BY <3>1, <3>2 DEF CountsOf, NoCounts
  <2> QED BY <1>0, <2>1, <2>2
<1> USE DEF counts, history, state
<1>4. CASE ProcessFile
  BY <1>1, <1>4 DEF ProcessFile
<1>5. CASE Config
  BY <1>1, <1>5 DEF Config
<1>6. CASE ApplyFilters
  BY <1>1, <1>6 DEF ApplyFilters
<1>7. CASE OpenFails
  BY <1>1, <1>7 DEF OpenFails
<1>8. CASE Open
  BY <1>1, <1>8 DEF Open
<1>9. CASE FileDone
  BY <1>1, <1>9 DEF FileDone
<1>10. CASE Exit
  BY <1>1, <1>10 DEF Exit
<1>11. CASE UNCHANGED vars
  BY <1>1, <1>11 DEF vars
<1> QED BY <1>2, <1>3, <1>4, <1>5, <1>6, <1>7, <1>8, <1>9, <1>10, <1>11 DEF Next

(* The statistics of a run are the numbers of errors printed, by category or by  *)
(* what stands before its slash, over any number of files (cpplint.py:1335).    *)
THEOREM StatisticsAreRight == Spec => []StatisticsAgree
<1>1. Init => ErrorsCounted /\ NothingYet /\ StatisticsAgree
  BY ErrorsCountedInit, AgreeIs DEF Init, NothingYet
<1> QED BY <1>1, ErrorsCountedStep, NothingYetStep, StatisticsStep, PTL DEF Spec

(* What was printed, what was counted and the exit status agree, over any number *)
(* of files and however they end (cpplint.py:1335, 6896).                       *)
THEOREM CountsAreRight == Spec => []CountsAgree
<1> QED BY StatisticsAreRight, StatusIsRight, PTL DEF CountsAgree

-----------------------------------------------------------------------------
(* "Done processing".                                                        *)

(* The files that the first errors are about.                                 *)
FilesOf(s, n) == {s[i].file : i \in 1 .. n}

LEMMA FilesAppend ==
  ASSUME NEW s, IsSeq(s), NEW e, NEW m \in 0 .. Len(s)
  PROVE  FilesOf(Append(s, e), m) = FilesOf(s, m)
<1>1. Len(s) \in Nat /\ \A i \in 1 .. Len(s) : Append(s, e)[i] = s[i]
  BY AppendIs, SeqIs
<1>2. \A i \in 1 .. m : i \in 1 .. Len(s)
  BY <1>1
<1> HIDE DEF FilesOf
<1>3. \A i \in 1 .. m : Append(s, e)[i] = s[i]
  BY <1>1, <1>2
<1> QED BY <1>3 DEF FilesOf

(* The files announced before this one.                                       *)
AnnouncedFor(n) ==
  FilesOf(shown, n) \subseteq announced /\ (quiet => announced = FilesOf(shown, n))

Announcing ==
  args.output # "junit" =>
    /\ phase = "next" => AnnouncedFor(Len(shown))
    /\ phase \in {"config", "open", "lint"} => AnnouncedFor(old_errors) /\ old_errors \in Nat
    /\ phase \in {"config", "open"} => old_errors = Len(shown)
    /\ phase = "lint" => /\ old_errors \in 0 .. Len(shown)
                         /\ \A i \in old_errors + 1 .. Len(shown) : shown[i].file = file

LEMMA AnnouncingStep ==
  ErrorsCounted /\ NothingYet /\ Announcing /\ [Next]_vars => Announcing'
<1> SUFFICES ASSUME ErrorsCounted, NothingYet, Announcing, [Next]_vars,
                    args'.output # "junit"
             PROVE  /\ phase' = "next" => AnnouncedFor(Len(shown))'
                    /\ phase' \in {"config", "open", "lint"} =>
                         AnnouncedFor(old_errors)' /\ old_errors' \in Nat
                    /\ phase' \in {"config", "open"} => old_errors' = Len(shown')
                    /\ phase' = "lint" =>
                         /\ old_errors' \in 0 .. Len(shown')
                         /\ \A i \in old_errors' + 1 .. Len(shown') : shown'[i].file = file'
  BY DEF Announcing
<1>0. args' = args /\ args.output # "junit" /\ Len(shown) \in Nat /\ error_count = Len(shown)
  <2>1. args' = args
    BY DEF Next, vars, inputs, ParseArguments, ProcessFile, Config, ApplyFilters, OpenFails,
           Open, Error, FileDone, Exit
  <2> QED BY <2>1, SeqIs DEF ErrorsCounted
<1> USE <1>0 DEF Announcing, history, counts, state
<1>1. CASE ParseArguments
  <2>1. phase' \in {"next", "died"} /\ shown = <<>> /\ announced = {}
        /\ UNCHANGED <<shown, announced>>
    BY <1>1 DEF ParseArguments, NothingYet
  <2>2. FilesOf(<<>>, Len(<<>>)) = {}
    BY EmptySeq DEF FilesOf
  <2> QED BY <2>1, <2>2 DEF AnnouncedFor
<1>2. CASE ProcessFile
  BY <1>2 DEF ProcessFile, AnnouncedFor
<1>3. CASE Config
  <2>1. phase = "config" /\ phase' \in {"next", "died", "config"}
        /\ UNCHANGED <<shown, announced, quiet, old_errors>>
    BY <1>3, Zenon DEF Config
  <2> QED BY <2>1 DEF AnnouncedFor
<1>4. CASE ApplyFilters
  BY <1>4 DEF ApplyFilters, AnnouncedFor
<1>5. CASE OpenFails
  BY <1>5 DEF OpenFails, AnnouncedFor
<1>6. CASE Open
  <2>1. phase = "open" /\ phase' \in {"hangs", "lint"}
        /\ UNCHANGED <<shown, announced, quiet, old_errors, file>>
    BY <1>6 DEF Open
  <2> QED BY <2>1 DEF AnnouncedFor
<1>7. ASSUME NEW f \in Findings, Error(f) PROVE Announcing'
  <2> DEFINE e == [file |-> file, category |-> f.category]
  <2>1. /\ phase = "lint" /\ phase' = "lint" /\ shown' = Append(shown, e) /\ e.file = file
        /\ UNCHANGED <<announced, quiet, old_errors, file>>
    BY <1>7 DEF Error
  <2> HIDE DEF e
  <2>2. /\ Len(shown') = Len(shown) + 1 /\ shown'[Len(shown) + 1] = e
        /\ \A i \in 1 .. Len(shown) : shown'[i] = shown[i]
    BY <2>1, AppendIs DEF ErrorsCounted
  <2>3. old_errors \in 0 .. Len(shown)
        /\ \A i \in old_errors + 1 .. Len(shown) : shown[i].file = file
    BY <2>1
  <2>4. FilesOf(shown', old_errors) = FilesOf(shown, old_errors)
    BY <2>1, <2>3, FilesAppend DEF ErrorsCounted
  <2>5. AnnouncedFor(old_errors)'
    BY <2>1, <2>4 DEF AnnouncedFor
  <2>6. \A i \in old_errors + 1 .. Len(shown) + 1 : shown'[i].file = file
    BY <2>1, <2>2, <2>3
  <2> QED BY <2>1, <2>2, <2>3, <2>5, <2>6
<1>8. CASE FileDone
  <2>1. /\ phase = "lint" /\ phase' = "next" /\ UNCHANGED <<shown, quiet>>
        /\ announced' = IF ~quiet \/ old_errors # error_count THEN announced \cup {file}
                        ELSE announced
    BY <1>8 DEF FileDone
  <2>2. /\ old_errors \in 0 .. Len(shown)
        /\ \A i \in old_errors + 1 .. Len(shown) : shown[i].file = file
    BY <2>1
  <2> DEFINE n == Len(shown)
  <2>3. FilesOf(shown, n) = FilesOf(shown, old_errors) \cup
                              (IF old_errors = n THEN {} ELSE {file})
    <3>1. CASE old_errors = n
      BY <3>1
    <3>2. CASE old_errors # n
      <4>1. ASSUME NEW x \in FilesOf(shown, n) PROVE x \in FilesOf(shown, old_errors) \cup {file}
        <5>1. PICK i \in 1 .. n : x = shown[i].file
          BY <4>1 DEF FilesOf
        <5>2. i \in 1 .. old_errors \/ i \in old_errors + 1 .. n
          BY <2>2, <5>1
        <5> QED BY <2>2, <5>1, <5>2 DEF FilesOf
      <4>2. n \in 1 .. n /\ n \in old_errors + 1 .. n /\ \A i \in 1 .. old_errors : i \in 1 .. n
        BY <2>2, <3>2
      <4>3. ASSUME NEW x \in FilesOf(shown, old_errors) \cup {file} PROVE x \in FilesOf(shown, n)
        BY <2>2, <4>2, <4>3 DEF FilesOf
      <4> QED BY <3>2, <4>1, <4>3
    <3> QED BY <3>1, <3>2
  <2>4. AnnouncedFor(old_errors)
    BY <2>1
  <2> QED BY <2>1, <2>3, <2>4 DEF AnnouncedFor
<1>9. CASE Exit
  BY <1>9 DEF Exit
<1>10. CASE UNCHANGED vars
  BY <1>10 DEF vars, AnnouncedFor
<1> QED BY <1>1, <1>2, <1>3, <1>4, <1>5, <1>6, <1>7, <1>8, <1>9, <1>10 DEF Next

(* A file is announced whenever something was printed for it, and with --quiet    *)
(* only then, whatever was printed for the files before (cpplint.py:6679).       *)
THEOREM AnnouncementsAreRight == Spec => []AnnouncedIfShown
<1>1. Init => ErrorsCounted /\ NothingYet /\ Announcing
  BY ErrorsCountedInit DEF Init, NothingYet, Announcing
<1>2. ErrorsCounted /\ Announcing => AnnouncedIfShown
  <2> SUFFICES ASSUME ErrorsCounted, Announcing, phase = "next", args.output # "junit"
               PROVE  LET reported == {shown[i].file : i \in DOMAIN shown}
                      IN reported \subseteq announced /\ (quiet => announced = reported)
    BY DEF AnnouncedIfShown
  <2>1. {shown[i].file : i \in DOMAIN shown} = FilesOf(shown, Len(shown))
    BY SeqIs DEF ErrorsCounted, FilesOf
  <2> QED BY <2>1 DEF Announcing, AnnouncedFor
<1> QED BY <1>1, <1>2, ErrorsCountedStep, NothingYetStep, AnnouncingStep, PTL DEF Spec

-----------------------------------------------------------------------------
(* What follows is about the configuration.                                   *)

LEMMA Naturals ==
  ASSUME NEW T, 0 \in T, \A n \in Nat : n \in T => n + 1 \in T
  PROVE  \A n \in Nat : n \in T
<1> DEFINE X == {n \in Nat : n \notin T}
<1> SUFFICES ASSUME X # {} PROVE FALSE
  OBVIOUS
<1>1. X \subseteq Nat
  OBVIOUS
<1> HIDE DEF X
<1>2. PICK x \in X : \A y \in X : ~(<<y, x>> \in OpToRel(<, Nat))
  BY <1>1, WFMin, NatLessThanWellFounded, Zenon
<1>3. x \in Nat /\ x \notin T
  BY DEF X
<1>4. x - 1 \in Nat /\ x - 1 < x /\ x - 1 + 1 = x
  BY <1>3
<1>5. x - 1 \notin X
  BY <1>2, <1>3, <1>4 DEF OpToRel
<1> QED  BY <1>3, <1>4, <1>5 DEF X

-----------------------------------------------------------------------------
(* Reading a CPPLINT.cfg.                                                    *)

Reading(r) ==
  /\ r = [settings |-> r.settings, filters |-> r.filters, messages |-> r.messages,
          keep_looking |-> r.keep_looking, end |-> r.end]
  /\ r.end \in {"read", "excluded", "usage"}

(* What an option does.                                                      *)
Does(r, o, dir, base, n) ==
  /\ Reading(n)
  /\ n.filters = IF o.name = "filter" THEN Append(r.filters, o.filters) ELSE r.filters
  /\ n.keep_looking = IF o.name = "set noparent" THEN FALSE ELSE r.keep_looking
  /\ n.end = "read" => ~(o.name = "exclude_files" /\ base \in o.matches)
  /\ n.end = "excluded" /\ r.end = "read" => o.name = "exclude_files" /\ base \in o.matches
  /\ n.messages \in {r.messages, Append(r.messages, About(dir, o.name))}

LEMMA OptionDoes ==
  ASSUME NEW r, Reading(r), NEW o, NEW dir, NEW base
  PROVE  Does(r, o, dir, base, Option(r, o, dir, base))
<1> DEFINE n == Option(r, o, dir, base)
<1>1. PICK s, f, m, k, e :
        r = [settings |-> s, filters |-> f, messages |-> m, keep_looking |-> k, end |-> e]
  BY DEF Reading
<1>2. CASE o.name = "set noparent"
  <2>1. n = [r EXCEPT !.keep_looking = FALSE]
    BY <1>2 DEF Option
  <2> QED BY <1>1, <1>2, <2>1 DEF Does, Reading
<1>3. CASE o.name = "filter"
  <2>1. n = [r EXCEPT !.filters = Append(@, o.filters)]
    BY <1>3 DEF Option
  <2> QED BY <1>1, <1>3, <2>1 DEF Does, Reading
<1>4. CASE o.name = "exclude_files"
  <2>1. n = IF base \in o.matches THEN [r EXCEPT !.end = "excluded"] ELSE r
    BY <1>4 DEF Option
  <2> QED BY <1>1, <1>4, <2>1 DEF Does, Reading
<1>5. CASE o.name = "linelength"
  <2>1. n = [r EXCEPT !.settings.line_length = o.length]
    BY <1>5 DEF Option
  <2> QED BY <1>1, <1>5, <2>1 DEF Does, Reading
<1>6. CASE o.name = "extensions"
  <2>1. n = [r EXCEPT !.settings.extensions = o.extensions]
    BY <1>6 DEF Option
  <2> QED BY <1>1, <1>6, <2>1 DEF Does, Reading
<1>7. CASE o.name = "root"
  <2>1. n = [r EXCEPT !.settings.root = [text |-> PathOf(dir) \o o.text, dir |-> o.dir]]
    BY <1>7 DEF Option
  <2> QED BY <1>1, <1>7, <2>1 DEF Does, Reading
<1>8. CASE o.name = "headers"
  <2>1. n = [r EXCEPT !.settings.headers = o.extensions]
    BY <1>8 DEF Option
  <2> QED BY <1>1, <1>8, <2>1 DEF Does, Reading
<1>9. CASE o.name = "includeorder"
  <2>1. n = IF o.order = "standardcfirst"
            THEN [r EXCEPT !.settings.include_order = o.order]
            ELSE IF o.order = "default" THEN r ELSE [r EXCEPT !.end = "usage"]
    BY <1>9 DEF Option
  <2> QED BY <1>1, <1>9, <2>1 DEF Does, Reading
<1>10. CASE o.name \notin {"set noparent", "filter", "exclude_files", "linelength", "extensions",
                           "root", "headers", "includeorder"}
  <2>1. n = [r EXCEPT !.messages = Append(@, About(dir, o.name))]
    BY <1>10 DEF Option
  <2> QED BY <1>1, <1>10, <2>1 DEF Does, Reading
<1> QED BY <1>2, <1>3, <1>4, <1>5, <1>6, <1>7, <1>8, <1>9, <1>10

(* What is read after each option.                                            *)
After(f, options, r, dir, base) ==
  f = [k \in 0 .. Len(options) |->
         IF k = 0 THEN r
         ELSE IF f[k - 1].end # "read" THEN f[k - 1]
              ELSE Option(f[k - 1], options[k], dir, base)]

LEMMA AfterExists ==
  ASSUME NEW options, Len(options) \in Nat, NEW r, NEW dir, NEW base
  PROVE  \E f : After(f, options, r, dir, base)
<1> DEFINE n == Len(options)
           Next1(g, k) == IF g[k - 1].end # "read" THEN g[k - 1]
                          ELSE Option(g[k - 1], options[k], dir, base)
           Upto(m, g) == g[0] = r /\ \A k \in 1 .. n : k <= m => g[k] = Next1(g, k)
           T == {m \in Nat : \E g : Upto(m, g) /\ g = [k \in 0 .. n |-> g[k]]}
<1>1. 0 \in T
  <2> DEFINE g == [k \in 0 .. n |-> r]
  <2>1. Upto(0, g)
    OBVIOUS
  <2>2. g = [k \in 0 .. n |-> g[k]]
    OBVIOUS
  <2> HIDE DEF g, Upto
  <2> QED BY <2>1, <2>2
<1>2. ASSUME NEW m \in Nat, m \in T PROVE m + 1 \in T
  <2>1. PICK g : Upto(m, g) /\ g = [k \in 0 .. n |-> g[k]]
    BY <1>2
  <2> DEFINE h == [k \in 0 .. n |-> IF k = m + 1 THEN Next1(g, k) ELSE g[k]]
  <2>2. h = [k \in 0 .. n |-> h[k]]
    OBVIOUS
  <2>3. \A k \in 0 .. n : h[k] = IF k = m + 1 THEN Next1(g, k) ELSE g[k]
    OBVIOUS
  <2> HIDE DEF h
  <2>4. h[0] = r
    BY <2>1, <2>3, SMTT(30)
  <2>5. ASSUME NEW k \in 1 .. n, k <= m + 1 PROVE h[k] = Next1(h, k)
    <3>1. k - 1 \in 0 .. n /\ k - 1 # m + 1 /\ k \in 0 .. n
      BY <2>5
    <3>2. h[k - 1] = g[k - 1]
      BY <2>3, <3>1
    <3>3. Next1(h, k) = Next1(g, k)
      BY <3>2
    <3> HIDE DEF Next1
    <3>4. h[k] = Next1(g, k)
      <4>1. CASE k = m + 1
        BY <2>3, <3>1, <4>1
      <4>2. CASE k # m + 1
        <5>1. k <= m
          BY <2>5, <4>2
        <5> QED BY <2>1, <2>3, <3>1, <4>2, <5>1
      <4> QED BY <4>1, <4>2
    <3> QED BY <3>3, <3>4
  <2> HIDE DEF Next1
  <2>6. Upto(m + 1, h)
    BY <2>4, <2>5
  <2> HIDE DEF Upto
  <2> QED BY <2>2, <2>6
<1> HIDE DEF T
<1>3. n \in T
  BY <1>1, <1>2, Naturals
<1>4. PICK g : Upto(n, g) /\ g = [k \in 0 .. n |-> g[k]]
  BY <1>3 DEF T
<1> HIDE DEF Next1
<1>5. \A k \in 1 .. n : g[k] = Next1(g, k)
  BY <1>4
<1>6. \A k \in 0 .. n : g[k] = IF k = 0 THEN r ELSE Next1(g, k)
  BY <1>4, <1>5
<1>7. g = [k \in 0 .. n |-> IF k = 0 THEN r ELSE Next1(g, k)]
  BY <1>4, <1>6, Zenon
<1> QED BY <1>7 DEF After, Next1

(* What the options of a file do, one after the other.                        *)
LEMMA ReadOptionsDoes ==
  ASSUME NEW options, Len(options) \in Nat, NEW r, NEW dir, NEW base
  PROVE  \E f : /\ f[0] = r /\ ReadOptions(options, r, dir, base) = f[Len(options)]
                /\ \A k \in 1 .. Len(options) :
                     f[k] = IF f[k - 1].end # "read" THEN f[k - 1]
                            ELSE Option(f[k - 1], options[k], dir, base)
<1>1. ReadOptions(options, r, dir, base) =
        (CHOOSE f : After(f, options, r, dir, base))[Len(options)]
  BY Zenon DEF ReadOptions, After
<1> DEFINE f == CHOOSE g : After(g, options, r, dir, base)
<1>2. After(f, options, r, dir, base)
  BY AfterExists, Zenon
<1> HIDE DEF f
<1>3. /\ f[0] = r
      /\ \A k \in 1 .. Len(options) :
           f[k] = IF f[k - 1].end # "read" THEN f[k - 1]
                  ELSE Option(f[k - 1], options[k], dir, base)
  BY <1>2 DEF After
<1> QED BY <1>1, <1>3 DEF f

-----------------------------------------------------------------------------
(* Types.                                                                    *)

ReadTyped(r) ==
  Reading(r) /\ r.filters \in Seq(Seq(Filter)) /\ r.messages \in Seq(Messages)

LEMMA OptionsAre ==
  ASSUME NEW d \in Dir, Configuration(tree[d])
  PROVE  /\ Len(Options(d)) \in Nat /\ DOMAIN Options(d) = 1 .. Len(Options(d))
         /\ \A k \in 1 .. Len(Options(d)) :
              LET o == Options(d)[k]
              IN o.name \in OptionNames /\ (o.name = "filter" => o.filters \in Seq(Filter))
<1>1. Options(d) \in Seq(ToSet(Options(d)))
  <2>1. CASE tree[d].kind = "file"
    BY <2>1 DEF Options, Configuration
  <2>2. CASE tree[d].kind # "file"
    BY <2>2, EmptySeq DEF Options
  <2> QED BY <2>1, <2>2
<1>2. \A o \in ToSet(Options(d)) :
        o.name \in OptionNames /\ (o.name = "filter" => o.filters \in Seq(Filter))
  <2>1. CASE tree[d].kind = "file"
    BY <2>1 DEF Options, Configuration, OptionNames
  <2>2. CASE tree[d].kind # "file"
    BY <2>2 DEF Options, ToSet
  <2> QED BY <2>1, <2>2
<1> DEFINE os == Options(d)
           S  == ToSet(os)
<1> HIDE DEF os, S
<1>3. Len(os) \in Nat /\ DOMAIN os = 1 .. Len(os) /\ \A k \in 1 .. Len(os) : os[k] \in S
  BY <1>1, LenProperties, ElementOfSeq DEF os, S
<1> QED BY <1>2, <1>3 DEF os, S

LEMMA OptionTyped ==
  ASSUME NEW r, ReadTyped(r), NEW o, o.name \in OptionNames,
         o.name = "filter" => o.filters \in Seq(Filter), NEW dir \in Dir, NEW base
  PROVE  ReadTyped(Option(r, o, dir, base))
<1> DEFINE n == Option(r, o, dir, base)
<1>1. Does(r, o, dir, base, n)
  BY OptionDoes DEF ReadTyped
<1> HIDE DEF n
<1>2. Append(r.messages, About(dir, o.name)) \in Seq(Messages)
  <2>1. About(dir, o.name) \in Messages
    BY DEF About, Messages
  <2> QED BY <2>1, AppendProperties DEF ReadTyped
<1>3. n.filters \in Seq(Seq(Filter))
  <2> DEFINE S == Seq(Filter)
  <2> HIDE DEF S
  <2>1. r.filters \in Seq(S)
    BY DEF ReadTyped, S
  <2>2. CASE o.name = "filter"
    <3>1. o.filters \in S /\ n.filters = Append(r.filters, o.filters)
      BY <1>1, <2>2 DEF Does, S
    <3> QED BY <2>1, <3>1, AppendProperties DEF S
  <2>3. CASE o.name # "filter"
    BY <1>1, <2>3 DEF Does, ReadTyped
  <2> QED BY <2>2, <2>3
<1> QED BY <1>1, <1>2, <1>3 DEF Does, ReadTyped, n

LEMMA ReadFromTyped ==
  ASSUME NEW dir \in Dir, Configuration(tree[dir]), NEW base, cfg_filters \in Seq(Seq(Filter))
  PROVE  ReadTyped(ReadFrom(dir, base))
<1>1. ReadTyped(NotYet)
  BY EmptySeq DEF ReadTyped, Reading, NotYet
<1>2. CASE tree[dir].kind = "none"
  BY <1>1, <1>2 DEF ReadFrom
<1>3. CASE tree[dir].kind = "unreadable"
  <2>1. ReadFrom(dir, base) = [NotYet EXCEPT !.keep_looking = FALSE,
                                             !.messages = <<About(dir, "unreadable")>>]
    BY <1>3 DEF ReadFrom
  <2>2. <<About(dir, "unreadable")>> \in Seq(Messages)
    <3>1. About(dir, "unreadable") \in Messages
      BY DEF About, Messages
    <3> HIDE DEF About, Messages
    <3> QED BY <3>1
  <2> QED BY <1>1, <2>1, <2>2 DEF ReadTyped, Reading, NotYet
<1>4. CASE tree[dir].kind \notin {"none", "unreadable"}
  <2> DEFINE os == Options(dir)
             n  == Len(os)
  <2>1. tree[dir].kind = "file" /\ os = tree[dir].options
    BY <1>4 DEF Configuration, Options
  <2>2. /\ n \in Nat
        /\ \A k \in 1 .. n :
             os[k].name \in OptionNames /\ (os[k].name = "filter" => os[k].filters \in Seq(Filter))
    BY OptionsAre
  <2>3. ReadFrom(dir, base) = ReadOptions(os, NotYet, dir, base)
    BY <2>1 DEF ReadFrom
  <2> HIDE DEF os, n
  <2>4. PICK f : /\ f[0] = NotYet /\ ReadFrom(dir, base) = f[n]
                 /\ \A k \in 1 .. n :
                      f[k] = IF f[k - 1].end # "read" THEN f[k - 1]
                             ELSE Option(f[k - 1], os[k], dir, base)
    BY <2>2, <2>3, ReadOptionsDoes DEF n
  <2> DEFINE T == {k \in Nat : k <= n => ReadTyped(f[k])}
  <2>5. 0 \in T
    BY <1>1, <2>4
  <2>6. ASSUME NEW k \in Nat, k \in T PROVE k + 1 \in T
    <3> SUFFICES ASSUME k + 1 <= n PROVE ReadTyped(f[k + 1])
      OBVIOUS
    <3>1. k + 1 \in 1 .. n /\ k + 1 - 1 = k /\ ReadTyped(f[k])
      BY <2>2, <2>6
    <3>2. f[k + 1] = IF f[k].end # "read" THEN f[k] ELSE Option(f[k], os[k + 1], dir, base)
      BY <2>4, <3>1
    <3>3. ReadTyped(Option(f[k], os[k + 1], dir, base))
      BY <2>2, <3>1, OptionTyped
    <3> QED BY <3>1, <3>2, <3>3
  <2> HIDE DEF T
  <2>7. n \in T
    BY <2>2, <2>5, <2>6, Naturals
  <2> QED BY <2>2, <2>4, <2>7 DEF T
<1> QED BY <1>2, <1>3, <1>4

Inputs ==
  /\ args.files \subseteq File /\ args.filters \in Seq(Filter)
  /\ args.quiet \in BOOLEAN /\ args.counting \in Counting
  /\ \A d \in Dir : Configuration(tree[d])
FileInUse == phase \in {"config", "open", "lint", "hangs"} => file \in File

TInv == TypeOK /\ Inputs /\ FileInUse

LEMMA InputsStay == [Next]_vars => UNCHANGED inputs
BY DEF Next, vars, ParseArguments, ProcessFile, Config, ApplyFilters, OpenFails, Open, Error,
   FileDone, Exit

Joined(s, t) == s \o t

(* The filters of the lines, collected up to each of them.                     *)
Collecting(f, s) ==
  f = [k \in 0 .. Len(s) |-> IF k = 0 THEN <<>> ELSE Joined(s[k], f[k - 1])]

LEMMA CollectingExists == ASSUME NEW s, Len(s) \in Nat PROVE \E f : Collecting(f, s)
<1> DEFINE n == Len(s)
           Upto(m, g) == g[0] = <<>> /\ \A k \in 1 .. n : k <= m => g[k] = Joined(s[k], g[k - 1])
           T == {m \in Nat : \E g : Upto(m, g)}
<1>1. 0 \in T
  <2>1. Upto(0, [k \in 0 .. n |-> <<>>])
    OBVIOUS
  <2> HIDE DEF Upto
  <2> QED BY <2>1
<1>2. ASSUME NEW m \in Nat, m \in T PROVE m + 1 \in T
  <2>1. PICK g : Upto(m, g)
    BY <1>2
  <2> DEFINE h == [k \in 0 .. n |-> IF k = m + 1 THEN Joined(s[k], g[k - 1]) ELSE g[k]]
  <2>2. \A k \in 0 .. n : h[k] = IF k = m + 1 THEN Joined(s[k], g[k - 1]) ELSE g[k]
    OBVIOUS
  <2> HIDE DEF h
  <2>3. h[0] = <<>>
    BY <2>1, <2>2
  <2>4. ASSUME NEW k \in 1 .. n, k <= m + 1 PROVE h[k] = Joined(s[k], h[k - 1])
    <3>1. k - 1 \in 0 .. n /\ k - 1 # m + 1 /\ k \in 0 .. n
      BY <2>4
    <3>2. h[k - 1] = g[k - 1]
      BY <2>2, <3>1
    <3>3. h[k] = Joined(s[k], g[k - 1])
      BY <2>1, <2>2, <2>4, <3>1
    <3> QED BY <3>2, <3>3
  <2>5. Upto(m + 1, h)
    BY <2>3, <2>4
  <2> HIDE DEF Upto
  <2> QED BY <2>5
<1> HIDE DEF T
<1>3. n \in T
  BY <1>1, <1>2, Naturals
<1>4. PICK g : Upto(n, g)
  BY <1>3 DEF T
<1> DEFINE h == [k \in 0 .. n |-> g[k]]
<1>5. \A k \in 0 .. n : h[k] = g[k]
  OBVIOUS
<1>6. \A k \in 0 .. n : h[k] = IF k = 0 THEN <<>> ELSE Joined(s[k], h[k - 1])
  <2> HIDE DEF h
  <2> TAKE k \in 0 .. n
  <2>1. CASE k = 0
    BY <1>4, <1>5, <2>1
  <2>2. CASE k # 0
    <3>1. k \in 1 .. n /\ k <= n /\ k - 1 \in 0 .. n
      BY <2>2
    <3> QED BY <1>4, <1>5, <2>2, <3>1
  <2> QED BY <2>1, <2>2
<1>7. h = [k \in 0 .. n |-> h[k]]
  OBVIOUS
<1> HIDE DEF h
<1>8. h = [k \in 0 .. n |-> IF k = 0 THEN <<>> ELSE Joined(s[k], h[k - 1])]
  BY <1>6, <1>7, Zenon
<1> QED BY <1>8, Zenon DEF Collecting

LEMMA CollectedFrom ==
  ASSUME NEW s, Len(s) \in Nat
  PROVE  \E f : /\ f[0] = <<>> /\ Collected(s) = f[Len(s)]
                /\ \A k \in 1 .. Len(s) : f[k] = Joined(s[k], f[k - 1])
<1>1. Collected(s) = (CHOOSE f : Collecting(f, s))[Len(s)]
  BY Zenon DEF Collected, Collecting, Joined
<1> DEFINE f == CHOOSE g : Collecting(g, s)
<1>2. Collecting(f, s)
  BY CollectingExists, Zenon
<1> HIDE DEF f
<1>3. \A k \in 0 .. Len(s) : f[k] = IF k = 0 THEN <<>> ELSE Joined(s[k], f[k - 1])
  BY <1>2, Zenon DEF Collecting
<1>4. f[0] = <<>> /\ \A k \in 1 .. Len(s) : f[k] = Joined(s[k], f[k - 1])
  BY <1>3
<1> QED BY <1>1, <1>4 DEF f

LEMMA CollectedType ==
  ASSUME NEW s \in Seq(Seq(Filter))
  PROVE  Collected(s) \in Seq(Filter)
<1> DEFINE n == Len(s)
           F == Filter
<1>1. n \in Nat /\ \A k \in 1 .. n : s[k] \in Seq(F)
  BY ElementOfSeq, LenProperties
<1>2. PICK f : /\ f[0] = <<>> /\ Collected(s) = f[n]
               /\ \A k \in 1 .. n : f[k] = Joined(s[k], f[k - 1])
  BY <1>1, CollectedFrom
<1> HIDE DEF F, n
<1> DEFINE T == {k \in Nat : k <= n => f[k] \in Seq(F)}
<1>3. 0 \in T
  BY <1>2, EmptySeq
<1>4. ASSUME NEW k \in Nat, k \in T PROVE k + 1 \in T
  <2> SUFFICES ASSUME k + 1 <= n PROVE f[k + 1] \in Seq(F)
    OBVIOUS
  <2>1. k + 1 \in 1 .. n /\ k + 1 - 1 = k /\ f[k] \in Seq(F)
    BY <1>1, <1>4
  <2>2. f[k + 1] = Joined(s[k + 1], f[k]) /\ s[k + 1] \in Seq(F)
    BY <1>1, <1>2, <2>1
  <2> QED BY <2>1, <2>2, ConcatProperties DEF Joined
<1> HIDE DEF T
<1>5. n \in T
  BY <1>1, <1>3, <1>4, Naturals
<1> QED BY <1>1, <1>2, <1>5 DEF T, F

LEMMA CollectedNone == Collected(<<>>) = <<>>
<1>1. Len(<<>>) = 0
  BY EmptySeq
<1> QED BY <1>1, CollectedFrom

(* A line more comes in front.                                                *)
LEMMA CollectedAppend ==
  ASSUME NEW s \in Seq(Seq(Filter)), NEW x \in Seq(Filter)
  PROVE  Collected(Append(s, x)) = x \o Collected(s)
<1> DEFINE n == Len(s)
           t == Append(s, x)
           S == Seq(Filter)
<1> HIDE DEF S
<1>1. /\ n \in Nat /\ Len(t) = n + 1 /\ t[n + 1] = x
      /\ \A k \in 1 .. n : t[k] = s[k]
  BY AppendProperties, LenProperties DEF S
<1> HIDE DEF t
<1>2. PICK f : /\ f[0] = <<>> /\ Collected(s) = f[n]
               /\ \A k \in 1 .. n : f[k] = Joined(s[k], f[k - 1])
  BY <1>1, CollectedFrom
<1>3. PICK g : /\ g[0] = <<>> /\ Collected(t) = g[Len(t)]
               /\ \A k \in 1 .. Len(t) : g[k] = Joined(t[k], g[k - 1])
  BY <1>1, CollectedFrom
<1> HIDE DEF n
<1> DEFINE T == {k \in Nat : k <= n => f[k] = g[k]}
<1>4. 0 \in T
  BY <1>2, <1>3
<1>5. ASSUME NEW k \in Nat, k \in T PROVE k + 1 \in T
  <2> SUFFICES ASSUME k + 1 <= n PROVE f[k + 1] = g[k + 1]
    OBVIOUS
  <2>1. k + 1 \in 1 .. n /\ k + 1 \in 1 .. Len(t) /\ k + 1 - 1 = k /\ f[k] = g[k]
    BY <1>1, <1>5
  <2> QED BY <1>1, <1>2, <1>3, <2>1
<1> HIDE DEF T
<1>6. n \in T
  BY <1>1, <1>4, <1>5, Naturals
<1>7. f[n] = g[n]
  BY <1>1, <1>6 DEF T
<1>8. n + 1 \in 1 .. Len(t) /\ n + 1 - 1 = n
  BY <1>1
<1>9. Collected(t) = Joined(x, Collected(s))
  BY <1>1, <1>2, <1>3, <1>7, <1>8
<1> QED BY <1>9 DEF t, Joined

(* A set of numbers that is not empty has a smallest.                         *)
LEMMA MinIn == ASSUME NEW S \in SUBSET Nat, S # {} PROVE Min(S) \in S
<1>1. PICK x \in S : \A y \in S : ~(<<y, x>> \in OpToRel(<, Nat))
  BY WFMin, NatLessThanWellFounded, Zenon
<1>2. ASSUME NEW y \in S PROVE x <= y
  <2>1. y \in Nat /\ x \in Nat /\ ~(<<y, x>> \in OpToRel(<, Nat))
    BY <1>1
  <2> QED BY <2>1 DEF OpToRel
<1> QED BY <1>1, <1>2 DEF Min

LEMMA FirstIn == ASSUME NEW fnames \in SUBSET File, fnames # {} PROVE First(fnames) \in fnames
<1> DEFINE I == {i \in DOMAIN Sorted : Sorted[i] \in fnames}
<1>1. I # {}
  BY FileAssumption DEF ToSet
<1>2. I \subseteq Nat
  BY FileAssumption, LenProperties
<1>3. Min(I) \in I
  BY <1>1, <1>2, MinIn
<1> QED BY <1>3 DEF First

LEMMA PrintErrorType ==
  ASSUME junit_errors \in Seq(Messages), NEW messages \in Seq(Messages), PrintError(messages)
  PROVE  junit_errors' \in Seq(Messages)
<1> DEFINE M == Messages
<1> HIDE DEF M
<1>1. <<>> \in Seq(M) /\ junit_errors \in Seq(M) /\ messages \in Seq(M)
  BY EmptySeq DEF M
<1>2. junit_errors' = junit_errors \o (IF args.output = "junit" THEN messages ELSE <<>>)
  BY DEF PrintError
<1>3. \A s, t \in Seq(M) : s \o t \in Seq(M)
  BY ConcatProperties
<1> QED BY <1>1, <1>2, <1>3 DEF M

LEMMA TypeStart == Init => TInv
<1> SUFFICES ASSUME Init PROVE TInv
  OBVIOUS
<1>1. PICK w \in Worlds : args = w[1] /\ tree = w[2] /\ marks = w[3]
  BY DEF Init
<1>2. Inputs
  BY <1>1, InputsAssumption DEF Inputs
<1>3. /\ filters \in Seq(Filter) /\ filters_backup \in Seq(Filter)
  BY InputsAssumption DEF Init
<1>4. \A S : <<>> \in Seq(S)
  BY EmptySeq
<1>5. TypeOK
  BY <1>3, <1>4 DEF Init, TypeOK, Counting, Running
<1> QED BY <1>2, <1>5 DEF TInv, FileInUse, Init

LEMMA TypeStep == TInv /\ [Next]_vars => TInv'
<1> SUFFICES ASSUME TInv, [Next]_vars PROVE TInv'
  OBVIOUS
<1>1. UNCHANGED inputs /\ Inputs
  BY InputsStay DEF TInv
<1>2. Inputs' /\ Messages' = Messages
  BY <1>1 DEF Inputs, inputs, Messages, OptionNames
<1> SUFFICES TypeOK' /\ FileInUse'
  BY <1>2 DEF TInv
<1> USE DEF TInv
<1>3. CASE ParseArguments
  <2>1. filters' \in Seq(Filter)
    BY <1>1, <1>3, InputsAssumption, ConcatProperties DEF ParseArguments, Inputs
  <2>2. filenames' \subseteq File
    <3>1. PICK named : filenames' = FilterExcludedFiles(named)
                       /\ named \in {args.files, ExpandDirectories(settings')}
      BY <1>3 DEF ParseArguments
    <3> QED BY <1>1, <3>1 DEF FilterExcludedFiles, ExpandDirectories, Inputs
  <2> QED BY <1>1, <1>2, <1>3, <2>1, <2>2 DEF ParseArguments, TypeOK, FileInUse, Inputs, counts, junit, history
<1>4. CASE ProcessFile
  <2>1. filenames' \subseteq File /\ file' \in File
    BY <1>4, FirstIn DEF ProcessFile, TypeOK
  <2>2. DirOf[file'] \in Dir
    BY <2>1, TreeAssumption
  <2>3. cfg_filters' \in Seq(Seq(Filter))
    BY <1>4, EmptySeq DEF ProcessFile
  <2> QED BY <1>2, <1>4, <2>1, <2>2, <2>3 DEF ProcessFile, TypeOK, FileInUse, junit, history
<1>5. CASE Config
  <2> DEFINE read == ReadFrom(at, base_name)
             up == read.end = "read" /\ read.keep_looking /\ at # Root
  <2>1. at \in Dir /\ cfg_filters \in Seq(Seq(Filter))
    BY <1>5 DEF Config, TypeOK
  <2>2. ReadTyped(read)
    BY <1>1, <2>1, ReadFromTyped DEF Inputs
  <2>3. /\ PrintError(read.messages) /\ cfg_filters' = read.filters
        /\ at' = (IF up THEN Parent[at] ELSE None)
        /\ phase' \in {"next", "died", "config"}
        /\ filters' \in {filters, filters_backup}
    BY <1>5, Zenon DEF Config
  <2> HIDE DEF read, up
  <2>4. junit_errors' \in Seq(Messages)
    BY <2>2, <2>3, PrintErrorType DEF ReadTyped, TypeOK
  <2>5. at' \in Dir \cup {None}
    <3>1. up => at # Root
      BY DEF up
    <3> QED BY <2>1, <2>3, <3>1, TreeAssumption
  <2>6. cfg_filters' \in Seq(Seq(Filter)) /\ filters' \in Seq(Filter)
    BY <2>2, <2>3 DEF ReadTyped, TypeOK
  <2>7. phase = "config" /\ UNCHANGED <<inputs, filenames, file, filters_backup, verbose_level, quiet,
                 counting, counts, status, junit_failures, report, history>>
    BY <1>5 DEF Config
  <2> QED BY <1>2, <2>3, <2>4, <2>5, <2>6, <2>7 DEF TypeOK, FileInUse, counts, history
<1>6. CASE ApplyFilters
  <2>1. filters' \in Seq(Filter)
    BY <1>6, CollectedType, ConcatProperties DEF ApplyFilters, TypeOK
  <2>2. phase = "config" /\ phase' \in {"open", "died"}
        /\ UNCHANGED <<inputs, filenames, file, config, filters_backup, verbose_level,
                 quiet, counting, counts, status, junit, history>>
    BY <1>6, Zenon DEF ApplyFilters
  <2> QED BY <1>2, <2>1, <2>2 DEF TypeOK, FileInUse, config, counts, junit, history
<1>7. CASE OpenFails
  <2>1. <<About(file, "unreadable")>> \in Seq(Messages)
    <3>1. About(file, "unreadable") \in Messages
      BY <1>7 DEF About, Messages, OpenFails, FileInUse
    <3> HIDE DEF About, Messages
    <3> QED BY <3>1
  <2>2. junit_errors' \in Seq(Messages)
    BY <1>7, <2>1, PrintErrorType DEF OpenFails, TypeOK
  <2> QED BY <1>2, <1>7, <2>2 DEF OpenFails, Restore, TypeOK, FileInUse, config, counts, history
<1>8. CASE Open
  <2>1. <<About(file, "extension")>> \in Seq(Messages) /\ <<>> \in Seq(Messages)
    <3>1. About(file, "extension") \in Messages
      BY <1>8 DEF About, Messages, Open, FileInUse
    <3> HIDE DEF About, Messages
    <3> QED BY <3>1
  <2>2. junit_errors' \in Seq(Messages)
    BY <1>8, <2>1, PrintErrorType, Zenon DEF Open, TypeOK
  <2>3. /\ phase = "open" /\ phase' \in {"hangs", "lint"} /\ linted' \in {linted \cup {file}, linted}
        /\ DOMAIN guards' = DOMAIN guards
        /\ UNCHANGED <<inputs, filenames, file, config, state, counts, status,
                 junit_failures, report, shown, announced>>
    BY <1>8 DEF Open
  <2> QED BY <1>2, <2>2, <2>3 DEF TypeOK, FileInUse, config, state, counts
<1>9. ASSUME NEW f \in Findings, Error(f) PROVE TypeOK' /\ FileInUse'
  <2>1. f.category \in Category /\ file \in File
    BY <1>9, InputsAssumption DEF Error, FileInUse
  <2>2. shown' \in Seq([file : File, category : Category])
    <3>1. [file |-> file, category |-> f.category] \in [file : File, category : Category]
      BY <2>1
    <3> QED BY <1>9, <3>1, AppendProperties DEF Error, TypeOK
  <2>3. junit_failures' \in Seq([of : File, what : Category])
    <3>1. About(file, f.category) \in [of : File, what : Category]
      BY <2>1 DEF About
    <3> QED BY <1>9, <3>1, AppendProperties DEF Error, TypeOK
  <2>4. error_count' \in Nat
    BY <1>9 DEF Error, TypeOK
  <2> QED BY <1>2, <1>9, <2>2, <2>3, <2>4 DEF Error, TypeOK, FileInUse, config, state
<1>10. CASE FileDone
  BY <1>2, <1>10 DEF FileDone, Restore, TypeOK, FileInUse, config, counts, junit
<1>11. CASE Exit
  BY <1>2, <1>11 DEF Exit, TypeOK, FileInUse, config, state, counts, history
<1>12. CASE UNCHANGED vars
  BY <1>2, <1>12 DEF vars, TypeOK, FileInUse, config, state, counts, junit, history
<1> QED BY <1>3, <1>4, <1>5, <1>6, <1>7, <1>8, <1>9, <1>10, <1>11, <1>12 DEF Next

(* Whatever the command line and the CPPLINT.cfg files say, the run keeps its   *)
(* types: in particular the exit status is 0 or 1, and every file that is       *)
(* opened, linted or announced is one of those to lint (cpplint.py:6872).        *)
THEOREM TypeCorrect == Spec => []TypeOK
<1>1. TInv => TypeOK
  BY DEF TInv
<1> QED BY <1>1, TypeStart, TypeStep, PTL DEF Spec

-----------------------------------------------------------------------------
(* The path upwards from a directory.                                        *)

Chain(p, d) ==
  /\ p \in Seq(Dir) /\ Len(p) \in Nat \ {0} /\ p[1] = d /\ p[Len(p)] = Root
  /\ \A i \in 1 .. Len(p) - 1 : p[i] # Root /\ p[i + 1] = Parent[p[i]]

LEMMA RootChain == Chain(<<Root>>, Root)
<1>1. <<Root>> \in Seq(Dir) /\ Len(<<Root>>) = 1 /\ <<Root>>[1] = Root
  BY TreeAssumption
<1> QED BY <1>1 DEF Chain

LEMMA LongerChain ==
  ASSUME NEW d \in Dir, d # Root, NEW p, Chain(p, Parent[d])
  PROVE  Chain(<<d>> \o p, d)
<1> DEFINE q == <<d>> \o p
           n == Len(p)
<1>1. /\ n \in Nat \ {0} /\ p \in Seq(Dir) /\ p[1] = Parent[d] /\ p[n] = Root
      /\ \A i \in 1 .. n - 1 : p[i] # Root /\ p[i + 1] = Parent[p[i]]
  BY DEF Chain
<1>2. <<d>> \in Seq(Dir) /\ Len(<<d>>) = 1 /\ <<d>>[1] = d
  OBVIOUS
<1>3. /\ q \in Seq(Dir) /\ Len(q) = n + 1 /\ q[1] = d
      /\ \A i \in 1 .. n : q[i + 1] = p[i]
  <2>1. /\ q \in Seq(Dir) /\ Len(q) = 1 + n
        /\ \A i \in 1 .. 1 + n : q[i] = IF i <= 1 THEN <<d>>[i] ELSE p[i - 1]
    BY <1>1, <1>2, ConcatProperties
  <2> HIDE DEF q, n
  <2>2. ASSUME NEW i \in 1 .. n PROVE q[i + 1] = p[i]
    <3>1. i + 1 \in 1 .. 1 + n /\ ~(i + 1 <= 1) /\ i + 1 - 1 = i
      BY <1>1
    <3> QED BY <2>1, <3>1
  <2> QED BY <1>1, <1>2, <2>1, <2>2
<1> HIDE DEF q, n
<1>4. q[n + 1] = Root
  BY <1>1, <1>3
<1>5. ASSUME NEW i \in 1 .. n PROVE q[i] # Root /\ q[i + 1] = Parent[q[i]]
  <2>1. CASE i = 1
    BY <1>1, <1>3, <2>1
  <2>2. CASE i # 1
    <3>1. i - 1 \in 1 .. n - 1 /\ i - 1 \in 1 .. n /\ i - 1 + 1 = i
      BY <1>1, <2>2
    <3>2. q[i] = p[i - 1] /\ q[i + 1] = p[i]
      BY <1>3, <3>1
    <3> QED BY <1>1, <3>1, <3>2
  <2> QED BY <2>1, <2>2
<1> QED BY <1>1, <1>3, <1>4, <1>5 DEF Chain, q

LEMMA OneChain ==
  ASSUME NEW d, NEW p, NEW q, Chain(p, d), Chain(q, d)
  PROVE  p = q
<1> DEFINE Agree(i) == i <= Len(p) /\ i <= Len(q) => p[i] = q[i]
           T == {i \in Nat : i = 0 \/ Agree(i)}
<1>1. /\ Len(p) \in Nat \ {0} /\ Len(q) \in Nat \ {0} /\ p[1] = d /\ q[1] = d
      /\ p \in Seq(Dir) /\ q \in Seq(Dir) /\ p[Len(p)] = Root /\ q[Len(q)] = Root
      /\ \A i \in 1 .. Len(p) - 1 : p[i] # Root /\ p[i + 1] = Parent[p[i]]
      /\ \A i \in 1 .. Len(q) - 1 : q[i] # Root /\ q[i + 1] = Parent[q[i]]
  BY DEF Chain
<1>2. 0 \in T
  OBVIOUS
<1>3. ASSUME NEW i \in Nat, i \in T PROVE i + 1 \in T
  <2>1. CASE i = 0
    BY <1>1, <2>1
  <2>2. CASE i # 0
    <3> SUFFICES ASSUME i + 1 <= Len(p), i + 1 <= Len(q) PROVE p[i + 1] = q[i + 1]
      OBVIOUS
    <3>1. i \in 1 .. Len(p) - 1 /\ i \in 1 .. Len(q) - 1 /\ p[i] = q[i]
      BY <1>1, <1>3, <2>2
    <3> QED BY <1>1, <3>1
  <2> QED BY <2>1, <2>2
<1> HIDE DEF T
<1>4. \A i \in Nat : i \in T
  BY <1>2, <1>3, Naturals
<1>5. \A i \in Nat \ {0} : i <= Len(p) /\ i <= Len(q) => p[i] = q[i]
  BY <1>4 DEF T
<1>6. ~(Len(p) < Len(q)) /\ ~(Len(q) < Len(p))
  <2>1. ASSUME Len(p) < Len(q) PROVE FALSE
    <3>0. Len(p) \in Nat \ {0} /\ Len(p) \in 1 .. Len(q) - 1 /\ Len(p) <= Len(p) /\ Len(p) <= Len(q)
      BY ONLY <1>1, <2>1
    <3>1. Len(p) \in 1 .. Len(q) - 1 /\ q[Len(p)] = p[Len(p)]
      BY <1>5, <3>0, Zenon
    <3> QED BY <1>1, <3>1
  <2>2. ASSUME Len(q) < Len(p) PROVE FALSE
    <3>0. Len(q) \in Nat \ {0} /\ Len(q) \in 1 .. Len(p) - 1 /\ Len(q) <= Len(p) /\ Len(q) <= Len(q)
      BY ONLY <1>1, <2>2
    <3>1. Len(q) \in 1 .. Len(p) - 1 /\ p[Len(q)] = q[Len(q)]
      BY <1>5, <3>0, Zenon
    <3> QED BY <1>1, <3>1
  <2> QED BY <2>1, <2>2
<1>7. Len(p) = Len(q)
  BY <1>1, <1>6
<1>8. \A i \in 1 .. Len(p) : p[i] = q[i]
  BY <1>1, <1>5, <1>7
<1> QED BY <1>1, <1>7, <1>8, SeqEqual

Ups(u) == u = [x \in Dir |-> IF x = Root THEN <<Root>> ELSE <<x>> \o u[Parent[x]]]

LEMMA ChainExists == \A d \in Dir : \E p : Chain(p, d)
<1> DEFINE D == {d \in Dir \ {Root} : ~ \E p : Chain(p, d)}
<1>1. ASSUME NEW d \in D PROVE Parent[d] \in D
  <2>1. d \in Dir /\ d # Root /\ Parent[d] \in Dir
    BY TreeAssumption
  <2>2. ~ \E p : Chain(p, Parent[d])
    BY <2>1, LongerChain
  <2>3. Parent[d] # Root
    BY <2>2, RootChain
  <2> QED BY <2>1, <2>2, <2>3
<1>2. D \in SUBSET (Dir \ {Root})
  OBVIOUS
<1> HIDE DEF D
<1>3. D = {}
  BY <1>1, <1>2, UpwardsAssumption
<1> QED BY <1>3, RootChain DEF D

LEMMA UpsExists == \E u : Ups(u)
<1> DEFINE u == [d \in Dir |-> CHOOSE p : Chain(p, d)]
<1>1. ASSUME NEW d \in Dir PROVE Chain(u[d], d)
  <2>1. u[d] = CHOOSE p : Chain(p, d)
    OBVIOUS
  <2> QED BY <2>1, ChainExists, Zenon
<1>2. u = [d \in Dir |-> u[d]]
  OBVIOUS
<1> HIDE DEF u
<1>3. \A d \in Dir : u[d] = IF d = Root THEN <<Root>> ELSE <<d>> \o u[Parent[d]]
  <2> TAKE d \in Dir
  <2>1. CASE d = Root
    BY <1>1, <2>1, RootChain, OneChain
  <2>2. CASE d # Root
    <3>1. Parent[d] \in Dir
      BY <2>2, TreeAssumption
    <3>2. Chain(<<d>> \o u[Parent[d]], d)
      BY <1>1, <2>2, <3>1, LongerChain
    <3>3. u[d] = <<d>> \o u[Parent[d]]
      BY <1>1, <3>2, OneChain
    <3> QED BY <2>2, <3>3
  <2> QED BY <2>1, <2>2
<1>4. Ups(u)
  BY <1>2, <1>3, Zenon DEF Ups
<1> QED BY <1>4

LEMMA PathChain == ASSUME NEW d \in Dir PROVE Chain(Path(d), d)
<1> DEFINE u == CHOOSE v : Ups(v)
<1>1. Path(d) = u[d]
  BY Zenon DEF Path, Ups
<1>2. Ups(u)
  BY UpsExists, Zenon
<1> HIDE DEF u
<1>3. \A x \in Dir : u[x] = IF x = Root THEN <<Root>> ELSE <<x>> \o u[Parent[x]]
  BY <1>2, Zenon DEF Ups
<1> DEFINE D == {x \in Dir \ {Root} : ~Chain(u[x], x)}
<1>4. Chain(u[Root], Root)
  BY <1>3, RootChain, TreeAssumption
<1>5. ASSUME NEW x \in D PROVE Parent[x] \in D
  <2>1. x \in Dir /\ x # Root /\ Parent[x] \in Dir /\ ~Chain(u[x], x)
    BY TreeAssumption
  <2>2. u[x] = <<x>> \o u[Parent[x]]
    BY <1>3, <2>1
  <2>3. ~Chain(u[Parent[x]], Parent[x])
    BY <2>1, <2>2, LongerChain
  <2> QED BY <1>4, <2>1, <2>3
<1>6. D \in SUBSET (Dir \ {Root})
  OBVIOUS
<1> HIDE DEF D
<1>7. D = {}
  BY <1>5, <1>6, UpwardsAssumption
<1> QED BY <1>1, <1>4, <1>7 DEF D

-----------------------------------------------------------------------------
(* Which filter decides.                                                     *)

Filtering(a, s, c) ==
  a = [i \in 0 .. Len(s) |-> IF i = 0 THEN FALSE
                             ELSE IF c \in Covers[s[i].of] THEN s[i].sign = "-" ELSE a[i - 1]]

(* Among the first filters, the last that concerns the category is negative.   *)
SilencedUpto(s, c, n) ==
  \E k \in 1 .. n : /\ c \in Covers[s[k].of] /\ s[k].sign = "-"
                    /\ \A j \in k + 1 .. n : c \notin Covers[s[j].of]

LEMMA SilencedByOne ==
  ASSUME NEW s, NEW c, NEW n \in Nat
  PROVE  SilencedUpto(s, c, n + 1) <=>
           IF c \in Covers[s[n + 1].of] THEN s[n + 1].sign = "-" ELSE SilencedUpto(s, c, n)
<1>1. ASSUME c \in Covers[s[n + 1].of], s[n + 1].sign = "-" PROVE SilencedUpto(s, c, n + 1)
  <2>1. n + 1 \in 1 .. n + 1 /\ \A j \in n + 1 + 1 .. n + 1 : FALSE
    OBVIOUS
  <2> QED BY <1>1, <2>1 DEF SilencedUpto
<1>2. ASSUME c \in Covers[s[n + 1].of], SilencedUpto(s, c, n + 1) PROVE s[n + 1].sign = "-"
  <2>1. PICK k \in 1 .. n + 1 : s[k].sign = "-" /\ \A j \in k + 1 .. n + 1 : c \notin Covers[s[j].of]
    BY <1>2 DEF SilencedUpto
  <2>2. k = n + 1
    <3>1. SUFFICES ASSUME k # n + 1 PROVE FALSE
      OBVIOUS
    <3>2. n + 1 \in k + 1 .. n + 1
      BY <3>1
    <3> QED BY <1>2, <2>1, <3>2
  <2> QED BY <2>1, <2>2
<1>3. ASSUME c \notin Covers[s[n + 1].of], SilencedUpto(s, c, n + 1) PROVE SilencedUpto(s, c, n)
  <2>1. PICK k \in 1 .. n + 1 : /\ c \in Covers[s[k].of] /\ s[k].sign = "-"
                                /\ \A j \in k + 1 .. n + 1 : c \notin Covers[s[j].of]
    BY <1>3 DEF SilencedUpto
  <2>2. k \in 1 .. n /\ \A j \in k + 1 .. n : j \in k + 1 .. n + 1
    BY <1>3, <2>1
  <2> QED BY <2>1, <2>2 DEF SilencedUpto
<1>4. ASSUME c \notin Covers[s[n + 1].of], SilencedUpto(s, c, n) PROVE SilencedUpto(s, c, n + 1)
  <2>1. PICK k \in 1 .. n : /\ c \in Covers[s[k].of] /\ s[k].sign = "-"
                            /\ \A j \in k + 1 .. n : c \notin Covers[s[j].of]
    BY <1>4 DEF SilencedUpto
  <2>2. k \in 1 .. n + 1 /\ \A j \in k + 1 .. n + 1 : j = n + 1 \/ j \in k + 1 .. n
    OBVIOUS
  <2>3. \A j \in k + 1 .. n + 1 : c \notin Covers[s[j].of]
    BY <1>4, <2>1, <2>2
  <2> QED BY <2>1, <2>2, <2>3 DEF SilencedUpto
<1> QED BY <1>1, <1>2, <1>3, <1>4

LEMMA FilteringExists == ASSUME NEW s, Len(s) \in Nat, NEW c PROVE \E a : Filtering(a, s, c)
<1> DEFINE a == [i \in 0 .. Len(s) |-> SilencedUpto(s, c, i)]
<1>1. \A i \in 0 .. Len(s) : a[i] = SilencedUpto(s, c, i)
  OBVIOUS
<1>2. a = [i \in 0 .. Len(s) |-> a[i]]
  OBVIOUS
<1> HIDE DEF a
<1>3. \A i \in 0 .. Len(s) : a[i] = (IF i = 0 THEN FALSE
         ELSE IF c \in Covers[s[i].of] THEN s[i].sign = "-" ELSE a[i - 1])
  <2> TAKE i \in 0 .. Len(s)
  <2>1. CASE i = 0
    <3>1. SilencedUpto(s, c, 0) = FALSE
      <4>1. ~SilencedUpto(s, c, 0)
        BY DEF SilencedUpto
      <4> QED BY <4>1, Zenon DEF SilencedUpto
    <3>2. a[i] = SilencedUpto(s, c, 0)
      BY <1>1, <2>1
    <3> HIDE DEF SilencedUpto
    <3> QED BY <2>1, <3>1, <3>2, Zenon
  <2>2. CASE i # 0
    <3>1. i - 1 \in Nat /\ i - 1 + 1 = i /\ i - 1 \in 0 .. Len(s)
      BY <2>2
    <3>2. SilencedUpto(s, c, i) <=>
            IF c \in Covers[s[i].of] THEN s[i].sign = "-" ELSE SilencedUpto(s, c, i - 1)
      BY <3>1, SilencedByOne
    <3>3. a[i - 1] = SilencedUpto(s, c, i - 1) /\ a[i] = SilencedUpto(s, c, i)
      BY <1>1, <3>1
    <3>4. SilencedUpto(s, c, i) \in BOOLEAN /\ SilencedUpto(s, c, i - 1) \in BOOLEAN
      BY DEF SilencedUpto
    <3> QED BY <2>2, <3>2, <3>3, <3>4
  <2> QED BY <2>1, <2>2
<1> QED BY <1>2, <1>3, Zenon DEF Filtering

LEMMA FilteredUpto ==
  ASSUME NEW s, Len(s) \in Nat, NEW c
  PROVE  Filtered(s, c) <=> SilencedUpto(s, c, Len(s))
<1> DEFINE a == CHOOSE b : Filtering(b, s, c)
           n == Len(s)
<1>1. Filtered(s, c) <=> a[n]
  BY Zenon DEF Filtered, Filtering
<1>2. Filtering(a, s, c)
  BY FilteringExists, Zenon
<1> HIDE DEF a, n
<1>3. \A i \in 0 .. n : a[i] = (IF i = 0 THEN FALSE
         ELSE IF c \in Covers[s[i].of] THEN s[i].sign = "-" ELSE a[i - 1])
  BY <1>2, Zenon DEF Filtering, n
<1> DEFINE T == {i \in Nat : i <= n => (a[i] <=> SilencedUpto(s, c, i))}
<1>4. 0 \in T
  <2>1. ~SilencedUpto(s, c, 0)
    BY DEF SilencedUpto
  <2>2. 0 \in 0 .. n
    BY DEF n
  <2>3. ~a[0]
    BY <1>3, <2>2, Zenon
  <2> QED BY <2>1, <2>3
<1>5. ASSUME NEW i \in Nat, i \in T PROVE i + 1 \in T
  <2> SUFFICES ASSUME i + 1 <= n PROVE a[i + 1] <=> SilencedUpto(s, c, i + 1)
    OBVIOUS
  <2>1. n \in Nat
    BY DEF n
  <2>2. i + 1 \in 0 .. n /\ i + 1 # 0 /\ i + 1 - 1 = i /\ (a[i] <=> SilencedUpto(s, c, i))
    BY <1>5, <2>1
  <2>3. a[i + 1] = IF c \in Covers[s[i + 1].of] THEN s[i + 1].sign = "-" ELSE a[i]
    <3> DEFINE j == i + 1
    <3>1. j \in 0 .. n /\ j # 0 /\ j - 1 = i
      BY <2>2
    <3> HIDE DEF j
    <3>2. a[j] = (IF j = 0 THEN FALSE
                  ELSE IF c \in Covers[s[j].of] THEN s[j].sign = "-" ELSE a[j - 1])
      BY <1>3, <3>1, Zenon
    <3>3. a[j] = (IF c \in Covers[s[j].of] THEN s[j].sign = "-" ELSE a[i])
      BY <3>1, <3>2, Zenon
    <3> QED BY <3>3, Zenon DEF j
  <2>4. SilencedUpto(s, c, i + 1) <=>
          IF c \in Covers[s[i + 1].of] THEN s[i + 1].sign = "-" ELSE SilencedUpto(s, c, i)
    BY SilencedByOne
  <2> QED BY <2>2, <2>3, <2>4
<1> HIDE DEF T
<1>6. n \in T
  <2>1. n \in Nat
    BY DEF n
  <2> QED BY <1>4, <1>5, <2>1, Naturals
<1>7. n \in Nat
  BY DEF n
<1> QED BY <1>1, <1>6, <1>7 DEF T, n

LEMMA FilteredIs ==
  ASSUME NEW s \in Seq(Filter), NEW c
  PROVE  Filtered(s, c) <=> Silences(s, c)
<1> DEFINE n == Len(s)
<1>1. n \in Nat /\ DOMAIN s = 1 .. n
  BY LenProperties
<1>2. Filtered(s, c) <=> SilencedUpto(s, c, n)
  BY <1>1, FilteredUpto
<1> HIDE DEF n
<1>3. ASSUME SilencedUpto(s, c, n) PROVE Silences(s, c)
  <2>1. PICK k \in 1 .. n : /\ c \in Covers[s[k].of] /\ s[k].sign = "-"
                            /\ \A j \in k + 1 .. n : c \notin Covers[s[j].of]
    BY <1>3 DEF SilencedUpto
  <2>2. k \in Concerning(s, c)
    BY <1>1, <2>1 DEF Concerning
  <2>3. ASSUME NEW j \in Concerning(s, c) PROVE j <= k
    <3>1. j \in 1 .. n /\ c \in Covers[s[j].of]
      BY <1>1 DEF Concerning
    <3>2. j \notin k + 1 .. n
      BY <2>1, <3>1
    <3> QED BY <1>1, <3>1, <3>2
  <2> QED BY <2>1, <2>2, <2>3 DEF Silences
<1>4. ASSUME Silences(s, c) PROVE SilencedUpto(s, c, n)
  <2>1. PICK k \in Concerning(s, c) : s[k].sign = "-" /\ \A j \in Concerning(s, c) : j <= k
    BY <1>4 DEF Silences
  <2>2. k \in 1 .. n /\ c \in Covers[s[k].of]
    BY <1>1 DEF Concerning
  <2>3. ASSUME NEW j \in k + 1 .. n, c \in Covers[s[j].of] PROVE FALSE
    <3>1. j \in 1 .. n /\ ~(j <= k)
      BY <1>1, <2>2
    <3>2. j \in Concerning(s, c)
      BY <1>1, <2>3, <3>1 DEF Concerning
    <3> QED BY <2>1, <3>1, <3>2
  <2> QED BY <2>1, <2>2, <2>3 DEF SilencedUpto
<1> QED BY <1>2, <1>3, <1>4

(* Of two sequences, one behind the other, the second decides if it can.        *)
Overrides(s, t, c) ==
  LET u == s \o t
  IN /\ Concerning(t, c) # {} =>
          Concerning(u, c) # {} /\ (Silences(u, c) <=> Silences(t, c))
     /\ Concerning(t, c) = {} =>
          (Concerning(u, c) = {} <=> Concerning(s, c) = {}) /\ (Silences(u, c) <=> Silences(s, c))

LEMMA LaterOverride ==
  ASSUME NEW s \in Seq(Filter), NEW t \in Seq(Filter), NEW c
  PROVE  Overrides(s, t, c)
<1> DEFINE u == s \o t
           m == Len(s)
           n == Len(t)
           S == Concerning(s, c)
           T == Concerning(t, c)
           U == Concerning(u, c)
           F == Filter
<1> HIDE DEF F
<1>1. /\ m \in Nat /\ n \in Nat /\ Len(u) = m + n /\ u \in Seq(F)
      /\ \A i \in 1 .. m + n : u[i] = IF i <= m THEN s[i] ELSE t[i - m]
  BY LenProperties, ConcatProperties DEF F
<1>2. DOMAIN s = 1 .. m /\ DOMAIN t = 1 .. n /\ DOMAIN u = 1 .. m + n
  BY <1>1, LenProperties DEF F
<1> HIDE DEF u, m, n
<1>3. \A i \in 1 .. m : u[i] = s[i]
  BY <1>1
<1>4. \A i \in 1 .. n : u[i + m] = t[i]
  <2> TAKE i \in 1 .. n
  <2>1. i + m \in 1 .. m + n /\ ~(i + m <= m) /\ i + m - m = i
    BY <1>1
  <2> QED BY <1>1, <2>1
<1>5. \A i \in 1 .. m : i \in S <=> i \in U
  BY <1>1, <1>2, <1>3 DEF Concerning
<1>6. \A i \in 1 .. n : i \in T <=> i + m \in U
  <2> TAKE i \in 1 .. n
  <2>1. i + m \in DOMAIN u /\ i \in DOMAIN t
    BY <1>1, <1>2
  <2> QED BY <1>4, <2>1 DEF Concerning
<1>7. S \subseteq 1 .. m /\ T \subseteq 1 .. n /\ U \subseteq 1 .. m + n
  BY <1>2 DEF Concerning
<1>8. \A i \in U : i \in S \/ (i - m \in T /\ i - m + m = i)
  <2> TAKE i \in U
  <2>1. i \in 1 .. m + n
    BY <1>7
  <2>2. CASE i <= m
    BY <1>1, <1>5, <2>1, <2>2
  <2>3. CASE ~(i <= m)
    <3>1. i - m \in 1 .. n /\ i - m + m = i
      BY <1>1, <2>1, <2>3
    <3> QED BY <1>6, <3>1
  <2> QED BY <2>2, <2>3
<1>9. /\ Silences(s, c) <=> \E k \in S : s[k].sign = "-" /\ \A j \in S : j <= k
      /\ Silences(t, c) <=> \E k \in T : t[k].sign = "-" /\ \A j \in T : j <= k
      /\ Silences(u, c) <=> \E k \in U : u[k].sign = "-" /\ \A j \in U : j <= k
  BY Zenon DEF Silences
<1> HIDE DEF S, T, U
<1>10. CASE T # {}
  <2>1. U # {}
    BY <1>6, <1>7, <1>10
  <2>2. ASSUME NEW k \in T, t[k].sign = "-", \A j \in T : j <= k
        PROVE  \E i \in U : u[i].sign = "-" /\ \A j \in U : j <= i
    <3>1. k \in 1 .. n /\ k + m \in U /\ u[k + m] = t[k]
      BY <1>4, <1>6, <1>7, <2>2
    <3>2. ASSUME NEW j \in U PROVE j <= k + m
      <4>1. CASE j \in S
        BY <1>1, <1>7, <3>1, <4>1
      <4>2. CASE j - m \in T /\ j - m + m = j
        <5>1. j - m <= k /\ j \in 1 .. m + n
          BY <1>7, <2>2, <4>2
        <5> QED BY <1>1, <3>1, <5>1
      <4> QED BY <1>8, <4>1, <4>2
    <3> QED BY <2>2, <3>1, <3>2
  <2>3. ASSUME NEW i \in U, u[i].sign = "-", \A j \in U : j <= i
        PROVE  \E k \in T : t[k].sign = "-" /\ \A j \in T : j <= k
    <3>1. PICK x \in T : TRUE
      BY <1>10
    <3>2. x \in 1 .. n /\ x + m <= i /\ i \in 1 .. m + n
      BY <1>6, <1>7, <2>3, <3>1
    <3>3. i \notin S
      BY <1>1, <1>7, <3>2
    <3>4. i - m \in T /\ i - m + m = i
      BY <1>8, <3>3
    <3>5. t[i - m] = u[i]
      BY <1>4, <1>7, <3>4
    <3>6. ASSUME NEW j \in T PROVE j <= i - m
      <4>1. j + m <= i /\ j \in 1 .. n
        BY <1>6, <1>7, <2>3
      <4> QED BY <1>1, <3>2, <4>1
    <3> QED BY <2>3, <3>4, <3>5, <3>6
  <2> QED BY <1>9, <1>10, <2>1, <2>2, <2>3 DEF Overrides, T, U, u
<1>11. CASE T = {}
  <2>1. S = U
    BY <1>5, <1>7, <1>8, <1>11
  <2>2. \A k \in S : u[k] = s[k]
    BY <1>3, <1>7
  <2>3. Silences(u, c) <=> Silences(s, c)
    BY <1>9, <2>1, <2>2
  <2> QED BY <1>11, <2>1, <2>3 DEF Overrides, S, T, U, u
<1> QED BY <1>10, <1>11

-----------------------------------------------------------------------------
(* What is collected upwards.                                                *)

Excludes(f, p) ==
  OptionAt(f, p).name = "exclude_files" /\ BaseAt(f, p[1]) \in OptionAt(f, p).matches

LinesUpTo(f, c, p) == {q \in FilterLines(f, c) : Nearer(q, p)}

(* The filters s decide about a category like the nearest of the lines.        *)
Decided(s, f, c, lines) ==
  \/ lines = {} /\ Concerning(s, c) = {}
  \/ \E p \in lines : /\ \A q \in lines : p = q \/ Nearer(p, q)
                      /\ Concerning(s, c) # {}
                      /\ Silences(s, c) <=> Silences(OptionAt(f, p).filters, c)

(* The lines before a place have been read: their filters are collected, and   *)
(* none excludes the file.                                                   *)
Got(collected, f, p) ==
  /\ \A c \in Category : Decided(Collected(collected), f, c, LinesUpTo(f, c, p))
  /\ \A q \in Places(f) : Nearer(q, p) => ~Excludes(f, q)

GotAll(collected, f) ==
  /\ \A c \in Category : Decided(Collected(collected), f, c, FilterLines(f, c))
  /\ ~Excluded(f)

At(f, i, dir, base) == i \in Consulted(f) /\ dir = PathTo(f)[i] /\ base = BaseAt(f, i)

OwnInv ==
  /\ phase = "config" /\ at # None =>
       \E i \in Consulted(file) : At(file, i, at, base_name) /\ Got(cfg_filters, file, <<i, 1>>)
  /\ phase = "config" /\ at = None => GotAll(cfg_filters, file)
  /\ phase \in {"open", "lint"} =>
       (\A c \in Category : Silences(filters, c) <=> Silenced(file, c)) /\ ~Excluded(file)
  /\ phase = "lint" /\ ExtOf[file] \in GetAllExtensions(settings) => file \in linted

LEMMA PathIs ==
  ASSUME NEW f \in File
  PROVE  /\ Len(PathTo(f)) \in Nat \ {0} /\ DOMAIN PathTo(f) = 1 .. Len(PathTo(f))
         /\ PathTo(f)[1] = DirOf[f] /\ PathTo(f)[Len(PathTo(f))] = Root
         /\ \A i \in DOMAIN PathTo(f) : PathTo(f)[i] \in Dir
         /\ \A i \in 1 .. Len(PathTo(f)) - 1 :
              PathTo(f)[i] # Root /\ PathTo(f)[i + 1] = Parent[PathTo(f)[i]]
<1> DEFINE p == PathTo(f)
<1>1. DirOf[f] \in Dir
  BY TreeAssumption
<1>2. Chain(p, DirOf[f])
  BY <1>1, PathChain DEF PathTo
<1> HIDE DEF p
<1>3. /\ DOMAIN p = 1 .. Len(p) /\ \A i \in 1 .. Len(p) : p[i] \in Dir
  BY <1>2, LenProperties, ElementOfSeq DEF Chain
<1> QED BY <1>2, <1>3 DEF Chain, p

(* A place is that of an option in a file that counts.                         *)
LEMMA PlacesAre ==
  ASSUME Inputs, NEW f \in File, NEW q
  PROVE  q \in Places(f) <=>
           /\ q = <<q[1], q[2]>> /\ q[1] \in Consulted(f)
           /\ q[2] \in 1 .. Len(Options(PathTo(f)[q[1]]))
<1>1. \A i \in Consulted(f) : i \in DOMAIN PathTo(f)
  BY DEF Consulted
<1>2. \A i \in Consulted(f) : DOMAIN Options(PathTo(f)[i]) = 1 .. Len(Options(PathTo(f)[i]))
  BY <1>1, PathIs, OptionsAre DEF Inputs
<1>3. q \in Places(f) <=> \E i \in Consulted(f) : q \in {i} \X DOMAIN Options(PathTo(f)[i])
  BY DEF Places
<1> QED BY <1>2, <1>3

LEMMA PlaceType ==
  ASSUME Inputs, NEW f \in File, NEW q \in Places(f)
  PROVE  q[1] \in Nat \ {0} /\ q[2] \in Nat \ {0} /\ q = <<q[1], q[2]>>
<1>1. /\ q = <<q[1], q[2]>> /\ q[1] \in Consulted(f)
      /\ q[2] \in 1 .. Len(Options(PathTo(f)[q[1]]))
  BY PlacesAre
<1>2. q[1] \in 1 .. Len(PathTo(f)) /\ Len(PathTo(f)) \in Nat
  BY <1>1, PathIs DEF Consulted
<1> QED BY <1>1, <1>2

(* One option further.                                                       *)
LEMMA OptionGot ==
  ASSUME Inputs, NEW f \in File, NEW i \in Consulted(f),
         NEW k \in 1 .. Len(Options(PathTo(f)[i])),
         NEW s \in Seq(Seq(Filter)), Got(s, f, <<i, k>>),
         NEW o, o = Options(PathTo(f)[i])[k],
         NEW t, t = IF o.name = "filter" THEN Append(s, o.filters) ELSE s,
         ~(o.name = "exclude_files" /\ BaseAt(f, i) \in o.matches)
  PROVE  Got(t, f, <<i, k + 1>>)
<1> DEFINE p == <<i, k>>
           p1 == <<i, k + 1>>
<1>1. p \in Places(f) /\ OptionAt(f, p) = o
  <2>1. p = <<p[1], p[2]>> /\ p[1] = i /\ p[2] = k
    OBVIOUS
  <2> HIDE DEF p
  <2> QED BY <2>1, PlacesAre DEF OptionAt
<1>2. i \in Nat /\ k \in Nat
  BY <1>1, PlaceType
<1>3. \A q \in Places(f) : Nearer(q, p1) <=> Nearer(q, p) \/ q = p
  <2> TAKE q \in Places(f)
  <2>1. q[1] \in Nat /\ q[2] \in Nat /\ q = <<q[1], q[2]>>
    BY PlaceType
  <2> QED BY <1>2, <2>1 DEF Nearer
<1>4. ~Nearer(p, p)
  BY <1>2 DEF Nearer
<1>5. ~Excludes(f, p)
  BY <1>1 DEF Excludes
<1>6. \A q \in Places(f) : Nearer(q, p1) => ~Excludes(f, q)
  BY <1>3, <1>5 DEF Got
<1>7. ASSUME NEW c \in Category PROVE Decided(Collected(t), f, c, LinesUpTo(f, c, p1))
  <2> DEFINE L == LinesUpTo(f, c, p)
             M == LinesUpTo(f, c, p1)
             C == Collected(s)
             D == Collected(t)
  <2>1. Decided(C, f, c, L)
    BY DEF Got
  <2>2. \A q \in FilterLines(f, c) : q \in Places(f)
    BY DEF FilterLines
  <2>3. p \in FilterLines(f, c) <=> o.name = "filter" /\ Concerning(o.filters, c) # {}
    BY <1>1 DEF FilterLines
  <2>4. M = IF p \in FilterLines(f, c) THEN L \cup {p} ELSE L
    BY <1>3, <2>2 DEF LinesUpTo
  <2>5. CASE o.name # "filter"
    <3>1. D = C /\ M = L
      BY <2>3, <2>4, <2>5
    <3> QED BY <2>1, <3>1
  <2>6. CASE o.name = "filter"
    <3>1. o.filters \in Seq(Filter)
      <4>1. PathTo(f)[i] \in Dir
        BY PathIs DEF Consulted
      <4> QED BY <2>6, <4>1, OptionsAre DEF Inputs
    <3>2. C \in Seq(Filter)
      BY CollectedType
    <3>3. D = o.filters \o C
      BY <2>6, <3>1, CollectedAppend
    <3>4. Overrides(o.filters, C, c)
      BY <3>1, <3>2, LaterOverride
    <3>5. /\ Concerning(C, c) # {} =>
               Concerning(D, c) # {} /\ (Silences(D, c) <=> Silences(C, c))
          /\ Concerning(C, c) = {} =>
               /\ Concerning(D, c) = {} <=> Concerning(o.filters, c) = {}
               /\ Silences(D, c) <=> Silences(o.filters, c)
      BY <3>3, <3>4 DEF Overrides
    <3>6. \A q \in L : Nearer(q, p)
      BY DEF LinesUpTo
    <3> HIDE DEF L, M, C, D, p
    <3>7. CASE L = {}
      <4>1. Concerning(C, c) = {}
        BY <2>1, <3>7 DEF Decided
      <4> SUFFICES Decided(D, f, c, M)
        BY DEF D, M
      <4>2. CASE Concerning(o.filters, c) = {}
        <5>1. M = {} /\ Concerning(D, c) = {}
          BY <2>3, <2>4, <3>5, <3>7, <4>1, <4>2
        <5> QED BY <5>1 DEF Decided
      <4>3. CASE Concerning(o.filters, c) # {}
        <5>1. M = {p}
          BY <2>3, <2>4, <2>6, <3>7, <4>3
        <5>2. Concerning(D, c) # {} /\ (Silences(D, c) <=> Silences(OptionAt(f, p).filters, c))
          BY <1>1, <3>5, <4>1, <4>3
        <5> QED BY <5>1, <5>2 DEF Decided
      <4> QED BY <4>2, <4>3
    <3>8. CASE L # {}
      <4>1. PICK q \in L : /\ \A r \in L : q = r \/ Nearer(q, r)
                           /\ Concerning(C, c) # {}
                           /\ Silences(C, c) <=> Silences(OptionAt(f, q).filters, c)
        BY <2>1, <3>8 DEF Decided
      <4>2. q \in M /\ \A r \in M : q = r \/ Nearer(q, r)
        BY <2>4, <3>6, <4>1
      <4>3. Concerning(D, c) # {} /\ (Silences(D, c) <=> Silences(OptionAt(f, q).filters, c))
        BY <3>5, <4>1
      <4>4. Decided(D, f, c, M)
        BY <4>2, <4>3 DEF Decided
      <4> QED BY <4>4 DEF D, M
    <3> QED BY <3>7, <3>8
  <2> QED BY <2>5, <2>6
<1> QED BY <1>6, <1>7 DEF Got

Kept(os, k) == \A j \in 1 .. k : os[j].name # "set noparent"

ReadSoFar(r, os, f, i, k) ==
  /\ ReadTyped(r)
  /\ r.end = "read" => /\ Got(r.filters, f, <<i, k + 1>>)
                       /\ r.keep_looking = Kept(os, k)

LEMMA KeptByOne ==
  ASSUME NEW os, NEW k \in Nat
  PROVE  Kept(os, k + 1) <=> Kept(os, k) /\ os[k + 1].name # "set noparent"
<1>1. \A j \in 1 .. k + 1 : j = k + 1 \/ j \in 1 .. k
  OBVIOUS
<1>2. k + 1 \in 1 .. k + 1 /\ \A j \in 1 .. k : j \in 1 .. k + 1
  OBVIOUS
<1> QED BY <1>1, <1>2 DEF Kept

(* An option further, whatever the file has said before.                       *)
LEMMA ReadSoFarStep ==
  ASSUME Inputs, NEW f \in File, NEW i \in Consulted(f), NEW dir \in Dir, NEW base,
         At(f, i, dir, base), NEW os, os = Options(dir), NEW k \in Nat, NEW j, j = k + 1,
         j \in 1 .. Len(os), NEW r, ReadSoFar(r, os, f, i, k),
         NEW n, n = IF r.end # "read" THEN r ELSE Option(r, os[j], dir, base)
  PROVE  ReadSoFar(n, os, f, i, j)
<1> DEFINE o == os[j]
<1>1. o.name \in OptionNames /\ (o.name = "filter" => o.filters \in Seq(Filter))
  BY OptionsAre DEF Inputs
<1>2. CASE r.end # "read"
  BY <1>2 DEF ReadSoFar
<1>3. CASE r.end = "read"
  <2>1. n = Option(r, o, dir, base)
    BY <1>3
  <2>2. ReadTyped(n)
    BY <1>1, <2>1, OptionTyped DEF ReadSoFar
  <2>3. Does(r, o, dir, base, n)
    BY <2>1, OptionDoes DEF ReadSoFar, ReadTyped
  <2> HIDE DEF o
  <2>4. r.filters \in Seq(Seq(Filter)) /\ Got(r.filters, f, <<i, j>>) /\ r.keep_looking = Kept(os, k)
    BY <1>3 DEF ReadSoFar, ReadTyped
  <2>5. ASSUME n.end = "read" PROVE Got(n.filters, f, <<i, j + 1>>)
    <3>1. ~(o.name = "exclude_files" /\ base \in o.matches)
      BY <2>3, <2>5 DEF Does
    <3>2. n.filters = IF o.name = "filter" THEN Append(r.filters, o.filters) ELSE r.filters
      BY <2>3 DEF Does
    <3>3. j \in 1 .. Len(Options(PathTo(f)[i])) /\ o = Options(PathTo(f)[i])[j]
          /\ base = BaseAt(f, i)
      BY DEF At, o
    <3> QED BY <2>4, <3>1, <3>2, <3>3, OptionGot
  <2>6. n.keep_looking = Kept(os, j)
    <3>1. Kept(os, j) <=> Kept(os, k) /\ o.name # "set noparent"
      BY KeptByOne DEF o
    <3>2. n.keep_looking = IF o.name = "set noparent" THEN FALSE ELSE r.keep_looking
      BY <2>3 DEF Does
    <3>3. CASE o.name = "set noparent"
      <4>1. Kept(os, j) = FALSE
        BY <3>1, <3>3, Zenon DEF Kept
      <4> QED BY <3>2, <3>3, <4>1, Zenon
    <3>4. CASE o.name # "set noparent"
      <4>1. Kept(os, j) = Kept(os, k)
        BY <3>1, <3>4, Zenon DEF Kept
      <4> QED BY <2>4, <3>2, <3>4, <4>1, Zenon
    <3> QED BY <3>3, <3>4
  <2> QED BY <2>2, <2>5, <2>6 DEF ReadSoFar
<1> QED BY <1>2, <1>3

LEMMA NotYetSoFar ==
  ASSUME NEW f, NEW i, NEW os, cfg_filters \in Seq(Seq(Filter)), Got(cfg_filters, f, <<i, 1>>)
  PROVE  ReadSoFar(NotYet, os, f, i, 0)
<1>1. ReadTyped(NotYet)
  BY EmptySeq DEF ReadTyped, Reading, NotYet
<1>2. NotYet.filters = cfg_filters /\ NotYet.keep_looking = TRUE
  BY DEF NotYet
<1>3. Kept(os, 0) = TRUE
  <2>1. Kept(os, 0) <=> TRUE
    BY DEF Kept
  <2> QED BY <2>1, Zenon DEF Kept
<1>4. 0 + 1 = 1
  OBVIOUS
<1>5. NotYet.keep_looking = Kept(os, 0)
  BY <1>2, <1>3, Zenon
<1> QED BY <1>1, <1>2, <1>4, <1>5 DEF ReadSoFar

(* A file further, from the first option to the last.                          *)
LEMMA ReadFromGot ==
  ASSUME Inputs, NEW f \in File, NEW i \in Consulted(f), NEW dir, NEW base, At(f, i, dir, base),
         cfg_filters \in Seq(Seq(Filter)), Got(cfg_filters, f, <<i, 1>>),
         NEW r, r = ReadFrom(dir, base), r.end = "read"
  PROVE  /\ Got(r.filters, f, <<i, Len(Options(dir)) + 1>>)
         /\ r.keep_looking = ~Stops(dir)
<1> DEFINE os == Options(dir)
           n  == Len(os)
<1>1. dir \in Dir /\ dir = PathTo(f)[i] /\ base = BaseAt(f, i)
  BY PathIs DEF At, Consulted
<1>2. /\ n \in Nat /\ DOMAIN os = 1 .. n /\ Configuration(tree[dir])
  BY <1>1, OptionsAre DEF Inputs
<1>3. CASE tree[dir].kind = "none"
  <2>1. r = NotYet /\ os = <<>> /\ n + 1 = 1
    BY <1>3, EmptySeq DEF ReadFrom, Options
  <2>2. Stops(dir) = FALSE
    <3>1. ~Stops(dir)
      BY <1>3, <2>1 DEF Stops, ToSet
    <3> QED BY <3>1, Zenon DEF Stops
  <2>3. r.filters = cfg_filters /\ r.keep_looking = TRUE
    BY <2>1 DEF NotYet
  <2> HIDE DEF n, os
  <2>4. Got(r.filters, f, <<i, n + 1>>)
    BY <2>1, <2>3
  <2> QED BY <2>2, <2>3, <2>4, Zenon DEF n, os
<1>4. CASE tree[dir].kind = "unreadable"
  <2>1. /\ r = [NotYet EXCEPT !.keep_looking = FALSE, !.messages = <<About(dir, "unreadable")>>]
        /\ os = <<>> /\ n + 1 = 1
    BY <1>4, EmptySeq DEF ReadFrom, Options
  <2>2. Stops(dir) = TRUE
    <3>1. Stops(dir)
      BY <1>4 DEF Stops
    <3> QED BY <3>1, Zenon DEF Stops
  <2>3. r.filters = cfg_filters /\ r.keep_looking = FALSE
    BY <2>1 DEF NotYet
  <2> HIDE DEF n, os
  <2>4. Got(r.filters, f, <<i, n + 1>>)
    BY <2>1, <2>3
  <2> QED BY <2>2, <2>3, <2>4, Zenon DEF n, os
<1>5. CASE tree[dir].kind \notin {"none", "unreadable"}
  <2>1. r = ReadOptions(os, NotYet, dir, base) /\ tree[dir].kind = "file"
    BY <1>2, <1>5 DEF ReadFrom, Options, Configuration
  <2>2. os = Options(dir)
    OBVIOUS
  <2> HIDE DEF os
  <2>3. PICK g : /\ g[0] = NotYet /\ r = g[n]
                 /\ \A k \in 1 .. n :
                      g[k] = IF g[k - 1].end # "read" THEN g[k - 1]
                             ELSE Option(g[k - 1], os[k], dir, base)
    BY <1>2, <2>1, ReadOptionsDoes
  <2> DEFINE T == {k \in Nat : k <= n => ReadSoFar(g[k], os, f, i, k)}
  <2>4. 0 \in T
    BY <2>3, NotYetSoFar
  <2>5. ASSUME NEW k \in Nat, k \in T PROVE k + 1 \in T
    <3> DEFINE j == k + 1
    <3> SUFFICES ASSUME j <= n PROVE ReadSoFar(g[j], os, f, i, j)
      OBVIOUS
    <3>1. j \in 1 .. n /\ j - 1 = k /\ ReadSoFar(g[k], os, f, i, k) /\ j = k + 1
      BY <1>2, <2>5
    <3> HIDE DEF j
    <3>2. g[j] = IF g[k].end # "read" THEN g[k] ELSE Option(g[k], os[j], dir, base)
      BY <2>3, <3>1
    <3> QED BY <1>1, <2>2, <3>1, <3>2, ReadSoFarStep
  <2> HIDE DEF T
  <2>6. n \in T
    BY <1>2, <2>4, <2>5, Naturals
  <2>7. ReadSoFar(r, os, f, i, n)
    BY <1>2, <2>3, <2>6 DEF T
  <2>8. Got(r.filters, f, <<i, n + 1>>) /\ r.keep_looking = Kept(os, n)
    BY <2>7 DEF ReadSoFar
  <2>9. Kept(os, n) <=> ~Stops(dir)
    BY <1>2, <2>1, <2>2 DEF Stops, ToSet, Kept
  <2>10. Kept(os, n) = ~Stops(dir)
    BY <2>9, Zenon DEF Kept
  <2> QED BY <2>8, <2>10, Zenon DEF os
<1> QED BY <1>3, <1>4, <1>5

(* Places that have the same lines before them.                                *)
LEMMA GotThere ==
  ASSUME NEW f, NEW s, NEW p, NEW q, Got(s, f, p),
         \A x \in Places(f) : Nearer(x, p) <=> Nearer(x, q)
  PROVE  Got(s, f, q)
<1>1. ASSUME NEW c \in Category PROVE LinesUpTo(f, c, p) = LinesUpTo(f, c, q)
  <2>1. \A x \in FilterLines(f, c) : x \in Places(f)
    BY DEF FilterLines
  <2> QED BY <2>1 DEF LinesUpTo
<1> QED BY <1>1 DEF Got

LEMMA ConsultedIs ==
  ASSUME NEW f \in File, NEW i
  PROVE  i \in Consulted(f) <=>
           i \in 1 .. Len(PathTo(f)) /\ \A j \in 1 .. i - 1 : ~Stops(PathTo(f)[j])
BY PathIs DEF Consulted

(* At the end of a file that is not the last to count.                          *)
LEMMA FurtherUp ==
  ASSUME Inputs, NEW f \in File, NEW i \in Consulted(f), NEW dir, NEW base, At(f, i, dir, base),
         NEW s, Got(s, f, <<i, Len(Options(dir)) + 1>>), ~Stops(dir), dir # Root
  PROVE  /\ i + 1 \in Consulted(f) /\ At(f, i + 1, Parent[dir], dir)
         /\ Got(s, f, <<i + 1, 1>>)
<1> DEFINE n == Len(Options(dir))
           p == PathTo(f)
           m == Len(p)
<1>1. /\ m \in Nat \ {0} /\ p[m] = Root
      /\ \A j \in 1 .. m - 1 : p[j + 1] = Parent[p[j]]
      /\ i \in 1 .. m /\ dir = p[i] /\ \A j \in 1 .. i - 1 : ~Stops(p[j])
  BY PathIs, ConsultedIs DEF At
<1>2. i \in 1 .. m - 1
  BY <1>1
<1>3. i + 1 \in Consulted(f)
  <2>1. \A j \in 1 .. i + 1 - 1 : j = i \/ j \in 1 .. i - 1
    BY <1>1
  <2>2. i + 1 \in 1 .. m
    BY <1>1, <1>2
  <2> QED BY <1>1, <2>1, <2>2, ConsultedIs
<1>4. At(f, i + 1, Parent[dir], dir)
  <2>1. i + 1 # 1 /\ i + 1 - 1 = i
    BY <1>2
  <2> QED BY <1>1, <1>2, <1>3, <2>1 DEF At, BaseAt
<1>5. \A x \in Places(f) : Nearer(x, <<i, n + 1>>) <=> Nearer(x, <<i + 1, 1>>)
  <2> TAKE x \in Places(f)
  <2>1. /\ x[1] \in Nat /\ x[2] \in Nat \ {0} /\ x[2] \in 1 .. Len(Options(p[x[1]]))
    BY PlaceType, PlacesAre
  <2>2. n \in Nat
    <3>1. p[i] \in Dir
      BY PathIs, <1>1
    <3> QED BY <1>1, <3>1, OptionsAre DEF Inputs
  <2>3. x[1] = i => x[2] \in 1 .. n
    BY <1>1, <2>1
  <2> HIDE DEF n
  <2> QED BY <1>1, <2>1, <2>2, <2>3 DEF Nearer
<1> QED BY <1>3, <1>4, <1>5, GotThere

(* At the end of the last file.                                               *)
LEMMA AllGot ==
  ASSUME Inputs, NEW f \in File, NEW i \in Consulted(f), NEW dir, NEW base, At(f, i, dir, base),
         NEW s, Got(s, f, <<i, Len(Options(dir)) + 1>>), Stops(dir) \/ dir = Root
  PROVE  GotAll(s, f)
<1> DEFINE n == Len(Options(dir))
           p == PathTo(f)
           m == Len(p)
<1>1. /\ m \in Nat \ {0}
      /\ \A j \in 1 .. m - 1 : p[j] # Root
      /\ i \in 1 .. m /\ dir = p[i]
  BY PathIs, ConsultedIs DEF At
<1>2. n \in Nat
  <2>1. p[i] \in Dir
    BY PathIs, <1>1
  <2> QED BY <1>1, <2>1, OptionsAre DEF Inputs
<1>3. ASSUME NEW j \in Consulted(f) PROVE j <= i
  <2> SUFFICES ASSUME i < j PROVE FALSE
    BY <1>1, ConsultedIs
  <2>1. j \in 1 .. m /\ \A k \in 1 .. j - 1 : ~Stops(p[k])
    BY ConsultedIs
  <2>2. i \in 1 .. j - 1 /\ i \in 1 .. m - 1
    BY <1>1, <2>1
  <2> QED BY <1>1, <2>1, <2>2
<1>4. ASSUME NEW x \in Places(f) PROVE Nearer(x, <<i, n + 1>>)
  <2>1. /\ x[1] \in Nat /\ x[2] \in Nat \ {0} /\ x[2] \in 1 .. Len(Options(p[x[1]]))
        /\ x[1] \in Consulted(f)
    BY PlaceType, PlacesAre
  <2>2. x[1] <= i
    BY <1>3, <2>1
  <2>3. x[1] = i => x[2] \in 1 .. n
    BY <1>1, <2>1
  <2> HIDE DEF n
  <2> QED BY <1>1, <1>2, <2>1, <2>2, <2>3 DEF Nearer
<1>5. ASSUME NEW c \in Category PROVE LinesUpTo(f, c, <<i, n + 1>>) = FilterLines(f, c)
  <2>1. \A x \in FilterLines(f, c) : x \in Places(f)
    BY DEF FilterLines
  <2> HIDE DEF n
  <2> QED BY <1>4, <2>1 DEF LinesUpTo
<1>6. ~Excluded(f)
  <2>1. \A x \in Places(f) : ~Excludes(f, x)
    BY <1>4 DEF Got
  <2> QED BY <2>1 DEF Excluded, Excludes
<1> QED BY <1>5, <1>6 DEF Got, GotAll

(* Before the first file.                                                     *)
LEMMA NothingGot ==
  ASSUME Inputs, NEW f \in File
  PROVE  /\ 1 \in Consulted(f) /\ At(f, 1, DirOf[f], f)
         /\ Got(<<>>, f, <<1, 1>>)
<1>1. /\ Len(PathTo(f)) \in Nat \ {0} /\ PathTo(f)[1] = DirOf[f]
  BY PathIs
<1>2. 1 \in Consulted(f)
  BY <1>1, ConsultedIs
<1>3. \A x \in Places(f) : ~Nearer(x, <<1, 1>>)
  <2> TAKE x \in Places(f)
  <2>1. x[1] \in Nat \ {0} /\ x[2] \in Nat \ {0}
    BY PlaceType
  <2> QED BY <2>1 DEF Nearer
<1>4. ASSUME NEW c \in Category PROVE LinesUpTo(f, c, <<1, 1>>) = {}
  <2>1. \A x \in FilterLines(f, c) : x \in Places(f)
    BY DEF FilterLines
  <2> QED BY <1>3, <2>1 DEF LinesUpTo
<1>5. \A c : Concerning(<<>>, c) = {}
  BY DEF Concerning
<1>6. Got(<<>>, f, <<1, 1>>)
  BY <1>3, <1>4, <1>5, CollectedNone DEF Got, Decided
<1> QED BY <1>1, <1>2, <1>6 DEF At, BaseAt

(* One of a set of places is before all others, if any is.                      *)
LEMMA NearestIs ==
  ASSUME Inputs, NEW f \in File, NEW lines \in SUBSET Places(f), NEW p \in lines,
         \A q \in lines : p = q \/ Nearer(p, q)
  PROVE  Nearest(lines) = p
<1>1. \A r \in lines : (\A q \in lines : r = q \/ Nearer(r, q)) => r = p
  <2> SUFFICES ASSUME NEW r \in lines, \A q \in lines : r = q \/ Nearer(r, q), r # p PROVE FALSE
    OBVIOUS
  <2>1. Nearer(r, p) /\ Nearer(p, r)
    OBVIOUS
  <2>2. p[1] \in Nat /\ p[2] \in Nat /\ r[1] \in Nat /\ r[2] \in Nat
    BY PlaceType
  <2> QED BY <2>1, <2>2 DEF Nearer
<1> QED BY <1>1 DEF Nearest

(* With all the lines collected, the common filters in front.                   *)
LEMMA OwnSilenced ==
  ASSUME Inputs, NEW f \in File, NEW s \in Seq(Seq(Filter)), GotAll(s, f), NEW c \in Category,
         NEW u, u = CommonFilters \o Collected(s)
  PROVE  Silences(u, c) <=> Silenced(f, c)
<1> DEFINE C == Collected(s)
           L == FilterLines(f, c)
<1>1. C \in Seq(Filter) /\ CommonFilters \in Seq(Filter)
  BY CollectedType, InputsAssumption, ConcatProperties DEF Inputs, CommonFilters
<1>2. Overrides(CommonFilters, C, c)
  BY <1>1, LaterOverride
<1>3. Decided(C, f, c, L)
  BY DEF GotAll
<1>4. L \subseteq Places(f)
  BY DEF FilterLines
<1> HIDE DEF C, L
<1>5. CASE L = {}
  <2>1. Concerning(C, c) = {}
    BY <1>3, <1>5 DEF Decided
  <2>2. Silences(u, c) <=> Silences(CommonFilters, c)
    BY <1>2, <2>1 DEF Overrides, C
  <2>3. Silenced(f, c) <=> Silences(CommonFilters, c)
    BY <1>5 DEF Silenced, L
  <2> QED BY <2>2, <2>3
<1>6. CASE L # {}
  <2>1. PICK p \in L : /\ \A q \in L : p = q \/ Nearer(p, q)
                       /\ Concerning(C, c) # {}
                       /\ Silences(C, c) <=> Silences(OptionAt(f, p).filters, c)
    BY <1>3, <1>6 DEF Decided
  <2>2. Nearest(L) = p
    BY <1>4, <2>1, NearestIs
  <2>3. Silences(u, c) <=> Silences(C, c)
    BY <1>2, <2>1 DEF Overrides, C
  <2>4. Silenced(f, c) <=> Silences(OptionAt(f, p).filters, c)
    BY <1>6, <2>2 DEF Silenced, L
  <2> QED BY <2>1, <2>3, <2>4
<1> QED BY <1>5, <1>6

(* What the command line and the CPPLINT.cfg files say stays.                    *)
LEMMA OptionsStay ==
  ASSUME tree' = tree, args' = args
  PROVE  /\ \A d : Options(d)' = Options(d)
         /\ \A d : Stops(d)' = Stops(d)
         /\ \A f : Consulted(f)' = Consulted(f)
         /\ \A f : Places(f)' = Places(f)
         /\ \A f, p : OptionAt(f, p)' = OptionAt(f, p)
<1>1. \A d : Options(d)' = Options(d)
  BY DEF Options
<1>2. \A d : Stops(d)' = Stops(d)
  <2>1. \A d : Stops(d)' <=> Stops(d)
    BY <1>1 DEF Stops
  <2> QED BY <2>1, Zenon DEF Stops
<1>3. \A f : Consulted(f)' = Consulted(f)
  BY <1>2 DEF Consulted
<1>4. \A f : Places(f)' = Places(f)
  BY <1>1, <1>3 DEF Places
<1>5. \A f, p : OptionAt(f, p)' = OptionAt(f, p)
  BY <1>1 DEF OptionAt
<1> QED BY <1>1, <1>2, <1>3, <1>4, <1>5

LEMMA GotStays ==
  ASSUME tree' = tree, args' = args
  PROVE  /\ \A f, i, dir, base : At(f, i, dir, base)' <=> At(f, i, dir, base)
         /\ \A s, f, p : Got(s, f, p)' <=> Got(s, f, p)
         /\ \A s, f : GotAll(s, f)' <=> GotAll(s, f)
         /\ \A f : Excluded(f)' <=> Excluded(f)
         /\ \A f, c : Silenced(f, c)' <=> Silenced(f, c)
<1>1. /\ \A f : Consulted(f)' = Consulted(f)
      /\ \A f : Places(f)' = Places(f)
      /\ \A f, p : OptionAt(f, p)' = OptionAt(f, p)
  BY OptionsStay
<1>2. \A f, c : FilterLines(f, c)' = FilterLines(f, c)
  BY <1>1 DEF FilterLines
<1>3. \A f, c, p : LinesUpTo(f, c, p)' = LinesUpTo(f, c, p)
  BY <1>2 DEF LinesUpTo
<1>4. \A s, f, c, lines : Decided(s, f, c, lines)' <=> Decided(s, f, c, lines)
  BY <1>1 DEF Decided
<1>5. \A f, p : Excludes(f, p)' <=> Excludes(f, p)
  BY <1>1 DEF Excludes
<1>6. \A f : Excluded(f)' <=> Excluded(f)
  BY <1>1 DEF Excluded
<1>7. \A f, i, dir, base : At(f, i, dir, base)' <=> At(f, i, dir, base)
  BY <1>1 DEF At
<1>8. \A s, f, p : Got(s, f, p)' <=> Got(s, f, p)
  BY <1>1, <1>3, <1>4, <1>5 DEF Got
<1>9. \A s, f : GotAll(s, f)' <=> GotAll(s, f)
  BY <1>2, <1>4, <1>6 DEF GotAll
<1>10. \A f, c : Silenced(f, c)' <=> Silenced(f, c)
  <2>1. CommonFilters' = CommonFilters
    BY DEF CommonFilters
  <2> QED BY <1>1, <1>2, <2>1 DEF Silenced
<1> QED BY <1>6, <1>7, <1>8, <1>9, <1>10

LEMMA OwnInvStart == Init => OwnInv
BY DEF Init, OwnInv

LEMMA ConfigOwn ==
  ASSUME TInv, OwnInv, Config, tree' = tree, args' = args
  PROVE  OwnInv'
<1> DEFINE read == ReadFrom(at, base_name)
           up == read.end = "read" /\ read.keep_looking /\ at # Root
<1>1. /\ phase = "config" /\ at # None /\ at \in Dir /\ file \in File /\ Inputs
      /\ cfg_filters \in Seq(Seq(Filter))
  BY DEF Config, TInv, TypeOK, FileInUse
<1>2. /\ cfg_filters' = read.filters /\ base_name' = (IF up THEN at ELSE base_name)
      /\ at' = (IF up THEN Parent[at] ELSE None)
      /\ phase' = (CASE read.end = "excluded" -> "next"
                     [] read.end = "usage"    -> "died"
                     [] OTHER                 -> "config")
      /\ file' = file
  BY Zenon DEF Config
<1>3. read.end \in {"read", "excluded", "usage"}
  <2>1. ReadTyped(read)
    BY <1>1, ReadFromTyped DEF Inputs
  <2> QED BY <2>1 DEF ReadTyped, Reading
<1>4. CASE read.end # "read"
  <2>1. phase' \in {"next", "died"}
    BY <1>2, <1>3, <1>4
  <2> QED BY <2>1 DEF OwnInv
<1>5. CASE read.end = "read"
  <2>1. phase' = "config"
    BY <1>2, <1>5
  <2>2. PICK i \in Consulted(file) : /\ At(file, i, at, base_name)
                                     /\ Got(cfg_filters, file, <<i, 1>>)
    BY <1>1 DEF OwnInv
  <2>3. /\ Got(read.filters, file, <<i, Len(Options(at)) + 1>>)
        /\ read.keep_looking = ~Stops(at)
    BY <1>1, <1>5, <2>2, ReadFromGot
  <2>4. up <=> ~Stops(at) /\ at # Root
    BY <1>5, <2>3
  <2> HIDE DEF up, read
  <2>5. CASE up
    <3>1. /\ i + 1 \in Consulted(file) /\ At(file, i + 1, Parent[at], at)
          /\ Got(cfg_filters', file, <<i + 1, 1>>)
      BY <1>1, <1>2, <2>2, <2>3, <2>4, <2>5, FurtherUp
    <3>2. at' = Parent[at] /\ base_name' = at
      BY <1>2, <2>5
    <3>3. at' # None
      BY <1>1, <2>4, <2>5, <3>2, TreeAssumption, NoneAssumption
    <3>4. /\ i + 1 \in Consulted(file)' /\ At(file, i + 1, at, base_name)'
          /\ Got(cfg_filters, file, <<i + 1, 1>>)'
      BY <1>2, <3>1, <3>2, GotStays, OptionsStay
    <3> QED BY <1>2, <2>1, <3>3, <3>4 DEF OwnInv
  <2>6. CASE ~up
    <3>1. GotAll(cfg_filters', file)
      BY <1>1, <1>2, <2>2, <2>3, <2>4, <2>6, AllGot
    <3>2. at' = None
      BY <1>2, <2>6
    <3> QED BY <1>2, <2>1, <3>1, <3>2, GotStays DEF OwnInv
  <2> QED BY <2>5, <2>6
<1> QED BY <1>4, <1>5

LEMMA OwnInvStep == TInv /\ FiltersKept /\ OwnInv /\ [Next]_vars => OwnInv'
<1> SUFFICES ASSUME TInv, FiltersKept, OwnInv, [Next]_vars PROVE OwnInv'
  OBVIOUS
<1>1. tree' = tree /\ args' = args
  BY InputsStay DEF inputs
<1>2. CASE phase' \notin {"config", "open", "lint"}
  BY <1>2 DEF OwnInv
<1>3. CASE ParseArguments
  BY <1>2, <1>3 DEF ParseArguments
<1>4. CASE ProcessFile
  <2>1. /\ phase' = "config" /\ file' \in File /\ at' = DirOf[file'] /\ base_name' = file'
        /\ cfg_filters' = <<>>
    BY <1>4, FirstIn DEF ProcessFile, TInv, TypeOK
  <2>2. at' # None
    BY <2>1, TreeAssumption, NoneAssumption
  <2>3. /\ 1 \in Consulted(file') /\ At(file', 1, at', base_name')
        /\ Got(cfg_filters', file', <<1, 1>>)
    BY <2>1, NothingGot DEF TInv
  <2>4. /\ 1 \in Consulted(file)' /\ At(file, 1, at, base_name)'
        /\ Got(cfg_filters, file, <<1, 1>>)'
    BY <1>1, <2>3, GotStays, OptionsStay
  <2> QED BY <2>1, <2>2, <2>4 DEF OwnInv
<1>5. CASE Config
  BY <1>1, <1>5, ConfigOwn
<1>6. CASE ApplyFilters
  <2>1. /\ phase = "config" /\ at = None /\ phase' \in {"open", "died"} /\ file' = file
        /\ filters' = filters \o Collected(cfg_filters)
    BY <1>6, Zenon DEF ApplyFilters
  <2>2. filters = CommonFilters /\ GotAll(cfg_filters, file) /\ file \in File
        /\ cfg_filters \in Seq(Seq(Filter)) /\ Inputs
    BY <2>1 DEF FiltersKept, OwnInv, TInv, TypeOK, FileInUse
  <2>3. \A c \in Category : Silences(filters', c) <=> Silenced(file, c)
    BY <2>1, <2>2, OwnSilenced
  <2>4. ~Excluded(file)
    BY <2>2 DEF GotAll
  <2>5. /\ \A c \in Category : Silences(filters, c)' <=> Silenced(file, c)'
        /\ ~Excluded(file)'
    BY <1>1, <2>1, <2>3, <2>4, GotStays
  <2> QED BY <2>1, <2>5 DEF OwnInv
<1>7. CASE OpenFails
  BY <1>2, <1>7 DEF OpenFails
<1>8. ASSUME phase \in {"open", "lint"}, phase' # "config", UNCHANGED <<filters, file, settings>>,
             phase' = "lint" /\ ExtOf[file] \in GetAllExtensions(settings) => file \in linted'
      PROVE  OwnInv'
  <2>1. /\ \A c \in Category : Silences(filters, c) <=> Silenced(file, c)
        /\ ~Excluded(file)
    BY <1>8 DEF OwnInv
  <2>2. /\ \A c \in Category : Silences(filters, c)' <=> Silenced(file, c)'
        /\ ~Excluded(file)'
    BY <1>1, <1>8, <2>1, GotStays
  <2>3. GetAllExtensions(settings)' = GetAllExtensions(settings)
    BY <1>8 DEF GetAllExtensions, GetHeaderExtensions
  <2> QED BY <1>8, <2>2, <2>3 DEF OwnInv
<1>9. CASE Open
  <2>1. phase = "open" /\ phase' \in {"hangs", "lint"} /\ UNCHANGED <<filters, file, settings>>
    BY <1>9 DEF Open, config, state
  <2>2. ExtOf[file] \in GetAllExtensions(settings) => file \in linted'
    BY <1>9 DEF Open
  <2> QED BY <1>8, <2>1, <2>2
<1>10. ASSUME NEW f \in Findings, Error(f) PROVE OwnInv'
  <2>1. phase = "lint" /\ phase' = "lint" /\ UNCHANGED <<filters, file, settings, linted>>
    BY <1>10 DEF Error, config, state
  <2> QED BY <1>8, <2>1 DEF OwnInv
<1>11. CASE FileDone
  BY <1>2, <1>11 DEF FileDone
<1>12. CASE Exit
  BY <1>2, <1>12 DEF Exit
<1>13. CASE UNCHANGED vars
  <2>1. UNCHANGED <<phase, at, file, base_name, cfg_filters, filters, settings, linted>>
    BY <1>13 DEF vars, config, state, history
  <2>2. CASE phase = "config" /\ at # None
    <3>1. PICK i \in Consulted(file) : /\ At(file, i, at, base_name)
                                       /\ Got(cfg_filters, file, <<i, 1>>)
      BY <2>2 DEF OwnInv
    <3>2. /\ i \in Consulted(file)' /\ At(file, i, at, base_name)'
          /\ Got(cfg_filters, file, <<i, 1>>)'
      BY <1>1, <2>1, <3>1, GotStays, OptionsStay
    <3> QED BY <2>1, <2>2, <3>2 DEF OwnInv
  <2>3. CASE phase = "config" /\ at = None
    BY <1>1, <2>1, <2>3, GotStays DEF OwnInv
  <2>4. CASE phase \in {"open", "lint"}
    BY <1>8, <2>1, <2>4 DEF OwnInv
  <2> QED BY <1>2, <2>1, <2>2, <2>3, <2>4
<1> QED BY <1>3, <1>4, <1>5, <1>6, <1>7, <1>9, <1>10, <1>11, <1>12, <1>13 DEF Next

(* What is reported is of files that were linted.                              *)
LEMMA UntouchedStep ==
  TInv /\ OwnInv /\ ExcludedUntouched /\ [Next]_vars => ExcludedUntouched'
<1> SUFFICES ASSUME TInv, OwnInv, ExcludedUntouched, [Next]_vars PROVE ExcludedUntouched'
  OBVIOUS
<1>1. tree' = tree /\ args' = args
  BY InputsStay DEF inputs
<1>2. CASE UNCHANGED <<linted, shown>>
  BY <1>1, <1>2, GotStays DEF ExcludedUntouched
<1>3. CASE Open
  <2>1. phase = "open" /\ linted' \in {linted, linted \cup {file}} /\ shown' = shown
    BY <1>3 DEF Open
  <2>2. ~Excluded(file)
    BY <2>1 DEF OwnInv
  <2> QED BY <1>1, <2>1, <2>2, GotStays DEF ExcludedUntouched
<1>4. ASSUME NEW f \in Findings, Error(f) PROVE ExcludedUntouched'
  <2> DEFINE e == [file |-> file, category |-> f.category]
             S == [file : File, category : Category]
  <2>1. /\ linted' = linted /\ shown' = Append(shown, e) /\ file \in linted
    BY <1>4 DEF Error, OwnInv
  <2>2. shown \in Seq(S) /\ e \in S
    BY <1>4, InputsAssumption DEF TInv, TypeOK, FileInUse, Error
  <2>3. e.file = file
    OBVIOUS
  <2> HIDE DEF e, S
  <2>4. /\ Len(shown) \in Nat /\ DOMAIN shown = 1 .. Len(shown) /\ shown'[Len(shown) + 1] = e
        /\ DOMAIN shown' = 1 .. Len(shown) + 1
        /\ \A i \in 1 .. Len(shown) : shown'[i] = shown[i]
    BY <2>1, <2>2, AppendProperties, LenProperties
  <2>5. ASSUME NEW i \in DOMAIN shown' PROVE shown'[i].file \in linted
    <3>1. i \in 1 .. Len(shown) \/ i = Len(shown) + 1
      BY <2>4
    <3> QED BY <2>1, <2>3, <2>4, <3>1 DEF ExcludedUntouched
  <2> QED BY <1>1, <2>1, <2>5, GotStays DEF ExcludedUntouched
<1> USE DEF history
<1>5. CASE ParseArguments
  BY <1>2, <1>5 DEF ParseArguments
<1>6. CASE ProcessFile
  BY <1>2, <1>6 DEF ProcessFile
<1>7. CASE Config
  BY <1>2, <1>7 DEF Config
<1>8. CASE ApplyFilters
  BY <1>2, <1>8 DEF ApplyFilters
<1>9. CASE OpenFails
  BY <1>2, <1>9 DEF OpenFails
<1>10. CASE FileDone
  BY <1>2, <1>10 DEF FileDone
<1>11. CASE Exit
  BY <1>2, <1>11 DEF Exit
<1>12. CASE UNCHANGED vars
  BY <1>2, <1>12 DEF vars
<1> QED BY <1>3, <1>4, <1>5, <1>6, <1>7, <1>8, <1>9, <1>10, <1>11, <1>12 DEF Next

(* Whatever files are linted, in whatever tree, with whatever CPPLINT.cfg files *)
(* in it: a file is linted with the filters of the CPPLINT.cfg files above it, *)
(* the nearest deciding, and those of the command line; one that they exclude  *)
(* is not linted; and the filters are restored after it (cpplint.py:6512).     *)
THEOREM ConfigurationIsOwn == Spec => []OwnConfiguration
<1>1. Init => FiltersKept /\ ExcludedUntouched
  BY DEF Init, FiltersKept, ExcludedUntouched
<1>2. TInv /\ OwnInv => OwnFilters
  <2> SUFFICES ASSUME TInv, OwnInv, phase = "lint", NEW c \in Category
               PROVE  Filtered(filters, c) <=> Silenced(file, c)
    BY DEF OwnFilters
  <2>1. Filtered(filters, c) <=> Silences(filters, c)
    BY FilteredIs DEF TInv, TypeOK
  <2> QED BY <2>1 DEF OwnInv
<1>3. FiltersKept => FiltersRestored
  BY DEF FiltersKept, FiltersRestored
<1> QED
  BY <1>1, <1>2, <1>3, TypeStart, TypeStep, FiltersKeptStep, OwnInvStart, OwnInvStep,
     UntouchedStep, PTL DEF Spec, OwnConfiguration

-----------------------------------------------------------------------------
(* The report.                                                               *)

(* The option that ends the reading of a file with "excluded" is one that      *)
(* excludes the file.                                                        *)
LEMMA ReadFromExcludes ==
  ASSUME Inputs, NEW f \in File, NEW i \in Consulted(f), NEW dir, NEW base, At(f, i, dir, base),
         NEW r, r = ReadFrom(dir, base), r.end = "excluded"
  PROVE  Excluded(f)
<1> DEFINE os == Options(dir)
           n  == Len(os)
<1>1. dir \in Dir /\ dir = PathTo(f)[i] /\ base = BaseAt(f, i)
  BY PathIs DEF At, Consulted
<1>2. /\ n \in Nat /\ DOMAIN os = 1 .. n /\ Configuration(tree[dir])
  BY <1>1, OptionsAre DEF Inputs
<1>3. Reading(NotYet) /\ NotYet.end = "read"
  BY DEF Reading, NotYet
<1>4. r = ReadOptions(os, NotYet, dir, base)
  <2>1. tree[dir].kind # "none"
    BY <1>3 DEF ReadFrom
  <2>2. tree[dir].kind # "unreadable"
    BY <1>3, <2>1 DEF ReadFrom, NotYet
  <2> QED  BY <1>2, <2>1, <2>2 DEF ReadFrom, Options, Configuration
<1>5. \A k \in 1 .. n : os[k].name = "exclude_files" /\ base \in os[k].matches => Excluded(f)
  <2> SUFFICES ASSUME NEW k \in 1 .. n, os[k].name = "exclude_files", base \in os[k].matches
               PROVE  Excluded(f)
    OBVIOUS
  <2> DEFINE p == <<i, k>>
  <2>1. p = <<p[1], p[2]>> /\ p[1] = i /\ p[2] = k
    OBVIOUS
  <2> HIDE DEF p
  <2>2. p \in Places(f) /\ OptionAt(f, p) = os[k]
    BY <1>1, <2>1, PlacesAre DEF OptionAt
  <2> QED  BY <1>1, <2>1, <2>2 DEF Excluded
<1> HIDE DEF os
<1>6. PICK g : /\ g[0] = NotYet /\ r = g[n]
               /\ \A k \in 1 .. n :
                    g[k] = IF g[k - 1].end # "read" THEN g[k - 1]
                           ELSE Option(g[k - 1], os[k], dir, base)
  BY <1>2, <1>4, ReadOptionsDoes
<1> DEFINE T == {k \in Nat : k <= n => Reading(g[k]) /\ (g[k].end = "excluded" => Excluded(f))}
<1>7. 0 \in T
  BY <1>3, <1>6
<1>8. ASSUME NEW k \in Nat, k \in T PROVE k + 1 \in T
  <2> DEFINE j == k + 1
  <2> SUFFICES ASSUME j <= n PROVE Reading(g[j]) /\ (g[j].end = "excluded" => Excluded(f))
    OBVIOUS
  <2>1. j \in 1 .. n /\ j - 1 = k /\ Reading(g[k]) /\ (g[k].end = "excluded" => Excluded(f))
    BY <1>2, <1>8
  <2> HIDE DEF j
  <2>2. g[j] = IF g[k].end # "read" THEN g[k] ELSE Option(g[k], os[j], dir, base)
    BY <1>6, <2>1
  <2>3. CASE g[k].end # "read"
    BY <2>1, <2>2, <2>3
  <2>4. CASE g[k].end = "read"
    <3>1. Does(g[k], os[j], dir, base, g[j])
      BY <2>1, <2>2, <2>4, OptionDoes
    <3> QED  BY <1>5, <2>1, <2>4, <3>1 DEF Does
  <2> QED  BY <2>3, <2>4
<1> HIDE DEF T
<1>9. n \in T
  BY <1>2, <1>7, <1>8, Naturals
<1> QED  BY <1>2, <1>6, <1>9 DEF T

(* Each file asked for is still to be linted, is being, has been, is excluded,  *)
(* or has been told of.                                                      *)
Told(f) ==
  \/ f \in filenames \/ f \in linted \/ Excluded(f) \/ junit_errors # <<>>
  \/ f = file /\ phase \in {"config", "open", "lint", "hangs"}

Mirrors(failures, s) ==
  /\ IsSeq(failures) /\ IsSeq(s) /\ Len(failures) = Len(s)
  /\ \A i \in 1 .. Len(s) : failures[i] = About(s[i].file, s[i].category)

RInv ==
  /\ IsSeq(junit_errors)
  /\ args.output = "junit" =>
       /\ Mirrors(junit_failures, shown)
       /\ phase \notin {"args", "died"} => \A f \in AskedFor : Told(f)
       /\ phase = "lint" => file \in linted \/ junit_errors # <<>>
       /\ phase = "done" => /\ report = FormatJUnitXML(junit_errors, junit_failures)
                            /\ filenames = {}

LEMMA PrintedMore ==
  ASSUME NEW messages, IsSeq(junit_errors), IsSeq(messages), PrintError(messages)
  PROVE  /\ IsSeq(junit_errors')
         /\ junit_errors # <<>> => junit_errors' # <<>>
         /\ args.output = "junit" /\ messages # <<>> => junit_errors' # <<>>
<1> DEFINE s == junit_errors
           t == IF args.output = "junit" THEN messages ELSE <<>>
           E == {s[i] : i \in DOMAIN s} \cup {t[i] : i \in DOMAIN t}
<1>1. s \in Seq(E) /\ t \in Seq(E)
  <2>1. IsSeq(t)
    BY EmptySeq DEF IsSeq
  <2>2. s \in Seq({s[i] : i \in DOMAIN s}) /\ t \in Seq({t[i] : i \in DOMAIN t})
    BY <2>1 DEF IsSeq
  <2> QED  BY <2>2, SeqMonotonic
<1>2. junit_errors' = s \o t
  BY DEF PrintError
<1> HIDE DEF E
<1>3. /\ s \o t \in Seq(E) /\ Len(s \o t) = Len(s) + Len(t) /\ Len(s) \in Nat /\ Len(t) \in Nat
      /\ (s = <<>> <=> Len(s) = 0) /\ (t = <<>> <=> Len(t) = 0)
  BY <1>1, ConcatProperties, LenProperties, EmptySeq
<1> DEFINE u == s \o t
<1>4. u = <<>> => Len(u) = 0
  BY EmptySeq
<1>5. IsSeq(u)
  BY <1>3, SeqOfItself
<1> QED  BY <1>2, <1>3, <1>4, <1>5

LEMMA OneIsSeq == ASSUME NEW x PROVE IsSeq(<<x>>) /\ <<x>> # <<>>
<1>1. <<x>> \in Seq({x}) /\ Len(<<x>>) = 1
  OBVIOUS
<1> QED  BY <1>1, SeqOfItself, EmptySeq

LEMMA MirrorsAppend ==
  ASSUME NEW s, NEW t, Mirrors(t, s), NEW e, NEW a, a = About(e.file, e.category)
  PROVE  Mirrors(Append(t, a), Append(s, e))
<1> DEFINE n == Len(s)
           u == Append(s, e)
           v == Append(t, a)
<1>1. /\ IsSeq(s) /\ IsSeq(t) /\ Len(t) = n
      /\ \A i \in 1 .. n : t[i] = About(s[i].file, s[i].category)
  BY DEF Mirrors
<1>2. /\ n \in Nat /\ IsSeq(u) /\ Len(u) = n + 1 /\ u[n + 1] = e /\ \A i \in 1 .. n : u[i] = s[i]
      /\ IsSeq(v) /\ Len(v) = n + 1 /\ v[n + 1] = a /\ \A i \in 1 .. n : v[i] = t[i]
  BY <1>1, AppendIs, SeqIs
<1> HIDE DEF u, v, n
<1>3. ASSUME NEW i \in 1 .. n + 1 PROVE v[i] = About(u[i].file, u[i].category)
  <2>1. i = n + 1 \/ i \in 1 .. n
    BY <1>2
  <2> QED  BY <1>1, <1>2, <2>1
<1> QED  BY <1>2, <1>3 DEF Mirrors, u, v

LEMMA AskedStays ==
  ASSUME tree' = tree, args' = args
  PROVE  AskedFor' = AskedFor /\ \A f : Excluded(f)' <=> Excluded(f)
<1>1. \A S : FilterExcludedFiles(S)' = FilterExcludedFiles(S)
  BY DEF FilterExcludedFiles
<1>2. \A s : ExpandDirectories(s)' = ExpandDirectories(s)
  BY DEF ExpandDirectories
<1> QED  BY <1>1, <1>2, GotStays DEF AskedFor

(* A file is out of the hands of the run with an error, a message or a place    *)
(* among those linted, or because it is excluded.                            *)
LEMMA ReportStep == TInv /\ OwnInv /\ RInv /\ [Next]_vars => RInv'
<1> SUFFICES ASSUME TInv, OwnInv, RInv, [Next]_vars PROVE RInv'
  OBVIOUS
<1>1. tree' = tree /\ args' = args
  BY InputsStay DEF inputs
<1>2. AskedFor' = AskedFor /\ \A f : Excluded(f)' <=> Excluded(f)
  BY <1>1, AskedStays
<1>3. ASSUME IsSeq(junit_errors'), shown' = shown, junit_failures' = junit_failures,
             args.output = "junit" =>
               /\ phase' \notin {"args", "died"} => \A f \in AskedFor : Told(f)'
               /\ phase' = "lint" => file' \in linted' \/ junit_errors' # <<>>
               /\ phase' = "done" => /\ report' = FormatJUnitXML(junit_errors', junit_failures')
                                     /\ filenames' = {}
      PROVE  RInv'
  BY <1>1, <1>2, <1>3 DEF RInv
(* The usual case: no file changes hands, and messages only come.              *)
<1>4. ASSUME shown' = shown, junit_failures' = junit_failures, IsSeq(junit_errors'),
             junit_errors # <<>> => junit_errors' # <<>>, phase' # "done",
             phase \notin {"args", "died"},
             args.output = "junit" =>
               /\ \A f \in AskedFor : Told(f) => Told(f)' \/ phase' = "died"
               /\ phase' = "lint" => file' \in linted' \/ junit_errors' # <<>>
      PROVE  RInv'
  BY <1>3, <1>4 DEF RInv
<1>5. CASE ParseArguments
  <2>1. /\ phase' \in {"next", "died"} /\ UNCHANGED <<junit_errors, junit_failures, shown>>
        /\ filenames' = AskedFor
    <3>1. GetAllExtensions(settings') =
            GetAllExtensions([extensions |-> args.extensions, headers |-> args.headers])
      BY <1>5 DEF ParseArguments, DefaultSettings, GetAllExtensions, GetHeaderExtensions
    <3>2. ExpandDirectories(settings') =
            ExpandDirectories([extensions |-> args.extensions, headers |-> args.headers])
      BY <3>1 DEF ExpandDirectories
    <3> QED  BY <1>5, <3>2 DEF ParseArguments, AskedFor, junit, history
  <2>2. \A f \in AskedFor : Told(f)'
    BY <2>1 DEF Told
  <2> QED  BY <1>3, <2>1, <2>2 DEF RInv
<1>6. CASE ProcessFile
  <2>1. /\ phase = "next" /\ phase' = "config" /\ filenames' = filenames \ {file'}
        /\ UNCHANGED <<junit_errors, junit_failures, shown, linted>>
    BY <1>6 DEF ProcessFile, junit, history
  <2>2. \A f : Told(f) => Told(f)'
    BY <1>2, <2>1 DEF Told
  <2> QED  BY <1>4, <2>1, <2>2 DEF RInv
<1>7. CASE Config
  <2> DEFINE read == ReadFrom(at, base_name)
  <2>1. /\ phase = "config" /\ at # None /\ PrintError(read.messages)
        /\ phase' = (CASE read.end = "excluded" -> "next"
                       [] read.end = "usage"    -> "died"
                       [] OTHER                 -> "config")
        /\ UNCHANGED <<file, filenames, junit_failures, shown, linted>>
    BY <1>7, Zenon DEF Config, history
  <2>2. at \in Dir /\ file \in File /\ Inputs /\ cfg_filters \in Seq(Seq(Filter))
    BY <2>1 DEF TInv, TypeOK, FileInUse
  <2>3. ReadTyped(read)
    BY <2>1, <2>2, ReadFromTyped DEF Inputs
  <2>4. IsSeq(junit_errors') /\ (junit_errors # <<>> => junit_errors' # <<>>)
    <3>1. IsSeq(read.messages)
      BY <2>3, SeqOfItself DEF ReadTyped
    <3> QED  BY <2>1, <3>1, PrintedMore DEF RInv
  <2>5. read.end = "excluded" => Excluded(file)
    <3>1. PICK i \in Consulted(file) : At(file, i, at, base_name)
      BY <2>1 DEF OwnInv
    <3> QED  BY <2>2, <3>1, ReadFromExcludes
  <2> HIDE DEF read
  <2>6. phase' \in {"next", "died", "config"} /\ (phase' = "next" => read.end = "excluded")
    BY <2>1
  <2>7. \A f : Told(f) => Told(f)' \/ phase' = "died"
    BY <1>2, <2>1, <2>4, <2>5, <2>6 DEF Told
  <2> QED  BY <1>4, <2>1, <2>4, <2>6, <2>7
<1>8. CASE ApplyFilters
  <2>1. /\ phase = "config" /\ phase' \in {"open", "died"}
        /\ UNCHANGED <<file, filenames, junit_errors, junit_failures, shown, linted>>
    BY <1>8 DEF ApplyFilters, junit, history
  <2>2. \A f : Told(f) => Told(f)' \/ phase' = "died"
    BY <1>2, <2>1 DEF Told
  <2> QED  BY <1>4, <2>1, <2>2 DEF RInv
<1>9. CASE OpenFails
  <2>1. /\ phase = "open" /\ phase' = "next" /\ PrintError(<<About(file, "unreadable")>>)
        /\ UNCHANGED <<file, filenames, junit_failures, shown, linted>>
    BY <1>9 DEF OpenFails, history
  <2>2. IsSeq(<<About(file, "unreadable")>>) /\ <<About(file, "unreadable")>> # <<>>
    BY OneIsSeq
  <2>3. /\ IsSeq(junit_errors') /\ (junit_errors # <<>> => junit_errors' # <<>>)
        /\ args.output = "junit" => junit_errors' # <<>>
    BY <2>1, <2>2, PrintedMore DEF RInv
  <2>4. args.output = "junit" => \A f : Told(f)'
    BY <2>3 DEF Told
  <2> QED  BY <1>4, <2>1, <2>3, <2>4
<1>10. CASE Open
  <2> DEFINE valid == ExtOf[file] \in GetAllExtensions(settings)
  <2>1. /\ phase = "open" /\ phase' \in {"hangs", "lint"}
        /\ PrintError(IF valid THEN <<>> ELSE <<About(file, "extension")>>)
        /\ linted' = (IF valid THEN linted \cup {file} ELSE linted)
        /\ UNCHANGED <<file, filenames, junit_failures, shown>>
    BY <1>10 DEF Open
  <2> HIDE DEF valid
  <2>2. IsSeq(<<About(file, "extension")>>) /\ <<About(file, "extension")>> # <<>> /\ IsSeq(<<>>)
    BY OneIsSeq, EmptySeq DEF IsSeq
  <2>3. /\ IsSeq(junit_errors') /\ (junit_errors # <<>> => junit_errors' # <<>>)
        /\ args.output = "junit" /\ ~valid => junit_errors' # <<>>
    <3> DEFINE messages == IF valid THEN <<>> ELSE <<About(file, "extension")>>
    <3>1. IsSeq(messages) /\ (~valid => messages # <<>>) /\ PrintError(messages)
      BY <2>1, <2>2
    <3> HIDE DEF messages
    <3> QED  BY <3>1, PrintedMore DEF RInv
  <2>4. \A f : Told(f) => Told(f)'
    BY <1>2, <2>1, <2>3 DEF Told
  <2>5. args.output = "junit" => file' \in linted' \/ junit_errors' # <<>>
    BY <2>1, <2>3
  <2> QED  BY <1>4, <2>1, <2>3, <2>4, <2>5
<1>11. ASSUME NEW f \in Findings, Error(f) PROVE RInv'
  <2> DEFINE e == [file |-> file, category |-> f.category]
             a == About(file, f.category)
  <2>1. /\ phase = "lint" /\ phase' = "lint" /\ UNCHANGED <<file, filenames, junit_errors, linted>>
        /\ shown' = Append(shown, e)
        /\ junit_failures' = IF args.output = "junit" THEN Append(junit_failures, a) ELSE junit_failures
    BY <1>11 DEF Error
  <2>2. a = About(e.file, e.category)
    OBVIOUS
  <2> HIDE DEF e, a
  <2>3. args.output = "junit" => Mirrors(junit_failures', shown')
    <3> HAVE args.output = "junit"
    <3>1. Mirrors(junit_failures, shown)
      BY DEF RInv
    <3> QED  BY <2>1, <2>2, <3>1, MirrorsAppend
  <2>4. \A g : Told(g) => Told(g)'
    BY <1>2, <2>1 DEF Told
  <2> QED  BY <1>1, <1>2, <2>1, <2>3, <2>4 DEF RInv
<1>12. CASE FileDone
  <2>1. /\ phase = "lint" /\ phase' = "next"
        /\ UNCHANGED <<file, filenames, junit_errors, junit_failures, shown, linted>>
    BY <1>12 DEF FileDone, junit
  <2>2. args.output = "junit" => \A f : Told(f) => Told(f)'
    BY <1>2, <2>1 DEF Told, RInv
  <2> QED  BY <1>4, <2>1, <2>2 DEF RInv
<1>13. CASE Exit
  <2>1. /\ phase = "next" /\ phase' = "done" /\ filenames = {}
        /\ args.output = "junit" => report' = FormatJUnitXML(junit_errors, junit_failures)
        /\ UNCHANGED <<file, filenames, junit_errors, junit_failures, shown, linted>>
    BY <1>13 DEF Exit, WriteReport, history
  <2>2. \A f : Told(f) => Told(f)'
    BY <1>2, <2>1 DEF Told
  <2> QED  BY <1>3, <2>1, <2>2 DEF RInv
<1>14. CASE UNCHANGED vars
  <2>1. UNCHANGED <<phase, file, filenames, junit_errors, junit_failures, report, shown, linted>>
    BY <1>14 DEF vars, junit, history
  <2>2. \A f : Told(f) => Told(f)'
    BY <1>2, <2>1 DEF Told
  <2> QED  BY <1>3, <2>1, <2>2 DEF RInv
<1> QED
  BY <1>5, <1>6, <1>7, <1>8, <1>9, <1>10, <1>11, <1>12, <1>13, <1>14 DEF Next

-----------------------------------------------------------------------------
(* The report, from what was kept.                                            *)

LEMMA ReportStart == Init => RInv
<1> SUFFICES ASSUME Init PROVE RInv
  OBVIOUS
<1>1. IsSeq(<<>>) /\ Len(<<>>) = 0
  BY EmptySeq DEF IsSeq
<1>2. junit_errors = <<>> /\ junit_failures = <<>> /\ shown = <<>> /\ phase = "args"
  BY DEF Init
<1>3. Mirrors(junit_failures, shown)
  BY <1>1, <1>2 DEF Mirrors
<1> QED  BY <1>1, <1>2, <1>3 DEF RInv

More(found, e, f) == IF e.file = f THEN Append(found, e.category) ELSE found

(* What was found in a file, up to each error.                                *)
Finding(g, s, f) ==
  g = [k \in 0 .. Len(s) |-> IF k = 0 THEN <<>> ELSE More(g[k - 1], s[k], f)]

LEMMA FindingExists == ASSUME NEW s, Len(s) \in Nat, NEW f PROVE \E g : Finding(g, s, f)
<1> DEFINE n == Len(s)
           Upto(m, g) == g[0] = <<>> /\ \A k \in 1 .. n : k <= m => g[k] = More(g[k - 1], s[k], f)
           T == {m \in Nat : \E g : Upto(m, g)}
<1>1. 0 \in T
  <2>1. Upto(0, [k \in 0 .. n |-> <<>>])
    OBVIOUS
  <2> HIDE DEF Upto
  <2> QED BY <2>1
<1>2. ASSUME NEW m \in Nat, m \in T PROVE m + 1 \in T
  <2>1. PICK g : Upto(m, g)
    BY <1>2
  <2> DEFINE h == [k \in 0 .. n |-> IF k = m + 1 THEN More(g[k - 1], s[k], f) ELSE g[k]]
  <2>2. \A k \in 0 .. n : h[k] = IF k = m + 1 THEN More(g[k - 1], s[k], f) ELSE g[k]
    OBVIOUS
  <2> HIDE DEF h
  <2>3. h[0] = <<>>
    BY <2>1, <2>2
  <2>4. ASSUME NEW k \in 1 .. n, k <= m + 1 PROVE h[k] = More(h[k - 1], s[k], f)
    <3>1. k - 1 \in 0 .. n /\ k - 1 # m + 1 /\ k \in 0 .. n
      BY <2>4
    <3>2. h[k - 1] = g[k - 1]
      BY <2>2, <3>1
    <3>3. h[k] = More(g[k - 1], s[k], f)
      BY <2>1, <2>2, <2>4, <3>1
    <3> QED BY <3>2, <3>3
  <2>5. Upto(m + 1, h)
    BY <2>3, <2>4
  <2> HIDE DEF Upto
  <2> QED BY <2>5
<1> HIDE DEF T
<1>3. n \in T
  BY <1>1, <1>2, Naturals
<1>4. PICK g : Upto(n, g)
  BY <1>3 DEF T
<1> DEFINE h == [k \in 0 .. n |-> g[k]]
<1>5. \A k \in 0 .. n : h[k] = g[k]
  OBVIOUS
<1>6. \A k \in 0 .. n : h[k] = IF k = 0 THEN <<>> ELSE More(h[k - 1], s[k], f)
  <2> HIDE DEF h
  <2> TAKE k \in 0 .. n
  <2>1. CASE k = 0
    BY <1>4, <1>5, <2>1
  <2>2. CASE k # 0
    <3>1. k \in 1 .. n /\ k <= n /\ k - 1 \in 0 .. n
      BY <2>2
    <3> QED BY <1>4, <1>5, <2>2, <3>1
  <2> QED BY <2>1, <2>2
<1>7. h = [k \in 0 .. n |-> h[k]]
  OBVIOUS
<1> HIDE DEF h
<1>8. h = [k \in 0 .. n |-> IF k = 0 THEN <<>> ELSE More(h[k - 1], s[k], f)]
  BY <1>6, <1>7, Zenon
<1> QED BY <1>8, Zenon DEF Finding

LEMMA FoundFrom ==
  ASSUME Len(shown) \in Nat, NEW f
  PROVE  \E g : /\ g[0] = <<>> /\ FoundIn(f) = g[Len(shown)]
                /\ \A k \in 1 .. Len(shown) : g[k] = More(g[k - 1], shown[k], f)
<1>1. FoundIn(f) = (CHOOSE g : Finding(g, shown, f))[Len(shown)]
  BY Zenon DEF FoundIn, Finding, More
<1> DEFINE g == CHOOSE h : Finding(h, shown, f)
<1>2. Finding(g, shown, f)
  BY FindingExists, Zenon
<1> HIDE DEF g
<1>3. \A k \in 0 .. Len(shown) : g[k] = IF k = 0 THEN <<>> ELSE More(g[k - 1], shown[k], f)
  BY <1>2, Zenon DEF Finding
<1>4. g[0] = <<>> /\ \A k \in 1 .. Len(shown) : g[k] = More(g[k - 1], shown[k], f)
  BY <1>3
<1> QED BY <1>1, <1>4 DEF g

(* The cases, up to each failure.                                             *)
Filing(g, s) ==
  g = [k \in 0 .. Len(s) |-> IF k = 0 THEN <<>> ELSE Filed(g[k - 1], s[k])]

LEMMA FilingExists == ASSUME NEW s, Len(s) \in Nat PROVE \E g : Filing(g, s)
<1> DEFINE n == Len(s)
           Upto(m, g) == g[0] = <<>> /\ \A k \in 1 .. n : k <= m => g[k] = Filed(g[k - 1], s[k])
           T == {m \in Nat : \E g : Upto(m, g)}
<1>1. 0 \in T
  <2>1. Upto(0, [k \in 0 .. n |-> <<>>])
    OBVIOUS
  <2> HIDE DEF Upto
  <2> QED BY <2>1
<1>2. ASSUME NEW m \in Nat, m \in T PROVE m + 1 \in T
  <2>1. PICK g : Upto(m, g)
    BY <1>2
  <2> DEFINE h == [k \in 0 .. n |-> IF k = m + 1 THEN Filed(g[k - 1], s[k]) ELSE g[k]]
  <2>2. \A k \in 0 .. n : h[k] = IF k = m + 1 THEN Filed(g[k - 1], s[k]) ELSE g[k]
    OBVIOUS
  <2> HIDE DEF h
  <2>3. h[0] = <<>>
    BY <2>1, <2>2
  <2>4. ASSUME NEW k \in 1 .. n, k <= m + 1 PROVE h[k] = Filed(h[k - 1], s[k])
    <3>1. k - 1 \in 0 .. n /\ k - 1 # m + 1 /\ k \in 0 .. n
      BY <2>4
    <3>2. h[k - 1] = g[k - 1]
      BY <2>2, <3>1
    <3>3. h[k] = Filed(g[k - 1], s[k])
      BY <2>1, <2>2, <2>4, <3>1
    <3> QED BY <3>2, <3>3
  <2>5. Upto(m + 1, h)
    BY <2>3, <2>4
  <2> HIDE DEF Upto
  <2> QED BY <2>5
<1> HIDE DEF T
<1>3. n \in T
  BY <1>1, <1>2, Naturals
<1>4. PICK g : Upto(n, g)
  BY <1>3 DEF T
<1> DEFINE h == [k \in 0 .. n |-> g[k]]
<1>5. \A k \in 0 .. n : h[k] = g[k]
  OBVIOUS
<1>6. \A k \in 0 .. n : h[k] = IF k = 0 THEN <<>> ELSE Filed(h[k - 1], s[k])
  <2> HIDE DEF h
  <2> TAKE k \in 0 .. n
  <2>1. CASE k = 0
    BY <1>4, <1>5, <2>1
  <2>2. CASE k # 0
    <3>1. k \in 1 .. n /\ k <= n /\ k - 1 \in 0 .. n
      BY <2>2
    <3> QED BY <1>4, <1>5, <2>2, <3>1
  <2> QED BY <2>1, <2>2
<1>7. h = [k \in 0 .. n |-> h[k]]
  OBVIOUS
<1> HIDE DEF h
<1>8. h = [k \in 0 .. n |-> IF k = 0 THEN <<>> ELSE Filed(h[k - 1], s[k])]
  BY <1>6, <1>7, Zenon
<1> QED BY <1>8, Zenon DEF Filing

LEMMA FiledFrom ==
  ASSUME NEW s, Len(s) \in Nat
  PROVE  \E g : /\ g[0] = <<>> /\ FailedFiles(s) = g[Len(s)]
                /\ \A k \in 1 .. Len(s) : g[k] = Filed(g[k - 1], s[k])
<1>1. FailedFiles(s) = (CHOOSE g : Filing(g, s))[Len(s)]
  BY Zenon DEF FailedFiles, Filing
<1> DEFINE g == CHOOSE h : Filing(h, s)
<1>2. Filing(g, s)
  BY FilingExists, Zenon
<1> HIDE DEF g
<1>3. \A k \in 0 .. Len(s) : g[k] = IF k = 0 THEN <<>> ELSE Filed(g[k - 1], s[k])
  BY <1>2, Zenon DEF Filing
<1>4. g[0] = <<>> /\ \A k \in 1 .. Len(s) : g[k] = Filed(g[k - 1], s[k])
  BY <1>3
<1> QED BY <1>1, <1>4 DEF g

(* The texts of a case tell what was found, in order.                          *)
Lists(texts, found) ==
  /\ IsSeq(texts) /\ IsSeq(found) /\ Len(texts) = Len(found)
  /\ \A i \in 1 .. Len(found) : texts[i].what = found[i]

OneCase(cases, f, found) ==
  IF found = <<>> THEN \A k \in DOMAIN cases : cases[k].name # f
  ELSE \E k \in DOMAIN cases : /\ cases[k].name = f /\ Lists(cases[k].texts, found)
                               /\ \A j \in DOMAIN cases : cases[j].name = f => j = k

OfFiles(cases) == IsSeq(cases) /\ \A k \in DOMAIN cases : cases[k].name \in File

LEMMA ListsAppend ==
  ASSUME NEW t, NEW s, Lists(t, s), NEW a
  PROVE  Lists(Append(t, a), Append(s, a.what)) /\ Append(s, a.what) # <<>>
<1> DEFINE n == Len(s)
           u == Append(s, a.what)
           v == Append(t, a)
<1>1. /\ IsSeq(s) /\ IsSeq(t) /\ Len(t) = n
      /\ \A i \in 1 .. n : t[i].what = s[i]
  BY DEF Lists
<1>2. /\ n \in Nat /\ IsSeq(u) /\ Len(u) = n + 1 /\ u[n + 1] = a.what /\ \A i \in 1 .. n : u[i] = s[i]
      /\ IsSeq(v) /\ Len(v) = n + 1 /\ v[n + 1] = a /\ \A i \in 1 .. n : v[i] = t[i]
  BY <1>1, AppendIs, SeqIs
<1> HIDE DEF u, v, n
<1>3. ASSUME NEW i \in 1 .. n + 1 PROVE v[i].what = u[i]
  <2>1. i = n + 1 \/ i \in 1 .. n
    BY <1>2
  <2> QED  BY <1>1, <1>2, <2>1
<1>4. u # <<>>
  BY <1>2, EmptySeq
<1> QED  BY <1>2, <1>3, <1>4 DEF Lists, u, v

(* A failure goes into the case of its file, and no other case changes.         *)
LEMMA FiledOne ==
  ASSUME NEW cases, OfFiles(cases), NEW a, a.of \in File, NEW f,
         NEW found, OneCase(cases, f, found)
  PROVE  /\ OfFiles(Filed(cases, a))
         /\ OneCase(Filed(cases, a), f, IF a.of = f THEN Append(found, a.what) ELSE found)
<1> DEFINE n == Len(cases)
           first == ~ \E k \in DOMAIN cases : cases[k].name = a.of
           b == Filed(cases, a)
           more == IF a.of = f THEN Append(found, a.what) ELSE found
<1>1. n \in Nat /\ DOMAIN cases = 1 .. n /\ \A k \in 1 .. n : cases[k].name \in File
  BY SeqIs DEF OfFiles
<1>2. Lists(<<>>, <<>>) /\ Append(<<>>, a) = <<a>>
  <2>1. IsSeq(<<>>) /\ Len(<<>>) = 0
    BY EmptySeq DEF IsSeq
  <2> QED  BY <2>1 DEF Lists
<1>3. CASE first
  <2>1. b = Append(cases, Case(a.of, <<a>>))
    BY <1>3 DEF Filed
  <2>2. /\ IsSeq(b) /\ Len(b) = n + 1 /\ b[n + 1] = Case(a.of, <<a>>)
        /\ \A k \in 1 .. n : b[k] = cases[k]
    BY <2>1, AppendIs DEF OfFiles
  <2>3. DOMAIN b = 1 .. n + 1
    BY <2>2, SeqIs
  <2>4. b[n + 1].name = a.of /\ b[n + 1].texts = <<a>>
    BY <2>2 DEF Case
  <2>5. \A k \in 1 .. n + 1 : k \in 1 .. n \/ k = n + 1
    BY <1>1
  <2> HIDE DEF b
  <2>6. OfFiles(b)
    BY <1>1, <2>2, <2>3, <2>4, <2>5 DEF OfFiles
  <2>7. CASE a.of = f
    <3>1. found = <<>>
      BY <1>3, <2>7 DEF OneCase
    <3>2. Lists(<<a>>, more) /\ more # <<>>
      BY <1>2, <2>7, <3>1, ListsAppend
    <3> HIDE DEF more
    <3>3. n + 1 \in DOMAIN b /\ \A j \in DOMAIN b : b[j].name = f => j = n + 1
      BY <1>1, <1>3, <2>2, <2>3, <2>5, <2>7
    <3> QED  BY <2>4, <2>6, <2>7, <3>2, <3>3 DEF OneCase, b, more
  <2>8. CASE a.of # f
    <3>1. more = found
      BY <2>8
    <3> HIDE DEF more
    <3>2. CASE found = <<>>
      <4>1. \A k \in DOMAIN b : b[k].name # f
        BY <1>1, <2>2, <2>3, <2>4, <2>5, <2>8, <3>2 DEF OneCase
      <4> QED  BY <2>6, <3>1, <3>2, <4>1 DEF OneCase, b, more
    <3>3. CASE found # <<>>
      <4>1. PICK k \in DOMAIN cases : /\ cases[k].name = f /\ Lists(cases[k].texts, found)
                                      /\ \A j \in DOMAIN cases : cases[j].name = f => j = k
        BY <3>3 DEF OneCase
      <4>2. k \in DOMAIN b /\ b[k] = cases[k]
        BY <1>1, <2>2, <2>3, <4>1
      <4>3. \A j \in DOMAIN b : b[j].name = f => j = k
        BY <1>1, <2>2, <2>3, <2>4, <2>5, <2>8, <4>1
      <4>4. OneCase(b, f, found)
        BY <3>3, <4>1, <4>2, <4>3 DEF OneCase
      <4> QED  BY <2>6, <3>1, <4>4 DEF b, more
    <3> QED  BY <3>2, <3>3
  <2> QED  BY <2>7, <2>8
<1>4. CASE ~first
  <2>1. b = [k \in 1 .. n |-> IF cases[k].name = a.of
                              THEN Case(a.of, Append(cases[k].texts, a)) ELSE cases[k]]
    BY <1>1, <1>4 DEF Filed
  <2>2. /\ DOMAIN b = 1 .. n
        /\ \A k \in 1 .. n : b[k] = IF cases[k].name = a.of
                                    THEN Case(a.of, Append(cases[k].texts, a)) ELSE cases[k]
    BY <2>1
  <2>3. IsSeq(b)
    <3> DEFINE E == {b[i] : i \in DOMAIN b}
               c == [k \in 1 .. n |-> b[k]]
    <3>1. c \in [1 .. n -> E] /\ b = c
      BY <2>1, <2>2
    <3> HIDE DEF E, c
    <3>2. c \in Seq(E)
      BY <1>1, <3>1
    <3> QED  BY <3>1, <3>2 DEF IsSeq, E
  <2> HIDE DEF b
  <2>4. /\ \A k \in 1 .. n : b[k].name = cases[k].name
        /\ \A k \in 1 .. n : cases[k].name # a.of => b[k] = cases[k]
        /\ \A k \in 1 .. n : cases[k].name = a.of => b[k].texts = Append(cases[k].texts, a)
    BY <2>2 DEF Case
  <2>5. OfFiles(b)
    BY <1>1, <2>2, <2>3, <2>4 DEF OfFiles
  <2>6. CASE found = <<>>
    <3>1. a.of # f
      BY <1>4, <2>6 DEF OneCase
    <3>2. OneCase(b, f, found)
      BY <1>1, <2>2, <2>4, <2>6 DEF OneCase
    <3> QED  BY <2>5, <3>1, <3>2 DEF b
  <2>7. CASE found # <<>>
    <3>1. PICK k \in DOMAIN cases : /\ cases[k].name = f /\ Lists(cases[k].texts, found)
                                    /\ \A j \in DOMAIN cases : cases[j].name = f => j = k
      BY <2>7 DEF OneCase
    <3>2. Lists(b[k].texts, more) /\ more # <<>>
      <4>1. CASE a.of = f
        <5>1. b[k].texts = Append(cases[k].texts, a)
          BY <1>1, <2>4, <3>1, <4>1
        <5> QED  BY <3>1, <4>1, <5>1, ListsAppend
      <4>2. CASE a.of # f
        <5>1. b[k] = cases[k]
          BY <1>1, <2>4, <3>1, <4>2
        <5> QED  BY <2>7, <3>1, <4>2, <5>1
      <4> QED  BY <4>1, <4>2
    <3> HIDE DEF more
    <3>3. k \in DOMAIN b /\ b[k].name = f /\ \A j \in DOMAIN b : b[j].name = f => j = k
      BY <1>1, <2>2, <2>4, <3>1
    <3>4. OneCase(b, f, more)
      BY <3>2, <3>3 DEF OneCase
    <3> QED  BY <2>5, <3>4 DEF b, more
  <2> QED  BY <2>6, <2>7
<1> QED  BY <1>3, <1>4

(* The errors of the run, filed one after the other.                           *)
LEMMA AllFiled ==
  ASSUME Mirrors(junit_failures, shown), NEW f,
         shown \in Seq([file : File, category : Category])
  PROVE  /\ OfFiles(FailedFiles(junit_failures))
         /\ OneCase(FailedFiles(junit_failures), f, FoundIn(f))
<1> DEFINE n == Len(shown)
           s == junit_failures
<1>1. /\ n \in Nat /\ Len(s) = n
      /\ \A k \in 1 .. n : /\ s[k] = About(shown[k].file, shown[k].category)
                           /\ shown[k] \in [file : File, category : Category]
  BY ElementOfSeq, LenProperties DEF Mirrors
<1>2. ASSUME NEW k \in 1 .. n
      PROVE  s[k].of = shown[k].file /\ s[k].what = shown[k].category /\ s[k].of \in File
  <2>1. s[k] = About(shown[k].file, shown[k].category) /\ shown[k].file \in File
    BY <1>1
  <2> HIDE DEF s
  <2> QED  BY <2>1 DEF About
<1>3. PICK g : /\ g[0] = <<>> /\ FoundIn(f) = g[n]
               /\ \A k \in 1 .. n : g[k] = More(g[k - 1], shown[k], f)
  BY <1>1, FoundFrom
<1>4. PICK h : /\ h[0] = <<>> /\ FailedFiles(s) = h[Len(s)]
               /\ \A k \in 1 .. Len(s) : h[k] = Filed(h[k - 1], s[k])
  BY <1>1, FiledFrom
<1> HIDE DEF n, s
<1> DEFINE T == {k \in Nat : k <= n => OfFiles(h[k]) /\ OneCase(h[k], f, g[k])}
<1>5. 0 \in T
  <2>1. IsSeq(<<>>) /\ DOMAIN <<>> = {}
    BY EmptySeq DEF IsSeq
  <2>2. OfFiles(<<>>) /\ OneCase(<<>>, f, <<>>)
    BY <2>1 DEF OfFiles, OneCase
  <2> QED  BY <1>3, <1>4, <2>2
<1>6. ASSUME NEW k \in Nat, k \in T PROVE k + 1 \in T
  <2> SUFFICES ASSUME k + 1 <= n PROVE OfFiles(h[k + 1]) /\ OneCase(h[k + 1], f, g[k + 1])
    OBVIOUS
  <2>1. k + 1 \in 1 .. n /\ k + 1 - 1 = k /\ OfFiles(h[k]) /\ OneCase(h[k], f, g[k])
    BY <1>1, <1>6
  <2>2. h[k + 1] = Filed(h[k], s[k + 1]) /\ g[k + 1] = More(g[k], shown[k + 1], f)
    BY <1>1, <1>3, <1>4, <2>1
  <2>3. /\ g[k + 1] = IF s[k + 1].of = f THEN Append(g[k], s[k + 1].what) ELSE g[k]
        /\ s[k + 1].of \in File
    BY <1>2, <2>1, <2>2 DEF More
  <2> QED  BY <2>1, <2>2, <2>3, FiledOne
<1> HIDE DEF T
<1>7. n \in T
  BY <1>1, <1>5, <1>6, Naturals
<1> QED  BY <1>1, <1>3, <1>4, <1>7 DEF T, s

(* A case of another name before them changes nothing.                        *)
LEMMA OneCaseLater ==
  ASSUME NEW cases, OfFiles(cases), NEW c, NEW f, f # c.name,
         NEW found, OneCase(cases, f, found)
  PROVE  LET all == <<c>> \o cases
         IN OneCase(all, f, found) /\ \A k \in DOMAIN all : all[k].name \in File \cup {c.name}
<1> DEFINE n == Len(cases)
           all == <<c>> \o cases
           E == {c} \cup {cases[i] : i \in DOMAIN cases}
<1>1. n \in Nat /\ DOMAIN cases = 1 .. n /\ \A k \in 1 .. n : cases[k].name \in File
  BY SeqIs DEF OfFiles
<1>2. <<c>> \in Seq(E) /\ cases \in Seq(E) /\ Len(<<c>>) = 1 /\ <<c>>[1] = c
  <2>1. cases \in Seq({cases[i] : i \in DOMAIN cases})
    BY DEF OfFiles, IsSeq
  <2> HIDE DEF all
  <2> QED  BY <2>1, SeqMonotonic
<1> HIDE DEF E
<1>3. /\ all \in Seq(E) /\ Len(all) = n + 1
      /\ \A k \in 1 .. n + 1 : all[k] = IF k <= 1 THEN <<c>>[k] ELSE cases[k - 1]
  BY <1>1, <1>2, ConcatProperties
<1>4. DOMAIN all = 1 .. n + 1
  BY <1>3, LenProperties
<1>5. all[1] = c /\ \A k \in 1 .. n : all[k + 1] = cases[k]
  BY <1>1, <1>2, <1>3
<1> HIDE DEF all
<1>6. \A k \in 1 .. n + 1 : k = 1 \/ (k - 1 \in 1 .. n /\ k - 1 + 1 = k)
  BY <1>1
<1>7. \A k \in DOMAIN all : k = 1 \/ (k - 1 \in 1 .. n /\ all[k] = cases[k - 1])
  BY <1>4, <1>5, <1>6
<1>8. \A k \in DOMAIN all : all[k].name \in File \cup {c.name}
  BY <1>1, <1>5, <1>7
<1>9. CASE found = <<>>
  <2>1. \A k \in DOMAIN all : all[k].name # f
    BY <1>1, <1>5, <1>7, <1>9 DEF OneCase
  <2> QED  BY <1>8, <1>9, <2>1 DEF OneCase, all
<1>10. CASE found # <<>>
  <2>1. PICK k \in DOMAIN cases : /\ cases[k].name = f /\ Lists(cases[k].texts, found)
                                  /\ \A j \in DOMAIN cases : cases[j].name = f => j = k
    BY <1>10 DEF OneCase
  <2>2. k + 1 \in DOMAIN all /\ all[k + 1] = cases[k]
    BY <1>1, <1>4, <1>5, <2>1
  <2>3. ASSUME NEW j \in DOMAIN all, all[j].name = f PROVE j = k + 1
    <3>1. j # 1 /\ all[j] = cases[j - 1] /\ j - 1 \in 1 .. n /\ j \in 1 .. n + 1
      BY <1>4, <1>5, <1>7, <2>3
    <3>2. j - 1 = k
      BY <1>1, <2>1, <2>3, <3>1
    <3> QED  BY <1>1, <3>1, <3>2
  <2>4. OneCase(all, f, found)
    BY <1>10, <2>1, <2>2, <2>3 DEF OneCase
  <2> QED  BY <1>8, <2>4 DEF all
<1> QED  BY <1>9, <1>10

(* What ReportComplete says of a file.                                         *)
CaseOf(cases, f, found) ==
  LET named(n) == {k \in DOMAIN cases : cases[k].name = n}
      under(k) == [i \in DOMAIN cases[k].texts |-> cases[k].texts[i].what]
  IN IF found = <<>> THEN named(f) = {}
     ELSE \E k \in named(f) : named(f) = {k} /\ under(k) = found

LEMMA CaseIs ==
  ASSUME NEW cases, NEW f, NEW found, OneCase(cases, f, found)
  PROVE  CaseOf(cases, f, found)
<1> DEFINE named(n) == {k \in DOMAIN cases : cases[k].name = n}
           under(k) == [i \in DOMAIN cases[k].texts |-> cases[k].texts[i].what]
<1>1. CASE found = <<>>
  BY <1>1 DEF OneCase, CaseOf
<1>2. CASE found # <<>>
  <2>1. PICK k \in DOMAIN cases : /\ cases[k].name = f /\ Lists(cases[k].texts, found)
                                  /\ \A j \in DOMAIN cases : cases[j].name = f => j = k
    BY <1>2 DEF OneCase
  <2>2. k \in named(f) /\ named(f) = {k}
    BY <2>1
  <2>3. under(k) = found
    <3> DEFINE t == cases[k].texts
    <3>1. /\ DOMAIN t = 1 .. Len(t) /\ Len(t) = Len(found)
          /\ \A i \in 1 .. Len(found) : t[i].what = found[i]
      BY <2>1, SeqIs DEF Lists
    <3>2. found = [i \in 1 .. Len(found) |-> found[i]]
      <4>1. found \in Seq({found[i] : i \in DOMAIN found})
        BY <2>1 DEF Lists, IsSeq
      <4> QED  BY <4>1, LenProperties
    <3> HIDE DEF t
    <3>3. [i \in DOMAIN t |-> t[i].what] = [i \in 1 .. Len(found) |-> found[i]]
      BY <3>1
    <3> QED  BY <3>2, <3>3, Zenon DEF t
  <2> HIDE DEF named, under
  <2>4. \E j \in named(f) : named(f) = {j} /\ under(j) = found
    BY <2>2, <2>3
  <2> QED  BY <1>2, <2>4, Zenon DEF CaseOf, named, under
<1> QED  BY <1>1, <1>2

(* The report of a run that ended is what is promised of it.                    *)
LEMMA ReportIs ==
  ASSUME RInv, shown \in Seq([file : File, category : Category]),
         phase = "done", args.output = "junit"
  PROVE  /\ \A f \in File : CaseOf(report.cases, f, FoundIn(f))
         /\ {k \in DOMAIN report.cases : report.cases[k].name = "passed"} # {} =>
              junit_errors = <<>> /\ shown = <<>>
<1> DEFINE none == junit_errors = <<>> /\ junit_failures = <<>>
           cases == FailedFiles(junit_failures)
           heading == Case("errors", junit_errors)
<1>1. Mirrors(junit_failures, shown)
  BY DEF RInv
<1>2. report.cases = IF none THEN <<Case("passed", <<>>)>>
                     ELSE (IF junit_errors = <<>> THEN <<>> ELSE <<heading>>) \o cases
  BY DEF RInv, FormatJUnitXML
<1>3. Len(shown) \in Nat /\ (shown = <<>> <=> junit_failures = <<>>)
  BY <1>1, SeqIs DEF Mirrors
<1>4. heading.name = "errors" /\ "errors" \notin File /\ "passed" \notin File /\ "errors" # "passed"
  BY ReportAssumption DEF Case
<1>5. ASSUME NEW f PROVE OfFiles(cases) /\ OneCase(cases, f, FoundIn(f))
  BY <1>1, AllFiled
<1>6. CASE none
  <2> DEFINE all == <<Case("passed", <<>>)>>
  <2>1. DOMAIN all = {1} /\ all[1].name = "passed"
    BY DEF Case
  <2>2. report.cases = all /\ shown = <<>>
    BY <1>2, <1>3, <1>6
  <2> HIDE DEF all
  <2>3. ASSUME NEW f \in File PROVE FoundIn(f) = <<>>
    <3>1. Len(shown) = 0
      BY <2>2, EmptySeq
    <3> QED  BY <1>3, <3>1, FoundFrom
  <2>4. \A f \in File : OneCase(all, f, FoundIn(f))
    BY <1>4, <2>1, <2>3 DEF OneCase
  <2> QED  BY <1>6, <2>2, <2>4, CaseIs
<1>7. CASE ~none /\ junit_errors = <<>>
  <2> DEFINE all == report.cases
  <2>2. cases \in Seq({cases[i] : i \in DOMAIN cases}) /\ \A k \in DOMAIN cases : cases[k].name \in File
    BY <1>5 DEF OfFiles, IsSeq
  <2> HIDE DEF cases
  <2>3. all = cases
    BY <1>2, <1>7, <2>2, ConcatEmptySeq
  <2> HIDE DEF all
  <2>4. {k \in DOMAIN all : all[k].name = "passed"} = {}
    BY <1>4, <2>2, <2>3
  <2>5. \A g \in File : CaseOf(all, g, FoundIn(g))
    BY <1>5, <2>3, CaseIs DEF cases
  <2> QED  BY <2>4, <2>5 DEF all
<1>8. CASE junit_errors # <<>>
  <2> DEFINE all == <<heading>> \o cases
  <2>1. report.cases = all
    BY <1>2, <1>8
  <2> HIDE DEF cases, heading
  <2>2. ASSUME NEW f, f # "errors"
        PROVE  /\ OneCase(all, f, FoundIn(f))
               /\ \A k \in DOMAIN all : all[k].name \in File \cup {heading.name}
    <3> DEFINE found == FoundIn(f)
    <3>1. OfFiles(cases) /\ OneCase(cases, f, found)
      BY <1>5
    <3>2. heading.name \notin File /\ f # heading.name
      BY <1>4, <2>2
    <3> HIDE DEF found
    <3>3. /\ OneCase(all, f, found)
          /\ \A k \in DOMAIN all : all[k].name \in File \cup {heading.name}
      BY ONLY <3>1, <3>2, OneCaseLater
    <3> QED  BY <3>3 DEF found
  <2> HIDE DEF all
  <2>3. \A f \in File : CaseOf(all, f, FoundIn(f))
    BY <1>4, <2>2, CaseIs
  <2>4. \A k \in DOMAIN all : all[k].name # "passed"
    BY <1>4, <2>2
  <2> QED  BY <1>8, <2>1, <2>3, <2>4
<1> QED  BY <1>6, <1>7, <1>8

(* ReportComplete: the report of --output=junit groups all errors by file, and *)
(* says "passed" only if none was found and every file asked for was linted or *)
(* is excluded, after any errors in any order (FormatJUnitXML, cpplint.py:1369). *)
THEOREM ReportIsComplete == Spec => []ReportComplete
<1>1. Init => TInv /\ FiltersKept /\ OwnInv /\ RInv
  BY TypeStart, OwnInvStart, ReportStart DEF Init, FiltersKept
<1>2. TInv /\ FiltersKept /\ OwnInv /\ RInv /\ [Next]_vars => (TInv /\ FiltersKept /\ OwnInv /\ RInv)'
  BY TypeStep, FiltersKeptStep, OwnInvStep, ReportStep
<1>3. TInv /\ RInv => ReportComplete
  <2> SUFFICES ASSUME TInv, RInv, phase = "done", args.output = "junit"
               PROVE  /\ \A f \in File : CaseOf(report.cases, f, FoundIn(f))
                      /\ {k \in DOMAIN report.cases : report.cases[k].name = "passed"} # {} =>
                           shown = <<>> /\ \A f \in AskedFor : f \in linted \/ Excluded(f)
    BY Zenon DEF ReportComplete, CaseOf
  <2>1. shown \in Seq([file : File, category : Category])
    BY DEF TInv, TypeOK
  <2>2. junit_errors = <<>> => \A f \in AskedFor : f \in linted \/ Excluded(f)
    BY DEF RInv, Told
  <2> QED  BY <2>1, <2>2, ReportIs
<1> QED  BY <1>1, <1>2, <1>3, PTL DEF Spec

-----------------------------------------------------------------------------
(* Directories, from the topmost down.                                        *)

LEMMA TreeInduct ==
  ASSUME NEW T, Root \in T, \A d \in Dir \ {Root} : Parent[d] \in T => d \in T
  PROVE  \A d \in Dir : d \in T
<1> DEFINE D == {d \in Dir \ {Root} : d \notin T}
<1>1. \A d \in D : Parent[d] \in D
  BY TreeAssumption
<1>2. D \in SUBSET (Dir \ {Root})
  OBVIOUS
<1> HIDE DEF D
<1>3. D = {}
  BY <1>1, <1>2, UpwardsAssumption
<1> QED  BY <1>3 DEF D

(* A function that gives each directory a value from that of the one above.     *)
Growing(g, a, S) == g = [x \in Dir |-> IF x = Root THEN a ELSE S[<<x, g[Parent[x]]>>]]

(* The values in a part of the tree that holds all directories above its own.   *)
GrownIn(D, g, a, S) ==
  /\ D \subseteq Dir /\ \A x \in D \ {Root} : Parent[x] \in D
  /\ \A x \in D : g[x] = IF x = Root THEN a ELSE S[<<x, g[Parent[x]]>>]

ValueAt(x, v, a, S) == \E D, g : GrownIn(D, g, a, S) /\ x \in D /\ v = g[x]

LEMMA OneValue ==
  ASSUME NEW a, NEW S
  PROVE  \A x \in Dir : \A v, w : ValueAt(x, v, a, S) /\ ValueAt(x, w, a, S) => v = w
<1> DEFINE One(x) == \A v, w : ValueAt(x, v, a, S) /\ ValueAt(x, w, a, S) => v = w
           T == {x \in Dir : One(x)}
<1>1. ASSUME NEW x \in Dir, x # Root => Parent[x] \in T PROVE One(x)
  <2> SUFFICES ASSUME NEW v, NEW w, ValueAt(x, v, a, S), ValueAt(x, w, a, S) PROVE v = w
    OBVIOUS
  <2>1. PICK D, g : GrownIn(D, g, a, S) /\ x \in D /\ v = g[x]
    BY DEF ValueAt
  <2>2. PICK E, h : GrownIn(E, h, a, S) /\ x \in E /\ w = h[x]
    BY DEF ValueAt
  <2>3. CASE x = Root
    BY <2>1, <2>2, <2>3 DEF GrownIn
  <2>4. CASE x # Root
    <3>1. Parent[x] \in D /\ Parent[x] \in E /\ Parent[x] \in T
      BY <1>1, <2>1, <2>2, <2>4 DEF GrownIn
    <3>2. ValueAt(Parent[x], g[Parent[x]], a, S) /\ ValueAt(Parent[x], h[Parent[x]], a, S)
      BY <2>1, <2>2, <3>1 DEF ValueAt
    <3>3. g[Parent[x]] = h[Parent[x]]
      BY <3>1, <3>2
    <3>4. v = S[<<x, g[Parent[x]]>>] /\ w = S[<<x, h[Parent[x]]>>]
      BY <2>1, <2>2, <2>4 DEF GrownIn
    <3> QED  BY <3>3, <3>4
  <2> QED  BY <2>3, <2>4
<1> HIDE DEF One
<1>2. Root \in T
  BY <1>1, TreeAssumption
<1>3. \A x \in Dir \ {Root} : Parent[x] \in T => x \in T
  BY <1>1
<1> HIDE DEF T
<1>4. \A x \in Dir : x \in T
  BY <1>2, <1>3, TreeInduct
<1> QED  BY <1>4 DEF T, One

LEMMA SomeValue == ASSUME NEW a, NEW S PROVE \A x \in Dir : \E v : ValueAt(x, v, a, S)
<1> DEFINE T == {x \in Dir : \E v : ValueAt(x, v, a, S)}
<1>1. Root \in T
  <2> DEFINE g == [x \in Dir |-> a]
  <2>1. GrownIn({Root}, g, a, S) /\ Root \in {Root} /\ g[Root] = g[Root]
    BY TreeAssumption DEF GrownIn
  <2> HIDE DEF g
  <2>2. ValueAt(Root, g[Root], a, S)
    BY <2>1 DEF ValueAt
  <2> QED  BY <2>2, TreeAssumption
<1>2. ASSUME NEW x \in Dir \ {Root}, Parent[x] \in T PROVE x \in T
  <2>1. PICK v : ValueAt(Parent[x], v, a, S)
    BY <1>2
  <2>2. PICK D, g : GrownIn(D, g, a, S) /\ Parent[x] \in D /\ v = g[Parent[x]]
    BY <2>1 DEF ValueAt
  <2>3. CASE x \in D
    <3>1. ValueAt(x, g[x], a, S)
      BY <2>2, <2>3 DEF ValueAt
    <3> QED  BY <3>1
  <2>4. CASE x \notin D
    <3> DEFINE h == [y \in Dir |-> IF y = x THEN S[<<x, g[Parent[x]]>>] ELSE g[y]]
               E == D \cup {x}
    <3>1. \A y \in Dir : h[y] = IF y = x THEN S[<<x, g[Parent[x]]>>] ELSE g[y]
      OBVIOUS
    <3> HIDE DEF h
    <3>2. E \subseteq Dir /\ \A y \in E \ {Root} : Parent[y] \in D
      BY <2>2 DEF GrownIn
    <3>3. \A y \in E \ {Root} : h[Parent[y]] = g[Parent[y]]
      <4> TAKE y \in E \ {Root}
      <4>1. Parent[y] \in D /\ Parent[y] \in Dir /\ Parent[y] # x
        BY <2>2, <2>4, <3>2 DEF GrownIn
      <4> QED  BY <3>1, <4>1
    <3>4. ASSUME NEW y \in E PROVE h[y] = IF y = Root THEN a ELSE S[<<y, h[Parent[y]]>>]
      <4>1. CASE y = x
        BY <3>1, <3>3, <4>1
      <4>2. CASE y # x
        <5>1. y \in D /\ y \in Dir /\ h[y] = g[y]
          BY <3>1, <3>2, <4>2
        <5>2. g[y] = IF y = Root THEN a ELSE S[<<y, g[Parent[y]]>>]
          BY <2>2, <5>1 DEF GrownIn
        <5> QED  BY <3>3, <5>1, <5>2
      <4> QED  BY <4>1, <4>2
    <3>5. GrownIn(E, h, a, S)
      BY <3>2, <3>4 DEF GrownIn
    <3>6. ValueAt(x, h[x], a, S)
      BY <3>5 DEF ValueAt
    <3> QED  BY <3>6
  <2> QED  BY <2>3, <2>4
<1> HIDE DEF T
<1>3. \A x \in Dir : x \in T
  BY <1>1, <1>2, TreeInduct
<1> QED  BY <1>3 DEF T

LEMMA TreeFunction == ASSUME NEW a, NEW S PROVE \E g : Growing(g, a, S)
<1> DEFINE g == [x \in Dir |-> CHOOSE v : ValueAt(x, v, a, S)]
<1>1. ASSUME NEW x \in Dir PROVE ValueAt(x, g[x], a, S)
  <2>1. g[x] = CHOOSE v : ValueAt(x, v, a, S)
    OBVIOUS
  <2> HIDE DEF g
  <2> QED  BY <2>1, SomeValue, Zenon
<1>2. g = [x \in Dir |-> g[x]]
  OBVIOUS
<1> HIDE DEF g
<1>3. ASSUME NEW x \in Dir PROVE g[x] = IF x = Root THEN a ELSE S[<<x, g[Parent[x]]>>]
  <2>1. PICK D, h : GrownIn(D, h, a, S) /\ x \in D /\ g[x] = h[x]
    BY <1>1 DEF ValueAt
  <2>2. CASE x = Root
    BY <2>1, <2>2 DEF GrownIn
  <2>3. CASE x # Root
    <3>1. Parent[x] \in D /\ Parent[x] \in Dir
      BY <2>1, <2>3 DEF GrownIn
    <3>2. ValueAt(Parent[x], h[Parent[x]], a, S)
      BY <2>1, <3>1 DEF ValueAt
    <3>3. g[Parent[x]] = h[Parent[x]]
      BY <1>1, <3>1, <3>2, OneValue
    <3>4. h[x] = S[<<x, h[Parent[x]]>>]
      BY <2>1, <2>3 DEF GrownIn
    <3> QED  BY <2>1, <2>3, <3>3, <3>4
  <2> QED  BY <2>2, <2>3
<1>4. Growing(g, a, S)
  BY <1>2, <1>3, Zenon DEF Growing
<1> QED  BY <1>4

(* The directories above one, and itself.                                     *)
OverFcn(g) == g = [d \in Dir |-> IF d = Root THEN {Root} ELSE {d} \cup g[Parent[d]]]
Over == CHOOSE g : OverFcn(g)

LEMMA OverIs ==
  /\ Over[Root] = {Root} /\ \A d \in Dir \ {Root} : Over[d] = {d} \cup Over[Parent[d]]
  /\ \A d \in Dir : Over[d] \subseteq Dir /\ d \in Over[d] /\ Root \in Over[d]
  /\ \A f : Above(f) = Over[DirOf[f]]
<1> DEFINE S == [p \in Dir \X SUBSET Dir |-> {p[1]} \cup p[2]]
<1>1. PICK g : Growing(g, {Root}, S)
  BY TreeFunction
<1>2. ASSUME NEW x \in Dir, NEW v \in SUBSET Dir PROVE S[<<x, v>>] = {x} \cup v
  OBVIOUS
<1> HIDE DEF S
<1>3. g = [x \in Dir |-> IF x = Root THEN {Root} ELSE S[<<x, g[Parent[x]]>>]]
  BY <1>1, Zenon DEF Growing
<1> DEFINE T == {x \in Dir : g[x] \in SUBSET Dir}
<1>4. Root \in T
  BY <1>3, TreeAssumption
<1>5. ASSUME NEW x \in Dir \ {Root}, Parent[x] \in T PROVE x \in T
  <2>1. g[x] = {x} \cup g[Parent[x]] /\ g[Parent[x]] \in SUBSET Dir
    BY <1>2, <1>3, <1>5
  <2> QED  BY <2>1
<1> HIDE DEF T
<1>6. \A x \in Dir : x \in T
  BY <1>4, <1>5, TreeInduct
<1>7. \A x \in Dir : g[x] = IF x = Root THEN {Root} ELSE {x} \cup g[Parent[x]]
  <2> TAKE x \in Dir
  <2>1. x # Root => g[Parent[x]] \in SUBSET Dir
    BY <1>6, TreeAssumption DEF T
  <2> QED  BY <1>2, <1>3, <2>1
<1>8. g = [x \in Dir |-> g[x]]
  BY <1>3
<1>9. OverFcn(g)
  BY <1>7, <1>8, Zenon DEF OverFcn
<1>10. OverFcn(Over)
  BY <1>9, Zenon DEF Over
<1>11. /\ Over[Root] = {Root}
       /\ \A d \in Dir \ {Root} : Over[d] = {d} \cup Over[Parent[d]]
  <2> DEFINE o == Over
  <2>1. o = [d \in Dir |-> IF d = Root THEN {Root} ELSE {d} \cup o[Parent[d]]]
    BY <1>10, Zenon DEF OverFcn
  <2> HIDE DEF o
  <2> QED  BY <2>1, TreeAssumption DEF o
<1> DEFINE U == {d \in Dir : Over[d] \subseteq Dir /\ d \in Over[d] /\ Root \in Over[d]}
<1>12. Root \in U
  BY <1>11, TreeAssumption
<1>13. \A d \in Dir \ {Root} : Parent[d] \in U => d \in U
  BY <1>11
<1> HIDE DEF U
<1>14. \A d \in Dir : d \in U
  BY <1>12, <1>13, TreeInduct
<1>15. \A f : Above(f) = Over[DirOf[f]]
  BY Zenon DEF Above, Over, OverFcn
<1> QED  BY <1>11, <1>14, <1>15 DEF U

(* Nothing is above itself.                                                   *)
LEMMA NoCycle == ASSUME NEW d \in Dir \ {Root} PROVE d \notin Over[Parent[d]]
<1> SUFFICES ASSUME d \in Over[Parent[d]] PROVE FALSE
  OBVIOUS
<1> DEFINE D == {x \in Dir \ {Root} : d \in Over[x]}
<1>1. ASSUME NEW x \in D PROVE Parent[x] \in D
  <2>1. Over[x] = {x} \cup Over[Parent[x]] /\ Parent[x] \in Dir
    BY OverIs, TreeAssumption
  <2>2. d \in Over[Parent[x]]
    BY <2>1
  <2>3. Parent[x] # Root
    BY <2>2, OverIs
  <2> QED  BY <2>1, <2>2, <2>3
<1>2. D \in SUBSET (Dir \ {Root}) /\ d \in D
  BY OverIs
<1> HIDE DEF D
<1> QED  BY <1>1, <1>2, UpwardsAssumption

-----------------------------------------------------------------------------
(* Paths.                                                                    *)

Piece == (DOMAIN Folded) \cup {"/"}
Word  == (DOMAIN Folded) \ {"/"}
Step(d) == NameOf[d] \o <<"/">>
Below1(v, d) == v \o NameOf[d] \o <<"/">>

LEMMA NamesAre ==
  /\ \A x \in (Dir \ {Root}) \cup File : /\ NameOf[x] \in Seq(Word) /\ NameOf[x] \in Seq(Piece)
                                         /\ Len(NameOf[x]) \in Nat \ {0}
  /\ \A d \in Dir \ {Root} : Step(d) \in Seq(Piece) /\ Len(Step(d)) = Len(NameOf[d]) + 1
  /\ \A d \in Dir \ {Root} : \A v \in Seq(Piece) :
       Below1(v, d) = v \o Step(d) /\ Below1(v, d) \in Seq(Piece)
<1>1. ASSUME NEW x \in (Dir \ {Root}) \cup File
      PROVE  NameOf[x] \in Seq(Word) /\ NameOf[x] \in Seq(Piece) /\ Len(NameOf[x]) \in Nat \ {0}
  <2>1. NameOf[x] # <<>> /\ NameOf[x] \in Seq(Word)
    BY NamesAssumption DEF Word
  <2>2. Word \subseteq Piece
    BY DEF Word, Piece
  <2> QED  BY <2>1, <2>2, SeqMonotonic, EmptySeq, LenProperties
<1>2. <<"/">> \in Seq(Piece) /\ Len(<<"/">>) = 1
  BY DEF Piece
<1>3. ASSUME NEW d \in Dir \ {Root} PROVE Step(d) \in Seq(Piece) /\ Len(Step(d)) = Len(NameOf[d]) + 1
  BY <1>1, <1>2, ConcatProperties DEF Step
<1>4. ASSUME NEW d \in Dir \ {Root}, NEW v \in Seq(Piece)
      PROVE  Below1(v, d) = v \o Step(d) /\ Below1(v, d) \in Seq(Piece)
  <2> DEFINE n == NameOf[d]
             slash == <<"/">>
  <2>1. n \in Seq(Piece) /\ slash \in Seq(Piece) /\ v \in Seq(Piece)
    BY <1>1, <1>2
  <2> HIDE DEF n, slash
  <2>2. (v \o n) \o slash = v \o (n \o slash) /\ n \o slash \in Seq(Piece)
    BY <2>1, ConcatAssociative, ConcatProperties
  <2>3. v \o (n \o slash) \in Seq(Piece)
    BY <2>1, <2>2, ConcatProperties
  <2> QED  BY <2>2, <2>3, Zenon DEF Below1, Step, n, slash
<1> QED  BY <1>1, <1>3, <1>4

PathFcn(g) == g = [x \in Dir |-> IF x = Root THEN <<"/">> ELSE Below1(g[Parent[x]], x)]

LEMMA PathOfIs ==
  /\ PathOf(Root) = <<"/">> /\ \A d \in Dir \ {Root} : PathOf(d) = PathOf(Parent[d]) \o Step(d)
  /\ \A d \in Dir : PathOf(d) \in Seq(Piece)
<1> DEFINE S == [p \in Dir \X Seq(Piece) |-> Below1(p[2], p[1])]
<1>1. PICK h : Growing(h, <<"/">>, S)
  BY TreeFunction
<1>2. \A x \in Dir : \A v \in Seq(Piece) : S[<<x, v>>] = Below1(v, x)
  OBVIOUS
<1> HIDE DEF S
<1>3. h = [x \in Dir |-> IF x = Root THEN <<"/">> ELSE S[<<x, h[Parent[x]]>>]]
  BY <1>1, Zenon DEF Growing
<1> DEFINE T == {x \in Dir : h[x] \in Seq(Piece)}
<1>4. Root \in T
  <2>1. <<"/">> \in Seq(Piece)
    BY DEF Piece
  <2> QED  BY <1>3, <2>1, TreeAssumption
<1>5. ASSUME NEW x \in Dir \ {Root}, Parent[x] \in T PROVE x \in T
  <2>1. h[x] = Below1(h[Parent[x]], x) /\ h[Parent[x]] \in Seq(Piece)
    BY <1>2, <1>3, <1>5
  <2> QED  BY <2>1, NamesAre
<1> HIDE DEF T
<1>6. \A x \in Dir : x \in T
  BY <1>4, <1>5, TreeInduct
<1>7. \A x \in Dir : h[x] = IF x = Root THEN <<"/">> ELSE Below1(h[Parent[x]], x)
  <2> TAKE x \in Dir
  <2>1. x # Root => h[Parent[x]] \in Seq(Piece)
    BY <1>6, TreeAssumption DEF T
  <2> QED  BY <1>2, <1>3, <2>1
<1>8. h = [x \in Dir |-> h[x]]
  BY <1>3
<1>9. PathFcn(h)
  BY <1>7, <1>8, Zenon DEF PathFcn
<1> DEFINE g == CHOOSE k : PathFcn(k)
<1>10. PathFcn(g)
  BY <1>9, Zenon
<1>11. \A d : PathOf(d) = g[d]
  BY Zenon DEF PathOf, PathFcn, Below1
<1> HIDE DEF g
<1>12. \A x \in Dir : g[x] = IF x = Root THEN <<"/">> ELSE Below1(g[Parent[x]], x)
  BY <1>10, Zenon DEF PathFcn
<1> DEFINE U == {x \in Dir : g[x] \in Seq(Piece)}
<1>13. Root \in U
  <2>1. <<"/">> \in Seq(Piece)
    BY DEF Piece
  <2> QED  BY <1>12, <2>1, TreeAssumption
<1>14. ASSUME NEW x \in Dir \ {Root}, Parent[x] \in U PROVE x \in U
  <2>1. g[x] = Below1(g[Parent[x]], x) /\ g[Parent[x]] \in Seq(Piece)
    BY <1>12, <1>14
  <2> QED  BY <2>1, NamesAre
<1> HIDE DEF U
<1>15. \A x \in Dir : x \in U
  BY <1>13, <1>14, TreeInduct
<1>16. \A x \in Dir : g[x] \in Seq(Piece)
  BY <1>15 DEF U
<1>17. \A d \in Dir \ {Root} : g[d] = g[Parent[d]] \o Step(d)
  <2> TAKE d \in Dir \ {Root}
  <2>1. Parent[d] \in Dir
    BY TreeAssumption
  <2> QED  BY <1>12, <1>16, <2>1, NamesAre
<1> QED  BY <1>11, <1>12, <1>16, <1>17, TreeAssumption

(* From a directory to another below it.                                      *)
FromFcn(g, d) == g = [x \in Dir |-> IF x \in {d, Root} THEN <<>> ELSE Below1(g[Parent[x]], x)]
From(d) == CHOOSE g : FromFcn(g, d)

LEMMA FromIs ==
  ASSUME NEW d
  PROVE  /\ \A x \in Dir : From(d)[x] \in Seq(Piece)
         /\ \A x \in Dir : x \in {d, Root} => From(d)[x] = <<>>
         /\ \A x \in Dir : x \notin {d, Root} => From(d)[x] = From(d)[Parent[x]] \o Step(x)
         /\ \A f : Below(d, f) = From(d)[DirOf[f]] \o NameOf[f]
<1> DEFINE S == [p \in Dir \X Seq(Piece) |-> IF p[1] = d THEN <<>> ELSE Below1(p[2], p[1])]
<1>0. <<>> \in Seq(Piece)
  BY EmptySeq
<1>1. PICK h : Growing(h, <<>>, S)
  BY TreeFunction
<1>2. \A x \in Dir : \A v \in Seq(Piece) : S[<<x, v>>] = IF x = d THEN <<>> ELSE Below1(v, x)
  OBVIOUS
<1> HIDE DEF S
<1>3. h = [x \in Dir |-> IF x = Root THEN <<>> ELSE S[<<x, h[Parent[x]]>>]]
  BY <1>1, Zenon DEF Growing
<1> DEFINE T == {x \in Dir : h[x] \in Seq(Piece)}
<1>4. Root \in T
  BY <1>0, <1>3, TreeAssumption
<1>5. ASSUME NEW x \in Dir \ {Root}, Parent[x] \in T PROVE x \in T
  <2>1. h[x] = (IF x = d THEN <<>> ELSE Below1(h[Parent[x]], x)) /\ h[Parent[x]] \in Seq(Piece)
    BY <1>2, <1>3, <1>5
  <2> QED  BY <1>0, <2>1, NamesAre
<1> HIDE DEF T
<1>6. \A x \in Dir : x \in T
  BY <1>4, <1>5, TreeInduct
<1>7. \A x \in Dir : h[x] = IF x \in {d, Root} THEN <<>> ELSE Below1(h[Parent[x]], x)
  <2> TAKE x \in Dir
  <2>1. x # Root => h[Parent[x]] \in Seq(Piece)
    BY <1>6, TreeAssumption DEF T
  <2> QED  BY <1>2, <1>3, <2>1
<1>8. h = [x \in Dir |-> h[x]]
  BY <1>3
<1>9. FromFcn(h, d)
  BY <1>7, <1>8, Zenon DEF FromFcn
<1> DEFINE g == From(d)
<1>10. FromFcn(g, d)
  BY <1>9, Zenon DEF From
<1>11. \A f : Below(d, f) = g[DirOf[f]] \o NameOf[f]
  BY Zenon DEF Below, From, FromFcn, Below1
<1> HIDE DEF g
<1>12. \A x \in Dir : g[x] = IF x \in {d, Root} THEN <<>> ELSE Below1(g[Parent[x]], x)
  BY <1>10, Zenon DEF FromFcn
<1> DEFINE U == {x \in Dir : g[x] \in Seq(Piece)}
<1>13. Root \in U
  BY <1>0, <1>12, TreeAssumption
<1>14. ASSUME NEW x \in Dir \ {Root}, Parent[x] \in U PROVE x \in U
  <2>1. g[x] = (IF x = d THEN <<>> ELSE Below1(g[Parent[x]], x)) /\ g[Parent[x]] \in Seq(Piece)
    BY <1>12, <1>14
  <2> QED  BY <1>0, <2>1, NamesAre
<1> HIDE DEF U
<1>15. \A x \in Dir : x \in U
  BY <1>13, <1>14, TreeInduct
<1>16. \A x \in Dir : g[x] \in Seq(Piece)
  BY <1>15 DEF U
<1>17. \A x \in Dir : x \notin {d, Root} => g[x] = g[Parent[x]] \o Step(x)
  <2> SUFFICES ASSUME NEW x \in Dir \ {Root}, x # d PROVE g[x] = g[Parent[x]] \o Step(x)
    OBVIOUS
  <2>1. Parent[x] \in Dir
    BY TreeAssumption
  <2> QED  BY <1>12, <1>16, <2>1, NamesAre
<1> QED  BY <1>11, <1>12, <1>16, <1>17 DEF g

-----------------------------------------------------------------------------
(* Prefixes.                                                                 *)

Begins(s, t) == Len(s) <= Len(t) /\ \A i \in 1 .. Len(s) : s[i] = t[i]

LEMMA PrefixIs ==
  ASSUME NEW S, NEW s \in Seq(S), NEW t \in Seq(S)
  PROVE  IsPrefix(s, t) <=> Begins(s, t)
<1>1. Len(s) \in Nat /\ Len(t) \in Nat
  BY LenProperties
<1>2. CASE Len(s) <= Len(t)
  <2> DEFINE n == Len(s)
             u == SubSeq(t, 1, n)
             v == SubSeq(s, 1, n)
  <2>1. v = s
    BY <1>1, SubSeqFull
  <2>2. u \in Seq(S) /\ Len(u) = n /\ \A i \in 1 .. n : u[i] = t[i]
    <3>1. \A i \in 1 .. n : t[i] \in S
      BY <1>1, <1>2, ElementOfSeq
    <3> QED  BY <1>1, <1>2, <3>1, SubSeqProperties
  <2>3. IsPrefix(s, t) <=> v = u
    BY <1>2 DEF IsPrefix
  <2> HIDE DEF u, v, n
  <2>4. s = u <=> \A i \in 1 .. n : s[i] = t[i]
    <3>1. ASSUME \A i \in 1 .. n : s[i] = t[i] PROVE s = u
      BY <2>2, <3>1, SeqEqual DEF n
    <3> QED  BY <2>2, <3>1
  <2> QED  BY <1>2, <2>1, <2>3, <2>4 DEF Begins, n
<1>3. CASE ~(Len(s) <= Len(t))
  BY <1>3 DEF IsPrefix, Begins
<1> QED  BY <1>2, <1>3

LEMMA ConcatIs ==
  ASSUME NEW S, NEW s \in Seq(S), NEW t \in Seq(S)
  PROVE  /\ s \o t \in Seq(S) /\ Len(s \o t) = Len(s) + Len(t) /\ Len(s) \in Nat /\ Len(t) \in Nat
         /\ \A i \in 1 .. Len(s) : (s \o t)[i] = s[i]
         /\ \A i \in 1 .. Len(t) : (s \o t)[Len(s) + i] = t[i]
         /\ Begins(s, s \o t)
<1> DEFINE u == s \o t
           m == Len(s)
           n == Len(t)
<1>1. m \in Nat /\ n \in Nat
  BY LenProperties
<1>2. /\ u \in Seq(S) /\ Len(u) = m + n
      /\ \A i \in 1 .. m + n : u[i] = IF i <= m THEN s[i] ELSE t[i - m]
  BY ConcatProperties
<1> HIDE DEF u, m, n
<1>3. \A i \in 1 .. m : u[i] = s[i]
  BY <1>1, <1>2
<1>4. \A i \in 1 .. n : u[m + i] = t[i]
  <2> TAKE i \in 1 .. n
  <2> DEFINE j == m + i
  <2>1. j \in 1 .. m + n /\ ~(j <= m) /\ j - m = i
    BY <1>1
  <2> HIDE DEF j
  <2>2. u[j] = t[j - m]
    BY <1>2, <2>1
  <2> QED  BY <2>1, <2>2 DEF j
<1> QED  BY <1>1, <1>2, <1>3, <1>4 DEF Begins, u, m, n

LEMMA BeginsFirst ==
  ASSUME NEW S, NEW a \in Seq(S), NEW b \in Seq(S), NEW t \in Seq(S), Begins(a \o b, t)
  PROVE  Begins(a, t)
<1> DEFINE u == a \o b
<1>1. /\ Len(u) = Len(a) + Len(b) /\ Len(a) \in Nat /\ Len(b) \in Nat /\ Len(t) \in Nat
      /\ \A i \in 1 .. Len(a) : u[i] = a[i]
  BY ConcatIs, LenProperties
<1>2. Len(u) <= Len(t) /\ \A i \in 1 .. Len(u) : u[i] = t[i]
  BY DEF Begins
<1> HIDE DEF u
<1> QED  BY <1>1, <1>2 DEF Begins

LEMMA BeginsRest ==
  ASSUME NEW S, NEW a \in Seq(S), NEW b \in Seq(S), NEW c \in Seq(S), Begins(a \o b, a \o c)
  PROVE  Begins(b, c)
<1> DEFINE u == a \o b
           v == a \o c
<1>1. /\ Len(u) = Len(a) + Len(b) /\ Len(a) \in Nat /\ Len(b) \in Nat
      /\ \A i \in 1 .. Len(b) : u[Len(a) + i] = b[i]
  BY ConcatIs
<1>2. /\ Len(v) = Len(a) + Len(c) /\ Len(c) \in Nat
      /\ \A i \in 1 .. Len(c) : v[Len(a) + i] = c[i]
  BY ConcatIs
<1>3. Len(u) <= Len(v) /\ \A i \in 1 .. Len(u) : u[i] = v[i]
  BY DEF Begins
<1> HIDE DEF u, v
<1>4. Len(b) <= Len(c)
  BY <1>1, <1>2, <1>3
<1>5. ASSUME NEW i \in 1 .. Len(b) PROVE b[i] = c[i]
  <2>1. Len(a) + i \in 1 .. Len(u) /\ i \in 1 .. Len(c)
    BY <1>1, <1>2, <1>4
  <2> QED  BY <1>1, <1>2, <1>3, <2>1
<1> QED  BY <1>4, <1>5 DEF Begins

(* What is left of a path when that of a directory is taken away.              *)
LEMMA StripsFirst ==
  ASSUME NEW S, NEW a \in Seq(S), NEW b \in Seq(S), Len(b) # 0
  PROVE  IsStrictPrefix(a, a \o b) /\ Stripped(a \o b, a) = b
<1> DEFINE u == a \o b
<1>1. /\ u \in Seq(S) /\ Len(u) = Len(a) + Len(b) /\ Len(a) \in Nat /\ Len(b) \in Nat
      /\ Begins(a, u)
  BY ConcatIs
<1>2. SubSeq(u, Len(a) + 1, Len(u)) = b
  <2>1. SubSeq(a \o b, Len(a) + 1, Len(a) + Len(b)) = b
    BY ConcatSimplifications, SubSeqOfConcat2, SubSeqFull, LenProperties
  <2> QED  BY <1>1, <2>1
<1> HIDE DEF u
<1>3. a # u
  BY <1>1
<1>4. IsStrictPrefix(a, u)
  BY <1>1, <1>3, PrefixIs DEF IsStrictPrefix
<1> QED  BY <1>2, <1>4 DEF Stripped, u

(* One name and not another comes before a slash.                             *)
LEMMA SameName ==
  ASSUME NEW u \in Seq(Word), NEW v \in Seq(Word), NEW r \in Seq(Piece),
         Begins(u \o <<"/">>, (v \o <<"/">>) \o r)
  PROVE  u = v
<1> DEFINE slash == <<"/">>
           s == u \o slash
           t == v \o slash
           w == t \o r
<1>1. u \in Seq(Piece) /\ v \in Seq(Piece) /\ slash \in Seq(Piece) /\ Len(slash) = 1 /\ slash[1] = "/"
  <2>1. Word \subseteq Piece
    BY DEF Word, Piece
  <2>2. slash \in Seq(Piece)
    BY DEF Piece
  <2> QED  BY <2>1, <2>2, SeqMonotonic
<1> HIDE DEF slash
<1>2. ASSUME NEW x \in Seq(Piece)
      PROVE  /\ x \o slash \in Seq(Piece) /\ Len(x \o slash) = Len(x) + 1 /\ Len(x) \in Nat
             /\ \A i \in 1 .. Len(x) : (x \o slash)[i] = x[i]
             /\ (x \o slash)[Len(x) + 1] = "/"
  <2> DEFINE y == x \o slash
  <2>1. /\ y \in Seq(Piece) /\ Len(y) = Len(x) + Len(slash) /\ Len(x) \in Nat
        /\ \A i \in 1 .. Len(x) : y[i] = x[i]
        /\ \A i \in 1 .. Len(slash) : y[Len(x) + i] = slash[i]
    <3>1. slash \in Seq(Piece)
      BY <1>1
    <3> QED  BY ONLY x \in Seq(Piece), <3>1, ConcatIs
  <2> HIDE DEF y
  <2>2. 1 \in 1 .. Len(slash)
    BY <1>1
  <2>3. y[Len(x) + 1] = "/"
    BY <1>1, <2>1, <2>2
  <2> QED  BY <1>1, <2>1, <2>3 DEF y
<1>3. /\ Len(s) = Len(u) + 1 /\ Len(u) \in Nat /\ \A i \in 1 .. Len(u) : s[i] = u[i]
      /\ s[Len(u) + 1] = "/"
  BY <1>1, <1>2
<1>4. /\ t \in Seq(Piece) /\ Len(t) = Len(v) + 1 /\ Len(v) \in Nat
      /\ t[Len(v) + 1] = "/" /\ \A i \in 1 .. Len(v) : t[i] = v[i]
  BY <1>1, <1>2
<1> HIDE DEF s, t
<1>5. /\ Len(w) = Len(t) + Len(r) /\ Len(r) \in Nat /\ \A i \in 1 .. Len(t) : w[i] = t[i]
  BY <1>4, ConcatIs
<1>6. Len(s) <= Len(w) /\ \A i \in 1 .. Len(s) : s[i] = w[i]
  BY DEF Begins, s, t, slash
<1> HIDE DEF w
<1>7. /\ \A i \in 1 .. Len(u) : u[i] \in Word
      /\ \A i \in 1 .. Len(v) : v[i] \in Word
      /\ "/" \notin Word
  BY ElementOfSeq, <1>3, <1>4 DEF Word
<1>8. Len(u) = Len(v)
  <2>1. ASSUME Len(u) < Len(v) PROVE FALSE
    <3>1. Len(u) + 1 \in 1 .. Len(v) /\ Len(u) + 1 \in 1 .. Len(s) /\ Len(u) + 1 \in 1 .. Len(t)
      BY <1>3, <1>4, <2>1
    <3>2. v[Len(u) + 1] = "/"
      BY <1>3, <1>4, <1>5, <1>6, <3>1
    <3> QED  BY <1>7, <3>1, <3>2
  <2>2. ASSUME Len(v) < Len(u) PROVE FALSE
    <3>1. Len(v) + 1 \in 1 .. Len(u) /\ Len(v) + 1 \in 1 .. Len(s) /\ Len(v) + 1 \in 1 .. Len(t)
      BY <1>3, <1>4, <2>2
    <3>2. u[Len(v) + 1] = "/"
      BY <1>3, <1>4, <1>5, <1>6, <3>1
    <3> QED  BY <1>7, <3>1, <3>2
  <2> QED  BY <1>3, <1>4, <2>1, <2>2
<1>9. ASSUME NEW i \in 1 .. Len(u) PROVE u[i] = v[i]
  <2>1. i \in 1 .. Len(s) /\ i \in 1 .. Len(t) /\ i \in 1 .. Len(v)
    BY <1>3, <1>4, <1>8
  <2> QED  BY <1>3, <1>4, <1>5, <1>6, <2>1
<1> QED  BY <1>8, <1>9, SeqEqual

-----------------------------------------------------------------------------
(* The path of a file from the directories it is in, and from no others.       *)

(* Concatenation is associative.                                              *)
LEMMA Assoc == \A a, b, c \in Seq(Piece) : (a \o b) \o c = a \o (b \o c)
<1> TAKE a, b, c \in Seq(Piece)
<1> QED  BY ConcatAssociative

LEMMA PathSplits ==
  ASSUME NEW x \in Dir
  PROVE  \A d \in Dir : x \in Over[d] => PathOf(d) = PathOf(x) \o From(x)[d]
<1> DEFINE T == {d \in Dir : x \in Over[d] => PathOf(d) = PathOf(x) \o From(x)[d]}
<1>1. \A d \in Dir : PathOf(d) \in Seq(Piece) /\ From(x)[d] \in Seq(Piece)
  BY PathOfIs, FromIs
<1>2. PathOf(x) = PathOf(x) \o <<>> /\ From(x)[x] = <<>>
  BY <1>1, ConcatEmptySeq, FromIs
<1>3. Root \in T
  BY <1>2, OverIs, TreeAssumption
<1>4. ASSUME NEW d \in Dir \ {Root}, Parent[d] \in T, x \in Over[d]
      PROVE  PathOf(d) = PathOf(x) \o From(x)[d]
  <2>1. CASE x = d
    BY <1>2, <2>1
  <2>2. CASE x # d
    <3>1. Parent[d] \in Dir /\ x \in Over[Parent[d]]
      BY <1>4, <2>2, OverIs, TreeAssumption
    <3>2. PathOf(Parent[d]) = PathOf(x) \o From(x)[Parent[d]]
      BY <1>4, <3>1
    <3>3. PathOf(d) = PathOf(Parent[d]) \o Step(d)
      BY PathOfIs
    <3>4. From(x)[d] = From(x)[Parent[d]] \o Step(d)
      BY <2>2, FromIs
    <3>5. /\ PathOf(x) \in Seq(Piece) /\ From(x)[Parent[d]] \in Seq(Piece)
          /\ Step(d) \in Seq(Piece)
      BY <1>1, <3>1, NamesAre
    <3>6. (PathOf(x) \o From(x)[Parent[d]]) \o Step(d) = PathOf(x) \o (From(x)[Parent[d]] \o Step(d))
      BY ONLY <3>5, Assoc, Zenon
    <3> QED  BY <3>2, <3>3, <3>4, <3>6, Zenon
  <2> QED  BY <2>1, <2>2
<1>5. \A d \in Dir \ {Root} : Parent[d] \in T => d \in T
  BY <1>4
<1> HIDE DEF T
<1>6. \A d \in Dir : d \in T
  BY <1>3, <1>5, TreeInduct
<1> QED  BY <1>6 DEF T

LEMMA FullNameSplits ==
  ASSUME NEW f \in File, NEW x \in Dir
  PROVE  /\ Below(x, f) \in Seq(Piece) /\ Len(Below(x, f)) \in Nat \ {0}
         /\ FullName(f) \in Seq(Piece) /\ PathOf(x) \in Seq(Piece)
         /\ x \in Above(f) => FullName(f) = PathOf(x) \o Below(x, f)
<1> DEFINE e == DirOf[f]
           n == NameOf[f]
<1>1. e \in Dir /\ n \in Seq(Piece) /\ Len(n) \in Nat \ {0} /\ Above(f) = Over[e]
  BY TreeAssumption, NamesAre, OverIs
<1>2. \A y : Below(y, f) = From(y)[e] \o n
  BY FromIs
<1>3. \A y : From(y)[e] \in Seq(Piece)
  BY <1>1, FromIs
<1>4. \A y \in Dir : PathOf(y) \in Seq(Piece)
  BY PathOfIs
<1> HIDE DEF e, n
<1>5. \A y : Below(y, f) \in Seq(Piece) /\ Len(Below(y, f)) \in Nat \ {0}
  <2> TAKE y
  <2>1. /\ From(y)[e] \o n \in Seq(Piece) /\ Len(From(y)[e]) \in Nat
        /\ Len(From(y)[e] \o n) = Len(From(y)[e]) + Len(n)
    BY <1>1, <1>3, ConcatIs
  <2>2. Below(y, f) = From(y)[e] \o n
    BY <1>2
  <2>3. Len(From(y)[e] \o n) \in Nat \ {0}
    <3> DEFINE u == Len(From(y)[e])
               v == Len(n)
    <3>1. u \in Nat /\ v \in Nat \ {0} /\ Len(From(y)[e] \o n) = u + v
      BY <1>1, <2>1
    <3> HIDE DEF u, v
    <3>2. u + v \in Nat \ {0}
      BY <3>1
    <3> QED  BY <3>1, <3>2, Zenon
  <2> QED  BY <2>1, <2>2, <2>3, Zenon
<1>6. ASSUME NEW y \in Dir, y \in Over[e] PROVE PathOf(e) \o n = PathOf(y) \o Below(y, f)
  <2>1. PathOf(e) = PathOf(y) \o From(y)[e]
    BY <1>1, <1>6, PathSplits
  <2>2. PathOf(y) \in Seq(Piece) /\ From(y)[e] \in Seq(Piece) /\ n \in Seq(Piece)
    BY <1>1, <1>3, <1>4, <1>6, Zenon
  <2>3. (PathOf(y) \o From(y)[e]) \o n = PathOf(y) \o (From(y)[e] \o n)
    BY ONLY <2>2, Assoc, Zenon
  <2> QED  BY <1>2, <2>1, <2>3, Zenon
<1>7. FullName(f) = PathOf(e) \o n
  <2>1. PathOf(Root) = <<"/">> /\ Root \in Dir /\ Root \in Over[e]
    BY <1>1, PathOfIs, OverIs, TreeAssumption
  <2>2. PathOf(e) \o n = PathOf(Root) \o Below(Root, f)
    BY <1>6, <2>1
  <2> QED  BY <2>1, <2>2, Zenon DEF FullName
<1>8. FullName(f) \in Seq(Piece)
  BY <1>1, <1>4, <1>7, ConcatIs
<1> QED  BY <1>1, <1>4, <1>5, <1>6, <1>7, <1>8

(* A path from a directory begins with a name.                                 *)
LEMMA FromFirst ==
  ASSUME NEW x
  PROVE  \A d \in Dir : Len(From(x)[d]) # 0 => From(x)[d][1] # "/"
<1> DEFINE T == {d \in Dir : Len(From(x)[d]) # 0 => From(x)[d][1] # "/"}
<1>1. Len(<<>>) = 0
  BY EmptySeq
<1>2. Root \in T
  BY <1>1, FromIs, TreeAssumption
<1>3. ASSUME NEW d \in Dir \ {Root}, Parent[d] \in T PROVE d \in T
  <2>1. CASE d = x
    BY <1>1, <2>1, FromIs
  <2>2. CASE d # x
    <3> DEFINE s == From(x)[Parent[d]]
               t == Step(d)
               u == s \o t
               n == NameOf[d]
    <3>1. From(x)[d] = u /\ Parent[d] \in Dir
      BY <2>2, FromIs, TreeAssumption
    <3>2. s \in Seq(Piece) /\ t \in Seq(Piece) /\ (Len(s) # 0 => s[1] # "/")
      BY <1>3, <3>1, FromIs, NamesAre
    <3>3. t[1] # "/" /\ Len(t) \in Nat \ {0}
      <4>1. n \in Seq(Word) /\ n \in Seq(Piece) /\ Len(n) \in Nat \ {0} /\ <<"/">> \in Seq(Piece)
        <5>1. <<"/">> \in Seq(Piece)
          BY DEF Piece
        <5> QED  BY <5>1, NamesAre
      <4> HIDE DEF n
      <4>2. \A i \in 1 .. Len(n) : (n \o <<"/">>)[i] = n[i]
        BY <4>1, ConcatIs
      <4>3. n[1] \in Word /\ 1 \in 1 .. Len(n)
        BY <4>1, ElementOfSeq
      <4>4. Len(t) = Len(n) + 1
        BY NamesAre DEF n
      <4> QED  BY <4>1, <4>2, <4>3, <4>4 DEF Step, Word, n
    <3> HIDE DEF s, t
    <3>4. /\ Len(s) \in Nat /\ \A i \in 1 .. Len(s) : u[i] = s[i]
          /\ \A i \in 1 .. Len(t) : u[Len(s) + i] = t[i]
      BY <3>2, ConcatIs
    <3> HIDE DEF u
    <3>5. u[1] # "/"
      <4>1. CASE Len(s) = 0
        <5>1. 1 \in 1 .. Len(t) /\ Len(s) + 1 = 1
          BY <3>3, <4>1
        <5> QED  BY <3>3, <3>4, <5>1
      <4>2. CASE Len(s) # 0
        <5>1. 1 \in 1 .. Len(s)
          BY <3>4, <4>2
        <5> QED  BY <3>2, <3>4, <4>2, <5>1
      <4> QED  BY <4>1, <4>2
    <3> QED  BY <3>1, <3>5
  <2> QED  BY <2>1, <2>2
<1> HIDE DEF T
<1>4. \A d \in Dir : d \in T
  BY <1>2, <1>3, TreeInduct
<1> QED  BY <1>4 DEF T

LEMMA BelowFirst == ASSUME NEW f \in File, NEW x PROVE Below(x, f)[1] # "/"
<1> DEFINE s == From(x)[DirOf[f]]
           n == NameOf[f]
           u == s \o n
<1>1. /\ Below(x, f) = u /\ s \in Seq(Piece) /\ n \in Seq(Piece) /\ n \in Seq(Word)
      /\ Len(n) \in Nat \ {0} /\ (Len(s) # 0 => s[1] # "/")
  BY FromIs, FromFirst, NamesAre, TreeAssumption
<1> HIDE DEF s, n
<1>2. /\ Len(s) \in Nat /\ \A i \in 1 .. Len(s) : u[i] = s[i]
      /\ \A i \in 1 .. Len(n) : u[Len(s) + i] = n[i]
  BY <1>1, ConcatIs
<1>3. n[1] # "/"
  BY <1>1, ElementOfSeq DEF Word
<1> HIDE DEF u
<1>4. CASE Len(s) = 0
  <2>1. 1 \in 1 .. Len(n) /\ Len(s) + 1 = 1
    BY <1>1, <1>4
  <2> QED  BY <1>1, <1>2, <1>3, <2>1
<1>5. CASE Len(s) # 0
  <2>1. 1 \in 1 .. Len(s)
    BY <1>2, <1>5
  <2> QED  BY <1>1, <1>2, <1>5, <2>1
<1> QED  BY <1>4, <1>5

(* The directory that comes first on the way down from another.                *)
Leads(c, p, d) ==
  /\ c \in Over[d] /\ c \in Dir \ {Root} /\ Parent[c] = p
  /\ From(p)[d] = Step(c) \o From(c)[d]

LEMMA FirstStep ==
  ASSUME NEW p \in Dir
  PROVE  \A d \in Dir : p \in Over[d] /\ p # d => \E c : Leads(c, p, d)
<1> DEFINE T == {d \in Dir : p \in Over[d] /\ p # d => \E c : Leads(c, p, d)}
<1>1. Root \in T
  BY OverIs, TreeAssumption
<1>2. ASSUME NEW d \in Dir \ {Root}, Parent[d] \in T, p \in Over[d], p # d
      PROVE  \E c : Leads(c, p, d)
  <2> DEFINE q == Parent[d]
  <2>1. q \in Dir /\ p \in Over[q] /\ Over[d] = {d} \cup Over[q] /\ Step(d) \in Seq(Piece)
    BY <1>2, OverIs, NamesAre, TreeAssumption
  <2>2. From(p)[d] = From(p)[q] \o Step(d)
    BY <1>2, FromIs
  <2>3. CASE p = q
    <3>1. From(p)[q] = <<>> /\ From(d)[d] = <<>>
      BY <2>1, <2>3, FromIs
    <3>2. <<>> \o Step(d) = Step(d) /\ Step(d) \o <<>> = Step(d)
      BY <2>1, ConcatEmptySeq
    <3>3. From(p)[d] = Step(d) \o From(d)[d]
      BY <2>2, <3>1, <3>2, Zenon
    <3>4. Leads(d, p, d)
      BY <2>1, <2>3, <3>3 DEF Leads
    <3> QED  BY <3>4
  <2>4. CASE p # q
    <3>1. PICK c : Leads(c, p, q)
      BY <1>2, <2>1, <2>4
    <3>2. c \in Over[q] /\ c \in Dir \ {Root} /\ Parent[c] = p /\ From(p)[q] = Step(c) \o From(c)[q]
      BY <3>1 DEF Leads
    <3>3. c # d
      BY <3>2, NoCycle
    <3>4. From(c)[d] = From(c)[q] \o Step(d)
      BY <3>3, FromIs
    <3>5. Step(c) \in Seq(Piece) /\ From(c)[q] \in Seq(Piece)
      BY <2>1, <3>2, NamesAre, FromIs
    <3>6. (Step(c) \o From(c)[q]) \o Step(d) = Step(c) \o (From(c)[q] \o Step(d))
      BY ONLY <2>1, <3>5, Assoc, Zenon
    <3>7. From(p)[d] = Step(c) \o From(c)[d]
      BY <2>2, <3>2, <3>4, <3>6, Zenon
    <3>8. Leads(c, p, d)
      BY <2>1, <3>2, <3>7 DEF Leads
    <3> QED  BY <3>8
  <2> QED  BY <2>3, <2>4
<1>3. \A d \in Dir \ {Root} : Parent[d] \in T => d \in T
  BY <1>2
<1> HIDE DEF T
<1>4. \A d \in Dir : d \in T
  BY <1>1, <1>3, TreeInduct
<1> QED  BY <1>4 DEF T

(* Names of files begin with the paths of the directories they are in only.     *)
LEMMA OnlyAbove ==
  ASSUME NEW f \in File
  PROVE  \A d \in Dir : Begins(PathOf(d), FullName(f)) => d \in Above(f)
<1> DEFINE e == DirOf[f]
           n == NameOf[f]
           T == {d \in Dir : Begins(PathOf(d), FullName(f)) => d \in Above(f)}
<1>1. e \in Dir /\ n \in Seq(Word) /\ n \in Seq(Piece) /\ Above(f) = Over[e]
  BY TreeAssumption, NamesAre, OverIs
<1>2. Root \in T
  BY <1>1, OverIs, TreeAssumption
<1>3. ASSUME NEW d \in Dir \ {Root}, Parent[d] \in T, Begins(PathOf(d), FullName(f))
      PROVE  d \in Above(f)
  <2> DEFINE p == Parent[d]
             b == Below(p, f)
  <2>1. /\ p \in Dir /\ PathOf(d) = PathOf(p) \o Step(d) /\ Step(d) \in Seq(Piece)
        /\ NameOf[d] \in Seq(Word)
    BY PathOfIs, NamesAre, TreeAssumption
  <2>2. b \in Seq(Piece) /\ PathOf(p) \in Seq(Piece) /\ FullName(f) \in Seq(Piece)
    BY <2>1, FullNameSplits
  <2>3. Begins(PathOf(p), FullName(f))
    BY <1>3, <2>1, <2>2, BeginsFirst
  <2>4. p \in Over[e]
    BY <1>1, <1>3, <2>1, <2>3
  <2>5. FullName(f) = PathOf(p) \o b
    BY <1>1, <2>1, <2>4, FullNameSplits
  <2>6. Begins(Step(d), b)
    <3>1. Begins(PathOf(p) \o Step(d), PathOf(p) \o b)
      BY <1>3, <2>1, <2>5
    <3> QED  BY <2>1, <2>2, <3>1, BeginsRest
  <2>7. b = From(p)[e] \o n
    BY FromIs
  <2>8. CASE p = e
    <3>1. From(p)[e] = <<>>
      BY <1>1, <2>8, FromIs
    <3>2. b = n
      BY <1>1, <2>7, <3>1, ConcatEmptySeq
    <3>3. \A i \in 1 .. Len(n) : n[i] # "/"
      <4>1. \A i \in 1 .. Len(n) : n[i] \in Word
        BY <1>1, ElementOfSeq
      <4> QED  BY <4>1 DEF Word
    <3> DEFINE s == Step(d)
               m == Len(NameOf[d]) + 1
    <3>4. Len(s) = m /\ m \in 1 .. m /\ s[m] = "/"
      <4> DEFINE x == NameOf[d]
                 slash == <<"/">>
      <4>1. x \in Seq(Piece) /\ slash \in Seq(Piece) /\ Len(slash) = 1 /\ slash[1] = "/"
        <5>1. slash \in Seq(Piece)
          BY DEF Piece
        <5> QED  BY <5>1, NamesAre
      <4>2. s = x \o slash
        BY Zenon DEF Step
      <4> HIDE DEF x, slash
      <4>3. x \in Seq(Piece) /\ slash \in Seq(Piece)
        BY <4>1
      <4>4. /\ Len(x \o slash) = Len(x) + Len(slash) /\ Len(x) \in Nat
            /\ \A i \in 1 .. Len(slash) : (x \o slash)[Len(x) + i] = slash[i]
        BY ONLY <4>3, ConcatIs
      <4>5. 1 \in 1 .. Len(slash) /\ Len(x) + 1 \in 1 .. Len(x) + 1
        BY <4>1, <4>4
      <4>6. (x \o slash)[Len(x) + 1] = "/"
        BY <4>1, <4>4, <4>5
      <4> HIDE DEF s
      <4> QED  BY <4>1, <4>2, <4>4, <4>5, <4>6 DEF x
    <3>5. Len(s) <= Len(n) /\ \A i \in 1 .. Len(s) : s[i] = n[i]
      BY <2>6, <3>2 DEF Begins
    <3> HIDE DEF s, m, n
    <3>6. m \in 1 .. Len(n)
      <4>1. Len(n) \in Nat
        BY <1>1, LenProperties
      <4> QED  BY <3>4, <3>5, <4>1
    <3> QED  BY <3>3, <3>4, <3>5, <3>6
  <2>9. CASE p # e
    <3>1. PICK c : Leads(c, p, e)
      BY <1>1, <2>1, <2>4, <2>9, FirstStep
    <3>2. c \in Over[e] /\ c \in Dir \ {Root} /\ Parent[c] = p /\ From(p)[e] = Step(c) \o From(c)[e]
      BY <3>1 DEF Leads
    <3>3. /\ Step(c) \in Seq(Piece) /\ From(c)[e] \in Seq(Piece) /\ NameOf[c] \in Seq(Word)
          /\ From(c)[e] \o n \in Seq(Piece)
      BY <1>1, <3>2, FromIs, NamesAre, ConcatProperties
    <3>4. (Step(c) \o From(c)[e]) \o n = Step(c) \o (From(c)[e] \o n)
      BY ONLY <1>1, <3>3, Assoc, Zenon
    <3>5. Begins(NameOf[d] \o <<"/">>, (NameOf[c] \o <<"/">>) \o (From(c)[e] \o n))
      BY <2>6, <2>7, <3>2, <3>4, Zenon DEF Step
    <3>6. NameOf[d] = NameOf[c]
      BY <2>1, <3>3, <3>5, SameName
    <3>7. d = c
      BY <3>2, <3>6, NamesAssumption
    <3> QED  BY <1>1, <3>2, <3>7
  <2> QED  BY <2>8, <2>9
<1>4. \A d \in Dir \ {Root} : Parent[d] \in T => d \in T
  BY <1>3
<1> HIDE DEF T
<1>5. \A d \in Dir : d \in T
  BY <1>2, <1>4, TreeInduct
<1> QED  BY <1>5 DEF T

(* Paths begin with a slash.                                                  *)
LEMMA StartsAtRoot == ASSUME NEW d \in Dir PROVE Begins(<<"/">>, PathOf(d))
<1>1. Root \in Over[d] /\ Root \in Dir /\ PathOf(Root) = <<"/">>
  BY OverIs, PathOfIs, TreeAssumption
<1>2. PathOf(d) = PathOf(Root) \o From(Root)[d]
  BY <1>1, PathSplits
<1>3. PathOf(Root) \in Seq(Piece) /\ From(Root)[d] \in Seq(Piece)
  BY <1>1, PathOfIs, FromIs
<1>4. Begins(PathOf(Root), PathOf(Root) \o From(Root)[d])
  BY <1>3, ConcatIs
<1> QED  BY <1>1, <1>2, <1>4, Zenon

LEMMA SeqsMore == ASSUME NEW S, NEW T, NEW s \in Seq(S) PROVE s \in Seq(S \cup T) /\ s \in Seq(T \cup S)
<1>1. Len(s) \in Nat /\ DOMAIN s = 1 .. Len(s) /\ \A i \in 1 .. Len(s) : s[i] \in S
  BY LenProperties, ElementOfSeq
<1>2. s = [i \in 1 .. Len(s) |-> s[i]]
  BY LenProperties
<1> QED  BY <1>1, <1>2, IsASeq

-----------------------------------------------------------------------------
(* The guards of headers.                                                    *)

TopFcn(g, m) ==
  g = [x \in Dir |-> IF x = Root THEN None
                     ELSE IF g[Parent[x]] # None THEN g[Parent[x]]
                     ELSE IF m[x] # {} THEN x ELSE None]
Topmost(m) == CHOOSE g : TopFcn(g, m)

LEMMA TopmostIs ==
  ASSUME NEW m
  PROVE  /\ Topmost(m)[Root] = None
         /\ \A x \in Dir \ {Root} :
              Topmost(m)[x] = IF Topmost(m)[Parent[x]] # None THEN Topmost(m)[Parent[x]]
                              ELSE IF m[x] # {} THEN x ELSE None
         /\ \A x : TopMarked(m, x) = Topmost(m)[x]
<1> DEFINE V == Dir \cup {None}
           S == [p \in Dir \X V |-> IF p[2] # None THEN p[2]
                                    ELSE IF m[p[1]] # {} THEN p[1] ELSE None]
<1>1. PICK h : Growing(h, None, S)
  BY TreeFunction
<1>2. \A x \in Dir : \A v \in V : S[<<x, v>>] = IF v # None THEN v ELSE IF m[x] # {} THEN x ELSE None
  OBVIOUS
<1> HIDE DEF S
<1>3. h = [x \in Dir |-> IF x = Root THEN None ELSE S[<<x, h[Parent[x]]>>]]
  BY <1>1, Zenon DEF Growing
<1> DEFINE T == {x \in Dir : h[x] \in V}
<1>4. Root \in T
  BY <1>3, TreeAssumption
<1>5. ASSUME NEW x \in Dir \ {Root}, Parent[x] \in T PROVE x \in T
  BY <1>2, <1>3, <1>5
<1> HIDE DEF T
<1>6. \A x \in Dir : x \in T
  BY <1>4, <1>5, TreeInduct
<1>7. \A x \in Dir : h[x] = IF x = Root THEN None
                            ELSE IF h[Parent[x]] # None THEN h[Parent[x]]
                            ELSE IF m[x] # {} THEN x ELSE None
  <2> TAKE x \in Dir
  <2>1. CASE x = Root
    BY <1>3, <2>1
  <2>2. CASE x # Root
    <3> DEFINE v == h[Parent[x]]
    <3>1. v \in V
      BY <1>6, <2>2, TreeAssumption DEF T
    <3>2. h[x] = S[<<x, v>>]
      BY <1>3, <2>2
    <3> HIDE DEF v, V
    <3>3. S[<<x, v>>] = IF v # None THEN v ELSE IF m[x] # {} THEN x ELSE None
      BY <1>2, <3>1
    <3> QED  BY <2>2, <3>2, <3>3 DEF v
  <2> QED  BY <2>1, <2>2
<1>8. h = [x \in Dir |-> h[x]]
  BY <1>3
<1>9. TopFcn(h, m)
  BY <1>7, <1>8, Zenon DEF TopFcn
<1> DEFINE g == Topmost(m)
<1>10. TopFcn(g, m)
  BY <1>9, Zenon DEF Topmost
<1>11. \A x : TopMarked(m, x) = g[x]
  BY Zenon DEF TopMarked, Topmost, TopFcn
<1> HIDE DEF g
<1>12. \A x \in Dir : g[x] = IF x = Root THEN None
                             ELSE IF g[Parent[x]] # None THEN g[Parent[x]]
                             ELSE IF m[x] # {} THEN x ELSE None
  BY <1>10, Zenon DEF TopFcn
<1> QED  BY <1>11, <1>12, TreeAssumption DEF g

(* The topmost checkout is a checkout, and that of a directory is that of every  *)
(* checkout the directory is in.                                             *)
LEMMA TopmostKnown ==
  ASSUME NEW m
  PROVE  \A d \in Dir :
           LET t == Topmost(m)[d]
           IN /\ t # None => t \in Over[d] /\ t # Root /\ m[t] # {}
              /\ \A x \in Over[d] : x # Root /\ m[x] # {} => t # None /\ t = Topmost(m)[x]
<1> DEFINE g == Topmost(m)
           T == {d \in Dir : /\ g[d] # None => g[d] \in Over[d] /\ g[d] # Root /\ m[g[d]] # {}
                             /\ \A x \in Over[d] : g[x] # None => g[d] = g[x]}
<1>1. /\ g[Root] = None
      /\ \A x \in Dir \ {Root} : g[x] = IF g[Parent[x]] # None THEN g[Parent[x]]
                                        ELSE IF m[x] # {} THEN x ELSE None
  BY TopmostIs
<1> HIDE DEF g
<1>2. Root \in T
  BY <1>1, OverIs, TreeAssumption
<1>3. ASSUME NEW d \in Dir \ {Root}, Parent[d] \in T PROVE d \in T
  <2>1. Over[d] = {d} \cup Over[Parent[d]] /\ d \in Dir /\ Parent[d] \in Dir /\ Parent[d] \in Over[Parent[d]]
    BY OverIs, TreeAssumption
  <2>2. g[d] = IF g[Parent[d]] # None THEN g[Parent[d]] ELSE IF m[d] # {} THEN d ELSE None
    BY <1>1
  <2>3. g[d] # None => g[d] \in Over[d] /\ g[d] # Root /\ m[g[d]] # {}
    BY <1>3, <2>1, <2>2
  <2>4. ASSUME NEW x \in Over[d], g[x] # None PROVE g[d] = g[x]
    BY <1>3, <2>1, <2>2, <2>4
  <2> QED  BY <2>1, <2>3, <2>4
<1> HIDE DEF T
<1>4. \A d \in Dir : d \in T
  BY <1>2, <1>3, TreeInduct
<1>5. ASSUME NEW d \in Dir, NEW x \in Over[d], x # Root, m[x] # {} PROVE g[d] # None /\ g[d] = g[x]
  <2>1. x \in Dir
    BY OverIs
  <2>2. g[x] # None
    <3>1. g[x] = IF g[Parent[x]] # None THEN g[Parent[x]] ELSE x
      BY <1>1, <1>5, <2>1
    <3> QED  BY <2>1, <3>1, NoneAssumption
  <2> QED  BY <1>4, <1>5, <2>2 DEF T
<1> QED  BY <1>4, <1>5, Zenon DEF T, g

(* Whatever the marks, a name in a repository is the path from somewhere or the *)
(* full name.                                                                *)
LEMMA RepositoryNameIs ==
  ASSUME NEW m, NEW repository, NEW f
  PROVE  RepositoryName(m, repository, f) = FullName(f)
         \/ \E x : RepositoryName(m, repository, f) = Below(x, f)
<1> DEFINE top == TopMarked(m, DirOf[f])
           svn == TopOfSvn(m, DirOf[f])
<1> HIDE DEF top, svn
<1>1. RepositoryName(m, repository, f) =
        CASE repository \in Above(f) -> Below(repository, f)
          [] repository \notin Above(f) /\ ".svn" \in m[DirOf[f]] -> Below(svn, f)
          [] OTHER -> IF top = None THEN FullName(f) ELSE Below(top, f)
  BY Zenon DEF RepositoryName, top, svn
<1>2. CASE repository \in Above(f)
  BY <1>1, <1>2
<1>3. CASE repository \notin Above(f) /\ ".svn" \in m[DirOf[f]]
  BY <1>1, <1>3
<1>4. CASE repository \notin Above(f) /\ ".svn" \notin m[DirOf[f]]
  BY <1>1, <1>4
<1> QED  BY <1>2, <1>3, <1>4

LEMMA BelowIs == ASSUME NEW f \in File, NEW x PROVE Below(x, f) \in Seq(Piece)
<1> DEFINE s == From(x)[DirOf[f]]
           n == NameOf[f]
<1>1. Below(x, f) = s \o n /\ s \in Seq(Piece) /\ n \in Seq(Piece)
  BY FromIs, NamesAre, TreeAssumption
<1> HIDE DEF s, n
<1> QED  BY <1>1, ConcatIs

(* A root that a CPPLINT.cfg sets.                                            *)
RootSet(d, o) == [text |-> PathOf(d) \o o.text, dir |-> o.dir]

LEMMA FixupFromRoot ==
  ASSUME NEW d \in Dir, NEW o, RootLeads(d, o), NEW f \in File, NEW name,
         name = FullName(f) \/ \E x : name = Below(x, f), RootSet(d, o) # NoRoot
  PROVE  FixupPathFromRoot(RootSet(d, o), name, FullName(f)) =
           IF o.dir \in Above(f) THEN Below(o.dir, f) ELSE name
<1> DEFINE root == RootSet(d, o)
           text == PathOf(d) \o o.text
           full == FullName(f)
           S == Piece \cup ToSet(o.text)
<1>1. o.dir \in Dir \cup {None} /\ Above(f) \subseteq Dir /\ None \notin Dir
  BY OverIs, TreeAssumption, NoneAssumption DEF RootLeads
<1>2. full \in Seq(Piece) /\ name \in Seq(Piece)
  BY FullNameSplits, BelowIs, TreeAssumption
<1>3. \A s \in Seq(Piece) : s \in Seq(S)
  BY SeqsMore
<1>4. o.text \in Seq(S)
  BY SeqsMore DEF RootLeads
<1>5. text \in Seq(S) /\ full \in Seq(S) /\ name \in Seq(S) /\ PathOf(d) \in Seq(S)
  <2>1. PathOf(d) \in Seq(S)
    BY <1>3, PathOfIs
  <2> HIDE DEF S
  <2> QED  BY <1>2, <1>3, <1>4, <2>1, ConcatIs
<1>6. root.text = text /\ root.dir = o.dir
  BY DEF RootSet
<1>7. FixupPathFromRoot(root, name, full) =
        IF IsStrictPrefix(text, name) THEN Stripped(name, text)
        ELSE IF o.dir # None /\ IsStrictPrefix(PathOf(o.dir), full)
             THEN Stripped(full, PathOf(o.dir)) ELSE name
  BY <1>6, Zenon DEF FixupPathFromRoot
<1>8. ASSUME o.dir \in Dir
      PROVE  /\ IsStrictPrefix(PathOf(o.dir), full) <=> o.dir \in Above(f)
             /\ o.dir \in Above(f) => Stripped(full, PathOf(o.dir)) = Below(o.dir, f)
  <2> DEFINE a == PathOf(o.dir)
             b == Below(o.dir, f)
  <2>1. /\ a \in Seq(Piece) /\ b \in Seq(Piece) /\ Len(b) # 0
        /\ o.dir \in Above(f) => full = a \o b
    BY <1>8, FullNameSplits
  <2>2. Begins(a, full) => o.dir \in Above(f)
    BY <1>8, OnlyAbove
  <2> HIDE DEF a, b, full
  <2>3. IsStrictPrefix(a, full) => Begins(a, full)
    BY <1>2, <2>1, PrefixIs DEF IsStrictPrefix
  <2>4. IsStrictPrefix(a, a \o b) /\ Stripped(a \o b, a) = b
    BY <2>1, StripsFirst
  <2> QED  BY <2>1, <2>2, <2>3, <2>4 DEF a, b
<1>9. CASE IsStrictPrefix(text, name)
  <2>1. Begins(text, name)
    <3> HIDE DEF text, S
    <3> QED  BY <1>5, <1>9, PrefixIs DEF IsStrictPrefix
  <2>2. name[1] = "/"
    <3>1. Begins(PathOf(d), name)
      BY <1>4, <1>5, <2>1, BeginsFirst
    <3>2. Begins(<<"/">>, PathOf(d))
      BY StartsAtRoot
    <3> DEFINE p == PathOf(d)
    <3>3. p \in Seq(Piece) /\ Len(p) \in Nat
      BY PathOfIs, LenProperties
    <3> HIDE DEF p
    <3>4. Len(<<"/">>) = 1 /\ <<"/">>[1] = "/"
      OBVIOUS
    <3>5. 1 <= Len(p) /\ p[1] = "/"
      BY <3>2, <3>4 DEF Begins, p
    <3> QED  BY <3>1, <3>3, <3>5 DEF Begins, p
  <2>3. name = full
    BY <2>2, BelowFirst
  <2>4. o.dir \in Dir /\ PathOf(o.dir) = text
    BY <1>9, <2>3 DEF RootLeads
  <2>5. IsStrictPrefix(PathOf(o.dir), full)
    BY <1>9, <2>3, <2>4
  <2> QED  BY <1>7, <1>8, <1>9, <2>3, <2>4, <2>5
<1>10. CASE ~IsStrictPrefix(text, name)
  <2>1. CASE o.dir \in Dir
    <3>1. o.dir # None
      BY <1>1, <2>1
    <3> QED  BY <1>7, <1>8, <1>10, <2>1, <3>1
  <2>2. CASE o.dir \notin Dir
    <3>1. o.dir = None /\ o.dir \notin Above(f)
      BY <1>1, <2>2
    <3> QED  BY <1>7, <1>10, <3>1
  <2> QED  BY <2>1, <2>2
<1> QED  BY <1>9, <1>10

-----------------------------------------------------------------------------
(* The root in force and the guards that were asked for.                        *)

RootFrom(r) ==
  \E d \in Dir : tree[d].kind = "file"
                 /\ \E o \in ToSet(tree[d].options) : o.name = "root" /\ r = RootSet(d, o)

Rooted(s) ==
  /\ s = [line_length |-> s.line_length, extensions |-> s.extensions, headers |-> s.headers,
          root |-> s.root, include_order |-> s.include_order]
  /\ s.root \in {NoRoot, args.root} \/ RootFrom(s.root)

LEMMA OptionRooted ==
  ASSUME NEW r, Reading(r), Rooted(r.settings), NEW dir \in Dir, tree[dir].kind = "file",
         NEW o \in ToSet(tree[dir].options), NEW base
  PROVE  Rooted(Option(r, o, dir, base).settings)
<1> DEFINE n == Option(r, o, dir, base)
<1>1. PICK s, f, m, k, e :
        r = [settings |-> s, filters |-> f, messages |-> m, keep_looking |-> k, end |-> e]
  BY DEF Reading
<1>2. PICK l, x, h, t, i :
        s = [line_length |-> l, extensions |-> x, headers |-> h, root |-> t, include_order |-> i]
  BY <1>1 DEF Rooted
<1>3. t \in {NoRoot, args.root} \/ RootFrom(t)
  BY <1>1, <1>2 DEF Rooted
<1>4. \A l1, x1, h1, i1 :
        Rooted([line_length |-> l1, extensions |-> x1, headers |-> h1, root |-> t, include_order |-> i1])
  BY <1>3 DEF Rooted
<1>5. CASE o.name = "linelength"
  <2>1. n = [r EXCEPT !.settings.line_length = o.length]
    BY <1>5 DEF Option
  <2>2. n.settings = [line_length |-> o.length, extensions |-> x, headers |-> h, root |-> t,
                      include_order |-> i]
    BY <1>1, <1>2, <2>1
  <2> QED  BY <1>4, <2>2
<1>6. CASE o.name = "extensions"
  <2>1. n = [r EXCEPT !.settings.extensions = o.extensions]
    BY <1>6 DEF Option
  <2>2. n.settings = [line_length |-> l, extensions |-> o.extensions, headers |-> h, root |-> t,
                      include_order |-> i]
    BY <1>1, <1>2, <2>1
  <2> QED  BY <1>4, <2>2
<1>7. CASE o.name = "root"
  <2> DEFINE u == RootSet(dir, o)
  <2>1. n = [r EXCEPT !.settings.root = u]
    BY <1>7 DEF Option, RootSet
  <2>2. RootFrom(u)
    BY <1>7 DEF RootFrom
  <2> HIDE DEF u
  <2>3. n.settings = [line_length |-> l, extensions |-> x, headers |-> h, root |-> u,
                      include_order |-> i]
    BY <1>1, <1>2, <2>1
  <2> QED  BY <2>2, <2>3 DEF Rooted
<1>8. CASE o.name = "headers"
  <2>1. n = [r EXCEPT !.settings.headers = o.extensions]
    BY <1>8 DEF Option
  <2>2. n.settings = [line_length |-> l, extensions |-> x, headers |-> o.extensions, root |-> t,
                      include_order |-> i]
    BY <1>1, <1>2, <2>1
  <2> QED  BY <1>4, <2>2
<1>9. CASE o.name = "includeorder"
  <2>1. n = IF o.order = "standardcfirst"
            THEN [r EXCEPT !.settings.include_order = o.order]
            ELSE IF o.order = "default" THEN r ELSE [r EXCEPT !.end = "usage"]
    BY <1>9 DEF Option
  <2>2. n.settings \in {[line_length |-> l, extensions |-> x, headers |-> h, root |-> t,
                         include_order |-> o.order], s}
    BY <1>1, <1>2, <2>1
  <2> QED  BY <1>2, <1>4, <2>2
<1>10. CASE o.name \notin {"linelength", "extensions", "root", "headers", "includeorder"}
  <2>1. n.settings = s
    <3>1. CASE o.name = "set noparent"
      <4>1. n = [r EXCEPT !.keep_looking = FALSE]
        BY <3>1 DEF Option
      <4> QED  BY <1>1, <4>1
    <3>2. CASE o.name = "filter"
      <4>1. n = [r EXCEPT !.filters = Append(@, o.filters)]
        BY <3>2 DEF Option
      <4> QED  BY <1>1, <4>1
    <3>3. CASE o.name = "exclude_files"
      <4>1. n = IF base \in o.matches THEN [r EXCEPT !.end = "excluded"] ELSE r
        BY <3>3 DEF Option
      <4> QED  BY <1>1, <4>1
    <3>4. CASE o.name \notin {"set noparent", "filter", "exclude_files"}
      <4>1. n = [r EXCEPT !.messages = Append(@, About(dir, o.name))]
        BY <1>10, <3>4 DEF Option
      <4> QED  BY <1>1, <4>1
    <3> QED  BY <3>1, <3>2, <3>3, <3>4
  <2> QED  BY <1>2, <1>4, <2>1
<1> QED  BY <1>5, <1>6, <1>7, <1>8, <1>9, <1>10

LEMMA ReadFromRooted ==
  ASSUME NEW dir \in Dir, Configuration(tree[dir]), NEW base, Rooted(settings)
  PROVE  Rooted(ReadFrom(dir, base).settings)
<1>1. Reading(NotYet) /\ Rooted(NotYet.settings)
  BY DEF Reading, NotYet
<1>2. CASE tree[dir].kind = "none"
  BY <1>1, <1>2 DEF ReadFrom
<1>3. CASE tree[dir].kind = "unreadable"
  <2>1. ReadFrom(dir, base) = [NotYet EXCEPT !.keep_looking = FALSE,
                                             !.messages = <<About(dir, "unreadable")>>]
    BY <1>3 DEF ReadFrom
  <2> QED  BY <1>1, <2>1 DEF NotYet
<1>4. CASE tree[dir].kind \notin {"none", "unreadable"}
  <2> DEFINE os == Options(dir)
             n  == Len(os)
  <2>1. tree[dir].kind = "file" /\ os = tree[dir].options
    BY <1>4 DEF Configuration, Options
  <2>2. n \in Nat /\ DOMAIN os = 1 .. n
    BY OptionsAre
  <2>3. ReadFrom(dir, base) = ReadOptions(os, NotYet, dir, base)
    BY <2>1 DEF ReadFrom
  <2>4. \A k \in 1 .. n : os[k] \in ToSet(tree[dir].options)
    BY <2>1, <2>2 DEF ToSet
  <2> HIDE DEF os, n
  <2>5. PICK f : /\ f[0] = NotYet /\ ReadFrom(dir, base) = f[n]
                 /\ \A k \in 1 .. n :
                      f[k] = IF f[k - 1].end # "read" THEN f[k - 1]
                             ELSE Option(f[k - 1], os[k], dir, base)
    BY <2>2, <2>3, ReadOptionsDoes DEF n
  <2> DEFINE T == {k \in Nat : k <= n => Reading(f[k]) /\ Rooted(f[k].settings)}
  <2>6. 0 \in T
    BY <1>1, <2>5
  <2>7. ASSUME NEW k \in Nat, k \in T PROVE k + 1 \in T
    <3> DEFINE j == k + 1
    <3> SUFFICES ASSUME j <= n PROVE Reading(f[j]) /\ Rooted(f[j].settings)
      OBVIOUS
    <3>1. j \in 1 .. n /\ j - 1 = k /\ Reading(f[k]) /\ Rooted(f[k].settings)
      BY <2>2, <2>7
    <3> HIDE DEF j
    <3>2. f[j] = IF f[k].end # "read" THEN f[k] ELSE Option(f[k], os[j], dir, base)
      BY <2>5, <3>1
    <3>3. CASE f[k].end # "read"
      BY <3>1, <3>2, <3>3
    <3>4. CASE f[k].end = "read"
      <4>1. Does(f[k], os[j], dir, base, f[j])
        BY <3>1, <3>2, <3>4, OptionDoes
      <4>2. Rooted(Option(f[k], os[j], dir, base).settings)
        BY <2>1, <2>4, <3>1, OptionRooted
      <4> QED  BY <3>2, <3>4, <4>1, <4>2 DEF Does
    <3> QED  BY <3>3, <3>4
  <2> HIDE DEF T
  <2>8. n \in T
    BY <2>2, <2>6, <2>7, Naturals
  <2> QED  BY <2>2, <2>5, <2>8 DEF T
<1> QED  BY <1>2, <1>3, <1>4

InHand == phase \in {"config", "open", "lint", "hangs"}

(* What each guard that was asked for depends on; a file is linted once, so its  *)
(* guard is not that of an earlier time.                                     *)
GuardFor(root, f) == GetHeaderGuardCPPVariable(marks, args.repository, root, args.cwd, f)

GInv ==
  /\ \A d \in Dir : tree[d].kind = "file" =>
       \A o \in ToSet(tree[d].options) : o.name = "root" => RootLeads(d, o)
  /\ phase # "args" => Rooted(settings)
  /\ InHand => file \in File /\ file \notin filenames
  /\ guards = [f \in File |-> guards[f]]
  /\ \A f \in File : guards[f] # <<>> =>
       /\ phase # "args" /\ f \notin filenames
       /\ phase \in {"config", "open"} => f # file
       /\ NoRoots => guards[f] = GuardFor(NoRoot, f)
  /\ phase = "lint" /\ guards[file] # <<>> => guards[file] = GuardFor(settings.root, file)

LEMMA GInvStart == Init => GInv
<1> SUFFICES ASSUME Init PROVE GInv
  OBVIOUS
<1>1. PICK w \in Worlds : args = w[1] /\ tree = w[2] /\ marks = w[3]
  BY DEF Init
<1>2. \A d \in Dir : tree[d].kind = "file" =>
        \A o \in ToSet(tree[d].options) : o.name = "root" => RootLeads(d, o)
  BY <1>1, RootAssumption
<1>3. phase = "args" /\ guards = [f \in File |-> <<>>]
  BY DEF Init
<1> QED  BY <1>2, <1>3 DEF GInv, InHand

(* Without roots, the root in force is none.                                   *)
LEMMA NoRootThen ==
  ASSUME NoRoots, Rooted(settings)
  PROVE  settings.root = NoRoot /\ args.repository = None
<1>1. ~RootFrom(settings.root)
  <2> SUFFICES ASSUME RootFrom(settings.root) PROVE FALSE
    OBVIOUS
  <2>1. PICK d \in Dir : tree[d].kind = "file"
                         /\ \E o \in ToSet(tree[d].options) : o.name = "root"
    BY DEF RootFrom
  <2> QED  BY <2>1 DEF NoRoots, Options
<1> QED  BY <1>1 DEF NoRoots, Rooted

(* What does not touch the guards, the inputs and the settings.                 *)
LEMMA GuardsStay ==
  ASSUME GInv, UNCHANGED <<inputs, guards>>, phase # "args" => Rooted(settings),
         phase' # "args" => Rooted(settings)',
         InHand' => file' \in File /\ file' \notin filenames',
         \A f \in File : guards[f] # <<>> => f \notin filenames'
                           /\ (phase' \in {"config", "open"} => f # file'),
         phase' # "args", phase' = "lint" => phase = "lint" /\ UNCHANGED <<file, settings>>
  PROVE  GInv'
<1>1. /\ args' = args /\ tree' = tree /\ marks' = marks /\ guards' = guards
  BY DEF inputs
<1>2. (NoRoots => \A f \in File : guards[f] # <<>> => guards[f] = GuardFor(NoRoot, f))'
  BY <1>1 DEF GInv, NoRoots, GuardFor, Options
<1>3. (phase = "lint" /\ guards[file] # <<>> => guards[file] = GuardFor(settings.root, file))'
  BY <1>1 DEF GInv, GuardFor
<1>4. (\A d \in Dir : tree[d].kind = "file" =>
         \A o \in ToSet(tree[d].options) : o.name = "root" => RootLeads(d, o))'
  BY <1>1 DEF GInv
<1>5. (guards = [f \in File |-> guards[f]])'
  BY <1>1 DEF GInv
<1>6. (\A f \in File : guards[f] # <<>> =>
         /\ phase # "args" /\ f \notin filenames
         /\ phase \in {"config", "open"} => f # file)'
  BY <1>1
<1> QED  BY <1>2, <1>3, <1>4, <1>5, <1>6 DEF GInv

LEMMA RootedStays ==
  ASSUME Rooted(settings), UNCHANGED <<inputs, settings>>
  PROVE  Rooted(settings)'
BY DEF inputs, Rooted, RootFrom

LEMMA GInvStep == TInv /\ GInv /\ [Next]_vars => GInv'
<1> SUFFICES ASSUME TInv, GInv, [Next]_vars PROVE GInv'
  OBVIOUS
<1>1. UNCHANGED inputs /\ args' = args /\ tree' = tree /\ marks' = marks
  BY InputsStay DEF inputs
<1>2. /\ phase # "args" => Rooted(settings)
      /\ InHand => file \in File /\ file \notin filenames
      /\ \A f \in File : guards[f] # <<>> => phase # "args" /\ f \notin filenames
      /\ \A f \in File : guards[f] # <<>> /\ phase \in {"config", "open"} => f # file
  BY DEF GInv
<1>3. CASE ParseArguments
  <2>1. /\ phase = "args" /\ phase' \in {"next", "died"} /\ UNCHANGED <<guards, file>>
    BY <1>3 DEF ParseArguments, history
  <2>2. Rooted(settings)'
    <3> DEFINE s == [line_length |-> args.linelength, extensions |-> args.extensions,
                     headers |-> args.headers, root |-> args.root, include_order |-> "default"]
    <3>1. settings' = s
      BY <1>3 DEF ParseArguments, DefaultSettings
    <3>2. s = [line_length |-> s.line_length, extensions |-> s.extensions, headers |-> s.headers,
               root |-> s.root, include_order |-> s.include_order] /\ s.root = args.root
      OBVIOUS
    <3> QED  BY <1>1, <3>1, <3>2 DEF Rooted
  <2> QED  BY <1>1, <1>2, <2>1, <2>2, GuardsStay DEF InHand
<1>4. CASE ProcessFile
  <2>1. /\ phase = "next" /\ phase' = "config" /\ filenames # {}
        /\ file' = First(filenames) /\ filenames' = filenames \ {file'}
        /\ UNCHANGED <<settings, guards>>
    BY <1>4 DEF ProcessFile, history
  <2>2. file' \in filenames /\ file' \in File
    BY <2>1, FirstIn DEF TInv, TypeOK
  <2>3. Rooted(settings)'
    BY <1>1, <1>2, <2>1, RootedStays
  <2>4. \A f \in File : guards[f] # <<>> => f \notin filenames' /\ f # file'
    BY <1>2, <2>1, <2>2
  <2> QED  BY <1>1, <1>2, <2>1, <2>2, <2>3, <2>4, GuardsStay DEF InHand
<1>5. CASE Config
  <2>1. /\ phase = "config" /\ at # None /\ settings' = ReadFrom(at, base_name).settings
        /\ phase' \in {"next", "died", "config"} /\ UNCHANGED <<filenames, file, guards>>
    BY <1>5 DEF Config, history
  <2>2. at \in Dir /\ Configuration(tree[at])
    BY <2>1 DEF TInv, TypeOK, Inputs
  <2>3. Rooted(ReadFrom(at, base_name).settings)
    BY <1>2, <2>1, <2>2, ReadFromRooted
  <2>4. Rooted(settings)'
    <3> DEFINE s == ReadFrom(at, base_name).settings
    <3>1. settings' = s /\ Rooted(s)
      BY <2>1, <2>3
    <3> HIDE DEF s
    <3>2. \A r : RootFrom(r) => RootFrom(r)'
      BY <1>1 DEF RootFrom
    <3> QED  BY <1>1, <3>1, <3>2 DEF Rooted
  <2> QED  BY <1>1, <1>2, <2>1, <2>4, GuardsStay DEF InHand
<1>6. CASE ApplyFilters
  <2>1. /\ phase = "config" /\ phase' \in {"open", "died"}
        /\ UNCHANGED <<filenames, file, guards, settings>>
    BY <1>6 DEF ApplyFilters, history, config
  <2>2. Rooted(settings)'
    BY <1>1, <1>2, <2>1, RootedStays
  <2> QED  BY <1>1, <1>2, <2>1, <2>2, GuardsStay DEF InHand
<1>7. CASE OpenFails
  <2>1. phase = "open" /\ phase' = "next" /\ UNCHANGED <<filenames, file, guards, settings>>
    BY <1>7 DEF OpenFails, history, config
  <2>2. Rooted(settings)'
    BY <1>1, <1>2, <2>1, RootedStays
  <2> QED  BY <1>1, <1>2, <2>1, <2>2, GuardsStay DEF InHand
<1>8. CASE Open
  <2> DEFINE v == GuardFor(settings.root, file)
  <2>1. /\ phase = "open" /\ phase' \in {"lint", "hangs"} /\ UNCHANGED <<filenames, file, settings>>
        /\ guards' \in {guards, [guards EXCEPT ![file] = v]}
    BY <1>8 DEF Open, config, GuardFor
  <2>2. Rooted(settings)' /\ Rooted(settings) /\ file \in File /\ file \notin filenames /\ guards[file] = <<>>
    BY <1>1, <1>2, <2>1, RootedStays DEF InHand
  <2>3. NoRoots' <=> NoRoots
    BY <1>1 DEF NoRoots, Options
  <2>4. \A r, f : GuardFor(r, f)' = GuardFor(r, f)
    BY <1>1 DEF GuardFor
  <2>5. NoRoots => v = GuardFor(NoRoot, file)
    BY <2>2, NoRootThen
  <2>6. guards = [f \in File |-> guards[f]]
    BY DEF GInv
  <2>7. \A f \in File : guards[f] # <<>> /\ NoRoots => guards[f] = GuardFor(NoRoot, f)
    BY DEF GInv
  <2> HIDE DEF v
  <2>8. /\ guards' = [f \in File |-> guards'[f]]
        /\ guards'[file] # <<>> => guards'[file] = v
        /\ \A f \in File : f # file => guards'[f] = guards[f]
    BY <2>1, <2>2, <2>6
  <2>9. GuardFor(settings.root, file)' = v
    BY <1>1, <2>1 DEF GuardFor, v
  <2>10. \A f \in File : guards'[f] # <<>> => f \notin filenames
    BY <1>2, <2>2, <2>8
  <2>11. \A f \in File : guards'[f] # <<>> /\ NoRoots => guards'[f] = GuardFor(NoRoot, f)
    <3> TAKE f \in File
    <3>1. CASE f = file
      BY <2>5, <2>8, <3>1
    <3>2. CASE f # file
      BY <2>7, <2>8, <3>2
    <3> QED  BY <3>1, <3>2
  <2>12. (\A d \in Dir : tree[d].kind = "file" =>
            \A o \in ToSet(tree[d].options) : o.name = "root" => RootLeads(d, o))'
    BY <1>1 DEF GInv
  <2>13. \A f \in File : (guards[f] # <<>>)' =>
           /\ (phase # "args" /\ f \notin filenames)'
           /\ (phase \in {"config", "open"} => f # file)'
           /\ (NoRoots => guards[f] = GuardFor(NoRoot, f))'
    <3> TAKE f \in File
    <3>1. GuardFor(NoRoot, f)' = GuardFor(NoRoot, f)
      BY <1>1 DEF GuardFor, NoRoot
    <3> QED  BY <2>1, <2>3, <2>10, <2>11, <3>1
  <2> QED  BY <2>1, <2>2, <2>8, <2>9, <2>12, <2>13 DEF GInv, InHand
<1>9. CASE \E f \in Findings : Error(f)
  <2>1. phase = "lint" /\ UNCHANGED <<phase, filenames, file, guards, settings>>
    BY <1>9 DEF Error, config
  <2>2. Rooted(settings)'
    BY <1>1, <1>2, <2>1, RootedStays
  <2> QED  BY <1>1, <1>2, <2>1, <2>2, GuardsStay DEF InHand
<1>10. CASE FileDone
  <2>1. phase = "lint" /\ phase' = "next" /\ UNCHANGED <<filenames, file, guards, settings>>
    BY <1>10 DEF FileDone, config
  <2>2. Rooted(settings)'
    BY <1>1, <1>2, <2>1, RootedStays
  <2> QED  BY <1>1, <1>2, <2>1, <2>2, GuardsStay DEF InHand
<1>11. CASE Exit
  <2>1. phase = "next" /\ phase' = "done" /\ UNCHANGED <<filenames, file, guards, settings>>
    BY <1>11 DEF Exit, config, history
  <2>2. Rooted(settings)'
    BY <1>1, <1>2, <2>1, RootedStays
  <2> QED  BY <1>1, <1>2, <2>1, <2>2, GuardsStay DEF InHand
<1>12. CASE UNCHANGED vars
  <2>1. UNCHANGED <<phase, filenames, file, guards, settings>>
    BY <1>12 DEF vars, config, history
  <2>2. CASE phase = "args"
    <3>1. phase' = "args" /\ InHand' = FALSE /\ \A f \in File : guards'[f] = <<>>
      BY <1>2, <2>1, <2>2 DEF InHand
    <3>2. (\A d \in Dir : tree[d].kind = "file" =>
             \A o \in ToSet(tree[d].options) : o.name = "root" => RootLeads(d, o))'
      BY <1>1 DEF GInv
    <3>3. (guards = [f \in File |-> guards[f]])'
      BY <2>1 DEF GInv
    <3> QED  BY <3>1, <3>2, <3>3 DEF GInv
  <2>3. CASE phase # "args"
    <3>1. Rooted(settings)'
      BY <1>1, <1>2, <2>1, <2>3, RootedStays
    <3> QED  BY <1>1, <1>2, <2>1, <2>3, <3>1, GuardsStay DEF InHand
  <2> QED  BY <2>2, <2>3
<1> QED  BY <1>3, <1>4, <1>5, <1>6, <1>7, <1>8, <1>9, <1>10, <1>11, <1>12 DEF Next

-----------------------------------------------------------------------------

(* The guard of a file no part of whose name is rewritten.                      *)
LEMMA PlainGuard ==
  ASSUME NEW m, NEW repository, NEW root, NEW cwd, NEW f, ~Renames(cwd, f)
  PROVE  GetHeaderGuardCPPVariable(m, repository, root, cwd, f) =
           Guard(FixupPathFromRoot(root, RepositoryName(m, repository, f), FullName(f)))
BY Zenon DEF GetHeaderGuardCPPVariable, Guard

(* In a checkout, without roots and .svn directories, it is the path from the    *)
(* topmost one.                                                              *)
LEMMA CheckoutGuard ==
  ASSUME NEW f \in File, NoRoots, Guarded(f), guards[f] = GuardFor(NoRoot, f)
  PROVE  LET t == Topmost(marks)[DirOf[f]]
         IN t \in Tops(f) /\ guards[f] = Guard(Below(t, f))
            /\ \A x \in Tops(f) : t = Topmost(marks)[x]
<1> DEFINE d == DirOf[f]
           t == Topmost(marks)[d]
<1>1. d \in Dir /\ Above(f) = Over[d] /\ Over[d] \subseteq Dir
  BY OverIs, TreeAssumption
<1>2. Tops(f) # {} /\ ~Renames(args.cwd, f) /\ ".svn" \notin marks[d]
  BY <1>1 DEF Guarded
<1>3. None \notin Above(f)
  BY <1>1, NoneAssumption
<1>4. /\ t # None => t \in Over[d] /\ t # Root /\ marks[t] # {}
      /\ \A x \in Over[d] : x # Root /\ marks[x] # {} => t # None /\ t = Topmost(marks)[x]
  BY <1>1, TopmostKnown
<1>5. TopMarked(marks, d) = t
  BY TopmostIs
<1>6. RepositoryName(marks, None, f) = IF t = None THEN FullName(f) ELSE Below(t, f)
  <2>1. None \in Above(f) <=> FALSE
    BY <1>3
  <2>2. ".svn" \in marks[d] <=> FALSE
    BY <1>2
  <2> QED  BY <1>5, <2>1, <2>2 DEF RepositoryName
<1>7. GuardFor(NoRoot, f) = Guard(RepositoryName(marks, None, f))
  <2>1. args.repository = None
    BY DEF NoRoots
  <2>2. \A name : FixupPathFromRoot(NoRoot, name, FullName(f)) = name
    BY Zenon DEF FixupPathFromRoot
  <2>3. GuardFor(NoRoot, f) = Guard(FixupPathFromRoot(NoRoot, RepositoryName(marks, None, f), FullName(f)))
    BY <1>2, <2>1, PlainGuard DEF GuardFor
  <2> QED  BY <2>2, <2>3, Zenon
<1> HIDE DEF t, d
<1>8. PICK x : x \in Tops(f)
  BY <1>2
<1>9. t # None
  BY <1>1, <1>4, <1>8 DEF Tops
<1>10. t \in Tops(f) /\ \A y \in Tops(f) : t = Topmost(marks)[y]
  BY <1>1, <1>4, <1>9 DEF Tops
<1> QED  BY <1>6, <1>7, <1>9, <1>10 DEF t, d

LEMMA PortableThen == GInv => GuardsPortable
<1> SUFFICES ASSUME GInv, NoRoots, NEW f \in File, Guarded(f)
             PROVE  /\ \E d \in Tops(f) : guards[f] = Guard(Below(d, f))
                    /\ \A g \in {h \in File : Guarded(h) /\ Tops(h) \cap Tops(f) # {}} :
                         guards[f] = guards[g] =>
                           \E d \in Tops(f) \cap Tops(g) : Guard(Below(d, f)) = Guard(Below(d, g))
  BY DEF GuardsPortable
<1> DEFINE Top(h) == Topmost(marks)[DirOf[h]]
<1>1. \A h \in File : Guarded(h) =>
        /\ Top(h) \in Tops(h) /\ guards[h] = Guard(Below(Top(h), h))
        /\ \A x \in Tops(h) : Top(h) = Topmost(marks)[x]
  <2> SUFFICES ASSUME NEW h \in File, Guarded(h)
               PROVE  /\ Top(h) \in Tops(h) /\ guards[h] = Guard(Below(Top(h), h))
                      /\ \A x \in Tops(h) : Top(h) = Topmost(marks)[x]
    OBVIOUS
  <2>1. guards[h] = GuardFor(NoRoot, h)
    BY DEF GInv, Guarded
  <2> QED  BY <2>1, CheckoutGuard
<1> HIDE DEF Top
<1>2. \E d \in Tops(f) : guards[f] = Guard(Below(d, f))
  BY <1>1
<1>3. ASSUME NEW g \in File, Guarded(g), Tops(g) \cap Tops(f) # {}, guards[f] = guards[g]
      PROVE  \E d \in Tops(f) \cap Tops(g) : Guard(Below(d, f)) = Guard(Below(d, g))
  <2>1. PICK x : x \in Tops(g) /\ x \in Tops(f)
    BY <1>3
  <2>2. Top(f) = Topmost(marks)[x] /\ Top(g) = Topmost(marks)[x]
    BY <1>1, <1>3, <2>1
  <2>3. Top(f) = Top(g)
    BY <2>2
  <2>4. /\ Top(f) \in Tops(f) /\ guards[f] = Guard(Below(Top(f), f))
        /\ Top(g) \in Tops(g) /\ guards[g] = Guard(Below(Top(g), g))
    BY <1>1, <1>3
  <2> QED  BY <1>3, <2>3, <2>4, Zenon
<1> QED  BY <1>2, <1>3

LEMMA HonouredThen == TInv /\ GInv => RootHonoured
<1> SUFFICES ASSUME TInv, GInv, phase = "lint", guards[file] # <<>>,
                    settings.root \notin {NoRoot, args.root}, ~Renames(args.cwd, file)
             PROVE  guards[file] = IF settings.root.dir \in Above(file)
                                   THEN Guard(Below(settings.root.dir, file))
                                   ELSE Guard(RepositoryName(marks, args.repository, file))
  BY DEF RootHonoured
<1> DEFINE name == RepositoryName(marks, args.repository, file)
<1>1. file \in File
  BY DEF GInv, InHand
<1>2. RootFrom(settings.root)
  BY DEF GInv, Rooted
<1>3. PICK d, o : /\ d \in Dir /\ o.name = "root" /\ settings.root = RootSet(d, o)
                  /\ tree[d].kind = "file" /\ o \in ToSet(tree[d].options)
  BY <1>2 DEF RootFrom
<1>4. RootLeads(d, o)
  BY <1>3 DEF GInv
<1>5. name = FullName(file) \/ \E x : name = Below(x, file)
  BY RepositoryNameIs
<1>6. settings.root.dir = o.dir
  BY <1>3 DEF RootSet
<1>7. guards[file] = Guard(FixupPathFromRoot(settings.root, name, FullName(file)))
  <2>1. guards[file] = GuardFor(settings.root, file)
    BY DEF GInv
  <2>2. GuardFor(settings.root, file) =
          Guard(FixupPathFromRoot(settings.root, RepositoryName(marks, args.repository, file),
                                  FullName(file)))
    BY PlainGuard DEF GuardFor
  <2> QED  BY <2>1, <2>2
<1> HIDE DEF name
<1>8. FixupPathFromRoot(settings.root, name, FullName(file)) =
        IF o.dir \in Above(file) THEN Below(o.dir, file) ELSE name
  BY <1>1, <1>3, <1>4, <1>5, FixupFromRoot
<1> QED  BY <1>6, <1>7, <1>8, Zenon DEF name

(* Whatever directories are checkouts, and whatever is linted before: a header    *)
(* is asked for the guard of its path in the topmost checkout it is in, so that  *)
(* nothing above that checkout matters, or of its path from the root that a      *)
(* CPPLINT.cfg sets (FileInfo.RepositoryName, cpplint.py:1564, and               *)
(* FixupPathFromRoot, cpplint.py:2308).                                          *)
THEOREM GuardsAreTold == Spec => []GuardsTell
<1>1. TInv /\ GInv => GuardsTell
  BY PortableThen, HonouredThen DEF GuardsTell
<1> QED  BY <1>1, TypeStart, TypeStep, GInvStart, GInvStep, PTL DEF Spec
=============================================================================
