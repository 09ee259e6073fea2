------------------------------ MODULE LintReport ------------------------------
(***************************************************************************)
(* The XML report that cpplint writes with --output=junit: FormatJUnitXML of *)
(* tools/cpplint/cpplint.py.  An error or a failure tells of a file or a     *)
(* directory what is wrong with it.                                         *)
(***************************************************************************)
EXTENDS Integers, Sequences

Case(name, texts) == [name |-> name, texts |-> texts]

(* Mutant: the list of a file begins anew with every failure. *)
FiledAnew(cases, failure) ==
  IF \E k \in DOMAIN cases : cases[k].name = failure.of
  THEN [k \in DOMAIN cases |-> IF cases[k].name = failure.of
                              THEN Case(failure.of, <<failure>>) ELSE cases[k]]
  ELSE Append(cases, Case(failure.of, <<failure>>))

(* A failure goes under its file, in a case of its own if it is the first.    *)
Filed(cases, failure) ==
  IF \E k \in DOMAIN cases : cases[k].name = failure.of
  THEN [k \in DOMAIN cases |->
          IF cases[k].name = failure.of
          THEN Case(failure.of, Append(cases[k].texts, failure)) ELSE cases[k]]
  ELSE Append(cases, Case(failure.of, <<failure>>))

(* Failures are grouped by file.                                            *)
FailedFiles(failures) ==
  LET upto[k \in 0 .. Len(failures)] ==
        IF k = 0 THEN <<>> ELSE Filed(upto[k - 1], failures[k])
  IN upto[Len(failures)]

FormatJUnitXML(errors, failures) ==
  LET none == errors = <<>> /\ failures = <<>>
  IN [errors |-> Len(errors), failures |-> Len(failures),
      tests  |-> IF none THEN 1 ELSE Len(errors) + Len(failures),
      cases  |-> IF none THEN <<Case("passed", <<>>)>>
                 ELSE (IF errors = <<>> THEN <<>> ELSE <<Case("errors", errors)>>)
                      \o FailedFiles(failures)]
=============================================================================
