------------------------------ MODULE LintState ------------------------------
(***************************************************************************)
(* Filters, verbosity and error counts: the class _CppLintState of          *)
(* tools/cpplint/cpplint.py, the linter that `make cpplint` runs, as        *)
(* operators over values.  The texts of messages are left out.              *)
(***************************************************************************)
EXTENDS Integers, Sequences

CONSTANTS
  Category,  \* the error categories, "build/include" and so on
  TopLevel,  \* Category -> what stands before the slash
  Prefix,    \* what may follow the sign of a filter
  Covers     \* Prefix -> the categories that start with it

(* A filter is a sign and a prefix.  One written without "+" or "-" has the *)
(* sign "none".                                                             *)
Filter == [sign : {"+", "-", "none"}, of : Prefix]

ASSUME CategoryAssumption ==
  /\ DOMAIN TopLevel = Category
  /\ Covers \in [Prefix -> SUBSET Category]

WellSigned(filters) == \A i \in DOMAIN filters : filters[i].sign # "none"

(* The filters are applied from left to right; the last that covers the     *)
(* category decides.                                                        *)
Filtered(filters, category) ==
  LET after[i \in 0 .. Len(filters)] ==
        IF i = 0 THEN FALSE
        ELSE IF category \in Covers[filters[i].of]
             THEN filters[i].sign = "-"
             ELSE after[i - 1]
  IN after[Len(filters)]

ShouldPrintError(suppressed, filters, verbose_level, category, confidence) ==
  /\ ~suppressed
  /\ confidence >= verbose_level
  /\ ~Filtered(filters, category)

-----------------------------------------------------------------------------
(* Statistics: a total, and counts by category or by what stands before the *)
(* slash, unless only the total is asked for.                               *)

Counting == {"total", "toplevel", "detailed"}

CountedAs(counting, category) ==
  IF counting = "detailed" THEN category ELSE TopLevel[category]

(* Mutant: a category that comes for the first time counts 0. *)
BumpedFromZero(counts, key) ==
  [k \in DOMAIN counts \cup {key} |->
     IF k \in DOMAIN counts THEN counts[k] + (IF k = key THEN 1 ELSE 0) ELSE 0]

Bumped(counts, key) ==
  [k \in DOMAIN counts \cup {key} |->
     (IF k \in DOMAIN counts THEN counts[k] ELSE 0) + (IF k = key THEN 1 ELSE 0)]

IncrementErrorCount(counting, counts, category) ==
  IF counting = "total" THEN counts
  ELSE Bumped(counts, CountedAs(counting, category))

NoCounts == [k \in {} |-> 0]

=============================================================================
