---------------------------- MODULE LintFile_proofs ----------------------------
(***************************************************************************)
(* Theorems about the linting of one file, for every file and setting:       *)
(* NestingState implements LiveNesting, whatever a line does to the blocks   *)
(* (Nest stays opaque here), and so does the nesting of the whole file.      *)
(***************************************************************************)
EXTENDS LintFile, WellFoundedInduction, SequenceTheorems, TLAPS

(* What is saved for an #if, and all that is saved.                          *)
IsSaved(p) ==
  /\ DOMAIN p = {"stack_before_if", "stack_before_else", "seen_else"}
  /\ p.seen_else \in BOOLEAN
Entries(pp) == {pp[i] : i \in DOMAIN pp}
AllSaved(pp) == pp \in Seq(Entries(pp)) /\ \A i \in DOMAIN pp : IsSaved(pp[i])

SavedOK == AllSaved(pp_stack)

(* The outermost #else that was seen, and the stack kept there.               *)
FirstElse(pp) == SelectInSeq(pp, LAMBDA p : p.seen_else)
KeptOf(s, pp) == IF FirstElse(pp) = 0 THEN s ELSE pp[FirstElse(pp)].stack_before_else
MarksOf(pp)   == [i \in DOMAIN pp |-> pp[i].seen_else]

-----------------------------------------------------------------------------
(* Sequences.                                                                *)

LEMMA EntriesSeq ==
  ASSUME NEW S, NEW s \in Seq(S) PROVE s \in Seq(Entries(s))
<1>1. s \in [1 .. Len(s) -> S] /\ Len(s) \in Nat /\ DOMAIN s = 1 .. Len(s)
  OBVIOUS
<1>2. s = [i \in 1 .. Len(s) |-> s[i]]
  BY <1>1
<1>3. \A i \in 1 .. Len(s) : s[i] \in Entries(s)
  BY <1>1 DEF Entries
<1> QED BY <1>1, <1>2, <1>3, IsASeq

LEMMA AppendSeq ==
  ASSUME NEW S, NEW s \in Seq(S), NEW e
  PROVE  /\ Append(s, e) \in Seq(S \cup {e}) /\ Len(Append(s, e)) = Len(s) + 1
         /\ Append(s, e)[Len(s) + 1] = e
         /\ \A i \in 1 .. Len(s) : Append(s, e)[i] = s[i]
<1>1. s \in Seq(S \cup {e})
  BY SeqMonotonic
<1> QED BY <1>1, AppendProperties

LEMMA FrontSeq ==
  ASSUME NEW S, NEW s \in Seq(S), s # <<>>
  PROVE  /\ Front(s) \in Seq(S) /\ Len(Front(s)) = Len(s) - 1 /\ Len(s) \in Nat \ {0}
         /\ \A i \in 1 .. Len(s) - 1 : Front(s)[i] = s[i]
         /\ Last(s) = s[Len(s)]
<1>1. Len(s) \in Nat \ {0}
  BY EmptySeq
<1>2. Front(s) = SubSeq(s, 1, Len(s) - 1) /\ Last(s) = s[Len(s)]
  BY DEF Front, Last
<1>3. 1 \in 1 .. Len(s) + 1 /\ Len(s) - 1 \in 0 .. Len(s)
  BY <1>1
<1>4. \A i \in 1 .. Len(s) - 1 : s[i] \in S
  BY <1>1
<1> DEFINE n == Len(s) - 1
<1>5. n \in Int /\ 1 \in Int
  BY <1>1
<1> HIDE DEF n
<1>6. /\ SubSeq(s, 1, n) \in Seq(S)
      /\ Len(SubSeq(s, 1, n)) = IF 1 <= n THEN n - 1 + 1 ELSE 0
      /\ \A i \in 1 .. n - 1 + 1 : SubSeq(s, 1, n)[i] = s[1 + i - 1]
  BY <1>4, <1>5, SubSeqProperties DEF n
<1>7. n - 1 + 1 = n /\ n \in Nat /\ n = Len(s) - 1 /\ \A i \in 1 .. n : 1 + i - 1 = i
  BY <1>1 DEF n
<1>8. Len(SubSeq(s, 1, n)) = n
  BY <1>6, <1>7
<1>9. \A i \in 1 .. n : SubSeq(s, 1, n)[i] = s[i]
  BY <1>6, <1>7, Zenon
<1>10. Front(s) = SubSeq(s, 1, n)
  BY <1>2, <1>7, Zenon
<1> QED BY <1>1, <1>2, <1>6, <1>7, <1>8, <1>9, <1>10, Zenon

(* A sequence is known from its elements.                                     *)
LEMMA AppendSame ==
  ASSUME NEW S, NEW s \in Seq(S), NEW e \in S, NEW t \in Seq(S), Len(t) = Len(s) + 1,
         t[Len(s) + 1] = e, \A i \in 1 .. Len(s) : t[i] = s[i]
  PROVE  t = Append(s, e)
<1>1. /\ Append(s, e) \in Seq(S) /\ Len(Append(s, e)) = Len(s) + 1
      /\ Append(s, e)[Len(s) + 1] = e /\ \A i \in 1 .. Len(s) : Append(s, e)[i] = s[i]
  BY AppendProperties
<1>2. \A i \in 1 .. Len(t) : t[i] = Append(s, e)[i]
  BY <1>1
<1> QED BY <1>1, <1>2, SeqEqual

LEMMA FrontSame ==
  ASSUME NEW S, NEW s \in Seq(S), s # <<>>, NEW t \in Seq(S), Len(t) = Len(s) - 1,
         \A i \in 1 .. Len(t) : t[i] = s[i]
  PROVE  t = Front(s)
BY FrontSeq, SeqEqual

LEMMA LastSame ==
  ASSUME NEW S, NEW s \in Seq(S), s # <<>>, NEW e \in S, NEW t \in Seq(S), Len(t) = Len(s),
         t[Len(s)] = e, \A i \in 1 .. Len(s) - 1 : t[i] = s[i]
  PROVE  t = Append(Front(s), e)
<1>1. /\ Front(s) \in Seq(S) /\ Len(Front(s)) = Len(s) - 1 /\ Len(s) \in Nat \ {0}
      /\ \A i \in 1 .. Len(s) - 1 : Front(s)[i] = s[i]
  BY FrontSeq
<1>2. Len(t) = Len(Front(s)) + 1 /\ t[Len(Front(s)) + 1] = e
  BY <1>1
<1>3. \A i \in 1 .. Len(Front(s)) : t[i] = Front(s)[i]
  BY <1>1
<1> QED BY <1>1, <1>2, <1>3, AppendSame

-----------------------------------------------------------------------------
(* FirstElse is 0 if no #else was seen, and the place of the first otherwise.  *)
LEMMA Smallest ==
  ASSUME NEW T, T \subseteq Nat, T # {} PROVE \E x \in T : \A y \in T : x <= y
<1>1. PICK x \in T : \A y \in T : ~(<<y, x>> \in OpToRel(<, Nat))
  BY WFMin, NatLessThanWellFounded, Zenon
<1>2. ASSUME NEW y \in T PROVE ~(y < x)
  BY <1>1, Zenon DEF OpToRel
<1> QED BY <1>2

LEMMA FirstElseIs ==
  ASSUME NEW S, NEW pp \in Seq(S)
  PROVE  \/ FirstElse(pp) = 0 /\ \A i \in 1 .. Len(pp) : ~pp[i].seen_else
         \/ /\ FirstElse(pp) \in 1 .. Len(pp) /\ pp[FirstElse(pp)].seen_else
            /\ \A i \in 1 .. FirstElse(pp) - 1 : ~pp[i].seen_else
<1> DEFINE I == {i \in 1 .. Len(pp) : pp[i].seen_else}
<1>1. FirstElse(pp) = IF I # {} THEN Min(I) ELSE 0
  BY DEF FirstElse, SelectInSeq
<1>2. CASE I = {}
  BY <1>1, <1>2
<1>3. CASE I # {}
  <2>1. I \in SUBSET Nat
    OBVIOUS
  <2>2. PICK n \in I : \A k \in I : n <= k
    BY <1>3, <2>1, Smallest
  <2>3. Min(I) \in I /\ \A k \in I : Min(I) <= k
    BY <2>2 DEF Min
  <2>4. Len(pp) \in Nat
    OBVIOUS
  <2>5. ASSUME NEW i \in 1 .. Min(I) - 1 PROVE ~pp[i].seen_else
    BY <2>3, <2>4
  <2> QED BY <1>1, <1>3, <2>3, <2>5
<1> QED BY <1>2, <1>3

(* Which of the two, told from the marks.                                     *)
LEMMA NoElse ==
  ASSUME NEW S, NEW pp \in Seq(S), \A i \in 1 .. Len(pp) : ~pp[i].seen_else
  PROVE  FirstElse(pp) = 0
BY FirstElseIs

LEMMA ThisElse ==
  ASSUME NEW S, NEW pp \in Seq(S), NEW k \in 1 .. Len(pp), pp[k].seen_else,
         \A i \in 1 .. k - 1 : ~pp[i].seen_else
  PROVE  FirstElse(pp) = k
<1>1. FirstElse(pp) \in 1 .. Len(pp)
  BY FirstElseIs
<1>2. Len(pp) \in Nat /\ FirstElse(pp) \in Nat /\ k \in Nat
  BY <1>1
<1>3. ~(FirstElse(pp) < k)
  BY <1>1, <1>2, FirstElseIs
<1>4. ~(k < FirstElse(pp))
  BY <1>1, <1>2, FirstElseIs
<1> QED BY <1>2, <1>3, <1>4

(* The marks of what is saved.                                                *)
LEMMA MarksSeq ==
  ASSUME NEW S, NEW pp \in Seq(S), \A i \in 1 .. Len(pp) : pp[i].seen_else \in BOOLEAN
  PROVE  /\ MarksOf(pp) \in Seq(BOOLEAN) /\ Len(MarksOf(pp)) = Len(pp)
         /\ \A i \in 1 .. Len(pp) : MarksOf(pp)[i] = pp[i].seen_else
         /\ DOMAIN MarksOf(pp) = 1 .. Len(pp)
<1>1. DOMAIN pp = 1 .. Len(pp) /\ Len(pp) \in Nat
  OBVIOUS
<1>2. MarksOf(pp) = [i \in 1 .. Len(pp) |-> pp[i].seen_else]
  BY <1>1 DEF MarksOf
<1>3. MarksOf(pp) \in [1 .. Len(pp) -> BOOLEAN]
  BY <1>2
<1>4. MarksOf(pp) \in Seq(BOOLEAN)
  BY <1>1, <1>3
<1>5. DOMAIN MarksOf(pp) = 1 .. Len(pp)
  BY <1>2
<1>6. Len(MarksOf(pp)) = Len(pp)
  BY <1>1, <1>4, <1>5, LenProperties
<1> QED BY <1>2, <1>4, <1>5, <1>6

(* Some mark is set just if there is an outermost #else.                      *)
LEMMA DeadIs ==
  ASSUME NEW pp, AllSaved(pp)
  PROVE  (\E i \in DOMAIN MarksOf(pp) : MarksOf(pp)[i]) <=> FirstElse(pp) # 0
<1>1. pp \in Seq(Entries(pp)) /\ DOMAIN pp = 1 .. Len(pp) /\ Len(pp) \in Nat
  BY DEF AllSaved
<1>2. \A i \in 1 .. Len(pp) : pp[i].seen_else \in BOOLEAN
  BY <1>1 DEF AllSaved, IsSaved
<1>3. /\ DOMAIN MarksOf(pp) = 1 .. Len(pp)
      /\ \A i \in 1 .. Len(pp) : MarksOf(pp)[i] = pp[i].seen_else
  BY <1>1, <1>2, MarksSeq
<1>4. CASE FirstElse(pp) = 0
  BY <1>1, <1>3, <1>4, FirstElseIs
<1>5. CASE FirstElse(pp) # 0
  <2>1. FirstElse(pp) \in 1 .. Len(pp) /\ pp[FirstElse(pp)].seen_else
    BY <1>1, <1>5, FirstElseIs
  <2> QED BY <1>3, <1>5, <2>1
<1> QED BY <1>4, <1>5

-----------------------------------------------------------------------------
(* What a directive does to the saved stacks: q comes behind pp, t behind s.   *)

Carries(s, pp, t, q) ==
  IF FirstElse(q) = 0 THEN t = KeptOf(s, pp)
  ELSE q[FirstElse(q)].stack_before_else = KeptOf(s, pp)

LEMMA SavedIs ==
  ASSUME NEW pp, AllSaved(pp)
  PROVE  /\ pp \in Seq(Entries(pp)) /\ DOMAIN pp = 1 .. Len(pp) /\ Len(pp) \in Nat
         /\ \A i \in 1 .. Len(pp) : IsSaved(pp[i]) /\ pp[i].seen_else \in BOOLEAN
BY DEF AllSaved, IsSaved

LEMMA TurnedIs ==
  ASSUME NEW p, NEW s, NEW e, {"stack_before_else", "seen_else"} \subseteq DOMAIN p
  PROVE  LET q == [p EXCEPT !.seen_else = e, !.stack_before_else = s]
         IN DOMAIN q = DOMAIN p /\ q.seen_else = e /\ q.stack_before_else = s
OBVIOUS

LEMMA SavedFrom ==
  ASSUME NEW S, NEW q \in Seq(S), \A i \in 1 .. Len(q) : IsSaved(q[i])
  PROVE  AllSaved(q)
<1>1. q \in Seq(Entries(q)) /\ DOMAIN q = 1 .. Len(q)
  BY EntriesSeq
<1> QED BY <1>1 DEF AllSaved

(* #if.                                                                      *)
LEMMA AtIf ==
  ASSUME NEW s, NEW pp, AllSaved(pp), NEW e, IsSaved(e), ~e.seen_else
  PROVE  LET q == Append(pp, e)
         IN /\ AllSaved(q) /\ MarksOf(q) = Append(MarksOf(pp), FALSE)
            /\ Carries(s, pp, s, q)
<1> DEFINE q == Append(pp, e)
           E == Entries(pp)
<1>1. /\ pp \in Seq(E) /\ Len(pp) \in Nat
      /\ \A i \in 1 .. Len(pp) : IsSaved(pp[i]) /\ pp[i].seen_else \in BOOLEAN
  BY SavedIs
<1> HIDE DEF E
<1>2. /\ q \in Seq(E \cup {e}) /\ Len(q) = Len(pp) + 1 /\ q[Len(pp) + 1] = e
      /\ \A i \in 1 .. Len(pp) : q[i] = pp[i]
  BY <1>1, AppendSeq
<1> HIDE DEF q
<1>3. \A i \in 1 .. Len(q) : IsSaved(q[i])
  BY <1>1, <1>2
<1>4. AllSaved(q)
  BY <1>2, <1>3, SavedFrom
<1>5. MarksOf(q) = Append(MarksOf(pp), FALSE)
  <2>1. /\ MarksOf(pp) \in Seq(BOOLEAN) /\ Len(MarksOf(pp)) = Len(pp)
        /\ \A i \in 1 .. Len(pp) : MarksOf(pp)[i] = pp[i].seen_else
    BY <1>1, MarksSeq
  <2>2. /\ MarksOf(q) \in Seq(BOOLEAN) /\ Len(MarksOf(q)) = Len(pp) + 1
        /\ \A i \in 1 .. Len(q) : MarksOf(q)[i] = q[i].seen_else
    BY <1>2, <1>3, MarksSeq DEF IsSaved
  <2>3. e.seen_else = FALSE
    BY DEF IsSaved
  <2>4. Len(pp) + 1 \in 1 .. Len(q) /\ \A i \in 1 .. Len(pp) : i \in 1 .. Len(q)
    BY <1>1, <1>2
  <2>5. MarksOf(q)[Len(pp) + 1] = FALSE
    BY <1>2, <2>2, <2>3, <2>4, Zenon
  <2>6. \A i \in 1 .. Len(pp) : MarksOf(q)[i] = MarksOf(pp)[i]
    BY <1>2, <2>1, <2>2, <2>4, Zenon
  <2>7. /\ MarksOf(pp) \in Seq(BOOLEAN) /\ FALSE \in BOOLEAN /\ MarksOf(q) \in Seq(BOOLEAN)
        /\ Len(MarksOf(q)) = Len(MarksOf(pp)) + 1
        /\ MarksOf(q)[Len(MarksOf(pp)) + 1] = FALSE
        /\ \A i \in 1 .. Len(MarksOf(pp)) : MarksOf(q)[i] = MarksOf(pp)[i]
    BY <2>1, <2>2, <2>5, <2>6, Zenon
  <2> QED BY <2>7, AppendSame, Zenon
<1>6. Carries(s, pp, s, q)
  <2>1. CASE FirstElse(pp) = 0
    <3>1. \A i \in 1 .. Len(q) : ~q[i].seen_else
      BY <1>1, <1>2, <2>1, FirstElseIs
    <3>2. FirstElse(q) = 0
      BY <1>2, <3>1, NoElse
    <3> QED BY <2>1, <3>2 DEF Carries, KeptOf
  <2>2. CASE FirstElse(pp) # 0
    <3>1. /\ FirstElse(pp) \in 1 .. Len(pp) /\ pp[FirstElse(pp)].seen_else
          /\ \A i \in 1 .. FirstElse(pp) - 1 : ~pp[i].seen_else
      BY <1>1, <2>2, FirstElseIs
    <3> DEFINE k == FirstElse(pp)
    <3> HIDE DEF k
    <3>2. /\ k \in 1 .. Len(q) /\ q[k] = pp[k] /\ q[k].seen_else
          /\ \A i \in 1 .. k - 1 : ~q[i].seen_else
      BY <1>1, <1>2, <3>1 DEF k
    <3>3. FirstElse(q) = k
      BY <1>2, <3>2, ThisElse
    <3>4. k # 0 /\ FirstElse(pp) = k
      BY <2>2 DEF k
    <3> QED BY <3>2, <3>3, <3>4 DEF Carries, KeptOf
  <2> QED BY <2>1, <2>2
<1> QED BY <1>4, <1>5, <1>6 DEF q

(* The first #else of an #if.                                                 *)
LEMMA AtElse ==
  ASSUME NEW s, NEW t, NEW pp, AllSaved(pp), pp # <<>>, ~Last(pp).seen_else,
         NEW r, IsSaved(r), r.seen_else, r.stack_before_else = s
  PROVE  LET q == Append(Front(pp), r)
         IN /\ AllSaved(q) /\ MarksOf(q) = Append(Front(MarksOf(pp)), TRUE)
            /\ Carries(s, pp, t, q)
<1> DEFINE q == Append(Front(pp), r)
           E == Entries(pp)
           n == Len(pp)
<1>1. /\ pp \in Seq(E) /\ \A i \in 1 .. n : IsSaved(pp[i]) /\ pp[i].seen_else \in BOOLEAN
  BY SavedIs
<1> HIDE DEF E
<1>2. /\ Front(pp) \in Seq(E) /\ Len(Front(pp)) = n - 1 /\ n \in Nat \ {0}
      /\ \A i \in 1 .. n - 1 : Front(pp)[i] = pp[i]
      /\ Last(pp) = pp[n]
  BY <1>1, FrontSeq
<1>3. /\ q \in Seq(E \cup {r}) /\ Len(q) = Len(Front(pp)) + 1 /\ q[Len(Front(pp)) + 1] = r
      /\ \A i \in 1 .. Len(Front(pp)) : q[i] = Front(pp)[i]
  BY <1>2, AppendSeq
<1> HIDE DEF q, n
<1>4. Len(q) = n /\ q[n] = r /\ \A i \in 1 .. n - 1 : q[i] = pp[i]
  BY <1>2, <1>3
<1>5. \A i \in 1 .. Len(q) : IsSaved(q[i])
  BY <1>1, <1>2, <1>4
<1>6. AllSaved(q)
  BY <1>3, <1>5, SavedFrom
<1>7. MarksOf(q) = Append(Front(MarksOf(pp)), TRUE)
  <2>1. /\ MarksOf(pp) \in Seq(BOOLEAN) /\ Len(MarksOf(pp)) = n
        /\ \A i \in 1 .. n : MarksOf(pp)[i] = pp[i].seen_else
    BY <1>1, MarksSeq DEF n
  <2>2. /\ MarksOf(q) \in Seq(BOOLEAN) /\ Len(MarksOf(q)) = n
        /\ \A i \in 1 .. n : MarksOf(q)[i] = q[i].seen_else
    BY <1>3, <1>4, <1>5, MarksSeq DEF IsSaved
  <2>3. r.seen_else = TRUE
    BY DEF IsSaved
  <2>4. n \in 1 .. n /\ \A i \in 1 .. n - 1 : i \in 1 .. n
    BY <1>2
  <2>5. MarksOf(q)[n] = TRUE
    BY <1>4, <2>2, <2>3, <2>4, Zenon
  <2>6. \A i \in 1 .. n - 1 : MarksOf(q)[i] = MarksOf(pp)[i]
    BY <1>4, <2>1, <2>2, <2>4, Zenon
  <2>7. MarksOf(pp) # <<>>
    BY <1>2, <2>1
  <2>8. /\ MarksOf(pp) \in Seq(BOOLEAN) /\ TRUE \in BOOLEAN /\ MarksOf(q) \in Seq(BOOLEAN)
        /\ MarksOf(pp) # <<>> /\ Len(MarksOf(q)) = Len(MarksOf(pp))
        /\ MarksOf(q)[Len(MarksOf(pp))] = TRUE
        /\ \A i \in 1 .. Len(MarksOf(pp)) - 1 : MarksOf(q)[i] = MarksOf(pp)[i]
    BY <2>1, <2>2, <2>5, <2>6, <2>7, Zenon
  <2> QED BY <2>8, LastSame, Zenon
<1>8. Carries(s, pp, t, q)
  <2>1. CASE FirstElse(pp) = 0
    <3>1. n \in 1 .. Len(q) /\ q[n].seen_else /\ \A i \in 1 .. n - 1 : ~q[i].seen_else
      BY <1>1, <1>2, <1>4, <2>1, FirstElseIs DEF n
    <3>2. FirstElse(q) = n
      BY <1>3, <3>1, ThisElse
    <3> QED BY <1>2, <1>4, <2>1, <3>2 DEF Carries, KeptOf
  <2>2. CASE FirstElse(pp) # 0
    <3> DEFINE k == FirstElse(pp)
    <3>1. /\ k \in 1 .. n /\ pp[k].seen_else
          /\ \A i \in 1 .. k - 1 : ~pp[i].seen_else
      BY <1>1, <2>2, FirstElseIs DEF n
    <3> HIDE DEF k
    <3>2. k # n
      BY <1>2, <3>1
    <3>3. /\ k \in 1 .. Len(q) /\ q[k] = pp[k] /\ q[k].seen_else
          /\ \A i \in 1 .. k - 1 : ~q[i].seen_else
      BY <1>2, <1>4, <3>1, <3>2
    <3>4. FirstElse(q) = k
      BY <1>3, <3>3, ThisElse
    <3>5. k # 0 /\ FirstElse(pp) = k
      BY <2>2 DEF k
    <3> QED BY <3>3, <3>4, <3>5 DEF Carries, KeptOf
  <2> QED BY <2>1, <2>2
<1> QED BY <1>6, <1>7, <1>8 DEF q

(* Another #else of it.                                                       *)
LEMMA AtElseAgain ==
  ASSUME NEW s, NEW t, NEW pp, AllSaved(pp), pp # <<>>, Last(pp).seen_else
  PROVE  MarksOf(pp) = Append(Front(MarksOf(pp)), TRUE) /\ Carries(s, pp, t, pp)
<1> DEFINE n == Len(pp)
<1>1. /\ pp \in Seq(Entries(pp)) /\ \A i \in 1 .. n : pp[i].seen_else \in BOOLEAN
  BY SavedIs
<1>2. n \in Nat \ {0} /\ Last(pp) = pp[n] /\ n \in 1 .. n
  <2> DEFINE E == Entries(pp)
  <2>1. pp \in Seq(E)
    BY <1>1
  <2> HIDE DEF E
  <2>2. n \in Nat \ {0} /\ Last(pp) = pp[n]
    BY <2>1, FrontSeq
  <2> QED BY <2>2
<1>3. /\ MarksOf(pp) \in Seq(BOOLEAN) /\ Len(MarksOf(pp)) = n
      /\ \A i \in 1 .. n : MarksOf(pp)[i] = pp[i].seen_else
  BY <1>1, MarksSeq
<1>4. pp[n].seen_else = TRUE /\ MarksOf(pp) # <<>>
  BY <1>1, <1>2, <1>3
<1>5. MarksOf(pp)[n] = TRUE
  BY <1>2, <1>3, <1>4, Zenon
<1> HIDE DEF n
<1>6. /\ MarksOf(pp) \in Seq(BOOLEAN) /\ TRUE \in BOOLEAN /\ MarksOf(pp) # <<>>
      /\ MarksOf(pp)[Len(MarksOf(pp))] = TRUE
  BY <1>3, <1>4, <1>5, Zenon
<1>7. MarksOf(pp) = Append(Front(MarksOf(pp)), TRUE)
  BY <1>6, LastSame, Zenon
<1>8. FirstElse(pp) # 0
  BY <1>1, <1>2, FirstElseIs DEF n
<1> QED BY <1>7, <1>8 DEF Carries, KeptOf

(* #endif.                                                                   *)
LEMMA AtEndif ==
  ASSUME NEW s, NEW pp, AllSaved(pp), pp # <<>>
  PROVE  LET q == Front(pp)
             t == IF Last(pp).seen_else THEN Last(pp).stack_before_else ELSE s
         IN /\ AllSaved(q) /\ MarksOf(q) = Front(MarksOf(pp))
            /\ Carries(s, pp, t, q)
<1> DEFINE q == Front(pp)
           t == IF Last(pp).seen_else THEN Last(pp).stack_before_else ELSE s
           E == Entries(pp)
           n == Len(pp)
<1>1. pp \in Seq(E) /\ \A i \in 1 .. n : IsSaved(pp[i]) /\ pp[i].seen_else \in BOOLEAN
  BY SavedIs
<1> HIDE DEF E
<1>2. /\ q \in Seq(E) /\ Len(q) = n - 1 /\ n \in Nat \ {0}
      /\ \A i \in 1 .. n - 1 : q[i] = pp[i]
      /\ Last(pp) = pp[n]
  BY <1>1, FrontSeq
<1> HIDE DEF q, n
<1>3. \A i \in 1 .. Len(q) : IsSaved(q[i])
  BY <1>1, <1>2
<1>4. AllSaved(q)
  BY <1>2, <1>3, SavedFrom
<1>5. MarksOf(q) = Front(MarksOf(pp))
  <2>1. /\ MarksOf(pp) \in Seq(BOOLEAN) /\ Len(MarksOf(pp)) = n
        /\ \A i \in 1 .. n : MarksOf(pp)[i] = pp[i].seen_else
    BY <1>1, MarksSeq DEF n
  <2>2. /\ MarksOf(q) \in Seq(BOOLEAN) /\ Len(MarksOf(q)) = n - 1
        /\ \A i \in 1 .. Len(q) : MarksOf(q)[i] = q[i].seen_else
    BY <1>2, <1>3, MarksSeq DEF IsSaved
  <2>3. \A i \in 1 .. n - 1 : i \in 1 .. n /\ i \in 1 .. Len(q)
    BY <1>2
  <2>4. \A i \in 1 .. n - 1 : MarksOf(q)[i] = MarksOf(pp)[i]
    BY <1>2, <2>1, <2>2, <2>3, Zenon
  <2>5. MarksOf(pp) # <<>>
    BY <1>2, <2>1
  <2>6. /\ MarksOf(pp) \in Seq(BOOLEAN) /\ MarksOf(q) \in Seq(BOOLEAN)
        /\ MarksOf(pp) # <<>> /\ Len(MarksOf(q)) = Len(MarksOf(pp)) - 1
        /\ \A i \in 1 .. Len(MarksOf(q)) : MarksOf(q)[i] = MarksOf(pp)[i]
    BY <2>1, <2>2, <2>4, <2>5, Zenon
  <2> QED BY <2>6, FrontSame, Zenon
<1>6. Carries(s, pp, t, q)
  <2>1. CASE FirstElse(pp) = 0
    <3>1. \A i \in 1 .. Len(q) : ~q[i].seen_else
      BY <1>1, <1>2, <2>1, FirstElseIs DEF n
    <3>2. FirstElse(q) = 0
      BY <1>2, <3>1, NoElse
    <3>3. ~Last(pp).seen_else
      BY <1>1, <1>2, <2>1, FirstElseIs DEF n
    <3> QED BY <2>1, <3>2, <3>3 DEF Carries, KeptOf
  <2>2. CASE FirstElse(pp) # 0
    <3> DEFINE k == FirstElse(pp)
    <3>1. /\ k \in 1 .. n /\ pp[k].seen_else
          /\ \A i \in 1 .. k - 1 : ~pp[i].seen_else
      BY <1>1, <2>2, FirstElseIs DEF n
    <3>2. k # 0 /\ FirstElse(pp) = k
      BY <2>2
    <3> HIDE DEF k
    <3>3. CASE k = n
      <4>1. \A i \in 1 .. Len(q) : ~q[i].seen_else
        BY <1>2, <3>1, <3>3
      <4>2. FirstElse(q) = 0
        BY <1>2, <4>1, NoElse
      <4>3. t = pp[n].stack_before_else
        BY <1>2, <3>1, <3>3
      <4> QED BY <3>2, <3>3, <4>2, <4>3 DEF Carries, KeptOf
    <3>4. CASE k # n
      <4>1. /\ k \in 1 .. Len(q) /\ q[k] = pp[k] /\ q[k].seen_else
            /\ \A i \in 1 .. k - 1 : ~q[i].seen_else
        BY <1>2, <3>1, <3>4
      <4>2. FirstElse(q) = k
        BY <1>2, <4>1, ThisElse
      <4> QED BY <3>2, <4>1, <4>2 DEF Carries, KeptOf
    <3> QED BY <3>3, <3>4
  <2> QED BY <2>1, <2>2
<1> QED BY <1>4, <1>5, <1>6 DEF q

-----------------------------------------------------------------------------
(* One line of the file.                                                      *)

LEMMA KeptIs ==
  KeptStack = KeptOf(stack, pp_stack) /\ Conditions = MarksOf(pp_stack)
BY DEF KeptStack, KeptOf, FirstElse, Conditions, MarksOf

LEMMA KeptIsNext ==
  KeptStack' = KeptOf(stack', pp_stack') /\ Conditions' = MarksOf(pp_stack')
<1>1. (KeptStack = KeptOf(stack, pp_stack) /\ Conditions = MarksOf(pp_stack))'
  BY KeptIs, PTL
<1> QED BY <1>1

LEMMA Preprocess ==
  ASSUME SavedOK, NEW d
  PROVE  LET now == UpdatePreprocessor(d)
         IN /\ AllSaved(now.pp_stack) /\ MarksOf(now.pp_stack) = Live!Conditional(d)
            /\ Carries(stack, pp_stack, now.stack, now.pp_stack)
<1> DEFINE now == UpdatePreprocessor(d)
           pp == pp_stack
           saved == Last(pp)
<1> USE DEF SavedOK
<1>0. AllSaved(pp)
  OBVIOUS
<1>a. Live!Front(Conditions) = Front(Conditions)
  BY DEF Live!Front, Front
<1>b. /\ d \in If => d \notin Else /\ d # "#endif"
      /\ d \in Else => d # "#endif"
  BY DEF If, Else
<1>1. pp # <<>> <=> Conditions # <<>>
  <2>1. /\ pp \in Seq(Entries(pp)) /\ MarksOf(pp) \in Seq(BOOLEAN)
        /\ DOMAIN pp = 1 .. Len(pp) /\ Len(pp) \in Nat
        /\ DOMAIN MarksOf(pp) = 1 .. Len(pp)
    BY <1>0, SavedIs, MarksSeq
  <2>2. pp = <<>> <=> Len(pp) = 0
    BY <2>1, EmptySeq
  <2>3. MarksOf(pp) = <<>> <=> Len(pp) = 0
    BY <2>1, EmptySeq
  <2> QED BY <2>2, <2>3, KeptIs
<1>2. CASE d \in If
  <2> DEFINE e == [stack_before_if |-> stack, stack_before_else |-> <<>>, seen_else |-> FALSE]
  <2>1. now = [stack |-> stack, pp_stack |-> Append(pp, e)]
    BY <1>2, <1>b DEF UpdatePreprocessor
  <2>2. IsSaved(e) /\ ~e.seen_else
    BY DEF IsSaved
  <2>3. Live!Conditional(d) = Append(MarksOf(pp), FALSE)
    BY <1>2, KeptIs, <1>a, <1>b DEF Live!Conditional
  <2> HIDE DEF e
  <2>4. /\ AllSaved(Append(pp, e)) /\ MarksOf(Append(pp, e)) = Append(MarksOf(pp), FALSE)
        /\ Carries(stack, pp, stack, Append(pp, e))
    BY <1>0, <2>2, AtIf, Zenon
  <2>5. now.stack = stack /\ now.pp_stack = Append(pp, e)
    BY <2>1
  <2> QED BY <2>3, <2>4, <2>5, Zenon
<1>3. CASE d \in Else /\ pp # <<>>
  <2>0. d \notin If
    BY <1>3 DEF If, Else
  <2>1. Live!Conditional(d) = Append(Front(MarksOf(pp)), TRUE)
    BY <1>1, <1>3, <2>0, KeptIs, <1>a, <1>b DEF Live!Conditional
  <2>2. CASE saved.seen_else
    <3>1. now = [stack |-> saved.stack_before_if, pp_stack |-> pp]
      BY <1>3, <1>b, <2>0, <2>2 DEF UpdatePreprocessor
    <3>2. now.stack = saved.stack_before_if /\ now.pp_stack = pp
      BY <3>1
    <3>3. /\ MarksOf(pp) = Append(Front(MarksOf(pp)), TRUE)
          /\ Carries(stack, pp, saved.stack_before_if, pp)
      BY <1>0, <1>3, <2>2, AtElseAgain, Zenon
    <3> QED BY <1>0, <2>1, <3>2, <3>3, Zenon
  <2>3. CASE ~saved.seen_else
    <3> DEFINE r == [saved EXCEPT !.seen_else = TRUE, !.stack_before_else = stack]
               q == Append(Front(pp), r)
    <3>1. now = [stack |-> saved.stack_before_if, pp_stack |-> q]
      BY <1>3, <1>b, <2>0, <2>3 DEF UpdatePreprocessor
    <3>2. now.stack = saved.stack_before_if /\ now.pp_stack = q
      BY <3>1
    <3>3. IsSaved(saved)
      <4>1. pp \in Seq(Entries(pp)) /\ \A i \in 1 .. Len(pp) : IsSaved(pp[i])
        BY <1>0, SavedIs
      <4>2. saved = pp[Len(pp)] /\ Len(pp) \in 1 .. Len(pp)
        BY <1>3, <4>1, EmptySeq DEF Last
      <4> QED BY <4>1, <4>2, Zenon
    <3>4. IsSaved(r) /\ r.seen_else /\ r.stack_before_else = stack
      <4>1. /\ {"stack_before_else", "seen_else"} \subseteq DOMAIN saved
            /\ DOMAIN saved = {"stack_before_if", "stack_before_else", "seen_else"}
        BY <3>3 DEF IsSaved
      <4>2. DOMAIN r = DOMAIN saved /\ r.seen_else = TRUE /\ r.stack_before_else = stack
        BY <4>1, TurnedIs, Zenon
      <4> HIDE DEF r
      <4>3. r.seen_else \in BOOLEAN /\ DOMAIN r = DOMAIN saved
        BY <4>2, Zenon
      <4> QED BY <4>1, <4>2, <4>3, Zenon DEF IsSaved
    <3> HIDE DEF r
    <3>5. /\ AllSaved(q) /\ MarksOf(q) = Append(Front(MarksOf(pp)), TRUE)
          /\ Carries(stack, pp, saved.stack_before_if, q)
      BY <1>0, <1>3, <2>3, <3>4, AtElse, Zenon
    <3> QED BY <2>1, <3>2, <3>5, Zenon
  <2> QED BY <2>2, <2>3
<1>4. CASE d = "#endif" /\ pp # <<>>
  <2> DEFINE t == IF saved.seen_else THEN saved.stack_before_else ELSE stack
  <2>0. d \notin If /\ d \notin Else
    BY <1>4, <1>b
  <2>1. Live!Conditional(d) = Front(MarksOf(pp))
    BY <1>1, <1>4, <2>0, KeptIs, <1>a, <1>b DEF Live!Conditional
  <2>2. now = [stack |-> t, pp_stack |-> Front(pp)]
    BY <1>4, <2>0 DEF UpdatePreprocessor
  <2>3. now.stack = t /\ now.pp_stack = Front(pp)
    BY <2>2
  <2>4. /\ AllSaved(Front(pp)) /\ MarksOf(Front(pp)) = Front(MarksOf(pp))
        /\ Carries(stack, pp, t, Front(pp))
    BY <1>0, <1>4, AtEndif, Zenon
  <2> QED BY <2>1, <2>3, <2>4, Zenon
<1>5. CASE d \notin If /\ (pp = <<>> \/ (d \notin Else /\ d # "#endif"))
  <2>1. Live!Conditional(d) = MarksOf(pp)
    BY <1>1, <1>5, KeptIs, <1>a, <1>b DEF Live!Conditional
  <2>2. now = [stack |-> stack, pp_stack |-> pp]
    BY <1>5 DEF UpdatePreprocessor
  <2>3. now.stack = stack /\ now.pp_stack = pp
    BY <2>2
  <2>4. Carries(stack, pp, stack, pp)
    BY Zenon DEF Carries, KeptOf
  <2> QED BY <1>0, <2>1, <2>3, <2>4, Zenon
<1> QED BY <1>2, <1>3, <1>4, <1>5

(* A line is read as LiveNesting reads it.                                     *)
LEMMA UpdateReads ==
  ASSUME SavedOK, Update
  PROVE  SavedOK' /\ Live!Read
<1> DEFINE d == Directive(elided[line])
           now == UpdatePreprocessor(d)
           q == now.pp_stack
<1>1. /\ AllSaved(q) /\ MarksOf(q) = Live!Conditional(d)
      /\ Carries(stack, pp_stack, now.stack, q)
  BY Preprocess, Zenon
<1>2. /\ line \in DOMAIN elided /\ stack' = Nest(now.stack, elided, line)
      /\ pp_stack' = q /\ line' = line + 1
  BY DEF Update
<1> HIDE DEF now
<1>3. SavedOK'
  BY <1>1, <1>2 DEF SavedOK
<1>4. KeptStack' = KeptOf(stack', q) /\ Conditions' = MarksOf(q)
  BY <1>2, KeptIsNext, Zenon
<1>5. Conditions' = Live!Conditional(IF elided[line] = <<>> THEN "" ELSE elided[line][1])
  BY <1>1, <1>4 DEF Directive
<1>6. Live!Dead' <=> FirstElse(q) # 0
  BY <1>1, <1>4, DeadIs, Zenon DEF Live!Dead
<1>7. KeptStack' = IF Live!Dead' THEN KeptStack ELSE Nest(KeptStack, elided, line)
  <2>1. CASE FirstElse(q) = 0
    <3>1. KeptStack' = stack' /\ now.stack = KeptStack
      BY <1>1, <1>4, <2>1, KeptIs, Zenon DEF KeptOf, Carries
    <3>2. KeptStack' = Nest(KeptStack, elided, line)
      BY <1>2, <3>1, Zenon
    <3> QED BY <1>6, <2>1, <3>2, Zenon
  <2>2. CASE FirstElse(q) # 0
    <3>1. KeptStack' = q[FirstElse(q)].stack_before_else
      BY <1>4, <2>2, Zenon DEF KeptOf
    <3>2. KeptStack' = KeptStack
      BY <1>1, <2>2, <3>1, KeptIs, Zenon DEF Carries
    <3> QED BY <1>6, <2>2, <3>2, Zenon
  <2> QED BY <2>1, <2>2
<1> QED BY <1>2, <1>3, <1>5, <1>7 DEF Live!Read

LEMMA NestingStarts ==
  ASSUME NestingInit
  PROVE  SavedOK /\ Live!Init
<1>1. line = 1 /\ stack = <<>> /\ pp_stack = <<>>
  BY DEF NestingInit
<1>2. <<>> \in Seq({}) /\ \A i \in 1 .. Len(<<>>) : FALSE
  BY EmptySeq
<1>3. AllSaved(<<>>) /\ FirstElse(<<>>) = 0
  BY <1>2, SavedFrom, NoElse, Zenon
<1>5. KeptOf(<<>>, <<>>) = <<>>
  BY <1>3, Zenon DEF KeptOf
<1>4. MarksOf(<<>>) = <<>>
  BY DEF MarksOf
<1> QED BY <1>1, <1>3, <1>4, <1>5, KeptIs DEF SavedOK, Live!Init

LEMMA NestingStays ==
  ASSUME SavedOK, UNCHANGED nesting
  PROVE  SavedOK' /\ UNCHANGED <<line, KeptStack, Conditions>>
<1>1. UNCHANGED <<line, stack, pp_stack>>
  BY DEF nesting
<1>2. SavedOK'
  BY <1>1 DEF SavedOK
<1>3. KeptStack' = KeptStack /\ Conditions' = Conditions
  BY <1>1, KeptIs, KeptIsNext, Zenon
<1> QED BY <1>1, <1>2, <1>3

-----------------------------------------------------------------------------
(* The linting of a file.                                                    *)

(* What is saved at directives is well formed in every state.                 *)
THEOREM SavedIsOK == Spec => []SavedOK
<1>1. Init => SavedOK
  BY NestingStarts DEF Init
<1>2. SavedOK /\ [Next]_vars => SavedOK'
  <2> SUFFICES ASSUME SavedOK, [Next]_vars PROVE SavedOK'
    OBVIOUS
  <2>1. CASE Begin
    BY <2>1, NestingStays DEF Begin
  <2>2. CASE ProcessLine
    BY <2>2, UpdateReads DEF ProcessLine
  <2>3. CASE End
    BY <2>3, NestingStays DEF End
  <2>4. CASE UNCHANGED vars
    BY <2>4, NestingStays DEF vars
  <2> QED BY <2>1, <2>2, <2>3, <2>4 DEF Next
<1> QED BY <1>1, <1>2, PTL DEF Spec

(* The blocks that are open behind every line are those of the lines in true   *)
(* branches, however #if, #elif, #else and #endif nest and whatever braces     *)
(* stand between them.                                                       *)
THEOREM NestingImplementsLive == Spec => NestingIsLive
<1>1. Init => Live!Init
  BY NestingStarts DEF Init
<1>2. SavedOK /\ [Next]_vars => [Live!Read]_<<line, KeptStack, Conditions>>
  <2> SUFFICES ASSUME SavedOK, [Next]_vars
               PROVE  Live!Read \/ UNCHANGED <<line, KeptStack, Conditions>>
    OBVIOUS
  <2>1. CASE Begin
    BY <2>1, NestingStays DEF Begin
  <2>2. CASE ProcessLine
    BY <2>2, UpdateReads DEF ProcessLine
  <2>3. CASE End
    BY <2>3, NestingStays DEF End
  <2>4. CASE UNCHANGED vars
    BY <2>4, NestingStays DEF vars
  <2> QED BY <2>1, <2>2, <2>3, <2>4 DEF Next
<1> QED BY <1>1, <1>2, SavedIsOK, PTL DEF Spec, NestingIsLive, Live!Spec
=============================================================================
