-------------------------- MODULE TagFormat_proofs --------------------------
(***************************************************************************)
(* Facts about tags and about the byte strings that stand for them, which  *)
(* the proofs of the reader, the writer and the containers rest on.        *)
(***************************************************************************)
EXTENDS TagFormat, FiniteSetTheorems, WellFoundedInduction, SequenceTheorems, TLAPS

-----------------------------------------------------------------------------
(* Tags                                                                     *)

LEMMA ScalarSizes == \A t \in ScalarTypes : ScalarSize(t) \in 1 .. 8
BY DEF ScalarSize, ScalarTypes, kTagByte, kTagDouble

LEMMA ZeroesType ==
  ASSUME NEW n \in Nat
  PROVE  [j \in 1 .. n |-> 0] \in Seq(Byte)
<1>1. [j \in 1 .. n |-> 0] \in [1 .. n -> Byte]
  BY DEF Byte
<1> QED  BY <1>1, SeqDef

LEMMA NewTagType ==
  ASSUME NEW t \in TagTypes
  PROVE  NewTag(t) \in Tag /\ NewTag(t).type = t /\ NewTag(t).ctype = kTagEnd
<1>1. (IF t \in ScalarTypes THEN [j \in 1 .. ScalarSize(t) |-> 0] ELSE << >>) \in Seq(Byte)
  <2>1. << >> \in Seq(Byte)
    OBVIOUS
  <2>2. CASE t \in ScalarTypes
    <3>1. ScalarSize(t) \in Nat
      BY <2>2, ScalarSizes
    <3> QED  BY <2>2, <3>1, ZeroesType
  <2> QED  BY <2>1, <2>2
<1>2. << >> \in Seq(Byte) /\ << >> \in Seq(Nat) /\ {} \in Map
  BY DEF Map
<1> QED
  BY <1>1, <1>2 DEF NewTag, Tag, Name, kTagEnd, kTagIntArray

-----------------------------------------------------------------------------
(* Induction, with a set where other libraries take a predicate             *)

LEMMA Naturals ==
  ASSUME NEW T, 0 \in T, \A n \in Nat : n \in T => n + 1 \in T
  PROVE  \A n \in Nat : n \in T
<1> DEFINE X == {n \in Nat : n \notin T}
<1> SUFFICES ASSUME X # {} PROVE FALSE
  OBVIOUS
<1>1. X \subseteq Nat
  OBVIOUS
<1> HIDE DEF X
<1>2. PICK x \in X : \A y \in X : ~(<<y, x>> \in OpToRel(<, Nat))
  BY <1>1, WFMin, NatLessThanWellFounded, Zenon
<1>3. x \in Nat /\ x \notin T
  BY DEF X
<1>4. x - 1 \in Nat /\ x - 1 < x /\ x - 1 + 1 = x
  BY <1>3
<1>5. x - 1 \notin X
  BY <1>2, <1>3, <1>4 DEF OpToRel
<1> QED  BY <1>3, <1>4, <1>5 DEF X

LEMMA Subsets ==
  ASSUME NEW S, IsFiniteSet(S), NEW T,
         \A s \in SUBSET S : (\A u \in SUBSET s : u # s => u \in T) => s \in T
  PROVE  \A s \in SUBSET S : s \in T
<1> DEFINE W == SUBSET S
           O == StrictSubsetOrdering(S)
           X == {s \in W : s \notin T}
<1> SUFFICES ASSUME X # {} PROVE FALSE
  OBVIOUS
<1>1. X \subseteq W
  OBVIOUS
<1>2. IsWellFoundedOn(O, W)
  <2>1. FiniteSubsetsOf(S) = W
    BY FS_FiniteSubsetsOfFinite, Zenon
  <2>2. IsWellFoundedOn(O, FiniteSubsetsOf(S))
    BY FS_StrictSubsetOrderingWellFounded, Zenon
  <2> HIDE DEF W, O
  <2> QED  BY <2>1, <2>2
<1> HIDE DEF W, O, X
<1>3. PICK x \in X : \A y \in X : ~(<<y, x>> \in O)
  BY <1>1, <1>2, WFMin
<1> USE DEF W, O
<1>4. x \in SUBSET S /\ x \notin T
  BY DEF X
<1>5. ASSUME NEW u \in SUBSET x, u # x PROVE u \in T
  <2>1. u \in SUBSET S
    BY <1>4
  <2>2. <<u, x>> \in StrictSubsetOrdering(S)
    BY <1>4, <1>5, <2>1 DEF StrictSubsetOrdering
  <2> QED  BY <1>3, <2>1, <2>2 DEF X
<1> QED  BY <1>4, <1>5

-----------------------------------------------------------------------------
(* Byte strings.  Put together by `Then`, they stay opaque to the provers.  *)

Then(a, b) == a \o b

LEMMA ThenType == ASSUME NEW a \in Seq(Byte), NEW b \in Seq(Byte)
  PROVE Then(a, b) \in Seq(Byte) /\ Len(Then(a, b)) = Len(a) + Len(b)
BY ConcatProperties DEF Then

LEMMA ThenNothing == ASSUME NEW a \in Seq(Byte) PROVE Then(a, << >>) = a /\ Then(<< >>, a) = a
BY ConcatEmptySeq DEF Then

LEMMA ThenAgain == ASSUME NEW a \in Seq(Byte), NEW b \in Seq(Byte), NEW c \in Seq(Byte)
  PROVE Then(Then(a, b), c) = Then(a, Then(b, c))
BY ConcatAssociative DEF Then

LEMMA Joined ==
  ASSUME NEW a \in Seq(Byte), NEW b \in Seq(Byte)
  PROVE  a \o b \in Seq(Byte) /\ Len(a \o b) = Len(a) + Len(b)
BY ConcatProperties

LEMMA U16Bytes == ASSUME NEW n \in Nat PROVE U16(n) \in Seq(Byte) /\ Len(U16(n)) = 2
BY DEF U16, Byte

LEMMA U32Bytes == ASSUME NEW n \in Nat PROVE U32(n) \in Seq(Byte) /\ Len(U32(n)) = 4
<1> DEFINE a == U16(n \div 65536)
           b == U16(n)
<1>1. n \div 65536 \in Nat
  OBVIOUS
<1>2. a \in Seq(Byte) /\ Len(a) = 2 /\ b \in Seq(Byte) /\ Len(b) = 2
  BY <1>1, U16Bytes
<1>3. U32(n) = a \o b
  BY DEF U32
<1> HIDE DEF a, b
<1>4. a \o b \in Seq(Byte) /\ Len(a \o b) = Len(a) + Len(b)
  BY <1>2, Joined, Zenon
<1>5. Len(a \o b) = 4
  BY <1>2, <1>4
<1> QED  BY <1>3, <1>4, <1>5, Zenon

-----------------------------------------------------------------------------
(* Byte strings of a set's members, one after the other                     *)

Link(g, p, b, s)     == IF s = {} THEN << >> ELSE Then(b[p[s]], g[s \ {p[s]}])
Chain(g, p, b, S)    == \A s \in SUBSET S : g[s] = Link(g, p, b, s)
Picks(p, S)          == \A s \in SUBSET S : s # {} => p[s] \in s
Parts(p, b, S)       == IsFiniteSet(S) /\ Picks(p, S) /\ \A x \in S : b[x] \in Seq(Byte)
Built(g, p, b, S)    == g = [s \in SUBSET S |-> Link(g, p, b, s)]

LEMMA FewerParts ==
  ASSUME NEW S, NEW p, NEW b, Parts(p, b, S), NEW R \in SUBSET S
  PROVE  Parts(p, b, R)
<1>1. \A s \in SUBSET R : s \in SUBSET S
  OBVIOUS
<1> QED  BY <1>1, FS_Subset DEF Parts, Picks

LEMMA LinkType ==
  ASSUME NEW S, NEW p, Picks(p, S), NEW b, \A x \in S : b[x] \in Seq(Byte),
         NEW s \in SUBSET S, NEW g, s # {} => g[s \ {p[s]}] \in Seq(Byte)
  PROVE  Link(g, p, b, s) \in Seq(Byte)
<1>1. CASE s = {}
  BY <1>1 DEF Link
<1>2. CASE s # {}
  <2>1. b[p[s]] \in Seq(Byte)
    BY <1>2 DEF Picks
  <2> QED  BY <1>2, <2>1, ThenType, Zenon DEF Link
<1> QED  BY <1>1, <1>2

LEMMA ChainExists ==
  ASSUME NEW S, NEW p, NEW b, Parts(p, b, S)
  PROVE  \E g : Built(g, p, b, S)
<1> USE DEF Parts
<1> DEFINE Upto(n, g) == \A s \in SUBSET S : Cardinality(s) <= n => g[s] = Link(g, p, b, s)
           T == {n \in Nat : \E g \in [SUBSET S -> Seq(Byte)] : Upto(n, g)}
<1>1. \A s \in SUBSET S : IsFiniteSet(s) /\ Cardinality(s) \in Nat /\ Cardinality(s) <= Cardinality(S)
  BY FS_Subset, FS_CardinalityType
<1>2. 0 \in T
  <2> DEFINE g == [s \in SUBSET S |-> << >>]
  <2>1. Upto(0, g)
    <3> SUFFICES ASSUME NEW s \in SUBSET S, Cardinality(s) <= 0 PROVE g[s] = Link(g, p, b, s)
      OBVIOUS
    <3>1. s = {}
      BY <1>1, FS_EmptySet
    <3> QED  BY <3>1 DEF Link
  <2>2. g \in [SUBSET S -> Seq(Byte)]
    <3>1. << >> \in Seq(Byte)
      OBVIOUS
    <3> QED  BY <3>1, Zenon
  <2> HIDE DEF g, Upto
  <2> QED  BY <2>1, <2>2
<1>3. ASSUME NEW n \in Nat, n \in T PROVE n + 1 \in T
  <2>1. PICK g \in [SUBSET S -> Seq(Byte)] : Upto(n, g)
    BY <1>3
  <2> DEFINE h == [s \in SUBSET S |-> Link(g, p, b, s)]
  <2>2. h \in [SUBSET S -> Seq(Byte)]
    <3>1. \A s \in SUBSET S : Link(g, p, b, s) \in Seq(Byte)
      <4> TAKE s \in SUBSET S
      <4>1. s \ {p[s]} \in SUBSET S
        OBVIOUS
      <4>2. g[s \ {p[s]}] \in Seq(Byte)
        BY <4>1, Zenon
      <4> QED  BY <4>2, LinkType
    <3> QED  BY <3>1, Zenon
  <2>3. ASSUME NEW s \in SUBSET S, Cardinality(s) <= n + 1 PROVE h[s] = Link(h, p, b, s)
    <3>1. h[s] = Link(g, p, b, s)
      OBVIOUS
    <3>2. CASE s = {}
      BY <3>1, <3>2 DEF Link
    <3>3. CASE s # {}
      <4> DEFINE u == s \ {p[s]}
      <4>0. p[s] \in s
        BY <3>3 DEF Picks
      <4>1. u \in SUBSET S /\ Cardinality(u) = Cardinality(s) - 1
        BY <1>1, <4>0, FS_RemoveElement
      <4>2. Cardinality(u) <= n
        BY <1>1, <2>3, <4>1
      <4>3. g[u] = Link(g, p, b, u) /\ h[u] = Link(g, p, b, u)
        BY <2>1, <4>1, <4>2
      <4> QED  BY <3>1, <3>3, <4>3, Zenon DEF Link
    <3> QED  BY <3>2, <3>3
  <2> HIDE DEF h
  <2>4. Upto(n + 1, h)
    BY <2>3
  <2> HIDE DEF Upto
  <2> QED  BY <2>2, <2>4
<1> HIDE DEF T
<1>4. Cardinality(S) \in Nat
  BY FS_CardinalityType
<1>5. Cardinality(S) \in T
  BY <1>2, <1>3, <1>4, Naturals
<1>6. PICK g \in [SUBSET S -> Seq(Byte)] : Upto(Cardinality(S), g)
  BY <1>5 DEF T
<1>7. \A s \in SUBSET S : g[s] = Link(g, p, b, s)
  BY <1>1, <1>6
<1>8. g = [s \in SUBSET S |-> Link(g, p, b, s)]
  BY <1>7, Zenon
<1> QED  BY <1>8 DEF Built

LEMMA ChainType ==
  ASSUME NEW S, NEW p, NEW b, Parts(p, b, S), NEW g, Chain(g, p, b, S)
  PROVE  \A s \in SUBSET S : g[s] \in Seq(Byte)
<1> USE DEF Parts
<1> DEFINE T == {s \in SUBSET S : g[s] \in Seq(Byte)}
<1>1. ASSUME NEW s \in SUBSET S, \A u \in SUBSET s : u # s => u \in T PROVE s \in T
  <2>1. s # {} => s \ {p[s]} \in T
    BY <1>1 DEF Picks
  <2>2. Link(g, p, b, s) \in Seq(Byte)
    BY <2>1, LinkType
  <2> QED  BY <2>2 DEF Chain
<1> HIDE DEF T
<1>2. \A s \in SUBSET S : s \in T
  BY <1>1, Subsets
<1> QED  BY <1>2 DEF T

LEMMA ChainsAgree ==
  ASSUME NEW S, NEW p, NEW b, Parts(p, b, S), NEW R \in SUBSET S,
         NEW g, Chain(g, p, b, S), NEW h, Chain(h, p, b, R)
  PROVE  \A s \in SUBSET R : g[s] = h[s]
<1> DEFINE T == {s \in SUBSET R : g[s] = h[s]}
<1>1. ASSUME NEW s \in SUBSET R, \A u \in SUBSET s : u # s => u \in T PROVE s \in T
  <2>1. s # {} => p[s] \in s /\ s \ {p[s]} \in T
    BY <1>1 DEF Parts, Picks
  <2>2. Link(g, p, b, s) = Link(h, p, b, s)
    BY <2>1, Zenon DEF Link
  <2>3. g[s] = Link(g, p, b, s) /\ h[s] = Link(h, p, b, s)
    BY DEF Chain
  <2> QED  BY <2>2, <2>3
<1> HIDE DEF T
<1>2. IsFiniteSet(R)
  BY FewerParts DEF Parts
<1>3. \A s \in SUBSET R : s \in T
  BY <1>1, <1>2, Subsets
<1> QED  BY <1>3 DEF T

(* A member that every order puts last. *)
Grown(g, h, p, b, c, S, e) ==
  /\ e \notin S /\ \A x \in S : c[x] = b[x]
  /\ Parts(p, b, S) /\ Parts(p, c, S \cup {e})
  /\ \A s \in SUBSET S : s # {} => p[s \cup {e}] = p[s]
  /\ Chain(g, p, b, S) /\ Chain(h, p, c, S \cup {e})

LEMMA ChainGrows ==
  ASSUME NEW S, NEW e, NEW p, NEW b, NEW c, NEW g, NEW h, Grown(g, h, p, b, c, S, e)
  PROVE  h[S \cup {e}] = Then(g[S], c[e]) /\ g[S] \in Seq(Byte)
<1>0. /\ e \notin S /\ \A x \in S : c[x] = b[x]
      /\ Parts(p, b, S) /\ Parts(p, c, S \cup {e})
      /\ \A s \in SUBSET S : s # {} => p[s \cup {e}] = p[s]
      /\ Chain(g, p, b, S) /\ Chain(h, p, c, S \cup {e})
  BY DEF Grown
<1> DEFINE T == {s \in SUBSET S : h[s \cup {e}] = Then(g[s], c[e])}
<1>3. c[e] \in Seq(Byte) /\ IsFiniteSet(S)
  BY <1>0 DEF Parts
<1>1. ASSUME NEW s \in SUBSET S, \A u \in SUBSET s : u # s => u \in T PROVE s \in T
  <2>1. s \cup {e} \in SUBSET (S \cup {e}) /\ s \cup {e} # {}
    OBVIOUS
  <2>2. /\ h[s \cup {e}] = Then(c[p[s \cup {e}]], h[(s \cup {e}) \ {p[s \cup {e}]}])
        /\ p[s \cup {e}] \in s \cup {e}
    BY <1>0, <2>1, Zenon DEF Chain, Link, Parts, Picks
  <2>3. CASE s = {}
    <3>1. g[s] = << >> /\ h[{}] = << >>
      BY <1>0, <2>3, Zenon DEF Chain, Link
    <3>2. s \cup {e} = {e} /\ p[s \cup {e}] = e /\ {e} \ {e} = {}
      BY <2>2, <2>3
    <3>3. h[s \cup {e}] = Then(c[e], << >>)
      BY <2>2, <3>1, <3>2, Zenon
    <3> QED  BY <1>3, <3>1, <3>3, ThenNothing
  <2>4. CASE s # {}
    <3> DEFINE x == p[s]
               u == s \ {x}
    <3>1. x \in s /\ p[s \cup {e}] = x
      BY <1>0, <2>4 DEF Parts, Picks
    <3>2. (s \cup {e}) \ {x} = u \cup {e} /\ u \in SUBSET s /\ u # s /\ u \in SUBSET S
      <4>1. e \notin S
        BY <1>0
      <4> QED  BY <3>1, <4>1
    <3>3. u \in T
      BY <1>1, <3>2, Zenon
    <3>4. h[u \cup {e}] = Then(g[u], c[e])
      BY <3>3
    <3>5. g[s] = Then(b[x], g[u])
      BY <1>0, <2>4, <3>1, Zenon DEF Chain, Link
    <3>6. c[x] = b[x] /\ b[x] \in Seq(Byte)
      BY <1>0, <3>1 DEF Parts
    <3>7. g[u] \in Seq(Byte)
      BY <1>0, <3>2, ChainType
    <3>8. h[s \cup {e}] = Then(b[x], Then(g[u], c[e]))
      BY <2>2, <3>1, <3>2, <3>4, <3>6, Zenon
    <3> HIDE DEF u, x
    <3>9. h[s \cup {e}] = Then(g[s], c[e])
      BY <1>3, <3>5, <3>6, <3>7, <3>8, ThenAgain
    <3> QED  BY <3>9
  <2> QED  BY <2>3, <2>4
<1> HIDE DEF T
<1>2. S \in T
  <2>1. \A s \in SUBSET S : s \in T
    BY <1>1, <1>3, Subsets
  <2> QED  BY <2>1
<1>4. g[S] \in Seq(Byte)
  <2>1. S \in SUBSET S
    OBVIOUS
  <2> QED  BY <1>0, <2>1, ChainType
<1> QED  BY <1>2, <1>4 DEF T

-----------------------------------------------------------------------------
(* The elements of a list, in the order of their indices                    *)

Lowest(s) == CHOOSE x \in s : \A y \in s : x = y \/ ByIndex(x, y)
RunsN(g, S, b) == g = [s \in SUBSET S |-> IF s = {} THEN << >> ELSE b[Lowest(s)] \o g[s \ {Lowest(s)}]]
LEMMA InOrderIsN == ASSUME NEW S, NEW b PROVE InOrder(S, ByIndex, b) = (CHOOSE g : RunsN(g, S, b))[S]
BY Zenon DEF InOrder, RunsN, Lowest


LEMMA LowestIn ==
  ASSUME NEW n \in Nat, NEW s \in SUBSET (1 .. n), s # {}
  PROVE  Lowest(s) \in s /\ \A y \in s : Lowest(s) = y \/ Lowest(s) < y
<1>1. s \subseteq Nat
  OBVIOUS
<1>2. PICK x \in s : \A y \in s : ~(<<y, x>> \in OpToRel(<, Nat))
  BY <1>1, WFMin, NatLessThanWellFounded, Zenon
<1>3. \A y \in s : x = y \/ x < y
  <2> TAKE y \in s
  <2>1. x \in Nat /\ y \in Nat /\ ~(<<y, x>> \in OpToRel(<, Nat))
    BY <1>1, <1>2
  <2>2. ~(y < x)
    BY <2>1 DEF OpToRel
  <2>3. x \in Nat /\ y \in Nat
    BY <1>1
  <2> QED  BY <2>2, <2>3
<1> DEFINE P(x0) == \A y \in s : x0 = y \/ ByIndex(x0, y)
<1>4. \E x0 \in s : P(x0)
  BY <1>3, Zenon DEF ByIndex
<1>5. Lowest(s) \in s /\ P(Lowest(s))
  BY <1>4, Zenon DEF Lowest
<1> QED  BY <1>5 DEF ByIndex

LEMMA LowestOf ==
  ASSUME NEW n \in Nat, NEW i \in 1 .. n
  PROVE  Lowest(i .. n) = i /\ (i .. n) \ {i} = i + 1 .. n
<1>1. i .. n \in SUBSET (1 .. n) /\ i \in i .. n
  OBVIOUS
<1>2. Lowest(i .. n) \in i .. n /\ (Lowest(i .. n) = i \/ Lowest(i .. n) < i)
  BY <1>1, LowestIn
<1> QED  BY <1>2

LEMMA ElementsChain ==
  ASSUME NEW R, NEW p, NEW b, Parts(p, b, R), \A s \in SUBSET R : p[s] = Lowest(s)
  PROVE  \E g : Chain(g, p, b, R) /\ InOrder(R, ByIndex, b) = g[R]
<1> DEFINE G == CHOOSE g : RunsN(g, R, b)
<1>1. PICK g : Built(g, p, b, R)
  BY ChainExists, Zenon
<1>2. \A h : \A s \in SUBSET R :
        Link(h, p, b, s) = IF s = {} THEN << >> ELSE b[Lowest(s)] \o h[s \ {Lowest(s)}]
  BY Zenon DEF Link, Then
<1>3. RunsN(g, R, b)
  <2> DEFINE f(s) == IF s = {} THEN << >> ELSE b[Lowest(s)] \o g[s \ {Lowest(s)}]
  <2>1. \A s \in SUBSET R : Link(g, p, b, s) = f(s)
    BY <1>2
  <2> HIDE DEF f
  <2>2. g = [s \in SUBSET R |-> f(s)]
    BY <1>1, <2>1, Zenon DEF Built
  <2> QED  BY <2>2 DEF f, RunsN
<1>4. RunsN(G, R, b)
  BY <1>3, Zenon
<1> HIDE DEF G
<1>5. \A s \in SUBSET R :
        G[s] = IF s = {} THEN << >> ELSE b[Lowest(s)] \o G[s \ {Lowest(s)}]
  BY <1>4 DEF RunsN
<1>6. Chain(G, p, b, R)
  BY <1>2, <1>5, Zenon DEF Chain
<1>7. InOrder(R, ByIndex, b) = G[R]
  BY InOrderIsN DEF G
<1> QED  BY <1>6, <1>7, Zenon

LEMMA ElementsInOrder ==
  ASSUME NEW n \in Nat, NEW b, \A e \in 1 .. n : b[e] \in Seq(Byte)
  PROVE  /\ InOrder({}, ByIndex, b) = << >>
         /\ \A S \in SUBSET (1 .. n) :
              /\ InOrder(S, ByIndex, b) \in Seq(Byte)
              /\ S # {} => /\ Lowest(S) \in S
                          /\ InOrder(S, ByIndex, b)
                               = Then(b[Lowest(S)], InOrder(S \ {Lowest(S)}, ByIndex, b))
<1> DEFINE W == 1 .. n
           p == [s \in SUBSET W |-> Lowest(s)]
<1>1. Picks(p, W) /\ \A s \in SUBSET W : p[s] = Lowest(s)
  BY LowestIn DEF Picks
<1>2. Parts(p, b, W)
  BY <1>1, FS_Interval DEF Parts
<1> HIDE DEF p, W
<1>3. ASSUME NEW R \in SUBSET W PROVE \E g : Chain(g, p, b, R) /\ InOrder(R, ByIndex, b) = g[R]
  <2>1. Parts(p, b, R) /\ \A s \in SUBSET R : p[s] = Lowest(s)
    BY <1>1, <1>2, FewerParts
  <2> QED  BY <2>1, ElementsChain
<1>4. InOrder({}, ByIndex, b) = << >>
  <2>1. {} \in SUBSET W /\ {} \in SUBSET {}
    OBVIOUS
  <2>2. PICK g : Chain(g, p, b, {}) /\ InOrder({}, ByIndex, b) = g[{}]
    BY <1>3, <2>1
  <2> QED  BY <2>1, <2>2 DEF Chain, Link
<1>5. ASSUME NEW S \in SUBSET W
      PROVE  /\ InOrder(S, ByIndex, b) \in Seq(Byte)
             /\ S # {} => /\ Lowest(S) \in S
                         /\ InOrder(S, ByIndex, b)
                              = Then(b[Lowest(S)], InOrder(S \ {Lowest(S)}, ByIndex, b))
  <2> DEFINE R == S \ {Lowest(S)}
  <2>1. R \in SUBSET W /\ R \in SUBSET S /\ S \in SUBSET S /\ R \in SUBSET R
    OBVIOUS
  <2>2. Parts(p, b, S)
    BY <1>2, FewerParts
  <2> HIDE DEF R
  <2>3. PICK g : Chain(g, p, b, S) /\ InOrder(S, ByIndex, b) = g[S]
    BY <1>3, <2>1
  <2>4. PICK h : Chain(h, p, b, R) /\ InOrder(R, ByIndex, b) = h[R]
    BY <1>3, <2>1
  <2>5. g[S] \in Seq(Byte)
    BY <2>1, <2>2, <2>3, ChainType
  <2>6. g[R] = h[R]
    <3>1. \A s \in SUBSET R : g[s] = h[s]
      BY ONLY <2>1, <2>2, <2>3, <2>4, ChainsAgree
    <3> QED  BY <2>1, <3>1, Zenon
  <2>7. p[S] = Lowest(S) /\ (S # {} => p[S] \in S)
    BY <1>1 DEF Picks
  <2>8. S # {} => g[S] = Then(b[Lowest(S)], g[R])
    BY <2>1, <2>3, <2>7, Zenon DEF Chain, Link, R
  <2> QED  BY <2>3, <2>4, <2>5, <2>6, <2>7, <2>8 DEF R
<1> QED  BY <1>4, <1>5 DEF W

LEMMA ElementsNone == ASSUME NEW b PROVE InOrder(1 .. 0, ByIndex, b) = << >>
<1>1. InOrder({}, ByIndex, b) = << >>
  <2>1. \A e \in 1 .. 0 : b[e] \in Seq(Byte)
    OBVIOUS
  <2> QED  BY <2>1, ElementsInOrder
<1>2. 1 .. 0 = {}
  OBVIOUS
<1> QED  BY <1>1, <1>2, Zenon

LEMMA ElementsGrow ==
  ASSUME NEW n \in Nat, NEW b, NEW c, \A j \in 1 .. n + 1 : c[j] \in Seq(Byte),
         \A j \in 1 .. n : b[j] = c[j]
  PROVE  /\ InOrder(1 .. n, ByIndex, b) \in Seq(Byte)
         /\ InOrder(1 .. n + 1, ByIndex, c) = Then(InOrder(1 .. n, ByIndex, b), c[n + 1])
<1> DEFINE S == 1 .. n
           e == n + 1
           V == 1 .. n + 1
           p == [s \in SUBSET V |-> Lowest(s)]
<1>1. S \cup {e} = V /\ e \notin S
  OBVIOUS
<1>2. \A s \in SUBSET V : p[s] = Lowest(s) /\ (s # {} => p[s] \in s)
  <2>1. n + 1 \in Nat
    OBVIOUS
  <2> QED  BY <2>1, LowestIn
<1>3. \A s \in SUBSET S : s \in SUBSET V
  BY <1>1
<1> HIDE DEF p
<1>4. IsFiniteSet(S) /\ IsFiniteSet(V)
  <2>1. 1 \in Int /\ n \in Int /\ n + 1 \in Int
    OBVIOUS
  <2> QED  BY <2>1, FS_Interval
<1>5. Parts(p, b, S) /\ Parts(p, c, V)
  <2>1. \A j \in S : j \in V
    BY <1>1
  <2> QED  BY <1>2, <1>3, <1>4, <2>1 DEF Parts, Picks
<1>6. ASSUME NEW s \in SUBSET S, s # {} PROVE p[s \cup {e}] = p[s]
  <2> DEFINE u == s \cup {e}
             x == Lowest(s)
             y == Lowest(u)
  <2>1. s \in SUBSET (1 .. n) /\ u \in SUBSET V /\ u # {}
    BY <1>1
  <2>2. x \in s /\ \A z \in s : x = z \/ x < z
    BY <1>6, <2>1, LowestIn
  <2>3. y \in u /\ \A z \in u : y = z \/ y < z
    <3>1. n + 1 \in Nat
      OBVIOUS
    <3> QED  BY <2>1, <3>1, LowestIn
  <2>4. x \in 1 .. n /\ y \in 1 .. n + 1
    BY <2>1, <2>2, <2>3
  <2>5. (y = x \/ y < x) /\ (y \in s => x = y \/ x < y) /\ (y \notin s => y = n + 1)
    BY <2>2, <2>3
  <2> HIDE DEF x, y, u
  <2>6. x = y
    BY <2>4, <2>5
  <2> QED  BY <1>2, <1>3, <2>1, <2>6 DEF x, y, u
<1> HIDE DEF S, V
<1>7. PICK g : Chain(g, p, b, S) /\ InOrder(S, ByIndex, b) = g[S]
  <2>1. \A s \in SUBSET S : p[s] = Lowest(s)
    BY <1>2, <1>3
  <2> QED  BY <1>5, <2>1, ElementsChain, Zenon
<1>8. PICK h : Chain(h, p, c, V) /\ InOrder(V, ByIndex, c) = h[V]
  <2>1. \A s \in SUBSET V : p[s] = Lowest(s)
    BY <1>2
  <2> QED  BY <1>5, <2>1, ElementsChain, Zenon
<1>9. \A x \in S : c[x] = b[x]
  BY DEF S
<1>12. \A s \in SUBSET S : s # {} => p[s \cup {e}] = p[s]
  BY <1>6
<1> HIDE DEF e
<1>10. Grown(g, h, p, b, c, S, e)
  BY <1>1, <1>5, <1>7, <1>8, <1>9, <1>12 DEF Grown
<1>11. h[S \cup {e}] = Then(g[S], c[e]) /\ g[S] \in Seq(Byte)
  BY <1>10, ChainGrows, Zenon
<1> QED  BY <1>1, <1>7, <1>8, <1>10, <1>11 DEF S, V, e

-----------------------------------------------------------------------------
(* The entries of a map, in the order their tags were made                  *)

Oldest(s) == CHOOSE x \in s : \A y \in s : x = y \/ AsRead(x, y)
RunsAsRead(g, S, b) == g = [s \in SUBSET S |-> IF s = {} THEN << >> ELSE b[Oldest(s)] \o g[s \ {Oldest(s)}]]
LEMMA AsReadIs == ASSUME NEW S, NEW b PROVE InOrder(S, AsRead, b) = (CHOOSE g : RunsAsRead(g, S, b))[S]
BY Zenon DEF InOrder, RunsAsRead, Oldest

Aged(m) == /\ \A x \in m : x[2] \in Nat
           /\ \A x, y \in m : x[2] = y[2] => x = y

LEMMA OldestIn ==
  ASSUME NEW m, Aged(m), NEW s \in SUBSET m, s # {}
  PROVE  Oldest(s) \in s /\ \A y \in s : Oldest(s) = y \/ Oldest(s)[2] < y[2]
<1> DEFINE N == {x[2] : x \in s}
<1>1. N \subseteq Nat /\ N # {}
  BY DEF Aged
<1> HIDE DEF N
<1>2. PICK k \in N : \A l \in N : ~(<<l, k>> \in OpToRel(<, Nat))
  BY <1>1, WFMin, NatLessThanWellFounded, Zenon
<1>3. \A l \in N : l = k \/ k < l
  <2> TAKE l \in N
  <2>1. l \in Nat /\ k \in Nat /\ ~(<<l, k>> \in OpToRel(<, Nat))
    BY <1>1, <1>2
  <2>2. ~(l < k)
    BY <2>1 DEF OpToRel
  <2>3. l \in Nat /\ k \in Nat
    BY <1>1
  <2> QED  BY <2>2, <2>3
<1>4. PICK x \in s : x[2] = k
  BY DEF N
<1> DEFINE P(z) == \A y \in s : z = y \/ AsRead(z, y)
<1>5. P(x)
  <2> TAKE y \in s
  <2>1. y[2] = k \/ k < y[2]
    BY <1>3 DEF N
  <2>2. y[2] = k => x = y
    BY <1>4 DEF Aged
  <2> QED  BY <1>4, <2>1, <2>2 DEF AsRead
<1>6. \E z \in s : P(z)
  BY <1>5
<1>7. Oldest(s) \in s /\ P(Oldest(s))
  BY <1>6, Zenon DEF Oldest
<1> QED  BY <1>7 DEF AsRead

LEMMA EntriesChain ==
  ASSUME NEW R, NEW p, NEW b, Parts(p, b, R), \A s \in SUBSET R : p[s] = Oldest(s)
  PROVE  \E g : Chain(g, p, b, R) /\ InOrder(R, AsRead, b) = g[R]
<1> DEFINE G == CHOOSE g : RunsAsRead(g, R, b)
<1>1. PICK g : Built(g, p, b, R)
  BY ChainExists, Zenon
<1>2. \A h : \A s \in SUBSET R :
        Link(h, p, b, s) = IF s = {} THEN << >> ELSE b[Oldest(s)] \o h[s \ {Oldest(s)}]
  BY Zenon DEF Link, Then
<1>3. RunsAsRead(g, R, b)
  <2> DEFINE f(s) == IF s = {} THEN << >> ELSE b[Oldest(s)] \o g[s \ {Oldest(s)}]
  <2>1. \A s \in SUBSET R : Link(g, p, b, s) = f(s)
    BY <1>2
  <2> HIDE DEF f
  <2>2. g = [s \in SUBSET R |-> f(s)]
    BY <1>1, <2>1, Zenon DEF Built
  <2> QED  BY <2>2 DEF f, RunsAsRead
<1>4. RunsAsRead(G, R, b)
  BY <1>3, Zenon
<1> HIDE DEF G
<1>5. \A s \in SUBSET R :
        G[s] = IF s = {} THEN << >> ELSE b[Oldest(s)] \o G[s \ {Oldest(s)}]
  BY <1>4 DEF RunsAsRead
<1>6. Chain(G, p, b, R)
  BY <1>2, <1>5, Zenon DEF Chain
<1>7. InOrder(R, AsRead, b) = G[R]
  BY AsReadIs DEF G
<1> QED  BY <1>6, <1>7, Zenon

LEMMA EntriesNone == ASSUME NEW b PROVE InOrder({}, AsRead, b) = << >>
<1> DEFINE p == [s \in SUBSET {} |-> Oldest(s)]
<1>1. Parts(p, b, {}) /\ \A s \in SUBSET {} : p[s] = Oldest(s)
  BY FS_EmptySet DEF Parts, Picks
<1> HIDE DEF p
<1>2. PICK g : Chain(g, p, b, {}) /\ InOrder({}, AsRead, b) = g[{}]
  BY <1>1, EntriesChain
<1>3. {} \in SUBSET {}
  OBVIOUS
<1> QED  BY <1>2, <1>3 DEF Chain, Link

(* An entry younger than all the others. *)
Younger(V, S, e, b, c) ==
  /\ IsFiniteSet(S) /\ V = S \cup {e} /\ Aged(V)
  /\ \A x \in S : x[2] < e[2]
  /\ \A x \in V : c[x] \in Seq(Byte)
  /\ \A x \in S : b[x] = c[x]

LEMMA EntriesGrow ==
  ASSUME NEW S, NEW e, NEW V, NEW b, NEW c, Younger(V, S, e, b, c)
  PROVE  /\ InOrder(S, AsRead, b) \in Seq(Byte)
         /\ InOrder(V, AsRead, c) = Then(InOrder(S, AsRead, b), c[e])
<1> DEFINE p == [s \in SUBSET V |-> Oldest(s)]
<1> USE DEF Younger
<1>1. e \in V /\ S \subseteq V
  OBVIOUS
<1>2. e \notin S
  BY <1>1 DEF Aged
<1>3. \A s \in SUBSET V : p[s] = Oldest(s) /\ (s # {} => p[s] \in s)
  BY OldestIn
<1>4. \A s \in SUBSET S : s \in SUBSET V
  BY <1>1
<1> HIDE DEF p
<1>5. IsFiniteSet(V)
  BY FS_AddElement
<1>6. Parts(p, b, S) /\ Parts(p, c, V)
  BY <1>1, <1>3, <1>4, <1>5 DEF Parts, Picks
<1>7. ASSUME NEW s \in SUBSET S, s # {} PROVE p[s \cup {e}] = p[s]
  <2> DEFINE u == s \cup {e}
             x == Oldest(s)
             y == Oldest(u)
  <2>1. s \in SUBSET V /\ u \in SUBSET V /\ u # {}
    BY <1>1
  <2>2. x \in s /\ \A z \in s : x = z \/ x[2] < z[2]
    BY <1>7, <2>1, OldestIn
  <2>3. y \in u /\ \A z \in u : y = z \/ y[2] < z[2]
    BY <2>1, OldestIn
  <2>4. x \in S /\ x \in u /\ y \in V /\ (y \in s \/ y = e)
    BY <2>1, <2>2, <2>3
  <2>5. (y = x \/ y[2] < x[2]) /\ (y \in s => x = y \/ x[2] < y[2])
    BY <2>2, <2>3, <2>4
  <2> HIDE DEF x, y, u
  <2>6. x[2] \in Nat /\ y[2] \in Nat /\ e[2] \in Nat /\ x[2] < e[2]
    BY <1>1, <2>4 DEF Aged
  <2>7. x = y
    BY <2>4, <2>5, <2>6
  <2> QED  BY <1>3, <2>1, <2>7 DEF x, y, u
<1>8. PICK g : Chain(g, p, b, S) /\ InOrder(S, AsRead, b) = g[S]
  <2>1. \A s \in SUBSET S : p[s] = Oldest(s)
    BY <1>3, <1>4
  <2> QED  BY <1>6, <2>1, EntriesChain, Zenon
<1>9. PICK h : Chain(h, p, c, V) /\ InOrder(V, AsRead, c) = h[V]
  <2>1. \A s \in SUBSET V : p[s] = Oldest(s)
    BY <1>3
  <2> QED  BY ONLY <1>6, <2>1, EntriesChain, Zenon
<1>10. \A s \in SUBSET S : s # {} => p[s \cup {e}] = p[s]
  BY <1>7
<1>11. Grown(g, h, p, b, c, S, e)
  BY <1>2, <1>6, <1>8, <1>9, <1>10, Zenon DEF Grown
<1>12. h[S \cup {e}] = Then(g[S], c[e]) /\ g[S] \in Seq(Byte)
  BY <1>11, ChainGrows, Zenon
<1> QED  BY <1>8, <1>9, <1>12

=============================================================================
