-------------------------- MODULE TagWriter_proofs --------------------------
(***************************************************************************)
(* What holds of Write for every entity that can be written and for every  *)
(* size of the buffer.                                                     *)
(***************************************************************************)
EXTENDS TagWriter, TagFormat_proofs

USE DEF Null, Error, SizeofTagType, SizeofU16, SizeofU32

-----------------------------------------------------------------------------
(* Sums.  SumFunctionOnSet adds the values in an order of its own; the sum  *)
(* is that of any element and of the rest.                                  *)

Choice(s)       == CHOOSE x \in s : TRUE
Step(g, f, s)   == IF s = {} THEN 0 ELSE f[Choice(s)] + g[s \ {Choice(s)}]
Totals(g, f, S) == g = [s \in SUBSET S |-> Step(g, f, s)]

LEMMA ChoiceIn == ASSUME NEW s, s # {} PROVE Choice(s) \in s
BY DEF Choice

LEMMA SumIs ==
  ASSUME NEW f, NEW S
  PROVE  SumFunctionOnSet(f, S) = (CHOOSE g : Totals(g, f, S))[S]
BY Zenon DEF SumFunctionOnSet, FoldFunctionOnSet, MapThenFoldSet, Totals, Step, Choice

LEMMA StepType ==
  ASSUME NEW S, NEW f, \A x \in S : f[x] \in Nat, NEW g \in [SUBSET S -> Nat], NEW s \in SUBSET S
  PROVE  Step(g, f, s) \in Nat
<1>1. CASE s = {}
  BY <1>1 DEF Step
<1>2. CASE s # {}
  <2>1. Choice(s) \in S
    BY <1>2, ChoiceIn
  <2>2. s \ {Choice(s)} \in SUBSET S
    OBVIOUS
  <2>3. f[Choice(s)] \in Nat /\ g[s \ {Choice(s)}] \in Nat
    BY <2>1, <2>2, Zenon
  <2> QED  BY <1>2, <2>3 DEF Step
<1> QED  BY <1>1, <1>2

LEMMA TotalsExist ==
  ASSUME NEW S, IsFiniteSet(S), NEW f, \A x \in S : f[x] \in Nat
  PROVE  \E g : Totals(g, f, S)
<1> DEFINE Upto(n, g) == \A s \in SUBSET S : Cardinality(s) <= n => g[s] = Step(g, f, s)
           T == {n \in Nat : \E g \in [SUBSET S -> Nat] : Upto(n, g)}
<1>1. \A s \in SUBSET S : IsFiniteSet(s) /\ Cardinality(s) \in Nat /\ Cardinality(s) <= Cardinality(S)
  BY FS_Subset, FS_CardinalityType
<1>2. 0 \in T
  <2> DEFINE g == [s \in SUBSET S |-> 0]
  <2>1. Upto(0, g)
    <3> SUFFICES ASSUME NEW s \in SUBSET S, Cardinality(s) <= 0 PROVE g[s] = Step(g, f, s)
      OBVIOUS
    <3>1. s = {}
      BY <1>1, FS_EmptySet
    <3> QED  BY <3>1 DEF Step
  <2>2. g \in [SUBSET S -> Nat]
    OBVIOUS
  <2> QED  BY <2>1, <2>2
<1>3. ASSUME NEW n \in Nat, n \in T PROVE n + 1 \in T
  <2>1. PICK g \in [SUBSET S -> Nat] : Upto(n, g)
    BY <1>3
  <2> DEFINE h == [s \in SUBSET S |-> Step(g, f, s)]
  <2>2. h \in [SUBSET S -> Nat]
    BY StepType
  <2>3. ASSUME NEW s \in SUBSET S, Cardinality(s) <= n + 1 PROVE h[s] = Step(h, f, s)
    <3>1. h[s] = Step(g, f, s)
      OBVIOUS
    <3>2. CASE s = {}
      BY <3>1, <3>2 DEF Step
    <3>3. CASE s # {}
      <4> DEFINE u == s \ {Choice(s)}
      <4>1. u \in SUBSET S /\ Cardinality(u) = Cardinality(s) - 1
        BY <1>1, <3>3, ChoiceIn, FS_RemoveElement
      <4>2. Cardinality(u) <= n
        BY <1>1, <2>3, <4>1
      <4>3. g[u] = Step(g, f, u) /\ h[u] = Step(g, f, u)
        BY <2>1, <4>1, <4>2
      <4> QED  BY <3>1, <3>3, <4>3, Zenon DEF Step
    <3> QED  BY <3>2, <3>3
  <2> HIDE DEF h
  <2>4. Upto(n + 1, h)
    BY <2>3
  <2> QED  BY <2>2, <2>4
<1> HIDE DEF T
<1>4. Cardinality(S) \in Nat
  BY FS_CardinalityType
<1>5. Cardinality(S) \in T
  BY <1>2, <1>3, <1>4, Naturals
<1>6. PICK g \in [SUBSET S -> Nat] : Upto(Cardinality(S), g)
  BY <1>5 DEF T
<1>7. \A s \in SUBSET S : g[s] = Step(g, f, s)
  BY <1>1, <1>6
<1>8. g = [s \in SUBSET S |-> Step(g, f, s)]
  BY <1>7
<1> QED  BY <1>8 DEF Totals

LEMMA TotalsType ==
  ASSUME NEW S, IsFiniteSet(S), NEW f, \A x \in S : f[x] \in Nat, NEW g, Totals(g, f, S)
  PROVE  \A s \in SUBSET S : g[s] = Step(g, f, s) /\ g[s] \in Nat
<1> DEFINE T == {s \in SUBSET S : g[s] \in Nat}
<1>1. \A s \in SUBSET S : g[s] = Step(g, f, s)
  BY DEF Totals
<1>2. ASSUME NEW s \in SUBSET S, \A u \in SUBSET s : u # s => u \in T PROVE s \in T
  <2>1. CASE s = {}
    <3>1. g[s] = 0
      BY <1>1, <2>1, Zenon DEF Step
    <3> QED  BY <3>1
  <2>2. CASE s # {}
    <3>1. Choice(s) \in s
      BY <2>2, ChoiceIn
    <3>2. s \ {Choice(s)} \in T
      BY <1>2, <3>1
    <3>3. f[Choice(s)] \in Nat /\ g[s \ {Choice(s)}] \in Nat
      BY <3>1, <3>2
    <3>4. g[s] = f[Choice(s)] + g[s \ {Choice(s)}]
      BY <1>1, <2>2 DEF Step
    <3> QED  BY <3>3, <3>4
  <2> QED  BY <2>1, <2>2
<1> HIDE DEF T
<1>3. \A s \in SUBSET S : s \in T
  BY <1>2, Subsets
<1> QED  BY <1>1, <1>3 DEF T

(* It does not matter which element is taken first.                         *)
LEMMA TotalsSplit ==
  ASSUME NEW S, IsFiniteSet(S), NEW f, \A x \in S : f[x] \in Nat, NEW g, Totals(g, f, S)
  PROVE  \A s \in SUBSET S : \A x \in s : g[s] = f[x] + g[s \ {x}]
<1> DEFINE T == {s \in SUBSET S : \A x \in s : g[s] = f[x] + g[s \ {x}]}
<1>1. ASSUME NEW s \in SUBSET S, \A u \in SUBSET s : u # s => u \in T PROVE s \in T
  <2> SUFFICES ASSUME NEW x \in s PROVE g[s] = f[x] + g[s \ {x}]
    OBVIOUS
  <2> DEFINE c == Choice(s)
  <2>1. c \in s
    BY ChoiceIn
  <2>2. g[s] = f[c] + g[s \ {c}]
    <3>1. g[s] = Step(g, f, s) /\ s # {}
      BY <2>1, TotalsType
    <3> QED  BY <3>1, Zenon DEF Step
  <2> HIDE DEF c
  <2>3. CASE c = x
    BY <2>2, <2>3
  <2>4. CASE c # x
    <3> DEFINE u == s \ {c}
               v == s \ {x}
               w == s \ {c, x}
    <3>1. u \ {x} = w /\ v \ {c} = w /\ x \in u /\ c \in v
      BY <2>1, <2>4
    <3>2. u \in T /\ v \in T
      BY <1>1, <2>1
    <3>3. g[u] = f[x] + g[w] /\ g[v] = f[c] + g[w]
      BY <3>1, <3>2
    <3>4. w \in SUBSET S /\ x \in S /\ c \in S
      BY <2>1
    <3> HIDE DEF w
    <3>5. g[w] \in Nat /\ f[x] \in Nat /\ f[c] \in Nat
      BY <3>4, TotalsType
    <3> QED  BY <2>2, <3>3, <3>5
  <2> QED  BY <2>3, <2>4
<1> HIDE DEF T
<1>2. \A s \in SUBSET S : s \in T
  BY <1>1, Subsets
<1> QED  BY <1>2 DEF T

(* The totals of the parts of a set are those of the whole.                 *)
LEMMA TotalsAgree ==
  ASSUME NEW S, IsFiniteSet(S), NEW R \in SUBSET S, NEW f, \A x \in S : f[x] \in Nat,
         NEW g, Totals(g, f, S), NEW h, Totals(h, f, R)
  PROVE  \A s \in SUBSET R : g[s] = h[s]
<1> DEFINE T == {s \in SUBSET R : g[s] = h[s]}
<1>1. \A s \in SUBSET R : g[s] = Step(g, f, s) /\ h[s] = Step(h, f, s)
  BY DEF Totals
<1>2. ASSUME NEW s \in SUBSET R, \A u \in SUBSET s : u # s => u \in T PROVE s \in T
  <2>1. CASE s = {}
    BY <1>1, <2>1 DEF Step
  <2>2. CASE s # {}
    <3>1. g[s \ {Choice(s)}] = h[s \ {Choice(s)}]
      BY <1>2, <2>2, ChoiceIn
    <3>2. Step(g, f, s) = Step(h, f, s)
      BY <3>1, Zenon DEF Step
    <3> QED  BY <1>1, <3>2
  <2> QED  BY <2>1, <2>2
<1> HIDE DEF T
<1>3. IsFiniteSet(R)
  BY FS_Subset
<1>4. \A s \in SUBSET R : s \in T
  BY <1>2, <1>3, Subsets
<1> QED  BY <1>4 DEF T

LEMMA SumOfNone == ASSUME NEW f PROVE SumFunctionOnSet(f, {}) = 0
<1> DEFINE g == [s \in SUBSET {} |-> 0]
<1>1. Totals(g, f, {})
  BY DEF Totals, Step
<1>2. Totals(CHOOSE h : Totals(h, f, {}), f, {})
  BY <1>1, Zenon
<1> QED  BY <1>2, SumIs DEF Totals, Step

LEMMA SumOfSome ==
  ASSUME NEW S, IsFiniteSet(S), NEW f, \A x \in S : f[x] \in Nat
  PROVE  /\ SumFunctionOnSet(f, S) \in Nat
         /\ \A x \in S : SumFunctionOnSet(f, S) = f[x] + SumFunctionOnSet(f, S \ {x})
<1> DEFINE Of(R) == CHOOSE g : Totals(g, f, R)
<1>1. ASSUME NEW R \in SUBSET S PROVE Totals(Of(R), f, R) /\ SumFunctionOnSet(f, R) = Of(R)[R]
  <2>1. IsFiniteSet(R) /\ \A x \in R : f[x] \in Nat
    BY FS_Subset
  <2>2. \E g : Totals(g, f, R)
    BY <2>1, TotalsExist
  <2> QED  BY <2>2, SumIs, Zenon
<1> HIDE DEF Of
<1>2. SumFunctionOnSet(f, S) = Of(S)[S] /\ Totals(Of(S), f, S) /\ S \in SUBSET S
  BY <1>1
<1>3. Of(S)[S] \in Nat
  BY <1>2, TotalsType
<1>4. ASSUME NEW x \in S PROVE SumFunctionOnSet(f, S) = f[x] + SumFunctionOnSet(f, S \ {x})
  <2> DEFINE R == S \ {x}
  <2>1. R \in SUBSET S
    OBVIOUS
  <2>2. SumFunctionOnSet(f, R) = Of(R)[R] /\ Totals(Of(R), f, R) /\ R \in SUBSET R
    BY <1>1
  <2>3. Of(S)[R] = Of(R)[R]
    BY <1>2, <2>1, <2>2, TotalsAgree
  <2>4. Of(S)[S] = f[x] + Of(S)[R]
    BY <1>2, TotalsSplit
  <2> QED  BY <1>2, <2>2, <2>3, <2>4
<1> QED  BY <1>2, <1>3, <1>4

-----------------------------------------------------------------------------
(* CalculateSize is defined of every tag, by its type and its children      *)

Sizes(z, h) == z = [id \in 1 .. Len(h) |-> SizeIn(z, h[id])]

LEMMA CalculateSizeIs == CalculateSize = CHOOSE z : Sizes(z, heap)
BY Zenon DEF CalculateSize, Sizes, Ids

LEMMA HeaderSizes ==
  ASSUME NEW m \in Map, NEW e \in m
  PROVE  HeaderSize(e) \in Nat /\ HeaderSize(e) = 3 + Len(e[1]) /\ e[1] \in Name
BY DEF Map, Name, HeaderSize

KidsAdd(z, kids) ==
  LET sum == KidSizes(z, kids) IN
  /\ SumFunction(sum) = SumFunctionOnSet(sum, 1 .. Len(kids))
  /\ SumFunctionOnSet(sum, {}) = 0
  /\ \A S \in SUBSET (1 .. Len(kids)) :
       /\ SumFunctionOnSet(sum, S) \in Nat
       /\ \A j \in S : SumFunctionOnSet(sum, S) = z[kids[j]] + SumFunctionOnSet(sum, S \ {j})

LEMMA KidsSum ==
  ASSUME NEW kids \in Seq(Nat), NEW z, \A j \in 1 .. Len(kids) : z[kids[j]] \in Nat
  PROVE  KidsAdd(z, kids)
<1> DEFINE f == KidSizes(z, kids)
<1>1. DOMAIN f = 1 .. Len(kids) /\ \A j \in 1 .. Len(kids) : f[j] = z[kids[j]]
  BY DEF KidSizes
<1>2. IsFiniteSet(1 .. Len(kids))
  BY FS_Interval
<1> HIDE DEF f
<1>3. ASSUME NEW S \in SUBSET (1 .. Len(kids))
      PROVE  /\ SumFunctionOnSet(f, S) \in Nat
             /\ \A j \in S : SumFunctionOnSet(f, S) = z[kids[j]] + SumFunctionOnSet(f, S \ {j})
  <2>1. IsFiniteSet(S) /\ \A j \in S : f[j] \in Nat /\ f[j] = z[kids[j]]
    BY <1>1, <1>2, FS_Subset
  <2> QED  BY <2>1, SumOfSome, ZenonT(40)
<1>4. SumFunction(f) = SumFunctionOnSet(f, 1 .. Len(kids))
  BY <1>1 DEF SumFunction
<1>5. SumFunctionOnSet(f, {}) = 0
  BY SumOfNone
<1> QED  BY <1>3, <1>4, <1>5 DEF f, KidsAdd

EntriesAdd(z, m) ==
  LET sum == EntrySizes(z, m) IN
  /\ SumFunction(sum) = SumFunctionOnSet(sum, m)
  /\ SumFunctionOnSet(sum, {}) = 0
  /\ \A S \in SUBSET m :
       /\ SumFunctionOnSet(sum, S) \in Nat
       /\ \A e \in S : SumFunctionOnSet(sum, S)
                        = HeaderSize(e) + z[e[2]] + SumFunctionOnSet(sum, S \ {e})

LEMMA EntriesSum ==
  ASSUME NEW m \in Map, IsFiniteSet(m), NEW z, \A e \in m : z[e[2]] \in Nat
  PROVE  EntriesAdd(z, m)
<1> DEFINE f == EntrySizes(z, m)
<1>1. DOMAIN f = m /\ \A e \in m : f[e] = HeaderSize(e) + z[e[2]]
  BY DEF EntrySizes
<1>2. \A e \in m : f[e] \in Nat
  BY <1>1, HeaderSizes
<1> HIDE DEF f
<1>3. ASSUME NEW S \in SUBSET m
      PROVE  /\ SumFunctionOnSet(f, S) \in Nat
             /\ \A e \in S : SumFunctionOnSet(f, S)
                             = HeaderSize(e) + z[e[2]] + SumFunctionOnSet(f, S \ {e})
  <2>1. IsFiniteSet(S) /\ \A e \in S : f[e] \in Nat /\ f[e] = HeaderSize(e) + z[e[2]]
    BY <1>1, <1>2, FS_Subset
  <2> QED  BY <2>1, SumOfSome
<1>4. SumFunction(f) = SumFunctionOnSet(f, m)
  BY <1>1 DEF SumFunction
<1>5. SumFunctionOnSet(f, {}) = 0
  BY SumOfNone
<1> QED  BY <1>3, <1>4, <1>5 DEF f, EntriesAdd

(* The facts about a tag that its size depends on.                          *)
LEMMA EntityTag ==
  ASSUME NEW h, NEW r, Entity(h, r), NEW id \in 1 .. Len(h)
  PROVE  /\ h[id].type \in TagTypes /\ h[id].data \in Seq(Byte) /\ h[id].name \in Name
         /\ h[id].ctype \in kTagEnd .. kTagIntArray
         /\ h[id].kids \in Seq(Nat) /\ h[id].map \in Map /\ IsFiniteSet(h[id].map)
         /\ Keyed(h[id].map)
         /\ \A j \in 1 .. Len(h[id].kids) : h[id].kids[j] \in id + 1 .. Len(h)
         /\ \A e \in h[id].map : e[2] \in id + 1 .. Len(h)
<1>1. h \in Seq(Tag)
  BY DEF Entity
<1>2. h[id] \in Tag
  BY <1>1, ElementOfSeq
<1>3. /\ h[id].type \in TagTypes /\ h[id].data \in Seq(Byte) /\ h[id].name \in Name
      /\ h[id].ctype \in kTagEnd .. kTagIntArray
      /\ h[id].kids \in Seq(Nat) /\ h[id].map \in Map
  BY <1>2 DEF Tag
<1> QED  BY <1>3, Zenon DEF Entity, Keyed

LEMMA SizeByType ==
  ASSUME NEW z, NEW tag
  PROVE  /\ tag.type \in ScalarTypes => SizeIn(z, tag) = ScalarSize(tag.type)
         /\ tag.type \in ArrayTypes  => SizeIn(z, tag) = 4 + Len(tag.data)
         /\ tag.type = kTagString    => SizeIn(z, tag) = 2 + Len(tag.data)
         /\ tag.type = kTagList      => SizeIn(z, tag) = ListHead + SumFunction(KidSizes(z, tag.kids))
         /\ tag.type = kTagCompound  => SizeIn(z, tag) = SumFunction(EntrySizes(z, tag.map)) + 1
<1>1. /\ tag.type \in ScalarTypes => /\ tag.type \notin ArrayTypes
                                   /\ tag.type \notin {kTagString, kTagList, kTagCompound}
      /\ tag.type \in ArrayTypes => tag.type \notin {kTagString, kTagList, kTagCompound}
      /\ kTagString \notin {kTagList, kTagCompound} /\ kTagList # kTagCompound
  BY DEF ScalarTypes, ArrayTypes, kTagByte, kTagDouble, kTagByteArray, kTagIntArray,
     kTagString, kTagList, kTagCompound
<1>2. tag.type \in ScalarTypes => SizeIn(z, tag) = ScalarSize(tag.type)
  BY <1>1, Zenon DEF SizeIn
<1>3. tag.type \in ArrayTypes => SizeIn(z, tag) = 4 + Len(tag.data)
  BY <1>1, Zenon DEF SizeIn
<1>4. tag.type = kTagString => SizeIn(z, tag) = 2 + Len(tag.data)
  BY <1>1, Zenon DEF SizeIn
<1>5. tag.type = kTagList => SizeIn(z, tag) = ListHead + SumFunction(KidSizes(z, tag.kids))
  BY <1>1, Zenon DEF SizeIn
<1>6. tag.type = kTagCompound => SizeIn(z, tag) = SumFunction(EntrySizes(z, tag.map)) + 1
  BY <1>1, Zenon DEF SizeIn
<1> QED  BY <1>2, <1>3, <1>4, <1>5, <1>6

LEMMA SizeInType ==
  ASSUME NEW h, NEW r, Entity(h, r), NEW id \in 1 .. Len(h),
         NEW z, \A k \in id + 1 .. Len(h) : z[k] \in Nat
  PROVE  SizeIn(z, h[id]) \in Nat
<1> DEFINE tag == h[id]
<1>1. /\ tag.type \in TagTypes /\ tag.data \in Seq(Byte)
      /\ tag.kids \in Seq(Nat) /\ tag.map \in Map /\ IsFiniteSet(tag.map)
      /\ \A j \in 1 .. Len(tag.kids) : z[tag.kids[j]] \in Nat
      /\ \A e \in tag.map : z[e[2]] \in Nat
  BY EntityTag
<1> HIDE DEF tag
<1>2. SumFunction(KidSizes(z, tag.kids)) \in Nat
  BY <1>1, KidsSum, SMTT(30) DEF KidsAdd
<1>3. SumFunction(EntrySizes(z, tag.map)) \in Nat
  <2>1. EntriesAdd(z, tag.map) /\ tag.map \in SUBSET tag.map
    BY <1>1, EntriesSum
  <2> QED  BY <2>1, Zenon DEF EntriesAdd
<1>4. tag.type \in ScalarTypes => ScalarSize(tag.type) \in Nat
  BY ScalarSizes
<1>5. Len(tag.data) \in Nat
  BY <1>1
<1>6. tag.type \in ScalarTypes \/ tag.type \in ArrayTypes \/ tag.type = kTagString
        \/ tag.type = kTagList \/ tag.type = kTagCompound
  BY <1>1 DEF TagTypes, ScalarTypes, ArrayTypes, kTagByte, kTagDouble, kTagByteArray,
     kTagIntArray, kTagString, kTagList, kTagCompound
<1>7. SizeIn(z, tag) \in Nat
  BY <1>2, <1>3, <1>4, <1>5, <1>6, SizeByType DEF ListHead
<1> QED  BY <1>7 DEF tag

LEMMA SizeInSame ==
  ASSUME NEW h, NEW r, Entity(h, r), NEW id \in 1 .. Len(h),
         NEW y, NEW z, \A k \in id + 1 .. Len(h) : y[k] = z[k]
  PROVE  SizeIn(y, h[id]) = SizeIn(z, h[id])
<1>1. KidSizes(y, h[id].kids) = KidSizes(z, h[id].kids)
  <2>1. DOMAIN h[id].kids = 1 .. Len(h[id].kids)
    BY EntityTag
  <2>2. \A j \in DOMAIN h[id].kids : y[h[id].kids[j]] = z[h[id].kids[j]]
    BY <2>1, EntityTag
  <2> QED  BY <2>2 DEF KidSizes
<1>2. EntrySizes(y, h[id].map) = EntrySizes(z, h[id].map)
  <2>1. \A e \in h[id].map : y[e[2]] = z[e[2]]
    BY EntityTag
  <2> QED  BY <2>1 DEF EntrySizes
<1> QED  BY <1>1, <1>2, Zenon DEF SizeIn

(* The sizes of the tags from one on tell that of the tag before.           *)
LEMMA SizesExist ==
  ASSUME NEW h, NEW r, Entity(h, r)
  PROVE  \E z : Sizes(z, h)
<1> DEFINE n == Len(h)
           Upto(m, z) == \A id \in 1 .. n : id > n - m => z[id] = SizeIn(z, h[id])
           T == {m \in Nat : \E z \in [1 .. n -> Nat] : Upto(m, z)}
<1>1. n \in Nat
  BY DEF Entity
<1>2. 0 \in T
  <2>1. [id \in 1 .. n |-> 0] \in [1 .. n -> Nat]
    OBVIOUS
  <2>2. \A id \in 1 .. n : ~(id > n - 0)
    BY <1>1
  <2>3. Upto(0, [id \in 1 .. n |-> 0])
    BY <2>2
  <2> HIDE DEF Upto
  <2> QED  BY <2>1, <2>3
<1>3. ASSUME NEW m \in Nat, m \in T PROVE m + 1 \in T
  <2>1. PICK z \in [1 .. n -> Nat] : Upto(m, z)
    BY <1>3
  <2> DEFINE y == [id \in 1 .. n |-> SizeIn(z, h[id])]
  <2>2. \A id \in 1 .. n : y[id] = SizeIn(z, h[id]) /\ y[id] \in Nat
    <3> TAKE id \in 1 .. n
    <3>1. \A k \in id + 1 .. n : z[k] \in Nat
      BY <1>1
    <3>2. SizeIn(z, h[id]) \in Nat
      BY <3>1, SizeInType
    <3> QED  BY <3>2
  <2>3. y \in [1 .. n -> Nat]
    BY <2>2
  <2> HIDE DEF y
  <2>4. ASSUME NEW id \in 1 .. n, id > n - (m + 1) PROVE y[id] = SizeIn(y, h[id])
    <3>1. \A k \in id + 1 .. n : k \in 1 .. n /\ k > n - m
      BY <1>1, <2>4
    <3>2. \A k \in id + 1 .. n : y[k] = z[k]
      BY <2>1, <2>2, <3>1
    <3>3. SizeIn(y, h[id]) = SizeIn(z, h[id])
      BY <3>2, SizeInSame
    <3> QED  BY <2>2, <3>3
  <2>5. Upto(m + 1, y)
    BY <2>4
  <2> HIDE DEF Upto
  <2> QED  BY <2>3, <2>5
<1> HIDE DEF T
<1>4. n \in T
  BY <1>1, <1>2, <1>3, Naturals
<1>5. PICK z \in [1 .. n -> Nat] : Upto(n, z)
  BY <1>4 DEF T
<1>6. \A id \in 1 .. n : z[id] = SizeIn(z, h[id])
  <2>1. \A id \in 1 .. n : id > n - n
    BY <1>1
  <2> QED  BY <1>5, <2>1
<1>7. z = [id \in 1 .. n |-> SizeIn(z, h[id])]
  BY <1>6
<1> QED  BY <1>7 DEF Sizes

LEMMA SizesType ==
  ASSUME NEW h, NEW r, Entity(h, r), NEW z, Sizes(z, h)
  PROVE  \A id \in 1 .. Len(h) : z[id] = SizeIn(z, h[id]) /\ z[id] \in Nat
<1> DEFINE n == Len(h)
           T == {m \in Nat : \A id \in 1 .. n : id > n - m => z[id] \in Nat}
<1>1. n \in Nat
  BY DEF Entity
<1>2. \A id \in 1 .. n : z[id] = SizeIn(z, h[id])
  BY DEF Sizes
<1>3. 0 \in T
  BY <1>1
<1>4. ASSUME NEW m \in Nat, m \in T PROVE m + 1 \in T
  <2> SUFFICES ASSUME NEW id \in 1 .. n, id > n - (m + 1) PROVE z[id] \in Nat
    OBVIOUS
  <2>1. \A k \in id + 1 .. n : k \in 1 .. n /\ k > n - m
    BY <1>1
  <2>2. \A k \in id + 1 .. n : z[k] \in Nat
    BY <1>4, <2>1
  <2> QED  BY <1>2, <2>2, SizeInType
<1> HIDE DEF T
<1>5. n \in T
  BY <1>1, <1>3, <1>4, Naturals
<1>6. \A id \in 1 .. n : id > n - n
  BY <1>1
<1> QED  BY <1>2, <1>5, <1>6 DEF T

(* What the proofs below need to know of the sizes `z` of the tags in `h`.  *)
SizesOK(z, h) ==
  \A id \in 1 .. Len(h) : z[id] = SizeIn(z, h[id]) /\ z[id] \in Nat

LEMMA CalculateSizes == ASSUME Entity(heap, root) PROVE SizesOK(CalculateSize, heap)
<1>1. Sizes(CalculateSize, heap)
  <2>1. \E z : Sizes(z, heap)
    BY SizesExist
  <2> QED  BY <2>1, CalculateSizeIs, Zenon
<1> QED  BY <1>1, SizesType DEF SizesOK

-----------------------------------------------------------------------------
(* The order of std::map has a first entry: it is total and transitive      *)

(* The name s comes before the name t because of what they have at k.       *)
LessAt(s, t, k) ==
  /\ k <= Len(s) + 1 /\ k <= Len(t)
  /\ \A j \in 1 .. k - 1 : s[j] = t[j]
  /\ k <= Len(s) => s[k] < t[k]

Less(s, t) == \E k \in Nat \ {0} : LessAt(s, t, k)

LEMMA NameFacts ==
  ASSUME NEW s \in Name
  PROVE  Len(s) \in Nat /\ DOMAIN s = 1 .. Len(s) /\ \A j \in 1 .. Len(s) : s[j] \in Nat
<1>1. \A j \in 1 .. Len(s) : s[j] \in Byte
  BY ElementOfSeq DEF Name
<1>2. \A x \in Byte : x \in Nat
  BY DEF Byte
<1>3. Len(s) \in Nat /\ DOMAIN s = 1 .. Len(s)
  BY DEF Name
<1> QED  BY <1>1, <1>2, <1>3

LEMMA LessIsBefore ==
  ASSUME NEW e, NEW f, e[1] \in Name, f[1] \in Name, Less(e[1], f[1])
  PROVE  Before(e, f)
<1> DEFINE s == e[1]
           t == f[1]
<1>1. /\ Len(s) \in Nat /\ DOMAIN s = 1 .. Len(s)
      /\ Len(t) \in Nat /\ DOMAIN t = 1 .. Len(t)
  BY NameFacts
<1>2. PICK k \in Nat \ {0} : LessAt(s, t, k)
  BY DEF Less
<1>3. CASE k <= Len(s)
  <2>1. k \in DOMAIN s \cap DOMAIN t /\ s[k] < t[k] /\ \A j \in 1 .. k - 1 : s[j] = t[j]
    BY <1>1, <1>2, <1>3 DEF LessAt
  <2> QED  BY <2>1, Zenon DEF Before
<1>4. CASE ~(k <= Len(s))
  <2>1. k = Len(s) + 1 /\ Len(s) < Len(t) /\ Len(s) <= Len(t) /\ k - 1 = Len(s)
    BY <1>1, <1>2, <1>4 DEF LessAt
  <2>2. \A j \in 1 .. Len(s) : s[j] = t[j]
    BY <1>2, <2>1 DEF LessAt
  <2>3. SubSeq(s, 1, Len(s)) = SubSeq(t, 1, Len(s))
    <3>1. \A j \in 1 .. Len(s) : s[j] \in Byte /\ t[j] \in Byte
      BY <1>1, <2>1, ElementOfSeq DEF Name
    <3> HIDE DEF s, t
    <3> QED  BY <1>1, <2>1, <2>2
  <2>4. IsStrictPrefix(s, t)
    <3>1. s # t
      BY <1>1, <2>1
    <3> QED  BY <2>1, <2>3, <3>1 DEF IsStrictPrefix, IsPrefix
  <2> QED  BY <2>4, Zenon DEF Before
<1> QED  BY <1>3, <1>4

LEMMA LessIsTotal ==
  ASSUME NEW s \in Name, NEW t \in Name, s # t
  PROVE  Less(s, t) \/ Less(t, s)
<1> DEFINE D == {k \in Nat \ {0} : k <= Len(s) /\ k <= Len(t) /\ s[k] # t[k]}
<1>1. /\ Len(s) \in Nat /\ \A j \in 1 .. Len(s) : s[j] \in Nat
      /\ Len(t) \in Nat /\ \A j \in 1 .. Len(t) : t[j] \in Nat
  BY NameFacts
<1>2. CASE D = {}
  <2>1. \A j \in 1 .. Len(s) : j <= Len(t) => s[j] = t[j]
    BY <1>1, <1>2
  <2>2. CASE Len(s) = Len(t)
    BY <1>1, <2>1, <2>2, SeqEqual DEF Name
  <2>3. CASE Len(s) < Len(t)
    <3>1. LessAt(s, t, Len(s) + 1)
      BY <1>1, <2>1, <2>3 DEF LessAt
    <3> QED  BY <1>1, <3>1 DEF Less
  <2>4. CASE Len(t) < Len(s)
    <3>1. LessAt(t, s, Len(t) + 1)
      BY <1>1, <2>1, <2>4 DEF LessAt
    <3> QED  BY <1>1, <3>1 DEF Less
  <2> QED  BY <1>1, <2>2, <2>3, <2>4
<1>3. CASE D # {}
  <2>1. D \subseteq Nat
    OBVIOUS
  <2>2. PICK k \in D : \A j \in D : ~(<<j, k>> \in OpToRel(<, Nat))
    <3> HIDE DEF D
    <3> QED  BY <1>3, <2>1, WFMin, NatLessThanWellFounded, Zenon
  <2>3. k \in Nat \ {0} /\ k <= Len(s) /\ k <= Len(t) /\ s[k] # t[k]
    OBVIOUS
  <2>4. \A j \in 1 .. k - 1 : s[j] = t[j]
    <3> TAKE j \in 1 .. k - 1
    <3>1. j \in Nat \ {0} /\ j < k /\ j <= Len(s) /\ j <= Len(t)
      BY <1>1, <2>3
    <3>2. j \notin D
      BY <2>2, <2>3, <3>1 DEF OpToRel
    <3> QED  BY <3>1, <3>2
  <2> HIDE DEF D
  <2>5. s[k] \in Nat /\ t[k] \in Nat
    BY <1>1, <2>3
  <2>6. LessAt(s, t, k) \/ LessAt(t, s, k)
    BY <1>1, <2>3, <2>4, <2>5 DEF LessAt
  <2> QED  BY <2>3, <2>6 DEF Less
<1> QED  BY <1>2, <1>3

LEMMA LessIsTransitive ==
  ASSUME NEW s \in Name, NEW t \in Name, NEW u \in Name, Less(s, t), Less(t, u)
  PROVE  Less(s, u)
<1>1. PICK k \in Nat \ {0} : LessAt(s, t, k)
  BY DEF Less
<1>2. PICK l \in Nat \ {0} : LessAt(t, u, l)
  BY DEF Less
<1>3. /\ Len(s) \in Nat /\ \A j \in 1 .. Len(s) : s[j] \in Nat
      /\ Len(t) \in Nat /\ \A j \in 1 .. Len(t) : t[j] \in Nat
      /\ Len(u) \in Nat /\ \A j \in 1 .. Len(u) : u[j] \in Nat
  BY NameFacts
<1>4. CASE k < l
  <2>1. LessAt(s, u, k)
    BY <1>1, <1>2, <1>3, <1>4 DEF LessAt
  <2> QED  BY <2>1 DEF Less
<1>5. CASE l < k
  <2>1. LessAt(s, u, l)
    BY <1>1, <1>2, <1>3, <1>5 DEF LessAt
  <2> QED  BY <2>1 DEF Less
<1>6. CASE k = l
  <2>1. LessAt(s, u, k)
    BY <1>1, <1>2, <1>3, <1>6 DEF LessAt
  <2> QED  BY <2>1 DEF Less
<1> QED  BY <1>4, <1>5, <1>6

LEMMA FirstIn ==
  ASSUME NEW m \in Map, Keyed(m), NEW S \in SUBSET m, S # {}
  PROVE  First(S) \in S
<1> DEFINE Least(s, e) == \A f \in s : e = f \/ Less(e[1], f[1])
           T == {s \in SUBSET m : s = {} \/ \E e \in s : Least(s, e)}
<1>1. \A e \in m : e[1] \in Name
  BY DEF Map
<1>2. \A e, f \in m : e # f => Less(e[1], f[1]) \/ Less(f[1], e[1])
  <2> SUFFICES ASSUME NEW e \in m, NEW f \in m, e # f
               PROVE  Less(e[1], f[1]) \/ Less(f[1], e[1])
    OBVIOUS
  <2>1. e[1] # f[1]
    BY DEF Keyed
  <2> QED  BY <1>1, <2>1, LessIsTotal
<1>3. ASSUME NEW s \in SUBSET m, \A u \in SUBSET s : u # s => u \in T PROVE s \in T
  <2> SUFFICES ASSUME s # {} PROVE \E e \in s : Least(s, e)
    OBVIOUS
  <2>1. PICK x \in s : TRUE
    OBVIOUS
  <2>2. s \ {x} \in T
    BY <1>3
  <2>3. CASE s \ {x} = {}
    <3>1. Least(s, x)
      BY <2>3
    <3> HIDE DEF Least
    <3> QED  BY <3>1
  <2>4. CASE s \ {x} # {}
    <3>1. PICK e \in s \ {x} : Least(s \ {x}, e)
      BY <2>2, <2>4
    <3>2. CASE Less(e[1], x[1])
      <4>1. Least(s, e)
        BY <3>1, <3>2
      <4> HIDE DEF Least
      <4> QED  BY <4>1
    <3>3. CASE Less(x[1], e[1])
      <4>1. ASSUME NEW f \in s PROVE x = f \/ Less(x[1], f[1])
        <5>1. CASE f = x
          BY <5>1
        <5>2. CASE f # x
          <6>1. e = f \/ Less(e[1], f[1])
            BY <3>1, <5>2
          <6>2. e[1] \in Name /\ f[1] \in Name /\ x[1] \in Name
            BY <1>1
          <6>3. Less(x[1], f[1])
            BY <3>3, <6>1, <6>2, LessIsTransitive
          <6> QED  BY <6>3
        <5> QED  BY <5>1, <5>2
      <4>2. Least(s, x)
        BY <4>1
      <4> HIDE DEF Least
      <4> QED  BY <4>2
    <3> QED  BY <1>2, <3>2, <3>3
  <2> QED  BY <2>3, <2>4
<1> HIDE DEF T
<1>4. S \in T
  BY <1>3, Subsets DEF Keyed
<1>5. PICK e \in S : Least(S, e)
  BY <1>4 DEF T
<1>6. \A f \in S : e = f \/ Before(e, f)
  BY <1>1, <1>5, LessIsBefore
<1> HIDE DEF Least
<1> QED  BY <1>6, Zenon DEF First

-----------------------------------------------------------------------------
(* The call stack `s`, over a heap `h` and a root `r` whose tags have the   *)
(* sizes `z`, when the innermost call is at `p`.  Every loop that has begun *)
(* has its bytes behind it or still to come, all in all the size it was     *)
(* calculated to have, and every call but a root tag's was looked at by its *)
(* caller and has the room for its size.                                    *)

Entered(s, p, j)      == j < Len(s) \/ p = "loop"    \* the loop of frame j runs
IsMap(h, s, j)        == j = 1 \/ h[s[j].tag].type = kTagCompound
Contents(h, r, s, j)  == IF j = 1 THEN r ELSE h[s[j].tag].map

Total(r, z) == SumFunction(EntrySizes(z, r))

(* Where the last entry of a map ends. *)
EndOf(r, z, s, j)   == IF j = 1 THEN Total(r, z) ELSE s[j].start + z[s[j].tag] - 1
Pending(z, s, j)    == IF j < Len(s) THEN z[s[j + 1].tag] ELSE 0

MapLeft(h, r, z, s, j) ==
  s[j].next + Pending(z, s, j)
    + SumFunctionOnSet(EntrySizes(z, Contents(h, r, s, j)), s[j].todo) = EndOf(r, z, s, j)

ListLeft(h, z, s, j) ==
  LET kids == h[s[j].tag].kids IN
  /\ s[j].i <= Len(kids)
  /\ j < Len(s) => s[j].i < Len(kids) /\ s[j + 1].tag = kids[s[j].i + 1]
  /\ s[j].next + SumFunctionOnSet(KidSizes(z, kids), s[j].i + 1 .. Len(kids))
       = s[j].start + z[s[j].tag]

Roomy(z, lim, s, j) == s[j].start + z[s[j].tag] <= lim

FrameOK(h, r, z, lim, s, p, j) ==
  /\ j = 1 => s[j].tag = Null /\ s[j].start = 0
  /\ j > 1 => s[j].tag \in 1 .. Len(h)
  /\ s[j].todo \subseteq Contents(h, r, s, j)
  /\ Entered(s, p, j) /\ IsMap(h, s, j) => MapLeft(h, r, z, s, j)
  /\ Entered(s, p, j) /\ ~IsMap(h, s, j) =>
       h[s[j].tag].type = kTagList /\ ListLeft(h, z, s, j) /\ Roomy(z, lim, s, j)
  /\ j > 2 => Roomy(z, lim, s, j)
  /\ j = Len(s) /\ p = "body" =>
       s[j].todo = Contents(h, r, s, j) /\ s[j].next = s[j].start /\ s[j].i = 0
  /\ j < Len(s) => s[j + 1].start = s[j].next

FramesOK(h, r, z, lim, s, p) ==
  /\ p \in {"body", "return"} => Len(s) > 1
  /\ \A j \in 1 .. Len(s) : FrameOK(h, r, z, lim, s, p, j)
  /\ Len(s) > 0 => \A e \in r \ s[1].todo : Len(e[1]) <= UINT16_MAX

(* A call that has failed is a root tag's, and it had no room.              *)
ErrorTold ==
  pc = "return" /\ ret = Error => Depth = 2 /\ ~Roomy(CalculateSize, limit, stack, Depth)

IInv ==
  /\ Entity(heap, root)
  /\ TypeOK
  /\ FramesOK(heap, root, CalculateSize, limit, stack, pc)
  /\ SizesAgree /\ WritesWithinBuffer /\ ErrorTold
  /\ pc = "done" => SucceedsIfItFits

LEMMA FrameType ==
  ASSUME NEW f \in Frame
  PROVE  f.tag \in Nat /\ f.start \in Nat /\ f.next \in Int /\ f.i \in Nat /\ f.todo \in Map
BY DEF Frame

(* The stack becomes t: the frames above the n-th are gone, and that one    *)
(* goes on from `next`.                                                     *)
Alters(s, t, n, next, i, todo) ==
  /\ t \in Seq(Frame) /\ Len(t) = n
  /\ \A m \in 1 .. n - 1 : t[m] = s[m]
  /\ t[n].tag = s[n].tag /\ t[n].start = s[n].start
  /\ t[n].next = next /\ t[n].i = i /\ t[n].todo = todo

LEMMA FrameSame ==
  ASSUME NEW h, NEW r, NEW z, NEW lim, NEW s, NEW t, NEW p, NEW q,
         NEW j, j < Len(s), j < Len(t), j # Len(s), j # Len(t),
         FrameOK(h, r, z, lim, s, p, j),
         t[j] = s[j], t[j + 1].tag = s[j + 1].tag, t[j + 1].start = s[j + 1].start
  PROVE  FrameOK(h, r, z, lim, t, q, j)
<1>1. /\ IsMap(h, t, j) <=> IsMap(h, s, j)
      /\ Contents(h, r, t, j) = Contents(h, r, s, j)
      /\ EndOf(r, z, t, j) = EndOf(r, z, s, j)
      /\ Pending(z, t, j) = Pending(z, s, j)
      /\ Roomy(z, lim, t, j) <=> Roomy(z, lim, s, j)
  BY Zenon DEF IsMap, Contents, EndOf, Pending, Roomy
<1>2. MapLeft(h, r, z, t, j) <=> MapLeft(h, r, z, s, j)
  BY <1>1, Zenon DEF MapLeft
<1>3. ListLeft(h, z, t, j) <=> ListLeft(h, z, s, j)
  BY Zenon DEF ListLeft
<1>4. Entered(s, p, j) /\ Entered(t, q, j)
  BY DEF Entered
<1> QED  BY <1>1, <1>2, <1>3, <1>4, Zenon DEF FrameOK

(* The n-th frame, entered or gone back to.                                 *)
LEMMA FramesLoop ==
  ASSUME NEW h, NEW r, NEW z, NEW lim, NEW s \in Seq(Frame), NEW t, NEW p,
         FramesOK(h, r, z, lim, s, p),
         NEW n \in 1 .. Len(s), n = Len(s) \/ n = Len(s) - 1, NEW next, NEW i, NEW todo,
         Alters(s, t, n, next, i, todo), todo \subseteq s[n].todo,
         n = 1 => todo = s[n].todo,
         IsMap(h, s, n) =>
           next + SumFunctionOnSet(EntrySizes(z, Contents(h, r, s, n)), todo) = EndOf(r, z, s, n),
         ~IsMap(h, s, n) =>
           LET kids == h[s[n].tag].kids IN
           /\ h[s[n].tag].type = kTagList /\ Roomy(z, lim, s, n) /\ i <= Len(kids)
           /\ next + SumFunctionOnSet(KidSizes(z, kids), i + 1 .. Len(kids))
                = s[n].start + z[s[n].tag]
  PROVE  FramesOK(h, r, z, lim, t, "loop")
<1>1. /\ t \in Seq(Frame) /\ Len(t) = n /\ n \in Nat /\ n <= Len(s) /\ Len(s) \in Nat
      /\ \A m \in 1 .. n - 1 : t[m] = s[m]
      /\ t[n].tag = s[n].tag /\ t[n].start = s[n].start
      /\ t[n].next = next /\ t[n].i = i /\ t[n].todo = todo
  BY DEF Alters
<1>2. \A j \in 1 .. Len(s) : FrameOK(h, r, z, lim, s, p, j)
  BY DEF FramesOK
<1>3. ASSUME NEW j \in 1 .. n - 1 PROVE FrameOK(h, r, z, lim, t, "loop", j)
  <2>1. j \in 1 .. Len(s) /\ j < Len(s) /\ j < Len(t) /\ j # Len(s) /\ j # Len(t)
    BY <1>1
  <2>2. t[j + 1].tag = s[j + 1].tag /\ t[j + 1].start = s[j + 1].start
    <3>1. j + 1 \in 1 .. n - 1 \/ j + 1 = n
      BY <1>1
    <3> QED  BY <1>1, <3>1
  <2>3. t[j] = s[j]
    BY <1>1
  <2> QED  BY <1>2, <2>1, <2>2, <2>3, FrameSame
<1>4. FrameOK(h, r, z, lim, t, "loop", n)
  <2>1. FrameOK(h, r, z, lim, s, p, n)
    BY <1>2
  <2>2. /\ IsMap(h, t, n) <=> IsMap(h, s, n)
        /\ Contents(h, r, t, n) = Contents(h, r, s, n)
        /\ EndOf(r, z, t, n) = EndOf(r, z, s, n)
        /\ Roomy(z, lim, t, n) <=> Roomy(z, lim, s, n)
    BY <1>1, Zenon DEF IsMap, Contents, EndOf, Roomy
  <2>3. Pending(z, t, n) = 0 /\ ~(n < Len(t))
    BY <1>1 DEF Pending
  <2>4. IsMap(h, s, n) => MapLeft(h, r, z, t, n)
    <3>1. ASSUME IsMap(h, s, n) PROVE next \in Int /\ next + 0 = next
      BY <1>1, ElementOfSeq, FrameType
    <3> QED  BY <1>1, <2>2, <2>3, <3>1 DEF MapLeft
  <2>5. ~IsMap(h, s, n) => ListLeft(h, z, t, n)
    BY <1>1, <2>3 DEF ListLeft
  <2> QED  BY <1>1, <2>1, <2>2, <2>3, <2>4, <2>5 DEF FrameOK
<1>5. t[1].todo = s[1].todo
  <2>1. CASE n = 1
    BY <1>1, <2>1
  <2>2. CASE n # 1
    BY <1>1, <2>2
  <2> QED  BY <2>1, <2>2
<1>6. \A j \in 1 .. Len(t) : FrameOK(h, r, z, lim, t, "loop", j)
  <2>1. \A j \in 1 .. Len(t) : j \in 1 .. n - 1 \/ j = n
    BY <1>1
  <2> QED  BY <1>3, <1>4, <2>1, Zenon
<1>7. Len(s) > 0
  BY <1>1
<1> QED  BY <1>5, <1>6, <1>7 DEF FramesOK

(* The innermost frame makes a call.                                        *)
Called(h, f, offset) ==
  /\ f \in Frame /\ f.tag \in 1 .. Len(h) /\ f.start = offset /\ f.next = offset
  /\ f.todo = h[f.tag].map /\ f.i = 0

Calls(h, r, z, lim, s, n, next, todo, f) ==
  /\ todo \subseteq s[n].todo
  /\ n > 1 => next + z[f.tag] <= lim
  /\ n = 1 => \A e \in r \ todo : Len(e[1]) <= UINT16_MAX
  /\ IsMap(h, s, n) =>
       next + z[f.tag] + SumFunctionOnSet(EntrySizes(z, Contents(h, r, s, n)), todo)
         = EndOf(r, z, s, n)
  /\ ~IsMap(h, s, n) =>
       LET kids == h[s[n].tag].kids IN
       next = s[n].next /\ s[n].i < Len(kids) /\ f.tag = kids[s[n].i + 1]

LEMMA FramesPush ==
  ASSUME NEW h, NEW r, NEW z, NEW lim, NEW s \in Seq(Frame),
         FramesOK(h, r, z, lim, s, "loop"),
         NEW n, n = Len(s), n > 0, NEW next, NEW todo, NEW u,
         Alters(s, u, n, next, s[n].i, todo),
         NEW f, NEW t, t = Append(u, f), Called(h, f, next),
         Calls(h, r, z, lim, s, n, next, todo, f)
  PROVE  FramesOK(h, r, z, lim, t, "body")
<1>0. /\ f \in Frame /\ f.tag \in 1 .. Len(h) /\ f.start = next /\ f.next = next
      /\ f.todo = h[f.tag].map /\ f.i = 0
      /\ todo \subseteq s[n].todo
      /\ n > 1 => next + z[f.tag] <= lim
      /\ n = 1 => \A e \in r \ todo : Len(e[1]) <= UINT16_MAX
      /\ IsMap(h, s, n) =>
           next + z[f.tag] + SumFunctionOnSet(EntrySizes(z, Contents(h, r, s, n)), todo)
             = EndOf(r, z, s, n)
      /\ ~IsMap(h, s, n) =>
           LET kids == h[s[n].tag].kids IN
           next = s[n].next /\ s[n].i < Len(kids) /\ f.tag = kids[s[n].i + 1]
  BY Zenon DEF Called, Calls
<1>1. /\ n \in Nat /\ n \in 1 .. Len(s) /\ u \in Seq(Frame) /\ Len(u) = n
      /\ \A m \in 1 .. n - 1 : u[m] = s[m]
      /\ u[n].tag = s[n].tag /\ u[n].start = s[n].start
      /\ u[n].next = next /\ u[n].i = s[n].i /\ u[n].todo = todo
  BY DEF Alters
<1>2. /\ t \in Seq(Frame) /\ Len(t) = n + 1 /\ t[n + 1] = f
      /\ \A m \in 1 .. n : t[m] = u[m]
  BY <1>0, <1>1, AppendProperties
<1>3. \A j \in 1 .. Len(s) : FrameOK(h, r, z, lim, s, "loop", j)
  BY DEF FramesOK
<1>4. ASSUME NEW j \in 1 .. n - 1 PROVE FrameOK(h, r, z, lim, t, "body", j)
  <2>1. j \in 1 .. Len(s) /\ j < Len(s) /\ j < Len(t) /\ j # Len(s) /\ j # Len(t)
    BY <1>1, <1>2
  <2>2. t[j] = s[j]
    BY <1>1, <1>2
  <2>3. t[j + 1].tag = s[j + 1].tag /\ t[j + 1].start = s[j + 1].start
    <3>1. j + 1 \in 1 .. n /\ (j + 1 \in 1 .. n - 1 \/ j + 1 = n)
      BY <1>1
    <3> QED  BY <1>1, <1>2, <3>1
  <2> QED  BY <1>3, <2>1, <2>2, <2>3, FrameSame
<1>5. /\ t[n].tag = s[n].tag /\ t[n].start = s[n].start /\ t[n].next = next
      /\ t[n].i = s[n].i /\ t[n].todo = todo
  BY <1>1, <1>2
<1>6. FrameOK(h, r, z, lim, t, "body", n)
  <2>1. FrameOK(h, r, z, lim, s, "loop", n)
    BY <1>1, <1>3
  <2>2. /\ IsMap(h, t, n) <=> IsMap(h, s, n)
        /\ Contents(h, r, t, n) = Contents(h, r, s, n)
        /\ EndOf(r, z, t, n) = EndOf(r, z, s, n)
        /\ Roomy(z, lim, t, n) <=> Roomy(z, lim, s, n)
    BY <1>5, Zenon DEF IsMap, Contents, EndOf, Roomy
  <2>3. Pending(z, t, n) = z[f.tag] /\ n < Len(t) /\ n # Len(t) /\ ~(n < Len(s))
    BY <1>1, <1>2 DEF Pending
  <2>4. IsMap(h, s, n) => MapLeft(h, r, z, t, n)
    BY <1>0, <1>5, <2>2, <2>3, Zenon DEF MapLeft
  <2>5. ASSUME ~IsMap(h, s, n) PROVE ListLeft(h, z, t, n)
    <3>1. ListLeft(h, z, s, n)
      BY <2>1, <2>5, Zenon DEF FrameOK, Entered
    <3> QED  BY <1>0, <1>2, <1>5, <2>5, <3>1 DEF ListLeft
  <2>6. Entered(s, "loop", n)
    BY DEF Entered
  <2>7. t[n + 1].start = t[n].next
    BY <1>0, <1>2, <1>5
  <2>8. todo \subseteq Contents(h, r, s, n)
    BY <1>0, <2>1 DEF FrameOK
  <2> QED  BY <1>1, <1>5, <2>1, <2>2, <2>3, <2>4, <2>5, <2>6, <2>7, <2>8 DEF FrameOK
<1>7. FrameOK(h, r, z, lim, t, "body", n + 1)
  <2> DEFINE k == n + 1
  <2>1. k > 1 /\ k # 1 /\ ~(k < Len(t)) /\ k = Len(t) /\ (k > 2 => n > 1)
    BY <1>1, <1>2
  <2>2. t[k] = f
    BY <1>2
  <2> HIDE DEF k
  <2>3. ~Entered(t, "body", k)
    BY <2>1 DEF Entered
  <2>4. Contents(h, r, t, k) = h[f.tag].map
    BY <1>0, <2>1, <2>2 DEF Contents
  <2>5. k > 2 => Roomy(z, lim, t, k)
    BY <1>0, <2>1, <2>2 DEF Roomy
  <2>6. FrameOK(h, r, z, lim, t, "body", k)
    BY <1>0, <2>1, <2>2, <2>3, <2>4, <2>5 DEF FrameOK
  <2> QED  BY <2>6 DEF k
<1>8. \A j \in 1 .. Len(t) : FrameOK(h, r, z, lim, t, "body", j)
  <2>1. \A j \in 1 .. Len(t) : j \in 1 .. n - 1 \/ j = n \/ j = n + 1
    BY <1>1, <1>2
  <2> QED  BY <1>4, <1>6, <1>7, <2>1, Zenon
<1>9. \A e \in r \ t[1].todo : Len(e[1]) <= UINT16_MAX
  <2>1. CASE n = 1
    BY <1>0, <1>5, <2>1
  <2>2. CASE n # 1
    <3>1. t[1] = s[1] /\ Len(s) > 0
      BY <1>1, <1>2, <2>2
    <3> QED  BY <3>1 DEF FramesOK
  <2> QED  BY <2>1, <2>2
<1>10. Len(t) > 1
  BY <1>1, <1>2
<1> QED  BY <1>2, <1>8, <1>9, <1>10 DEF FramesOK

(* A call that is over.                                                     *)
LEMMA FramesReturn ==
  ASSUME NEW h, NEW r, NEW z, NEW lim, NEW s \in Seq(Frame), NEW p,
         FramesOK(h, r, z, lim, s, p), Len(s) > 1
  PROVE  FramesOK(h, r, z, lim, s, "return")
<1>1. ASSUME NEW j \in 1 .. Len(s) PROVE FrameOK(h, r, z, lim, s, "return", j)
  <2>1. FrameOK(h, r, z, lim, s, p, j)
    BY DEF FramesOK
  <2>2. Entered(s, "return", j) => Entered(s, p, j)
    BY DEF Entered
  <2> QED  BY <2>1, <2>2, Zenon DEF FrameOK
<1> QED  BY <1>1 DEF FramesOK

LEMMA FramesStart ==
  ASSUME NEW h, NEW r, NEW z, NEW lim, NEW f, f.tag = Null, f.start = 0, f.todo = r,
         f.next = 0, Total(r, z) \in Nat,
         SumFunctionOnSet(EntrySizes(z, r), r) = Total(r, z)
  PROVE  FramesOK(h, r, z, lim, <<f>>, "loop")
<1> DEFINE s == <<f>>
<1>1. Len(s) = 1 /\ s[1] = f /\ 1 .. Len(s) = {1}
  OBVIOUS
<1> HIDE DEF s
<1>2. MapLeft(h, r, z, s, 1)
  BY <1>1 DEF MapLeft, Pending, Contents, EndOf
<1>3. IsMap(h, s, 1) /\ Contents(h, r, s, 1) = r
  BY DEF IsMap, Contents
<1>4. FrameOK(h, r, z, lim, s, "loop", 1)
  BY <1>1, <1>2, <1>3 DEF FrameOK
<1> QED  BY <1>1, <1>4 DEF FramesOK, s

LEMMA FramesNone ==
  ASSUME NEW h, NEW r, NEW z, NEW lim
  PROVE  FramesOK(h, r, z, lim, << >>, "done")
BY DEF FramesOK

-----------------------------------------------------------------------------
(* What is written                                                          *)

LEMMA MaxOfTwo == ASSUME NEW m \in Nat, NEW n \in Nat, m <= n PROVE Max({m, n}) = n
<1>1. n \in {m, n} /\ \A y \in {m, n} : n >= y
  OBVIOUS
<1>2. Max({m, n}) \in {m, n} /\ \A y \in {m, n} : Max({m, n}) >= y
  BY <1>1, Zenon DEF Max
<1> QED  BY <1>2

LEMMA CopiedAtEnd ==
  ASSUME out \in Seq(Byte), NEW offset, offset = Len(out), NEW bytes \in Seq(Byte)
  PROVE  Copied(offset, bytes) \in Seq(Byte) /\ Len(Copied(offset, bytes)) = offset + Len(bytes)
<1> DEFINE n == offset + Len(bytes)
           c == Copied(offset, bytes)
<1>1. Len(out) \in Nat /\ Len(bytes) \in Nat /\ n \in Nat /\ offset \in Nat /\ Len(out) <= n
  OBVIOUS
<1>2. Max({Len(out), n}) = n
  BY <1>1, MaxOfTwo
<1>3. c = [j \in 1 .. n |->
             CASE j > offset /\ j <= n        -> bytes[j - offset]
               [] j > n                       -> out[j]
               [] j <= offset /\ j <= Len(out) -> out[j]
               [] OTHER                       -> Untouched]
  BY <1>2, Zenon DEF Copied
<1>4. ASSUME NEW j \in 1 .. n PROVE c[j] \in Byte
  <2>1. CASE j > offset
    <3>1. c[j] = bytes[j - offset]
      BY <1>1, <1>3, <2>1
    <3>2. j - offset \in 1 .. Len(bytes)
      BY <1>1, <2>1
    <3> QED  BY <3>1, <3>2, ElementOfSeq
  <2>2. CASE ~(j > offset)
    <3>1. ~(j > n) /\ j <= offset /\ j <= Len(out) /\ j \in 1 .. Len(out)
      BY <1>1, <2>2
    <3>2. c[j] = out[j]
      BY <1>3, <2>2, <3>1
    <3> QED  BY <3>1, <3>2, ElementOfSeq
  <2> QED  BY <2>1, <2>2
<1>5. DOMAIN c = 1 .. n
  BY <1>3
<1> HIDE DEF c, n
<1>6. c \in [1 .. n -> Byte]
  BY <1>3, <1>4, <1>5
<1>7. c \in Seq(Byte) /\ Len(c) = n
  BY <1>1, <1>6, SeqDef
<1> QED  BY <1>7 DEF c, n

LEMMA StoredBytes == ASSUME NEW n \in Nat PROVE Stored16(n) \in Seq(Byte) /\ Len(Stored16(n)) = 2
<1>1. \A l, k \in Nat : l % (k + 1) \in Nat
  OBVIOUS
<1>2. n % (UINT16_MAX + 1) \in Nat
  BY <1>1, UINT16Assumption, Zenon
<1> QED  BY <1>2, U16Bytes DEF Stored16

LEMMA HeaderBytes ==
  ASSUME Entity(heap, root), NEW m \in Map, NEW e \in m, e[2] \in 1 .. Len(heap)
  PROVE  Header(e) \in Seq(Byte) /\ Len(Header(e)) = HeaderSize(e)
<1>1. e[1] \in Seq(Byte) /\ Len(e[1]) \in Nat /\ HeaderSize(e) = 3 + Len(e[1])
  BY HeaderSizes DEF Name
<1> DEFINE a == <<heap[e[2]].type>>
           b == Stored16(Len(e[1]))
           c == e[1]
<1>2. a \in Seq(Byte) /\ Len(a) = 1
  <2>1. heap[e[2]].type \in TagTypes
    BY EntityTag
  <2> QED  BY <2>1 DEF TagTypes, kTagByte, kTagIntArray, Byte
<1>3. b \in Seq(Byte) /\ Len(b) = 2
  BY <1>1, StoredBytes
<1>4. Header(e) = (a \o b) \o c
  BY DEF Header
<1>5. c \in Seq(Byte) /\ HeaderSize(e) = 3 + Len(c) /\ Len(c) \in Nat
  BY <1>1
<1> HIDE DEF a, b, c
<1>6. a \o b \in Seq(Byte) /\ Len(a \o b) = 3
  <2>1. a \o b \in Seq(Byte) /\ Len(a \o b) = Len(a) + Len(b)
    BY <1>2, <1>3, Joined, Zenon
  <2>2. Len(a) + Len(b) = 3
    BY <1>2, <1>3
  <2> QED  BY <2>1, <2>2, Zenon
<1>7. (a \o b) \o c \in Seq(Byte) /\ Len((a \o b) \o c) = 3 + Len(c)
  <2> DEFINE d == a \o b
  <2> HIDE DEF d
  <2>1. d \o c \in Seq(Byte) /\ Len(d \o c) = Len(d) + Len(c)
    BY <1>5, <1>6, Joined, Zenon DEF d
  <2> QED  BY <1>5, <1>6, <2>1 DEF d
<1> QED  BY <1>4, <1>5, <1>7

-----------------------------------------------------------------------------
(* A step of Write                                                          *)

LEMMA KeptSizes ==
  ASSUME heap' = heap, root' = root
  PROVE  CalculateSize' = CalculateSize /\ GetBufferSize' = GetBufferSize
BY Zenon DEF CalculateSize, GetBufferSize, Ids

(* What is known of the innermost call.                                     *)
LEMMA RunningFacts ==
  ASSUME IInv, pc # "done"
  PROVE  /\ Entity(heap, root) /\ SizesOK(CalculateSize, heap)
         /\ stack \in Seq(Frame) /\ Depth = Len(stack) /\ Depth \in Nat \ {0}
         /\ Depth \in 1 .. Len(stack) /\ Top = stack[Depth] /\ Top \in Frame
         /\ FramesOK(heap, root, CalculateSize, limit, stack, pc)
         /\ FrameOK(heap, root, CalculateSize, limit, stack, pc, Depth)
         /\ limit \in Nat /\ out \in Seq(Byte) /\ Len(out) <= limit /\ Len(out) \in Nat
         /\ result = "none" /\ ret \in Nat \cup {-1}
         /\ pc \in {"loop", "body", "return"} /\ (pc # "loop" => Depth > 1)
<1>1. /\ Entity(heap, root) /\ stack \in Seq(Frame) /\ limit \in Nat /\ out \in Seq(Byte)
      /\ Len(out) <= limit /\ ret \in Nat \cup {-1}
      /\ FramesOK(heap, root, CalculateSize, limit, stack, pc)
      /\ pc \in {"loop", "body", "return"} /\ result = "none" /\ Depth # 0
  BY DEF IInv, TypeOK, WritesWithinBuffer
<1>2. SizesOK(CalculateSize, heap)
  BY <1>1, CalculateSizes
<1>3. Depth = Len(stack) /\ Depth \in Nat \ {0} /\ Depth \in 1 .. Len(stack)
  BY <1>1 DEF Depth
<1>4. Top = stack[Depth] /\ Top \in Frame
  BY <1>1, <1>3, ElementOfSeq DEF Top
<1>5. FrameOK(heap, root, CalculateSize, limit, stack, pc, Depth)
  BY <1>1, <1>3 DEF FramesOK
<1>6. pc # "loop" => Depth > 1
  BY <1>1, <1>3 DEF FramesOK
<1> QED  BY <1>1, <1>2, <1>3, <1>4, <1>5, <1>6

LEMMA StepKeeps ==
  ASSUME IInv, pc # "done", Unchanged, result' = result,
         stack' \in Seq(Frame), NEW n, n = Len(stack'), n > 0,
         pc' \in {"loop", "body", "return"}, ret' \in Nat \cup {-1},
         out' \in Seq(Byte), Len(out') <= limit,
         FramesOK(heap, root, CalculateSize, limit, stack', pc'),
         pc' = "loop" => stack'[n].next = Len(out'),
         pc' = "body" => stack'[n].start = Len(out'),
         pc' = "return" /\ ret' # -1 =>
           ret' = CalculateSize[stack'[n].tag] /\ stack'[n].start + ret' = Len(out'),
         pc' = "return" /\ ret' = -1 =>
           n = 2 /\ ~Roomy(CalculateSize, limit, stack', n)
  PROVE  IInv'
<1>1. heap' = heap /\ root' = root /\ limit' = limit
  BY DEF Unchanged
<1>2. CalculateSize' = CalculateSize
  BY <1>1, KeptSizes
<1>3. Entity(heap, root)' /\ limit \in Nat /\ result' = "none"
  BY <1>1, RunningFacts
<1>4. Depth' = n /\ Top' = stack'[n]
  BY DEF Depth, Top
<1>5. TypeOK'
  <2>1. n # 0
    OBVIOUS
  <2> QED  BY <1>1, <1>3, <1>4, <2>1 DEF TypeOK
<1>6. FramesOK(heap, root, CalculateSize, limit, stack, pc)'
  BY <1>1, <1>2
<1>7. SizesAgree'
  BY <1>2, <1>4 DEF SizesAgree
<1>8. WritesWithinBuffer'
  BY <1>1 DEF WritesWithinBuffer
<1>9. ErrorTold'
  BY <1>1, <1>2, <1>4 DEF ErrorTold
<1>10. pc' # "done"
  OBVIOUS
<1> QED  BY <1>3, <1>5, <1>6, <1>7, <1>8, <1>9, <1>10 DEF IInv

LEMMA TagFacts ==
  ASSUME IInv, pc # "done", Depth > 1
  PROVE  /\ Top.tag \in 1 .. Len(heap) /\ Cur = heap[Top.tag]
         /\ Cur.type \in TagTypes /\ Cur.data \in Seq(Byte) /\ Cur.kids \in Seq(Nat)
         /\ Cur.map \in Map /\ Keyed(Cur.map)
         /\ Cur.ctype \in Byte
         /\ Cur.type \in ScalarTypes => Len(Cur.data) = ScalarSize(Cur.type)
         /\ CalculateSize[Top.tag] = SizeIn(CalculateSize, Cur) /\ CalculateSize[Top.tag] \in Nat
         /\ \A j \in 1 .. Len(Cur.kids) : /\ Cur.kids[j] \in 1 .. Len(heap)
                                        /\ CalculateSize[Cur.kids[j]] \in Nat
         /\ \A e \in Cur.map : e[2] \in 1 .. Len(heap) /\ CalculateSize[e[2]] \in Nat
         /\ IsMap(heap, stack, Depth) <=> Cur.type = kTagCompound
         /\ Contents(heap, root, stack, Depth) = Cur.map
         /\ Depth > 2 => Top.start + CalculateSize[Top.tag] <= limit
<1>1. /\ Entity(heap, root) /\ SizesOK(CalculateSize, heap) /\ Top = stack[Depth]
      /\ FrameOK(heap, root, CalculateSize, limit, stack, pc, Depth) /\ Depth # 1
  BY RunningFacts
<1>2. Top.tag \in 1 .. Len(heap) /\ Cur = heap[Top.tag]
  BY <1>1 DEF FrameOK, Cur
<1>3. CalculateSize[Top.tag] = SizeIn(CalculateSize, Cur) /\ CalculateSize[Top.tag] \in Nat
  BY <1>1, <1>2 DEF SizesOK
<1>4. /\ IsMap(heap, stack, Depth) <=> Cur.type = kTagCompound
      /\ Contents(heap, root, stack, Depth) = Cur.map
  BY <1>1, <1>2, Zenon DEF IsMap, Contents
<1>5. Depth > 2 => Top.start + CalculateSize[Top.tag] <= limit
  BY <1>1 DEF FrameOK, Roomy
<1>6. Cur.type \in ScalarTypes => Len(Cur.data) = ScalarSize(Cur.type)
  BY <1>1, <1>2 DEF Entity
<1>7. /\ Cur.type \in TagTypes /\ Cur.data \in Seq(Byte) /\ Cur.kids \in Seq(Nat)
      /\ Cur.map \in Map /\ Keyed(Cur.map) /\ Cur.ctype \in kTagEnd .. kTagIntArray
      /\ \A j \in 1 .. Len(Cur.kids) : Cur.kids[j] \in Top.tag + 1 .. Len(heap)
      /\ \A e \in Cur.map : e[2] \in Top.tag + 1 .. Len(heap)
  BY <1>1, <1>2, EntityTag
<1>8. \A k \in Top.tag + 1 .. Len(heap) : k \in 1 .. Len(heap)
  BY <1>2
<1>9. /\ \A j \in 1 .. Len(Cur.kids) : /\ Cur.kids[j] \in 1 .. Len(heap)
                                     /\ CalculateSize[Cur.kids[j]] \in Nat
      /\ \A e \in Cur.map : e[2] \in 1 .. Len(heap) /\ CalculateSize[e[2]] \in Nat
  BY <1>1, <1>7, <1>8, Zenon DEF SizesOK
<1>10. Cur.ctype \in Byte
  BY <1>7 DEF kTagEnd, kTagIntArray, Byte
<1> QED  BY <1>2, <1>3, <1>4, <1>5, <1>6, <1>7, <1>9, <1>10, Zenon

LEMMA BodyFacts ==
  ASSUME IInv, pc = "body"
  PROVE  /\ Depth > 1 /\ Top.start = Len(out) /\ Top.todo = Cur.map /\ Top.i = 0
         /\ Top.next = Top.start /\ Top.start \in Nat
<1>1. /\ Depth > 1 /\ Top = stack[Depth] /\ Depth = Len(stack) /\ Len(out) \in Nat
      /\ FrameOK(heap, root, CalculateSize, limit, stack, pc, Depth)
  BY RunningFacts
<1>2. Top.start = Len(out)
  BY DEF IInv, SizesAgree
<1>3. Contents(heap, root, stack, Depth) = Cur.map
  BY <1>1, TagFacts
<1> QED  BY <1>1, <1>2, <1>3 DEF FrameOK

LEMMA ReturnsSize ==
  ASSUME IInv, pc \in {"body", "loop"}, Depth > 1, NEW v, Return(v), Unchanged,
         v = CalculateSize[Top.tag],
         out' \in Seq(Byte), Len(out') = Top.start + v, Len(out') <= limit
  PROVE  IInv'
<1>1. pc' = "return" /\ ret' = v /\ stack' = stack /\ result' = result
  BY DEF Return
<1>2. /\ stack \in Seq(Frame) /\ Depth = Len(stack) /\ Depth \in Nat /\ Top = stack[Depth]
      /\ FramesOK(heap, root, CalculateSize, limit, stack, pc)
  BY RunningFacts
<1>3. v \in Nat
  BY TagFacts
<1>4. FramesOK(heap, root, CalculateSize, limit, stack, "return")
  BY <1>2, FramesReturn
<1> QED  BY <1>1, <1>2, <1>3, <1>4, StepKeeps

LEMMA ReturnsError ==
  ASSUME IInv, pc \in {"body", "loop"}, Depth > 1, Return(Error), Unchanged,
         Top.start + CalculateSize[Top.tag] > limit,
         out' \in Seq(Byte), Len(out') <= limit
  PROVE  IInv'
<1>1. pc' = "return" /\ ret' = -1 /\ stack' = stack /\ result' = result
  BY DEF Return
<1>2. /\ stack \in Seq(Frame) /\ Depth = Len(stack) /\ Depth \in Nat /\ Top = stack[Depth]
      /\ FramesOK(heap, root, CalculateSize, limit, stack, pc) /\ limit \in Nat
      /\ Top.start \in Nat
  BY RunningFacts, FrameType
<1>3. FramesOK(heap, root, CalculateSize, limit, stack, "return")
  BY <1>2, FramesReturn
<1>4. CalculateSize[Top.tag] \in Nat /\ (Depth > 2 => Top.start + CalculateSize[Top.tag] <= limit)
  BY TagFacts
<1>5. Depth = 2 /\ ~Roomy(CalculateSize, limit, stack, Depth)
  BY <1>2, <1>4 DEF Roomy
<1> QED  BY <1>1, <1>2, <1>3, <1>5, StepKeeps

-----------------------------------------------------------------------------
(* WriteToBuffer of a leaf                                                  *)

LEMMA WriteScalarKeeps == ASSUME IInv, WriteScalar PROVE IInv'
<1>1. /\ pc = "body" /\ Cur.type \in ScalarTypes /\ Unchanged /\ out' = Copied(Top.start, Cur.data)
      /\ Top.start + ScalarSize(Cur.type) <= limit /\ Return(ScalarSize(Cur.type))
  BY DEF WriteScalar
<1>2. Depth > 1 /\ Top.start = Len(out) /\ out \in Seq(Byte) /\ Cur.data \in Seq(Byte)
  BY <1>1, BodyFacts, RunningFacts, TagFacts
<1>3. CalculateSize[Top.tag] = ScalarSize(Cur.type) /\ Len(Cur.data) = ScalarSize(Cur.type)
  BY <1>1, <1>2, TagFacts, SizeByType
<1>4. out' \in Seq(Byte) /\ Len(out') = Top.start + ScalarSize(Cur.type)
  BY <1>1, <1>2, <1>3, CopiedAtEnd
<1> QED  BY <1>1, <1>2, <1>3, <1>4, ReturnsSize

LEMMA WriteStringKeeps == ASSUME IInv, WriteString PROVE IInv'
<1>1. /\ pc = "body" /\ Cur.type = kTagString /\ Unchanged
      /\ out' = Copied(Top.start, Stored16(Len(Cur.data)) \o Cur.data)
      /\ Top.start + StringSize <= limit /\ Return(StringSize)
  BY DEF WriteString, Writing
<1>2. Depth > 1 /\ Top.start = Len(out) /\ out \in Seq(Byte) /\ Cur.data \in Seq(Byte)
  BY <1>1, BodyFacts, RunningFacts, TagFacts
<1>3. CalculateSize[Top.tag] = StringSize /\ StringSize = 2 + Len(Cur.data)
  BY <1>1, <1>2, TagFacts, SizeByType DEF StringSize
<1> DEFINE a == Stored16(Len(Cur.data))
           b == a \o Cur.data
<1>4. a \in Seq(Byte) /\ Len(a) = 2
  BY <1>2, StoredBytes
<1> HIDE DEF a
<1>5. b \in Seq(Byte) /\ Len(b) = Len(a) + Len(Cur.data)
  BY <1>2, <1>4, Joined, Zenon
<1> HIDE DEF b
<1>6. out' \in Seq(Byte) /\ Len(out') = Top.start + Len(b)
  BY <1>1, <1>2, <1>5, CopiedAtEnd DEF b, a
<1>7. Len(out') = Top.start + StringSize
  BY <1>3, <1>4, <1>5, <1>6
<1> QED  BY <1>1, <1>2, <1>3, <1>6, <1>7, ReturnsSize

LEMMA ArrayFacts ==
  ASSUME IInv, pc = "body", Cur.type \in ArrayTypes
  PROVE  /\ Depth > 1 /\ Top.start = Len(out) /\ out \in Seq(Byte) /\ Cur.data \in Seq(Byte)
         /\ CalculateSize[Top.tag] = ArraySize /\ ArraySize = 4 + Len(Cur.data)
         /\ ArrayLength \in Seq(Byte) /\ Len(ArrayLength) = 4
<1>1. Depth > 1 /\ Top.start = Len(out) /\ out \in Seq(Byte) /\ Cur.data \in Seq(Byte)
  BY BodyFacts, RunningFacts, TagFacts
<1>2. CalculateSize[Top.tag] = ArraySize /\ ArraySize = 4 + Len(Cur.data)
  BY <1>1, TagFacts, SizeByType DEF ArraySize
<1>3. Len(Cur.data) \div ElementSize(Cur.type) \in Nat
  <2>1. \A l \in Nat : l \div 4 \in Nat /\ l \div 1 \in Nat
    OBVIOUS
  <2>2. ElementSize(Cur.type) = 4 \/ ElementSize(Cur.type) = 1
    BY DEF ElementSize
  <2>3. Len(Cur.data) \in Nat
    BY <1>1
  <2> QED  BY <2>1, <2>2, <2>3, Zenon
<1>4. ArrayLength \in Seq(Byte) /\ Len(ArrayLength) = 4
  BY <1>3, U32Bytes DEF ArrayLength
<1> QED  BY <1>1, <1>2, <1>4

LEMMA WriteArrayKeeps == ASSUME IInv, WriteArray PROVE IInv'
<1>1. /\ pc = "body" /\ Cur.type \in ArrayTypes /\ Unchanged
      /\ out' = Copied(Top.start, ArrayLength \o Cur.data)
      /\ Top.start + ArraySize <= limit /\ Return(ArraySize)
  BY DEF WriteArray
<1>2. /\ Depth > 1 /\ Top.start = Len(out) /\ out \in Seq(Byte) /\ Cur.data \in Seq(Byte)
      /\ CalculateSize[Top.tag] = ArraySize /\ ArraySize = 4 + Len(Cur.data)
      /\ ArrayLength \in Seq(Byte) /\ Len(ArrayLength) = 4
  BY <1>1, ArrayFacts
<1> DEFINE b == ArrayLength \o Cur.data
<1>3. b \in Seq(Byte) /\ Len(b) = Len(ArrayLength) + Len(Cur.data)
  BY <1>2, Joined, Zenon
<1> HIDE DEF b
<1>4. out' \in Seq(Byte) /\ Len(out') = Top.start + Len(b)
  BY <1>1, <1>2, <1>3, CopiedAtEnd DEF b
<1>5. Len(out') = Top.start + ArraySize
  BY <1>2, <1>3, <1>4
<1> QED  BY <1>1, <1>2, <1>4, <1>5, ReturnsSize

LEMMA WriteArrayLengthKeeps == ASSUME IInv, WriteArrayLength PROVE IInv'
<1>1. /\ pc = "body" /\ Cur.type \in ArrayTypes /\ Unchanged
      /\ out' = Copied(Top.start, ArrayLength)
      /\ Top.start + 4 <= limit /\ Top.start + ArraySize > limit /\ Return(Error)
  BY DEF WriteArrayLength
<1>2. /\ Depth > 1 /\ Top.start = Len(out) /\ out \in Seq(Byte)
      /\ CalculateSize[Top.tag] = ArraySize
      /\ ArrayLength \in Seq(Byte) /\ Len(ArrayLength) = 4
  BY <1>1, ArrayFacts
<1>3. out' \in Seq(Byte) /\ Len(out') = Top.start + 4
  BY <1>1, <1>2, CopiedAtEnd
<1>4. Top.start + CalculateSize[Top.tag] > limit /\ Len(out') <= limit
  BY <1>1, <1>2, <1>3
<1> QED  BY <1>1, <1>2, <1>3, <1>4, ReturnsError

LEMMA LeafFailsKeeps == ASSUME IInv, LeafFails PROVE IInv'
<1>1. pc = "body" /\ Return(Error) /\ out' = out /\ Unchanged
  BY DEF LeafFails
<1>2. Depth > 1 /\ Top.start \in Nat /\ out \in Seq(Byte) /\ Len(out) <= limit /\ limit \in Nat
  BY <1>1, BodyFacts, RunningFacts
<1>3. Top.start + CalculateSize[Top.tag] > limit
  <2>1. CASE Cur.type \in ScalarTypes /\ Top.start + ScalarSize(Cur.type) > limit
    BY <1>1, <1>2, <2>1, TagFacts, SizeByType
  <2>2. CASE Cur.type \in ArrayTypes /\ Top.start + SizeofU32 > limit
    <3>1. CalculateSize[Top.tag] = 4 + Len(Cur.data) /\ Len(Cur.data) \in Nat
      BY <1>1, <2>2, ArrayFacts
    <3> QED  BY <1>2, <2>2, <3>1
  <2>3. CASE Cur.type = kTagString /\ Top.start + StringSize > limit
    BY <1>1, <1>2, <2>3, TagFacts, SizeByType DEF StringSize
  <2> QED  BY <2>1, <2>2, <2>3 DEF LeafFails
<1> QED  BY <1>1, <1>2, <1>3, ReturnsError

-----------------------------------------------------------------------------
(* What a loop has left                                                     *)

(* The frame n of the stack, whose loop has begun.                          *)
LEMMA LoopFacts ==
  ASSUME IInv, pc # "done", NEW n \in 1 .. Len(stack), n = Depth => pc = "loop",
         NEW f, f = stack[n]
  PROVE  /\ f \in Frame
         /\ FrameOK(heap, root, CalculateSize, limit, stack, pc, n) /\ Entered(stack, pc, n)
         /\ n > 1 => /\ f.tag \in 1 .. Len(heap) /\ CalculateSize[f.tag] \in Nat
                     /\ CalculateSize[f.tag] = SizeIn(CalculateSize, heap[f.tag])
<1>1. /\ stack \in Seq(Frame) /\ Depth = Len(stack) /\ SizesOK(CalculateSize, heap)
      /\ FramesOK(heap, root, CalculateSize, limit, stack, pc) /\ Depth \in Nat
  BY RunningFacts
<1>2. f \in Frame
  BY <1>1, ElementOfSeq
<1>3. FrameOK(heap, root, CalculateSize, limit, stack, pc, n)
  BY <1>1 DEF FramesOK
<1>4. Entered(stack, pc, n)
  BY <1>1 DEF Entered
<1>5. n > 1 => /\ f.tag \in 1 .. Len(heap) /\ CalculateSize[f.tag] \in Nat
               /\ CalculateSize[f.tag] = SizeIn(CalculateSize, heap[f.tag])
  BY <1>1, <1>3 DEF FrameOK, SizesOK
<1> QED  BY <1>2, <1>3, <1>4, <1>5

LEMMA MapLoop ==
  ASSUME IInv, pc # "done", NEW n \in 1 .. Len(stack), n = Depth => pc = "loop",
         IsMap(heap, stack, n), NEW f, f = stack[n], NEW m, m = Contents(heap, root, stack, n)
  PROVE  /\ f.next + Pending(CalculateSize, stack, n)
              + SumFunctionOnSet(EntrySizes(CalculateSize, m), f.todo)
              = EndOf(root, CalculateSize, stack, n)
         /\ m \in Map /\ Keyed(m) /\ f.todo \in SUBSET m
         /\ n > 1 => EndOf(root, CalculateSize, stack, n) = f.start + CalculateSize[f.tag] - 1
         /\ n = 1 => EndOf(root, CalculateSize, stack, n) = GetBufferSize
         /\ f.todo # {} => First(f.todo) \in f.todo
         /\ \A e \in m : /\ e[2] \in 1 .. Len(heap) /\ CalculateSize[e[2]] \in Nat
                         /\ HeaderSize(e) \in Nat
         /\ EntriesAdd(CalculateSize, m)
<1>1. /\ FrameOK(heap, root, CalculateSize, limit, stack, pc, n) /\ Entered(stack, pc, n)
      /\ n > 1 => f.tag \in 1 .. Len(heap)
      /\ Entity(heap, root) /\ SizesOK(CalculateSize, heap)
  BY LoopFacts, RunningFacts
<1>2. MapLeft(heap, root, CalculateSize, stack, n) /\ f.todo \in SUBSET m
  BY <1>1 DEF FrameOK
<1>3. m \in Map /\ Keyed(m) /\ \A e \in m : e[2] \in 1 .. Len(heap)
  <2>1. CASE n = 1
    BY <1>1, <2>1 DEF Contents, Entity
  <2>2. CASE n # 1
    <3>1. m = heap[f.tag].map /\ f.tag \in 1 .. Len(heap)
      BY <1>1, <2>2 DEF Contents
    <3>2. m \in Map /\ Keyed(m) /\ \A e \in m : e[2] \in f.tag + 1 .. Len(heap)
      BY <1>1, <3>1, EntityTag
    <3> QED  BY <3>1, <3>2
  <2> QED  BY <2>1, <2>2
<1>4. \A e \in m : CalculateSize[e[2]] \in Nat /\ HeaderSize(e) \in Nat
  BY <1>1, <1>3, HeaderSizes DEF SizesOK
<1>5. EntriesAdd(CalculateSize, m)
  BY <1>3, <1>4, EntriesSum DEF Keyed
<1>6. f.todo # {} => First(f.todo) \in f.todo
  BY <1>2, <1>3, FirstIn
<1>7. f.next + Pending(CalculateSize, stack, n)
        + SumFunctionOnSet(EntrySizes(CalculateSize, m), f.todo)
        = EndOf(root, CalculateSize, stack, n)
  BY <1>2, Zenon DEF MapLeft
<1>8. /\ n > 1 => EndOf(root, CalculateSize, stack, n) = f.start + CalculateSize[f.tag] - 1
      /\ n = 1 => EndOf(root, CalculateSize, stack, n) = GetBufferSize
  BY DEF EndOf, Total, GetBufferSize
<1> QED  BY <1>2, <1>3, <1>4, <1>5, <1>6, <1>7, <1>8, Zenon

LEMMA ListSums ==
  ASSUME IInv, pc # "done", NEW n \in 2 .. Len(stack), NEW f, f = stack[n],
         NEW kids, kids = heap[f.tag].kids, heap[f.tag].type = kTagList
  PROVE  /\ f.tag \in 1 .. Len(heap) /\ kids \in Seq(Nat)
         /\ CalculateSize[f.tag] = 5 + SumFunction(KidSizes(CalculateSize, kids))
         /\ \A j \in 1 .. Len(kids) : /\ kids[j] \in 1 .. Len(heap)
                                      /\ CalculateSize[kids[j]] \in Nat
         /\ KidsAdd(CalculateSize, kids)
<1>1. /\ Entity(heap, root) /\ SizesOK(CalculateSize, heap) /\ n \in 1 .. Len(stack) /\ n > 1
      /\ FramesOK(heap, root, CalculateSize, limit, stack, pc)
  BY RunningFacts
<1>2. f.tag \in 1 .. Len(heap)
  BY <1>1 DEF FramesOK, FrameOK
<1>3. kids \in Seq(Nat) /\ \A j \in 1 .. Len(kids) : kids[j] \in f.tag + 1 .. Len(heap)
  BY <1>1, <1>2, EntityTag
<1>4. \A j \in 1 .. Len(kids) : kids[j] \in 1 .. Len(heap)
  BY <1>2, <1>3
<1>5. \A j \in 1 .. Len(kids) : CalculateSize[kids[j]] \in Nat
  BY <1>1, <1>4 DEF SizesOK
<1>6. KidsAdd(CalculateSize, kids)
  BY <1>3, <1>5, KidsSum
<1>7. CalculateSize[f.tag] = ListHead + SumFunction(KidSizes(CalculateSize, kids))
  BY <1>1, <1>2, SizeByType, Zenon DEF SizesOK
<1>8. ListHead = 5
  BY DEF ListHead
<1>9. CalculateSize[f.tag] = 5 + SumFunction(KidSizes(CalculateSize, kids))
  BY <1>7, <1>8, Zenon
<1> QED  BY <1>2, <1>3, <1>4, <1>5, <1>6, <1>9, Zenon

LEMMA ListLoop ==
  ASSUME IInv, pc # "done", NEW n \in 1 .. Len(stack), n = Depth => pc = "loop",
         ~IsMap(heap, stack, n), NEW f, f = stack[n],
         NEW kids, kids = heap[f.tag].kids, NEW sum, sum = KidSizes(CalculateSize, kids)
  PROVE  /\ n > 1 /\ n \in 2 .. Len(stack) /\ heap[f.tag].type = kTagList
         /\ f.i <= Len(kids) /\ (n < Depth => f.i < Len(kids) /\ stack[n + 1].tag = kids[f.i + 1])
         /\ f.next + SumFunctionOnSet(sum, f.i + 1 .. Len(kids)) = f.start + CalculateSize[f.tag]
         /\ Roomy(CalculateSize, limit, stack, n)
<1>1. /\ FrameOK(heap, root, CalculateSize, limit, stack, pc, n) /\ Entered(stack, pc, n)
      /\ Depth = Len(stack)
  BY LoopFacts, RunningFacts
<1>2. n # 1
  BY DEF IsMap
<1>3. /\ heap[f.tag].type = kTagList /\ ListLeft(heap, CalculateSize, stack, n)
      /\ Roomy(CalculateSize, limit, stack, n)
  BY <1>1 DEF FrameOK
<1> QED  BY <1>1, <1>2, <1>3 DEF ListLeft

-----------------------------------------------------------------------------
(* TagList::WriteToBuffer                                                   *)

LEMMA FrameNext ==
  ASSUME NEW f \in Frame, NEW x
  PROVE  [f EXCEPT !.next = x]
           = [tag |-> f.tag, start |-> f.start, next |-> x, i |-> f.i, todo |-> f.todo]
BY DEF Frame

LEMMA AltersTop ==
  ASSUME NEW s \in Seq(Frame), NEW n, n = Len(s), n > 0, NEW t,
         NEW g, g = s[n], NEW next \in Int, NEW i \in Nat, NEW todo \in Map,
         t = [s EXCEPT ![n] = [tag |-> g.tag, start |-> g.start, next |-> next,
                               i |-> i, todo |-> todo]]
  PROVE  Alters(s, t, n, next, i, todo)
<1>1. n \in 1 .. Len(s) /\ g \in Frame
  BY ElementOfSeq
<1> DEFINE f == [tag |-> g.tag, start |-> g.start, next |-> next, i |-> i, todo |-> todo]
<1>2. f \in Frame
  BY <1>1, FrameType DEF Frame
<1>3. /\ f.tag = g.tag /\ f.start = g.start /\ f.next = next /\ f.i = i /\ f.todo = todo
  OBVIOUS
<1>4. t = [s EXCEPT ![n] = f]
  OBVIOUS
<1> HIDE DEF f
<1>5. t \in Seq(Frame) /\ Len(t) = Len(s) /\ \A m \in 1 .. Len(s) : t[m] = IF m = n THEN f ELSE s[m]
  BY <1>1, <1>2, <1>4, ExceptSeq
<1>6. t[n] = f /\ \A m \in 1 .. n - 1 : t[m] = s[m]
  BY <1>1, <1>5
<1> QED  BY <1>3, <1>5, <1>6 DEF Alters

LEMMA AltersNot ==
  ASSUME NEW s \in Seq(Frame), NEW n, n = Len(s), n > 0
  PROVE  Alters(s, s, n, s[n].next, s[n].i, s[n].todo)
BY DEF Alters

LEMMA ListHeadBytes ==
  ASSUME NEW b \in Byte, NEW n \in Nat
  PROVE  <<b>> \o U32(n) \in Seq(Byte) /\ Len(<<b>> \o U32(n)) = 5
<1> DEFINE a == <<b>>
           c == U32(n)
<1>1. a \in Seq(Byte) /\ Len(a) = 1 /\ c \in Seq(Byte) /\ Len(c) = 4
  BY U32Bytes
<1> HIDE DEF a, c
<1>2. a \o c \in Seq(Byte) /\ Len(a \o c) = Len(a) + Len(c)
  BY <1>1, Joined, Zenon
<1>3. a \o c \in Seq(Byte) /\ Len(a \o c) = 5
  BY <1>1, <1>2
<1> QED  BY <1>3 DEF a, c

LEMMA ListFacts ==
  ASSUME IInv, Writing(kTagList), NEW z, z = CalculateSize[Top.tag],
         NEW sum, sum = KidSizes(CalculateSize, Cur.kids)
  PROVE  /\ pc = "body" /\ Depth > 1 /\ Depth \in 2 .. Len(stack) /\ Cur.type = kTagList
         /\ Cur = heap[Top.tag] /\ ~IsMap(heap, stack, Depth)
         /\ Top.start = Len(out) /\ Top.start \in Nat /\ out \in Seq(Byte) /\ limit \in Nat
         /\ Cur.kids \in Seq(Nat) /\ Cur.ctype \in Byte /\ z \in Nat
         /\ z = 5 + SumFunctionOnSet(sum, 1 .. Len(Cur.kids))
         /\ SumFunctionOnSet(sum, 1 .. Len(Cur.kids)) \in Nat
         /\ SumFunctionOnSet(sum, {}) = 0
         /\ Len(out) <= limit
<1>1. pc = "body" /\ pc # "done" /\ Cur.type = kTagList /\ kTagList # kTagCompound
  BY DEF Writing, kTagList, kTagCompound
<1>2. /\ Depth > 1 /\ Depth \in 2 .. Len(stack) /\ Top = stack[Depth] /\ out \in Seq(Byte)
      /\ limit \in Nat /\ Len(out) <= limit /\ Top.start = Len(out) /\ Top.start \in Nat
  BY <1>1, BodyFacts, RunningFacts
<1>3. /\ Cur = heap[Top.tag] /\ Cur.kids \in Seq(Nat) /\ Cur.ctype \in Byte /\ z \in Nat
      /\ ~IsMap(heap, stack, Depth)
  BY <1>1, <1>2, TagFacts
<1>4. z = 5 + SumFunction(sum) /\ KidsAdd(CalculateSize, Cur.kids)
  <2>1. Cur.kids = heap[Top.tag].kids /\ heap[Top.tag].type = kTagList
    BY <1>1, <1>3
  <2> QED  BY <1>1, <1>2, <2>1, ListSums, Zenon
<1>5. /\ SumFunction(sum) = SumFunctionOnSet(sum, 1 .. Len(Cur.kids))
      /\ SumFunctionOnSet(sum, {}) = 0
      /\ \A S \in SUBSET (1 .. Len(Cur.kids)) : SumFunctionOnSet(sum, S) \in Nat
  BY <1>4, Zenon DEF KidsAdd
<1>6. z = 5 + SumFunctionOnSet(sum, 1 .. Len(Cur.kids))
  BY <1>4, <1>5, Zenon
<1>7. SumFunctionOnSet(sum, 1 .. Len(Cur.kids)) \in Nat
  <2> DEFINE D == 1 .. Len(Cur.kids)
  <2>1. D \in SUBSET D
    OBVIOUS
  <2> QED  BY <1>5, <2>1, Zenon
<1> QED  BY <1>1, <1>2, <1>3, <1>5, <1>6, <1>7

LEMMA WriteEmptyListKeeps == ASSUME IInv, WriteEmptyList PROVE IInv'
<1> DEFINE z == CalculateSize[Top.tag]
           sum == KidSizes(CalculateSize, Cur.kids)
<1>1. /\ Writing(kTagList) /\ Cur.kids = << >> /\ Unchanged /\ Top.start + z <= limit
      /\ out' = Copied(Top.start, <<kTagEnd>> \o U32(0)) /\ Return(ListHead)
  BY DEF WriteEmptyList, ListWritable
<1>2. /\ pc = "body" /\ Depth > 1 /\ Top.start = Len(out) /\ out \in Seq(Byte)
      /\ z = 5 + SumFunctionOnSet(sum, 1 .. Len(Cur.kids)) /\ SumFunctionOnSet(sum, {}) = 0
      /\ limit \in Nat /\ Top.start \in Nat
  BY <1>1, ListFacts
<1> HIDE DEF z, sum
<1>3. 1 .. Len(Cur.kids) = {}
  BY <1>1
<1>4. z = 5 /\ ListHead = 5
  <2>1. SumFunctionOnSet(sum, 1 .. Len(Cur.kids)) = 0
    BY <1>2, <1>3, Zenon
  <2> QED  BY <1>2, <2>1 DEF ListHead
<1> DEFINE b == <<kTagEnd>> \o U32(0)
<1>5. b \in Seq(Byte) /\ Len(b) = 5
  <2>1. kTagEnd \in Byte /\ 0 \in Nat
    BY DEF kTagEnd, Byte
  <2> QED  BY <2>1, ListHeadBytes, Zenon
<1> HIDE DEF b
<1>6. out' \in Seq(Byte) /\ Len(out') = Top.start + 5
  BY <1>1, <1>2, <1>5, CopiedAtEnd DEF b
<1>7. Len(out') <= limit /\ ListHead = CalculateSize[Top.tag]
  BY <1>1, <1>4, <1>6 DEF z
<1> QED  BY <1>1, <1>2, <1>4, <1>6, <1>7, ReturnsSize

LEMMA EnterListKeeps == ASSUME IInv, EnterList PROVE IInv'
<1> DEFINE z == CalculateSize[Top.tag]
           sum == KidSizes(CalculateSize, Cur.kids)
<1>1. /\ Writing(kTagList) /\ Unchanged /\ Top.start + z <= limit
      /\ out' = Copied(Top.start, <<Cur.ctype>> \o U32(Len(Cur.kids)))
      /\ stack' = [stack EXCEPT ![Depth].next = Top.start + ListHead]
      /\ pc' = "loop" /\ ret' = ret /\ result' = result
  BY DEF EnterList, ListWritable
<1>2. /\ pc = "body" /\ Depth > 1 /\ Top.start = Len(out) /\ out \in Seq(Byte)
      /\ z = 5 + SumFunctionOnSet(sum, 1 .. Len(Cur.kids))
      /\ limit \in Nat /\ Top.start \in Nat /\ Cur.ctype \in Byte /\ Cur.kids \in Seq(Nat)
      /\ SumFunctionOnSet(sum, 1 .. Len(Cur.kids)) \in Nat
      /\ Cur = heap[Top.tag] /\ ~IsMap(heap, stack, Depth) /\ Cur.type = kTagList
  BY <1>1, ListFacts
<1>3. /\ stack \in Seq(Frame) /\ Depth = Len(stack) /\ Depth > 0 /\ Depth \in 1 .. Len(stack)
      /\ Top = stack[Depth] /\ Top \in Frame /\ Depth # 1
      /\ FramesOK(heap, root, CalculateSize, limit, stack, pc) /\ ret \in Nat \cup {-1}
  BY <1>2, RunningFacts
<1>4. Top.i = 0
  BY <1>2, BodyFacts
<1> DEFINE next == Top.start + ListHead
           b == <<Cur.ctype>> \o U32(Len(Cur.kids))
<1>5. next = Top.start + 5 /\ next \in Int
  BY <1>2 DEF ListHead
<1>6. b \in Seq(Byte) /\ Len(b) = 5
  <2>1. Len(Cur.kids) \in Nat
    BY <1>2
  <2> QED  BY <1>2, <2>1, ListHeadBytes, Zenon
<1> HIDE DEF b
<1>7. out' \in Seq(Byte) /\ Len(out') = next
  BY <1>1, <1>2, <1>5, <1>6, CopiedAtEnd, ZenonT(40) DEF b
<1>8. Len(out') <= limit
  BY <1>1, <1>2, <1>5, <1>7
<1> HIDE DEF next
<1>9. Alters(stack, stack', Depth, next, Top.i, Top.todo)
  <2>1. stack' = [stack EXCEPT ![Depth] = [stack[Depth] EXCEPT !.next = next]]
    BY <1>1 DEF next
  <2>2. [Top EXCEPT !.next = next]
          = [tag |-> Top.tag, start |-> Top.start, next |-> next, i |-> Top.i, todo |-> Top.todo]
    BY <1>3, FrameNext, Zenon
  <2>3. Top.i \in Nat /\ Top.todo \in Map
    BY <1>3, FrameType
  <2>4. stack' = [stack EXCEPT ![Depth] = [tag |-> Top.tag, start |-> Top.start, next |-> next,
                                           i |-> Top.i, todo |-> Top.todo]]
    BY <1>3, <2>1, <2>2, Zenon
  <2> QED  BY <1>3, <1>5, <2>3, <2>4, AltersTop
<1>10. FramesOK(heap, root, CalculateSize, limit, stack', "loop")
  <2>1. next + SumFunctionOnSet(sum, Top.i + 1 .. Len(Cur.kids)) = Top.start + z
    <3> HIDE DEF z, sum
    <3> QED  BY <1>2, <1>4, <1>5
  <2>2. Roomy(CalculateSize, limit, stack, Depth)
    BY <1>1, <1>3 DEF Roomy
  <2>3. Top.i <= Len(Cur.kids)
    BY <1>2, <1>4
  <2> QED  BY <1>2, <1>3, <1>9, <2>1, <2>2, <2>3, FramesLoop, Zenon
<1>11. stack' \in Seq(Frame) /\ Len(stack') = Depth /\ stack'[Depth].next = next
  BY <1>9 DEF Alters
<1> QED  BY <1>1, <1>2, <1>3, <1>7, <1>8, <1>10, <1>11, StepKeeps

LEMMA ListFailsKeeps == ASSUME IInv, ListFails PROVE IInv'
<1>1. Writing(kTagList) /\ ~ListWritable /\ Return(Error) /\ out' = out /\ Unchanged
  BY DEF ListFails
<1>2. /\ pc = "body" /\ Depth > 1 /\ out \in Seq(Byte) /\ Len(out) <= limit /\ limit \in Nat
      /\ Top.start \in Nat /\ CalculateSize[Top.tag] \in Nat
  BY <1>1, ListFacts
<1>3. Top.start + CalculateSize[Top.tag] > limit
  BY <1>1, <1>2 DEF ListWritable
<1> QED  BY <1>1, <1>2, <1>3, ReturnsError

LEMMA KidsNext ==
  ASSUME NEW z, NEW kids \in Seq(Nat), KidsAdd(z, kids), NEW i \in Nat, i < Len(kids),
         NEW sum, sum = KidSizes(z, kids)
  PROVE  /\ SumFunctionOnSet(sum, i + 1 .. Len(kids))
              = z[kids[i + 1]] + SumFunctionOnSet(sum, i + 1 + 1 .. Len(kids))
         /\ SumFunctionOnSet(sum, i + 1 + 1 .. Len(kids)) \in Nat
<1> DEFINE S == i + 1 .. Len(kids)
           R == i + 1 + 1 .. Len(kids)
           j == i + 1
<1>1. S \in SUBSET (1 .. Len(kids)) /\ R \in SUBSET (1 .. Len(kids)) /\ j \in S /\ S \ {j} = R
  OBVIOUS
<1> HIDE DEF S, R, j
<1>2. /\ SumFunctionOnSet(sum, S) = z[kids[j]] + SumFunctionOnSet(sum, S \ {j})
      /\ SumFunctionOnSet(sum, R) \in Nat
  BY <1>1, Zenon DEF KidsAdd
<1>3. SumFunctionOnSet(sum, S) = z[kids[j]] + SumFunctionOnSet(sum, R)
  BY <1>1, <1>2, Zenon
<1> QED  BY <1>2, <1>3 DEF S, R, j

(* The list whose elements are being written. *)
LEMMA ElementFacts ==
  ASSUME IInv, Looping(kTagList), NEW z, z = CalculateSize[Top.tag],
         NEW sum, sum = KidSizes(CalculateSize, Cur.kids)
  PROVE  /\ pc = "loop" /\ Depth > 1 /\ Cur.kids \in Seq(Nat) /\ Top.i \in Nat /\ z \in Nat
         /\ KidsAdd(CalculateSize, Cur.kids) /\ SumFunctionOnSet(sum, {}) = 0
         /\ Top.next = Len(out) /\ Top.start + z <= limit
         /\ Top.next + SumFunctionOnSet(sum, Top.i + 1 .. Len(Cur.kids)) = Top.start + z
         /\ ~IsMap(heap, stack, Depth) /\ Cur = heap[Top.tag]
         /\ \A j \in 1 .. Len(Cur.kids) : /\ Cur.kids[j] \in 1 .. Len(heap)
                                        /\ CalculateSize[Cur.kids[j]] \in Nat
<1>1. pc = "loop" /\ pc # "done" /\ Depth > 1 /\ Cur.type = kTagList /\ kTagList # kTagCompound
  BY DEF Looping, kTagList, kTagCompound
<1>2. /\ Depth \in 1 .. Len(stack) /\ Top = stack[Depth] /\ Top.i \in Nat
      /\ Depth \in 2 .. Len(stack)
  BY <1>1, RunningFacts, FrameType
<1>3. /\ Cur = heap[Top.tag] /\ Cur.kids \in Seq(Nat) /\ z \in Nat /\ ~IsMap(heap, stack, Depth)
      /\ \A j \in 1 .. Len(Cur.kids) : /\ Cur.kids[j] \in 1 .. Len(heap)
                                     /\ CalculateSize[Cur.kids[j]] \in Nat
  BY <1>1, TagFacts
<1>4. Top.next = Len(out)
  BY <1>1 DEF IInv, SizesAgree
<1> DEFINE kids == Cur.kids
<1>5. kids = heap[Top.tag].kids /\ heap[Top.tag].type = kTagList
  BY <1>1, <1>3
<1>6. KidsAdd(CalculateSize, kids)
  BY <1>1, <1>2, <1>5, ListSums, Zenon
<1>7. SumFunctionOnSet(sum, {}) = 0
  BY SumOfNone
<1> HIDE DEF kids
<1>8. /\ Top.next + SumFunctionOnSet(KidSizes(CalculateSize, kids), Top.i + 1 .. Len(kids))
           = Top.start + CalculateSize[Top.tag]
      /\ Roomy(CalculateSize, limit, stack, Depth)
  BY <1>1, <1>2, <1>3, <1>5, ListLoop, SMTT(30)
<1>9. Top.start + z <= limit
  BY <1>2, <1>8 DEF Roomy
<1>10. Top.next + SumFunctionOnSet(sum, Top.i + 1 .. Len(Cur.kids)) = Top.start + z
  BY <1>8, Zenon DEF kids
<1> QED  BY <1>1, <1>2, <1>3, <1>4, <1>6, <1>7, <1>9, <1>10, Zenon DEF kids

LEMMA WriteElementKeeps == ASSUME IInv, WriteElement PROVE IInv'
<1> DEFINE z == CalculateSize[Top.tag]
           sum == KidSizes(CalculateSize, Cur.kids)
           kid == Cur.kids[Top.i + 1]
           f == NewFrame(kid, Top.next, heap[kid].map)
<1>1. /\ Looping(kTagList) /\ Top.i < Len(Cur.kids) /\ Unchanged
      /\ stack' = Append(stack, f) /\ pc' = "body" /\ out' = out /\ ret' = ret /\ result' = result
  BY DEF WriteElement
<1>2. /\ pc = "loop" /\ Depth > 1 /\ Cur.kids \in Seq(Nat) /\ Top.i \in Nat
      /\ KidsAdd(CalculateSize, Cur.kids) /\ z \in Nat /\ Cur = heap[Top.tag]
      /\ Top.next = Len(out) /\ Top.start + z <= limit
      /\ Top.next + SumFunctionOnSet(sum, Top.i + 1 .. Len(Cur.kids)) = Top.start + z
      /\ ~IsMap(heap, stack, Depth)
      /\ \A j \in 1 .. Len(Cur.kids) : /\ Cur.kids[j] \in 1 .. Len(heap)
                                     /\ CalculateSize[Cur.kids[j]] \in Nat
  BY <1>1, ElementFacts
<1>3. /\ stack \in Seq(Frame) /\ Depth = Len(stack) /\ Depth > 0 /\ Depth # 1
      /\ Top = stack[Depth] /\ Top \in Frame /\ pc # "done" /\ Depth \in Nat
      /\ FramesOK(heap, root, CalculateSize, limit, stack, "loop") /\ ret \in Nat \cup {-1}
      /\ Entity(heap, root) /\ out \in Seq(Byte) /\ Len(out) <= limit /\ limit \in Nat
      /\ Len(out) \in Nat
  BY <1>2, RunningFacts
<1>4. kid \in 1 .. Len(heap) /\ CalculateSize[kid] \in Nat
  <2>1. Cur.kids \in Seq(Nat) /\ Top.i \in Nat /\ Top.i < Len(Cur.kids)
    BY <1>1, <1>2, Zenon
  <2>2. Top.i + 1 \in 1 .. Len(Cur.kids)
    BY ONLY <2>1, SMT
  <2> QED  BY <1>2, <2>2, Zenon
<1> HIDE DEF kid
<1>5. Top.next + CalculateSize[kid] <= limit
  <2> HIDE DEF z, sum
  <2> DEFINE rest == SumFunctionOnSet(sum, Top.i + 1 + 1 .. Len(Cur.kids))
  <2>1. SumFunctionOnSet(sum, Top.i + 1 .. Len(Cur.kids)) = CalculateSize[kid] + rest /\ rest \in Nat
    BY <1>1, <1>2, KidsNext, Zenon DEF kid, sum
  <2> HIDE DEF rest
  <2>2. Top.start \in Nat /\ Top.next \in Nat
    BY <1>2, <1>3, FrameType
  <2> QED  BY <1>2, <1>3, <1>4, <2>1, <2>2
<1>6. /\ f.tag = kid /\ f.start = Top.next /\ f.next = Top.next /\ f.i = 0
      /\ f.todo = heap[f.tag].map /\ f.tag \in 1 .. Len(heap)
  BY <1>4 DEF NewFrame
<1>7. f \in Frame
  <2>1. heap[kid].map \in Map
    BY <1>3, <1>4, EntityTag
  <2>2. kid \in Nat /\ Top.next \in Nat
    BY <1>2, <1>3, <1>4
  <2> QED  BY <2>1, <2>2 DEF NewFrame, Frame
<1> HIDE DEF f
<1>8. Alters(stack, stack, Depth, Top.next, stack[Depth].i, Top.todo)
  BY <1>3, AltersNot
<1>9. /\ FramesOK(heap, root, CalculateSize, limit, stack', "body") /\ stack' \in Seq(Frame)
      /\ Len(stack') = Depth + 1 /\ stack'[Depth + 1] = f
  <2>1. Top.next + CalculateSize[f.tag] <= limit
    BY <1>5, <1>6, Zenon
  <2>2. /\ Top.next = stack[Depth].next /\ stack[Depth].i < Len(heap[stack[Depth].tag].kids)
        /\ f.tag = heap[stack[Depth].tag].kids[stack[Depth].i + 1]
    BY <1>1, <1>2, <1>3, <1>6, Zenon DEF kid
  <2>3. Top.todo \subseteq stack[Depth].todo
    BY <1>3
  <2>4. Calls(heap, root, CalculateSize, limit, stack, Depth, Top.next, Top.todo, f)
    BY <1>2, <1>3, <2>1, <2>2, <2>3, Zenon DEF Calls
  <2>5. Called(heap, f, Top.next)
    BY <1>6, <1>7 DEF Called
  <2>6. stack \in Seq(Frame) /\ Depth = Len(stack) /\ Depth > 0 /\ stack' = Append(stack, f)
    BY <1>1, <1>3
  <2>7. FramesOK(heap, root, CalculateSize, limit, stack, "loop")
    BY <1>3
  <2>8. FramesOK(heap, root, CalculateSize, limit, stack', "body")
    BY <1>8, <2>4, <2>5, <2>6, <2>7, FramesPush, Zenon
  <2> QED  BY <1>7, <2>6, <2>8, AppendProperties
<1>10. Depth + 1 > 0
  BY <1>3
<1> QED  BY <1>1, <1>2, <1>3, <1>6, <1>9, <1>10, StepKeeps

LEMMA FinishListKeeps == ASSUME IInv, FinishList PROVE IInv'
<1> DEFINE z == CalculateSize[Top.tag]
           sum == KidSizes(CalculateSize, Cur.kids)
<1>1. /\ Looping(kTagList) /\ Top.i = Len(Cur.kids) /\ Unchanged /\ Return(z) /\ out' = out
  BY DEF FinishList
<1>2. /\ pc = "loop" /\ Depth > 1 /\ Cur.kids \in Seq(Nat) /\ Top.i \in Nat
      /\ SumFunctionOnSet(sum, {}) = 0 /\ Top.next = Len(out) /\ z \in Nat
      /\ Top.next + SumFunctionOnSet(sum, Top.i + 1 .. Len(Cur.kids)) = Top.start + z
  BY <1>1, ElementFacts
<1>3. out \in Seq(Byte) /\ Len(out) <= limit /\ Len(out) \in Nat
  BY <1>2, RunningFacts
<1>4. Top.i + 1 .. Len(Cur.kids) = {}
  BY <1>1, <1>2
<1>5. Len(out) = Top.start + z
  <2>1. Top.next + 0 = Top.start + z
    BY <1>2, <1>4, Zenon
  <2> QED  BY <1>2, <1>3, <2>1
<1> QED  BY <1>1, <1>2, <1>3, <1>5, ReturnsSize

-----------------------------------------------------------------------------
(* The loops over a map: the root's, and that of TagCompound::WriteToBuffer *)

(* The map whose entries are being written. *)
LEMMA EntryFacts ==
  ASSUME IInv, pc = "loop", IsMap(heap, stack, Depth),
         NEW m, m = Contents(heap, root, stack, Depth),
         NEW sum, sum = EntrySizes(CalculateSize, m),
         NEW end, end = EndOf(root, CalculateSize, stack, Depth)
  PROVE  /\ Top.next + SumFunctionOnSet(sum, Top.todo) = end
         /\ m \in Map /\ Keyed(m) /\ Top.todo \in SUBSET m
         /\ Depth > 1 => end = Top.start + CalculateSize[Top.tag] - 1
         /\ Depth = 1 => end = GetBufferSize
         /\ Top.todo # {} => First(Top.todo) \in Top.todo
         /\ SumFunctionOnSet(sum, Top.todo) \in Nat
         /\ Top.todo = {} => SumFunctionOnSet(sum, Top.todo) = 0
         /\ \A e \in Top.todo :
              /\ e[2] \in 1 .. Len(heap) /\ CalculateSize[e[2]] \in Nat /\ HeaderSize(e) \in Nat
              /\ SumFunctionOnSet(sum, Top.todo)
                   = HeaderSize(e) + CalculateSize[e[2]] + SumFunctionOnSet(sum, Top.todo \ {e})
              /\ SumFunctionOnSet(sum, Top.todo \ {e}) \in Nat
         /\ Top.next = Len(out) /\ Top.next \in Nat /\ Top.start \in Nat
<1>1. /\ pc # "done" /\ Depth \in 1 .. Len(stack) /\ Top = stack[Depth] /\ Depth = Len(stack)
      /\ Top.start \in Nat /\ Len(out) \in Nat /\ Depth \in Nat
  BY RunningFacts, FrameType
<1>2. Top.next = Len(out)
  BY DEF IInv, SizesAgree
<1>3. Pending(CalculateSize, stack, Depth) = 0
  BY <1>1 DEF Pending
<1>4. /\ Top.next + Pending(CalculateSize, stack, Depth) + SumFunctionOnSet(sum, Top.todo) = end
      /\ m \in Map /\ Keyed(m) /\ Top.todo \in SUBSET m
      /\ Depth > 1 => end = Top.start + CalculateSize[Top.tag] - 1
      /\ Depth = 1 => end = GetBufferSize
      /\ Top.todo # {} => First(Top.todo) \in Top.todo
  BY <1>1, MapLoop, SMTT(30)
<1>5. /\ \A e \in m : /\ e[2] \in 1 .. Len(heap) /\ CalculateSize[e[2]] \in Nat
                      /\ HeaderSize(e) \in Nat
      /\ SumFunctionOnSet(sum, {}) = 0
      /\ \A S \in SUBSET m :
           /\ SumFunctionOnSet(sum, S) \in Nat
           /\ \A e \in S : SumFunctionOnSet(sum, S)
                = HeaderSize(e) + CalculateSize[e[2]] + SumFunctionOnSet(sum, S \ {e})
  <2>1. /\ EntriesAdd(CalculateSize, m)
        /\ \A e \in m : /\ e[2] \in 1 .. Len(heap) /\ CalculateSize[e[2]] \in Nat
                        /\ HeaderSize(e) \in Nat
    BY <1>1, MapLoop
  <2> QED  BY <2>1, Zenon DEF EntriesAdd
<1>6. SumFunctionOnSet(sum, Top.todo) \in Nat
  BY <1>4, <1>5, Zenon
<1>7. ASSUME NEW e \in Top.todo
      PROVE  /\ e[2] \in 1 .. Len(heap) /\ CalculateSize[e[2]] \in Nat /\ HeaderSize(e) \in Nat
             /\ SumFunctionOnSet(sum, Top.todo)
                  = HeaderSize(e) + CalculateSize[e[2]] + SumFunctionOnSet(sum, Top.todo \ {e})
             /\ SumFunctionOnSet(sum, Top.todo \ {e}) \in Nat
  <2>1. e \in m /\ Top.todo \ {e} \in SUBSET m
    BY <1>4
  <2> QED  BY <1>4, <1>5, <2>1, Zenon
<1>8. Top.next + SumFunctionOnSet(sum, Top.todo) = end
  <2> DEFINE rest == SumFunctionOnSet(sum, Top.todo)
  <2> HIDE DEF rest
  <2>1. Top.next + 0 + rest = end /\ rest \in Nat
    BY <1>3, <1>4, <1>6, Zenon DEF rest
  <2>2. Top.next + rest = end
    BY <1>1, <1>2, <2>1
  <2> QED  BY <2>2 DEF rest
<1>9. Top.todo = {} => SumFunctionOnSet(sum, Top.todo) = 0
  BY <1>5, Zenon
<1>10. Top.next \in Nat
  BY <1>1, <1>2
<1> QED  BY <1>1, <1>2, <1>4, <1>6, <1>7, <1>8, <1>9, <1>10, Zenon

(* An entry less to write. *)
Without(s, n, e) == [s EXCEPT ![n].next = @ + HeaderSize(e), ![n].todo = @ \ {e}]

LEMMA AltersEntry ==
  ASSUME NEW s \in Seq(Frame), NEW n, n = Len(s), n > 0, NEW g, g = s[n], NEW e,
         HeaderSize(e) \in Int
  PROVE  Alters(s, Without(s, n, e), n, g.next + HeaderSize(e), g.i, g.todo \ {e})
<1> DEFINE size == HeaderSize(e)
           x == g.next + size
           y == g.todo \ {e}
           t == Without(s, n, e)
<1>1. n \in 1 .. Len(s) /\ g \in Frame
  BY ElementOfSeq
<1>2. x \in Int /\ y \in Map /\ g.i \in Nat
  BY <1>1, FrameType DEF Map
<1>3. t = [s EXCEPT ![n] = [[g EXCEPT !.next = x] EXCEPT !.todo = y]]
  <2> DEFINE c == [[g EXCEPT !.next = @ + size] EXCEPT !.todo = @ \ {e}]
             a == [g EXCEPT !.next = x]
  <2>1. t = [s EXCEPT ![n] = c]
    BY DEF Without
  <2>2. c = [a EXCEPT !.todo = y]
    BY <1>1 DEF Frame
  <2> HIDE DEF c
  <2> QED  BY <2>1, <2>2, Zenon
<1>4. [[g EXCEPT !.next = x] EXCEPT !.todo = y]
        = [tag |-> g.tag, start |-> g.start, next |-> x, i |-> g.i, todo |-> y]
  <2> HIDE DEF x, y
  <2> DEFINE b == [tag |-> g.tag, start |-> g.start, next |-> x, i |-> g.i, todo |-> g.todo]
  <2>1. [g EXCEPT !.next = x] = b
    BY <1>1, FrameNext
  <2>2. [b EXCEPT !.todo = y]
          = [tag |-> g.tag, start |-> g.start, next |-> x, i |-> g.i, todo |-> y]
    OBVIOUS
  <2> HIDE DEF b
  <2> QED  BY <2>1, <2>2, Zenon
<1>5. t = [s EXCEPT ![n] = [tag |-> g.tag, start |-> g.start, next |-> x, i |-> g.i, todo |-> y]]
  BY <1>3, <1>4, Zenon
<1> HIDE DEF x, y, t
<1>6. Alters(s, t, n, x, g.i, y)
  BY <1>2, <1>5, AltersTop
<1> QED  BY <1>6 DEF x, y, t

LEMMA DescendKeeps ==
  ASSUME IInv, pc = "loop", IsMap(heap, stack, Depth), Top.todo # {},
         NEW e, e = First(Top.todo), Descend(e), Top.next + HeaderSize(e) <= limit,
         Depth = 1 => Len(e[1]) <= UINT16_MAX,
         Depth > 1 => Top.next + HeaderSize(e) + CalculateSize[e[2]] <= limit
  PROVE  IInv'
<1> DEFINE next == Top.next + HeaderSize(e)
           todo == Top.todo \ {e}
           f == NewFrame(e[2], next, heap[e[2]].map)
           u == [stack EXCEPT ![Depth].next = @ + HeaderSize(e), ![Depth].todo = @ \ {e}]
           m == Contents(heap, root, stack, Depth)
           sum == EntrySizes(CalculateSize, m)
           end == EndOf(root, CalculateSize, stack, Depth)
<1>1. /\ out' = Copied(Top.next, Header(e)) /\ stack' = Append(u, f) /\ pc' = "body"
      /\ ret' = ret /\ result' = result /\ Unchanged
  BY DEF Descend
<1>2. /\ stack \in Seq(Frame) /\ Depth = Len(stack) /\ Depth > 0 /\ Depth \in Nat
      /\ Top = stack[Depth] /\ Top \in Frame /\ pc # "done" /\ Depth \in 1 .. Len(stack)
      /\ FramesOK(heap, root, CalculateSize, limit, stack, "loop") /\ ret \in Nat \cup {-1}
      /\ Entity(heap, root) /\ out \in Seq(Byte) /\ limit \in Nat
  BY RunningFacts
<1>3. /\ Top.next + SumFunctionOnSet(sum, Top.todo) = end
      /\ m \in Map /\ Top.todo \in SUBSET m /\ e \in Top.todo
      /\ Top.next = Len(out) /\ Top.next \in Nat
  BY EntryFacts
<1>4. /\ e[2] \in 1 .. Len(heap) /\ CalculateSize[e[2]] \in Nat /\ HeaderSize(e) \in Nat
      /\ SumFunctionOnSet(sum, Top.todo)
           = HeaderSize(e) + CalculateSize[e[2]] + SumFunctionOnSet(sum, todo)
      /\ SumFunctionOnSet(sum, todo) \in Nat
  BY <1>3, EntryFacts, Zenon
<1>5. e \in m
  BY <1>3
<1>6. next \in Nat /\ next + CalculateSize[e[2]] + SumFunctionOnSet(sum, todo) = end
  <2> HIDE DEF sum, end, todo
  <2> QED  BY <1>3, <1>4, SMTT(30)
<1>7. out' \in Seq(Byte) /\ Len(out') = next
  <2>1. Header(e) \in Seq(Byte) /\ Len(Header(e)) = HeaderSize(e)
    <3> HIDE DEF m
    <3> QED  BY <1>2, <1>3, <1>4, <1>5, HeaderBytes
  <2> QED  BY <1>1, <1>2, <1>3, <2>1, CopiedAtEnd
<1>8. f \in Frame
  <2>1. heap[e[2]].map \in Map
    BY <1>2, <1>4, EntityTag
  <2>2. e[2] \in Nat
    BY <1>2, <1>4
  <2> HIDE DEF next
  <2> QED  BY <1>6, <2>1, <2>2 DEF NewFrame, Frame
<1>9. f.tag = e[2] /\ f.start = next /\ f.next = next /\ f.todo = heap[e[2]].map /\ f.i = 0
  BY DEF NewFrame
<1> HIDE DEF f
<1>10. Called(heap, f, next)
  <2> HIDE DEF next
  <2> QED  BY <1>4, <1>8, <1>9 DEF Called
<1>11. Alters(stack, u, Depth, next, stack[Depth].i, todo)
  <2>1. stack \in Seq(Frame) /\ Depth = Len(stack) /\ Depth > 0 /\ Top = stack[Depth]
    BY <1>2
  <2>2. HeaderSize(e) \in Int /\ u = Without(stack, Depth, e)
    BY <1>4 DEF Without
  <2> HIDE DEF u
  <2>3. Alters(stack, u, Depth, Top.next + HeaderSize(e), Top.i, Top.todo \ {e})
    BY <2>1, <2>2, AltersEntry
  <2> QED  BY <2>1, <2>3, Zenon
<1>12. Calls(heap, root, CalculateSize, limit, stack, Depth, next, todo, f)
  <2>1. todo \subseteq stack[Depth].todo
    BY <1>2
  <2>2. Depth > 1 => next + CalculateSize[f.tag] <= limit
    BY <1>9
  <2>3. Depth = 1 => \A d \in root \ todo : Len(d[1]) <= UINT16_MAX
    <3>1. \A d \in root \ stack[1].todo : Len(d[1]) <= UINT16_MAX
      BY <1>2 DEF FramesOK
    <3> SUFFICES ASSUME Depth = 1, NEW d \in root \ todo PROVE Len(d[1]) <= UINT16_MAX
      OBVIOUS
    <3>2. d = e \/ d \in root \ stack[1].todo
      BY <1>2
    <3> QED  BY <3>1, <3>2
  <2>4. next + CalculateSize[f.tag]
          + SumFunctionOnSet(EntrySizes(CalculateSize, Contents(heap, root, stack, Depth)), todo)
          = EndOf(root, CalculateSize, stack, Depth)
    BY <1>6, <1>9, Zenon
  <2> HIDE DEF next, todo
  <2> QED  BY <2>1, <2>2, <2>3, <2>4, Zenon DEF Calls
<1> HIDE DEF u, next, todo
<1>13. FramesOK(heap, root, CalculateSize, limit, stack', "body")
  <2>1. /\ stack \in Seq(Frame) /\ Depth = Len(stack) /\ Depth > 0
        /\ FramesOK(heap, root, CalculateSize, limit, stack, "loop")
        /\ stack' = Append(u, f)
    BY <1>1, <1>2
  <2> QED  BY <1>10, <1>11, <1>12, <2>1, FramesPush, Zenon
<1>14. u \in Seq(Frame) /\ Len(u) = Depth
  BY <1>11 DEF Alters
<1>15. stack' \in Seq(Frame) /\ Len(stack') = Depth + 1 /\ stack'[Depth + 1] = f /\ Depth + 1 > 0
  BY <1>1, <1>2, <1>8, <1>14, AppendProperties
<1>16. Len(out') <= limit
  BY <1>7 DEF next
<1> QED  BY <1>1, <1>2, <1>7, <1>9, <1>13, <1>15, <1>16, StepKeeps

(* Write is over. *)
LEMMA EndsKeeps ==
  ASSUME IInv, pc # "done", NEW how \in {"written", "failed"}, NEW value \in Nat \cup {-1},
         Ends(how, value),
         how = "written" => Fits /\ value = GetBufferSize,
         how = "failed" => ~Fits
  PROVE  IInv'
<1>1. /\ pc' = "done" /\ result' = how /\ ret' = value /\ stack' = << >> /\ out' = out
      /\ heap' = heap /\ root' = root /\ limit' = limit
  BY DEF Ends, Unchanged
<1>2. CalculateSize' = CalculateSize /\ GetBufferSize' = GetBufferSize
  BY <1>1, KeptSizes
<1>3. /\ Entity(heap, root) /\ limit \in Nat /\ out \in Seq(Byte) /\ Len(out) <= limit
  BY RunningFacts
<1>4. stack' \in Seq(Frame) /\ Depth' = 0
  BY <1>1 DEF Depth
<1>5. TypeOK'
  BY <1>1, <1>3, <1>4 DEF TypeOK
<1>6. FramesOK(heap, root, CalculateSize, limit, stack, pc)'
  BY <1>1, FramesNone
<1>7. SizesAgree' /\ ErrorTold'
  BY <1>1 DEF SizesAgree, ErrorTold
<1>8. WritesWithinBuffer' /\ Entity(heap, root)'
  BY <1>1, <1>3 DEF WritesWithinBuffer
<1>9. SucceedsIfItFits'
  <2>1. Fits' <=> Fits
    BY <1>1, <1>2 DEF Fits
  <2>2. "written" # "failed"
    OBVIOUS
  <2> QED  BY <1>1, <1>2, <2>1, <2>2 DEF SucceedsIfItFits
<1> QED  BY <1>5, <1>6, <1>7, <1>8, <1>9 DEF IInv

(* The root's loop: the sizes before Top.next are those of the entries that *)
(* were written, and those of the others come to GetBufferSize.             *)
LEMMA RootFacts ==
  ASSUME IInv, pc = "loop", InWrite
  PROVE  /\ pc # "done" /\ Depth = 1 /\ IsMap(heap, stack, Depth)
         /\ Contents(heap, root, stack, Depth) = root /\ limit \in Nat
         /\ \A e \in root \ Top.todo : Len(e[1]) <= UINT16_MAX
         /\ Len(out) <= limit
<1>1. /\ pc # "done" /\ Depth = 1 /\ Depth = Len(stack) /\ Top = stack[Depth]
      /\ FramesOK(heap, root, CalculateSize, limit, stack, pc) /\ limit \in Nat /\ Len(out) <= limit
  BY RunningFacts DEF InWrite
<1>2. IsMap(heap, stack, Depth) /\ Contents(heap, root, stack, Depth) = root
  BY <1>1 DEF IsMap, Contents
<1>3. \A e \in root \ Top.todo : Len(e[1]) <= UINT16_MAX
  <2>1. Len(stack) > 0 /\ Top = stack[1]
    <3>1. Len(stack) = 1 /\ Top = stack[1]
      BY <1>1, Zenon
    <3> QED  BY <3>1
  <2>2. \A e \in root \ stack[1].todo : Len(e[1]) <= UINT16_MAX
    BY <1>1, <2>1, Zenon DEF FramesOK
  <2> QED  BY <2>1, <2>2, Zenon
<1> QED  BY <1>1, <1>2, <1>3

LEMMA WriteRootTagKeeps == ASSUME IInv, WriteRootTag PROVE IInv'
<1>1. /\ pc = "loop" /\ InWrite /\ Top.todo # {} /\ Descend(First(Top.todo))
      /\ Top.next + HeaderSize(First(Top.todo)) <= limit
      /\ Len(First(Top.todo)[1]) <= UINT16_MAX
  BY DEF WriteRootTag, NameWritable
<1>2. Depth = 1 /\ IsMap(heap, stack, Depth)
  BY <1>1, RootFacts
<1> QED  BY <1>1, <1>2, DescendKeeps

LEMMA RootTagFailsKeeps == ASSUME IInv, RootTagFails PROVE IInv'
<1> DEFINE e == First(Top.todo)
           sum == EntrySizes(CalculateSize, root)
<1>1. /\ pc = "loop" /\ InWrite /\ Top.todo # {} /\ ~NameWritable(e) /\ Ends("failed", Error)
  BY DEF RootTagFails
<1>2. /\ pc # "done" /\ Depth = 1 /\ IsMap(heap, stack, Depth)
      /\ Contents(heap, root, stack, Depth) = root /\ limit \in Nat
  BY <1>1, RootFacts
<1>3. e \in Top.todo /\ Top.todo \in SUBSET root
  BY <1>1, <1>2, EntryFacts
<1> HIDE DEF e
<1>4. /\ Top.next + SumFunctionOnSet(sum, Top.todo) = EndOf(root, CalculateSize, stack, Depth)
      /\ EndOf(root, CalculateSize, stack, Depth) = GetBufferSize
      /\ CalculateSize[e[2]] \in Nat /\ HeaderSize(e) \in Nat
      /\ SumFunctionOnSet(sum, Top.todo)
           = HeaderSize(e) + CalculateSize[e[2]] + SumFunctionOnSet(sum, Top.todo \ {e})
      /\ SumFunctionOnSet(sum, Top.todo \ {e}) \in Nat /\ Top.next \in Nat
  BY <1>1, <1>2, <1>3, EntryFacts
<1>5. ~Fits
  <2>1. CASE ~(Top.next + HeaderSize(e) <= limit)
    <3>1. ~(GetBufferSize <= limit)
      <4> DEFINE rest == SumFunctionOnSet(sum, Top.todo \ {e})
                 all == SumFunctionOnSet(sum, Top.todo)
      <4> HIDE DEF sum, rest, all
      <4>1. /\ Top.next + all = GetBufferSize /\ all = HeaderSize(e) + CalculateSize[e[2]] + rest
            /\ rest \in Nat
        BY <1>4, Zenon DEF rest, all
      <4> QED  BY <1>2, <1>4, <2>1, <4>1
    <3> QED  BY <3>1 DEF Fits
  <2>2. CASE ~(Len(e[1]) <= UINT16_MAX)
    BY <1>3, <2>2 DEF Fits
  <2> QED  BY <1>1, <2>1, <2>2 DEF NameWritable
<1>6. Error \in Nat \cup {-1} /\ "failed" \in {"written", "failed"} /\ "failed" # "written"
  OBVIOUS
<1> QED  BY <1>1, <1>2, <1>5, <1>6, EndsKeeps, Zenon

LEMMA WriteReturnsKeeps == ASSUME IInv, WriteReturns PROVE IInv'
<1> DEFINE sum == EntrySizes(CalculateSize, root)
<1>1. pc = "loop" /\ InWrite /\ Top.todo = {} /\ Ends("written", Top.next)
  BY DEF WriteReturns
<1>2. /\ pc # "done" /\ Depth = 1 /\ IsMap(heap, stack, Depth)
      /\ Contents(heap, root, stack, Depth) = root
      /\ \A e \in root \ Top.todo : Len(e[1]) <= UINT16_MAX /\ Len(out) <= limit
  BY <1>1, RootFacts
<1>3. Len(out) <= limit
  BY <1>1, RootFacts
<1>4. /\ Top.next + SumFunctionOnSet(sum, Top.todo) = EndOf(root, CalculateSize, stack, Depth)
      /\ EndOf(root, CalculateSize, stack, Depth) = GetBufferSize
      /\ SumFunctionOnSet(sum, Top.todo) = 0 /\ Top.next \in Nat /\ Top.next = Len(out)
  BY <1>1, <1>2, EntryFacts
<1>5. Top.next = GetBufferSize
  <2>1. Top.next + 0 = GetBufferSize
    BY <1>4, Zenon
  <2> QED  BY <1>4, <2>1
<1>6. Fits
  <2>1. GetBufferSize <= limit
    BY <1>3, <1>4, <1>5
  <2>2. \A e \in root : Len(e[1]) <= UINT16_MAX
    BY <1>1, <1>2
  <2> QED  BY <2>1, <2>2 DEF Fits
<1>7. Top.next \in Nat \cup {-1} /\ "written" \in {"written", "failed"} /\ "written" # "failed"
  BY <1>4
<1> QED  BY <1>1, <1>2, <1>5, <1>6, <1>7, EndsKeeps, Zenon

-----------------------------------------------------------------------------
(* TagCompound::WriteToBuffer                                               *)

LEMMA EnterCompoundKeeps == ASSUME IInv, EnterCompound PROVE IInv'
<1> DEFINE z == CalculateSize[Top.tag]
           sum == EntrySizes(CalculateSize, Cur.map)
<1>1. /\ pc = "body" /\ Cur.type = kTagCompound /\ pc' = "loop" /\ Unchanged
      /\ out' = out /\ stack' = stack /\ ret' = ret /\ result' = result
  BY DEF EnterCompound, Writing
<1>2. /\ Depth > 1 /\ Top.start = Len(out) /\ Top.todo = Cur.map /\ Top.i = 0
      /\ Top.next = Top.start /\ Top.start \in Nat
  BY <1>1, BodyFacts
<1>3. /\ stack \in Seq(Frame) /\ Depth = Len(stack) /\ Depth \in 1 .. Len(stack)
      /\ Top = stack[Depth] /\ pc # "done" /\ Depth \in Nat /\ Depth > 0 /\ Depth # 1
      /\ FramesOK(heap, root, CalculateSize, limit, stack, pc) /\ ret \in Nat \cup {-1}
      /\ Entity(heap, root) /\ out \in Seq(Byte) /\ Len(out) <= limit
  BY <1>1, <1>2, RunningFacts
<1>4. /\ Cur.map \in Map /\ Keyed(Cur.map) /\ z = SizeIn(CalculateSize, Cur) /\ z \in Nat
      /\ \A e \in Cur.map : CalculateSize[e[2]] \in Nat
      /\ IsMap(heap, stack, Depth) /\ Contents(heap, root, stack, Depth) = Cur.map
  BY <1>1, <1>2, <1>3, TagFacts
<1>5. EntriesAdd(CalculateSize, Cur.map)
  BY <1>4, EntriesSum DEF Keyed
<1>6. /\ SumFunction(sum) = SumFunctionOnSet(sum, Cur.map)
      /\ SumFunctionOnSet(sum, Cur.map) \in Nat
  <2>1. Cur.map \in SUBSET Cur.map
    OBVIOUS
  <2> QED  BY <1>5, <2>1, Zenon DEF EntriesAdd
<1>7. z = SumFunction(sum) + 1
  BY <1>1, <1>4, SizeByType, Zenon
<1>8. Top.next + SumFunctionOnSet(sum, Top.todo) = EndOf(root, CalculateSize, stack, Depth)
  <2> DEFINE total == SumFunctionOnSet(sum, Cur.map)
  <2> HIDE DEF total, z
  <2>1. z = total + 1 /\ total \in Nat
    BY <1>6, <1>7, Zenon DEF total
  <2>2. EndOf(root, CalculateSize, stack, Depth) = Top.start + z - 1
    BY <1>3 DEF EndOf, z
  <2>3. Top.next + total = Top.start + z - 1
    BY <1>2, <2>1
  <2> QED  BY <1>2, <2>2, <2>3, Zenon DEF total
<1>9. Alters(stack, stack, Depth, Top.next, Top.i, Top.todo)
  BY <1>3, AltersNot
<1>10. FramesOK(heap, root, CalculateSize, limit, stack, "loop")
  <2> HIDE DEF sum
  <2>1. /\ stack \in Seq(Frame) /\ Depth \in 1 .. Len(stack) /\ Depth = Len(stack)
        /\ FramesOK(heap, root, CalculateSize, limit, stack, pc)
        /\ Top.todo \subseteq stack[Depth].todo /\ Depth # 1
    BY <1>3
  <2>2. Top.next + SumFunctionOnSet(EntrySizes(CalculateSize,
                                               Contents(heap, root, stack, Depth)), Top.todo)
          = EndOf(root, CalculateSize, stack, Depth)
    BY <1>4, <1>8, Zenon DEF sum
  <2> QED  BY <1>4, <1>9, <2>1, <2>2, FramesLoop, Zenon
<1> QED  BY <1>1, <1>2, <1>3, <1>10, StepKeeps

LEMMA CompoundFacts ==
  ASSUME IInv, Looping(kTagCompound)
  PROVE  /\ pc = "loop" /\ pc # "done" /\ Depth > 1 /\ Depth # 1 /\ IsMap(heap, stack, Depth)
         /\ Contents(heap, root, stack, Depth) = Cur.map /\ limit \in Nat
         /\ EndOf(root, CalculateSize, stack, Depth) = Top.start + CalculateSize[Top.tag] - 1
         /\ CalculateSize[Top.tag] \in Nat /\ out \in Seq(Byte) /\ Len(out) <= limit
<1>1. pc = "loop" /\ Depth > 1 /\ Cur.type = kTagCompound /\ pc # "done"
  BY DEF Looping
<1>2. /\ IsMap(heap, stack, Depth) /\ Contents(heap, root, stack, Depth) = Cur.map
      /\ CalculateSize[Top.tag] \in Nat
  BY <1>1, TagFacts
<1>3. /\ limit \in Nat /\ out \in Seq(Byte) /\ Len(out) <= limit /\ Depth # 1
      /\ Top = stack[Depth]
  BY <1>1, RunningFacts
<1>4. EndOf(root, CalculateSize, stack, Depth) = Top.start + CalculateSize[Top.tag] - 1
  BY <1>3 DEF EndOf
<1> QED  BY <1>1, <1>2, <1>3, <1>4

LEMMA WriteChildKeeps == ASSUME IInv, WriteChild PROVE IInv'
<1> DEFINE e == First(Top.todo)
<1>1. /\ Looping(kTagCompound) /\ Top.todo # {} /\ Descend(e)
      /\ Top.next + HeaderSize(e) + CalculateSize[e[2]] <= limit
  BY DEF WriteChild, ChildWritable
<1>2. /\ pc = "loop" /\ Depth # 1 /\ IsMap(heap, stack, Depth) /\ limit \in Nat
  BY <1>1, CompoundFacts
<1>3. e \in Top.todo
  BY <1>1, <1>2, EntryFacts
<1> HIDE DEF e
<1>4. CalculateSize[e[2]] \in Nat /\ HeaderSize(e) \in Nat /\ Top.next \in Nat
  BY <1>2, <1>3, EntryFacts
<1>5. Top.next + HeaderSize(e) <= limit
  BY <1>1, <1>2, <1>4
<1> QED  BY <1>1, <1>2, <1>5, DescendKeeps DEF e

LEMMA ChildFailsKeeps == ASSUME IInv, ChildFails PROVE IInv'
<1> DEFINE e == First(Top.todo)
           sum == EntrySizes(CalculateSize, Cur.map)
           z == CalculateSize[Top.tag]
<1>1. /\ Looping(kTagCompound) /\ Top.todo # {} /\ Return(Error) /\ out' = out /\ Unchanged
      /\ ~(Top.next + HeaderSize(e) + CalculateSize[e[2]] <= limit)
  BY DEF ChildFails, ChildWritable
<1>2. /\ pc = "loop" /\ Depth > 1 /\ IsMap(heap, stack, Depth) /\ limit \in Nat
      /\ Contents(heap, root, stack, Depth) = Cur.map /\ z \in Nat
      /\ EndOf(root, CalculateSize, stack, Depth) = Top.start + z - 1
      /\ out \in Seq(Byte) /\ Len(out) <= limit
  BY <1>1, CompoundFacts
<1>3. e \in Top.todo
  BY <1>1, <1>2, EntryFacts
<1> HIDE DEF e
<1>4. /\ CalculateSize[e[2]] \in Nat /\ HeaderSize(e) \in Nat /\ Top.next \in Nat
      /\ Top.start \in Nat
      /\ Top.next + SumFunctionOnSet(sum, Top.todo) = EndOf(root, CalculateSize, stack, Depth)
      /\ SumFunctionOnSet(sum, Top.todo)
           = HeaderSize(e) + CalculateSize[e[2]] + SumFunctionOnSet(sum, Top.todo \ {e})
      /\ SumFunctionOnSet(sum, Top.todo \ {e}) \in Nat
  BY <1>2, <1>3, EntryFacts
<1>5. Top.start + CalculateSize[Top.tag] > limit
  <2> DEFINE rest == SumFunctionOnSet(sum, Top.todo \ {e})
             all == SumFunctionOnSet(sum, Top.todo)
  <2> HIDE DEF sum, rest, all
  <2>1. /\ Top.next + all = Top.start + z - 1
        /\ all = HeaderSize(e) + CalculateSize[e[2]] + rest /\ rest \in Nat
    BY <1>2, <1>4, Zenon DEF rest, all
  <2> HIDE DEF z
  <2>2. Top.start + z > limit
    <3> DEFINE h == HeaderSize(e)
               y == CalculateSize[e[2]]
    <3>1. /\ h \in Nat /\ y \in Nat /\ Top.next \in Nat /\ Top.start \in Nat
          /\ z \in Nat /\ limit \in Nat /\ ~(Top.next + h + y <= limit)
          /\ Top.next + all = Top.start + z - 1 /\ all = h + y + rest /\ rest \in Nat
      BY <1>1, <1>2, <1>4, <2>1, Zenon
    <3> HIDE DEF h, y
    <3> QED  BY <3>1
  <2> QED  BY <2>2 DEF z
<1> QED  BY <1>1, <1>2, <1>5, ReturnsError

(* All entries have been written: there is a TAG_End to come.               *)
LEMMA CompoundEnd ==
  ASSUME IInv, Looping(kTagCompound), Top.todo = {}
  PROVE  /\ Top.next + 1 = Top.start + CalculateSize[Top.tag]
         /\ Top.next = Len(out) /\ Top.next \in Nat /\ Top.start \in Nat
<1> DEFINE sum == EntrySizes(CalculateSize, Cur.map)
           z == CalculateSize[Top.tag]
<1>1. /\ pc = "loop" /\ IsMap(heap, stack, Depth) /\ z \in Nat
      /\ Contents(heap, root, stack, Depth) = Cur.map
      /\ EndOf(root, CalculateSize, stack, Depth) = Top.start + z - 1
  BY CompoundFacts
<1>2. /\ Top.next \in Nat /\ Top.start \in Nat /\ Top.next = Len(out)
      /\ Top.next + SumFunctionOnSet(sum, Top.todo) = EndOf(root, CalculateSize, stack, Depth)
      /\ SumFunctionOnSet(sum, Top.todo) = 0
  BY <1>1, EntryFacts
<1>3. Top.next + 0 = Top.start + z - 1
  BY <1>1, <1>2, Zenon
<1>4. Top.next + 1 = Top.start + z
  <2> HIDE DEF z
  <2> QED  BY <1>1, <1>2, <1>3
<1> QED  BY <1>2, <1>4

LEMMA FinishCompoundKeeps == ASSUME IInv, FinishCompound PROVE IInv'
<1>1. /\ Looping(kTagCompound) /\ Top.todo = {} /\ Unchanged /\ Top.next + 1 <= limit
      /\ out' = Copied(Top.next, <<kTagEnd>>) /\ Return(Top.next + 1 - Top.start)
  BY DEF FinishCompound
<1>2. pc = "loop" /\ Depth > 1 /\ out \in Seq(Byte) /\ CalculateSize[Top.tag] \in Nat
  BY <1>1, CompoundFacts
<1>3. /\ Top.next + 1 = Top.start + CalculateSize[Top.tag]
      /\ Top.next = Len(out) /\ Top.next \in Nat /\ Top.start \in Nat
  BY <1>1, CompoundEnd
<1>4. Top.next + 1 - Top.start = CalculateSize[Top.tag]
  BY <1>2, <1>3
<1>5. <<kTagEnd>> \in Seq(Byte) /\ Len(<<kTagEnd>>) = 1
  BY DEF kTagEnd, Byte
<1>6. out' \in Seq(Byte) /\ Len(out') = Top.next + 1
  BY <1>1, <1>2, <1>3, <1>5, CopiedAtEnd
<1>7. Return(CalculateSize[Top.tag])
  BY <1>1, <1>4, Zenon
<1> QED  BY <1>1, <1>2, <1>3, <1>6, <1>7, ReturnsSize

LEMMA CompoundEndFailsKeeps == ASSUME IInv, CompoundEndFails PROVE IInv'
<1>1. /\ Looping(kTagCompound) /\ Top.todo = {} /\ Unchanged /\ Top.next + 1 > limit
      /\ out' = out /\ Return(Error)
  BY DEF CompoundEndFails
<1>2. pc = "loop" /\ Depth > 1 /\ out \in Seq(Byte) /\ Len(out) <= limit
  BY <1>1, CompoundFacts
<1>3. Top.start + CalculateSize[Top.tag] > limit
  BY <1>1, CompoundEnd
<1> QED  BY <1>1, <1>2, <1>3, ReturnsError

-----------------------------------------------------------------------------
(* The caller of a tag's WriteToBuffer                                      *)

LEMMA AltersCaller ==
  ASSUME NEW s \in Seq(Frame), NEW n, n = Len(s) - 1, n > 0, NEW g, g = s[n],
         NEW r \in Int, NEW i \in Nat, NEW t,
         t = [SubSeq(s, 1, n) EXCEPT ![n].next = @ + r, ![n].i = i]
  PROVE  Alters(s, t, n, g.next + r, i, g.todo)
<1> DEFINE u == SubSeq(s, 1, n)
           next == g.next + r
<1>1. n \in Nat /\ n \in 1 .. Len(s) /\ n + 1 = Len(s) /\ Len(s) \in Nat
  OBVIOUS
<1>2. g \in Frame
  BY <1>1, ElementOfSeq
<1>3. u \in Seq(Frame) /\ Len(u) = n /\ \A m \in 1 .. n : u[m] = s[m]
  BY <1>1, SubSeqProperties
<1>4. n = Len(u) /\ g = u[n]
  BY <1>1, <1>3
<1>5. next \in Int /\ g.todo \in Map
  BY <1>2, FrameType
<1>6. t = [u EXCEPT ![n] = [tag |-> g.tag, start |-> g.start, next |-> next,
                            i |-> i, todo |-> g.todo]]
  <2> DEFINE a == [g EXCEPT !.next = @ + r]
             b == [tag |-> g.tag, start |-> g.start, next |-> next, i |-> g.i, todo |-> g.todo]
             c == [[g EXCEPT !.next = @ + r] EXCEPT !.i = i]
  <2>1. c = [a EXCEPT !.i = i]
    OBVIOUS
  <2>2. a = b
    <3>1. a = [g EXCEPT !.next = next]
      OBVIOUS
    <3> HIDE DEF next, a
    <3>3. [g EXCEPT !.next = next] = b
      BY <1>2, FrameNext, Zenon
    <3> QED  BY <3>1, <3>3, Zenon
  <2>3. [b EXCEPT !.i = i] = [tag |-> g.tag, start |-> g.start, next |-> next,
                              i |-> i, todo |-> g.todo]
    <3> HIDE DEF next
    <3> QED  OBVIOUS
  <2>4. t = [u EXCEPT ![n] = c]
    <3> HIDE DEF u
    <3>1. t = [u EXCEPT ![n].next = @ + r, ![n].i = i]
      BY DEF u
    <3> QED  BY <1>1, <1>3, <1>4, <3>1
  <2> HIDE DEF a, b, c
  <2> QED  BY <2>1, <2>2, <2>3, <2>4, Zenon
<1> HIDE DEF u, next
<1>7. Alters(u, t, n, next, i, g.todo)
  BY <1>1, <1>3, <1>4, <1>5, <1>6, AltersTop
<1>8. /\ t \in Seq(Frame) /\ Len(t) = n
      /\ \A m \in 1 .. n - 1 : t[m] = u[m]
      /\ t[n].tag = g.tag /\ t[n].start = g.start
      /\ t[n].next = next /\ t[n].i = i /\ t[n].todo = g.todo
  BY <1>4, <1>7, Zenon DEF Alters
<1>9. \A m \in 1 .. n - 1 : t[m] = s[m]
  <2>1. \A m \in 1 .. n - 1 : m \in 1 .. n
    BY <1>1
  <2> QED  BY <1>3, <1>8, <2>1
<1> QED  BY <1>8, <1>9, Zenon DEF Alters, next

(* What a caller finds when the call it made comes back.                    *)
LEMMA CallerFacts ==
  ASSUME IInv, pc = "return", NEW n, n = Depth - 1
  PROVE  /\ pc # "done" /\ n \in 1 .. Len(stack) /\ n < Depth /\ n # Depth /\ n > 0
         /\ n = Len(stack) - 1 /\ Caller = stack[n] /\ Caller \in Frame
         /\ stack \in Seq(Frame) /\ Top = stack[n + 1]
         /\ Pending(CalculateSize, stack, n) = CalculateSize[Top.tag]
         /\ CalculateSize[Top.tag] \in Nat /\ Top.start = Caller.next /\ Caller.next \in Nat
         /\ FramesOK(heap, root, CalculateSize, limit, stack, pc)
         /\ ret # -1 => ret = CalculateSize[Top.tag] /\ Top.start + ret = Len(out)
<1>1. /\ pc # "done" /\ stack \in Seq(Frame) /\ Depth = Len(stack) /\ Depth \in Nat
      /\ Depth > 1 /\ Top = stack[Depth] /\ Top \in Frame
      /\ FramesOK(heap, root, CalculateSize, limit, stack, pc)
  BY RunningFacts
<1>2. /\ n \in 1 .. Len(stack) /\ n < Depth /\ n # Depth /\ n > 0 /\ n = Len(stack) - 1
      /\ n + 1 = Depth /\ n < Len(stack)
  BY <1>1
<1>3. Caller = stack[n] /\ Caller \in Frame
  BY <1>1, <1>2, ElementOfSeq DEF Caller
<1>4. FrameOK(heap, root, CalculateSize, limit, stack, pc, n)
  BY <1>1, <1>2 DEF FramesOK
<1>5. Top = stack[n + 1] /\ Top.start = Caller.next
  BY <1>1, <1>2, <1>3, <1>4 DEF FrameOK
<1>6. Pending(CalculateSize, stack, n) = CalculateSize[Top.tag]
  BY <1>2, <1>5, Zenon DEF Pending
<1>7. CalculateSize[Top.tag] \in Nat
  BY <1>1, TagFacts
<1>8. Caller.next \in Nat
  BY <1>1, <1>5, FrameType
<1>9. ret # -1 => ret = CalculateSize[Top.tag] /\ Top.start + ret = Len(out)
  BY DEF IInv, SizesAgree
<1> QED  BY <1>1, <1>2, <1>3, <1>5, <1>6, <1>7, <1>8, <1>9

LEMMA ListGoesOn ==
  ASSUME NEW z, NEW kids \in Seq(Nat), KidsAdd(z, kids), NEW i \in Nat, i < Len(kids),
         NEW next \in Nat, z[kids[i + 1]] \in Nat
  PROVE  next + z[kids[i + 1]] + SumFunctionOnSet(KidSizes(z, kids), i + 1 + 1 .. Len(kids))
           = next + SumFunctionOnSet(KidSizes(z, kids), i + 1 .. Len(kids))
<1> DEFINE sum == KidSizes(z, kids)
           all == SumFunctionOnSet(sum, i + 1 .. Len(kids))
           rest == SumFunctionOnSet(sum, i + 1 + 1 .. Len(kids))
           y == z[kids[i + 1]]
<1>1. all = y + rest /\ rest \in Nat
  BY KidsNext, Zenon
<1>2. y \in Nat
  OBVIOUS
<1> HIDE DEF all, rest, y
<1>3. next + y + rest = next + all
  BY <1>1, <1>2
<1> QED  BY <1>3 DEF all, rest, y

LEMMA ResumeKeeps ==
  ASSUME IInv, pc = "return", ret # Error, NEW i, Resume(i),
         NEW n, n = Depth - 1, IsMap(heap, stack, n) => i = Caller.i,
         ~IsMap(heap, stack, n) => i = Caller.i + 1
  PROVE  IInv'
<1>1. /\ stack' = [SubSeq(stack, 1, n) EXCEPT ![n].next = @ + ret, ![n].i = i]
      /\ pc' = "loop" /\ out' = out /\ ret' = ret /\ result' = result /\ Unchanged
  BY DEF Resume
<1> DEFINE z == CalculateSize[Top.tag]
           next == Caller.next + ret
           todo == Caller.todo
<1>2. /\ pc # "done" /\ n \in 1 .. Len(stack) /\ n < Depth /\ n # Depth /\ n > 0
      /\ n = Len(stack) - 1 /\ Caller = stack[n] /\ Caller \in Frame
      /\ stack \in Seq(Frame) /\ Top = stack[n + 1]
      /\ Pending(CalculateSize, stack, n) = z /\ z \in Nat
      /\ Top.start = Caller.next /\ Caller.next \in Nat
      /\ FramesOK(heap, root, CalculateSize, limit, stack, pc)
      /\ ret = z /\ Top.start + ret = Len(out)
  BY CallerFacts
<1>3. i \in Nat
  BY <1>2, FrameType
<1>4. ret \in Nat \cup {-1} /\ out \in Seq(Byte) /\ Len(out) <= limit /\ ret \in Int
  BY <1>2, RunningFacts
<1>5. next = Len(out)
  BY <1>2
<1> HIDE DEF z, next, todo
<1>6. Alters(stack, stack', n, next, i, todo)
  BY <1>1, <1>2, <1>3, <1>4, AltersCaller, Zenon DEF next, todo
<1>7. IsMap(heap, stack, n) =>
        next + SumFunctionOnSet(EntrySizes(CalculateSize, Contents(heap, root, stack, n)), todo)
          = EndOf(root, CalculateSize, stack, n)
  <2> SUFFICES ASSUME IsMap(heap, stack, n)
               PROVE  next + SumFunctionOnSet(EntrySizes(CalculateSize,
                                                Contents(heap, root, stack, n)), todo)
                        = EndOf(root, CalculateSize, stack, n)
    OBVIOUS
  <2>1. Caller.next + Pending(CalculateSize, stack, n)
          + SumFunctionOnSet(EntrySizes(CalculateSize, Contents(heap, root, stack, n)), Caller.todo)
          = EndOf(root, CalculateSize, stack, n)
    BY <1>2, MapLoop
  <2> QED  BY <1>2, <2>1, Zenon DEF next, todo
<1>8. ~IsMap(heap, stack, n) =>
        LET kids == heap[stack[n].tag].kids IN
        /\ heap[stack[n].tag].type = kTagList /\ Roomy(CalculateSize, limit, stack, n)
        /\ i <= Len(kids)
        /\ next + SumFunctionOnSet(KidSizes(CalculateSize, kids), i + 1 .. Len(kids))
             = stack[n].start + CalculateSize[stack[n].tag]
  <2> DEFINE kids == heap[Caller.tag].kids
  <2> SUFFICES ASSUME ~IsMap(heap, stack, n)
               PROVE  /\ heap[Caller.tag].type = kTagList /\ Roomy(CalculateSize, limit, stack, n)
                      /\ i <= Len(kids)
                      /\ next + SumFunctionOnSet(KidSizes(CalculateSize, kids), i + 1 .. Len(kids))
                           = Caller.start + CalculateSize[Caller.tag]
    BY <1>2, Zenon
  <2>1. /\ n \in 2 .. Len(stack) /\ heap[Caller.tag].type = kTagList
        /\ Caller.i < Len(kids) /\ Top.tag = kids[Caller.i + 1]
        /\ Caller.next + SumFunctionOnSet(KidSizes(CalculateSize, kids), Caller.i + 1 .. Len(kids))
             = Caller.start + CalculateSize[Caller.tag]
        /\ Roomy(CalculateSize, limit, stack, n)
    BY <1>2, ListLoop, SMTT(30)
  <2>2. kids \in Seq(Nat) /\ KidsAdd(CalculateSize, kids)
    BY <1>2, <2>1, ListSums, Zenon
  <2>3. Caller.i \in Nat /\ i = Caller.i + 1
    BY <1>2, FrameType
  <2> HIDE DEF kids
  <2>4. z = CalculateSize[kids[Caller.i + 1]]
    BY <2>1, Zenon DEF z
  <2>5. /\ Caller.i + 1 <= Len(kids)
        /\ Caller.next + CalculateSize[kids[Caller.i + 1]]
             + SumFunctionOnSet(KidSizes(CalculateSize, kids), Caller.i + 1 + 1 .. Len(kids))
             = Caller.start + CalculateSize[Caller.tag]
    <3>1. CalculateSize[kids[Caller.i + 1]] \in Nat /\ Caller.next \in Nat /\ Caller.i \in Nat
      BY <1>2, <2>3, <2>4, Zenon
    <3>2. /\ Caller.i < Len(kids)
          /\ Caller.next + SumFunctionOnSet(KidSizes(CalculateSize, kids),
                                           Caller.i + 1 .. Len(kids))
               = Caller.start + CalculateSize[Caller.tag]
      BY <2>1, Zenon
    <3>3. Caller.i + 1 <= Len(kids)
      BY <2>2, <3>1, <3>2
    <3>4. Caller.next + CalculateSize[kids[Caller.i + 1]]
           + SumFunctionOnSet(KidSizes(CalculateSize, kids), Caller.i + 1 + 1 .. Len(kids))
           = Caller.start + CalculateSize[Caller.tag]
      <4>1. Caller.next + CalculateSize[kids[Caller.i + 1]]
             + SumFunctionOnSet(KidSizes(CalculateSize, kids), Caller.i + 1 + 1 .. Len(kids))
             = Caller.next + SumFunctionOnSet(KidSizes(CalculateSize, kids),
                                              Caller.i + 1 .. Len(kids))
        <5> DEFINE y == CalculateSize
                   k == Caller.i
                   from == Caller.next
        <5>1. /\ kids \in Seq(Nat) /\ KidsAdd(y, kids) /\ k \in Nat /\ k < Len(kids)
              /\ from \in Nat /\ y[kids[k + 1]] \in Nat
          BY <2>2, <3>1, <3>2
        <5> HIDE DEF y, k, from
        <5>2. from + y[kids[k + 1]] + SumFunctionOnSet(KidSizes(y, kids), k + 1 + 1 .. Len(kids))
                = from + SumFunctionOnSet(KidSizes(y, kids), k + 1 .. Len(kids))
          BY <5>1, ListGoesOn
        <5> QED  BY <5>2 DEF y, k, from
      <4> QED  BY <3>2, <4>1, Zenon
    <3> QED  BY <3>3, <3>4
  <2>6. next = Caller.next + CalculateSize[kids[Caller.i + 1]]
    BY <1>2, <2>4, Zenon DEF next
  <2> QED  BY <2>1, <2>3, <2>5, <2>6, Zenon DEF kids
<1>9. FramesOK(heap, root, CalculateSize, limit, stack', "loop")
  <2>1. todo \subseteq stack[n].todo /\ (n = 1 => todo = stack[n].todo)
    BY <1>2 DEF todo
  <2>2. n = Len(stack) \/ n = Len(stack) - 1
    BY <1>2
  <2>3. /\ stack \in Seq(Frame) /\ n \in 1 .. Len(stack)
        /\ FramesOK(heap, root, CalculateSize, limit, stack, pc)
    BY <1>2
  <2> QED  BY <1>6, <1>7, <1>8, <2>1, <2>2, <2>3, FramesLoop, Zenon
<1>10. stack' \in Seq(Frame) /\ Len(stack') = n /\ stack'[n].next = next
  BY <1>6 DEF Alters
<1> QED  BY <1>1, <1>2, <1>4, <1>5, <1>9, <1>10, StepKeeps

LEMMA ReturnToWriteKeeps == ASSUME IInv, ReturnToWrite PROVE IInv'
<1> DEFINE n == Depth - 1
<1>1. /\ pc = "return" /\ Depth = 2
      /\ (ret # Error /\ Resume(Caller.i)) \/ (ret = Error /\ Ends("failed", Error))
  BY DEF ReturnToWrite
<1>2. n = 1
  BY <1>1
<1>3. IsMap(heap, stack, n)
  BY <1>2 DEF IsMap
<1>4. CASE ret # Error /\ Resume(Caller.i)
  BY <1>1, <1>3, <1>4, ResumeKeeps
<1>5. CASE ret = Error /\ Ends("failed", Error)
  <2> DEFINE z == CalculateSize[Top.tag]
             sum == EntrySizes(CalculateSize, root)
  <2>1. /\ pc # "done" /\ n \in 1 .. Len(stack) /\ n # Depth /\ Caller = stack[n]
        /\ Pending(CalculateSize, stack, n) = z /\ z \in Nat
        /\ Top.start = Caller.next /\ Caller.next \in Nat
    BY <1>1, CallerFacts
  <2>2. limit \in Nat /\ Top = stack[Depth]
    BY <2>1, RunningFacts
  <2>3. ~(Top.start + z <= limit)
    BY <1>1, <1>5, <2>2 DEF IInv, ErrorTold, Roomy
  <2>4. Contents(heap, root, stack, n) = root
    BY <1>2 DEF Contents
  <2>5. /\ Caller.next + Pending(CalculateSize, stack, n) + SumFunctionOnSet(sum, Caller.todo)
             = EndOf(root, CalculateSize, stack, n)
        /\ Caller.todo \in SUBSET root /\ EntriesAdd(CalculateSize, root)
        /\ EndOf(root, CalculateSize, stack, n) = GetBufferSize
    BY <1>2, <1>3, <2>1, <2>4, MapLoop
  <2>6. SumFunctionOnSet(sum, Caller.todo) \in Nat
    BY <2>5, Zenon DEF EntriesAdd
  <2>7. ~Fits
    <3> DEFINE rest == SumFunctionOnSet(sum, Caller.todo)
    <3> HIDE DEF z, sum, rest
    <3>1. Caller.next + z + rest = GetBufferSize /\ rest \in Nat
      BY <2>1, <2>5, <2>6, Zenon DEF rest
    <3>2. ~(GetBufferSize <= limit)
      BY <2>1, <2>2, <2>3, <3>1
    <3> QED  BY <3>2 DEF Fits
  <2>8. Error \in Nat \cup {-1} /\ "failed" \in {"written", "failed"} /\ "failed" # "written"
    OBVIOUS
  <2> QED  BY <1>5, <2>1, <2>7, <2>8, EndsKeeps, Zenon
<1> QED  BY <1>1, <1>4, <1>5

(* A call below a root tag's has not failed. *)
LEMMA NestedFacts ==
  ASSUME IInv, pc = "return", Depth > 2
  PROVE  ret # Error /\ (IsMap(heap, stack, Depth - 1) <=> IsCompound(Caller.tag))
<1>1. ret # Error
  BY DEF IInv, ErrorTold
<1>2. Depth - 1 # 1 /\ Caller = stack[Depth - 1]
  BY RunningFacts DEF Caller
<1> QED  BY <1>1, <1>2, Zenon DEF IsMap, IsCompound

LEMMA ReturnToListKeeps == ASSUME IInv, ReturnToList PROVE IInv'
<1>1. pc = "return" /\ Depth > 2 /\ IsList(Caller.tag) /\ (ret # Error => Resume(Caller.i + 1))
  BY DEF ReturnToList
<1>2. ret # Error /\ (IsMap(heap, stack, Depth - 1) <=> IsCompound(Caller.tag))
  BY <1>1, NestedFacts
<1>3. ~IsMap(heap, stack, Depth - 1)
  BY <1>1, <1>2 DEF IsList, IsCompound, kTagList, kTagCompound
<1> QED  BY <1>1, <1>2, <1>3, ResumeKeeps

LEMMA ReturnToCompoundKeeps == ASSUME IInv, ReturnToCompound PROVE IInv'
<1>1. pc = "return" /\ Depth > 2 /\ IsCompound(Caller.tag) /\ Resume(Caller.i)
  BY DEF ReturnToCompound
<1>2. ret # Error /\ IsMap(heap, stack, Depth - 1)
  BY <1>1, NestedFacts
<1> QED  BY <1>1, <1>2, ResumeKeeps

-----------------------------------------------------------------------------
(* NBT::Write is called                                                     *)

LEMMA WriteKeeps == ASSUME IInv, NEW size \in Limits, Write(size) PROVE IInv'
<1> DEFINE f == NewFrame(Null, 0, root)
<1>1. /\ pc = "done" /\ limit' = size /\ out' = << >> /\ stack' = <<f>>
      /\ pc' = "loop" /\ ret' = 0 /\ result' = "none" /\ heap' = heap /\ root' = root
  BY DEF Write
<1>2. Entity(heap, root)
  BY DEF IInv
<1>3. CalculateSize' = CalculateSize /\ SizesOK(CalculateSize, heap)
  BY <1>1, <1>2, KeptSizes, CalculateSizes
<1>4. f.tag = Null /\ f.start = 0 /\ f.next = 0 /\ f.i = 0 /\ f.todo = root
  BY DEF NewFrame
<1>5. f \in Frame
  BY <1>2 DEF NewFrame, Frame, Entity
<1> HIDE DEF f
<1>6. stack' \in Seq(Frame) /\ Depth' = 1 /\ Top' = f
  BY <1>1, <1>5 DEF Depth, Top
<1>7. TypeOK'
  <2>1. size \in Nat
    BY LimitsAssumption
  <2> QED  BY <1>1, <1>6, <2>1 DEF TypeOK
<1>8. FramesOK(heap, root, CalculateSize, limit, stack, pc)'
  <2>1. root \in Map /\ IsFiniteSet(root) /\ \A e \in root : CalculateSize[e[2]] \in Nat
    BY <1>2, <1>3 DEF Entity, Keyed, SizesOK
  <2>2. EntriesAdd(CalculateSize, root) /\ root \in SUBSET root
    BY <2>1, EntriesSum
  <2>3. /\ Total(root, CalculateSize) \in Nat
        /\ SumFunctionOnSet(EntrySizes(CalculateSize, root), root) = Total(root, CalculateSize)
    BY <2>2, Zenon DEF EntriesAdd, Total
  <2>4. FramesOK(heap, root, CalculateSize, size, <<f>>, "loop")
    BY <1>4, <2>3, FramesStart
  <2> QED  BY <1>1, <1>3, <2>4
<1>9. SizesAgree' /\ ErrorTold' /\ WritesWithinBuffer'
  <2>1. size \in Nat /\ Len(<< >>) = 0
    BY LimitsAssumption
  <2> QED  BY <1>1, <1>4, <1>6, <2>1 DEF SizesAgree, ErrorTold, WritesWithinBuffer
<1>10. Entity(heap, root)' /\ pc' # "done"
  BY <1>1, <1>2
<1> QED  BY <1>7, <1>8, <1>9, <1>10 DEF IInv

-----------------------------------------------------------------------------
(* IInv is an invariant                                                     *)

LEMMA InitHolds == Init => IInv
<1> SUFFICES ASSUME Init PROVE IInv
  OBVIOUS
<1>1. /\ limit = 0 /\ out = << >> /\ stack = << >> /\ pc = "done" /\ ret = 0 /\ result = "none"
  BY DEF Init
<1>2. Entity(heap, root)
  BY EntitiesAssumption DEF Init
<1>3. TypeOK
  BY <1>1 DEF TypeOK, Depth
<1>4. FramesOK(heap, root, CalculateSize, limit, stack, pc)
  BY <1>1, FramesNone
<1>5. SizesAgree /\ ErrorTold /\ SucceedsIfItFits
  BY <1>1 DEF SizesAgree, ErrorTold, SucceedsIfItFits
<1>6. WritesWithinBuffer
  BY <1>1 DEF WritesWithinBuffer
<1> QED  BY <1>2, <1>3, <1>4, <1>5, <1>6 DEF IInv

LEMMA StutterKeeps == ASSUME IInv, UNCHANGED vars PROVE IInv'
<1>1. /\ heap' = heap /\ root' = root /\ limit' = limit /\ out' = out /\ stack' = stack
      /\ pc' = pc /\ ret' = ret /\ result' = result
  BY DEF vars
<1>2. CalculateSize' = CalculateSize /\ GetBufferSize' = GetBufferSize
  BY <1>1, KeptSizes
<1>3. Depth' = Depth /\ Top' = Top
  BY <1>1 DEF Depth, Top
<1>4. TypeOK' <=> TypeOK
  BY <1>1, <1>3 DEF TypeOK
<1>5. SizesAgree' <=> SizesAgree
  BY <1>1, <1>2, <1>3, Zenon DEF SizesAgree
<1>6. SucceedsIfItFits' <=> SucceedsIfItFits
  BY <1>1, <1>2, Zenon DEF SucceedsIfItFits, Fits
<1>7. ErrorTold' <=> ErrorTold
  BY <1>1, <1>2, <1>3, Zenon DEF ErrorTold
<1>8. FramesOK(heap, root, CalculateSize, limit, stack, pc)'
        <=> FramesOK(heap, root, CalculateSize, limit, stack, pc)
  BY <1>1, <1>2
<1> QED  BY <1>1, <1>4, <1>5, <1>6, <1>7, <1>8, Zenon DEF IInv, WritesWithinBuffer

LEMMA NextKeeps == IInv /\ [Next]_vars => IInv'
<1> SUFFICES ASSUME IInv, [Next]_vars PROVE IInv'
  OBVIOUS
<1>1. CASE WriteRootTag       BY <1>1, WriteRootTagKeeps
<1>2. CASE RootTagFails       BY <1>2, RootTagFailsKeeps
<1>3. CASE WriteReturns       BY <1>3, WriteReturnsKeeps
<1>4. CASE WriteScalar        BY <1>4, WriteScalarKeeps
<1>5. CASE WriteString        BY <1>5, WriteStringKeeps
<1>6. CASE WriteArray         BY <1>6, WriteArrayKeeps
<1>7. CASE WriteArrayLength   BY <1>7, WriteArrayLengthKeeps
<1>8. CASE LeafFails          BY <1>8, LeafFailsKeeps
<1>9. CASE WriteEmptyList     BY <1>9, WriteEmptyListKeeps
<1>10. CASE EnterList         BY <1>10, EnterListKeeps
<1>11. CASE ListFails         BY <1>11, ListFailsKeeps
<1>12. CASE WriteElement      BY <1>12, WriteElementKeeps
<1>13. CASE FinishList        BY <1>13, FinishListKeeps
<1>14. CASE EnterCompound     BY <1>14, EnterCompoundKeeps
<1>15. CASE WriteChild        BY <1>15, WriteChildKeeps
<1>16. CASE ChildFails        BY <1>16, ChildFailsKeeps
<1>17. CASE FinishCompound    BY <1>17, FinishCompoundKeeps
<1>18. CASE CompoundEndFails  BY <1>18, CompoundEndFailsKeeps
<1>19. CASE ReturnToWrite     BY <1>19, ReturnToWriteKeeps
<1>20. CASE ReturnToList      BY <1>20, ReturnToListKeeps
<1>21. CASE ReturnToCompound  BY <1>21, ReturnToCompoundKeeps
<1>22. ASSUME NEW size \in Limits, Write(size) PROVE IInv'
  BY <1>22, WriteKeeps
<1>23. CASE UNCHANGED vars    BY <1>23, StutterKeeps
<1> QED
  BY <1>1, <1>2, <1>3, <1>4, <1>5, <1>6, <1>7, <1>8, <1>9, <1>10, <1>11, <1>12, <1>13, <1>14,
     <1>15, <1>16, <1>17, <1>18, <1>19, <1>20, <1>21, <1>22, <1>23 DEF Next, WriteStep

LEMMA Invariance == Spec => []IInv
<1>1. Init => IInv
  BY InitHolds
<1>2. IInv /\ [Next]_vars => IInv'
  BY NextKeeps
<1> QED  BY <1>1, <1>2, PTL DEF Spec

-----------------------------------------------------------------------------
(* The variables keep their types, and no byte of the buffer is left out.   *)
THEOREM TypeCorrect == Spec => []TypeOK
<1>1. IInv => TypeOK
  BY DEF IInv
<1> QED  BY <1>1, Invariance, PTL

(* Whatever the entity and the size of the buffer, Write stays in it: the   *)
(* checks that each WriteToBuffer makes for itself add up.                  *)
THEOREM WithinBuffer == Spec => []WritesWithinBuffer
<1>1. IInv => WritesWithinBuffer
  BY DEF IInv
<1> QED  BY <1>1, Invariance, PTL

(* No call below a root tag's fails, so the sum compound.h:115 makes of the *)
(* results of its children never takes an error for a number of bytes.      *)
THEOREM NestedCallsSucceed == Spec => []OnlyRootTagsFail
<1>1. IInv => OnlyRootTagsFail
  BY DEF IInv, ErrorTold, OnlyRootTagsFail
<1> QED  BY <1>1, Invariance, PTL

(* What the CalculateSize of every type says is what its WriteToBuffer      *)
(* writes, and Write fails exactly when GetBufferSize or a name of the root *)
(* says it must.                                                            *)
THEOREM SizesCorrect == Spec => []SizesAreRight
<1>1. IInv => SizesAreRight
  <2>1. TypeOK => (pc = "done" \/ result = "none")
    BY DEF TypeOK
  <2>2. result = "none" => SucceedsIfItFits
    BY DEF SucceedsIfItFits
  <2> QED  BY <2>1, <2>2 DEF IInv, SizesAreRight
<1> QED  BY <1>1, Invariance, PTL

=============================================================================
