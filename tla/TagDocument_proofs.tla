-------------------------- MODULE TagDocument_proofs --------------------------
(***************************************************************************)
(* Write writes the document of the format, for every entity and buffer:   *)
(* at every step the document is what has been written, followed by what   *)
(* each active call has still to write (DInv).  The format's recursive     *)
(* functions are unfolded first: that they exist is shown by induction.    *)
(***************************************************************************)
EXTENDS TagWriter_proofs

Runs(g, S, b) == g = [s \in SUBSET S |-> IF s = {} THEN << >> ELSE b[First(s)] \o g[s \ {First(s)}]]
LEMMA InOrderIs == ASSUME NEW S, NEW b PROVE InOrder(S, Before, b) = (CHOOSE g : Runs(g, S, b))[S]
BY Zenon DEF InOrder, Runs, First

(* The members in their order: the first, and then those without it. *)
LEMMA EntriesInOrder ==
  ASSUME NEW m \in Map, Keyed(m), NEW b, \A e \in m : b[e] \in Seq(Byte)
  PROVE  /\ InOrder({}, Before, b) = << >>
         /\ \A S \in SUBSET m :
              /\ InOrder(S, Before, b) \in Seq(Byte)
              /\ S # {} => /\ First(S) \in S
                          /\ InOrder(S, Before, b)
                               = Then(b[First(S)], InOrder(S \ {First(S)}, Before, b))
<1> DEFINE W == m
           p == [s \in SUBSET W |-> First(s)]
           Of(R) == CHOOSE g : Runs(g, R, b)
<1>1. Picks(p, W) /\ \A s \in SUBSET W : p[s] = First(s)
  BY FirstIn DEF Picks
<1>2. Parts(p, b, W)
  BY <1>1 DEF Keyed, Parts
<1> HIDE DEF p, W
<1>3. ASSUME NEW R \in SUBSET W PROVE Chain(Of(R), p, b, R) /\ InOrder(R, Before, b) = Of(R)[R]
  <2>1. Parts(p, b, R)
    BY <1>2, FewerParts
  <2>2. PICK g : Built(g, p, b, R)
    BY <2>1, ChainExists, Zenon
  <2>3. \A s \in SUBSET R : p[s] = First(s)
    BY <1>1
  <2>4. \A h : \A s \in SUBSET R :
          Link(h, p, b, s) = IF s = {} THEN << >> ELSE b[First(s)] \o h[s \ {First(s)}]
    BY <2>3, Zenon DEF Link, Then
  <2>5. Runs(g, R, b)
    <3> DEFINE f(s) == IF s = {} THEN << >> ELSE b[First(s)] \o g[s \ {First(s)}]
    <3>1. \A s \in SUBSET R : Link(g, p, b, s) = f(s)
      BY <2>4
    <3> HIDE DEF f
    <3>2. g = [s \in SUBSET R |-> f(s)]
      BY <2>2, <3>1, Zenon DEF Built
    <3> QED  BY <3>2 DEF f, Runs
  <2>6. Runs(Of(R), R, b)
    BY <2>5, Zenon
  <2> HIDE DEF Of
  <2>7. \A s \in SUBSET R :
          Of(R)[s] = IF s = {} THEN << >> ELSE b[First(s)] \o Of(R)[s \ {First(s)}]
    BY <2>6 DEF Runs
  <2>8. Chain(Of(R), p, b, R)
    BY <2>4, <2>7, Zenon DEF Chain
  <2> QED  BY <2>8, InOrderIs DEF Of
<1> HIDE DEF Of
<1>4. InOrder({}, Before, b) = << >>
  <2>1. {} \in SUBSET W /\ {} \in SUBSET {}
    OBVIOUS
  <2>2. Of({})[{}] = << >>
    BY <1>3, <2>1 DEF Chain, Link
  <2> QED  BY <1>3, <2>1, <2>2
<1>5. ASSUME NEW S \in SUBSET W
      PROVE  /\ InOrder(S, Before, b) \in Seq(Byte)
             /\ S # {} => /\ First(S) \in S
                         /\ InOrder(S, Before, b)
                              = Then(b[First(S)], InOrder(S \ {First(S)}, Before, b))
  <2> DEFINE R == S \ {First(S)}
  <2>1. R \in SUBSET W /\ R \in SUBSET S /\ S \in SUBSET S /\ R \in SUBSET R
    OBVIOUS
  <2>2. Parts(p, b, S)
    BY <1>2, FewerParts
  <2> HIDE DEF R
  <2>3. /\ Chain(Of(S), p, b, S) /\ InOrder(S, Before, b) = Of(S)[S]
        /\ Chain(Of(R), p, b, R) /\ InOrder(R, Before, b) = Of(R)[R]
    BY <1>3, <2>1
  <2>4. Of(S)[S] \in Seq(Byte)
    BY <2>1, <2>2, <2>3, ChainType
  <2>5. Of(S)[R] = Of(R)[R]
    <3>1. Chain(Of(S), p, b, S) /\ Chain(Of(R), p, b, R)
      BY <2>3
    <3>2. \A s \in SUBSET R : Of(S)[s] = Of(R)[s]
      BY ONLY <2>1, <2>2, <3>1, ChainsAgree
    <3> QED  BY <2>1, <3>2, Zenon
  <2>6. p[S] = First(S) /\ (S # {} => p[S] \in S)
    BY <1>1 DEF Picks
  <2>7. S # {} => Of(S)[S] = Then(b[First(S)], Of(S)[R])
    BY <2>1, <2>3, <2>6, Zenon DEF Chain, Link, R
  <2> QED  BY <2>3, <2>4, <2>5, <2>6, <2>7 DEF R
<1> QED  BY <1>4, <1>5 DEF W

-----------------------------------------------------------------------------
(* What the format writes of a tag                                          *)

Lead(h, e)        == <<h[e[2]].type>> \o U16(Len(e[1])) \o e[1]
Names(h, z, m)    == [e \in m |-> Lead(h, e) \o z[e[2]]]
KidBytes(z, kids) == [j \in DOMAIN kids |-> z[kids[j]]]

Pays(z, h) == z = [id \in 1 .. Len(h) |-> PayloadIn(h, z, h[id], Before)]

LEMMA PayloadIs == Payload(Before) = CHOOSE z : Pays(z, heap)
BY Zenon DEF Payload, Pays, Ids

LEMMA StoredWhole == ASSUME NEW n \in Nat, n <= UINT16_MAX PROVE Stored16(n) = U16(n)
<1>1. \A k, l \in Nat : k < l => k % l = k
  OBVIOUS
<1>2. UINT16_MAX + 1 \in Nat /\ n < UINT16_MAX + 1
  BY UINT16Assumption
<1>3. n % (UINT16_MAX + 1) = n
  BY <1>1, <1>2
<1> QED  BY <1>3, Zenon DEF Stored16

LEMMA LeadBytes ==
  ASSUME Entity(heap, root), NEW m \in Map, NEW e \in m, e[2] \in 1 .. Len(heap)
  PROVE  Lead(heap, e) \in Seq(Byte) /\ (Len(e[1]) <= UINT16_MAX => Header(e) = Lead(heap, e))
<1>1. e[1] \in Seq(Byte) /\ Len(e[1]) \in Nat
  BY HeaderSizes DEF Name
<1> DEFINE a == <<heap[e[2]].type>>
           b == U16(Len(e[1]))
           c == e[1]
<1>2. a \in Seq(Byte)
  <2>1. heap[e[2]].type \in TagTypes
    BY EntityTag
  <2> QED  BY <2>1 DEF TagTypes, kTagByte, kTagIntArray, Byte
<1>3. b \in Seq(Byte) /\ c \in Seq(Byte)
  BY <1>1, U16Bytes
<1>4. Lead(heap, e) = (a \o b) \o c
  BY DEF Lead
<1>5. ASSUME Len(e[1]) <= UINT16_MAX PROVE Stored16(Len(e[1])) = b
  BY <1>1, <1>5, StoredWhole
<1>6. ASSUME Len(e[1]) <= UINT16_MAX PROVE Header(e) = Lead(heap, e)
  BY <1>5, <1>6, Zenon DEF Header, Lead
<1> HIDE DEF a, b, c
<1>7. a \o b \in Seq(Byte)
  BY <1>2, <1>3, Joined, Zenon
<1>8. (a \o b) \o c \in Seq(Byte)
  BY <1>3, <1>7, Joined, Zenon
<1> QED  BY <1>4, <1>6, <1>8

LEMMA NamedBytes ==
  ASSUME Entity(heap, root), NEW m \in Map, NEW e \in m, e[2] \in 1 .. Len(heap),
         NEW z, z[e[2]] \in Seq(Byte)
  PROVE  Then(Lead(heap, e), z[e[2]]) \in Seq(Byte)
BY LeadBytes, ThenType

LEMMA PayloadByType ==
  ASSUME NEW h, NEW z, NEW tag
  PROVE  /\ tag.type \in ScalarTypes => PayloadIn(h, z, tag, Before) = tag.data
         /\ tag.type \in ArrayTypes  =>
              PayloadIn(h, z, tag, Before)
                = Then(U32(Len(tag.data) \div ElementSize(tag.type)), tag.data)
         /\ tag.type = kTagString    => PayloadIn(h, z, tag, Before) = Then(U16(Len(tag.data)), tag.data)
         /\ tag.type = kTagList      =>
              PayloadIn(h, z, tag, Before) =
                IF tag.ctype = kTagEnd THEN Then(<<kTagEnd>>, U32(1))
                ELSE Then(Then(<<tag.ctype>>, U32(Len(tag.kids))),
                          InOrder(DOMAIN tag.kids, ByIndex, KidBytes(z, tag.kids)))
         /\ tag.type = kTagCompound  =>
              PayloadIn(h, z, tag, Before)
                = Then(InOrder(tag.map, Before, Names(h, z, tag.map)), <<kTagEnd>>)
<1>1. /\ tag.type \in ScalarTypes => /\ tag.type \notin ArrayTypes
                                   /\ tag.type \notin {kTagString, kTagList, kTagCompound}
      /\ tag.type \in ArrayTypes => tag.type \notin {kTagString, kTagList, kTagCompound}
      /\ kTagString \notin {kTagList, kTagCompound} /\ kTagList # kTagCompound
  BY DEF ScalarTypes, ArrayTypes, kTagByte, kTagDouble, kTagByteArray, kTagIntArray,
     kTagString, kTagList, kTagCompound
<1>2. tag.type \in ScalarTypes => PayloadIn(h, z, tag, Before) = tag.data
  BY <1>1, Zenon DEF PayloadIn
<1>3. tag.type \in ArrayTypes =>
        PayloadIn(h, z, tag, Before) = Then(U32(Len(tag.data) \div ElementSize(tag.type)), tag.data)
  BY <1>1, Zenon DEF PayloadIn, Then
<1>4. tag.type = kTagString => PayloadIn(h, z, tag, Before) = Then(U16(Len(tag.data)), tag.data)
  BY <1>1, Zenon DEF PayloadIn, Then
<1>5. tag.type = kTagList =>
        PayloadIn(h, z, tag, Before) =
          IF tag.ctype = kTagEnd THEN Then(<<kTagEnd>>, U32(1))
          ELSE Then(Then(<<tag.ctype>>, U32(Len(tag.kids))),
                    InOrder(DOMAIN tag.kids, ByIndex, KidBytes(z, tag.kids)))
  BY <1>1, Zenon DEF PayloadIn, Then, KidsInOrder, KidBytes
<1>6. tag.type = kTagCompound =>
        PayloadIn(h, z, tag, Before)
          = Then(InOrder(tag.map, Before, Names(h, z, tag.map)), <<kTagEnd>>)
  BY <1>1, Zenon DEF PayloadIn, Then, NamedInOrder, Names, Named, Lead
<1> QED  BY <1>2, <1>3, <1>4, <1>5, <1>6

LEMMA PayloadType ==
  ASSUME Entity(heap, root), NEW id \in 1 .. Len(heap),
         NEW z, \A k \in id + 1 .. Len(heap) : z[k] \in Seq(Byte)
  PROVE  PayloadIn(heap, z, heap[id], Before) \in Seq(Byte)
<1> DEFINE tag == heap[id]
           entries == Names(heap, z, tag.map)
           elements == KidBytes(z, tag.kids)
<1>1. /\ tag.type \in TagTypes /\ tag.data \in Seq(Byte) /\ Len(tag.data) \in Nat
      /\ tag.ctype \in Byte /\ Len(tag.kids) \in Nat /\ DOMAIN tag.kids = 1 .. Len(tag.kids)
      /\ tag.kids \in Seq(Nat) /\ tag.map \in Map /\ Keyed(tag.map)
  BY EntityTag DEF kTagEnd, kTagIntArray, Byte
<1>2. \A e \in tag.map : e[2] \in 1 .. Len(heap) /\ z[e[2]] \in Seq(Byte)
  BY EntityTag
<1>3. \A j \in 1 .. Len(tag.kids) : z[tag.kids[j]] \in Seq(Byte)
  BY EntityTag
<1> HIDE DEF tag
<1>4. \A e \in tag.map : entries[e] \in Seq(Byte)
  BY <1>1, <1>2, NamedBytes DEF Names, Then
<1>5. \A j \in 1 .. Len(tag.kids) : elements[j] \in Seq(Byte)
  BY <1>1, <1>3 DEF KidBytes
<1> HIDE DEF entries, elements
<1>6. InOrder(tag.map, Before, entries) \in Seq(Byte)
  <2>1. tag.map \in SUBSET tag.map
    OBVIOUS
  <2> QED  BY <1>1, <1>4, <2>1, EntriesInOrder
<1>7. InOrder(1 .. Len(tag.kids), ByIndex, elements) \in Seq(Byte)
  <2> DEFINE n == Len(tag.kids)
  <2>1. n \in Nat /\ 1 .. n \in SUBSET (1 .. n) /\ \A j \in 1 .. n : elements[j] \in Seq(Byte)
    BY <1>1, <1>5
  <2> HIDE DEF n
  <2>2. InOrder(1 .. n, ByIndex, elements) \in Seq(Byte)
    BY <2>1, ElementsInOrder
  <2> QED  BY <2>2 DEF n
<1>8. /\ U32(1) \in Seq(Byte) /\ U32(Len(tag.kids)) \in Seq(Byte) /\ U16(Len(tag.data)) \in Seq(Byte)
      /\ <<kTagEnd>> \in Seq(Byte) /\ <<tag.ctype>> \in Seq(Byte)
  BY <1>1, U32Bytes, U16Bytes DEF kTagEnd, Byte
<1>9. tag.type \in ArrayTypes => U32(Len(tag.data) \div ElementSize(tag.type)) \in Seq(Byte)
  <2>1. ElementSize(tag.type) \in {1, 4}
    BY DEF ElementSize
  <2>2. Len(tag.data) \div ElementSize(tag.type) \in Nat
    BY <1>1, <2>1
  <2> QED  BY <2>2, U32Bytes
<1>10. tag.type \in ScalarTypes \/ tag.type \in ArrayTypes \/ tag.type = kTagString
        \/ tag.type = kTagList \/ tag.type = kTagCompound
  BY <1>1 DEF TagTypes, ScalarTypes, ArrayTypes, kTagByte, kTagDouble, kTagByteArray,
     kTagIntArray, kTagString, kTagList, kTagCompound
<1>11. CASE tag.type \in ScalarTypes
  BY <1>1, <1>11, PayloadByType DEF tag
<1>12. CASE tag.type \in ArrayTypes
  <2>1. Then(U32(Len(tag.data) \div ElementSize(tag.type)), tag.data) \in Seq(Byte)
    BY <1>1, <1>9, <1>12, ThenType
  <2> QED  BY <1>12, <2>1, PayloadByType DEF tag
<1>13. CASE tag.type = kTagString
  <2>1. Then(U16(Len(tag.data)), tag.data) \in Seq(Byte)
    BY <1>1, <1>8, ThenType
  <2> QED  BY <1>13, <2>1, PayloadByType DEF tag
<1>14. CASE tag.type = kTagList
  <2>1. Then(<<kTagEnd>>, U32(1)) \in Seq(Byte)
    BY <1>8, ThenType
  <2>2. Then(<<tag.ctype>>, U32(Len(tag.kids))) \in Seq(Byte)
    BY <1>8, ThenType
  <2>3. Then(Then(<<tag.ctype>>, U32(Len(tag.kids))), InOrder(DOMAIN tag.kids, ByIndex, elements))
          \in Seq(Byte)
    BY <1>1, <1>7, <2>2, ThenType
  <2>4. PayloadIn(heap, z, tag, Before) =
          IF tag.ctype = kTagEnd THEN Then(<<kTagEnd>>, U32(1))
          ELSE Then(Then(<<tag.ctype>>, U32(Len(tag.kids))), InOrder(DOMAIN tag.kids, ByIndex, elements))
    BY <1>14, PayloadByType, SMT DEF elements
  <2> QED  BY <2>1, <2>3, <2>4, Zenon DEF tag
<1>15. CASE tag.type = kTagCompound
  <2>1. Then(InOrder(tag.map, Before, entries), <<kTagEnd>>) \in Seq(Byte)
    BY <1>6, <1>8, ThenType
  <2> QED  BY <1>15, <2>1, PayloadByType, Zenon DEF tag, entries
<1> QED  BY <1>10, <1>11, <1>12, <1>13, <1>14, <1>15

LEMMA PayloadSame ==
  ASSUME Entity(heap, root), NEW id \in 1 .. Len(heap),
         NEW y, NEW z, \A k \in id + 1 .. Len(heap) : y[k] = z[k]
  PROVE  PayloadIn(heap, y, heap[id], Before) = PayloadIn(heap, z, heap[id], Before)
<1>1. KidBytes(y, heap[id].kids) = KidBytes(z, heap[id].kids)
  <2>1. DOMAIN heap[id].kids = 1 .. Len(heap[id].kids)
    BY EntityTag
  <2>2. \A j \in DOMAIN heap[id].kids : y[heap[id].kids[j]] = z[heap[id].kids[j]]
    BY <2>1, EntityTag
  <2> QED  BY <2>2 DEF KidBytes
<1>2. Names(heap, y, heap[id].map) = Names(heap, z, heap[id].map)
  <2>1. \A e \in heap[id].map : y[e[2]] = z[e[2]]
    BY EntityTag
  <2> QED  BY <2>1, Zenon DEF Names
<1>3. /\ KidsInOrder(heap[id].kids, y) = KidsInOrder(heap[id].kids, z)
      /\ NamedInOrder(heap, heap[id].map, Before, y) = NamedInOrder(heap, heap[id].map, Before, z)
  BY <1>1, <1>2, Zenon DEF KidsInOrder, NamedInOrder, KidBytes, Names, Named, Lead
<1> QED  BY <1>3, Zenon DEF PayloadIn

LEMMA PaysExist == ASSUME Entity(heap, root) PROVE \E z : Pays(z, heap)
<1> DEFINE n == Len(heap)
           In(z, id) == PayloadIn(heap, z, heap[id], Before)
           Upto(m, z) == \A id \in 1 .. n : id > n - m => z[id] = In(z, id)
           T == {m \in Nat : \E z \in [1 .. n -> Seq(Byte)] : Upto(m, z)}
<1>1. n \in Nat
  BY DEF Entity
<1>2. \A id \in 1 .. n : \A z : (\A k \in id + 1 .. n : z[k] \in Seq(Byte)) => In(z, id) \in Seq(Byte)
  BY PayloadType
<1>3. \A id \in 1 .. n : \A y, z : (\A k \in id + 1 .. n : y[k] = z[k]) => In(y, id) = In(z, id)
  BY PayloadSame
<1>4. \A z : (z = [id \in 1 .. n |-> In(z, id)]) => Pays(z, heap)
  BY Zenon DEF Pays
<1> HIDE DEF In
<1>5. 0 \in T
  <2> DEFINE z == [id \in 1 .. n |-> << >>]
  <2>1. z \in [1 .. n -> Seq(Byte)]
    <3>1. << >> \in Seq(Byte)
      OBVIOUS
    <3> QED  BY <3>1, Zenon
  <2>2. \A id \in 1 .. n : ~(id > n - 0)
    BY <1>1
  <2>3. Upto(0, z)
    BY <2>2
  <2> HIDE DEF Upto, z
  <2> QED  BY <2>1, <2>3
<1>6. ASSUME NEW m \in Nat, m \in T PROVE m + 1 \in T
  <2>1. PICK z \in [1 .. n -> Seq(Byte)] : Upto(m, z)
    BY <1>6
  <2> DEFINE y == [id \in 1 .. n |-> In(z, id)]
  <2>2. \A id \in 1 .. n : y[id] = In(z, id) /\ y[id] \in Seq(Byte)
    <3> TAKE id \in 1 .. n
    <3>1. \A k \in id + 1 .. n : z[k] \in Seq(Byte)
      BY <1>1
    <3>2. In(z, id) \in Seq(Byte)
      BY <1>2, <3>1
    <3> QED  BY <3>2
  <2>3. y \in [1 .. n -> Seq(Byte)]
    BY <2>2
  <2> HIDE DEF y
  <2>4. ASSUME NEW id \in 1 .. n, id > n - (m + 1) PROVE y[id] = In(y, id)
    <3>1. \A k \in id + 1 .. n : k \in 1 .. n /\ k > n - m
      BY <1>1, <2>4
    <3>2. \A k \in id + 1 .. n : y[k] = z[k]
      BY <2>1, <2>2, <3>1
    <3>3. In(y, id) = In(z, id)
      BY <1>3, <3>2
    <3> QED  BY <2>2, <3>3
  <2>5. Upto(m + 1, y)
    BY <2>4
  <2> HIDE DEF Upto
  <2> QED  BY <2>3, <2>5
<1> HIDE DEF T
<1>7. n \in T
  BY <1>1, <1>5, <1>6, Naturals
<1>8. PICK z \in [1 .. n -> Seq(Byte)] : Upto(n, z)
  BY <1>7 DEF T
<1>9. \A id \in 1 .. n : z[id] = In(z, id)
  <2>1. \A id \in 1 .. n : id > n - n
    BY <1>1
  <2> QED  BY <1>8, <2>1
<1>10. z = [id \in 1 .. n |-> In(z, id)]
  BY <1>9
<1> QED  BY <1>4, <1>10

Pay == Payload(Before)

LEMMA PaysOfAll ==
  ASSUME Entity(heap, root)
  PROVE  \A id \in 1 .. Len(heap) : Pay[id] = PayloadIn(heap, Pay, heap[id], Before) /\ Pay[id] \in Seq(Byte)
<1> DEFINE n == Len(heap)
           In(id) == PayloadIn(heap, Pay, heap[id], Before)
           T == {m \in Nat : \A id \in 1 .. n : id > n - m => Pay[id] \in Seq(Byte)}
<1>1. n \in Nat
  BY DEF Entity
<1>2. Pays(Pay, heap)
  BY PaysExist, PayloadIs, Zenon DEF Pay
<1>3. \A id \in 1 .. n : Pay[id] = In(id)
  BY <1>2, Zenon DEF Pays
<1>4. \A id \in 1 .. n : (\A k \in id + 1 .. n : Pay[k] \in Seq(Byte)) => In(id) \in Seq(Byte)
  BY PayloadType
<1> HIDE DEF In
<1>5. 0 \in T
  BY <1>1
<1>6. ASSUME NEW m \in Nat, m \in T PROVE m + 1 \in T
  <2> SUFFICES ASSUME NEW id \in 1 .. n, id > n - (m + 1) PROVE Pay[id] \in Seq(Byte)
    OBVIOUS
  <2>1. \A k \in id + 1 .. n : k \in 1 .. n /\ k > n - m
    BY <1>1
  <2>2. \A k \in id + 1 .. n : Pay[k] \in Seq(Byte)
    BY <1>6, <2>1
  <2> QED  BY <1>3, <1>4, <2>2
<1> HIDE DEF T
<1>7. n \in T
  BY <1>1, <1>5, <1>6, Naturals
<1>8. \A id \in 1 .. n : id > n - n
  BY <1>1
<1> QED  BY <1>3, <1>7, <1>8 DEF T, In

-----------------------------------------------------------------------------
(* The tags that the root leads to                                          *)

Reached(L, id) ==
  \/ \E e \in root : e[2] = id
  \/ \E parent \in 1 .. id - 1 : parent \in L /\ id \in Children(parent)

Lives(l) ==
  l = [id \in Ids |-> \/ \E e \in root : e[2] = id
                      \/ \E parent \in 1 .. id - 1 : l[parent] /\ id \in Children(parent)]

LEMMA LiveIs == Live = {id \in Ids : (CHOOSE l : Lives(l))[id]}
BY Zenon DEF Live, Lives

LEMMA LivesExist == ASSUME heap \in Seq(Tag) PROVE \E l : Lives(l)
<1> DEFINE n == Len(heap)
           Upto(k, L) == \A id \in 1 .. n : id <= k => (id \in L <=> Reached(L, id))
           T == {k \in Nat : \E L \in SUBSET (1 .. n) : Upto(k, L)}
<1>1. n \in Nat
  OBVIOUS
<1>2. 0 \in T
  <2>1. Upto(0, {})
    OBVIOUS
  <2> HIDE DEF Upto
  <2> QED  BY <2>1
<1>3. ASSUME NEW k \in Nat, k \in T PROVE k + 1 \in T
  <2>1. PICK L \in SUBSET (1 .. n) : Upto(k, L)
    BY <1>3
  <2> DEFINE M == {id \in 1 .. n : Reached(L, id)}
  <2>2. \A id \in 1 .. n : id <= k => (id \in M <=> id \in L)
    BY <2>1
  <2>3. \A id \in 1 .. n : id \in M <=> Reached(L, id)
    OBVIOUS
  <2>4. ASSUME NEW id \in 1 .. n, id <= k + 1 PROVE id \in M <=> Reached(M, id)
    <3>1. \A parent \in 1 .. id - 1 : parent \in M <=> parent \in L
      BY <1>1, <2>2, <2>4
    <3> HIDE DEF M
    <3>2. Reached(M, id) <=> Reached(L, id)
      BY <3>1, Zenon DEF Reached
    <3> QED  BY <2>3, <3>2
  <2>5. M \in SUBSET (1 .. n)
    OBVIOUS
  <2> HIDE DEF M
  <2>6. Upto(k + 1, M)
    BY <2>4
  <2> HIDE DEF Upto
  <2> QED  BY <2>5, <2>6
<1> HIDE DEF T
<1>4. n \in T
  BY <1>1, <1>2, <1>3, Naturals
<1>5. PICK L \in SUBSET (1 .. n) : Upto(n, L)
  BY <1>4 DEF T
<1>6. \A id \in 1 .. n : id \in L <=> Reached(L, id)
  BY <1>1, <1>5
<1> DEFINE l == [id \in Ids |-> id \in L]
           In(id) == \/ \E e \in root : e[2] = id
                     \/ \E parent \in 1 .. id - 1 : l[parent] /\ id \in Children(parent)
<1>7. \A id \in Ids : (id \in L) = In(id)
  <2> TAKE id \in Ids
  <2>1. \A parent \in 1 .. id - 1 : parent \in Ids
    BY <1>1 DEF Ids
  <2>2. \A parent \in 1 .. id - 1 : l[parent] = (parent \in L)
    BY <2>1
  <2>3. id \in L <=> Reached(L, id)
    BY <1>6 DEF Ids
  <2> HIDE DEF l
  <2>4. In(id) <=> Reached(L, id)
    BY <2>2, Zenon DEF Reached
  <2>5. (id \in L) <=> In(id)
    BY <2>3, <2>4, Zenon
  <2>6. CASE id \in L
    <3>1. In(id) = TRUE /\ (id \in L) = TRUE
      BY <2>5, <2>6
    <3> QED  BY <3>1
  <2>7. CASE id \notin L
    <3>1. In(id) = FALSE /\ (id \in L) = FALSE
      BY <2>5, <2>7
    <3> QED  BY <3>1
  <2> QED  BY <2>6, <2>7
<1> HIDE DEF In
<1>8. l = [id \in Ids |-> In(id)]
  BY <1>7, Zenon
<1> HIDE DEF l
<1>9. Lives(l)
  BY <1>8, Zenon DEF In, Lives
<1> QED  BY <1>9

(* A tag in the root, or in a tag that the root leads to.                   *)
LEMMA LiveTags ==
  ASSUME Entity(heap, root)
  PROVE  /\ Live \subseteq 1 .. Len(heap)
         /\ \A e \in root : e[2] \in Live
         /\ \A id \in Live : /\ \A j \in 1 .. Len(heap[id].kids) : heap[id].kids[j] \in Live
                             /\ \A e \in heap[id].map : e[2] \in Live
<1> DEFINE l == CHOOSE x : Lives(x)
<1>1. Lives(l)
  BY LivesExist, Zenon DEF Entity
<1>2. Live = {id \in 1 .. Len(heap) : l[id]}
  BY LiveIs DEF Ids
<1> HIDE DEF l
<1>3. \A id \in 1 .. Len(heap) :
        l[id] = (\/ \E e \in root : e[2] = id
                 \/ \E parent \in 1 .. id - 1 : l[parent] /\ id \in Children(parent))
  BY <1>1, Zenon DEF Lives, Ids
<1>4. ASSUME NEW e \in root PROVE e[2] \in Live
  <2>1. e[2] \in 1 .. Len(heap)
    BY DEF Entity
  <2> QED  BY <1>2, <1>3, <2>1, Zenon
<1>5. ASSUME NEW id \in Live, NEW k \in id + 1 .. Len(heap), k \in Children(id) PROVE k \in Live
  <2>1. id \in 1 .. Len(heap) /\ l[id]
    BY <1>2
  <2>2. id \in 1 .. k - 1 /\ k \in 1 .. Len(heap)
    BY <2>1 DEF Entity
  <2>3. l[k]
    BY <1>3, <1>5, <2>1, <2>2, Zenon
  <2> QED  BY <1>2, <2>2, <2>3
<1>6. ASSUME NEW id \in Live
      PROVE  /\ \A j \in 1 .. Len(heap[id].kids) : heap[id].kids[j] \in Live
             /\ \A e \in heap[id].map : e[2] \in Live
  <2>1. id \in 1 .. Len(heap)
    BY <1>2
  <2>2. \A j \in 1 .. Len(heap[id].kids) : /\ heap[id].kids[j] \in id + 1 .. Len(heap)
                                          /\ heap[id].kids[j] \in Children(id)
    BY <2>1, EntityTag DEF Children
  <2>3. \A e \in heap[id].map : e[2] \in id + 1 .. Len(heap) /\ e[2] \in Children(id)
    BY <2>1, EntityTag DEF Children
  <2> QED  BY <1>5, <2>2, <2>3
<1> QED  BY <1>2, <1>4, <1>6

-----------------------------------------------------------------------------
(* What is written goes to the end                                          *)

LEMMA CopiedBehind ==
  ASSUME out \in Seq(Byte), NEW offset, offset = Len(out), NEW bytes \in Seq(Byte)
  PROVE  Copied(offset, bytes) = Then(out, bytes)
<1> DEFINE n == offset + Len(bytes)
           c == Copied(offset, bytes)
           d == Then(out, bytes)
<1>1. Len(out) \in Nat /\ Len(bytes) \in Nat /\ n \in Nat /\ offset \in Nat /\ Len(out) <= n
  OBVIOUS
<1>2. Max({Len(out), n}) = n
  BY <1>1, MaxOfTwo
<1>3. c = [j \in 1 .. n |->
             CASE j > offset /\ j <= n        -> bytes[j - offset]
               [] j > n                       -> out[j]
               [] j <= offset /\ j <= Len(out) -> out[j]
               [] OTHER                       -> Untouched]
  BY <1>2, Zenon DEF Copied
<1>4. c \in Seq(Byte) /\ Len(c) = n
  BY CopiedAtEnd
<1>5. /\ d \in Seq(Byte) /\ Len(d) = n
      /\ \A j \in 1 .. n : d[j] = IF j <= Len(out) THEN out[j] ELSE bytes[j - Len(out)]
  <2>1. d = out \o bytes
    BY DEF Then
  <2> HIDE DEF d
  <2> QED  BY <2>1, ConcatProperties
<1>6. ASSUME NEW j \in 1 .. n PROVE c[j] = d[j]
  <2>1. CASE j > offset
    <3>1. c[j] = bytes[j - offset]
      BY <1>1, <1>3, <2>1
    <3>2. ~(j <= Len(out))
      BY <1>1, <2>1
    <3>3. d[j] = bytes[j - Len(out)]
      BY <1>5, <3>2, Zenon
    <3> QED  BY <3>1, <3>3
  <2>2. CASE ~(j > offset)
    <3>1. ~(j > n) /\ j <= offset /\ j <= Len(out)
      BY <1>1, <2>2
    <3>2. c[j] = out[j]
      BY <1>3, <2>2, <3>1
    <3>3. d[j] = out[j]
      BY <1>5, <3>1, Zenon
    <3> QED  BY <3>2, <3>3
  <2> QED  BY <2>1, <2>2
<1> HIDE DEF c, d, n
<1>7. c = d
  BY <1>4, <1>5, <1>6, SeqEqual
<1> QED  BY <1>7 DEF c, d

LEMMA ThenPrefix ==
  ASSUME NEW a \in Seq(Byte), NEW b \in Seq(Byte)
  PROVE  IsPrefix(a, Then(a, b))
<1> DEFINE d == Then(a, b)
<1>1. /\ d \in Seq(Byte) /\ Len(d) = Len(a) + Len(b) /\ Len(a) \in Nat /\ Len(b) \in Nat
      /\ \A j \in 1 .. Len(a) + Len(b) : d[j] = IF j <= Len(a) THEN a[j] ELSE b[j - Len(a)]
  BY ConcatProperties DEF Then
<1> HIDE DEF d
<1>2. \A j \in 1 .. Len(a) : d[j] = a[j]
  BY <1>1
<1>3. SubSeq(a, 1, Len(a)) = SubSeq(d, 1, Len(a))
  BY <1>1, <1>2
<1>4. Len(a) <= Len(d)
  BY <1>1
<1> QED  BY <1>3, <1>4 DEF IsPrefix, d

-----------------------------------------------------------------------------
(* The bytes that the active calls have still to write: those of the        *)
(* innermost call, and behind them what each caller has left.               *)

MapBytes(h, r, z, s, n) ==
  Then(InOrder(s[n].todo, Before, Names(h, z, Contents(h, r, s, n))),
       IF n = 1 THEN << >> ELSE <<kTagEnd>>)

ListBytes(h, z, s, n) ==
  LET kids == h[s[n].tag].kids IN
  InOrder((s[n].i + (IF n < Len(s) THEN 2 ELSE 1)) .. Len(kids), ByIndex, KidBytes(z, kids))

BytesLeft(h, r, z, s, p, n) ==
  CASE Entered(s, p, n) /\ IsMap(h, s, n)  -> MapBytes(h, r, z, s, n)
    [] Entered(s, p, n) /\ ~IsMap(h, s, n) -> ListBytes(h, z, s, n)
    [] ~Entered(s, p, n) /\ p = "body"     -> z[s[n].tag]
    [] ~Entered(s, p, n) /\ p # "body"     -> << >>

Ahead(rest, h, r, z, s, p) ==
  /\ rest[0] = << >>
  /\ \A n \in 1 .. Len(s) : rest[n] = Then(BytesLeft(h, r, z, s, p, n), rest[n - 1])

(* The document consists of what has been written, and of what is left.     *)
Splits(doc, h, r, z, s, p, o) ==
  \E rest \in [0 .. Len(s) -> Seq(Byte)] :
    Ahead(rest, h, r, z, s, p) /\ doc = Then(o, rest[Len(s)])

LEMMA BytesLeftSame ==
  ASSUME NEW h, NEW r, NEW z, NEW s, NEW t, NEW p, NEW q, NEW n, n < Len(s), n < Len(t),
         t[n] = s[n]
  PROVE  BytesLeft(h, r, z, t, q, n) = BytesLeft(h, r, z, s, p, n)
<1>1. Entered(s, p, n) /\ Entered(t, q, n)
  BY DEF Entered
<1>2. /\ IsMap(h, t, n) <=> IsMap(h, s, n)
      /\ Contents(h, r, t, n) = Contents(h, r, s, n)
  BY Zenon DEF IsMap, Contents
<1>3. MapBytes(h, r, z, t, n) = MapBytes(h, r, z, s, n)
  BY <1>2, Zenon DEF MapBytes
<1>4. ListBytes(h, z, t, n) = ListBytes(h, z, s, n)
  BY Zenon DEF ListBytes
<1> QED  BY <1>1, <1>2, <1>3, <1>4, Zenon DEF BytesLeft

LEMMA LoopBytes ==
  ASSUME NEW h, NEW r, NEW z, NEW s, NEW p, NEW n, Entered(s, p, n)
  PROVE  /\ IsMap(h, s, n) => BytesLeft(h, r, z, s, p, n) = MapBytes(h, r, z, s, n)
         /\ ~IsMap(h, s, n) => BytesLeft(h, r, z, s, p, n) = ListBytes(h, z, s, n)
BY Zenon DEF BytesLeft

LEMMA BodyBytes ==
  ASSUME NEW h, NEW r, NEW z, NEW s, NEW n, n = Len(s)
  PROVE  BytesLeft(h, r, z, s, "body", n) = z[s[n].tag] /\ BytesLeft(h, r, z, s, "return", n) = << >>
<1>1. ~Entered(s, "body", n) /\ ~Entered(s, "return", n)
  BY DEF Entered
<1> QED  BY <1>1, Zenon DEF BytesLeft

(* The innermost call writes `w`. *)
LEMMA SplitsOn ==
  ASSUME NEW doc, NEW h, NEW r, NEW z, NEW s, NEW p, NEW o \in Seq(Byte),
         Splits(doc, h, r, z, s, p, o),
         NEW n \in Nat \ {0}, n = Len(s), NEW t, n = Len(t), NEW q,
         \A m \in 1 .. n - 1 : t[m] = s[m],
         NEW w \in Seq(Byte), NEW left, left = BytesLeft(h, r, z, t, q, n), left \in Seq(Byte),
         BytesLeft(h, r, z, s, p, n) = Then(w, left)
  PROVE  Splits(doc, h, r, z, t, q, Then(o, w))
<1>0. \A m \in 1 .. n - 1 : BytesLeft(h, r, z, t, q, m) = BytesLeft(h, r, z, s, p, m)
  <2> TAKE m \in 1 .. n - 1
  <2>1. m < Len(s) /\ m < Len(t) /\ t[m] = s[m]
    OBVIOUS
  <2> QED  BY ONLY <2>1, BytesLeftSame
<1>1. PICK rest \in [0 .. n -> Seq(Byte)] :
        Ahead(rest, h, r, z, s, p) /\ doc = Then(o, rest[n])
  BY DEF Splits
<1>2. rest[n - 1] \in Seq(Byte) /\ rest[n] = Then(Then(w, left), rest[n - 1])
  <2>1. n \in 1 .. Len(s) /\ n - 1 \in 0 .. n
    OBVIOUS
  <2>2. rest[n] = Then(BytesLeft(h, r, z, s, p, n), rest[n - 1])
    BY <1>1, <2>1, Zenon DEF Ahead
  <2> QED  BY <1>1, <2>1, <2>2
<1> DEFINE next == [rest EXCEPT ![n] = Then(left, rest[n - 1])]
<1>3. Then(left, rest[n - 1]) \in Seq(Byte)
  BY <1>2, ThenType
<1>4. /\ next \in [0 .. n -> Seq(Byte)] /\ next[n] = Then(left, rest[n - 1])
      /\ \A m \in 0 .. n - 1 : next[m] = rest[m]
  BY <1>3
<1> HIDE DEF next
<1>5. ASSUME NEW m \in 1 .. n PROVE next[m] = Then(BytesLeft(h, r, z, t, q, m), next[m - 1])
  <2>1. CASE m = n
    BY <1>4, <2>1, SMTT(30)
  <2>2. CASE m # n
    <3>1. m \in 1 .. n - 1 /\ m \in 0 .. n - 1 /\ m - 1 \in 0 .. n - 1
      BY <2>2
    <3>2. BytesLeft(h, r, z, t, q, m) = BytesLeft(h, r, z, s, p, m)
      BY <1>0, <3>1
    <3>3. rest[m] = Then(BytesLeft(h, r, z, s, p, m), rest[m - 1])
      BY <1>1 DEF Ahead
    <3>4. next[m] = rest[m] /\ next[m - 1] = rest[m - 1]
      BY <1>4, <3>1
    <3> QED  BY <3>2, <3>3, <3>4
  <2> QED  BY <2>1, <2>2
<1>6. next[0] = << >>
  BY <1>1, <1>4 DEF Ahead
<1>7. Ahead(next, h, r, z, t, q)
  BY <1>5, <1>6 DEF Ahead
<1>8. doc = Then(Then(o, w), next[n])
  <2>1. Then(Then(w, left), rest[n - 1]) = Then(w, next[n])
    BY <1>2, <1>4, ThenAgain
  <2>2. next[n] \in Seq(Byte)
    BY <1>3, <1>4
  <2>3. Then(o, Then(w, next[n])) = Then(Then(o, w), next[n])
    BY <2>2, ThenAgain
  <2> QED  BY <1>1, <1>2, <2>1, <2>3
<1> QED  BY <1>4, <1>7, <1>8 DEF Splits

(* The innermost call writes `w`, and then makes a call. *)
LEMMA SplitsPush ==
  ASSUME NEW doc, NEW h, NEW r, NEW z, NEW s, NEW p, NEW o \in Seq(Byte),
         Splits(doc, h, r, z, s, p, o),
         NEW n \in Nat \ {0}, n = Len(s), NEW k, k = n + 1, NEW t, k = Len(t), NEW q,
         \A m \in 1 .. n - 1 : t[m] = s[m],
         NEW w \in Seq(Byte),
         NEW left, left = BytesLeft(h, r, z, t, q, n), left \in Seq(Byte),
         NEW new, new = BytesLeft(h, r, z, t, q, k), new \in Seq(Byte),
         BytesLeft(h, r, z, s, p, n) = Then(w, Then(new, left))
  PROVE  Splits(doc, h, r, z, t, q, Then(o, w))
<1>0. \A m \in 1 .. n - 1 : BytesLeft(h, r, z, t, q, m) = BytesLeft(h, r, z, s, p, m)
  <2> TAKE m \in 1 .. n - 1
  <2>1. m < Len(s) /\ m < Len(t) /\ t[m] = s[m]
    OBVIOUS
  <2> QED  BY <2>1, BytesLeftSame
<1>1. PICK rest \in [0 .. n -> Seq(Byte)] :
        Ahead(rest, h, r, z, s, p) /\ doc = Then(o, rest[n])
  BY DEF Splits
<1>2. rest[n - 1] \in Seq(Byte) /\ rest[n] = Then(Then(w, Then(new, left)), rest[n - 1])
  <2>1. n \in 1 .. Len(s) /\ n - 1 \in 0 .. n
    OBVIOUS
  <2>2. rest[n] = Then(BytesLeft(h, r, z, s, p, n), rest[n - 1])
    BY <1>1, <2>1, Zenon DEF Ahead
  <2> QED  BY <1>1, <2>1, <2>2
<1> DEFINE a == Then(left, rest[n - 1])
           b == Then(new, a)
           next == [m \in 0 .. k |-> IF m = k THEN b ELSE IF m = n THEN a ELSE rest[m]]
<1>3. a \in Seq(Byte) /\ b \in Seq(Byte)
  <2>1. a \in Seq(Byte)
    BY <1>2, ThenType
  <2> HIDE DEF a
  <2>2. b \in Seq(Byte)
    BY <2>1, ThenType
  <2> QED  BY <2>1, <2>2
<1>4. b = Then(new, Then(left, rest[n - 1]))
  OBVIOUS
<1> HIDE DEF b
<1>5. a = Then(left, rest[n - 1])
  OBVIOUS
<1> HIDE DEF a
<1>6. /\ next \in [0 .. k -> Seq(Byte)] /\ next[k] = b /\ next[n] = a
      /\ \A m \in 0 .. n - 1 : next[m] = rest[m]
  BY <1>3
<1> HIDE DEF next
<1>7. ASSUME NEW m \in 1 .. k PROVE next[m] = Then(BytesLeft(h, r, z, t, q, m), next[m - 1])
  <2>0. k - 1 = n /\ n - 1 \in 0 .. n - 1
    OBVIOUS
  <2>1. CASE m = k
    <3>1. next[m] = Then(new, a) /\ next[m - 1] = a
      BY <1>4, <1>5, <1>6, <2>0, <2>1, Zenon
    <3> QED  BY <2>1, <3>1, Zenon
  <2>2. CASE m = n
    <3>1. next[m] = Then(left, rest[n - 1]) /\ next[m - 1] = rest[n - 1]
      BY <1>5, <1>6, <2>0, <2>2, Zenon
    <3> QED  BY <2>2, <3>1, Zenon
  <2>3. CASE m # n /\ m # k
    <3>1. m \in 1 .. n - 1 /\ m \in 0 .. n - 1 /\ m - 1 \in 0 .. n - 1
      BY <2>3
    <3>2. BytesLeft(h, r, z, t, q, m) = BytesLeft(h, r, z, s, p, m)
      BY <1>0, <3>1
    <3>3. rest[m] = Then(BytesLeft(h, r, z, s, p, m), rest[m - 1])
      BY <1>1, <3>1 DEF Ahead
    <3>4. next[m] = rest[m] /\ next[m - 1] = rest[m - 1]
      BY <1>6, <3>1
    <3> QED  BY <3>2, <3>3, <3>4
  <2> QED  BY <2>1, <2>2, <2>3
<1>8. next[0] = << >>
  <2>1. 0 \in 0 .. n - 1
    OBVIOUS
  <2> QED  BY <1>1, <1>6, <2>1, Zenon DEF Ahead
<1>9. Ahead(next, h, r, z, t, q)
  BY <1>7, <1>8 DEF Ahead
<1>10. doc = Then(Then(o, w), next[k])
  <2> DEFINE x == rest[n - 1]
  <2>0. x \in Seq(Byte) /\ Then(new, left) \in Seq(Byte)
    BY <1>2, ThenType
  <2> HIDE DEF x
  <2>1. Then(Then(w, Then(new, left)), x) = Then(w, Then(Then(new, left), x))
    BY <2>0, ThenAgain
  <2>2. Then(Then(new, left), x) = Then(new, Then(left, x))
    BY <2>0, ThenAgain
  <2>3. Then(o, Then(w, b)) = Then(Then(o, w), b)
    BY <1>3, ThenAgain
  <2> QED  BY <1>1, <1>2, <1>4, <1>6, <2>1, <2>2, <2>3 DEF x
<1> QED  BY <1>6, <1>9, <1>10 DEF Splits

(* The innermost call is over, and its caller goes on. *)
LEMMA SplitsPop ==
  ASSUME NEW doc, NEW h, NEW r, NEW z, NEW s, NEW p, NEW o,
         Splits(doc, h, r, z, s, p, o),
         NEW n \in Nat \ {0}, NEW k, k = n + 1, k = Len(s), NEW t, n = Len(t), NEW q,
         \A m \in 1 .. n - 1 : t[m] = s[m],
         BytesLeft(h, r, z, s, p, k) = << >>,
         BytesLeft(h, r, z, t, q, n) = BytesLeft(h, r, z, s, p, n)
  PROVE  Splits(doc, h, r, z, t, q, o)
<1>1. PICK rest \in [0 .. k -> Seq(Byte)] :
        Ahead(rest, h, r, z, s, p) /\ doc = Then(o, rest[k])
  BY DEF Splits
<1> DEFINE next == [m \in 0 .. n |-> rest[m]]
<1>2. next \in [0 .. n -> Seq(Byte)] /\ \A m \in 0 .. n : next[m] = rest[m]
  OBVIOUS
<1> HIDE DEF next
<1>3. rest[k] = next[n]
  <2>1. rest[k] = Then(<< >>, rest[n]) /\ rest[n] \in Seq(Byte)
    BY <1>1 DEF Ahead
  <2> QED  BY <1>2, <2>1, ThenNothing
<1>4. ASSUME NEW m \in 1 .. n PROVE next[m] = Then(BytesLeft(h, r, z, t, q, m), next[m - 1])
  <2>1. rest[m] = Then(BytesLeft(h, r, z, s, p, m), rest[m - 1])
    BY <1>1 DEF Ahead
  <2>2. next[m] = rest[m] /\ next[m - 1] = rest[m - 1]
    BY <1>2
  <2>3. BytesLeft(h, r, z, t, q, m) = BytesLeft(h, r, z, s, p, m)
    <3>1. CASE m = n
      BY <3>1
    <3>2. CASE m # n
      <4>1. m < Len(s) /\ m < Len(t) /\ t[m] = s[m]
        BY <3>2
      <4> QED  BY <4>1, BytesLeftSame
    <3> QED  BY <3>1, <3>2
  <2> QED  BY <2>1, <2>2, <2>3
<1>5. next[0] = << >>
  BY <1>1, <1>2 DEF Ahead
<1>6. Ahead(next, h, r, z, t, q)
  BY <1>4, <1>5 DEF Ahead
<1> QED  BY <1>1, <1>2, <1>3, <1>6 DEF Splits

(* What has been written is the front of the document. *)
LEMMA SplitsFront ==
  ASSUME NEW doc, NEW h, NEW r, NEW z, NEW s, NEW p, NEW o, Len(s) \in Nat \ {0},
         Splits(doc, h, r, z, s, p, o), NEW left, left = BytesLeft(h, r, z, s, p, Len(s))
  PROVE  \E x \in Seq(Byte) : doc = Then(o, Then(left, x))
<1> DEFINE n == Len(s)
<1>1. PICK rest \in [0 .. n -> Seq(Byte)] :
        Ahead(rest, h, r, z, s, p) /\ doc = Then(o, rest[n])
  BY DEF Splits
<1>2. rest[n - 1] \in Seq(Byte) /\ rest[n] = Then(left, rest[n - 1])
  BY <1>1 DEF Ahead
<1> QED  BY <1>1, <1>2

-----------------------------------------------------------------------------
(* The invariant.  What is granted is what the property is stated under: no *)
(* length is cut to 16 bits, and no list is empty.                          *)

Doc     == Document(Before)
Granted == Storable /\ NoEmptyLists
Failing == pc = "return" /\ ret = Error

StackLives(s, live) == \A n \in 2 .. Len(s) : s[n].tag \in live

DInv ==
  /\ IInv
  /\ StackLives(stack, Live)
  /\ Granted =>
       /\ pc # "done" /\ ~Failing => Splits(Doc, heap, root, Pay, stack, pc, out)
       /\ \E x \in Seq(Byte) : Doc = Then(out, x)
       /\ result = "written" => out = Doc

LEMMA DocIs == Doc = InOrder(root, Before, Names(heap, Pay, root))
BY Zenon DEF Doc, Document, NamedInOrder, Names, Named, Lead, Pay

LEMMA DocKept ==
  ASSUME heap' = heap, root' = root
  PROVE  Doc' = Doc /\ Pay' = Pay /\ Live' = Live /\ Granted' = Granted
<1>1. Pay' = Pay
  BY Zenon DEF Pay, Payload, Ids
<1>2. Live' = Live
  BY SMT DEF Live, Ids, Children
<1>3. Doc' = Doc
  <2>1. Payload(Before)' = Payload(Before)
    BY <1>1 DEF Pay
  <2> QED  BY <2>1, Zenon DEF Doc, Document
<1>4. Granted' = Granted
  <2>1. Lengths' = Lengths
    BY <1>2, SMT DEF Lengths
  <2>2. NoEmptyLists' = NoEmptyLists
    BY <1>2, SMT DEF NoEmptyLists, IsList
  <2>3. Storable' = Storable
    BY <2>1, Zenon DEF Storable
  <2> QED  BY <2>2, <2>3, Zenon DEF Granted
<1> QED  BY <1>1, <1>2, <1>3, <1>4

LEMMA DocType == ASSUME Entity(heap, root) PROVE Doc \in Seq(Byte)
<1> DEFINE names == Names(heap, Pay, root)
<1>1. root \in Map /\ Keyed(root) /\ root \in SUBSET root /\ \A e \in root : e[2] \in 1 .. Len(heap)
  BY DEF Entity
<1>2. \A e \in root : names[e] \in Seq(Byte)
  <2>1. \A e \in root : Then(Lead(heap, e), Pay[e[2]]) \in Seq(Byte)
    BY <1>1, NamedBytes, PaysOfAll
  <2> QED  BY <2>1 DEF Names, Then
<1> HIDE DEF names
<1>3. InOrder(root, Before, names) \in Seq(Byte)
  BY <1>1, <1>2, EntriesInOrder
<1> QED  BY <1>3, DocIs DEF names

(* What is granted, of the tags that are written. *)
LEMMA GrantedFacts ==
  ASSUME Entity(heap, root), Granted
  PROVE  /\ \A e \in root : Len(e[1]) <= UINT16_MAX
         /\ \A id \in Live :
              /\ \A e \in heap[id].map : Len(e[1]) <= UINT16_MAX
              /\ heap[id].type = kTagString => Len(heap[id].data) <= UINT16_MAX
              /\ heap[id].type = kTagList => heap[id].kids # << >> /\ heap[id].ctype # kTagEnd
<1>1. \A n \in Lengths : n <= UINT16_MAX
  BY DEF Granted, Storable
<1>2. ASSUME NEW e \in root PROVE Len(e[1]) <= UINT16_MAX
  <2>0. e \in (UNION {heap[id].map : id \in Live}) \cup root
    BY Zenon
  <2>1. Len(e[1]) \in Lengths
    BY <2>0, Zenon DEF Lengths
  <2> QED  BY <1>1, <2>1
<1>3. ASSUME NEW id \in Live
      PROVE  /\ \A e \in heap[id].map : Len(e[1]) <= UINT16_MAX
             /\ heap[id].type = kTagString => Len(heap[id].data) <= UINT16_MAX
  <2>1. ASSUME NEW e \in heap[id].map PROVE Len(e[1]) \in Lengths
    BY DEF Lengths
  <2>2. heap[id].type = kTagString => Len(heap[id].data) \in Lengths
    BY DEF Lengths
  <2> QED  BY <1>1, <2>1, <2>2
<1>4. ASSUME NEW id \in Live, heap[id].type = kTagList
      PROVE  heap[id].kids # << >> /\ heap[id].ctype # kTagEnd
  <2>1. id \in 1 .. Len(heap)
    BY LiveTags
  <2>2. heap[id].kids # << >>
    BY <1>4, Zenon DEF Granted, NoEmptyLists, IsList
  <2>3. heap[id].kids \in Seq(Nat)
    BY <2>1, EntityTag
  <2>4. 1 \in 1 .. Len(heap[id].kids)
    BY <2>2, <2>3
  <2>5. /\ heap[id].kids[1] \in 1 .. Len(heap)
        /\ heap[heap[id].kids[1]].type = heap[id].ctype
    <3>1. heap[id].kids[1] \in id + 1 .. Len(heap) /\ heap[heap[id].kids[1]].type = heap[id].ctype
      BY <2>1, <2>4, Zenon DEF Entity
    <3> QED  BY <2>1, <3>1
  <2>6. heap[heap[id].kids[1]].type \in TagTypes
    BY <2>5, EntityTag
  <2>7. kTagEnd \notin TagTypes
    BY DEF kTagEnd, TagTypes, kTagByte, kTagIntArray
  <2> QED  BY <2>2, <2>5, <2>6, <2>7
<1> QED  BY <1>2, <1>3, <1>4

LEMMA StepSplits ==
  ASSUME DInv, IInv', pc # "done", heap' = heap, root' = root, result' = result, pc' # "done",
         StackLives(stack', Live),
         Granted /\ ~Failing' => Splits(Doc, heap, root, Pay, stack', pc', out'),
         Granted /\ Failing'  => \E x \in Seq(Byte) : Doc = Then(out', x)
  PROVE  DInv'
<1>1. Doc' = Doc /\ Pay' = Pay /\ Live' = Live /\ Granted' = Granted
  BY DocKept
<1>2. result = "none"
  BY RunningFacts DEF DInv
<1>3. ASSUME Granted, ~Failing' PROVE \E x \in Seq(Byte) : Doc = Then(out', x)
  <2>1. PICK rest \in [0 .. Len(stack') -> Seq(Byte)] : Doc = Then(out', rest[Len(stack')])
    BY <1>3 DEF Splits
  <2>2. Len(stack') \in Nat
    BY DEF IInv, TypeOK
  <2>3. rest[Len(stack')] \in Seq(Byte)
    BY <2>2
  <2> QED  BY <2>1, <2>3
<1>4. Granted' =>
        /\ (pc # "done" /\ ~Failing => Splits(Doc, heap, root, Pay, stack, pc, out))'
        /\ (\E x \in Seq(Byte) : Doc = Then(out, x))'
        /\ (result = "written" => out = Doc)'
  BY <1>1, <1>2, <1>3
<1>5. StackLives(stack, Live)'
  BY <1>1
<1> QED  BY <1>4, <1>5, Zenon DEF DInv

(* A tag that is being written. *)
LEMMA PayFacts ==
  ASSUME DInv, pc # "done", Depth > 1
  PROVE  /\ Top.tag \in 1 .. Len(heap) /\ Top.tag \in Live
         /\ Pay[Top.tag] = PayloadIn(heap, Pay, Cur, Before) /\ Pay[Top.tag] \in Seq(Byte)
         /\ out \in Seq(Byte) /\ Depth \in Nat \ {0} /\ Depth = Len(stack)
         /\ \A id \in 1 .. Len(heap) : Pay[id] \in Seq(Byte)
         /\ Entity(heap, root) /\ Top = stack[Depth] /\ Cur = heap[Top.tag]
<1>1. /\ Entity(heap, root) /\ Depth \in Nat \ {0} /\ Depth = Len(stack) /\ Top = stack[Depth]
      /\ out \in Seq(Byte)
  BY RunningFacts DEF DInv
<1>2. Top.tag \in 1 .. Len(heap) /\ Cur = heap[Top.tag]
  BY TagFacts DEF DInv
<1>3. Depth \in 2 .. Len(stack)
  BY <1>1
<1>4. Top.tag \in Live
  BY <1>1, <1>3 DEF DInv, StackLives
<1> QED  BY <1>1, <1>2, <1>4, PaysOfAll

LEMMA ReturnSplits ==
  ASSUME DInv, IInv', pc \in {"body", "loop"}, Depth > 1, Unchanged,
         NEW v \in Nat, Return(v), NEW w \in Seq(Byte), out' = Then(out, w),
         Granted => BytesLeft(heap, root, Pay, stack, pc, Depth) = w
  PROVE  DInv'
<1>1. /\ pc # "done" /\ pc' = "return" /\ ret' = v /\ stack' = stack /\ result' = result
      /\ heap' = heap /\ root' = root /\ v # -1
  BY DEF Return, Unchanged
<1>2. out \in Seq(Byte) /\ Depth \in Nat \ {0} /\ Depth = Len(stack)
  BY <1>1, PayFacts
<1>3. StackLives(stack', Live)
  BY <1>1 DEF DInv
<1>4. ~Failing /\ ~Failing'
  BY <1>1, Zenon DEF Failing, Error
<1>5. ASSUME Granted PROVE Splits(Doc, heap, root, Pay, stack', pc', out')
  <2>1. Splits(Doc, heap, root, Pay, stack, pc, out)
    BY <1>1, <1>4, <1>5 DEF DInv
  <2>2. BytesLeft(heap, root, Pay, stack, "return", Depth) = << >> /\ << >> \in Seq(Byte)
    BY <1>2, BodyBytes
  <2>3. BytesLeft(heap, root, Pay, stack, pc, Depth) = Then(w, << >>)
    BY <1>5, ThenNothing
  <2>4. \A m \in 1 .. Depth - 1 : stack[m] = stack[m]
    OBVIOUS
  <2>5. Splits(Doc, heap, root, Pay, stack, "return", Then(out, w))
    BY <1>2, <2>1, <2>2, <2>3, <2>4, SplitsOn
  <2> QED  BY <1>1, <2>5
<1> QED  BY <1>1, <1>3, <1>4, <1>5, StepSplits

LEMMA ErrorSplits ==
  ASSUME DInv, IInv', pc \in {"body", "loop"}, Depth > 1, Unchanged, Return(Error),
         Granted => \E x \in Seq(Byte) : Doc = Then(out', x)
  PROVE  DInv'
<1>1. /\ pc # "done" /\ pc' = "return" /\ ret' = Error /\ stack' = stack /\ result' = result
      /\ heap' = heap /\ root' = root
  BY DEF Return, Unchanged
<1>2. StackLives(stack', Live)
  BY <1>1 DEF DInv
<1>3. Failing'
  BY <1>1, Zenon DEF Failing, Error
<1> QED  BY <1>1, <1>2, <1>3, StepSplits

-----------------------------------------------------------------------------
(* What each step of a call writes is the front of what it had left         *)

(* The innermost call fails: it writes nothing more. *)
LEMMA ErrorKeepsFront ==
  ASSUME DInv, IInv', pc \in {"body", "loop"}, Depth > 1, Unchanged, Return(Error), out' = out
  PROVE  DInv'
<1>1. Granted => \E x \in Seq(Byte) : Doc = Then(out', x)
  BY DEF DInv
<1> QED  BY <1>1, ErrorSplits

(* The innermost call writes `w`, and its loop begins. *)
LEMMA LoopSplits ==
  ASSUME DInv, IInv', pc = "body", Depth > 1, Unchanged, result' = result, pc' = "loop",
         Len(stack') = Depth, \A m \in 1 .. Depth - 1 : stack'[m] = stack[m],
         stack'[Depth].tag = Top.tag,
         NEW w \in Seq(Byte), out' = Then(out, w), NEW left \in Seq(Byte),
         Granted => /\ BytesLeft(heap, root, Pay, stack', "loop", Depth) = left
                    /\ BytesLeft(heap, root, Pay, stack, "body", Depth) = Then(w, left)
  PROVE  DInv'
<1>1. /\ pc # "done" /\ pc' # "done" /\ ~Failing /\ ~Failing'
      /\ heap' = heap /\ root' = root
  BY DEF Failing, Unchanged
<1>2. out \in Seq(Byte) /\ Depth \in Nat \ {0} /\ Depth = Len(stack) /\ Top = stack[Depth]
  BY <1>1, PayFacts
<1>3. StackLives(stack', Live)
  <2>1. \A n \in 2 .. Depth : stack[n].tag \in Live
    BY <1>2 DEF DInv, StackLives
  <2>2. ASSUME NEW n \in 2 .. Len(stack') PROVE stack'[n].tag \in Live
    <3>1. n \in 2 .. Depth /\ (n = Depth \/ n \in 1 .. Depth - 1)
      BY <1>2
    <3>2. stack'[n].tag = stack[n].tag
      BY <1>2, <3>1
    <3> QED  BY <2>1, <3>1, <3>2
  <2> QED  BY <2>2 DEF StackLives
<1>4. ASSUME Granted PROVE Splits(Doc, heap, root, Pay, stack', pc', out')
  <2>1. Splits(Doc, heap, root, Pay, stack, "body", out)
    BY <1>1, <1>4 DEF DInv
  <2>2. Splits(Doc, heap, root, Pay, stack', "loop", Then(out, w))
    BY <1>2, <1>4, <2>1, SplitsOn
  <2> QED  BY <2>2
<1> QED  BY <1>1, <1>3, <1>4, StepSplits

-----------------------------------------------------------------------------
(* What WriteToBuffer of a leaf writes                                      *)

(* All of a tag is left to be written when its WriteToBuffer begins.        *)
LEMMA BodyLeft ==
  ASSUME DInv, pc = "body"
  PROVE  /\ BytesLeft(heap, root, Pay, stack, pc, Depth) = PayloadIn(heap, Pay, Cur, Before)
         /\ BytesLeft(heap, root, Pay, stack, pc, Depth) \in Seq(Byte)
         /\ pc \in {"body", "loop"} /\ pc # "done" /\ Depth > 1 /\ Top.start = Len(out)
         /\ Top.tag \in Live /\ out \in Seq(Byte) /\ Cur.data \in Seq(Byte) /\ IInv
         /\ ~Failing /\ Cur = heap[Top.tag]
<1>1. IInv /\ pc # "done" /\ ~Failing
  BY DEF DInv, Failing
<1>2. Depth > 1 /\ Top.start = Len(out)
  BY <1>1, BodyFacts
<1>3. Cur.data \in Seq(Byte)
  BY <1>1, <1>2, TagFacts
<1>4. /\ Top.tag \in Live /\ Top = stack[Depth] /\ Depth = Len(stack) /\ out \in Seq(Byte)
      /\ Pay[Top.tag] = PayloadIn(heap, Pay, Cur, Before) /\ Pay[Top.tag] \in Seq(Byte)
      /\ Cur = heap[Top.tag]
  BY <1>1, <1>2, PayFacts
<1>5. BytesLeft(heap, root, Pay, stack, "body", Depth) = Pay[Top.tag]
  BY <1>4, BodyBytes
<1> QED  BY <1>1, <1>2, <1>3, <1>4, <1>5

LEMMA ScalarWritten == ASSUME DInv, WriteScalar PROVE DInv'
<1>1. /\ pc = "body" /\ Cur.type \in ScalarTypes /\ Unchanged
      /\ out' = Copied(Top.start, Cur.data) /\ Return(ScalarSize(Cur.type))
  BY DEF WriteScalar
<1>2. /\ BytesLeft(heap, root, Pay, stack, pc, Depth) = Cur.data
      /\ pc \in {"body", "loop"} /\ Depth > 1 /\ Top.start = Len(out)
      /\ out \in Seq(Byte) /\ Cur.data \in Seq(Byte) /\ IInv
  BY <1>1, BodyLeft, PayloadByType
<1>3. out' = Then(out, Cur.data)
  BY <1>1, <1>2, CopiedBehind
<1>4. IInv' /\ ScalarSize(Cur.type) \in Nat
  BY <1>1, <1>2, WriteScalarKeeps, ScalarSizes
<1> QED  BY <1>1, <1>2, <1>3, <1>4, ReturnSplits

LEMMA StringWritten == ASSUME DInv, WriteString PROVE DInv'
<1> DEFINE n == Len(Cur.data)
           w == Then(Stored16(n), Cur.data)
<1>1. /\ pc = "body" /\ Cur.type = kTagString /\ Unchanged
      /\ out' = Copied(Top.start, Stored16(n) \o Cur.data) /\ Return(StringSize)
  BY DEF WriteString, Writing
<1>2. /\ BytesLeft(heap, root, Pay, stack, pc, Depth) = Then(U16(n), Cur.data)
      /\ pc \in {"body", "loop"} /\ Depth > 1 /\ Top.start = Len(out) /\ pc # "done"
      /\ out \in Seq(Byte) /\ Cur.data \in Seq(Byte) /\ IInv /\ Top.tag \in Live
      /\ Cur = heap[Top.tag] /\ n \in Nat
  <2>1. /\ BytesLeft(heap, root, Pay, stack, pc, Depth) = PayloadIn(heap, Pay, Cur, Before)
        /\ pc \in {"body", "loop"} /\ Depth > 1 /\ Top.start = Len(out) /\ pc # "done"
        /\ out \in Seq(Byte) /\ Cur.data \in Seq(Byte) /\ IInv /\ Top.tag \in Live
        /\ Cur = heap[Top.tag]
    BY <1>1, BodyLeft
  <2>2. PayloadIn(heap, Pay, Cur, Before) = Then(U16(n), Cur.data)
    BY <1>1, PayloadByType, Zenon
  <2>3. n \in Nat
    BY <2>1
  <2> QED  BY <2>1, <2>2, <2>3
<1>3. w \in Seq(Byte)
  BY <1>2, StoredBytes, ThenType
<1>4. out' = Then(out, w)
  <2>1. out' = Copied(Top.start, w)
    BY <1>1 DEF Then
  <2> HIDE DEF w
  <2> QED  BY <1>2, <1>3, <2>1, CopiedBehind
<1>5. IInv' /\ StringSize \in Nat
  <2>1. StringSize = 2 + n /\ n \in Nat
    BY <1>2 DEF StringSize, SizeofU16
  <2>2. IInv'
    BY <1>2, WriteStringKeeps
  <2> HIDE DEF n
  <2> QED  BY <2>1, <2>2
<1>6. ASSUME Granted PROVE BytesLeft(heap, root, Pay, stack, pc, Depth) = w
  <2>1. n <= UINT16_MAX
    BY <1>1, <1>2, <1>6, PayFacts, GrantedFacts
  <2>2. Stored16(n) = U16(n)
    BY <1>2, <2>1, StoredWhole
  <2> QED  BY <1>2, <2>2
<1> HIDE DEF w
<1> QED  BY <1>1, <1>2, <1>3, <1>4, <1>5, <1>6, ReturnSplits

LEMMA ArrayLeft ==
  ASSUME DInv, pc = "body", Cur.type \in ArrayTypes
  PROVE  /\ BytesLeft(heap, root, Pay, stack, pc, Depth) = Then(ArrayLength, Cur.data)
         /\ ArrayLength \in Seq(Byte) /\ Then(ArrayLength, Cur.data) \in Seq(Byte)
         /\ ArraySize \in Nat
<1>1. /\ BytesLeft(heap, root, Pay, stack, pc, Depth) = Then(ArrayLength, Cur.data)
      /\ IInv /\ Cur.data \in Seq(Byte)
  BY BodyLeft, PayloadByType, ZenonT(40) DEF ArrayLength
<1>2. ArrayLength \in Seq(Byte) /\ ArraySize = 4 + Len(Cur.data)
  BY <1>1, ArrayFacts
<1>3. Then(ArrayLength, Cur.data) \in Seq(Byte)
  BY <1>1, <1>2, ThenType
<1>4. ArraySize \in Nat
  <2>1. Len(Cur.data) \in Nat
    BY <1>1
  <2> QED  BY <1>2, <2>1
<1> QED  BY <1>1, <1>2, <1>3, <1>4

LEMMA ArrayWritten == ASSUME DInv, WriteArray PROVE DInv'
<1> DEFINE w == Then(ArrayLength, Cur.data)
<1>1. /\ pc = "body" /\ Cur.type \in ArrayTypes /\ Unchanged
      /\ out' = Copied(Top.start, w) /\ Return(ArraySize)
  BY Zenon DEF WriteArray, Then
<1>2. /\ BytesLeft(heap, root, Pay, stack, pc, Depth) = w /\ w \in Seq(Byte) /\ ArraySize \in Nat
      /\ pc \in {"body", "loop"} /\ Depth > 1 /\ Top.start = Len(out)
      /\ out \in Seq(Byte) /\ IInv
  BY <1>1, BodyLeft, ArrayLeft
<1> HIDE DEF w
<1>3. out' = Then(out, w)
  BY <1>1, <1>2, CopiedBehind
<1>4. IInv'
  BY <1>2, WriteArrayKeeps
<1> QED  BY <1>1, <1>2, <1>3, <1>4, ReturnSplits

LEMMA ArrayLengthWritten == ASSUME DInv, WriteArrayLength PROVE DInv'
<1>1. /\ pc = "body" /\ Cur.type \in ArrayTypes /\ Unchanged
      /\ out' = Copied(Top.start, ArrayLength) /\ Return(Error)
  BY DEF WriteArrayLength
<1>2. /\ BytesLeft(heap, root, Pay, stack, pc, Depth) = Then(ArrayLength, Cur.data)
      /\ ArrayLength \in Seq(Byte) /\ Cur.data \in Seq(Byte)
      /\ pc \in {"body", "loop"} /\ Depth > 1 /\ Top.start = Len(out) /\ pc # "done"
      /\ out \in Seq(Byte) /\ IInv /\ ~Failing
  BY <1>1, BodyLeft, ArrayLeft
<1>3. out' = Then(out, ArrayLength)
  BY <1>1, <1>2, CopiedBehind
<1>4. IInv'
  BY <1>2, WriteArrayLengthKeeps
<1>5. ASSUME Granted PROVE \E x \in Seq(Byte) : Doc = Then(out', x)
  <2>1. Splits(Doc, heap, root, Pay, stack, pc, out) /\ Len(stack) \in Nat \ {0} /\ Depth = Len(stack)
    BY <1>2, <1>5, PayFacts DEF DInv
  <2>2. PICK x \in Seq(Byte) : Doc = Then(out, Then(Then(ArrayLength, Cur.data), x))
    BY <1>2, <2>1, SplitsFront
  <2>3. Then(Cur.data, x) \in Seq(Byte)
    BY <1>2, ThenType
  <2>4. Doc = Then(out, Then(ArrayLength, Then(Cur.data, x)))
    BY <1>2, <2>2, ThenAgain
  <2>5. Doc = Then(out', Then(Cur.data, x))
    BY <1>2, <1>3, <2>3, <2>4, ThenAgain
  <2> QED  BY <2>3, <2>5
<1> QED  BY <1>1, <1>2, <1>4, <1>5, ErrorSplits

LEMMA LeafFailed == ASSUME DInv, LeafFails PROVE DInv'
<1>1. pc = "body" /\ Return(Error) /\ out' = out /\ Unchanged
  BY DEF LeafFails
<1>2. IInv' /\ Depth > 1
  BY <1>1, BodyLeft, LeafFailsKeeps
<1> QED  BY <1>1, <1>2, ErrorKeepsFront

(* The innermost call writes `w`, and calls WriteToBuffer of a tag. *)
LEMMA CallSplits ==
  ASSUME DInv, IInv', pc = "loop", Unchanged, result' = result, pc' = "body",
         NEW u, NEW next, NEW todo, Alters(stack, u, Depth, next, Top.i, todo),
         NEW f \in Frame, f.tag \in Live, stack' = Append(u, f),
         NEW w \in Seq(Byte), out' = Then(out, w), NEW left \in Seq(Byte),
         Granted => /\ BytesLeft(heap, root, Pay, stack', "body", Depth) = left
                    /\ BytesLeft(heap, root, Pay, stack, "loop", Depth)
                         = Then(w, Then(Pay[f.tag], left))
  PROVE  DInv'
<1> DEFINE k == Depth + 1
<1>1. /\ pc # "done" /\ pc' # "done" /\ ~Failing /\ ~Failing'
      /\ heap' = heap /\ root' = root
  BY DEF Failing, Unchanged
<1>2. /\ out \in Seq(Byte) /\ Depth \in Nat \ {0} /\ Depth = Len(stack) /\ Top = stack[Depth]
      /\ Entity(heap, root)
  BY <1>1, RunningFacts DEF DInv
<1>3. /\ u \in Seq(Frame) /\ Len(u) = Depth /\ \A m \in 1 .. Depth - 1 : u[m] = stack[m]
      /\ u[Depth].tag = Top.tag
  BY <1>2 DEF Alters
<1>4. /\ Len(stack') = k /\ stack'[k] = f /\ \A m \in 1 .. Depth : stack'[m] = u[m]
  BY <1>2, <1>3, AppendProperties
<1>5. StackLives(stack', Live)
  <2>1. \A n \in 2 .. Depth : stack[n].tag \in Live
    BY <1>2 DEF DInv, StackLives
  <2>2. ASSUME NEW n \in 2 .. Len(stack') PROVE stack'[n].tag \in Live
    <3>1. CASE n = k
      BY <1>4, <3>1
    <3>2. CASE n # k
      <4>1. n \in 2 .. Depth /\ n \in 1 .. Depth /\ (n = Depth \/ n \in 1 .. Depth - 1)
        BY <1>2, <1>4, <3>2
      <4>2. stack'[n].tag = stack[n].tag
        BY <1>2, <1>3, <1>4, <4>1
      <4> QED  BY <2>1, <4>1, <4>2
    <3> QED  BY <3>1, <3>2
  <2> QED  BY <2>2 DEF StackLives
<1>6. Pay[f.tag] \in Seq(Byte)
  <2>1. f.tag \in 1 .. Len(heap)
    BY <1>2, LiveTags
  <2> QED  BY <1>2, <2>1, PaysOfAll
<1>7. k = Depth + 1
  OBVIOUS
<1> HIDE DEF k
<1>8. ASSUME Granted PROVE Splits(Doc, heap, root, Pay, stack', pc', out')
  <2>0. out \in Seq(Byte) /\ w \in Seq(Byte) /\ left \in Seq(Byte)
    BY <1>2
  <2>1. Splits(Doc, heap, root, Pay, stack, "loop", out)
    BY <1>1, <1>8 DEF DInv
  <2>2. BytesLeft(heap, root, Pay, stack', "body", k) = Pay[f.tag]
    <3>1. k = Len(stack') /\ stack'[k].tag = f.tag
      BY <1>4
    <3>2. BytesLeft(heap, root, Pay, stack', "body", k) = Pay[stack'[k].tag]
      BY ONLY <3>1, BodyBytes
    <3> QED  BY <3>1, <3>2
  <2>3. /\ \A m \in 1 .. Depth - 1 : stack'[m] = stack[m]
        /\ k = Depth + 1 /\ k = Len(stack') /\ Depth = Len(stack) /\ Depth \in Nat \ {0}
    BY <1>2, <1>3, <1>4, <1>7
  <2>4. /\ left = BytesLeft(heap, root, Pay, stack', "body", Depth)
        /\ BytesLeft(heap, root, Pay, stack, "loop", Depth) = Then(w, Then(Pay[f.tag], left))
    BY <1>8
  <2>5. Splits(Doc, heap, root, Pay, stack', "body", Then(out, w))
    BY ONLY <1>6, <2>0, <2>1, <2>2, <2>3, <2>4, SplitsPush, SMTT(30)
  <2> QED  BY <2>5
<1> QED  BY <1>1, <1>5, <1>8, StepSplits

-----------------------------------------------------------------------------
(* What TagList::WriteToBuffer writes                                       *)

LEMMA ListLeftToWrite ==
  ASSUME DInv, Writing(kTagList), Granted
  PROVE  /\ BytesLeft(heap, root, Pay, stack, "body", Depth)
              = Then(Then(<<Cur.ctype>>, U32(Len(Cur.kids))),
                     InOrder(1 .. Len(Cur.kids), ByIndex, KidBytes(Pay, Cur.kids)))
         /\ Cur.kids # << >>
<1>1. pc = "body" /\ Cur.type = kTagList
  BY DEF Writing
<1>2. /\ BytesLeft(heap, root, Pay, stack, pc, Depth) = PayloadIn(heap, Pay, Cur, Before)
      /\ IInv /\ Top.tag \in Live /\ Cur = heap[Top.tag] /\ pc # "done" /\ Depth > 1
  BY <1>1, BodyLeft
<1>3. Entity(heap, root)
  BY <1>2, RunningFacts
<1>4. Cur.kids # << >> /\ Cur.ctype # kTagEnd
  BY <1>1, <1>2, <1>3, GrantedFacts
<1>5. DOMAIN Cur.kids = 1 .. Len(Cur.kids)
  BY <1>2, TagFacts
<1>6. PayloadIn(heap, Pay, Cur, Before)
        = IF Cur.ctype = kTagEnd THEN Then(<<kTagEnd>>, U32(1))
          ELSE Then(Then(<<Cur.ctype>>, U32(Len(Cur.kids))),
                    InOrder(DOMAIN Cur.kids, ByIndex, KidBytes(Pay, Cur.kids)))
  BY <1>1, PayloadByType, SMT
<1>7. PayloadIn(heap, Pay, Cur, Before)
        = Then(Then(<<Cur.ctype>>, U32(Len(Cur.kids))),
               InOrder(1 .. Len(Cur.kids), ByIndex, KidBytes(Pay, Cur.kids)))
  BY <1>4, <1>5, <1>6, Zenon
<1> QED  BY <1>1, <1>2, <1>4, <1>7, Zenon

(* The bytes of the elements, of a list that is being written.              *)
LEMMA Elements ==
  ASSUME DInv, pc # "done", Depth > 1
  PROVE  /\ KidBytes(Pay, Cur.kids) = [j \in 1 .. Len(Cur.kids) |-> Pay[Cur.kids[j]]]
         /\ \A j \in 1 .. Len(Cur.kids) : KidBytes(Pay, Cur.kids)[j] \in Seq(Byte)
         /\ Len(Cur.kids) \in Nat
<1>1. /\ Cur.kids \in Seq(Nat) /\ \A j \in 1 .. Len(Cur.kids) : Cur.kids[j] \in 1 .. Len(heap)
      /\ \A id \in 1 .. Len(heap) : Pay[id] \in Seq(Byte)
  BY TagFacts, PayFacts DEF DInv
<1>2. KidBytes(Pay, Cur.kids) = [j \in 1 .. Len(Cur.kids) |-> Pay[Cur.kids[j]]]
  BY <1>1 DEF KidBytes
<1> QED  BY <1>1, <1>2

LEMMA EmptyListWritten == ASSUME DInv, WriteEmptyList PROVE DInv'
<1> DEFINE w == Then(<<kTagEnd>>, U32(0))
<1>1. /\ Writing(kTagList) /\ Cur.kids = << >> /\ Unchanged
      /\ out' = Copied(Top.start, w) /\ Return(ListHead) /\ pc = "body"
  BY Zenon DEF WriteEmptyList, Then, Writing
<1>2. /\ pc \in {"body", "loop"} /\ Depth > 1 /\ Top.start = Len(out)
      /\ out \in Seq(Byte) /\ IInv
  BY <1>1, BodyLeft
<1>3. w \in Seq(Byte)
  <2>1. kTagEnd \in Byte /\ 0 \in Nat
    BY DEF kTagEnd, Byte
  <2> QED  BY <2>1, ListHeadBytes, Zenon DEF Then
<1> HIDE DEF w
<1>4. out' = Then(out, w)
  BY <1>1, <1>2, <1>3, CopiedBehind
<1>5. IInv' /\ ListHead \in Nat
  BY <1>2, WriteEmptyListKeeps DEF ListHead, SizeofTagType, SizeofU32
<1>6. ~Granted
  BY <1>1, ListLeftToWrite
<1> QED  BY <1>1, <1>2, <1>3, <1>4, <1>5, <1>6, ReturnSplits

LEMMA ListEntered == ASSUME DInv, EnterList PROVE DInv'
<1> DEFINE w == Then(<<Cur.ctype>>, U32(Len(Cur.kids)))
           left == InOrder(1 .. Len(Cur.kids), ByIndex, KidBytes(Pay, Cur.kids))
<1>1. /\ Writing(kTagList) /\ Unchanged /\ pc = "body" /\ Cur.type = kTagList
      /\ out' = Copied(Top.start, w)
      /\ stack' = [stack EXCEPT ![Depth].next = Top.start + ListHead]
      /\ pc' = "loop" /\ result' = result
  BY Zenon DEF EnterList, Then, Writing
<1>2. /\ pc # "done" /\ Depth > 1 /\ Top.start = Len(out) /\ out \in Seq(Byte) /\ IInv
      /\ Cur = heap[Top.tag]
  BY <1>1, BodyLeft
<1>3. /\ Cur.kids \in Seq(Nat) /\ Cur.ctype \in Byte /\ ~IsMap(heap, stack, Depth)
  BY <1>1, <1>2, ListFacts
<1>4. /\ stack \in Seq(Frame) /\ Depth = Len(stack) /\ Depth > 0 /\ Top = stack[Depth]
      /\ Top \in Frame /\ Depth \in Nat
  BY <1>2, RunningFacts
<1>5. w \in Seq(Byte) /\ left \in Seq(Byte)
  <2>1. w \in Seq(Byte)
    <3>1. Len(Cur.kids) \in Nat
      BY <1>3
    <3> QED  BY <1>3, <3>1, ListHeadBytes, Zenon DEF Then
  <2>2. 1 .. Len(Cur.kids) \in SUBSET (1 .. Len(Cur.kids))
    OBVIOUS
  <2>3. left \in Seq(Byte)
    BY <1>2, <2>2, Elements, ElementsInOrder
  <2> QED  BY <2>1, <2>3
<1>6. out' = Then(out, w)
  <2> HIDE DEF w
  <2> QED  BY <1>1, <1>2, <1>5, CopiedBehind
<1>7. /\ Len(stack') = Depth /\ \A m \in 1 .. Depth - 1 : stack'[m] = stack[m]
      /\ stack'[Depth].tag = Top.tag /\ stack'[Depth].i = Top.i
  BY <1>1, <1>4 DEF Frame
<1>8. IInv'
  BY <1>2, EnterListKeeps
<1>9. BytesLeft(heap, root, Pay, stack', "loop", Depth) = left
  <2>1. Top.i = 0
    BY <1>1, <1>2, BodyFacts
  <2>2. Entered(stack', "loop", Depth) /\ ~IsMap(heap, stack', Depth)
    BY <1>3, <1>4, <1>7, Zenon DEF Entered, IsMap
  <2>3. BytesLeft(heap, root, Pay, stack', "loop", Depth) = ListBytes(heap, Pay, stack', Depth)
    BY <2>2, LoopBytes
  <2>4. /\ stack'[Depth].i + (IF Depth < Len(stack') THEN 2 ELSE 1) = 1
        /\ heap[stack'[Depth].tag].kids = Cur.kids
    BY <1>2, <1>7, <2>1
  <2> QED  BY <2>3, <2>4, Zenon DEF ListBytes
<1>10. Granted => BytesLeft(heap, root, Pay, stack, "body", Depth) = Then(w, left)
  BY <1>1, ListLeftToWrite
<1> HIDE DEF w, left
<1> QED  BY <1>1, <1>2, <1>5, <1>6, <1>7, <1>8, <1>9, <1>10, LoopSplits

LEMMA ListFailed == ASSUME DInv, ListFails PROVE DInv'
<1>1. pc = "body" /\ Return(Error) /\ out' = out /\ Unchanged
  BY DEF ListFails, Writing
<1>2. IInv' /\ Depth > 1
  BY <1>1, BodyLeft, ListFailsKeeps
<1> QED  BY <1>1, <1>2, ErrorKeepsFront

LEMMA ListLoopLeft ==
  ASSUME DInv, Looping(kTagList)
  PROVE  /\ BytesLeft(heap, root, Pay, stack, "loop", Depth)
              = InOrder(Top.i + 1 .. Len(Cur.kids), ByIndex, KidBytes(Pay, Cur.kids))
         /\ ~IsMap(heap, stack, Depth) /\ Cur = heap[Top.tag]
<1>1. pc = "loop" /\ pc # "done" /\ Depth > 1
  BY DEF Looping
<1>2. ~IsMap(heap, stack, Depth) /\ Cur = heap[Top.tag]
  BY ElementFacts DEF DInv
<1>3. Depth = Len(stack) /\ Top = stack[Depth] /\ Depth \in Nat
  BY <1>1, PayFacts
<1>4. BytesLeft(heap, root, Pay, stack, "loop", Depth) = ListBytes(heap, Pay, stack, Depth)
  BY <1>2, LoopBytes DEF Entered
<1>5. ~(Depth < Len(stack))
  BY <1>3
<1> QED  BY <1>2, <1>3, <1>4, <1>5, Zenon DEF ListBytes

LEMMA ListFinished == ASSUME DInv, FinishList PROVE DInv'
<1> DEFINE v == CalculateSize[Top.tag]
<1>1. /\ Looping(kTagList) /\ Top.i = Len(Cur.kids) /\ Unchanged /\ Return(v) /\ out' = out
      /\ pc = "loop" /\ Depth > 1
  BY DEF FinishList, Looping
<1>2. v \in Nat /\ Top.i \in Nat
  BY <1>1, ElementFacts DEF DInv
<1>3. IInv'
  BY <1>1, FinishListKeeps DEF DInv
<1>4. BytesLeft(heap, root, Pay, stack, pc, Depth) = << >>
  <2>1. Top.i + 1 .. Len(Cur.kids) = {}
    BY <1>1, <1>2
  <2>2. InOrder({}, ByIndex, KidBytes(Pay, Cur.kids)) = << >>
    BY <1>1, Elements, ElementsInOrder
  <2> QED  BY <1>1, <2>1, <2>2, ListLoopLeft
<1>5. out \in Seq(Byte) /\ << >> \in Seq(Byte) /\ out' = Then(out, << >>)
  BY <1>1, PayFacts, ThenNothing
<1> HIDE DEF v
<1> QED  BY <1>1, <1>2, <1>3, <1>4, <1>5, ReturnSplits

LEMMA ElementWritten == ASSUME DInv, WriteElement PROVE DInv'
<1> DEFINE kids == Cur.kids
           i == Top.i + 1
           kid == kids[i]
           f == NewFrame(kid, Top.next, heap[kid].map)
           b == KidBytes(Pay, kids)
           left == InOrder(i + 1 .. Len(kids), ByIndex, b)
<1>1. /\ Looping(kTagList) /\ Top.i < Len(Cur.kids) /\ Unchanged /\ Depth > 1 /\ pc # "done"
      /\ stack' = Append(stack, f) /\ pc = "loop" /\ pc' = "body" /\ out' = out
      /\ result' = result
  BY DEF WriteElement, Looping
<1>2. /\ Top.i \in Nat /\ Top.next = Len(out) /\ kids \in Seq(Nat)
      /\ \A j \in 1 .. Len(kids) : kids[j] \in 1 .. Len(heap)
  BY <1>1, ElementFacts DEF DInv
<1>3. /\ stack \in Seq(Frame) /\ Depth = Len(stack) /\ Top = stack[Depth] /\ Depth \in Nat
      /\ out \in Seq(Byte) /\ Entity(heap, root) /\ Depth > 0 /\ Depth # 1
  BY <1>1, RunningFacts DEF DInv
<1>4. i \in 1 .. Len(kids) /\ i \in Nat /\ Len(kids) \in Nat
  BY <1>1, <1>2
<1>5. kid \in 1 .. Len(heap) /\ kid \in Live
  <2>1. Top.tag \in Live /\ Cur = heap[Top.tag]
    BY <1>1, PayFacts
  <2> QED  BY <1>2, <1>3, <1>4, <2>1, LiveTags
<1>6. f \in Frame /\ f.tag = kid
  <2>1. heap[kid].map \in Map
    BY <1>3, <1>5, EntityTag
  <2>2. kid \in Nat /\ Top.next \in Nat
    BY <1>2, <1>3, <1>5
  <2> HIDE DEF kid
  <2> QED  BY <2>1, <2>2 DEF NewFrame, Frame
<1>7. b[i] = Pay[kid] /\ \A j \in 1 .. Len(kids) : b[j] \in Seq(Byte)
  BY <1>1, <1>4, Elements
<1>8. IInv'
  BY <1>1, WriteElementKeeps DEF DInv
<1> HIDE DEF f
<1>9. BytesLeft(heap, root, Pay, stack', "body", Depth) = left
  <2>1. Depth < Len(stack') /\ stack'[Depth] = Top
    BY <1>1, <1>3, <1>6, AppendProperties
  <2>2. Entered(stack', "body", Depth) /\ ~IsMap(heap, stack', Depth)
    BY <1>1, <1>3, <2>1, ListLoopLeft, Zenon DEF Entered, IsMap
  <2>3. BytesLeft(heap, root, Pay, stack', "body", Depth) = ListBytes(heap, Pay, stack', Depth)
    BY <2>2, LoopBytes
  <2>4. Top.i + 2 = i + 1 /\ heap[Top.tag].kids = kids
    BY <1>1, <1>2, ListLoopLeft
  <2> HIDE DEF i, kids, b
  <2>5. ListBytes(heap, Pay, stack', Depth)
          = InOrder(Top.i + 2 .. Len(kids), ByIndex, KidBytes(Pay, kids))
    BY <2>1, <2>4, Zenon DEF ListBytes
  <2> QED  BY <2>3, <2>4, <2>5, Zenon DEF b
<1>10. /\ left \in Seq(Byte)
       /\ BytesLeft(heap, root, Pay, stack, "loop", Depth) = Then(Pay[kid], left)
  <2>1. i .. Len(kids) \in SUBSET (1 .. Len(kids)) /\ i + 1 .. Len(kids) \in SUBSET (1 .. Len(kids))
        /\ i .. Len(kids) # {}
    BY <1>4
  <2>2. Lowest(i .. Len(kids)) = i /\ (i .. Len(kids)) \ {i} = i + 1 .. Len(kids)
    BY <1>4, LowestOf
  <2>3. BytesLeft(heap, root, Pay, stack, "loop", Depth) = InOrder(i .. Len(kids), ByIndex, b)
    BY <1>1, ListLoopLeft
  <2> HIDE DEF i, kids, b
  <2>4. left \in Seq(Byte)
    BY <1>4, <1>7, <2>1, ElementsInOrder
  <2>5. InOrder(i .. Len(kids), ByIndex, b)
          = Then(b[Lowest(i .. Len(kids))],
                 InOrder((i .. Len(kids)) \ {Lowest(i .. Len(kids))}, ByIndex, b))
    BY <1>4, <1>7, <2>1, ElementsInOrder
  <2>6. InOrder(i .. Len(kids), ByIndex, b) = Then(b[i], left)
    BY <2>2, <2>5, Zenon
  <2> QED  BY <1>7, <2>3, <2>4, <2>6, Zenon
<1>11. Alters(stack, stack, Depth, Top.next, Top.i, Top.todo)
  BY <1>3, AltersNot
<1>12. /\ << >> \in Seq(Byte) /\ out' = Then(out, << >>)
       /\ Then(Pay[kid], left) = Then(<< >>, Then(Pay[kid], left))
  <2>1. Pay[kid] \in Seq(Byte)
    BY <1>4, <1>7
  <2> HIDE DEF left, kid
  <2>2. Then(Pay[kid], left) \in Seq(Byte)
    BY <1>10, <2>1, ThenType
  <2> QED  BY <1>1, <1>3, <2>2, ThenNothing
<1> HIDE DEF left, kid
<1> QED  BY <1>1, <1>5, <1>6, <1>8, <1>9, <1>10, <1>11, <1>12, CallSplits

-----------------------------------------------------------------------------
(* What the loops over a map write                                          *)

(* What a map's loop has left: the entries, and the TAG_End of a compound.  *)
Closing(n) == IF n = 1 THEN << >> ELSE <<kTagEnd>>

LEMMA ClosingType == ASSUME NEW n PROVE Closing(n) \in Seq(Byte)
<1>1. <<kTagEnd>> \in Seq(Byte) /\ << >> \in Seq(Byte)
  BY DEF kTagEnd, Byte
<1> QED  BY <1>1, Zenon DEF Closing

LEMMA MapLoopLeft ==
  ASSUME DInv, pc = "loop", IsMap(heap, stack, Depth),
         NEW m, m = Contents(heap, root, stack, Depth)
  PROVE  /\ BytesLeft(heap, root, Pay, stack, "loop", Depth)
              = Then(InOrder(Top.todo, Before, Names(heap, Pay, m)), Closing(Depth))
         /\ m \in Map /\ Keyed(m) /\ Top.todo \in SUBSET m
         /\ \A e \in m : /\ e[2] \in 1 .. Len(heap) /\ e[2] \in Live
                         /\ Names(heap, Pay, m)[e] = Then(Lead(heap, e), Pay[e[2]])
                         /\ Names(heap, Pay, m)[e] \in Seq(Byte)
<1>1. /\ Depth = Len(stack) /\ Depth \in Nat \ {0} /\ Top = stack[Depth] /\ Entity(heap, root)
      /\ pc # "done" /\ IInv
  BY RunningFacts DEF DInv
<1>2. m \in Map /\ Keyed(m) /\ Top.todo \in SUBSET m
  BY <1>1, EntryFacts
<1>3. \A e \in m : e[2] \in Live
  <2>1. CASE Depth = 1
    BY <1>1, <2>1, LiveTags DEF Contents
  <2>2. CASE Depth # 1
    <3>1. Top.tag \in Live
      BY <1>1, <2>2, PayFacts
    <3>2. m = heap[Top.tag].map
      BY <1>1, <2>2, Zenon DEF Contents
    <3> QED  BY <1>1, <3>1, <3>2, LiveTags
  <2> QED  BY <2>1, <2>2
<1>4. \A e \in m : e[2] \in 1 .. Len(heap)
  BY <1>1, <1>3, LiveTags
<1>5. ASSUME NEW e \in m
      PROVE  /\ Names(heap, Pay, m)[e] = Then(Lead(heap, e), Pay[e[2]])
             /\ Names(heap, Pay, m)[e] \in Seq(Byte)
  <2>1. Names(heap, Pay, m)[e] = Then(Lead(heap, e), Pay[e[2]])
    BY Zenon DEF Names, Then
  <2>2. Pay[e[2]] \in Seq(Byte)
    BY <1>1, <1>4, PaysOfAll
  <2>3. Then(Lead(heap, e), Pay[e[2]]) \in Seq(Byte)
    BY <1>1, <1>2, <1>4, <2>2, NamedBytes
  <2> QED  BY <2>1, <2>3
<1>6. BytesLeft(heap, root, Pay, stack, "loop", Depth) = MapBytes(heap, root, Pay, stack, Depth)
  BY LoopBytes DEF Entered
<1>7. MapBytes(heap, root, Pay, stack, Depth)
        = Then(InOrder(Top.todo, Before, Names(heap, Pay, m)), Closing(Depth))
  BY <1>1, Zenon DEF MapBytes, Closing
<1> QED  BY <1>2, <1>3, <1>4, <1>5, <1>6, <1>7

LEMMA EntryWritten ==
  ASSUME DInv, IInv', pc = "loop", IsMap(heap, stack, Depth), Top.todo # {},
         NEW e, e = First(Top.todo), Descend(e)
  PROVE  DInv'
<1> DEFINE m == Contents(heap, root, stack, Depth)
           next == Top.next + HeaderSize(e)
           f == NewFrame(e[2], next, heap[e[2]].map)
           todo == Top.todo \ {e}
           u == Without(stack, Depth, e)
           w == Header(e)
           b == Names(heap, Pay, m)
           rest == InOrder(todo, Before, b)
           left == Then(rest, Closing(Depth))
<1>1. /\ out' = Copied(Top.next, w) /\ stack' = Append(u, f) /\ pc' = "body"
      /\ result' = result /\ Unchanged
  BY Zenon DEF Descend, Without
<1>2. /\ stack \in Seq(Frame) /\ Depth = Len(stack) /\ Depth > 0 /\ Depth \in Nat
      /\ Top = stack[Depth] /\ pc # "done" /\ Entity(heap, root) /\ out \in Seq(Byte) /\ IInv
  BY RunningFacts DEF DInv
<1>3. /\ m \in Map /\ Keyed(m) /\ Top.todo \in SUBSET m /\ e \in Top.todo
      /\ Top.next = Len(out) /\ Top.next \in Nat /\ HeaderSize(e) \in Nat
  BY <1>2, EntryFacts
<1>4. e \in m /\ todo \in SUBSET m
  BY <1>3
<1>5. /\ e[2] \in 1 .. Len(heap) /\ e[2] \in Live /\ b[e] = Then(Lead(heap, e), Pay[e[2]])
      /\ \A d \in m : b[d] \in Seq(Byte)
      /\ BytesLeft(heap, root, Pay, stack, "loop", Depth)
           = Then(InOrder(Top.todo, Before, b), Closing(Depth))
  BY <1>4, MapLoopLeft
<1>6. f \in Frame /\ f.tag = e[2]
  <2>1. heap[e[2]].map \in Map
    BY <1>2, <1>5, EntityTag
  <2>2. e[2] \in Nat /\ next \in Nat
    BY <1>3, <1>5
  <2> HIDE DEF next
  <2> QED  BY <2>1, <2>2 DEF NewFrame, Frame
<1>7. Alters(stack, u, Depth, next, Top.i, todo)
  <2>1. HeaderSize(e) \in Int
    BY <1>3
  <2> HIDE DEF u
  <2> QED  BY <1>2, <2>1, AltersEntry DEF u
<1> HIDE DEF b, m
<1>8. /\ rest \in Seq(Byte) /\ InOrder(Top.todo, Before, b) = Then(b[e], rest)
  <2>1. /\ InOrder(todo, Before, b) \in Seq(Byte)
        /\ InOrder(Top.todo, Before, b)
             = Then(b[First(Top.todo)], InOrder(Top.todo \ {First(Top.todo)}, Before, b))
    BY <1>3, <1>4, <1>5, EntriesInOrder
  <2> QED  BY <2>1, Zenon
<1> HIDE DEF rest, u, f, next
<1>9. Closing(Depth) \in Seq(Byte) /\ left \in Seq(Byte)
  BY <1>8, ClosingType, ThenType
<1>10. /\ w \in Seq(Byte) /\ out' = Then(out, w)
       /\ Lead(heap, e) \in Seq(Byte) /\ Pay[e[2]] \in Seq(Byte)
       /\ Len(e[1]) <= UINT16_MAX => w = Lead(heap, e)
  <2>1. w \in Seq(Byte) /\ Lead(heap, e) \in Seq(Byte) /\ (Len(e[1]) <= UINT16_MAX => w = Lead(heap, e))
    BY <1>2, <1>3, <1>4, <1>5, HeaderBytes, LeadBytes
  <2>2. Pay[e[2]] \in Seq(Byte)
    BY <1>2, <1>5, PaysOfAll
  <2> HIDE DEF w
  <2>3. out' = Then(out, w)
    BY <1>1, <1>2, <1>3, <2>1, CopiedBehind
  <2> QED  BY <2>1, <2>2, <2>3
<1>11. Granted => Len(e[1]) <= UINT16_MAX
  <2> SUFFICES ASSUME Granted PROVE Len(e[1]) <= UINT16_MAX
    OBVIOUS
  <2>1. CASE Depth = 1
    <3>1. e \in root
      BY <1>4, <2>1 DEF m, Contents
    <3> QED  BY <1>2, <3>1, GrantedFacts
  <2>2. CASE Depth # 1
    <3>1. Top.tag \in Live
      BY <1>2, <2>2, PayFacts
    <3>2. e \in heap[Top.tag].map
      BY <1>2, <1>4, <2>2, Zenon DEF m, Contents
    <3> QED  BY <1>2, <3>1, <3>2, GrantedFacts
  <2> QED  BY <2>1, <2>2
<1>12. BytesLeft(heap, root, Pay, stack, "loop", Depth)
         = Then(Lead(heap, e), Then(Pay[e[2]], left))
  <2> DEFINE a == Lead(heap, e)
             p == Pay[e[2]]
             c == Closing(Depth)
  <2>1. BytesLeft(heap, root, Pay, stack, "loop", Depth) = Then(Then(Then(a, p), rest), c)
    BY <1>5, <1>8, Zenon
  <2>2. a \in Seq(Byte) /\ p \in Seq(Byte) /\ c \in Seq(Byte) /\ rest \in Seq(Byte)
    BY <1>8, <1>9, <1>10
  <2> HIDE DEF a, p, c
  <2>3. Then(Then(Then(a, p), rest), c) = Then(Then(a, p), Then(rest, c))
    BY <2>2, ThenType, ThenAgain
  <2>4. Then(Then(a, p), Then(rest, c)) = Then(a, Then(p, Then(rest, c)))
    BY <2>2, ThenType, ThenAgain
  <2> QED  BY <2>1, <2>3, <2>4 DEF a, p, c
<1>13. BytesLeft(heap, root, Pay, stack', "body", Depth) = left
  <2>1. /\ Depth < Len(stack') /\ stack'[Depth].tag = Top.tag /\ stack'[Depth].todo = todo
    <3>1. u \in Seq(Frame) /\ Len(u) = Depth /\ u[Depth].tag = Top.tag /\ u[Depth].todo = todo
      BY <1>2, <1>7 DEF Alters
    <3> HIDE DEF todo
    <3> QED  BY <1>1, <1>2, <1>6, <3>1, AppendProperties
  <2>2. Entered(stack', "body", Depth) /\ IsMap(heap, stack', Depth)
        /\ Contents(heap, root, stack', Depth) = m
    BY <1>2, <2>1, Zenon DEF Entered, IsMap, Contents, m
  <2>3. BytesLeft(heap, root, Pay, stack', "body", Depth) = MapBytes(heap, root, Pay, stack', Depth)
    BY ONLY <2>2, LoopBytes
  <2>4. MapBytes(heap, root, Pay, stack', Depth) = left
    BY <2>1, <2>2, Zenon DEF MapBytes, Closing, b, rest
  <2> QED  BY <2>3, <2>4
<1> HIDE DEF left, w, todo
<1> QED  BY <1>1, <1>5, <1>6, <1>7, <1>9, <1>10, <1>11, <1>12, <1>13, CallSplits

LEMMA RootTagWritten == ASSUME DInv, WriteRootTag PROVE DInv'
<1>1. pc = "loop" /\ InWrite /\ Top.todo # {} /\ Descend(First(Top.todo))
  BY DEF WriteRootTag
<1>2. IsMap(heap, stack, Depth) /\ IInv'
  BY <1>1, RootFacts, WriteRootTagKeeps DEF DInv
<1> QED  BY <1>1, <1>2, EntryWritten

LEMMA ChildWritten == ASSUME DInv, WriteChild PROVE DInv'
<1>1. Looping(kTagCompound) /\ pc = "loop" /\ Top.todo # {} /\ Descend(First(Top.todo))
  BY DEF WriteChild, Looping
<1>2. IsMap(heap, stack, Depth) /\ IInv'
  BY <1>1, CompoundFacts, WriteChildKeeps DEF DInv
<1> QED  BY <1>1, <1>2, EntryWritten

LEMMA ChildFailed == ASSUME DInv, ChildFails PROVE DInv'
<1>1. Looping(kTagCompound) /\ Return(Error) /\ out' = out /\ Unchanged
  BY DEF ChildFails
<1>2. pc = "loop" /\ Depth > 1 /\ IInv'
  BY <1>1, CompoundFacts, ChildFailsKeeps DEF DInv
<1> QED  BY <1>1, <1>2, ErrorKeepsFront

LEMMA CompoundEndFailed == ASSUME DInv, CompoundEndFails PROVE DInv'
<1>1. Looping(kTagCompound) /\ Return(Error) /\ out' = out /\ Unchanged
  BY DEF CompoundEndFails
<1>2. pc = "loop" /\ Depth > 1 /\ IInv'
  BY <1>1, CompoundFacts, CompoundEndFailsKeeps DEF DInv
<1> QED  BY <1>1, <1>2, ErrorKeepsFront

LEMMA CompoundFinished == ASSUME DInv, FinishCompound PROVE DInv'
<1> DEFINE w == <<kTagEnd>>
           v == Top.next + 1 - Top.start
           m == Contents(heap, root, stack, Depth)
<1>1. /\ Looping(kTagCompound) /\ Top.todo = {} /\ Unchanged
      /\ out' = Copied(Top.next, w) /\ Return(v)
  BY DEF FinishCompound, SizeofTagType
<1>2. /\ pc = "loop" /\ Depth # 1 /\ Depth > 1 /\ IsMap(heap, stack, Depth) /\ out \in Seq(Byte)
      /\ IInv' /\ CalculateSize[Top.tag] \in Nat
  BY <1>1, CompoundFacts, FinishCompoundKeeps DEF DInv
<1>3. /\ Top.next + 1 = Top.start + CalculateSize[Top.tag]
      /\ Top.next = Len(out) /\ Top.next \in Nat /\ Top.start \in Nat
  BY <1>1, CompoundEnd DEF DInv
<1>4. v \in Nat
  BY <1>2, <1>3
<1>5. w \in Seq(Byte) /\ out' = Then(out, w)
  <2>1. w \in Seq(Byte)
    BY DEF kTagEnd, Byte
  <2> HIDE DEF w
  <2> QED  BY <1>1, <1>2, <1>3, <2>1, CopiedBehind
<1>6. BytesLeft(heap, root, Pay, stack, pc, Depth) = w
  <2>1. /\ BytesLeft(heap, root, Pay, stack, pc, Depth)
             = Then(InOrder({}, Before, Names(heap, Pay, m)), Closing(Depth))
        /\ m \in Map /\ Keyed(m) /\ \A e \in m : Names(heap, Pay, m)[e] \in Seq(Byte)
    BY <1>1, <1>2, MapLoopLeft
  <2>2. InOrder({}, Before, Names(heap, Pay, m)) = << >>
    <3> HIDE DEF m
    <3> QED  BY <2>1, EntriesInOrder
  <2>3. Closing(Depth) = w
    BY <1>2, Zenon DEF Closing
  <2> QED  BY <1>5, <2>1, <2>2, <2>3, ThenNothing, Zenon
<1> HIDE DEF w, v
<1> QED  BY <1>1, <1>2, <1>4, <1>5, <1>6, ReturnSplits

LEMMA CompoundEntered == ASSUME DInv, EnterCompound PROVE DInv'
<1> DEFINE m == Cur.map
           left == Then(InOrder(m, Before, Names(heap, Pay, m)), <<kTagEnd>>)
<1>1. /\ pc = "body" /\ Cur.type = kTagCompound /\ pc' = "loop" /\ Unchanged
      /\ out' = out /\ stack' = stack /\ result' = result
  BY DEF EnterCompound, Writing
<1>2. /\ BytesLeft(heap, root, Pay, stack, "body", Depth) = left /\ left \in Seq(Byte)
      /\ pc # "done" /\ Depth > 1 /\ out \in Seq(Byte) /\ IInv
  <2>1. /\ BytesLeft(heap, root, Pay, stack, "body", Depth) = PayloadIn(heap, Pay, Cur, Before)
        /\ BytesLeft(heap, root, Pay, stack, "body", Depth) \in Seq(Byte)
        /\ pc # "done" /\ Depth > 1 /\ out \in Seq(Byte) /\ IInv
    BY <1>1, BodyLeft
  <2>2. PayloadIn(heap, Pay, Cur, Before) = left
    BY <1>1, PayloadByType, Zenon
  <2> QED  BY <2>1, <2>2
<1>3. /\ IsMap(heap, stack, Depth) /\ Contents(heap, root, stack, Depth) = m /\ Top.todo = m
      /\ Depth # 1 /\ Depth = Len(stack) /\ Top = stack[Depth]
  BY <1>1, <1>2, TagFacts, BodyFacts, RunningFacts
<1>4. BytesLeft(heap, root, Pay, stack, "loop", Depth) = left
  <2>1. BytesLeft(heap, root, Pay, stack, "loop", Depth) = MapBytes(heap, root, Pay, stack, Depth)
    BY <1>3, LoopBytes DEF Entered
  <2> QED  BY <1>3, <2>1, Zenon DEF MapBytes
<1>5. out' = Then(out, << >>) /\ << >> \in Seq(Byte) /\ left = Then(<< >>, left)
  BY <1>1, <1>2, ThenNothing
<1>6. IInv'
  BY <1>2, EnterCompoundKeeps
<1> HIDE DEF left
<1> QED  BY <1>1, <1>2, <1>3, <1>4, <1>5, <1>6, LoopSplits

-----------------------------------------------------------------------------
(* The caller of a tag's WriteToBuffer has the rest to write                *)

LEMMA Resumed ==
  ASSUME DInv, IInv', pc = "return", ret # Error, NEW i, Resume(i),
         NEW n, n = Depth - 1, IsMap(heap, stack, n) => i = Caller.i,
         ~IsMap(heap, stack, n) => i = Caller.i + 1
  PROVE  DInv'
<1>1. /\ stack' = [SubSeq(stack, 1, n) EXCEPT ![n].next = @ + ret, ![n].i = i]
      /\ pc' = "loop" /\ out' = out /\ result' = result /\ Unchanged
  BY DEF Resume
<1>2. /\ pc # "done" /\ n \in 1 .. Len(stack) /\ n > 0 /\ n = Len(stack) - 1
      /\ Caller = stack[n] /\ Caller \in Frame /\ stack \in Seq(Frame) /\ Depth = Len(stack)
      /\ ret \in Int
  BY CallerFacts, RunningFacts DEF DInv
<1>3. i \in Nat
  BY <1>2, FrameType
<1>4. Alters(stack, stack', n, Caller.next + ret, i, Caller.todo)
  BY <1>1, <1>2, <1>3, AltersCaller, Zenon
<1>5. /\ Len(stack') = n /\ \A m \in 1 .. n - 1 : stack'[m] = stack[m]
      /\ stack'[n].tag = Caller.tag /\ stack'[n].i = i /\ stack'[n].todo = Caller.todo
  BY <1>2, <1>4 DEF Alters
<1>6. StackLives(stack', Live)
  <2>1. \A m \in 2 .. Len(stack) : stack[m].tag \in Live
    BY DEF DInv, StackLives
  <2>2. ASSUME NEW m \in 2 .. Len(stack') PROVE stack'[m].tag \in Live
    <3>1. m \in 2 .. Len(stack) /\ (m = n \/ m \in 1 .. n - 1)
      BY ONLY <1>2, <1>5, <2>2
    <3>2. stack'[m].tag = stack[m].tag
      BY ONLY <1>2, <1>5, <3>1
    <3> QED  BY ONLY <2>1, <3>1, <3>2
  <2> QED  BY <2>2 DEF StackLives
<1>7. BytesLeft(heap, root, Pay, stack', "loop", n) = BytesLeft(heap, root, Pay, stack, "return", n)
  <2>1. Entered(stack', "loop", n) /\ Entered(stack, "return", n)
    BY <1>2 DEF Entered
  <2>2. /\ IsMap(heap, stack', n) <=> IsMap(heap, stack, n)
        /\ Contents(heap, root, stack', n) = Contents(heap, root, stack, n)
    BY <1>2, <1>5, Zenon DEF IsMap, Contents
  <2>3. CASE IsMap(heap, stack, n)
    <3>1. MapBytes(heap, root, Pay, stack', n) = MapBytes(heap, root, Pay, stack, n)
      BY <1>2, <1>5, <2>2, Zenon DEF MapBytes
    <3>2. BytesLeft(heap, root, Pay, stack', "loop", n) = MapBytes(heap, root, Pay, stack', n)
      BY ONLY <2>1, <2>2, <2>3, LoopBytes
    <3>3. BytesLeft(heap, root, Pay, stack, "return", n) = MapBytes(heap, root, Pay, stack, n)
      BY ONLY <2>1, <2>3, LoopBytes
    <3> QED  BY <3>1, <3>2, <3>3
  <2>4. CASE ~IsMap(heap, stack, n)
    <3> DEFINE j == Caller.i
               k == stack'[n].i + (IF n < Len(stack') THEN 2 ELSE 1)
               l == stack[n].i + (IF n < Len(stack) THEN 2 ELSE 1)
    <3>1. j \in Nat /\ i = j + 1 /\ n < Len(stack) /\ ~(n < Len(stack'))
      BY <1>2, <1>5, <2>4, FrameType
    <3>2. k = j + 2 /\ l = j + 2
      BY <1>2, <1>5, <3>1
    <3> HIDE DEF k, l
    <3>3. ListBytes(heap, Pay, stack', n) = ListBytes(heap, Pay, stack, n)
      BY <1>2, <1>5, <3>2, Zenon DEF ListBytes, k, l
    <3>4. BytesLeft(heap, root, Pay, stack', "loop", n) = ListBytes(heap, Pay, stack', n)
      BY ONLY <2>1, <2>2, <2>4, LoopBytes
    <3>5. BytesLeft(heap, root, Pay, stack, "return", n) = ListBytes(heap, Pay, stack, n)
      BY ONLY <2>1, <2>4, LoopBytes
    <3> QED  BY <3>3, <3>4, <3>5
  <2> QED  BY <2>3, <2>4
<1>8. ~Failing /\ ~Failing' /\ heap' = heap /\ root' = root
  BY <1>1 DEF Failing, Unchanged
<1>9. ASSUME Granted PROVE Splits(Doc, heap, root, Pay, stack', pc', out')
  <2>1. Splits(Doc, heap, root, Pay, stack, "return", out)
    BY <1>2, <1>8, <1>9 DEF DInv
  <2>2. BytesLeft(heap, root, Pay, stack, "return", Depth) = << >>
    BY <1>2, BodyBytes
  <2>3. /\ n \in Nat \ {0} /\ Depth = n + 1 /\ Depth = Len(stack) /\ n = Len(stack')
        /\ \A m \in 1 .. n - 1 : stack'[m] = stack[m]
    BY <1>2, <1>5
  <2>4. Splits(Doc, heap, root, Pay, stack', "loop", out)
    BY ONLY <1>7, <2>1, <2>2, <2>3, SplitsPop
  <2> QED  BY <1>1, <2>4
<1> QED  BY <1>1, <1>2, <1>6, <1>8, <1>9, StepSplits

LEMMA EndsWriting ==
  ASSUME DInv, IInv', pc # "done", NEW how, NEW value, Ends(how, value),
         how = "written" /\ Granted => out = Doc
  PROVE  DInv'
<1>1. /\ pc' = "done" /\ result' = how /\ stack' = << >> /\ out' = out
      /\ heap' = heap /\ root' = root
  BY DEF Ends, Unchanged
<1>2. Doc' = Doc /\ Pay' = Pay /\ Live' = Live /\ Granted' = Granted
  BY <1>1, DocKept
<1>3. StackLives(stack, Live)'
  BY <1>1 DEF StackLives
<1>4. Granted' =>
        /\ (pc # "done" /\ ~Failing => Splits(Doc, heap, root, Pay, stack, pc, out))'
        /\ (\E x \in Seq(Byte) : Doc = Then(out, x))'
        /\ (result = "written" => out = Doc)'
  BY <1>1, <1>2 DEF DInv
<1> QED  BY <1>3, <1>4, Zenon DEF DInv

LEMMA ReturnedToWrite == ASSUME DInv, ReturnToWrite PROVE DInv'
<1> DEFINE n == Depth - 1
<1>1. /\ pc = "return" /\ Depth = 2
      /\ (ret # Error /\ Resume(Caller.i)) \/ (ret = Error /\ Ends("failed", Error))
  BY DEF ReturnToWrite
<1>2. IsMap(heap, stack, n) /\ IInv'
  BY <1>1, ReturnToWriteKeeps DEF IsMap, DInv
<1>3. CASE ret # Error /\ Resume(Caller.i)
  BY <1>1, <1>2, <1>3, Resumed
<1>4. CASE ret = Error /\ Ends("failed", Error)
  BY <1>1, <1>2, <1>4, EndsWriting
<1> QED  BY <1>1, <1>3, <1>4

LEMMA ReturnedToList == ASSUME DInv, ReturnToList PROVE DInv'
<1>1. pc = "return" /\ Depth > 2 /\ IsList(Caller.tag) /\ (ret # Error => Resume(Caller.i + 1))
  BY DEF ReturnToList
<1>2. /\ ret # Error /\ (IsMap(heap, stack, Depth - 1) <=> IsCompound(Caller.tag)) /\ IInv'
  BY <1>1, NestedFacts, ReturnToListKeeps DEF DInv
<1>3. ~IsMap(heap, stack, Depth - 1)
  BY <1>1, <1>2 DEF IsList, IsCompound, kTagList, kTagCompound
<1> QED  BY <1>1, <1>2, <1>3, Resumed

LEMMA ReturnedToCompound == ASSUME DInv, ReturnToCompound PROVE DInv'
<1>1. pc = "return" /\ Depth > 2 /\ IsCompound(Caller.tag) /\ Resume(Caller.i)
  BY DEF ReturnToCompound
<1>2. ret # Error /\ IsMap(heap, stack, Depth - 1) /\ IInv'
  BY <1>1, NestedFacts, ReturnToCompoundKeeps DEF DInv
<1> QED  BY <1>1, <1>2, Resumed

-----------------------------------------------------------------------------
(* Write begins, and is over                                                *)

LEMMA RootTagFailed == ASSUME DInv, RootTagFails PROVE DInv'
<1>1. pc = "loop" /\ Ends("failed", Error) /\ "failed" # "written"
  BY DEF RootTagFails
<1>2. IInv'
  BY RootTagFailsKeeps DEF DInv
<1> QED  BY <1>1, <1>2, EndsWriting

LEMMA WriteReturned == ASSUME DInv, WriteReturns PROVE DInv'
<1>1. pc = "loop" /\ InWrite /\ Top.todo = {} /\ Ends("written", Top.next)
  BY DEF WriteReturns
<1>2. /\ pc # "done" /\ Depth = 1 /\ IsMap(heap, stack, Depth) /\ Depth = Len(stack)
      /\ Contents(heap, root, stack, Depth) = root /\ out \in Seq(Byte) /\ ~Failing
      /\ Entity(heap, root)
  BY <1>1, RootFacts, RunningFacts DEF DInv, Failing
<1>3. BytesLeft(heap, root, Pay, stack, "loop", Depth) = << >>
  <2> DEFINE b == Names(heap, Pay, root)
  <2>1. /\ BytesLeft(heap, root, Pay, stack, "loop", Depth)
             = Then(InOrder({}, Before, b), Closing(Depth))
        /\ root \in Map /\ Keyed(root) /\ \A e \in root : b[e] \in Seq(Byte)
    BY <1>1, <1>2, MapLoopLeft
  <2> HIDE DEF b
  <2>2. InOrder({}, Before, b) = << >>
    BY <2>1, EntriesInOrder
  <2>3. Closing(Depth) = << >> /\ << >> \in Seq(Byte)
    BY <1>2 DEF Closing
  <2> QED  BY <2>1, <2>2, <2>3, ThenNothing, Zenon
<1>4. ASSUME Granted PROVE out = Doc
  <2>1. PICK rest \in [0 .. 1 -> Seq(Byte)] :
          Ahead(rest, heap, root, Pay, stack, "loop") /\ Doc = Then(out, rest[1])
    BY <1>1, <1>2, <1>4 DEF DInv, Splits
  <2>2. rest[0] = << >> /\ rest[1] = Then(<< >>, rest[0]) /\ << >> \in Seq(Byte)
    <3>1. rest[0] = << >> /\ << >> \in Seq(Byte)
      BY <2>1 DEF Ahead
    <3>2. 1 \in 1 .. Len(stack) /\ 1 - 1 = 0
      <4>1. Len(stack) = 1
        BY ONLY <1>2
      <4> QED  BY ONLY <4>1
    <3>3. rest[1] = Then(BytesLeft(heap, root, Pay, stack, "loop", 1), rest[1 - 1])
      BY <2>1, <3>2 DEF Ahead
    <3>4. BytesLeft(heap, root, Pay, stack, "loop", 1) = << >>
      BY <1>2, <1>3
    <3> QED  BY <3>1, <3>2, <3>3, <3>4
  <2>3. rest[1] = << >>
    BY <2>2, ThenNothing
  <2> QED  BY <1>2, <2>1, <2>3, ThenNothing
<1>5. IInv'
  BY WriteReturnsKeeps DEF DInv
<1> QED  BY <1>1, <1>2, <1>4, <1>5, EndsWriting

LEMMA WriteBegun == ASSUME DInv, NEW size \in Limits, Write(size) PROVE DInv'
<1> DEFINE f == NewFrame(Null, 0, root)
           s == <<f>>
           b == Names(heap, Pay, root)
<1>1. /\ pc = "done" /\ out' = << >> /\ stack' = s /\ pc' = "loop" /\ result' = "none"
      /\ heap' = heap /\ root' = root
  BY DEF Write
<1>2. Entity(heap, root) /\ IInv'
  BY WriteKeeps DEF DInv, IInv
<1>3. Doc' = Doc /\ Pay' = Pay /\ Live' = Live /\ Granted' = Granted /\ Doc \in Seq(Byte)
  BY <1>1, <1>2, DocKept, DocType
<1>4. Len(s) = 1 /\ s[1].todo = root
  BY DEF NewFrame
<1> HIDE DEF f, s
<1>5. BytesLeft(heap, root, Pay, s, "loop", 1) = Doc
  <2>1. Entered(s, "loop", 1) /\ IsMap(heap, s, 1) /\ Contents(heap, root, s, 1) = root
    BY Zenon DEF Entered, IsMap, Contents
  <2>2. BytesLeft(heap, root, Pay, s, "loop", 1) = MapBytes(heap, root, Pay, s, 1)
    BY ONLY <2>1, LoopBytes
  <2>3. MapBytes(heap, root, Pay, s, 1) = Then(Doc, << >>)
    BY <1>4, <2>1, DocIs, Zenon DEF MapBytes
  <2> QED  BY <1>3, <2>2, <2>3, ThenNothing
<1>6. Splits(Doc, heap, root, Pay, s, "loop", << >>)
  <2> DEFINE rest == [k \in 0 .. 1 |-> IF k = 0 THEN << >> ELSE Doc]
  <2>1. << >> \in Seq(Byte) /\ Then(Doc, << >>) = Doc /\ Then(<< >>, Doc) = Doc
    BY <1>3, ThenNothing
  <2>2. rest \in [0 .. 1 -> Seq(Byte)] /\ rest[0] = << >> /\ rest[1] = Doc
    BY <1>3, <2>1
  <2> HIDE DEF rest
  <2>3. Ahead(rest, heap, root, Pay, s, "loop")
    <3>1. ASSUME NEW k \in 1 .. Len(s)
          PROVE  rest[k] = Then(BytesLeft(heap, root, Pay, s, "loop", k), rest[k - 1])
      <4>1. k = 1 /\ k - 1 = 0
        BY <1>4
      <4> QED  BY <1>5, <2>1, <2>2, <4>1
    <3> QED  BY <2>2, <3>1 DEF Ahead
  <2> QED  BY <1>4, <2>1, <2>2, <2>3 DEF Splits
<1>7. StackLives(stack, Live)'
  BY <1>1, <1>4 DEF StackLives
<1>8. Granted' =>
        /\ (pc # "done" /\ ~Failing => Splits(Doc, heap, root, Pay, stack, pc, out))'
        /\ (\E x \in Seq(Byte) : Doc = Then(out, x))'
        /\ (result = "written" => out = Doc)'
  <2>1. Doc = Then(<< >>, Doc)
    BY <1>3, ThenNothing
  <2>2. \E x \in Seq(Byte) : Doc = Then(<< >>, x)
    BY <1>3, <2>1
  <2> QED  BY <1>1, <1>3, <1>6, <2>2
<1> QED  BY <1>2, <1>7, <1>8, Zenon DEF DInv

-----------------------------------------------------------------------------
(* DInv is an invariant                                                     *)

LEMMA DocumentBegins == Init => DInv
<1> SUFFICES ASSUME Init PROVE DInv
  OBVIOUS
<1>1. out = << >> /\ stack = << >> /\ pc = "done" /\ result = "none"
  BY DEF Init
<1>2. IInv
  BY InitHolds
<1>3. Doc \in Seq(Byte)
  BY <1>2, DocType DEF IInv
<1>4. Doc = Then(out, Doc)
  BY <1>1, <1>3, ThenNothing
<1>5. StackLives(stack, Live)
  BY <1>1 DEF StackLives
<1> QED  BY <1>1, <1>2, <1>3, <1>4, <1>5 DEF DInv

LEMMA DocumentStutters == ASSUME DInv, UNCHANGED vars PROVE DInv'
<1>1. /\ heap' = heap /\ root' = root /\ out' = out /\ stack' = stack
      /\ pc' = pc /\ ret' = ret /\ result' = result
  BY DEF vars
<1>2. Doc' = Doc /\ Pay' = Pay /\ Live' = Live /\ Granted' = Granted /\ (Failing' <=> Failing)
  BY <1>1, DocKept, Zenon DEF Failing
<1>3. IInv'
  BY StutterKeeps DEF DInv
<1>4. StackLives(stack, Live)'
  BY <1>1, <1>2 DEF DInv
<1>5. Granted' =>
        /\ (pc # "done" /\ ~Failing => Splits(Doc, heap, root, Pay, stack, pc, out))'
        /\ (\E x \in Seq(Byte) : Doc = Then(out, x))'
        /\ (result = "written" => out = Doc)'
  BY <1>1, <1>2 DEF DInv
<1> QED  BY <1>3, <1>4, <1>5, Zenon DEF DInv

LEMMA DocumentKept == DInv /\ [Next]_vars => DInv'
<1> SUFFICES ASSUME DInv, [Next]_vars PROVE DInv'
  OBVIOUS
<1>1. CASE WriteRootTag       BY <1>1, RootTagWritten
<1>2. CASE RootTagFails       BY <1>2, RootTagFailed
<1>3. CASE WriteReturns       BY <1>3, WriteReturned
<1>4. CASE WriteScalar        BY <1>4, ScalarWritten
<1>5. CASE WriteString        BY <1>5, StringWritten
<1>6. CASE WriteArray         BY <1>6, ArrayWritten
<1>7. CASE WriteArrayLength   BY <1>7, ArrayLengthWritten
<1>8. CASE LeafFails          BY <1>8, LeafFailed
<1>9. CASE WriteEmptyList     BY <1>9, EmptyListWritten
<1>10. CASE EnterList         BY <1>10, ListEntered
<1>11. CASE ListFails         BY <1>11, ListFailed
<1>12. CASE WriteElement      BY <1>12, ElementWritten
<1>13. CASE FinishList        BY <1>13, ListFinished
<1>14. CASE EnterCompound     BY <1>14, CompoundEntered
<1>15. CASE WriteChild        BY <1>15, ChildWritten
<1>16. CASE ChildFails        BY <1>16, ChildFailed
<1>17. CASE FinishCompound    BY <1>17, CompoundFinished
<1>18. CASE CompoundEndFails  BY <1>18, CompoundEndFailed
<1>19. CASE ReturnToWrite     BY <1>19, ReturnedToWrite
<1>20. CASE ReturnToList      BY <1>20, ReturnedToList
<1>21. CASE ReturnToCompound  BY <1>21, ReturnedToCompound
<1>22. ASSUME NEW size \in Limits, Write(size) PROVE DInv'
  BY <1>22, WriteBegun
<1>23. CASE UNCHANGED vars    BY <1>23, DocumentStutters
<1> QED
  BY <1>1, <1>2, <1>3, <1>4, <1>5, <1>6, <1>7, <1>8, <1>9, <1>10, <1>11, <1>12, <1>13, <1>14,
     <1>15, <1>16, <1>17, <1>18, <1>19, <1>20, <1>21, <1>22, <1>23 DEF Next, WriteStep

(* Whatever the entity and the size of the buffer, Write has written a front *)
(* of the document that the format asks for, its maps in the order of their *)
(* keys, and all of that document when it returns a number of bytes.        *)
THEOREM DocumentWritten == Spec => []WritesDocument
<1>1. Init => DInv
  BY DocumentBegins
<1>2. DInv /\ [Next]_vars => DInv'
  BY DocumentKept
<1>3. DInv => WritesDocument
  <2> SUFFICES ASSUME DInv, Granted PROVE IsPrefix(out, Doc) /\ (result = "written" => out = Doc)
    BY Zenon DEF WritesDocument, Granted, Doc
  <2>1. PICK x \in Seq(Byte) : Doc = Then(out, x)
    BY DEF DInv
  <2>2. out \in Seq(Byte)
    BY DEF DInv, IInv, TypeOK
  <2>3. IsPrefix(out, Doc)
    BY <2>1, <2>2, ThenPrefix
  <2> QED  BY <2>3 DEF DInv
<1> QED  BY <1>1, <1>2, <1>3, PTL DEF Spec

=============================================================================
