--------------------------- MODULE TagLoad_proofs ---------------------------
(***************************************************************************)
(* What Load leaves in memory is what the format reads in the buffer.      *)
(*                                                                         *)
(* LoadFaithful speaks of a Load that is over, and of tags that a map may  *)
(* have lost since.  The invariant keeps, for every tag made, the bytes    *)
(* that were read for it and the container that it was read into (`z` and  *)
(* `o` below; a tag still being read is its own): each active call has     *)
(* read, from its start to its offset, the bytes of the tags read into it, *)
(* in the order of their age.                                              *)
(***************************************************************************)
EXTENDS TagReader_proofs, TagReaderFormat

USE DEF Null

-----------------------------------------------------------------------------
(* The bytes of b from offset m to offset n                                 *)

Span(b, m, n) == SubSeq(b, m + 1, n)

LEMMA SpanType ==
  ASSUME NEW b \in Seq(Byte), NEW m \in Nat, NEW n \in Nat, m <= n, n <= Len(b)
  PROVE  Span(b, m, n) \in Seq(Byte) /\ Len(Span(b, m, n)) = n - m
<1>1. \A i \in m + 1 .. n : b[i] \in Byte
  <2> TAKE i \in m + 1 .. n
  <2>1. i \in 1 .. Len(b)
    OBVIOUS
  <2> QED  BY <2>1, ElementOfSeq
<1>2. m + 1 \in Int /\ n \in Int
  OBVIOUS
<1>3. /\ SubSeq(b, m + 1, n) \in Seq(Byte)
      /\ Len(SubSeq(b, m + 1, n)) = IF m + 1 <= n THEN n - (m + 1) + 1 ELSE 0
  BY <1>1, <1>2, SubSeqProperties
<1> QED  BY <1>3 DEF Span

LEMMA SpanNothing == ASSUME NEW b, NEW m \in Nat PROVE Span(b, m, m) = << >>
<1>1. m + 1 \in Int /\ m \in Int /\ m < m + 1
  OBVIOUS
<1> QED  BY <1>1, SubSeqEmpty DEF Span

LEMMA SpanJoin ==
  ASSUME NEW b \in Seq(Byte), NEW l \in Nat, NEW m \in Nat, NEW n \in Nat,
         l <= m, m <= n, n <= Len(b)
  PROVE  Span(b, l, n) = Then(Span(b, l, m), Span(b, m, n))
<1>1. l + 1 \in 1 .. Len(b) + 1 /\ m \in (l + 1) - 1 .. Len(b) /\ n \in m .. Len(b)
  OBVIOUS
<1> QED  BY <1>1, ConcatAdjacentSubSeq DEF Span, Then

LEMMA SpanByte ==
  ASSUME NEW b \in Seq(Byte), NEW m \in Nat, m + 1 <= Len(b)
  PROVE  Span(b, m, m + 1) = <<At(b, m)>>
<1> DEFINE c == Span(b, m, m + 1)
<1>1. c \in Seq(Byte) /\ Len(c) = 1
  <2>1. m + 1 \in Nat /\ m <= m + 1 /\ (m + 1) - m = 1
    OBVIOUS
  <2> QED  BY <2>1, SpanType
<1>2. c[1] = b[m + 1]
  <2>1. \A i \in m + 1 .. m + 1 : b[i] \in Byte
    BY ElementOfSeq
  <2>2. m + 1 \in Int
    OBVIOUS
  <2>3. SubSeq(b, m + 1, m + 1)[1] = b[m + 1 + 1 - 1]
    BY <2>1, <2>2, SubSeqProperties
  <2> QED  BY <2>3 DEF Span
<1> HIDE DEF c
<1>3. c = <<c[1]>>
  BY <1>1
<1> QED  BY <1>2, <1>3 DEF At, c

LEMMA SpanU16 ==
  ASSUME NEW b \in Seq(Byte), NEW m \in Nat, m + 2 <= Len(b)
  PROVE  /\ Span(b, m, m + 2) = U16(U16At(b, m))
         /\ U16At(b, m) \in Nat /\ U16At(b, m) < 65536
<1>1. Span(b, m, m + 2) = Then(Span(b, m, m + 1), Span(b, m + 1, m + 2))
  BY SpanJoin
<1>2. Span(b, m, m + 1) = <<At(b, m)>>
  BY SpanByte
<1>3. Span(b, m + 1, m + 2) = <<At(b, m + 1)>>
  <2>1. m + 1 \in Nat /\ (m + 1) + 1 = m + 2
    OBVIOUS
  <2> QED  BY <2>1, SpanByte
<1> DEFINE x == At(b, m)
           y == At(b, m + 1)
<1>4. x \in 0 .. 255 /\ y \in 0 .. 255
  <2>1. m + 1 \in Nat /\ m + 1 < Len(b) /\ m < Len(b)
    OBVIOUS
  <2> QED  BY <2>1, ByteAt DEF Byte
<1>5. U16At(b, m) = 256 * x + y
  BY DEF U16At
<1>10. Span(b, m, m + 2) = <<x>> \o <<y>>
  BY <1>1, <1>2, <1>3, Zenon DEF Then
<1> HIDE DEF x, y
<1>11. <<x>> \o <<y>> = <<x, y>>
  <2> DEFINE c == <<x>>
             d == <<y>>
             e == <<x, y>>
  <2>1. /\ c \in Seq(Nat) /\ Len(c) = 1 /\ c[1] = x
        /\ d \in Seq(Nat) /\ Len(d) = 1 /\ d[1] = y
        /\ e \in Seq(Nat) /\ Len(e) = 2 /\ e[1] = x /\ e[2] = y
    BY <1>4
  <2> HIDE DEF c, d, e
  <2>2. /\ c \o d \in Seq(Nat) /\ Len(c \o d) = 2
        /\ (c \o d)[1] = x /\ (c \o d)[2] = y
    <3>1. /\ c \o d \in Seq(Nat) /\ Len(c \o d) = Len(c) + Len(d)
          /\ \A i \in 1 .. Len(c) + Len(d) : (c \o d)[i] =
                    IF i <= Len(c) THEN c[i] ELSE d[i - Len(c)]
      BY <2>1, ConcatProperties, Zenon
    <3>2. Len(c) + Len(d) = 2
      BY <2>1
    <3>3. /\ (c \o d)[1] = IF 1 <= Len(c) THEN c[1] ELSE d[1 - Len(c)]
          /\ (c \o d)[2] = IF 2 <= Len(c) THEN c[2] ELSE d[2 - Len(c)]
      BY <3>1, <3>2
    <3> QED  BY <2>1, <3>1, <3>2, <3>3
  <2>3. \A i \in 1 .. Len(c \o d) : (c \o d)[i] = e[i]
    BY <2>1, <2>2
  <2>4. c \o d = e
    BY <2>1, <2>2, <2>3, SeqEqual
  <2> QED  BY <2>4 DEF c, d, e
<1>6. Span(b, m, m + 2) = <<x, y>>
  BY <1>10, <1>11, Zenon
<1>7. (256 * x + y) \div 256 = x /\ (256 * x + y) % 256 = y /\ x % 256 = x
  BY <1>4
<1>8. U16(256 * x + y) = <<x, y>>
  BY <1>7 DEF U16
<1>9. 256 * x + y \in Nat /\ 256 * x + y < 65536
  BY <1>4
<1> QED  BY <1>5, <1>6, <1>8, <1>9

LEMMA SpanU32 ==
  ASSUME NEW b \in Seq(Byte), NEW m \in Nat, m + 4 <= Len(b)
  PROVE  Span(b, m, m + 4) = U32(U32At(b, m)) /\ U32At(b, m) \in Nat
<1> DEFINE x == U16At(b, m)
           y == U16At(b, m + 2)
<1>1. Span(b, m, m + 2) = U16(x) /\ x \in Nat /\ x < 65536
  BY SpanU16
<1>2. Span(b, m + 2, m + 4) = U16(y) /\ y \in Nat /\ y < 65536
  <2>1. m + 2 \in Nat /\ (m + 2) + 2 = m + 4
    OBVIOUS
  <2> QED  BY <2>1, SpanU16
<1>3. U32At(b, m) = 65536 * x + y
  BY DEF U32At
<1>4. Span(b, m, m + 4) = U16(x) \o U16(y)
  <2>1. Span(b, m, m + 4) = Then(Span(b, m, m + 2), Span(b, m + 2, m + 4))
    BY SpanJoin
  <2> QED  BY <1>1, <1>2, <2>1 DEF Then
<1> HIDE DEF x, y
<1> DEFINE n == 65536 * x + y
<1>5. n \div 65536 = x /\ n \in Nat
  BY <1>1, <1>2
<1>6. U16(n) = U16(y)
  <2>1. n % 256 = y % 256
    BY <1>1, <1>2
  <2>2. (n \div 256) % 256 = (y \div 256) % 256
    <3>1. n \div 256 = 256 * x + (y \div 256)
      BY <1>1, <1>2
    <3>2. y \div 256 \in Nat
      BY <1>2
    <3> DEFINE v == y \div 256
    <3> HIDE DEF v
    <3>3. (256 * x + v) % 256 = v % 256
      BY <1>1, <3>2 DEF v
    <3> QED  BY <3>1, <3>3 DEF v
  <2> QED  BY <2>1, <2>2 DEF U16
<1>7. U32(n) = U16(x) \o U16(y)
  BY <1>5, <1>6 DEF U32
<1> HIDE DEF n
<1>8. U32At(b, m) = n
  BY <1>3 DEF n
<1> QED  BY <1>4, <1>5, <1>7, <1>8

(* The byte behind the buffer makes no difference to what is read in it.    *)
LEMMA SpanWithin ==
  ASSUME NEW b \in Seq(Byte), NEW x \in Byte, NEW m \in Nat, NEW n \in Nat,
         m <= n, n <= Len(b)
  PROVE  Span(Append(b, x), m, n) = Span(b, m, n)
<1> DEFINE e == Append(b, x)
<1>1. e \in Seq(Byte) /\ Len(e) = Len(b) + 1 /\ \A i \in 1 .. Len(b) : e[i] = b[i]
  BY AppendProperties
<1> HIDE DEF e
<1>2. \A i \in m + 1 .. n : e[i] = b[i] /\ e[i] \in Byte /\ b[i] \in Byte
  <2> TAKE i \in m + 1 .. n
  <2>1. i \in 1 .. Len(b)
    OBVIOUS
  <2> QED  BY <1>1, <2>1, ElementOfSeq
<1>3. m + 1 \in Int /\ n \in Int
  OBVIOUS
<1> DEFINE c == SubSeq(e, m + 1, n)
           d == SubSeq(b, m + 1, n)
<1>4. /\ c \in Seq(Byte) /\ d \in Seq(Byte) /\ Len(c) = Len(d)
      /\ Len(c) = IF m + 1 <= n THEN n - (m + 1) + 1 ELSE 0
      /\ \A i \in 1 .. n - (m + 1) + 1 : c[i] = e[m + 1 + i - 1] /\ d[i] = b[m + 1 + i - 1]
  BY <1>2, <1>3, SubSeqProperties
<1> HIDE DEF c, d
<1>5. \A i \in 1 .. Len(c) : c[i] = d[i]
  <2> TAKE i \in 1 .. Len(c)
  <2>1. i \in 1 .. n - (m + 1) + 1 /\ m + 1 + i - 1 \in m + 1 .. n
    BY <1>4
  <2> QED  BY <1>2, <1>4, <2>1
<1>6. c = d
  BY <1>4, <1>5, SeqEqual
<1> QED  BY <1>6 DEF c, d, e, Span


-----------------------------------------------------------------------------
(* The tags read into c, by `o`, and what they are in the format, by `z`    *)

Into(o, n, c)   == {x \in c + 1 .. n : o[x] = c}
Entry(h, x)     == <<h[x].name, x>>
ReadInto(h, o, c) == {Entry(h, x) : x \in Into(o, Len(h), c)}

Lead(h, x) == Then(Then(<<h[x].type>>, U16(Len(h[x].name))), h[x].name)
Row(h, z, e)    == Then(Lead(h, e[2]), z[e[2]])
Rows(h, z, R)   == [e \in R |-> Row(h, z, e)]
ReadBytes(h, o, z, c) == InOrder(ReadInto(h, o, c), AsRead, Rows(h, z, ReadInto(h, o, c)))

KidBytes(h, z, c, n)  == [j \in 1 .. n |-> z[h[c].kids[j]]]
KidsBytes(h, z, c, n) == InOrder(1 .. n, ByIndex, KidBytes(h, z, c, n))
ListBytes(h, z, c, n) == Then(Then(<<h[c].ctype>>, U32(Len(h[c].kids))), KidsBytes(h, z, c, n))

(* A tag with all that was read into it, and its payload. *)
Full(h, o, c)     == [h[c] EXCEPT !.map = ReadInto(h, o, c)]
Whole(h, o, z, c) == PayloadIn(h, z, Full(h, o, c), AsRead)

LEMMA EntryIs == ASSUME NEW h, NEW x PROVE Entry(h, x)[1] = h[x].name /\ Entry(h, x)[2] = x
BY DEF Entry

LEMMA EntriesRead ==
  ASSUME NEW h \in Seq(Tag), NEW o, NEW c \in Nat
  PROVE  /\ \A e \in ReadInto(h, o, c) : e[2] \in Into(o, Len(h), c) /\ e = Entry(h, e[2])
         /\ \A x \in Into(o, Len(h), c) : Entry(h, x) \in ReadInto(h, o, c)
         /\ Into(o, Len(h), c) \subseteq 1 .. Len(h)
         /\ Aged(ReadInto(h, o, c)) /\ IsFiniteSet(ReadInto(h, o, c))
<1> DEFINE I == Into(o, Len(h), c)
           R == ReadInto(h, o, c)
<1>1. I \subseteq 1 .. Len(h)
  BY DEF Into
<1>2. R = {Entry(h, x) : x \in I}
  BY DEF ReadInto
<1> HIDE DEF I, R
<1>3. \A e \in R : e[2] \in I /\ e = Entry(h, e[2])
  BY <1>2, EntryIs
<1>4. \A x \in I : Entry(h, x) \in R
  BY <1>2
<1>5. Aged(R)
  <2>1. \A e \in R : e[2] \in Nat
    <3>1. \A x \in I : x \in Nat
      BY <1>1
    <3> QED  BY <1>3, <3>1
  <2>2. \A e, f \in R : e[2] = f[2] => e = f
    BY <1>3
  <2> QED  BY <2>1, <2>2 DEF Aged
<1>6. IsFiniteSet(R)
  <2>1. IsFiniteSet(I)
    <3>1. 1 \in Int /\ Len(h) \in Int
      OBVIOUS
    <3>2. IsFiniteSet(1 .. Len(h))
      BY <3>1, FS_Interval
    <3> QED  BY <1>1, <3>2, FS_Subset
  <2> DEFINE f == [x \in I |-> Entry(h, x)]
  <2>2. f \in Surjection(I, R)
    BY <1>2 DEF Surjection
  <2> QED  BY <2>1, <2>2, FS_Surjection
<1> QED  BY <1>1, <1>3, <1>4, <1>5, <1>6 DEF I, R

LEMMA LeadType ==
  ASSUME NEW h \in Seq(Tag), NEW x \in 1 .. Len(h)
  PROVE  Lead(h, x) \in Seq(Byte)
<1>1. h[x] \in Tag
  BY ElementOfSeq
<1>2. h[x].name \in Seq(Byte) /\ <<h[x].type>> \in Seq(Byte) /\ Len(h[x].name) \in Nat
  BY <1>1, SMTT(30) DEF Tag, Name, TagTypes, Byte, kTagByte, kTagIntArray
<1>3. U16(Len(h[x].name)) \in Seq(Byte)
  BY <1>2, U16Bytes
<1> QED  BY <1>2, <1>3, ThenType DEF Lead

LEMMA RowType ==
  ASSUME NEW h \in Seq(Tag), NEW o, NEW c \in Nat, NEW z \in [1 .. Len(h) -> Seq(Byte)],
         NEW e \in ReadInto(h, o, c)
  PROVE  Row(h, z, e) \in Seq(Byte)
<1>1. e[2] \in 1 .. Len(h)
  BY EntriesRead
<1>2. Lead(h, e[2]) \in Seq(Byte) /\ z[e[2]] \in Seq(Byte)
  BY <1>1, LeadType
<1> QED  BY <1>2, ThenType DEF Row

(* The payload of c, whose type is t. *)
ByType(h, o, z, c, t) ==
  /\ t \in ScalarTypes => Whole(h, o, z, c) = h[c].data
  /\ t \in ArrayTypes  =>
       Whole(h, o, z, c) = Then(U32(Len(h[c].data) \div ElementSize(t)), h[c].data)
  /\ t = kTagString    => Whole(h, o, z, c) = Then(U16(Len(h[c].data)), h[c].data)
  /\ t = kTagList      =>
       Whole(h, o, z, c) = IF h[c].ctype = kTagEnd THEN Then(<<kTagEnd>>, U32(1))
                           ELSE ListBytes(h, z, c, Len(h[c].kids))
  /\ t = kTagCompound  => Whole(h, o, z, c) = Then(ReadBytes(h, o, z, c), <<kTagEnd>>)

LEMMA WholeByType ==
  ASSUME NEW h \in Seq(Tag), NEW o, NEW z, NEW c \in 1 .. Len(h)
  PROVE  ByType(h, o, z, c, h[c].type)
<1> DEFINE tag == Full(h, o, c)
           R == ReadInto(h, o, c)
           t == h[c].type
<1>1. h[c] \in Tag
  BY ElementOfSeq
<1>2. /\ tag.type = t /\ tag.data = h[c].data /\ tag.ctype = h[c].ctype
      /\ tag.kids = h[c].kids /\ tag.map = R
  BY <1>1 DEF Full, Tag
<1>3. DOMAIN h[c].kids = 1 .. Len(h[c].kids)
  <2>1. h[c].kids \in Seq(Nat)
    BY <1>1 DEF Tag
  <2> QED  BY <2>1, LenProperties
<1>4. /\ t \in ScalarTypes => /\ t \notin ArrayTypes
                              /\ t \notin {kTagString, kTagList, kTagCompound}
      /\ t \in ArrayTypes => t \notin {kTagString, kTagList, kTagCompound}
      /\ kTagString \notin {kTagList, kTagCompound} /\ kTagList # kTagCompound
  BY DEF ScalarTypes, ArrayTypes, kTagByte, kTagDouble, kTagByteArray, kTagIntArray,
     kTagString, kTagList, kTagCompound
<1>5. \A e \in R : Row(h, z, e) = Named(h, e, z)
  <2> TAKE e \in R
  <2>1. e[1] = h[e[2]].name
    BY EntriesRead, EntryIs
  <2> QED  BY <2>1, Zenon DEF Row, Named, Lead, Then
<1>6. Rows(h, z, R) = [e \in R |-> Named(h, e, z)]
  BY <1>5, Zenon DEF Rows
<1>7. Whole(h, o, z, c) = PayloadIn(h, z, tag, AsRead)
  BY DEF Whole
<1> HIDE DEF tag, t, R
<1>8. t \in ScalarTypes => Whole(h, o, z, c) = h[c].data
  BY <1>2, <1>4, <1>7, Zenon DEF PayloadIn
<1>9. t \in ArrayTypes =>
        Whole(h, o, z, c) = Then(U32(Len(h[c].data) \div ElementSize(t)), h[c].data)
  BY <1>2, <1>4, <1>7, Zenon DEF PayloadIn, Then
<1>10. t = kTagString => Whole(h, o, z, c) = Then(U16(Len(h[c].data)), h[c].data)
  BY <1>2, <1>4, <1>7, Zenon DEF PayloadIn, Then
<1>11. t = kTagList =>
         Whole(h, o, z, c) = IF h[c].ctype = kTagEnd THEN Then(<<kTagEnd>>, U32(1))
                             ELSE ListBytes(h, z, c, Len(h[c].kids))
  <2>1. KidsInOrder(h[c].kids, z) = KidsBytes(h, z, c, Len(h[c].kids))
    BY <1>3, Zenon DEF KidsInOrder, KidsBytes, KidBytes
  <2> QED  BY <1>2, <1>4, <1>7, <2>1, Zenon DEF PayloadIn, Then, ListBytes
<1>12. t = kTagCompound => Whole(h, o, z, c) = Then(ReadBytes(h, o, z, c), <<kTagEnd>>)
  <2>1. NamedInOrder(h, R, AsRead, z) = ReadBytes(h, o, z, c)
    BY <1>6, Zenon DEF NamedInOrder, ReadBytes, R
  <2> QED  BY <1>2, <1>4, <1>7, <2>1, Zenon DEF PayloadIn, Then
<1>13. ByType(h, o, z, c, t)
  BY <1>8, <1>9, <1>10, <1>11, <1>12 DEF ByType
<1> QED  BY <1>13 DEF t

-----------------------------------------------------------------------------
(* What was read into a tag stays as it is                                  *)

Same(h, o, z, g, q, w, c) ==
  /\ Into(q, Len(g), c) = Into(o, Len(h), c)
  /\ \A x \in Into(o, Len(h), c) :
       g[x].type = h[x].type /\ g[x].name = h[x].name /\ w[x] = z[x]

LEMMA SameReads ==
  ASSUME NEW h \in Seq(Tag), NEW o, NEW z, NEW g, NEW q, NEW w, NEW c \in Nat,
         Same(h, o, z, g, q, w, c)
  PROVE  ReadBytes(g, q, w, c) = ReadBytes(h, o, z, c)
<1> DEFINE I == Into(o, Len(h), c)
           R == ReadInto(h, o, c)
<1>1. \A x \in I : Entry(g, x) = Entry(h, x)
  BY DEF Same, Entry
<1>2. ReadInto(g, q, c) = R
  <2>1. ReadInto(g, q, c) = {Entry(g, x) : x \in I}
    BY DEF ReadInto, Same
  <2> QED  BY <1>1, <2>1, Zenon DEF ReadInto
<1>3. \A e \in R : Row(g, w, e) = Row(h, z, e)
  <2> TAKE e \in R
  <2>1. e[2] \in I
    BY EntriesRead
  <2> QED  BY <2>1, Zenon DEF Same, Row, Lead
<1>4. Rows(g, w, R) = Rows(h, z, R)
  BY <1>3, Zenon DEF Rows
<1> QED  BY <1>2, <1>4, Zenon DEF ReadBytes

(* The first n children of c were read into it. *)
KidsRead(h, o, c, n) ==
  /\ n \in 0 .. Len(h[c].kids)
  /\ \A j \in 1 .. n : h[c].kids[j] \in Into(o, Len(h), c)

LEMMA SameKids ==
  ASSUME NEW h, NEW o, NEW z, NEW g, NEW q, NEW w, NEW c, NEW n,
         Same(h, o, z, g, q, w, c), KidsRead(h, o, c, n), g[c].kids = h[c].kids
  PROVE  KidsBytes(g, w, c, n) = KidsBytes(h, z, c, n)
<1>1. \A j \in 1 .. n : w[g[c].kids[j]] = z[h[c].kids[j]]
  BY DEF Same, KidsRead
<1>2. KidBytes(g, w, c, n) = KidBytes(h, z, c, n)
  BY <1>1, Zenon DEF KidBytes
<1> QED  BY <1>2, Zenon DEF KidsBytes

SamePart(h, g, c) ==
  /\ g[c].type = h[c].type /\ g[c].data = h[c].data
  /\ g[c].ctype = h[c].ctype /\ g[c].kids = h[c].kids

LEMMA SameWhole ==
  ASSUME NEW h \in Seq(Tag), NEW o, NEW z, NEW g \in Seq(Tag), NEW q, NEW w,
         NEW c \in 1 .. Len(h), c \in 1 .. Len(g),
         Same(h, o, z, g, q, w, c), SamePart(h, g, c),
         h[c].type = kTagList => KidsRead(h, o, c, Len(h[c].kids))
  PROVE  Whole(g, q, w, c) = Whole(h, o, z, c)
<1> DEFINE t == h[c].type
<1>1. t \in ScalarTypes \/ t \in ArrayTypes \/ t \in {kTagString, kTagList, kTagCompound}
  <2>1. h[c] \in Tag
    BY ElementOfSeq
  <2>2. t \in TagTypes
    BY <2>1 DEF Tag
  <2> QED  BY <2>2 DEF TagTypes, ScalarTypes, ArrayTypes, kTagByte, kTagDouble,
                       kTagByteArray, kTagIntArray, kTagString, kTagList, kTagCompound
<1>2. ReadBytes(g, q, w, c) = ReadBytes(h, o, z, c)
  BY SameReads
<1>3. t = kTagList => KidsBytes(g, w, c, Len(h[c].kids)) = KidsBytes(h, z, c, Len(h[c].kids))
  BY SameKids DEF SamePart
<1>4. /\ g[c].type = t /\ g[c].data = h[c].data
      /\ g[c].ctype = h[c].ctype /\ g[c].kids = h[c].kids
  BY DEF SamePart
<1>5. t = kTagList => ListBytes(g, w, c, Len(g[c].kids)) = ListBytes(h, z, c, Len(h[c].kids))
  BY <1>3, <1>4, Zenon DEF ListBytes
<1> HIDE DEF t
<1>6. ByType(g, q, w, c, t) /\ ByType(h, o, z, c, t)
  BY <1>4, WholeByType DEF t
<1> DEFINE a == Whole(g, q, w, c)
           b == Whole(h, o, z, c)
<1>8. t \in ScalarTypes => a = b
  BY <1>4, <1>6 DEF ByType
<1>9. t \in ArrayTypes => a = b
  BY <1>4, <1>6 DEF ByType
<1>10. t = kTagString => a = b
  BY <1>4, <1>6 DEF ByType
<1>11. t = kTagList => a = b
  BY <1>4, <1>5, <1>6 DEF ByType
<1>12. t = kTagCompound => a = b
  BY <1>2, <1>6 DEF ByType
<1> QED  BY <1>1, <1>8, <1>9, <1>10, <1>11, <1>12

-----------------------------------------------------------------------------
(* ... and grows by a tag younger than all of them                          *)

Joins(o, q, n, c, x) ==
  Into(q, n, c) = Into(o, n, c) \cup {x} /\ \A y \in Into(o, n, c) : y < x

LEMMA ReadsGrow ==
  ASSUME NEW h \in Seq(Tag), NEW o, NEW z \in [1 .. Len(h) -> Seq(Byte)],
         NEW g \in Seq(Tag), NEW q, NEW c \in Nat, NEW x \in 1 .. Len(h),
         Len(g) = Len(h),
         \A y \in 1 .. Len(h) : g[y].type = h[y].type /\ g[y].name = h[y].name,
         Joins(o, q, Len(h), c, x)
  PROVE  /\ ReadBytes(h, o, z, c) \in Seq(Byte)
         /\ ReadBytes(g, q, z, c) = Then(ReadBytes(h, o, z, c), Then(Lead(h, x), z[x]))
<1> DEFINE S == ReadInto(h, o, c)
           V == ReadInto(g, q, c)
           e == Entry(h, x)
           B == Rows(h, z, S)
           C == Rows(g, z, V)
<1>1. Into(o, Len(h), c) \subseteq 1 .. Len(h)
  BY EntriesRead
<1>2. \A y \in 1 .. Len(h) : Entry(g, y) = Entry(h, y)
  BY DEF Entry
<1>3. V = S \cup {e}
  <2>1. V = {Entry(g, y) : y \in Into(o, Len(h), c) \cup {x}}
    BY DEF ReadInto, Joins
  <2>2. \A y \in Into(o, Len(h), c) \cup {x} : Entry(g, y) = Entry(h, y)
    BY <1>1, <1>2
  <2>3. V = {Entry(h, y) : y \in Into(o, Len(h), c) \cup {x}}
    BY <2>1, <2>2, Zenon
  <2>4. S = {Entry(h, y) : y \in Into(o, Len(h), c)}
    BY DEF ReadInto
  <2> HIDE DEF S, V
  <2> QED  BY <2>3, <2>4
<1>4. IsFiniteSet(S) /\ Aged(V)
  BY EntriesRead
<1>5. \A f \in S : f[2] < e[2]
  BY EntriesRead, EntryIs DEF Joins
<1>6. \A f \in V : Row(g, z, f) = Row(h, z, f)
  <2> TAKE f \in V
  <2>1. f[2] \in 1 .. Len(h)
    BY EntriesRead
  <2> QED  BY <2>1, Zenon DEF Row, Lead
<1>7. \A f \in V : C[f] \in Seq(Byte)
  BY RowType DEF Rows
<1>8. \A f \in S : B[f] = C[f]
  BY <1>3, <1>6 DEF Rows
<1>9. C[e] = Then(Lead(h, x), z[x])
  BY <1>3, <1>6, EntryIs DEF Rows, Row
<1> HIDE DEF S, V, e, B, C
<1>11. Younger(V, S, e, B, C)
  BY <1>3, <1>4, <1>5, <1>7, <1>8 DEF Younger
<1>10. /\ InOrder(S, AsRead, B) \in Seq(Byte)
       /\ InOrder(V, AsRead, C) = Then(InOrder(S, AsRead, B), C[e])
  BY ONLY <1>11, EntriesGrow
<1> QED  BY <1>9, <1>10 DEF ReadBytes, S, V, B, C

LEMMA ReadsType ==
  ASSUME NEW h \in Seq(Tag), NEW o, NEW z \in [1 .. Len(h) -> Seq(Byte)], NEW c \in Nat
  PROVE  ReadBytes(h, o, z, c) \in Seq(Byte)
<1> DEFINE R == ReadInto(h, o, c)
           B == Rows(h, z, R)
           p == [s \in SUBSET R |-> Oldest(s)]
<1>1. Aged(R) /\ IsFiniteSet(R)
  BY EntriesRead
<1>2. \A e \in R : B[e] \in Seq(Byte)
  BY RowType DEF Rows
<1> HIDE DEF R, B
<1>3. \A s \in SUBSET R : p[s] = Oldest(s) /\ (s # {} => p[s] \in s)
  BY <1>1, OldestIn
<1> HIDE DEF p
<1>4. Parts(p, B, R)
  BY <1>1, <1>2, <1>3 DEF Parts, Picks
<1>5. PICK g : Chain(g, p, B, R) /\ InOrder(R, AsRead, B) = g[R]
  BY <1>3, <1>4, EntriesChain
<1>6. R \in SUBSET R
  OBVIOUS
<1>7. g[R] \in Seq(Byte)
  BY <1>4, <1>5, <1>6, ChainType
<1> QED  BY <1>5, <1>7 DEF ReadBytes, R, B

LEMMA ReadsNone ==
  ASSUME NEW h, NEW o, NEW z, NEW c, Into(o, Len(h), c) = {}
  PROVE  ReadBytes(h, o, z, c) = << >>
<1>1. ReadInto(h, o, c) = {}
  BY DEF ReadInto
<1> QED  BY <1>1, EntriesNone, Zenon DEF ReadBytes

(* The next child is x. *)
NextKid(h, z, g, c, n, x) ==
  /\ \A j \in 1 .. n : g[c].kids[j] = h[c].kids[j] /\ z[h[c].kids[j]] \in Seq(Byte)
  /\ g[c].kids[n + 1] = x /\ z[x] \in Seq(Byte)

LEMMA KidsGrow ==
  ASSUME NEW h, NEW z, NEW g, NEW c, NEW n \in Nat, NEW x, NextKid(h, z, g, c, n, x)
  PROVE  /\ KidsBytes(h, z, c, n) \in Seq(Byte)
         /\ KidsBytes(g, z, c, n + 1) = Then(KidsBytes(h, z, c, n), z[x])
<1> DEFINE B == KidBytes(h, z, c, n)
           C == KidBytes(g, z, c, n + 1)
<1>1. \A j \in 1 .. n : j \in 1 .. n + 1 /\ j # n + 1
  OBVIOUS
<1>2. \A j \in 1 .. n + 1 : j \in 1 .. n \/ j = n + 1
  OBVIOUS
<1>3. n + 1 \in 1 .. n + 1
  OBVIOUS
<1>4. \A j \in 1 .. n : B[j] = C[j] /\ C[j] \in Seq(Byte)
  BY <1>1 DEF KidBytes, NextKid
<1>5. C[n + 1] = z[x]
  BY <1>3 DEF KidBytes, NextKid
<1>6. \A j \in 1 .. n + 1 : C[j] \in Seq(Byte)
  BY <1>2, <1>4, <1>5 DEF NextKid
<1> HIDE DEF B, C
<1>7. \A j \in 1 .. n : B[j] = C[j]
  BY <1>4
<1>8. /\ InOrder(1 .. n, ByIndex, B) \in Seq(Byte)
      /\ InOrder(1 .. n + 1, ByIndex, C) = Then(InOrder(1 .. n, ByIndex, B), C[n + 1])
  BY ONLY n \in Nat, <1>6, <1>7, ElementsGrow
<1> QED  BY <1>5, <1>8, Zenon DEF KidsBytes, B, C

LEMMA ListGrows ==
  ASSUME NEW h, NEW z, NEW g, NEW c, NEW n \in Nat, NEW x, NextKid(h, z, g, c, n, x),
         h[c] \in Tag, g[c].ctype = h[c].ctype, Len(g[c].kids) = Len(h[c].kids)
  PROVE  /\ ListBytes(h, z, c, n) \in Seq(Byte)
         /\ ListBytes(g, z, c, n + 1) = Then(ListBytes(h, z, c, n), z[x])
<1> DEFINE a == Then(<<h[c].ctype>>, U32(Len(h[c].kids)))
           k == KidsBytes(h, z, c, n)
<1>2. a \in Seq(Byte)
  <2>1. h[c].ctype \in Byte /\ h[c].kids \in Seq(Nat)
    BY DEF Tag, Byte, kTagEnd, kTagIntArray
  <2>2. <<h[c].ctype>> \in Seq(Byte) /\ Len(h[c].kids) \in Nat
    BY <2>1
  <2> QED  BY <2>2, U32Bytes, ThenType
<1>3. z[x] \in Seq(Byte)
  BY DEF NextKid
<1>4. k \in Seq(Byte) /\ KidsBytes(g, z, c, n + 1) = Then(k, z[x])
  BY KidsGrow
<1>5. ListBytes(g, z, c, n + 1) = Then(a, Then(k, z[x])) /\ ListBytes(h, z, c, n) = Then(a, k)
  BY <1>4, Zenon DEF ListBytes
<1>6. \A y \in Seq(Byte) : Then(Then(a, k), y) = Then(a, Then(k, y)) /\ Then(a, k) \in Seq(Byte)
  BY ONLY <1>2, <1>4, ThenAgain, ThenType
<1> QED  BY <1>3, <1>5, <1>6, Zenon

-----------------------------------------------------------------------------
(* The invariant, over a call stack `s`, a heap `h`, a root `r`, the place  *)
(* `p` of the innermost call and the bytes `b` it reads.                    *)

Plain(h) == \A x \in 1 .. Len(h) : h[x].type # kTagList => h[x].kids = << >>

(* `o` has the container each tag was read into.  A tag being read is its   *)
(* own, and whatever is younger has gone into it or into one above it.      *)
Owned(s, h, r, o) ==
  /\ o \in [1 .. Len(h) -> Nat]
  /\ \A x \in 1 .. Len(h) : o[x] <= x
  /\ \A x \in 1 .. Len(h) : o[x] = x <=> \E j \in 2 .. Len(s) : s[j].tag = x
  /\ \A c \in 1 .. Len(h) : \A x \in Held(h, c) : x # Null => o[x] = c
  /\ \A x \in Values(r) : o[x] = Null
  /\ \A j \in 2 .. Len(s) : \A x \in 1 .. Len(h) : x > s[j].tag => o[x] >= s[j].tag

(* What frame j has read: the type and name of its tag, ...                 *)
HeadRead(s, h, b, j) ==
  IF j > 2 /\ h[s[j - 1].tag].type = kTagList THEN s[j].head = 0
  ELSE Span(b, s[j].start - s[j].head, s[j].start) = Lead(h, s[j].tag)

(* ... and the tags that its tag has so far. *)
BodyRead(s, h, p, b, o, z, j) ==
  LET c == s[j].tag IN
  /\ h[c].type = kTagCompound =>
       Span(b, s[j].start, s[j].next) = ReadBytes(h, o, z, c)
  /\ h[c].type = kTagList /\ Entered(s, p, j) =>
       /\ s[j].i <= Len(h[c].kids)
       /\ Span(b, s[j].start, s[j].next) = ListBytes(h, z, c, s[j].i)

(* `z` has the bytes read for each tag's body. *)
BytesRead(s, h, p, b, o, z) ==
  /\ z \in [1 .. Len(h) -> Seq(Byte)]
  /\ \A x \in 1 .. Len(h) : (\A j \in Unfinished(s, p) : s[j].tag # x) => z[x] = Whole(h, o, z, x)
  /\ \A j \in 2 .. Len(s) : HeadRead(s, h, b, j)
  /\ \A j \in Unfinished(s, p) : BodyRead(s, h, p, b, o, z, j)
  /\ Len(s) > 0 => Span(b, 0, s[1].next) = ReadBytes(h, o, z, Null)

Reads(s, h, r, p, b, o, z) ==
  Plain(h) /\ Owned(s, h, r, o) /\ BytesRead(s, h, p, b, o, z)

(* The first n children of a list were read into it, and so were all of one *)
(* that is complete.                                                        *)
LEMMA ListsRead ==
  ASSUME NEW h \in Seq(Tag), NEW r, NEW s, NEW o, Pointers(h, r), Owned(s, h, r, o),
         NEW c \in 1 .. Len(h), NEW n \in Nat, n <= Len(h[c].kids), ReadTo(h, c, n)
  PROVE  KidsRead(h, o, c, n)
<1>1. h[c].kids \in Seq(Nat)
  <2>1. h[c] \in Tag
    BY ElementOfSeq
  <2> QED  BY <2>1 DEF Tag
<1>2. ASSUME NEW j \in 1 .. n PROVE h[c].kids[j] \in Into(o, Len(h), c)
  <2> DEFINE x == h[c].kids[j]
  <2>1. j \in 1 .. Len(h[c].kids)
    BY <1>1
  <2>2. x \in 1 .. Len(h)
    BY <2>1 DEF ReadTo
  <2>3. x \in Held(h, c) /\ x # Null
    <3>1. x \in Held(h, c)
      BY <2>1, Zenon DEF Held
    <3>2. \A y \in 1 .. Len(h) : y # Null
      OBVIOUS
    <3> QED  BY <2>2, <3>1, <3>2, Zenon
  <2> HIDE DEF x
  <2>4. c < x /\ o[x] = c
    BY <2>3, Zenon DEF Pointers, Owned
  <2>5. x \in c + 1 .. Len(h)
    BY <2>2, <2>4
  <2> QED  BY <2>4, <2>5 DEF Into, x
<1> QED  BY <1>1, <1>2 DEF KidsRead

(* A tag being read belongs to nothing yet, and is younger than all that    *)
(* the tags around it have got so far.                                      *)
LEMMA OnStackOwns ==
  ASSUME NEW h \in Seq(Tag), NEW r, NEW s, NEW o, NEW p, Fresh(s, h, r, p), Owned(s, h, r, o),
         NEW j \in 2 .. Len(s)
  PROVE  /\ s[j].tag \in 1 .. Len(h) /\ o[s[j].tag] = s[j].tag
         /\ \A c \in Nat : s[j].tag \notin Into(o, Len(h), c)
         /\ \A c \in Nat : c < s[j].tag => \A y \in Into(o, Len(h), c) : y < s[j].tag
<1> DEFINE x == s[j].tag
<1>1. x \in 1 .. Len(h) /\ o[x] = x
  BY Zenon DEF Fresh, Owned
<1>2. \A y \in 1 .. Len(h) : y > x => o[y] >= x
  BY DEF Owned
<1> HIDE DEF x
<1>3. \A c \in Nat : x \notin Into(o, Len(h), c)
  BY <1>1 DEF Into
<1>4. ASSUME NEW c \in Nat, c < x, NEW y \in Into(o, Len(h), c) PROVE y < x
  <2>1. y \in 1 .. Len(h) /\ o[y] = c
    BY DEF Into
  <2>2. y # x /\ ~(y > x)
    BY <1>1, <1>2, <1>4, <2>1
  <2> QED  BY <1>1, <2>1, <2>2
<1> QED  BY <1>1, <1>3, <1>4 DEF x

LEMMA OwnedReplaced ==
  ASSUME NEW h \in Seq(Tag), NEW r, NEW s, NEW o, Owned(s, h, r, o),
         NEW t, Len(t) = Len(s), \A j \in 2 .. Len(s) : t[j].tag = s[j].tag,
         NEW c \in 1 .. Len(h), NEW u, NEW g, Becomes(h, g, c, u),
         Held(g, c) \subseteq Held(h, c) \cup {Null}
  PROVE  Owned(t, g, r, o)
<1>1. Len(g) = Len(h) /\ \A id \in 1 .. Len(h) : id # c => g[id] = h[id]
  BY Replaced
<1>2. ASSUME NEW d \in 1 .. Len(h), NEW x \in Held(g, d), x # Null PROVE o[x] = d
  <2>1. x \in Held(h, d)
    <3>1. CASE d = c
      BY <1>2, <3>1
    <3>2. CASE d # c
      BY <1>1, <3>2 DEF Held
    <3> QED  BY <3>1, <3>2
  <2> QED  BY <1>2, <2>1, Zenon DEF Owned
<1>3. \A x : (\E j \in 2 .. Len(s) : s[j].tag = x) <=> \E j \in 2 .. Len(t) : t[j].tag = x
  OBVIOUS
<1> QED  BY <1>1, <1>2, <1>3 DEF Owned

(* Frame f, for a new tag n, is pushed.                                     *)
Pushed(s, h, t, g, o, q, u, n, f) ==
  /\ h \in Seq(Tag) /\ s \in Seq(Frame) /\ Len(s) > 0
  /\ u \in Tag /\ u.kids = << >> /\ u.map = {}
  /\ n = Len(h) + 1 /\ f \in Frame /\ f.tag = n
  /\ t = Append(s, f) /\ g = Append(h, u)
  /\ q = [x \in 1 .. n |-> IF x = n THEN n ELSE o[x]]

LEMMA OwnedPush ==
  ASSUME NEW h, NEW r, NEW s, NEW o, NEW p, Linked(s, h, r, p), Owned(s, h, r, o),
         NEW t, NEW g, NEW q, NEW u, NEW n, NEW f, Pushed(s, h, t, g, o, q, u, n, f)
  PROVE  /\ Owned(t, g, r, q)
         /\ Into(q, n, n) = {} /\ \A d \in 0 .. Len(h) : Into(q, n, d) = Into(o, Len(h), d)
<1>p. /\ h \in Seq(Tag) /\ s \in Seq(Frame) /\ Len(s) > 0
      /\ u \in Tag /\ u.kids = << >> /\ u.map = {}
      /\ n = Len(h) + 1 /\ f \in Frame /\ f.tag = n
      /\ t = Append(s, f) /\ g = Append(h, u)
      /\ q = [x \in 1 .. n |-> IF x = n THEN n ELSE o[x]]
  BY DEF Pushed
<1> USE <1>p
<1>0. Pointers(h, r) /\ Keys(h, r) /\ Fresh(s, h, r, p)
  BY DEF Linked
<1>1. /\ Len(g) = n /\ g[n] = u /\ n \in Nat /\ Len(h) \in Nat
      /\ \A x \in 1 .. Len(h) : g[x] = h[x]
  BY AppendProperties
<1>2. /\ Len(t) = Len(s) + 1 /\ t[Len(s) + 1] = f /\ Len(s) \in Nat
      /\ \A j \in 1 .. Len(s) : t[j] = s[j]
  BY Push
<1>3. \A x \in 1 .. n : x \in 1 .. Len(h) \/ x = n
  BY <1>1
<1>4. /\ \A x \in 1 .. Len(h) : x \in 1 .. n /\ x # n /\ x < n
      /\ q[n] = n /\ \A x \in 1 .. Len(h) : q[x] = o[x]
  BY <1>1
<1>5. o \in [1 .. Len(h) -> Nat] /\ \A x \in 1 .. Len(h) : o[x] <= x /\ o[x] \in Nat
  BY DEF Owned
<1>6. q \in [1 .. n -> Nat] /\ \A x \in 1 .. n : q[x] <= x
  <2>1. \A x \in 1 .. n : q[x] <= x /\ q[x] \in Nat
    BY <1>1, <1>3, <1>4, <1>5
  <2> QED  BY <2>1
<1>7. \A j \in 2 .. Len(s) : t[j].tag = s[j].tag /\ s[j].tag \in 1 .. Len(h)
  BY <1>0, <1>2 DEF Fresh
<1>8. /\ \A j \in 2 .. Len(t) : j \in 2 .. Len(s) \/ j = Len(t)
      /\ \A j \in 2 .. Len(s) : j \in 2 .. Len(t)
      /\ Len(t) \in 2 .. Len(t) /\ t[Len(t)].tag = n
  BY <1>2
<1>9. ASSUME NEW x \in 1 .. n PROVE q[x] = x <=> \E j \in 2 .. Len(t) : t[j].tag = x
  <2>1. CASE x = n
    BY <1>4, <1>8, <2>1
  <2>2. CASE x # n
    <3>1. x \in 1 .. Len(h) /\ q[x] = o[x]
      BY <1>3, <1>4, <2>2
    <3>2. o[x] = x <=> \E j \in 2 .. Len(s) : s[j].tag = x
      BY <3>1, Zenon DEF Owned
    <3>3. (\E j \in 2 .. Len(s) : s[j].tag = x) <=> \E j \in 2 .. Len(t) : t[j].tag = x
      BY <1>7, <1>8, <2>2, Zenon
    <3> QED  BY <3>1, <3>2, <3>3, Zenon
  <2> QED  BY <2>1, <2>2
<1>10. ASSUME NEW d \in 1 .. n, NEW x \in Held(g, d), x # Null PROVE q[x] = d
  <2>1. CASE d = n
    <3>1. Held(g, n) = {}
      BY <1>1 DEF Held
    <3> QED  BY <2>1, <3>1
  <2>2. CASE d # n
    <3>1. d \in 1 .. Len(h)
      BY <1>3, <2>2
    <3>2. x \in Held(h, d)
      BY <1>1, <3>1 DEF Held
    <3>3. o[x] = d /\ d < x /\ x <= Len(h)
      BY <1>0, <1>10, <3>1, <3>2, Zenon DEF Pointers, Owned
    <3>4. x \in Nat
      BY <3>1, <3>2, HeldType
    <3>5. x \in 1 .. Len(h)
      BY <1>1, <3>1, <3>3, <3>4
    <3> QED  BY <1>4, <3>3, <3>5
  <2> QED  BY <2>1, <2>2
<1>11. ASSUME NEW x \in Values(r) PROVE q[x] = Null
  <2>1. x \in 1 .. Len(h)
    BY <1>0 DEF Keys, EntriesIn, Values
  <2> QED  BY <1>4, <2>1 DEF Owned
<1>12. ASSUME NEW j \in 2 .. Len(t), NEW x \in 1 .. n, x > t[j].tag PROVE q[x] >= t[j].tag
  <2>1. CASE j = Len(t)
    BY <1>1, <1>8, <1>12, <2>1
  <2>2. CASE j # Len(t)
    <3>1. j \in 2 .. Len(s) /\ t[j].tag = s[j].tag /\ s[j].tag \in 1 .. Len(h)
      BY <1>7, <1>8, <2>2
    <3>2. CASE x = n
      BY <1>1, <1>4, <3>1, <3>2
    <3>3. CASE x # n
      <4>1. x \in 1 .. Len(h) /\ q[x] = o[x]
        BY <1>3, <1>4, <3>3
      <4> QED  BY <1>12, <3>1, <4>1, Zenon DEF Owned
    <3> QED  BY <3>2, <3>3
  <2> QED  BY <2>1, <2>2
<1>13. Owned(t, g, r, q)
  BY <1>1, <1>6, <1>9, <1>10, <1>11, <1>12 DEF Owned
<1>14. Into(q, n, n) = {}
  BY <1>1 DEF Into
<1>15. ASSUME NEW d \in 0 .. Len(h) PROVE Into(q, n, d) = Into(o, Len(h), d)
  <2>1. \A x \in d + 1 .. n : q[x] = d => x \in d + 1 .. Len(h) /\ o[x] = d
    <3> SUFFICES ASSUME NEW x \in d + 1 .. n, q[x] = d PROVE x \in d + 1 .. Len(h) /\ o[x] = d
      OBVIOUS
    <3>1. x # n
      BY <1>1, <1>4
    <3>2. x \in 1 .. Len(h) /\ x \in d + 1 .. Len(h)
      BY <1>1, <3>1
    <3> QED  BY <1>4, <3>2
  <2>2. \A x \in d + 1 .. Len(h) : x \in d + 1 .. n /\ q[x] = o[x]
    <3> TAKE x \in d + 1 .. Len(h)
    <3>1. x \in 1 .. Len(h) /\ x \in d + 1 .. n
      BY <1>1
    <3> QED  BY <1>4, <3>1
  <2> QED  BY <2>1, <2>2, ZenonT(40) DEF Into
<1> QED  BY <1>13, <1>14, <1>15

(* The tag x of the innermost call has been read, and goes into c.          *)
Given(s, t, h, g, r, v, o, q, n, c, x) ==
  /\ n \in 1 .. Len(s) - 1 /\ Len(s) = n + 1 /\ Len(t) = n
  /\ \A j \in 1 .. n : t[j].tag = s[j].tag
  /\ c = s[n].tag /\ x = s[n + 1].tag
  /\ g \in Seq(Tag) /\ Len(g) = Len(h)
  /\ \A d \in 1 .. Len(h) : d # c => g[d] = h[d]
  /\ c # Null => Held(g, c) \subseteq Held(h, c) \cup {x, Null}
  /\ Values(v) \subseteq Values(r) \cup (IF c = Null THEN {x} ELSE {})
  /\ q = [o EXCEPT ![x] = c]

Ages(s, h, n, c, x) ==
  /\ n \in Nat /\ Len(s) \in Nat /\ n + 1 \in 2 .. Len(s) /\ x \in 1 .. Len(h)
  /\ c \in 0 .. Len(h) /\ c < x
  /\ \A j \in 2 .. n : j \in 2 .. Len(s) /\ s[j].tag <= c /\ s[j].tag < x /\ c # Null
  /\ c = Null => n = 1

LEMMA GivenAge ==
  ASSUME NEW h, NEW r, NEW s, NEW o, NEW p, Len(h) \in Nat, Len(s) \in Nat, Fresh(s, h, r, p),
         NEW t, NEW g, NEW v, NEW q, NEW n, NEW c, NEW x, Given(s, t, h, g, r, v, o, q, n, c, x)
  PROVE  Ages(s, h, n, c, x)
<1>1. /\ n \in 1 .. Len(s) - 1 /\ Len(s) = n + 1 /\ c = s[n].tag /\ x = s[n + 1].tag
  BY DEF Given
<1>2. n \in Nat /\ Len(s) \in Nat /\ n + 1 \in 2 .. Len(s) /\ Len(s) > 1
  BY <1>1
<1> USE <1>2
<1>3. /\ \A j \in 2 .. Len(s) : s[j].tag \in 1 .. Len(h)
      /\ \A j, k \in 2 .. Len(s) : j < k => s[j].tag < s[k].tag
      /\ s[1].tag = Null
  BY <1>2 DEF Fresh
<1>4. x \in 1 .. Len(h)
  BY <1>1, <1>2, <1>3
<1>5. \A j \in 2 .. n : j \in 2 .. Len(s) /\ j < n + 1 /\ (j < n \/ j = n)
  BY <1>1, <1>2
<1>6. CASE n = 1
  <2>1. c = Null
    BY <1>1, <1>3, <1>6
  <2> QED  BY <1>2, <1>4, <1>6, <2>1 DEF Ages
<1>7. CASE n # 1
  <2>1. n \in 2 .. Len(s) /\ n < n + 1
    BY <1>1, <1>2, <1>7
  <2>2. c \in 1 .. Len(h) /\ c < x
    BY <1>1, <1>2, <1>3, <2>1
  <2>3. \A j \in 2 .. n : s[j].tag <= c /\ s[j].tag < x
    <3> TAKE j \in 2 .. n
    <3>1. s[j].tag < x
      BY <1>1, <1>2, <1>3, <1>5, Zenon
    <3>2. s[j].tag \in Nat /\ (j = n \/ s[j].tag < c)
      BY <1>1, <1>3, <1>5, <2>1
    <3> QED  BY <1>1, <2>2, <3>1, <3>2
  <2> QED  BY <1>2, <1>4, <1>5, <2>2, <2>3 DEF Ages
<1> QED  BY <1>6, <1>7

LEMMA OwnedGiven ==
  ASSUME NEW h \in Seq(Tag), NEW r, NEW s \in Seq(Frame), NEW o, NEW p,
         Linked(s, h, r, p), Owned(s, h, r, o),
         NEW t, NEW g, NEW v, NEW q, NEW n, NEW c, NEW x, Given(s, t, h, g, r, v, o, q, n, c, x)
  PROVE  /\ Owned(t, g, v, q) /\ Joins(o, q, Len(h), c, x)
         /\ \A d \in Nat : d # c => Into(q, Len(h), d) = Into(o, Len(h), d)
<1>0. Pointers(h, r) /\ Keys(h, r) /\ Fresh(s, h, r, p)
  BY DEF Linked
<1>1. /\ n \in 1 .. Len(s) - 1 /\ Len(s) = n + 1 /\ Len(t) = n
      /\ \A j \in 1 .. n : t[j].tag = s[j].tag
      /\ c = s[n].tag /\ x = s[n + 1].tag
      /\ g \in Seq(Tag) /\ Len(g) = Len(h)
      /\ \A d \in 1 .. Len(h) : d # c => g[d] = h[d]
      /\ c # Null => Held(g, c) \subseteq Held(h, c) \cup {x, Null}
      /\ Values(v) \subseteq Values(r) \cup (IF c = Null THEN {x} ELSE {})
      /\ q = [o EXCEPT ![x] = c]
  BY DEF Given
<1>2. /\ n \in Nat /\ Len(s) \in Nat /\ n + 1 \in 2 .. Len(s) /\ x \in 1 .. Len(h)
      /\ c \in 0 .. Len(h) /\ c < x
      /\ \A j \in 2 .. n : j \in 2 .. Len(s) /\ s[j].tag <= c /\ s[j].tag < x /\ c # Null
      /\ c = Null => n = 1
  <2>1. Ages(s, h, n, c, x)
    BY <1>0, GivenAge
  <2> QED  BY <2>1 DEF Ages
<1>3. /\ o[x] = x /\ \A d \in Nat : x \notin Into(o, Len(h), d)
      /\ \A d \in Nat : d < x => \A y \in Into(o, Len(h), d) : y < x
  BY <1>0, <1>1, <1>2, OnStackOwns
<1>4. o \in [1 .. Len(h) -> Nat] /\ \A y \in 1 .. Len(h) : o[y] <= y
  BY DEF Owned
<1>5. q[x] = c /\ \A y \in 1 .. Len(h) : y # x => q[y] = o[y]
  BY <1>1, <1>2, <1>4
<1>6. q \in [1 .. Len(h) -> Nat]
  BY <1>1, <1>2, <1>4
<1>7. \A y \in 1 .. Len(h) : q[y] <= y
  BY <1>2, <1>4, <1>5
<1>8. ASSUME NEW y \in 1 .. Len(h) PROVE q[y] = y <=> \E j \in 2 .. Len(t) : t[j].tag = y
  <2>1. \A j \in 2 .. n : t[j].tag = s[j].tag /\ s[j].tag # x
    BY <1>0, <1>1, <1>2 DEF Fresh
  <2>2. CASE y = x
    BY <1>1, <1>2, <1>5, <2>1, <2>2
  <2>3. CASE y # x
    <3>1. o[y] = y <=> \E j \in 2 .. Len(s) : s[j].tag = y
      BY Zenon DEF Owned
    <3>2. \A j \in 2 .. Len(s) : j \in 2 .. n \/ j = n + 1
      BY <1>1, <1>2
    <3>3. (\E j \in 2 .. Len(s) : s[j].tag = y) <=> \E j \in 2 .. Len(t) : t[j].tag = y
      BY <1>1, <1>2, <2>1, <2>3, <3>2, Zenon
    <3> QED  BY <1>5, <2>3, <3>1, <3>3, Zenon
  <2> QED  BY <2>2, <2>3
<1>9. \A d \in 1 .. Len(h) : x \notin Held(h, d)
  BY <1>0, <1>1, <1>2, Zenon DEF Fresh
<1>10. x \notin Values(r)
  <2>1. \A y \in Values(r) : y < s[2].tag /\ y \in 1 .. Len(h)
    <3>1. \A y \in Values(r) : y \in 1 .. Len(h)
      BY <1>0 DEF Keys, EntriesIn, Values
    <3>2. Len(s) > 1
      BY <1>1, <1>2
    <3>3. \A y \in Values(r) : y < s[2].tag
      BY <1>0, <3>2, Zenon DEF Fresh
    <3> QED  BY <3>1, <3>3
  <2>2. s[2].tag <= x /\ s[2].tag \in Nat
    <3>1. CASE n = 1
      BY <1>1, <1>2, <3>1
    <3>2. CASE n # 1
      <4>1. 2 \in 2 .. n
        BY <1>2, <3>2
      <4>2. s[2].tag < x /\ s[2].tag \in 1 .. Len(h)
        BY <1>0, <1>2, <4>1 DEF Fresh
      <4> QED  BY <1>2, <4>2
    <3> QED  BY <3>1, <3>2
  <2> QED  BY <1>2, <2>1, <2>2
<1>11. ASSUME NEW d \in 1 .. Len(h), NEW y \in Held(g, d), y # Null PROVE q[y] = d
  <2>1. CASE y \in Held(h, d)
    <3>1. o[y] = d /\ d < y /\ y <= Len(h)
      BY <1>0, <1>11, <2>1, Zenon DEF Pointers, Owned
    <3>2. y \in Nat
      BY <2>1, HeldType
    <3>3. y \in 1 .. Len(h) /\ y # x
      BY <1>9, <2>1, <3>1, <3>2
    <3> QED  BY <1>5, <3>1, <3>3
  <2>2. CASE y \notin Held(h, d)
    <3>1. d = c
      <4>1. g[d] = h[d] => Held(g, d) = Held(h, d)
        BY Zenon DEF Held
      <4> QED  BY <1>1, <1>11, <2>2, <4>1, Zenon
    <3>2. y = x
      BY <1>1, <1>11, <2>2, <3>1
    <3> QED  BY <1>5, <3>1, <3>2
  <2> QED  BY <2>1, <2>2
<1>12. ASSUME NEW y \in Values(v) PROVE q[y] = Null
  <2>1. CASE y \in Values(r)
    <3>1. y \in 1 .. Len(h) /\ o[y] = Null /\ y # x
      <4>1. y \in 1 .. Len(h)
        BY <1>0, <2>1 DEF Keys, EntriesIn, Values
      <4> QED  BY <1>10, <2>1, <4>1 DEF Owned
    <3> QED  BY <1>5, <3>1
  <2>2. CASE y \notin Values(r)
    BY <1>1, <1>5, <2>2
  <2> QED  BY <2>1, <2>2
<1>13. ASSUME NEW j \in 2 .. Len(t), NEW y \in 1 .. Len(h), y > t[j].tag PROVE q[y] >= t[j].tag
  <2>1. j \in 2 .. Len(s) /\ s[j].tag <= c /\ t[j].tag = s[j].tag
    BY <1>1, <1>2, SMTT(30)
  <2>2. CASE y = x
    <3>1. s[j].tag \in Nat /\ c \in Nat
      BY <1>0, <1>2, <2>1, SMTT(30) DEF Fresh
    <3> QED  BY <1>5, <2>1, <2>2, <3>1
  <2>3. CASE y # x
    <3>1. o[y] >= s[j].tag
      BY <1>13, <2>1, Zenon DEF Owned
    <3> QED  BY <1>5, <2>1, <2>3, <3>1, Zenon
  <2> QED  BY <2>2, <2>3
<1>14. Owned(t, g, v, q)
  BY <1>1, <1>6, <1>7, <1>8, <1>11, <1>12, <1>13, Zenon DEF Owned
<1>15. Joins(o, q, Len(h), c, x)
  <2>1. \A y \in Into(o, Len(h), c) : y < x
    BY <1>2, <1>3
  <2>2. Into(q, Len(h), c) = Into(o, Len(h), c) \cup {x}
    <3>1. x \in c + 1 .. Len(h)
      BY <1>2
    <3>2. \A y \in c + 1 .. Len(h) : y \in 1 .. Len(h)
      BY <1>2
    <3> QED  BY <1>5, <3>1, <3>2 DEF Into
  <2> QED  BY <2>1, <2>2 DEF Joins
<1>16. ASSUME NEW d \in Nat, d # c PROVE Into(q, Len(h), d) = Into(o, Len(h), d)
  <2>1. \A y \in d + 1 .. Len(h) : q[y] = d <=> o[y] = d
    <3> TAKE y \in d + 1 .. Len(h)
    <3>1. y \in 1 .. Len(h) /\ (y = x => x # d)
      OBVIOUS
    <3> QED  BY <1>3, <1>5, <1>16, <3>1
  <2> QED  BY <2>1 DEF Into
<1> QED  BY <1>14, <1>15, <1>16

LEMMA OwnedEnd ==
  ASSUME NEW h, NEW r, NEW s, Len(s) \in {0, 1}, NEW o, Owned(s, h, r, o)
  PROVE  Owned(<< >>, h, r, o)
<1>1. 2 .. Len(s) = {} /\ 2 .. Len(<< >>) = {}
  <2>1. \A n \in {0, 1} : 2 .. n = {}
    OBVIOUS
  <2>2. Len(<< >>) = 0
    OBVIOUS
  <2> QED  BY <2>1, <2>2, Zenon
<1> QED  BY <1>1 DEF Owned

(* What is younger than the tags in front of the current root tag goes.     *)
CutAt(s, h, g, o, q, m) ==
  /\ h \in Seq(Tag) /\ s \in Seq(Frame) /\ Len(s) > 1
  /\ m = s[2].tag - 1 /\ g = SubSeq(h, 1, m)
  /\ q = [x \in 1 .. m |-> o[x]]

LEMMA OwnedCut ==
  ASSUME NEW h, NEW r, NEW s, NEW o, NEW p, Linked(s, h, r, p), Owned(s, h, r, o),
         NEW g, NEW q, NEW m, CutAt(s, h, g, o, q, m)
  PROVE  /\ g \in Seq(Tag) /\ Len(g) = m /\ m \in Nat /\ m < Len(h)
         /\ \A x \in 1 .. m : x \in 1 .. Len(h) /\ g[x] = h[x] /\ q[x] = o[x]
         /\ Owned(<< >>, g, r, q)
         /\ \A d \in 0 .. m : Into(q, m, d) = Into(o, Len(h), d)
<1> DEFINE c == s[2].tag
<1>p. /\ h \in Seq(Tag) /\ s \in Seq(Frame) /\ Len(s) > 1
      /\ m = s[2].tag - 1 /\ g = SubSeq(h, 1, m)
      /\ q = [x \in 1 .. m |-> o[x]]
  BY DEF CutAt
<1> USE <1>p
<1>1. Pointers(h, r) /\ Keys(h, r) /\ Fresh(s, h, r, p)
  BY DEF Linked
<1>2. /\ \A j \in 2 .. Len(s) : s[j].tag \in 1 .. Len(h)
      /\ \A j, k \in 2 .. Len(s) : j < k => s[j].tag < s[k].tag
      /\ \A id \in 1 .. Len(h) : id < c => \A y \in Held(h, id) : y < c
      /\ \A y \in Values(r) : y < c
  BY <1>1 DEF Fresh
<1>3. c \in 1 .. Len(h) /\ m \in Nat /\ Len(h) \in Nat /\ Len(s) \in Nat /\ m = c - 1 /\ 2 \in 2 .. Len(s)
  <2>1. 2 \in 2 .. Len(s)
    OBVIOUS
  <2> QED  BY <1>2, <2>1
<1>4. \A j \in 2 .. Len(s) : s[j].tag >= c
  <2> TAKE j \in 2 .. Len(s)
  <2>1. CASE j = 2
    BY <1>3, <2>1
  <2>2. CASE j > 2
    BY <1>2, <1>3, <2>2, SMTT(30)
  <2> QED  BY <2>1, <2>2
<1>5. /\ g \in Seq(Tag) /\ Len(g) = m
      /\ \A x \in 1 .. m : g[x] = h[x] /\ x \in 1 .. Len(h) /\ x < c
  <2>1. \A x \in 1 .. m : h[x] \in Tag
    BY <1>3, ElementOfSeq
  <2>2. g \in Seq(Tag) /\ Len(g) = m /\ \A x \in 1 .. m : g[x] = h[x]
    BY <1>3, <2>1, SubSeqProperties
  <2> QED  BY <1>3, <2>2
<1> HIDE DEF c
<1>6. /\ o \in [1 .. Len(h) -> Nat] /\ \A x \in 1 .. Len(h) : o[x] <= x
      /\ \A x \in 1 .. Len(h) : o[x] = x <=> \E j \in 2 .. Len(s) : s[j].tag = x
      /\ \A x \in 1 .. Len(h) : x > c => o[x] >= c
      /\ o[c] = c
  <2>1. \A x \in 1 .. Len(h) : x > c => o[x] >= c
    BY <1>3, Zenon DEF Owned, c
  <2>2. o[c] = c
    BY <1>3, Zenon DEF Owned, c
  <2> QED  BY <2>1, <2>2 DEF Owned
<1>7. \A x \in 1 .. m : q[x] = o[x] /\ x \in 1 .. Len(h)
  BY <1>5
<1>8. q \in [1 .. Len(g) -> Nat] /\ \A x \in 1 .. Len(g) : q[x] <= x
  BY <1>5, <1>6
<1>9. \A x \in 1 .. m : q[x] # x
  <2> TAKE x \in 1 .. m
  <2>1. \A j \in 2 .. Len(s) : s[j].tag # x
    BY <1>2, <1>3, <1>4, <1>5, SMTT(30)
  <2> QED  BY <1>6, <1>7, <2>1
<1>10. \A d \in 1 .. m : \A x \in Held(g, d) : x # Null => q[x] = d
  <2> SUFFICES ASSUME NEW d \in 1 .. m, NEW x \in Held(g, d), x # Null PROVE q[x] = d
    OBVIOUS
  <2>1. x \in Held(h, d) /\ d \in 1 .. Len(h) /\ d < c
    BY <1>5 DEF Held
  <2>2. o[x] = d /\ x < c /\ d < x
    BY <1>1, <1>2, <2>1, Zenon DEF Owned, Pointers
  <2>3. x \in Nat
    BY <2>1, HeldType
  <2>4. x \in 1 .. m
    BY <1>3, <2>1, <2>2, <2>3
  <2> QED  BY <1>7, <2>2, <2>4
<1>11. \A x \in Values(r) : q[x] = Null
  <2> TAKE x \in Values(r)
  <2>1. x \in 1 .. Len(h) /\ x < c
    BY <1>1, <1>2 DEF Keys, EntriesIn, Values
  <2>2. x \in 1 .. m
    BY <1>3, <2>1
  <2> QED  BY <1>7, <2>2 DEF Owned
<1>12. Owned(<< >>, g, r, q)
  <2>1. 2 .. Len(<< >>) = {}
    OBVIOUS
  <2> QED  BY <1>5, <1>8, <1>9, <1>10, <1>11, <2>1 DEF Owned
<1>13. ASSUME NEW d \in 0 .. m PROVE Into(q, m, d) = Into(o, Len(h), d)
  <2>1. \A x \in d + 1 .. m : x \in d + 1 .. Len(h) /\ q[x] = o[x]
    BY <1>3, <1>7
  <2>2. \A x \in d + 1 .. Len(h) : o[x] = d => x \in d + 1 .. m
    <3> SUFFICES ASSUME NEW x \in d + 1 .. Len(h), o[x] = d PROVE x <= m
      OBVIOUS
    <3>1. x \in 1 .. Len(h) /\ d < c
      BY <1>3
    <3>2. x # c /\ ~(x > c)
      BY <1>3, <1>6, <3>1
    <3> QED  BY <1>3, <3>1, <3>2
  <2> QED  BY <2>1, <2>2, Zenon DEF Into
<1> QED  BY <1>3, <1>5, <1>7, <1>12, <1>13

-----------------------------------------------------------------------------
(* What the calls have read does not change with a tag that none of them    *)
(* has read into its own                                                    *)

ListsKnown(s, h, p, o) ==
  /\ \A x \in 1 .. Len(h) :
       h[x].type = kTagList /\ (\A j \in Unfinished(s, p) : s[j].tag # x)
         => KidsRead(h, o, x, Len(h[x].kids))
  /\ \A j \in Unfinished(s, p) :
       h[s[j].tag].type = kTagList /\ s[j].i <= Len(h[s[j].tag].kids)
         => KidsRead(h, o, s[j].tag, s[j].i)

LEMMA KnownLists ==
  ASSUME NEW h \in Seq(Tag), NEW r, NEW s \in Seq(Frame), NEW o, NEW p,
         Linked(s, h, r, p), Owned(s, h, r, o)
  PROVE  ListsKnown(s, h, p, o)
<1>1. Pointers(h, r) /\ Lists(s, h, p) /\ Fresh(s, h, r, p)
  BY DEF Linked
<1>2. ASSUME NEW x \in 1 .. Len(h), h[x].type = kTagList,
             \A j \in Unfinished(s, p) : s[j].tag # x
      PROVE  KidsRead(h, o, x, Len(h[x].kids))
  <2>1. ReadTo(h, x, Len(h[x].kids))
    BY <1>1, <1>2 DEF Lists
  <2>2. h[x] \in Tag
    BY ElementOfSeq
  <2>3. Len(h[x].kids) \in Nat /\ Len(h[x].kids) <= Len(h[x].kids)
    BY <2>2 DEF Tag
  <2> QED  BY <1>1, <2>1, <2>3, ListsRead
<1>3. ASSUME NEW j \in Unfinished(s, p), h[s[j].tag].type = kTagList,
             s[j].i <= Len(h[s[j].tag].kids)
      PROVE  KidsRead(h, o, s[j].tag, s[j].i)
  <2>1. j \in 2 .. Len(s) /\ ReadTo(h, s[j].tag, s[j].i)
    BY <1>1, <1>3 DEF Lists, Unfinished
  <2>2. s[j].tag \in 1 .. Len(h)
    BY <1>1, <2>1 DEF Fresh
  <2>3. s[j] \in Frame
    BY <2>1, ElementOfSeq
  <2>4. s[j].i \in Nat
    BY <2>3 DEF Frame
  <2> QED  BY <1>1, <1>3, <2>1, <2>2, <2>4, ListsRead
<1> QED  BY <1>2, <1>3, Zenon DEF ListsKnown

SameNames(h, g) == \A x \in 1 .. Len(h) : g[x].type = h[x].type /\ g[x].name = h[x].name

LEMMA HeadKept ==
  ASSUME NEW h, NEW g, SameNames(h, g), NEW s, NEW t, NEW b, NEW j,
         s[j].tag \in 1 .. Len(h), j > 2 => s[j - 1].tag \in 1 .. Len(h),
         t[j].tag = s[j].tag, t[j].start = s[j].start, t[j].head = s[j].head,
         j > 2 => t[j - 1].tag = s[j - 1].tag,
         HeadRead(s, h, b, j)
  PROVE  HeadRead(t, g, b, j)
<1>1. Lead(g, t[j].tag) = Lead(h, s[j].tag)
  BY Zenon DEF SameNames, Lead
<1>2. j > 2 => g[t[j - 1].tag].type = h[s[j - 1].tag].type
  BY Zenon DEF SameNames
<1> QED  BY <1>1, <1>2, Zenon DEF HeadRead

Resting(s, h, p, o, z, t, g, q, w, j, c) ==
  /\ h \in Seq(Tag) /\ c = s[j].tag /\ c \in Nat /\ t[j] = s[j] /\ g[c] = h[c]
  /\ Same(h, o, z, g, q, w, c) /\ Entered(s, p, j)
  /\ h[c].type = kTagList /\ s[j].i <= Len(h[c].kids) => KidsRead(h, o, c, s[j].i)

LEMMA BodyKept ==
  ASSUME NEW h, NEW g, NEW s, NEW t, NEW b, NEW p, NEW v, NEW o, NEW q, NEW z, NEW w, NEW j,
         NEW c, Resting(s, h, p, o, z, t, g, q, w, j, c), BodyRead(s, h, p, b, o, z, j)
  PROVE  BodyRead(t, g, v, b, q, w, j)
<1>p. /\ h \in Seq(Tag) /\ c = s[j].tag /\ c \in Nat /\ t[j] = s[j] /\ g[c] = h[c]
      /\ Same(h, o, z, g, q, w, c) /\ Entered(s, p, j)
      /\ h[c].type = kTagList /\ s[j].i <= Len(h[c].kids) => KidsRead(h, o, c, s[j].i)
  BY DEF Resting
<1> USE <1>p
<1>1. ReadBytes(g, q, w, c) = ReadBytes(h, o, z, c)
  BY SameReads
<1>3. h[c].type = kTagList =>
        /\ s[j].i <= Len(h[c].kids)
        /\ Span(b, s[j].start, s[j].next) = ListBytes(h, z, c, s[j].i)
  BY Zenon DEF BodyRead
<1>4. h[c].type = kTagList => KidsBytes(g, w, c, s[j].i) = KidsBytes(h, z, c, s[j].i)
  <2> SUFFICES ASSUME h[c].type = kTagList PROVE KidsBytes(g, w, c, s[j].i) = KidsBytes(h, z, c, s[j].i)
    OBVIOUS
  <2>1. KidsRead(h, o, c, s[j].i) /\ g[c].kids = h[c].kids
    BY <1>3, Zenon
  <2> QED  BY <2>1, SameKids
<1>5. h[c].type = kTagList => ListBytes(g, w, c, s[j].i) = ListBytes(h, z, c, s[j].i)
  BY <1>4, Zenon DEF ListBytes
<1>6. h[c].type = kTagCompound => Span(b, s[j].start, s[j].next) = ReadBytes(h, o, z, c)
  BY Zenon DEF BodyRead
<1> QED  BY <1>1, <1>3, <1>5, <1>6, Zenon DEF BodyRead

Untouched(h, o, z, g, q, w, s, p, x) ==
  /\ h \in Seq(Tag) /\ g \in Seq(Tag) /\ x \in 1 .. Len(h) /\ x \in 1 .. Len(g)
  /\ g[x] = h[x] /\ Same(h, o, z, g, q, w, x)
  /\ ListsKnown(s, h, p, o) /\ \A j \in Unfinished(s, p) : s[j].tag # x

LEMMA WholeKept ==
  ASSUME NEW h, NEW o, NEW z, NEW g, NEW q, NEW w, NEW s, NEW p, NEW x,
         Untouched(h, o, z, g, q, w, s, p, x)
  PROVE  Whole(g, q, w, x) = Whole(h, o, z, x)
<1>1. SamePart(h, g, x)
  BY DEF SamePart, Untouched
<1>2. h[x].type = kTagList => KidsRead(h, o, x, Len(h[x].kids))
  BY Zenon DEF ListsKnown, Untouched
<1>3. /\ h \in Seq(Tag) /\ g \in Seq(Tag) /\ x \in 1 .. Len(h) /\ x \in 1 .. Len(g)
      /\ Same(h, o, z, g, q, w, x)
  BY DEF Untouched
<1> QED  BY <1>1, <1>2, <1>3, SameWhole

(* The innermost call ends: its tag has been read. *)
LEMMA ReadsFinish ==
  ASSUME NEW h \in Seq(Tag), NEW r, NEW s \in Seq(Frame), Len(s) > 1, NEW p \in {"body", "loop"},
         NEW b, NEW o, NEW z, Linked(s, h, r, p), Reads(s, h, r, p, b, o, z),
         NEW c, c = s[Len(s)].tag, NEW u, NEW g, Becomes(h, g, c, u),
         u.kids = h[c].kids, u.map = h[c].map, Linked(s, g, r, "return"),
         NEW y \in Seq(Byte), y = Whole(g, o, z, c), NEW w, w = [z EXCEPT ![c] = y]
  PROVE  Reads(s, g, r, "return", b, o, w)
<1>1. Plain(h) /\ Owned(s, h, r, o) /\ BytesRead(s, h, p, b, o, z)
  BY DEF Reads
<1>2. Fresh(s, h, r, p)
  BY DEF Linked
<1>3. /\ \A j \in 2 .. Len(s) : s[j].tag \in 1 .. Len(h)
      /\ \A j, k \in 2 .. Len(s) : j < k => s[j].tag < s[k].tag
      /\ Len(s) \in Nat /\ Len(s) \in 2 .. Len(s) /\ c \in 1 .. Len(h)
  <2>1. Len(s) \in Nat /\ Len(s) \in 2 .. Len(s)
    OBVIOUS
  <2> QED  BY <1>2, <2>1 DEF Fresh
<1>4. /\ g \in Seq(Tag) /\ Len(g) = Len(h) /\ g[c] = u
      /\ \A x \in 1 .. Len(h) :
           /\ g[x].type = h[x].type /\ g[x].name = h[x].name
           /\ x # c => g[x] = h[x]
  BY <1>3, Replaced
<1>5. SameNames(h, g)
  BY <1>4 DEF SameNames
<1>6. Owned(s, g, r, o)
  <2>1. Held(g, c) = Held(h, c)
    BY <1>4 DEF Held
  <2>2. Len(s) = Len(s) /\ \A j \in 2 .. Len(s) : s[j].tag = s[j].tag
    OBVIOUS
  <2> QED  BY <1>1, <1>3, <2>1, <2>2, OwnedReplaced
<1>7. Plain(g)
  BY <1>1, <1>3, <1>4 DEF Plain
<1>8. \A d \in Nat : c \notin Into(o, Len(h), d)
  BY <1>1, <1>2, <1>3, OnStackOwns
<1>9. /\ z \in [1 .. Len(h) -> Seq(Byte)] /\ w \in [1 .. Len(h) -> Seq(Byte)]
      /\ w[c] = y /\ \A x \in 1 .. Len(h) : x # c => w[x] = z[x]
  BY <1>1, <1>3 DEF BytesRead
<1>10. ASSUME NEW d \in Nat PROVE Same(h, o, z, g, o, w, d) /\ Same(g, o, z, g, o, w, d)
  <2>1. \A x \in Into(o, Len(h), d) : x \in 1 .. Len(h) /\ x # c
    BY <1>8, SMTT(30) DEF Into
  <2> QED  BY <1>4, <1>9, <2>1 DEF Same
<1>11. ListsKnown(s, h, p, o) /\ ListsKnown(s, g, "return", o)
  BY <1>1, <1>4, <1>6, KnownLists
<1>12. /\ Unfinished(s, p) = 2 .. Len(s)
       /\ \A j \in Unfinished(s, "return") : j \in 2 .. Len(s) /\ j < Len(s) /\ s[j].tag # c
       /\ \A j \in 2 .. Len(s) : j # Len(s) => j \in Unfinished(s, "return")
  BY <1>3 DEF Unfinished
<1>13. Whole(g, o, w, c) = y
  <2>1. c \in 1 .. Len(g) /\ c \in Nat
    BY <1>3, <1>4
  <2>2. g[c] = g[c] /\ Same(g, o, z, g, o, w, c)
    BY <1>10, <2>1
  <2>3. \A j \in Unfinished(s, "return") : s[j].tag # c
    BY <1>12
  <2>4. Untouched(g, o, z, g, o, w, s, "return", c)
    BY <1>4, <1>11, <2>1, <2>2, <2>3 DEF Untouched
  <2> QED  BY <1>9, <2>4, WholeKept
<1>14. ASSUME NEW x \in 1 .. Len(g), \A j \in Unfinished(s, "return") : s[j].tag # x
       PROVE  w[x] = Whole(g, o, w, x)
  <2>1. CASE x = c
    BY <1>9, <1>13, <2>1
  <2>2. CASE x # c
    <3>1. x \in 1 .. Len(h) /\ x \in Nat /\ g[x] = h[x] /\ w[x] = z[x]
      BY <1>4, <1>9, <2>2
    <3>2. \A j \in Unfinished(s, p) : s[j].tag # x
      BY <1>12, <1>14, <2>2, Zenon
    <3>3. Untouched(h, o, z, g, o, w, s, p, x)
      BY <1>4, <1>10, <1>11, <3>1, <3>2 DEF Untouched
    <3>4. Whole(g, o, w, x) = Whole(h, o, z, x)
      BY <3>3, WholeKept
    <3> QED  BY <1>1, <3>1, <3>2, <3>4 DEF BytesRead
  <2> QED  BY <2>1, <2>2
<1>15. ASSUME NEW j \in 2 .. Len(s) PROVE HeadRead(s, g, b, j)
  <2>1. HeadRead(s, h, b, j)
    BY <1>1 DEF BytesRead
  <2>2. s[j].tag \in 1 .. Len(h) /\ (j > 2 => s[j - 1].tag \in 1 .. Len(h))
    BY <1>3
  <2> QED  BY <1>5, <2>1, <2>2, HeadKept
<1>16. ASSUME NEW j \in Unfinished(s, "return") PROVE BodyRead(s, g, "return", b, o, w, j)
  <2> DEFINE d == s[j].tag
  <2>1. j \in 2 .. Len(s) /\ j < Len(s) /\ d # c /\ d \in 1 .. Len(h) /\ d \in Nat /\ j \in Unfinished(s, p)
    BY <1>3, <1>12
  <2>2. BodyRead(s, h, p, b, o, z, j)
    BY <1>1, <2>1 DEF BytesRead
  <2>3. h[d].type = kTagList /\ s[j].i <= Len(h[d].kids) => KidsRead(h, o, d, s[j].i)
    BY <1>11, <2>1, Zenon DEF ListsKnown
  <2>4. g[d] = h[d] /\ Same(h, o, z, g, o, w, d) /\ Entered(s, p, j)
    BY <1>4, <1>10, <2>1 DEF Entered
  <2>5. Resting(s, h, p, o, z, s, g, o, w, j, d)
    BY <2>1, <2>3, <2>4 DEF Resting
  <2> QED  BY ONLY <2>2, <2>5, BodyKept
<1>17. Len(s) > 0 => Span(b, 0, s[1].next) = ReadBytes(g, o, w, Null)
  <2>1. ReadBytes(g, o, w, 0) = ReadBytes(h, o, z, 0)
    <3>1. 0 \in Nat /\ Same(h, o, z, g, o, w, 0)
      BY <1>10
    <3> QED  BY <3>1, SameReads
  <2> QED  BY <1>1, <2>1 DEF BytesRead
<1>18. BytesRead(s, g, "return", b, o, w)
  BY <1>4, <1>9, <1>14, <1>15, <1>16, <1>17 DEF BytesRead
<1> QED  BY <1>6, <1>7, <1>18 DEF Reads

(* Frame n becomes the innermost one, or stays it, and turns to its next    *)
(* tag.                                                                     *)
Turns(s, t, h, g, p, o, q, n, c) ==
  /\ n \in 1 .. Len(s) /\ Unfinished(s, p) = 2 .. n
  /\ t \in Seq(Frame) /\ Len(t) = n
  /\ \A j \in 1 .. n - 1 : t[j] = s[j]
  /\ t[n].tag = s[n].tag /\ t[n].head = s[n].head /\ t[n].start = s[n].start
  /\ c = s[n].tag
  /\ g \in Seq(Tag) /\ Len(g) = Len(h) /\ SameNames(h, g)
  /\ \A x \in 1 .. Len(h) : x # c => g[x] = h[x]
  /\ \A d \in Nat : d # c => Into(q, Len(h), d) = Into(o, Len(h), d)

LEMMA ReadsTurn ==
  ASSUME NEW h \in Seq(Tag), NEW r, NEW s \in Seq(Frame), NEW p, NEW b, NEW o, NEW z,
         Linked(s, h, r, p), Owned(s, h, r, o), BytesRead(s, h, p, b, o, z),
         NEW t, NEW g, NEW q, NEW n, NEW c, Turns(s, t, h, g, p, o, q, n, c),
         n > 1 => BodyRead(t, g, "loop", b, q, z, n),
         n = 1 => Span(b, 0, t[1].next) = ReadBytes(g, q, z, Null)
  PROVE  BytesRead(t, g, "loop", b, q, z)
<1>1. /\ n \in 1 .. Len(s) /\ Unfinished(s, p) = 2 .. n
      /\ t \in Seq(Frame) /\ Len(t) = n
      /\ \A j \in 1 .. n - 1 : t[j] = s[j]
      /\ t[n].tag = s[n].tag /\ t[n].head = s[n].head /\ t[n].start = s[n].start
      /\ c = s[n].tag
      /\ g \in Seq(Tag) /\ Len(g) = Len(h) /\ SameNames(h, g)
      /\ \A x \in 1 .. Len(h) : x # c => g[x] = h[x]
      /\ \A d \in Nat : d # c => Into(q, Len(h), d) = Into(o, Len(h), d)
  BY DEF Turns
<1>2. /\ \A j \in 2 .. Len(s) : s[j].tag \in 1 .. Len(h)
      /\ \A j, k \in 2 .. Len(s) : j < k => s[j].tag < s[k].tag
      /\ s[1].tag = Null
  BY <1>1 DEF Linked, Fresh
<1>3. n \in Nat /\ Len(s) \in Nat /\ n >= 1 /\ n <= Len(s)
  BY <1>1
<1>4. \A j \in 2 .. n : j \in 2 .. Len(s) /\ j \in 1 .. n /\ (j # n => j \in 1 .. n - 1) /\ (j > 2 => j - 1 \in 1 .. n - 1)
  BY <1>3
<1>5. \A j \in 2 .. n :
        /\ t[j].tag = s[j].tag /\ t[j].head = s[j].head /\ t[j].start = s[j].start
        /\ j # n => t[j] = s[j]
        /\ j > 2 => t[j - 1].tag = s[j - 1].tag
  BY <1>1, <1>4
<1>6. \A x \in 1 .. Len(h) : g[x].type = h[x].type /\ g[x].name = h[x].name
  BY <1>1 DEF SameNames
<1>7. ASSUME NEW d \in Nat, d # c PROVE Same(h, o, z, g, q, z, d)
  <2>1. \A x \in Into(o, Len(h), d) : x \in 1 .. Len(h)
    BY DEF Into
  <2> QED  BY <1>1, <1>6, <1>7, <2>1 DEF Same
<1>8. ListsKnown(s, h, p, o)
  BY KnownLists
<1>9. Unfinished(t, "loop") = 2 .. n
  BY <1>1 DEF Unfinished
<1>10. ASSUME NEW x \in 1 .. Len(g), \A j \in 2 .. n : t[j].tag # x
       PROVE  z[x] = Whole(g, q, z, x)
  <2>1. \A j \in Unfinished(s, p) : s[j].tag # x
    BY <1>1, <1>5, <1>10
  <2>2. x \in 1 .. Len(h) /\ x \in Nat /\ x # c
    <3>1. n = 1 => c = Null
      BY <1>1, <1>2
    <3>2. n # 1 => n \in 2 .. n
      BY <1>3
    <3> QED  BY <1>1, <2>1, <3>1, <3>2
  <2>3. Untouched(h, o, z, g, q, z, s, p, x)
    BY <1>1, <1>7, <1>8, <2>1, <2>2 DEF Untouched
  <2>4. Whole(g, q, z, x) = Whole(h, o, z, x)
    BY <2>3, WholeKept
  <2> QED  BY <2>1, <2>2, <2>4 DEF BytesRead
<1>11. ASSUME NEW j \in 2 .. n PROVE HeadRead(t, g, b, j)
  <2>1. HeadRead(s, h, b, j)
    BY <1>4 DEF BytesRead
  <2>2. s[j].tag \in 1 .. Len(h) /\ (j > 2 => s[j - 1].tag \in 1 .. Len(h))
    <3>1. j > 2 => j - 1 \in 2 .. Len(s)
      BY <1>3
    <3> QED  BY <1>2, <1>4, <3>1
  <2> QED  BY <1>1, <1>5, <2>1, <2>2, HeadKept
<1>12. ASSUME NEW j \in 2 .. n PROVE BodyRead(t, g, "loop", b, q, z, j)
  <2> DEFINE d == s[j].tag
  <2>1. CASE j = n
    <3>1. n > 1
      BY <2>1
    <3> QED  BY <2>1, <3>1
  <2>2. CASE j # n
    <3>1. j \in 2 .. Len(s) /\ j < n /\ j < Len(s) /\ n \in 2 .. Len(s) /\ j \in Unfinished(s, p)
      BY <1>1, <1>3, <2>2
    <3>2. d \in 1 .. Len(h) /\ d \in Nat /\ d # c
      <4>1. d \in 1 .. Len(h) /\ c \in 1 .. Len(h) /\ d < c
        BY <1>1, <1>2, <3>1
      <4> QED  BY <4>1
    <3>3. BodyRead(s, h, p, b, o, z, j)
      BY <3>1 DEF BytesRead
    <3>4. h[d].type = kTagList /\ s[j].i <= Len(h[d].kids) => KidsRead(h, o, d, s[j].i)
      BY <1>8, <3>1, Zenon DEF ListsKnown
    <3>5. g[d] = h[d] /\ Same(h, o, z, g, q, z, d) /\ t[j] = s[j] /\ Entered(s, p, j)
      BY <1>1, <1>5, <1>7, <2>2, <3>1, <3>2 DEF Entered
    <3>6. Resting(s, h, p, o, z, t, g, q, z, j, d)
      BY <3>2, <3>4, <3>5 DEF Resting
    <3> QED  BY ONLY <3>3, <3>6, BodyKept
  <2> QED  BY <2>1, <2>2
<1>13. Len(t) > 0 => Span(b, 0, t[1].next) = ReadBytes(g, q, z, Null)
  <2>1. CASE n = 1
    BY <2>1
  <2>2. CASE n # 1
    <3>1. 1 \in 1 .. n - 1 /\ n \in 2 .. Len(s) /\ Len(s) > 0
      BY <1>3, <2>2
    <3>2. t[1] = s[1] /\ c # Null /\ 0 \in Nat
      BY <1>1, <1>2, <3>1
    <3>3. Same(h, o, z, g, q, z, 0)
      BY <1>7, <3>2
    <3>4. ReadBytes(g, q, z, 0) = ReadBytes(h, o, z, 0)
      BY <3>3, SameReads
    <3> QED  BY <3>1, <3>2, <3>4 DEF BytesRead
  <2> QED  BY <2>1, <2>2
<1>14. z \in [1 .. Len(g) -> Seq(Byte)]
  BY <1>1 DEF BytesRead
<1> QED  BY <1>1, <1>9, <1>10, <1>11, <1>12, <1>13, <1>14 DEF BytesRead

(* A tag is made, and its body is what comes next. *)
LEMMA ReadsPush ==
  ASSUME NEW h, NEW r, NEW s, NEW b, NEW o, NEW z,
         Linked(s, h, r, "loop"), Reads(s, h, r, "loop", b, o, z),
         NEW t, NEW g, NEW q, NEW u, NEW n, NEW f, Pushed(s, h, t, g, o, q, u, n, f),
         f.next = f.start, HeadRead(t, g, b, Len(s) + 1),
         NEW w, w = [x \in 1 .. n |-> IF x = n THEN << >> ELSE z[x]]
  PROVE  Reads(t, g, r, "body", b, q, w)
<1>p. /\ h \in Seq(Tag) /\ s \in Seq(Frame) /\ Len(s) > 0
      /\ u \in Tag /\ u.kids = << >> /\ u.map = {}
      /\ n = Len(h) + 1 /\ f \in Frame /\ f.tag = n
      /\ t = Append(s, f) /\ g = Append(h, u)
  BY DEF Pushed
<1> USE <1>p
<1>1. Plain(h) /\ Owned(s, h, r, o) /\ BytesRead(s, h, "loop", b, o, z)
  BY DEF Reads
<1>2. /\ g \in Seq(Tag) /\ Len(g) = n /\ g[n] = u /\ n \in Nat /\ Len(h) \in Nat
      /\ \A x \in 1 .. Len(h) : g[x] = h[x]
  BY AppendProperties
<1>3. /\ Len(t) = Len(s) + 1 /\ t[Len(s) + 1] = f /\ Len(s) \in Nat
      /\ \A j \in 1 .. Len(s) : t[j] = s[j]
  BY Push
<1>4. /\ Owned(t, g, r, q) /\ Into(q, n, n) = {}
      /\ \A d \in 0 .. Len(h) : Into(q, n, d) = Into(o, Len(h), d)
  BY ONLY Linked(s, h, r, "loop"), <1>1, Pushed(s, h, t, g, o, q, u, n, f), OwnedPush
<1>5. \A j \in 2 .. Len(s) : s[j].tag \in 1 .. Len(h)
  BY DEF Linked, Fresh
<1>6. /\ \A x \in 1 .. n : x \in 1 .. Len(h) \/ x = n
      /\ \A x \in 1 .. Len(h) : x \in 1 .. n /\ x # n
  BY <1>2
<1>7. Plain(g)
  BY <1>1, <1>2, <1>6 DEF Plain
<1>8. SameNames(h, g)
  BY <1>2 DEF SameNames
<1>9. /\ z \in [1 .. Len(h) -> Seq(Byte)] /\ w \in [1 .. n -> Seq(Byte)]
      /\ \A x \in 1 .. Len(h) : w[x] = z[x]
  <2>1. z \in [1 .. Len(h) -> Seq(Byte)] /\ << >> \in Seq(Byte)
    BY <1>1 DEF BytesRead
  <2>2. \A x \in 1 .. Len(h) : w[x] = z[x]
    BY <1>6
  <2>3. \A x \in 1 .. n : w[x] \in Seq(Byte)
    BY <1>6, <2>1, <2>2
  <2> QED  BY <2>1, <2>2, <2>3
<1>10. ASSUME NEW d \in 0 .. Len(h) PROVE Same(h, o, z, g, q, w, d)
  <2>1. \A x \in Into(o, Len(h), d) : x \in 1 .. Len(h)
    BY DEF Into
  <2> QED  BY <1>2, <1>4, <1>9, <2>1 DEF Same
<1>11. ListsKnown(s, h, "loop", o)
  BY <1>1, KnownLists
<1>12. Unfinished(s, "loop") = 2 .. Len(s) /\ Unfinished(t, "body") = 2 .. Len(t)
  BY DEF Unfinished
<1>13. /\ \A j \in 2 .. Len(s) : j \in 2 .. Len(t) /\ t[j] = s[j]
       /\ \A j \in 2 .. Len(t) : j \in 2 .. Len(s) \/ j = Len(t)
       /\ Len(t) \in 2 .. Len(t) /\ t[Len(t)] = f
  BY <1>3
<1>14. ASSUME NEW x \in 1 .. Len(g), \A j \in 2 .. Len(t) : t[j].tag # x
       PROVE  w[x] = Whole(g, q, w, x)
  <2>1. x # n /\ \A j \in 2 .. Len(s) : s[j].tag # x
    BY <1>13, <1>14
  <2>2. x \in 1 .. Len(h) /\ x \in 0 .. Len(h)
    BY <1>2, <1>6, <2>1
  <2>3. Untouched(h, o, z, g, q, w, s, "loop", x)
    BY <1>2, <1>10, <1>11, <1>12, <2>1, <2>2 DEF Untouched
  <2>4. Whole(g, q, w, x) = Whole(h, o, z, x)
    BY <2>3, WholeKept
  <2> QED  BY <1>1, <1>9, <1>12, <2>1, <2>2, <2>4 DEF BytesRead
<1>15. ASSUME NEW j \in 2 .. Len(t) PROVE HeadRead(t, g, b, j)
  <2>1. CASE j = Len(t)
    BY <1>3, <2>1
  <2>2. CASE j # Len(t)
    <3>1. j \in 2 .. Len(s) /\ (j > 2 => j - 1 \in 2 .. Len(s))
      BY <1>3, <2>2
    <3>2. HeadRead(s, h, b, j)
      BY <1>1, <3>1 DEF BytesRead
    <3>3. /\ t[j] = s[j] /\ (j > 2 => t[j - 1] = s[j - 1])
          /\ s[j].tag \in 1 .. Len(h) /\ (j > 2 => s[j - 1].tag \in 1 .. Len(h))
      BY <1>5, <1>13, <3>1
    <3> QED  BY <1>8, <3>2, <3>3, HeadKept
  <2> QED  BY <2>1, <2>2
<1>16. ASSUME NEW j \in 2 .. Len(t) PROVE BodyRead(t, g, "body", b, q, w, j)
  <2>1. CASE j = Len(t)
    <3>1. f.start \in Nat
      BY DEF Frame
    <3>2. Span(b, f.start, f.next) = << >>
      BY <3>1, SpanNothing
    <3>3. ReadBytes(g, q, w, n) = << >>
      <4>1. Into(q, Len(g), n) = {}
        BY <1>2, <1>4
      <4> QED  BY ONLY <4>1, ReadsNone, Zenon
    <3>4. ~Entered(t, "body", j)
      BY <1>3, <2>1 DEF Entered
    <3> QED  BY <1>13, <2>1, <3>2, <3>3, <3>4 DEF BodyRead
  <2>2. CASE j # Len(t)
    <3> DEFINE d == s[j].tag
    <3>1. j \in 2 .. Len(s) /\ t[j] = s[j]
      BY <1>13, <2>2
    <3>2. d \in 1 .. Len(h) /\ d \in Nat /\ d \in 0 .. Len(h)
      BY <1>5, <3>1
    <3>3. BodyRead(s, h, "loop", b, o, z, j)
      BY <1>1, <1>12, <3>1 DEF BytesRead
    <3>4. h[d].type = kTagList /\ s[j].i <= Len(h[d].kids) => KidsRead(h, o, d, s[j].i)
      BY <1>11, <1>12, <3>1, Zenon DEF ListsKnown
    <3>5. g[d] = h[d] /\ Same(h, o, z, g, q, w, d) /\ Entered(s, "loop", j)
      BY <1>2, <1>10, <3>2 DEF Entered
    <3>6. Resting(s, h, "loop", o, z, t, g, q, w, j, d)
      BY <3>1, <3>2, <3>4, <3>5 DEF Resting
    <3> QED  BY ONLY <3>3, <3>6, BodyKept
  <2> QED  BY <2>1, <2>2
<1>17. Len(t) > 0 => Span(b, 0, t[1].next) = ReadBytes(g, q, w, Null)
  <2>1. 0 \in 0 .. Len(h) /\ 0 \in Nat /\ 1 \in 1 .. Len(s)
    BY <1>2
  <2>2. Same(h, o, z, g, q, w, 0) /\ t[1] = s[1]
    BY <1>3, <1>10, <2>1
  <2>3. ReadBytes(g, q, w, 0) = ReadBytes(h, o, z, 0)
    BY <2>1, <2>2, SameReads
  <2> QED  BY <1>1, <2>2, <2>3 DEF BytesRead
<1>18. BytesRead(t, g, "body", b, q, w)
  BY <1>2, <1>9, <1>12, <1>14, <1>15, <1>16, <1>17 DEF BytesRead
<1> QED  BY <1>4, <1>7, <1>18 DEF Reads

-----------------------------------------------------------------------------
(* A load that is over has read its root tags, and no others are left.      *)

LEMMA ReadsCut ==
  ASSUME NEW h, NEW r, NEW s, NEW p, NEW b, NEW o, NEW z,
         Linked(s, h, r, p), Reads(s, h, r, p, b, o, z),
         NEW g, NEW q, NEW m, CutAt(s, h, g, o, q, m), NEW w, w = [x \in 1 .. m |-> z[x]]
  PROVE  /\ Reads(<< >>, g, r, "done", b, q, w)
         /\ ReadBytes(g, q, w, Null) = Span(b, 0, s[1].next)
<1>p. /\ h \in Seq(Tag) /\ s \in Seq(Frame) /\ Len(s) > 1
      /\ m = s[2].tag - 1 /\ g = SubSeq(h, 1, m)
  BY DEF CutAt
<1> USE <1>p
<1>1. Plain(h) /\ Owned(s, h, r, o) /\ BytesRead(s, h, p, b, o, z)
  BY DEF Reads
<1>2. /\ g \in Seq(Tag) /\ Len(g) = m /\ m \in Nat /\ m < Len(h)
      /\ \A x \in 1 .. m : x \in 1 .. Len(h) /\ g[x] = h[x] /\ q[x] = o[x]
      /\ Owned(<< >>, g, r, q)
      /\ \A d \in 0 .. m : Into(q, m, d) = Into(o, Len(h), d)
  BY ONLY Linked(s, h, r, p), <1>1, CutAt(s, h, g, o, q, m), OwnedCut
<1>3. Plain(g)
  BY <1>1, <1>2 DEF Plain
<1>4. w \in [1 .. m -> Seq(Byte)] /\ \A x \in 1 .. m : w[x] = z[x]
  BY <1>1, <1>2 DEF BytesRead
<1>5. ASSUME NEW d \in 0 .. m PROVE Same(h, o, z, g, q, w, d)
  <2>1. \A x \in Into(o, Len(h), d) : x \in 1 .. m
    <3>1. \A x \in Into(q, m, d) : x \in 1 .. m
      BY <1>2 DEF Into
    <3> QED  BY <1>2, <3>1
  <2> QED  BY <1>2, <1>4, <2>1 DEF Same
<1>6. ListsKnown(s, h, p, o)
  BY <1>1, KnownLists
<1>7. ASSUME NEW x \in 1 .. m PROVE w[x] = Whole(g, q, w, x)
  <2>1. x \in 1 .. Len(h) /\ x \in 0 .. m /\ g[x] = h[x] /\ w[x] = z[x] /\ x \in 1 .. Len(g)
    BY <1>2, <1>4
  <2>2. \A j \in Unfinished(s, p) : s[j].tag # x
    <3> SUFFICES ASSUME NEW j \in 2 .. Len(s), s[j].tag = x PROVE FALSE
      BY DEF Unfinished
    <3>1. o[x] = x
      BY <1>1, <2>1 DEF Owned
    <3>2. q[x] # x
      <4>1. 2 .. Len(<< >>) = {}
        OBVIOUS
      <4> QED  BY <1>2, <4>1 DEF Owned
    <3> QED  BY <1>2, <3>1, <3>2
  <2>3. Untouched(h, o, z, g, q, w, s, p, x)
    BY <1>2, <1>5, <1>6, <2>1, <2>2 DEF Untouched
  <2>4. Whole(g, q, w, x) = Whole(h, o, z, x)
    BY <2>3, WholeKept
  <2> QED  BY <1>1, <2>1, <2>2, <2>4 DEF BytesRead
<1>8. BytesRead(<< >>, g, "done", b, q, w)
  <2>1. 2 .. Len(<< >>) = {} /\ Unfinished(<< >>, "done") = {} /\ ~(Len(<< >>) > 0)
    BY DEF Unfinished
  <2> QED  BY <1>2, <1>4, <1>7, <2>1 DEF BytesRead
<1>9. ReadBytes(g, q, w, 0) = ReadBytes(h, o, z, 0)
  <2>1. 0 \in 0 .. m /\ 0 \in Nat
    BY <1>2
  <2>2. Same(h, o, z, g, q, w, 0)
    BY <1>5, <2>1
  <2> QED  BY <2>1, <2>2, SameReads
<1>10. Len(s) > 0
  OBVIOUS
<1>11. Span(b, 0, s[1].next) = ReadBytes(h, o, z, Null)
  BY <1>1, <1>10 DEF BytesRead
<1> QED  BY <1>2, <1>3, <1>8, <1>9, <1>11 DEF Reads

LEMMA ReadsEnd ==
  ASSUME NEW h \in Seq(Tag), NEW r, NEW s \in Seq(Frame), Len(s) \in {0, 1}, NEW p, NEW b, NEW o, NEW z,
         Reads(s, h, r, p, b, o, z)
  PROVE  Reads(<< >>, h, r, "done", b, o, z)
<1>1. Plain(h) /\ Owned(s, h, r, o) /\ BytesRead(s, h, p, b, o, z)
  BY DEF Reads
<1>2. Owned(<< >>, h, r, o)
  BY <1>1, OwnedEnd
<1>3. Unfinished(s, p) = {}
  <2>1. \A n \in {0, 1} : 2 .. n = {}
    OBVIOUS
  <2> QED  BY <2>1 DEF Unfinished
<1>4. BytesRead(<< >>, h, "done", b, o, z)
  <2>1. 2 .. Len(<< >>) = {} /\ Unfinished(<< >>, "done") = {} /\ ~(Len(<< >>) > 0)
    BY DEF Unfinished
  <2> QED  BY <1>1, <1>3, <2>1 DEF BytesRead
<1> QED  BY <1>1, <1>2, <1>4 DEF Reads

LEMMA ReadsStart ==
  ASSUME NEW s, s = << >> \/ (Len(s) = 1 /\ s[1].next = 0), NEW p, NEW b
  PROVE  Reads(s, << >>, {}, p, b, << >>, << >>)
<1>1. Plain(<< >>)
  BY DEF Plain
<1>2. Len(s) \in {0, 1}
  OBVIOUS
<1>3. 2 .. Len(s) = {}
  <2>1. \A n \in {0, 1} : 2 .. n = {}
    OBVIOUS
  <2> QED  BY <1>2, <2>1
<1>4. 1 .. Len(<< >>) = {}
  OBVIOUS
<1>5. Owned(s, << >>, {}, << >>)
  BY <1>3, <1>4 DEF Owned, Values
<1>6. Len(s) > 0 => Span(b, 0, s[1].next) = ReadBytes(<< >>, << >>, << >>, Null)
  <2>1. Into(<< >>, Len(<< >>), 0) = {}
    BY DEF Into
  <2>2. ReadBytes(<< >>, << >>, << >>, 0) = << >>
    BY <2>1, ReadsNone
  <2>3. Span(b, 0, 0) = << >>
    BY SpanNothing
  <2> QED  BY <2>2, <2>3
<1>7. BytesRead(s, << >>, p, b, << >>, << >>)
  <2>1. Unfinished(s, p) = {}
    BY <1>3 DEF Unfinished
  <2>2. << >> \in [1 .. Len(<< >>) -> Seq(Byte)]
    BY <1>4
  <2> QED  BY <1>3, <1>4, <1>6, <2>1, <2>2 DEF BytesRead
<1> QED  BY <1>1, <1>5, <1>7 DEF Reads

-----------------------------------------------------------------------------
(* Every action keeps what was read                                         *)

(* The buffer, and the byte behind it. *)
Ext == Append(buffer, Beyond)

Loaded(o, z) ==
  /\ Reads(stack, heap, root, pc, Ext, o, z)
  /\ pc = "return" => z[Top.tag] = Span(Ext, Top.start, Top.start + ret)
  /\ Depth > 0 => stack[1].next <= length
  /\ pc = "done" =>
       \E k \in 0 .. length : /\ Span(Ext, 0, k) = ReadBytes(heap, o, z, Null)
                              /\ result = "true" => k = length

LInv == FInv /\ \E o, z : Loaded(o, z)

LEMMA ExtIs ==
  ASSUME FInv
  PROVE  /\ buffer \in Seq(Byte) /\ Ext \in Seq(Byte) /\ length \in Nat
         /\ length = Len(buffer) /\ Len(Ext) = length + 1 /\ Beyond \in Byte
         /\ \A m, n \in Nat : m <= n /\ n <= length => Span(Ext, m, n) = Span(buffer, m, n)
<1>1. buffer \in Seq(Byte) /\ Beyond \in Byte
  BY BeyondAssumption DEF FInv, IInv, TypeOK
<1>2. Ext \in Seq(Byte) /\ length \in Nat /\ length = Len(buffer) /\ Len(Ext) = length + 1
  BY <1>1, WithBeyond DEF length, Ext
<1>3. \A m, n \in Nat : m <= n /\ n <= length => Span(Ext, m, n) = Span(buffer, m, n)
  BY <1>1, <1>2, SpanWithin DEF Ext
<1> QED  BY <1>1, <1>2, <1>3

LEMMA FinishLoad ==
  ASSUME FInv, NEW o, NEW z, Loaded(o, z), pc \in {"body", "loop"}, Depth > 1,
         pc' = "return", UNCHANGED <<root, stack, buffer>>, Linked(stack, heap, root, pc)',
         NEW u, Becomes(heap, heap', Top.tag, u), u.kids = Cur.kids, u.map = Cur.map,
         Span(Ext, Top.start, Top.start + ret') \in Seq(Byte),
         Span(Ext, Top.start, Top.start + ret') = Whole(heap', o, z, Top.tag)
  PROVE  (\E q, w : Loaded(q, w))'
<1> DEFINE y == Span(Ext, Top.start, Top.start + ret')
<1>0. PICK w : w = [z EXCEPT ![Top.tag] = y]
  OBVIOUS
<1>1. /\ heap \in Seq(Tag) /\ stack \in Seq(Frame) /\ Len(stack) > 1 /\ Depth = Len(stack)
      /\ Top = stack[Len(stack)] /\ Cur = heap[Top.tag] /\ Top.tag \in 1 .. Len(heap)
      /\ Linked(stack, heap, root, pc)
  BY LinkedFacts
<1>2. Linked(stack, heap', root, "return")
  OBVIOUS
<1>3. Reads(stack, heap, root, pc, Ext, o, z) /\ stack[1].next <= length
      /\ z \in [1 .. Len(heap) -> Seq(Byte)]
  BY <1>1 DEF Loaded, Reads, BytesRead
<1>4. y \in Seq(Byte) /\ y = Whole(heap', o, z, Top.tag)
  OBVIOUS
<1>5. w[Top.tag] = y
  BY <1>0, <1>1, <1>3
<1> HIDE DEF y
<1>7. Reads(stack, heap', root, "return", Ext, o, w)
  BY <1>0, <1>1, <1>2, <1>3, <1>4, ReadsFinish
<1>8. /\ Ext' = Ext /\ length' = length /\ Top' = Top /\ stack' = stack /\ root' = root
      /\ pc' = "return" /\ Depth' = Depth
  BY DEF Ext, length, Top, Depth
<1>9. Reads(stack', heap', root', pc', Ext', o, w)
  BY <1>7, <1>8
<1>10. w[Top'.tag] = Span(Ext', Top'.start, Top'.start + ret')
  BY <1>5, <1>8 DEF y
<1>11. Loaded(o, w)'
  BY <1>3, <1>8, <1>9, <1>10 DEF Loaded
<1> QED  BY <1>11

LEMMA TurnLoad ==
  ASSUME FInv, NEW o, NEW z, Loaded(o, z), pc # "done", pc' = "loop", buffer' = buffer,
         NEW q, NEW n, NEW c, Turns(stack, stack', heap, heap', pc, o, q, n, c),
         Plain(heap'), Owned(stack', heap', root', q), stack'[1].next <= length,
         n > 1 => BodyRead(stack', heap', "loop", Ext, q, z, n),
         n = 1 => Span(Ext, 0, stack'[1].next) = ReadBytes(heap', q, z, Null)
  PROVE  (\E p, w : Loaded(p, w))'
<1>1. heap \in Seq(Tag) /\ stack \in Seq(Frame) /\ Linked(stack, heap, root, pc)
  BY LinkedFacts
<1>2. Owned(stack, heap, root, o) /\ BytesRead(stack, heap, pc, Ext, o, z)
  BY DEF Loaded, Reads
<1>3. BytesRead(stack', heap', "loop", Ext, q, z)
  BY <1>1, <1>2, ReadsTurn
<1>4. Ext' = Ext /\ length' = length
  BY DEF Ext, length
<1>5. Reads(stack', heap', root', pc', Ext', q, z)
  BY <1>3, <1>4 DEF Reads
<1>6. Loaded(q, z)'
  BY <1>4, <1>5 DEF Loaded
<1> QED  BY <1>6

LEMMA PushLoad ==
  ASSUME FInv, NEW o, NEW z, Loaded(o, z), pc = "loop", pc' = "body",
         UNCHANGED <<root, buffer>>,
         NEW q, NEW u, NEW n, NEW f, Pushed(stack, heap, stack', heap', o, q, u, n, f),
         f.next = f.start, HeadRead(stack', heap', Ext, Len(stack) + 1)
  PROVE  (\E p, w : Loaded(p, w))'
<1> DEFINE w == [x \in 1 .. n |-> IF x = n THEN << >> ELSE z[x]]
<1>1. Linked(stack, heap, root, "loop") /\ Reads(stack, heap, root, "loop", Ext, o, z)
  BY LinkedFacts DEF Loaded
<1>2. w = [x \in 1 .. n |-> IF x = n THEN << >> ELSE z[x]]
  OBVIOUS
<1> HIDE DEF w
<1>3. Reads(stack', heap', root, "body", Ext, q, w)
  BY <1>1, <1>2, ReadsPush
<1>4. Ext' = Ext /\ length' = length
  BY DEF Ext, length
<1>5. Len(stack) > 0 /\ stack \in Seq(Frame) /\ stack' = Append(stack, f) /\ f \in Frame
  BY DEF Pushed
<1>6. stack'[1] = stack[1] /\ stack[1].next <= length
  <2>1. 1 \in 1 .. Len(stack) /\ Depth > 0
    BY <1>5, LinkedFacts
  <2>2. stack'[1] = stack[1]
    BY <1>5, <2>1, Push
  <2> QED  BY <2>1, <2>2 DEF Loaded
<1>7. Reads(stack', heap', root', pc', Ext', q, w)
  BY <1>3, <1>4
<1>8. Loaded(q, w)'
  BY <1>4, <1>6, <1>7 DEF Loaded
<1> QED  BY <1>8

LEMMA AbortLoad ==
  ASSUME FInv, NEW o, NEW z, Loaded(o, z), pc # "done", NEW how, how # "true", Abort(how)
  PROVE  (\E q, w : Loaded(q, w))'
<1>1. /\ stack' = << >> /\ pc' = "done" /\ root' = root /\ buffer' = buffer /\ result' = how
      /\ heap' = IF InLoad THEN heap ELSE SubSeq(heap, 1, stack[2].tag - 1)
  BY DEF Abort
<1>2. /\ heap \in Seq(Tag) /\ stack \in Seq(Frame) /\ Linked(stack, heap, root, pc)
      /\ Depth = Len(stack) /\ Depth \in Nat /\ Depth > 0
  BY LinkedFacts
<1>3. Reads(stack, heap, root, pc, Ext, o, z) /\ stack[1].next <= length
  BY <1>2 DEF Loaded
<1>4. Ext' = Ext /\ length' = length /\ Depth' = 0
  BY <1>1 DEF Ext, length, Depth
<1>5. stack[1].next \in 0 .. length
  <2>1. 1 \in 1 .. Len(stack)
    BY <1>2
  <2>2. stack[1].next \in Nat
    BY <1>2, <2>1, FrameFacts
  <2> QED  BY <1>3, <2>2, ExtIs
<1>6. ASSUME NEW q, NEW w, Reads(<< >>, heap', root, "done", Ext, q, w),
             ReadBytes(heap', q, w, Null) = Span(Ext, 0, stack[1].next)
      PROVE  Loaded(q, w)'
  <2>1. Reads(stack', heap', root', pc', Ext', q, w)
    BY <1>1, <1>4, <1>6
  <2>2. \E k \in 0 .. length' : /\ Span(Ext', 0, k) = ReadBytes(heap', q, w, Null)
                                /\ result' = "true" => k = length'
    BY <1>1, <1>4, <1>5, <1>6
  <2> QED  BY <1>1, <1>4, <2>1, <2>2 DEF Loaded
<1>7. CASE InLoad
  <2>1. Len(stack) = 1 /\ heap' = heap
    BY <1>1, <1>2, <1>7 DEF InLoad
  <2>2. Reads(<< >>, heap, root, "done", Ext, o, z)
    BY <1>2, <1>3, <2>1, ReadsEnd
  <2>3. ReadBytes(heap, o, z, Null) = Span(Ext, 0, stack[1].next)
    BY <1>3, <2>1 DEF Reads, BytesRead
  <2>4. Loaded(o, z)'
    BY <1>6, <2>1, <2>2, <2>3
  <2> QED  BY <2>4
<1>8. CASE ~InLoad
  <2>0. PICK m, q, w : /\ m = stack[2].tag - 1 /\ q = [x \in 1 .. m |-> o[x]]
                       /\ w = [x \in 1 .. m |-> z[x]]
    OBVIOUS
  <2>1. CutAt(stack, heap, heap', o, q, m)
    <3>1. Len(stack) > 1 /\ heap' = SubSeq(heap, 1, m)
      BY <1>1, <1>2, <1>8, <2>0 DEF InLoad
    <3> QED  BY <1>2, <2>0, <3>1 DEF CutAt
  <2>2. w = [x \in 1 .. m |-> z[x]]
    BY <2>0
  <2>3. /\ Reads(<< >>, heap', root, "done", Ext, q, w)
        /\ ReadBytes(heap', q, w, Null) = Span(Ext, 0, stack[1].next)
    BY <1>2, <1>3, <2>1, <2>2, ReadsCut
  <2>4. Loaded(q, w)'
    BY <1>6, <2>3
  <2> QED  BY <2>4
<1> QED  BY <1>7, <1>8

LEMMA LoadLoad == ASSUME Load PROVE (\E q, w : Loaded(q, w))'
<1>1. /\ stack' = <<NewFrame(Null, 0, 0)>> /\ heap' = << >> /\ root' = {} /\ pc' = "loop"
      /\ \E b \in Buffers : buffer' = b
  BY DEF Load, LoadFrom
<1>2. Len(stack') = 1 /\ stack'[1].next = 0 /\ stack'[1].tag = Null
  BY <1>1 DEF NewFrame
<1>3. Reads(stack', heap', root', pc', Ext', << >>, << >>)
  BY <1>1, <1>2, ReadsStart
<1>4. buffer' \in Seq(Byte)
  BY <1>1, BuffersAssumption
<1>5. 0 <= length'
  BY <1>4 DEF length
<1>6. Loaded(<< >>, << >>)'
  BY <1>1, <1>2, <1>3, <1>5 DEF Loaded
<1> QED  BY <1>6

LEMMA LoadReturnsLoad ==
  ASSUME FInv, NEW o, NEW z, Loaded(o, z), LoadReturns PROVE (\E q, w : Loaded(q, w))'
<1>1. /\ pc = "loop" /\ InLoad /\ pc' = "done" /\ stack' = << >> /\ UNCHANGED <<heap, root, buffer>>
      /\ Top.next >= length /\ result' = "true"
  BY DEF LoadReturns
<1>2. /\ heap \in Seq(Tag) /\ stack \in Seq(Frame) /\ Len(stack) = 1 /\ Depth = 1
      /\ Top = stack[1]
  BY <1>1, LinkedFacts DEF InLoad
<1>3. Reads(stack, heap, root, pc, Ext, o, z) /\ stack[1].next <= length
  BY <1>2 DEF Loaded
<1>4. Ext' = Ext /\ length' = length /\ Depth' = 0 /\ length \in Nat
  BY <1>1, ExtIs DEF Ext, length, Depth
<1>5. stack[1].next = length
  <2>1. Top.next \in Nat
    BY <1>1, RunningFacts DEF FInv
  <2> QED  BY <1>1, <1>2, <1>3, <1>4, <2>1
<1>6. Reads(<< >>, heap, root, "done", Ext, o, z)
  BY <1>2, <1>3, ReadsEnd
<1>7. ReadBytes(heap, o, z, Null) = Span(Ext, 0, length)
  BY <1>2, <1>3, <1>5 DEF Reads, BytesRead
<1>8. Reads(stack', heap', root', pc', Ext', o, z)
  BY <1>1, <1>4, <1>6
<1>9. \E k \in 0 .. length' : /\ Span(Ext', 0, k) = ReadBytes(heap', o, z, Null)
                              /\ result' = "true" => k = length'
  BY <1>1, <1>4, <1>7
<1>10. Loaded(o, z)'
  BY <1>1, <1>4, <1>8, <1>9 DEF Loaded
<1> QED  BY <1>10

-----------------------------------------------------------------------------
(* Leaves: `head` bytes of length, and the payload                          *)

LEMMA SumsWithin ==
  ASSUME NEW a \in Nat, NEW m \in Nat, NEW k \in Nat, NEW l \in Nat, a + m + k <= l
  PROVE  /\ a + m \in Nat /\ a + m + k \in Nat /\ a + m <= a + m + k
         /\ (a + m + k) - (a + m) = k /\ a + m + k <= l + 1
OBVIOUS

LEMMA LeafMakes ==
  ASSUME FInv, pc = "body", NEW head \in Nat, NEW n \in Nat, ReadLeaf(head, n),
         Top.start + head + n <= length
  PROVE  LET d == Span(Ext, Top.start + head, Top.start + head + n)
             u == [Cur EXCEPT !.data = d]
         IN
         /\ d \in Seq(Byte) /\ Len(d) = n
         /\ Becomes(heap, heap', Top.tag, u) /\ u.kids = Cur.kids /\ u.map = Cur.map
         /\ heap' \in Seq(Tag) /\ Top.tag \in 1 .. Len(heap')
         /\ heap'[Top.tag].type = Cur.type /\ heap'[Top.tag].data = d
<1> DEFINE d == Span(Ext, Top.start + head, Top.start + head + n)
           u == [Cur EXCEPT !.data = d]
<1>1. /\ heap \in Seq(Tag) /\ Top.tag \in 1 .. Len(heap) /\ Cur = heap[Top.tag] /\ Cur \in Tag
      /\ Top.start \in Nat
  BY BodyForest, LinkedFacts, RunningFacts DEF FInv
<1>2. Top.start + head \in Nat /\ Top.start + head + n \in Nat
      /\ Top.start + head <= Top.start + head + n /\ (Top.start + head + n) - (Top.start + head) = n
      /\ Top.start + head + n <= Len(Ext)
  <2>1. Len(Ext) = length + 1 /\ length \in Nat
    BY ExtIs
  <2>3. /\ Top.start + head \in Nat /\ Top.start + head + n \in Nat
        /\ Top.start + head <= Top.start + head + n
        /\ (Top.start + head + n) - (Top.start + head) = n
        /\ Top.start + head + n <= length + 1
    <3> HIDE DEF d, u
    <3>1. PICK a \in Nat : a = Top.start
      BY <1>1
    <3>2. PICK l \in Nat : l = length
      BY <2>1
    <3>3. a + head + n <= l
      BY <3>1, <3>2
    <3>4. /\ a + head \in Nat /\ a + head + n \in Nat /\ a + head <= a + head + n
          /\ (a + head + n) - (a + head) = n /\ a + head + n <= l + 1
      BY ONLY head \in Nat, n \in Nat, a \in Nat, l \in Nat, <3>3, SumsWithin
    <3> QED  BY <3>1, <3>2, <3>4, Zenon
  <2>4. length + 1 = Len(Ext)
    BY <2>1
  <2> QED  BY ONLY <2>3, <2>4, Zenon
<1>3. d \in Seq(Byte) /\ Len(d) = n
  BY <1>2, ExtIs, SpanType
<1>4. d = Bytes(buffer, Top.start + head, n)
  <2>1. d = Span(buffer, Top.start + head, Top.start + head + n)
    BY <1>2, ExtIs
  <2> QED  BY <2>1 DEF Span, Bytes
<1>5. heap' = [heap EXCEPT ![Top.tag].data = d]
  BY <1>4 DEF ReadLeaf
<1> HIDE DEF d
<1>6. /\ u \in Tag /\ u.type = Cur.type /\ u.name = Cur.name /\ u.data = d
      /\ u.kids = Cur.kids /\ u.map = Cur.map
  BY <1>1, <1>3 DEF Tag
<1>7. heap' = [heap EXCEPT ![Top.tag] = u]
  BY <1>1, <1>5
<1> HIDE DEF u
<1>8. Becomes(heap, heap', Top.tag, u)
  BY <1>1, <1>6, <1>7 DEF Becomes
<1>9. heap' \in Seq(Tag) /\ Len(heap') = Len(heap) /\ heap'[Top.tag] = u
  BY <1>1, <1>8, Replaced
<1>10. /\ d \in Seq(Byte) /\ Len(d) = n
       /\ Becomes(heap, heap', Top.tag, u) /\ u.kids = Cur.kids /\ u.map = Cur.map
       /\ heap' \in Seq(Tag) /\ Top.tag \in 1 .. Len(heap')
       /\ heap'[Top.tag].type = Cur.type /\ heap'[Top.tag].data = d
  BY <1>1, <1>3, <1>6, <1>8, <1>9
<1> QED  BY <1>10 DEF d, u

LEMMA LeafLoad ==
  ASSUME FInv, NEW o, NEW z, Loaded(o, z), pc = "body",
         NEW head \in Nat, NEW n \in Nat, ReadLeaf(head, n),
         Top.start + head + n <= length, Linked(stack, heap, root, pc)',
         ASSUME NEW d \in Seq(Byte), Len(d) = n, heap'[Top.tag].data = d,
                ByType(heap', o, z, Top.tag, Cur.type)
         PROVE  Whole(heap', o, z, Top.tag) = Then(Span(Ext, Top.start, Top.start + head), d)
  PROVE  (\E q, w : Loaded(q, w))'
<1> DEFINE d == Span(Ext, Top.start + head, Top.start + head + n)
           u == [Cur EXCEPT !.data = d]
<1>1. /\ d \in Seq(Byte) /\ Len(d) = n
      /\ Becomes(heap, heap', Top.tag, u) /\ u.kids = Cur.kids /\ u.map = Cur.map
      /\ heap' \in Seq(Tag) /\ Top.tag \in 1 .. Len(heap')
      /\ heap'[Top.tag].type = Cur.type /\ heap'[Top.tag].data = d
  BY LeafMakes
<1>2. /\ pc' = "return" /\ UNCHANGED <<root, stack, buffer>> /\ ret' = head + n
  BY DEF ReadLeaf
<1>3. Depth > 1 /\ Top.start \in Nat
  BY BodyForest, RunningFacts DEF FInv
<1> HIDE DEF u
<1>4. ByType(heap', o, z, Top.tag, Cur.type)
  BY <1>1, WholeByType
<1>5. Whole(heap', o, z, Top.tag) = Then(Span(Ext, Top.start, Top.start + head), d)
  BY <1>1, <1>4
<1>6. /\ Span(Ext, Top.start, Top.start + ret') \in Seq(Byte)
      /\ Span(Ext, Top.start, Top.start + ret') = Then(Span(Ext, Top.start, Top.start + head), d)
  <2>1. Ext \in Seq(Byte) /\ Len(Ext) = length + 1 /\ length \in Nat
    BY ExtIs
  <2>2. /\ Top.start + head \in Nat /\ Top.start + head + n \in Nat
        /\ Top.start <= Top.start + head /\ Top.start + head <= Top.start + head + n
        /\ Top.start <= Top.start + head + n /\ Top.start + head + n <= Len(Ext)
        /\ Top.start + ret' = Top.start + head + n
    <3> DEFINE b == Top.start
               e == Len(Ext)
               r == ret'
    <3>1. b \in Nat /\ e = length + 1 /\ length \in Nat /\ b + head + n <= length /\ r = head + n
      BY <1>2, <1>3, <2>1
    <3> HIDE DEF b, e, r
    <3>2. b + head \in Nat /\ b + head + n \in Nat /\ b <= b + head /\ b + head <= b + head + n
      BY <3>1
    <3>3. b <= b + head + n /\ b + head + n <= e /\ b + r = b + head + n
      BY <3>1
    <3> QED  BY <3>2, <3>3 DEF b, e, r
  <2>3. Span(Ext, Top.start, Top.start + head + n) \in Seq(Byte)
    BY <1>3, <2>1, <2>2, SpanType
  <2>4. Span(Ext, Top.start, Top.start + head + n) = Then(Span(Ext, Top.start, Top.start + head), d)
    BY <1>3, <2>1, <2>2, SpanJoin
  <2> QED  BY <2>2, <2>3, <2>4
<1> HIDE DEF d
<1>7. Span(Ext, Top.start, Top.start + ret') = Whole(heap', o, z, Top.tag)
  BY <1>5, <1>6
<1> QED  BY <1>1, <1>2, <1>3, <1>6, <1>7, FinishLoad

LEMMA ReadScalarLoad ==
  ASSUME FInv, NEW o, NEW z, Loaded(o, z), ReadScalar, Linked(stack, heap, root, pc)'
  PROVE  (\E q, w : Loaded(q, w))'
<1> DEFINE n == ScalarSize(Cur.type)
<1>1. /\ pc = "body" /\ Cur.type \in ScalarTypes /\ ReadLeaf(0, n) /\ Top.start + n <= length
  BY DEF ReadScalar, ScalarReadable
<1>2. n \in Nat /\ 0 \in Nat /\ Top.start \in Nat
  BY <1>1, ScalarSizes, RunningFacts, SMTT(30) DEF FInv
<1> HIDE DEF n
<1>3. Top.start + 0 + n <= length /\ Top.start + 0 = Top.start
  BY <1>1, <1>2
<1>4. ASSUME NEW d \in Seq(Byte), heap'[Top.tag].data = d, ByType(heap', o, z, Top.tag, Cur.type)
      PROVE  Whole(heap', o, z, Top.tag) = Then(Span(Ext, Top.start, Top.start + 0), d)
  <2>1. Whole(heap', o, z, Top.tag) = d
    BY <1>1, <1>4 DEF ByType
  <2>2. Span(Ext, Top.start, Top.start + 0) = << >>
    BY <1>2, <1>3, SpanNothing
  <2> QED  BY <2>1, <2>2, ThenNothing
<1> QED  BY <1>1, <1>2, <1>3, <1>4, LeafLoad

LEMMA ReadArrayLoad ==
  ASSUME FInv, NEW o, NEW z, Loaded(o, z), ReadArray, Linked(stack, heap, root, pc)'
  PROVE  (\E q, w : Loaded(q, w))'
<1> DEFINE k == U32At(buffer, Top.start)
           e == ElementSize(Cur.type)
<1>1. /\ pc = "body" /\ Cur.type \in ArrayTypes /\ ReadLeaf(4, k * e)
      /\ Top.start + 4 <= length /\ Top.start + 4 + k * e <= length
  BY DEF ReadArray, ArrayReadable, SizeofU32, ArrayBytes
<1>2. Top.start \in Nat /\ Top.start + 4 \in Nat
  BY <1>1, RunningFacts DEF FInv
<1>3. Span(Ext, Top.start, Top.start + 4) = U32(k) /\ k \in Nat
  <2>1. Span(buffer, Top.start, Top.start + 4) = U32(k) /\ k \in Nat
    BY <1>1, <1>2, ExtIs, SpanU32
  <2> QED  BY <1>1, <1>2, <2>1, ExtIs
<1>4. e \in {1, 4}
  BY DEF ElementSize
<1>5. k * e \in Nat /\ 4 \in Nat
  BY <1>3, <1>4
<1>6. (k * e) \div e = k
  <2> HIDE DEF k, e
  <2>1. CASE e = 1
    BY <1>3, <2>1
  <2>2. CASE e = 4
    BY <1>3, <2>2
  <2> QED  BY <1>4, <2>1, <2>2
<1>7. ASSUME NEW d \in Seq(Byte), Len(d) = k * e, heap'[Top.tag].data = d,
             ByType(heap', o, z, Top.tag, Cur.type)
      PROVE  Whole(heap', o, z, Top.tag) = Then(Span(Ext, Top.start, Top.start + 4), d)
  <2>1. Whole(heap', o, z, Top.tag) = Then(U32(Len(d) \div e), d)
    BY <1>1, <1>7 DEF ByType
  <2> HIDE DEF k, e
  <2>2. Len(d) \div e = k
    BY <1>6, <1>7
  <2> QED  BY <1>3, <2>1, <2>2
<1> HIDE DEF k, e
<1>8. 4 \in Nat /\ k * e \in Nat
  BY <1>5
<1> DEFINE n == k * e
<1>9. n \in Nat /\ ReadLeaf(4, n) /\ Top.start + 4 + n <= length
  BY <1>1, <1>5
<1>10. ASSUME NEW d \in Seq(Byte), Len(d) = n, heap'[Top.tag].data = d,
              ByType(heap', o, z, Top.tag, Cur.type)
       PROVE  Whole(heap', o, z, Top.tag) = Then(Span(Ext, Top.start, Top.start + 4), d)
  BY <1>7, <1>10
<1> HIDE DEF n
<1> QED  BY <1>1, <1>8, <1>9, <1>10, LeafLoad

LEMMA ReadStringLoad ==
  ASSUME FInv, NEW o, NEW z, Loaded(o, z), ReadString, Linked(stack, heap, root, pc)'
  PROVE  (\E q, w : Loaded(q, w))'
<1> DEFINE n == U16At(buffer, Top.start)
<1>1. /\ pc = "body" /\ Cur.type = kTagString /\ ReadLeaf(2, n)
      /\ Top.start + 2 <= length /\ Top.start + 2 + n <= length
  BY DEF ReadString, StringReadable, SizeofU16, Reading
<1>2. Top.start \in Nat /\ Top.start + 2 \in Nat /\ 2 \in Nat
  BY <1>1, RunningFacts DEF FInv
<1>3. Span(Ext, Top.start, Top.start + 2) = U16(n) /\ n \in Nat
  <2>1. Span(buffer, Top.start, Top.start + 2) = U16(n) /\ n \in Nat
    BY <1>1, <1>2, ExtIs, SpanU16
  <2> QED  BY <1>1, <1>2, <2>1, ExtIs
<1>4. ASSUME NEW d \in Seq(Byte), Len(d) = n, heap'[Top.tag].data = d,
             ByType(heap', o, z, Top.tag, Cur.type)
      PROVE  Whole(heap', o, z, Top.tag) = Then(Span(Ext, Top.start, Top.start + 2), d)
  <2>1. Whole(heap', o, z, Top.tag) = Then(U16(Len(d)), d)
    BY <1>1, <1>4 DEF ByType
  <2> QED  BY <1>3, <1>4, <2>1
<1> HIDE DEF n
<1> QED  BY <1>1, <1>2, <1>3, <1>4, LeafLoad


-----------------------------------------------------------------------------
(* The last bytes of a list and of a compound                               *)

LEMMA EndIsType == kTagEnd \in kTagEnd .. kTagIntArray /\ kTagEnd \notin TagTypes
BY DEF TagTypes, kTagByte, kTagEnd, kTagIntArray

LEMMA ReadEndListLoad ==
  ASSUME FInv, NEW o, NEW z, Loaded(o, z), ReadEndList, Linked(stack, heap, root, pc)'
  PROVE  (\E q, w : Loaded(q, w))'
<1> DEFINE u == [Cur EXCEPT !.ctype = kTagEnd]
           a == Top.start
<1>1. /\ pc = "body" /\ Cur.type = kTagList /\ pc' = "return" /\ ret' = 5
      /\ a + 5 <= length /\ At(buffer, a) = kTagEnd /\ U32At(buffer, a + 1) = 1
      /\ heap' = [heap EXCEPT ![Top.tag].ctype = kTagEnd] /\ UNCHANGED <<root, stack, buffer>>
  BY DEF ReadEndList, Reading, ListReadable, ListHead, ListType, ListLength,
         SizeofTagType, SizeofU32
<1>2. /\ Depth > 1 /\ Cur \in Tag /\ Cur = heap[Top.tag]
      /\ heap \in Seq(Tag) /\ Top.tag \in 1 .. Len(heap) /\ a \in Nat
  BY <1>1, BodyForest, LinkedFacts, RunningFacts DEF FInv
<1>3. /\ u \in Tag /\ u.type = Cur.type /\ u.name = Cur.name /\ u.ctype = kTagEnd
      /\ u.kids = Cur.kids /\ u.map = Cur.map
  BY <1>2, EndIsType DEF Tag
<1>4. heap' = [heap EXCEPT ![Top.tag] = u]
  BY <1>1, <1>2
<1> HIDE DEF u
<1>5. Becomes(heap, heap', Top.tag, u)
  BY <1>2, <1>3, <1>4 DEF Becomes
<1>6. heap' \in Seq(Tag) /\ Top.tag \in 1 .. Len(heap') /\ heap'[Top.tag] = u
  BY <1>2, <1>5, Replaced
<1>7. Whole(heap', o, z, Top.tag) = Then(<<kTagEnd>>, U32(1))
  <2>1. ByType(heap', o, z, Top.tag, kTagList)
    BY <1>1, <1>3, <1>6, WholeByType
  <2> QED  BY <1>3, <1>6, <2>1 DEF ByType
<1> HIDE DEF a
<1>8. buffer \in Seq(Byte) /\ length \in Nat /\ length = Len(buffer)
  BY ExtIs
<1>9. Span(buffer, a, a + 5) = Then(<<kTagEnd>>, U32(1)) /\ Span(buffer, a, a + 5) \in Seq(Byte)
  <2>1. /\ a + 1 \in Nat /\ a + 5 \in Nat /\ a <= a + 1 /\ a + 1 <= a + 5 /\ a <= a + 5
        /\ a + 5 <= Len(buffer) /\ a + 1 <= Len(buffer) /\ (a + 1) + 4 = a + 5
    BY <1>1, <1>2, <1>8
  <2>2. Span(buffer, a, a + 5) = Then(Span(buffer, a, a + 1), Span(buffer, a + 1, a + 5))
    BY <1>2, <1>8, <2>1, SpanJoin
  <2>3. Span(buffer, a, a + 1) = <<kTagEnd>>
    BY <1>1, <1>2, <1>8, <2>1, SpanByte
  <2>4. Span(buffer, a + 1, a + 5) = U32(1)
    BY <1>1, <1>8, <2>1, SpanU32
  <2>5. Span(buffer, a, a + 5) \in Seq(Byte)
    BY <1>2, <1>8, <2>1, SpanType
  <2> QED  BY <2>2, <2>3, <2>4, <2>5
<1>10. Span(Ext, a, a + 5) = Span(buffer, a, a + 5)
  <2>1. a + 5 \in Nat /\ a <= a + 5
    BY <1>2
  <2> QED  BY <1>1, <1>2, <2>1, ExtIs
<1>11. /\ Span(Ext, Top.start, Top.start + ret') \in Seq(Byte)
       /\ Span(Ext, Top.start, Top.start + ret') = Whole(heap', o, z, Top.tag)
  BY <1>1, <1>7, <1>9, <1>10 DEF a
<1> QED  BY <1>1, <1>2, <1>3, <1>5, <1>11, FinishLoad

(* A call in its loop has read what is in front of its offset. *)
LEMMA LoopRead ==
  ASSUME FInv, NEW o, NEW z, Loaded(o, z), pc = "loop", Depth > 1
  PROVE  /\ BodyRead(stack, heap, pc, Ext, o, z, Len(stack))
         /\ Entered(stack, pc, Len(stack)) /\ z \in [1 .. Len(heap) -> Seq(Byte)]
         /\ Top.next = consumed /\ consumed <= length + 1
         /\ Top.start \in Nat /\ Top.next \in Nat /\ Top.start <= Top.next
<1>1. Len(stack) \in Nat /\ Len(stack) > 1
  BY LinkedFacts
<1>2. Len(stack) \in Unfinished(stack, pc)
  BY <1>1 DEF Unfinished
<1>3. Reads(stack, heap, root, pc, Ext, o, z)
  BY DEF Loaded
<1>4. Top.next = consumed /\ consumed <= length + 1
  BY DEF FInv, IInv, CursorsAgree, OverrunRejected
<1>5. Top.start \in Nat /\ Top.next \in Nat /\ Top.start <= Top.next
  BY RunningFacts DEF FInv
<1> QED  BY <1>2, <1>3, <1>4, <1>5 DEF Reads, BytesRead, Entered

LEMMA FinishListLoad ==
  ASSUME FInv, NEW o, NEW z, Loaded(o, z), FinishList, Linked(stack, heap, root, pc)'
  PROVE  (\E q, w : Loaded(q, w))'
<1>1. pc = "loop" /\ Depth > 1 /\ Cur.type = kTagList /\ Top.i = Len(Cur.kids) /\ pc' = "return"
      /\ ret' = Top.next - Top.start /\ UNCHANGED <<heap, root, stack, buffer>>
  BY DEF FinishList, Looping
<1>2. /\ Cur = heap[Top.tag] /\ heap \in Seq(Tag) /\ Top.tag \in 1 .. Len(heap)
      /\ Top = stack[Len(stack)] /\ Cur.ctype \in TagTypes
  BY <1>1, LinkedFacts, RunningFacts DEF FInv
<1>3. Becomes(heap, heap', Top.tag, Cur)
  BY <1>1, <1>2, SameBecomes
<1>4. /\ BodyRead(stack, heap, pc, Ext, o, z, Len(stack)) /\ Entered(stack, pc, Len(stack))
      /\ Top.next <= Len(Ext) /\ Ext \in Seq(Byte)
      /\ Top.start \in Nat /\ Top.next \in Nat /\ Top.start <= Top.next
  BY <1>1, LoopRead, ExtIs
<1>5. Span(Ext, Top.start, Top.next) = ListBytes(heap, z, Top.tag, Len(Cur.kids))
  BY <1>1, <1>2, <1>4 DEF BodyRead
<1>6. Whole(heap, o, z, Top.tag) = ListBytes(heap, z, Top.tag, Len(Cur.kids))
  <2>1. ByType(heap, o, z, Top.tag, kTagList)
    BY <1>1, <1>2, WholeByType
  <2>2. Cur.ctype # kTagEnd
    BY <1>2, EndIsType
  <2> QED  BY <1>2, <2>1, <2>2 DEF ByType
<1>7. Top.start + ret' = Top.next
  BY <1>1, <1>4
<1>8. Span(Ext, Top.start, Top.next) \in Seq(Byte)
  BY <1>4, SpanType
<1>9. /\ Span(Ext, Top.start, Top.start + ret') \in Seq(Byte)
      /\ Span(Ext, Top.start, Top.start + ret') = Whole(heap', o, z, Top.tag)
  BY <1>1, <1>5, <1>6, <1>7, <1>8
<1> QED  BY <1>1, <1>3, <1>9, FinishLoad

LEMMA FinishCompoundLoad ==
  ASSUME FInv, NEW o, NEW z, Loaded(o, z), FinishCompound, Linked(stack, heap, root, pc)'
  PROVE  (\E q, w : Loaded(q, w))'
<1>1. /\ pc = "loop" /\ Depth > 1 /\ Cur.type = kTagCompound /\ pc' = "return"
      /\ Top.next + 1 <= length /\ At(buffer, Top.next) = kTagEnd
      /\ ret' = Top.next + 1 - Top.start /\ UNCHANGED <<heap, root, stack, buffer>>
  BY DEF FinishCompound, AtCompoundEnd, Looping, TypeReadable, SizeofTagType
<1>2. /\ Cur = heap[Top.tag] /\ heap \in Seq(Tag) /\ Top.tag \in 1 .. Len(heap)
      /\ Top = stack[Len(stack)]
  BY <1>1, LinkedFacts
<1>3. Becomes(heap, heap', Top.tag, Cur)
  BY <1>1, <1>2, SameBecomes
<1>4. /\ BodyRead(stack, heap, pc, Ext, o, z, Len(stack))
      /\ Top.start \in Nat /\ Top.next \in Nat /\ Top.start <= Top.next
  BY <1>1, LoopRead
<1>5. Span(Ext, Top.start, Top.next) = ReadBytes(heap, o, z, Top.tag)
  BY <1>1, <1>2, <1>4 DEF BodyRead
<1>6. Whole(heap, o, z, Top.tag) = Then(ReadBytes(heap, o, z, Top.tag), <<kTagEnd>>)
  <2>1. ByType(heap, o, z, Top.tag, kTagCompound)
    BY <1>1, <1>2, WholeByType
  <2> QED  BY <2>1 DEF ByType
<1>7. /\ Ext \in Seq(Byte) /\ Len(Ext) = length + 1 /\ length \in Nat
      /\ buffer \in Seq(Byte) /\ length = Len(buffer)
  BY ExtIs
<1>8. /\ Top.next + 1 \in Nat /\ Top.next <= Top.next + 1 /\ Top.next + 1 <= Len(Ext)
      /\ Top.start <= Top.next + 1 /\ Top.start + ret' = Top.next + 1
  BY <1>1, <1>4, <1>7, SMTT(30)
<1>9. Span(Ext, Top.next, Top.next + 1) = <<kTagEnd>>
  <2>1. Span(buffer, Top.next, Top.next + 1) = <<kTagEnd>>
    BY <1>1, <1>4, <1>7, SpanByte
  <2> QED  BY <1>1, <1>4, <1>8, <2>1, ExtIs
<1>10. /\ Span(Ext, Top.start, Top.next + 1) \in Seq(Byte)
       /\ Span(Ext, Top.start, Top.next + 1)
            = Then(Span(Ext, Top.start, Top.next), Span(Ext, Top.next, Top.next + 1))
  <2>1. Span(Ext, Top.start, Top.next + 1) \in Seq(Byte)
    BY <1>4, <1>7, <1>8, SpanType
  <2>2. Span(Ext, Top.start, Top.next + 1)
            = Then(Span(Ext, Top.start, Top.next), Span(Ext, Top.next, Top.next + 1))
    BY <1>4, <1>7, <1>8, SpanJoin
  <2> QED  BY <2>1, <2>2
<1>11. /\ Span(Ext, Top.start, Top.start + ret') \in Seq(Byte)
       /\ Span(Ext, Top.start, Top.start + ret') = Whole(heap', o, z, Top.tag)
  BY <1>1, <1>5, <1>6, <1>8, <1>9, <1>10
<1> QED  BY <1>1, <1>3, <1>11, FinishLoad


-----------------------------------------------------------------------------
(* A container turns into its loop, with nothing read into it               *)

LEMMA EnterLoad ==
  ASSUME FInv, NEW o, NEW z, Loaded(o, z), pc = "body", pc' = "loop", UNCHANGED <<root, buffer>>,
         stack' \in Seq(Frame), Len(stack') = Len(stack),
         \A m \in 1 .. Len(stack) - 1 : stack'[m] = stack[m],
         stack'[Len(stack)].tag = Top.tag, stack'[Len(stack)].head = Top.head, stack'[Len(stack)].start = Top.start,
         NEW u, Becomes(heap, heap', Top.tag, u), Plain(heap'),
         Held(heap', Top.tag) \subseteq Held(heap, Top.tag) \cup {Null},
         BodyRead(stack', heap', "loop", Ext, o, z, Len(stack))
  PROVE  (\E p, w : Loaded(p, w))'
<1> DEFINE n == Len(stack)
<1>1. /\ heap \in Seq(Tag) /\ stack \in Seq(Frame) /\ Top = stack[n] /\ n \in Nat /\ n > 1
      /\ Top.tag \in 1 .. Len(heap) /\ Linked(stack, heap, root, pc)
  BY BodyForest, LinkedFacts
<1>2. /\ heap' \in Seq(Tag) /\ Len(heap') = Len(heap)
      /\ \A x \in 1 .. Len(heap) : /\ heap'[x].type = heap[x].type /\ heap'[x].name = heap[x].name
                                   /\ x # Top.tag => heap'[x] = heap[x]
  BY <1>1, Replaced
<1>3. /\ stack' \in Seq(Frame) /\ Len(stack') = n
      /\ \A m \in 1 .. n - 1 : stack'[m] = stack[m]
      /\ stack'[n].tag = stack[n].tag
  BY <1>1
<1>4. Unfinished(stack, pc) = 2 .. n
  BY DEF Unfinished
<1> HIDE DEF n
<1>5. n \in 1 .. Len(stack) /\ n = Len(stack)
  BY <1>1 DEF n
<1>6. SameNames(heap, heap')
  BY <1>2 DEF SameNames
<1>7. Turns(stack, stack', heap, heap', pc, o, o, n, Top.tag)
  <2>1. stack'[n].head = stack[n].head /\ stack'[n].start = stack[n].start
    BY <1>1 DEF n
  <2> QED  BY <1>1, <1>2, <1>3, <1>4, <1>5, <1>6, <2>1 DEF Turns
<1>8. Owned(stack', heap', root, o)
  <2>1. Owned(stack, heap, root, o)
    BY DEF Loaded, Reads
  <2>2. Len(stack') = Len(stack) /\ \A j \in 2 .. Len(stack) : stack'[j].tag = stack[j].tag
    <3>1. \A j \in 2 .. n : j \in 1 .. n - 1 \/ j = n
      BY <1>1
    <3> QED  BY <1>3, <1>5, <3>1
  <2> QED  BY <1>1, <2>1, <2>2, OwnedReplaced
<1>9. stack'[1].next <= length
  <2>1. 1 \in 1 .. n - 1
    BY <1>1
  <2>2. stack'[1] = stack[1]
    BY <1>3, <2>1
  <2>3. stack[1].next <= length
    BY <1>1, <1>5 DEF Loaded, Depth
  <2> QED  BY <2>2, <2>3
<1>10. BodyRead(stack', heap', "loop", Ext, o, z, n)
  BY <1>5
<1>11. n # 1
  BY <1>1
<1>12. Owned(stack', heap', root', o) /\ buffer' = buffer /\ pc # "done"
  BY <1>8
<1> QED  BY <1>7, <1>9, <1>10, <1>11, <1>12, TurnLoad

LEMMA EnterCompoundLoad ==
  ASSUME FInv, NEW o, NEW z, Loaded(o, z), EnterCompound, Linked(stack, heap, root, pc)'
  PROVE  (\E q, w : Loaded(q, w))'
<1>1. pc = "body" /\ Cur.type = kTagCompound /\ pc' = "loop" /\ UNCHANGED <<heap, root, stack, buffer>>
  BY DEF EnterCompound, Reading
<1>2. /\ heap \in Seq(Tag) /\ stack \in Seq(Frame) /\ Top = stack[Len(stack)]
      /\ Top.tag \in 1 .. Len(heap) /\ Cur = heap[Top.tag] /\ Len(stack) > 1 /\ Len(stack) \in Nat
  BY <1>1, BodyForest, LinkedFacts
<1>3. Becomes(heap, heap', Top.tag, Cur)
  BY <1>1, <1>2, SameBecomes
<1>4. /\ stack' \in Seq(Frame) /\ Len(stack') = Len(stack)
      /\ \A m \in 1 .. Len(stack) - 1 : stack'[m] = stack[m]
      /\ stack'[Len(stack)] = Top
  BY <1>1, <1>2
<1>5. Len(stack) \in Unfinished(stack, pc)
  BY <1>1, <1>2 DEF Unfinished
<1>6. BodyRead(stack, heap, pc, Ext, o, z, Len(stack)) /\ Plain(heap)
  BY <1>5 DEF Loaded, Reads, BytesRead
<1>7. BodyRead(stack', heap', "loop", Ext, o, z, Len(stack))
  <2>1. kTagCompound # kTagList
    BY DEF kTagCompound, kTagList
  <2> QED  BY <1>1, <1>2, <1>6, <2>1 DEF BodyRead
<1> QED  BY <1>1, <1>2, <1>3, <1>4, <1>6, <1>7, EnterLoad

LEMMA EnterListLoad ==
  ASSUME FInv, NEW o, NEW z, Loaded(o, z), EnterList, Linked(stack, heap, root, pc)'
  PROVE  (\E q, w : Loaded(q, w))'
<1> DEFINE nulls == [j \in 1 .. ListLength |-> Null]
           u == [Cur EXCEPT !.ctype = ListType, !.kids = nulls]
           a == Top.start
           n == Len(stack)
<1>1. /\ pc = "body" /\ pc' = "loop" /\ UNCHANGED <<root, buffer>> /\ Cur.type = kTagList
      /\ ListReadable /\ ListType # kTagEnd
      /\ heap' = [heap EXCEPT ![Top.tag].ctype = ListType, ![Top.tag].kids = nulls]
      /\ stack' = [stack EXCEPT ![Depth].next = a + 5]
  BY DEF EnterList, Reading, ListHead, SizeofTagType, SizeofU32
<1>2. /\ heap \in Seq(Tag) /\ stack \in Seq(Frame) /\ Top = stack[n]
      /\ Top.tag \in 1 .. Len(heap) /\ Cur = heap[Top.tag]
      /\ n > 1 /\ n \in Nat /\ Depth = n /\ Top.i = 0 /\ Cur \in Tag /\ a \in Nat
  BY <1>1, BodyForest, LinkedFacts, RunningFacts DEF FInv
<1>3. /\ a + 5 \in Nat /\ a + 5 <= length /\ ListLength \in Nat /\ nulls \in Seq(Nat)
      /\ ListType \in kTagEnd .. kTagIntArray
  BY <1>1, ListHeadFacts DEF FInv
<1>4. Len(nulls) = ListLength /\ \A j \in 1 .. Len(nulls) : nulls[j] = Null
  BY <1>3
<1> HIDE DEF nulls, a
<1>5. /\ u \in Tag /\ u.type = Cur.type /\ u.name = Cur.name
      /\ u.kids = nulls /\ u.map = Cur.map /\ u.ctype = ListType
  BY <1>2, <1>3 DEF Tag
<1>6. heap' = [heap EXCEPT ![Top.tag] = u]
  BY <1>1, <1>2
<1> HIDE DEF u
<1>7. Becomes(heap, heap', Top.tag, u)
  BY <1>2, <1>5, <1>6 DEF Becomes
<1>8. /\ heap'[Top.tag] = u /\ Len(heap') = Len(heap)
      /\ \A x \in 1 .. Len(heap) : x # Top.tag => heap'[x] = heap[x]
  <2>1. PICK c \in 1 .. Len(heap) : c = Top.tag
    BY <1>2
  <2>2. Becomes(heap, heap', c, u)
    BY <1>7, <2>1
  <2> QED  BY <1>2, <2>1, <2>2, Replaced
<1>9. Held(heap', Top.tag) \subseteq Held(heap, Top.tag) \cup {Null}
  BY <1>2, <1>4, <1>5, <1>8 DEF Held
<1>10. Plain(heap')
  <2>1. Plain(heap)
    BY DEF Loaded, Reads
  <2>2. heap'[Top.tag].type = kTagList
    BY <1>1, <1>5, <1>8
  <2> QED  BY <1>8, <2>1, <2>2 DEF Plain
<1> HIDE DEF n
<1>11. n \in 1 .. Len(stack) /\ n = Len(stack)
  BY <1>2 DEF n
<1>12. /\ stack' \in Seq(Frame) /\ Len(stack') = Len(stack)
       /\ \A m \in 1 .. Len(stack) : m # n => stack'[m] = stack[m]
       /\ stack'[n].tag = stack[n].tag /\ stack'[n].head = stack[n].head
       /\ stack'[n].start = stack[n].start /\ stack'[n].next = a + 5
       /\ stack'[n].i = stack[n].i
  BY <1>1, <1>2, <1>3, <1>11, AdvanceTop, SMTT(30)
<1>13. /\ stack'[n].i = 0 /\ stack'[n].tag = Top.tag
       /\ stack'[n].head = Top.head /\ stack'[n].start = Top.start
       /\ \A m \in 1 .. n - 1 : stack'[m] = stack[m]
  <2>1. \A m \in 1 .. n - 1 : m \in 1 .. Len(stack) /\ m # n
    BY <1>11, <1>2
  <2>2. \A m \in 1 .. n - 1 : stack'[m] = stack[m]
    BY <1>12, <2>1
  <2> QED  BY <1>2, <1>12, <2>2
<1>14. buffer \in Seq(Byte) /\ length \in Nat /\ length = Len(buffer)
  BY ExtIs
<1>15. Span(buffer, a, a + 5) = Then(<<ListType>>, U32(ListLength)) /\ Span(buffer, a, a + 5) \in Seq(Byte)
  <2>1. /\ a + 1 \in Nat /\ a <= a + 1 /\ a + 1 <= a + 5 /\ a <= a + 5
        /\ a + 5 <= Len(buffer) /\ a + 1 <= Len(buffer) /\ (a + 1) + 4 = a + 5
    BY <1>2, <1>3, <1>14
  <2>2. Span(buffer, a, a + 5) = Then(Span(buffer, a, a + 1), Span(buffer, a + 1, a + 5))
    BY <1>2, <1>3, <1>14, <2>1, SpanJoin
  <2>3. Span(buffer, a, a + 1) = <<ListType>>
    BY <1>2, <1>14, <2>1, SpanByte DEF ListType, a
  <2>4. Span(buffer, a + 1, a + 5) = U32(ListLength)
    BY <1>14, <2>1, SpanU32 DEF ListLength, SizeofTagType, a
  <2>5. Span(buffer, a, a + 5) \in Seq(Byte)
    BY <1>2, <1>3, <1>14, <2>1, SpanType
  <2> QED  BY <2>2, <2>3, <2>4, <2>5
<1>16. Span(Ext, a, a + 5) = Span(buffer, a, a + 5)
  <2>1. a <= a + 5
    BY <1>2
  <2> QED  BY <1>2, <1>3, <2>1, ExtIs
<1>17. ListBytes(heap', z, Top.tag, 0) = Span(Ext, a, a + 5)
  <2>1. KidsBytes(heap', z, Top.tag, 0) = << >>
    BY ElementsNone, Zenon DEF KidsBytes
  <2>2. ListBytes(heap', z, Top.tag, 0) = Then(Then(<<ListType>>, U32(ListLength)), << >>)
    BY <1>4, <1>5, <1>8, <2>1, Zenon DEF ListBytes
  <2>3. \A y \in Seq(Byte) : Then(y, << >>) = y
    BY ThenNothing
  <2> QED  BY <1>15, <1>16, <2>2, <2>3
<1>18. BodyRead(stack', heap', "loop", Ext, o, z, n)
  <2>1. kTagCompound # kTagList /\ heap'[Top.tag].type = kTagList /\ stack'[n].tag = Top.tag
    BY <1>1, <1>2, <1>5, <1>8, <1>12 DEF kTagCompound, kTagList
  <2>2. 0 <= Len(heap'[Top.tag].kids)
    BY <1>3, <1>4, <1>5, <1>8
  <2>3. stack'[n].start = a /\ stack'[n].next = a + 5 /\ stack'[n].i = 0
    BY <1>2, <1>12, <1>13 DEF a
  <2> QED  BY <1>17, <2>1, <2>2, <2>3 DEF BodyRead
<1> QED  BY <1>1, <1>7, <1>9, <1>10, <1>11, <1>12, <1>13, <1>18, EnterLoad


-----------------------------------------------------------------------------
(* A new tag: its type and its name have been read                          *)

LEMMA HeaderBytes ==
  ASSUME FInv, pc = "loop", NEW a \in Nat, a + 1 <= length, (a + 1) + 2 <= length,
         NEW k, k = U16At(buffer, a + 1), a + 3 + k <= length + 1
  PROVE  /\ k \in Nat /\ Bytes(Ext, a + 3, k) \in Seq(Byte)
         /\ Span(Ext, a, a + 3 + k)
              = Then(Then(<<At(buffer, a)>>, U16(Len(Bytes(Ext, a + 3, k)))), Bytes(Ext, a + 3, k))
<1>1. /\ Ext \in Seq(Byte) /\ Len(Ext) = length + 1 /\ length \in Nat
      /\ buffer \in Seq(Byte) /\ length = Len(buffer)
  BY ExtIs
<1>2. /\ a + 1 \in Nat /\ a + 3 \in Nat /\ a <= a + 1 /\ a + 1 <= a + 3 /\ a <= a + 3
      /\ (a + 1) + 2 = a + 3 /\ a + 3 <= length /\ a + 3 <= Len(Ext)
  BY <1>1
<1>3. Span(Ext, a, a + 1) = <<At(buffer, a)>>
  <2>1. Span(buffer, a, a + 1) = <<At(buffer, a)>>
    BY <1>1, SpanByte
  <2> QED  BY <1>2, <2>1, ExtIs
<1>4. Span(Ext, a + 1, a + 3) = U16(k) /\ k \in Nat
  <2>1. Span(buffer, a + 1, a + 3) = U16(k) /\ k \in Nat
    BY <1>1, <1>2, SpanU16
  <2> QED  BY <1>2, <2>1, ExtIs
<1>5. a + 3 + k \in Nat /\ a + 3 <= a + 3 + k /\ a + 3 + k <= Len(Ext) /\ (a + 3 + k) - (a + 3) = k
  BY <1>1, <1>4
<1> DEFINE name == Span(Ext, a + 3, a + 3 + k)
<1>6. name = Bytes(Ext, a + 3, k)
  BY DEF Span, Bytes
<1>7. name \in Seq(Byte) /\ Len(name) = k
  BY <1>1, <1>2, <1>5, SpanType
<1>8. Span(Ext, a, a + 3 + k) = Then(Span(Ext, a, a + 3), name)
  BY <1>1, <1>2, <1>5, SpanJoin
<1>9. Span(Ext, a, a + 3) = Then(<<At(buffer, a)>>, U16(k))
  <2>1. Span(Ext, a, a + 3) = Then(Span(Ext, a, a + 1), Span(Ext, a + 1, a + 3))
    BY <1>1, <1>2, SpanJoin
  <2> QED  BY <1>3, <1>4, <2>1
<1> HIDE DEF name
<1> QED  BY <1>4, <1>6, <1>7, <1>8, <1>9

LEMMA ReadHeaderLoad ==
  ASSUME FInv, NEW o, NEW z, Loaded(o, z), ReadHeader, Linked(stack, heap, root, pc)'
  PROVE  (\E q, w : Loaded(q, w))'
<1> DEFINE name == Bytes(Ext, Top.next + 3, NameLength)
           u == [NewTag(At(buffer, Top.next)) EXCEPT !.name = name]
           head == 1 + 2 + NameLength
           f == NewFrame(Len(heap) + 1, head, Top.next + head)
           a == Top.next
           k == NameLength
<1>1. /\ pc = "loop" /\ pc' = "body" /\ UNCHANGED <<root, buffer>>
      /\ heap' = Append(heap, u) /\ stack' = Append(stack, f)
      /\ a + 1 <= length /\ (a + 1) + 2 <= length /\ k = U16At(buffer, a + 1)
  <2>1. /\ pc = "loop" /\ pc' = "body" /\ UNCHANGED <<root, buffer>>
        /\ a + 1 <= length /\ (a + 1) + 2 <= length /\ k = U16At(buffer, a + 1)
    BY DEF ReadHeader, AtHeader, Looping, HeaderReadable, TypeReadable, NameReadable,
           NameLength, SizeofTagType, SizeofU16
  <2>2. a \in Nat
    BY <2>1, RunningFacts DEF FInv
  <2>3. a + 1 + 2 = a + 3
    BY <2>2
  <2>4. heap' = Append(heap, [NewTag(At(buffer, Top.next)) EXCEPT
                                !.name = Bytes(Append(buffer, Beyond), a + 1 + 2, NameLength)])
    BY DEF ReadHeader, SizeofTagType, SizeofU16
  <2>5. stack' = Append(stack, f)
    BY DEF ReadHeader, SizeofTagType, SizeofU16
  <2>6. heap' = Append(heap, u)
    BY <2>3, <2>4 DEF Ext
  <2> QED  BY <2>1, <2>5, <2>6
<1>2. a \in Nat /\ a + 3 + k <= length + 1 /\ k \in Nat
  <2>1. Top.next + SizeofTagType + SizeofU16 + NameLength <= length + 1 /\ NameLength \in Nat
    BY HeaderMakes DEF FInv
  <2>2. a \in Nat
    BY <1>1, RunningFacts DEF FInv
  <2>3. a + 1 + 2 = a + 3
    BY <2>2
  <2> QED  BY <2>1, <2>2, <2>3 DEF SizeofTagType, SizeofU16
<1>3. u \in Tag /\ f \in Frame
  <2>1. a + 1 + 2 = a + 3
    BY <1>2
  <2>2. LET name_offset == Top.next + SizeofTagType + SizeofU16
            hd == SizeofTagType + SizeofU16 + NameLength
        IN  /\ [NewTag(At(buffer, Top.next)) EXCEPT
                   !.name = Bytes(Append(buffer, Beyond), name_offset, NameLength)] \in Tag
            /\ NewFrame(Len(heap) + 1, hd, Top.next + hd) \in Frame
    BY HeaderMakes, Zenon DEF FInv
  <2>3. /\ [NewTag(At(buffer, Top.next)) EXCEPT
                   !.name = Bytes(Append(buffer, Beyond), a + 1 + 2, NameLength)] \in Tag
        /\ NewFrame(Len(heap) + 1, 1 + 2 + NameLength, Top.next + (1 + 2 + NameLength)) \in Frame
    BY <2>2, Zenon DEF SizeofTagType, SizeofU16
  <2> QED  BY <2>1, <2>3, Zenon DEF Ext
<1>4. u.kids = << >> /\ u.map = {} /\ u.type = At(buffer, a) /\ u.name = name
  BY NewTagFields DEF NewTag
<1>5. f.tag = Len(heap) + 1 /\ f.head = head /\ f.start = a + head /\ f.next = f.start
  BY DEF NewFrame
<1>6. Depth > 1 => Cur.type = kTagCompound
  BY DEF ReadHeader, AtHeader, Looping, InLoad
<1>7. /\ heap \in Seq(Tag) /\ stack \in Seq(Frame) /\ Len(stack) > 0 /\ Len(stack) \in Nat
      /\ Top = stack[Len(stack)] /\ Cur = heap[Top.tag] /\ Depth = Len(stack)
      /\ Depth > 1 => Top.tag \in 1 .. Len(heap)
  BY <1>1, LinkedFacts
<1>8. head = 3 + k /\ f.start - f.head = a /\ f.start = a + 3 + k
  <2> HIDE DEF f
  <2>1. head = 3 + k
    BY <1>2
  <2> HIDE DEF head
  <2> QED  BY <1>2, <1>5, <2>1
<1>9. /\ k \in Nat /\ name \in Seq(Byte)
      /\ Span(Ext, a, a + 3 + k) = Then(Then(<<At(buffer, a)>>, U16(Len(name))), name)
  BY <1>1, <1>2, HeaderBytes
<1> HIDE DEF u, f, name, head, a, k
<1>10. PICK n : n = Len(heap) + 1
  OBVIOUS
<1>11. PICK q : q = [x \in 1 .. n |-> IF x = n THEN n ELSE o[x]]
  OBVIOUS
<1>12. Pushed(stack, heap, stack', heap', o, q, u, n, f)
  BY <1>1, <1>3, <1>4, <1>5, <1>7, <1>10, <1>11 DEF Pushed
<1>13. /\ heap'[n] = u /\ \A x \in 1 .. Len(heap) : heap'[x] = heap[x]
  BY <1>1, <1>3, <1>7, <1>10, AppendProperties
<1>14. stack'[Len(stack) + 1] = f /\ \A j \in 1 .. Len(stack) : stack'[j] = stack[j]
  BY <1>1, <1>3, <1>7, Push
<1>15. HeadRead(stack', heap', Ext, Len(stack) + 1)
  <2> DEFINE j == Len(stack) + 1
  <2>1. stack'[j] = f /\ Lead(heap', n) = Span(Ext, f.start - f.head, f.start)
    <3>1. Lead(heap', n) = Then(Then(<<At(buffer, a)>>, U16(Len(name))), name)
      BY <1>4, <1>13, Zenon DEF Lead
    <3> QED  BY <1>8, <1>9, <1>14, <3>1
  <2>2. ~(j > 2 /\ heap'[stack'[j - 1].tag].type = kTagList)
    <3> SUFFICES ASSUME j > 2 PROVE heap'[stack'[j - 1].tag].type # kTagList
      OBVIOUS
    <3>1. j - 1 = Len(stack) /\ Len(stack) \in 1 .. Len(stack) /\ Depth > 1
      BY <1>7
    <3>2. stack'[j - 1] = Top
      BY <1>7, <1>14, <3>1
    <3>3. heap'[Top.tag].type = kTagCompound
      BY <1>6, <1>7, <1>13, <3>1
    <3> QED  BY <3>2, <3>3 DEF kTagCompound, kTagList
  <2>3. f.tag = n
    BY <1>5, <1>10
  <2> QED  BY <2>1, <2>2, <2>3 DEF HeadRead
<1> QED  BY <1>1, <1>5, <1>12, <1>15, PushLoad

LEMMA ReadElementLoad ==
  ASSUME FInv, NEW o, NEW z, Loaded(o, z), ReadElement, Linked(stack, heap, root, pc)'
  PROVE  (\E q, w : Loaded(q, w))'
<1> DEFINE u == NewTag(Cur.ctype)
           f == NewFrame(Len(heap) + 1, 0, Top.next)
<1>1. pc = "loop" /\ pc' = "body" /\ UNCHANGED <<root, buffer>> /\ Depth > 1
      /\ Cur.type = kTagList /\ heap' = Append(heap, u) /\ stack' = Append(stack, f)
  BY DEF ReadElement, Looping
<1>2. u \in Tag /\ f \in Frame
  <2>1. Cur.ctype \in TagTypes /\ Len(heap) \in Nat /\ Top.next \in Nat
    BY <1>1, RunningFacts DEF FInv
  <2>2. Len(heap) + 1 \in Nat /\ 0 \in Nat
    BY <2>1
  <2> QED  BY <2>1, <2>2, NewTagType, NewFrameType
<1>3. u.kids = << >> /\ u.map = {}
  BY NewTagFields
<1>4. f.tag = Len(heap) + 1 /\ f.head = 0 /\ f.next = f.start
  BY DEF NewFrame
<1>5. /\ heap \in Seq(Tag) /\ stack \in Seq(Frame) /\ Len(stack) > 1 /\ Len(stack) \in Nat
      /\ Top = stack[Len(stack)] /\ Cur = heap[Top.tag] /\ Top.tag \in 1 .. Len(heap)
  BY <1>1, LinkedFacts
<1> HIDE DEF u, f
<1>6. PICK n : n = Len(heap) + 1
  OBVIOUS
<1>7. PICK q : q = [x \in 1 .. n |-> IF x = n THEN n ELSE o[x]]
  OBVIOUS
<1>8. Len(stack) > 0
  BY <1>5
<1>9. Pushed(stack, heap, stack', heap', o, q, u, n, f)
  BY <1>1, <1>2, <1>3, <1>4, <1>5, <1>6, <1>7, <1>8 DEF Pushed
<1>10. \A x \in 1 .. Len(heap) : heap'[x] = heap[x]
  BY <1>1, <1>2, <1>5, AppendProperties
<1>11. stack'[Len(stack) + 1] = f /\ \A j \in 1 .. Len(stack) : stack'[j] = stack[j]
  BY <1>1, <1>2, <1>5, Push
<1>12. HeadRead(stack', heap', Ext, Len(stack) + 1)
  <2> DEFINE j == Len(stack) + 1
  <2>1. j > 2 /\ j - 1 = Len(stack) /\ Len(stack) \in 1 .. Len(stack)
    BY <1>5
  <2>2. stack'[j - 1] = Top
    BY <1>5, <1>11, <2>1
  <2>3. heap'[Top.tag].type = kTagList
    BY <1>1, <1>5, <1>10
  <2> QED  BY <1>4, <1>11, <2>1, <2>2, <2>3 DEF HeadRead
<1> QED  BY <1>1, <1>4, <1>9, <1>12, PushLoad


-----------------------------------------------------------------------------
(* A tag that has been read is handed to its container: the bytes that the  *)
(* container has read grow by the tag's                                     *)

LEMMA HandedBytes ==
  ASSUME FInv, NEW o, NEW z, Loaded(o, z), pc = "return", NEW a \in Nat, a <= Caller.next
  PROVE  /\ z[Top.tag] \in Seq(Byte) /\ Lead(heap, Top.tag) \in Seq(Byte)
         /\ Span(Ext, a, Caller.next) \in Seq(Byte)
         /\ Span(Ext, a, consumed)
              = Then(Span(Ext, a, Caller.next),
                     IF Depth > 2 /\ IsList(Caller.tag) THEN z[Top.tag]
                     ELSE Then(Lead(heap, Top.tag), z[Top.tag]))
<1> DEFINE s == Top.start
           m == Caller.next
           x == Top.tag
<1>1. /\ Depth \in Nat /\ Depth > 1 /\ Len(stack) = Depth /\ s + ret = consumed
      /\ consumed \in Nat /\ consumed <= length /\ ret \in Nat /\ Top.head \in Nat /\ s \in Nat
      /\ m \in Nat /\ m + Top.head = s
  BY ReturnFacts DEF FInv
<1>2. /\ Ext \in Seq(Byte) /\ Len(Ext) = length + 1 /\ length \in Nat
  BY ExtIs
<1>3. /\ heap \in Seq(Tag) /\ stack \in Seq(Frame) /\ Top = stack[Len(stack)]
      /\ Top.tag \in 1 .. Len(heap) /\ Caller = stack[Depth - 1]
  BY <1>1, LinkedFacts DEF Caller
<1>4. Reads(stack, heap, root, pc, Ext, o, z) /\ z[x] = Span(Ext, s, s + ret)
  BY DEF Loaded
<1>5. /\ z \in [1 .. Len(heap) -> Seq(Byte)] /\ HeadRead(stack, heap, Ext, Len(stack))
  <2>1. Len(stack) \in 2 .. Len(stack)
    BY <1>1
  <2> QED  BY <1>4, <2>1 DEF Reads, BytesRead
<1>6. z[x] = Span(Ext, s, consumed) /\ z[x] \in Seq(Byte)
  BY <1>1, <1>3, <1>4, <1>5
<1>7. Lead(heap, x) \in Seq(Byte)
  BY <1>3, LeadType
<1>8. a <= m /\ m <= s /\ s <= consumed /\ m <= consumed /\ consumed <= Len(Ext) /\ s - Top.head = m
      /\ m <= Len(Ext)
  BY <1>1, <1>2
<1>9. Span(Ext, a, m) \in Seq(Byte)
  BY <1>1, <1>2, <1>8, SpanType
<1>10. Span(Ext, a, consumed) = Then(Span(Ext, a, m), Span(Ext, m, consumed))
  BY <1>1, <1>2, <1>8, SpanJoin
<1>11. CASE Depth > 2 /\ IsList(Caller.tag)
  <2>1. Top.head = 0
    BY <1>1, <1>3, <1>5, <1>11 DEF HeadRead, IsList
  <2>2. m = s
    BY <1>1, <2>1
  <2> QED  BY <1>6, <1>7, <1>9, <1>10, <1>11, <2>2
<1>12. CASE ~(Depth > 2 /\ IsList(Caller.tag))
  <2>1. Span(Ext, Top.start - Top.head, Top.start) = Lead(heap, Top.tag)
    BY <1>1, <1>3, <1>5, <1>12 DEF HeadRead, IsList
  <2>2. Span(Ext, m, s) = Lead(heap, x)
    BY <1>8, <2>1
  <2>3. Span(Ext, m, consumed) = Then(Span(Ext, m, s), Span(Ext, s, consumed))
    BY <1>1, <1>2, <1>8, SpanJoin
  <2> QED  BY <1>6, <1>7, <1>9, <1>10, <1>12, <2>2, <2>3
<1> QED  BY <1>11, <1>12

Hands(o, q, c, x) ==
  /\ c = Caller.tag /\ x = Top.tag /\ q = [o EXCEPT ![x] = c]
  /\ heap' \in Seq(Tag) /\ Len(heap') = Len(heap) /\ SameNames(heap, heap') /\ Plain(heap')
  /\ \A d \in 1 .. Len(heap) : d # c => heap'[d] = heap[d]
  /\ c # Null => Held(heap', c) \subseteq Held(heap, c) \cup {x, Null}
  /\ Values(root') \subseteq Values(root) \cup (IF c = Null THEN {x} ELSE {})

Handed(o, q, n, c, i) ==
  /\ n = Depth - 1 /\ n \in Nat
  /\ Turns(stack, stack', heap, heap', pc, o, q, n, c)
  /\ stack'[n].tag = c /\ stack'[n].i = i
  /\ stack'[n].start = Caller.start /\ stack'[n].next = consumed

LEMMA HandedOwns ==
  ASSUME FInv, NEW o, NEW z, Loaded(o, z), NEW i \in Nat, Resume(i),
         NEW q, NEW c, NEW x, Hands(o, q, c, x)
  PROVE  /\ Joins(o, q, Len(heap), c, x) /\ x \in 1 .. Len(heap)
         /\ Owned(stack', heap', root', q) /\ stack'[1].next <= length
         /\ \E n : Handed(o, q, n, c, i)
<1>p. /\ c = Caller.tag /\ x = Top.tag /\ q = [o EXCEPT ![x] = c]
      /\ heap' \in Seq(Tag) /\ Len(heap') = Len(heap) /\ SameNames(heap, heap')
      /\ \A d \in 1 .. Len(heap) : d # c => heap'[d] = heap[d]
      /\ c # Null => Held(heap', c) \subseteq Held(heap, c) \cup {x, Null}
      /\ Values(root') \subseteq Values(root) \cup (IF c = Null THEN {x} ELSE {})
  BY DEF Hands
<1>1. pc = "return" /\ pc' = "loop"
  BY DEF Resume
<1>0. PICK n : n = Depth - 1
  OBVIOUS
<1>2. /\ Depth \in Nat /\ Depth > 1 /\ Len(stack) = Depth /\ stack \in Seq(Frame)
      /\ heap \in Seq(Tag) /\ Linked(stack, heap, root, pc) /\ Top = stack[Len(stack)]
      /\ Top.tag \in 1 .. Len(heap) /\ Caller = stack[n] /\ consumed <= length
  BY <1>0, <1>1, ReturnFacts, LinkedFacts DEF FInv, Caller
<1>3. n \in Nat /\ n + 1 = Len(stack) /\ n \in 1 .. Len(stack) /\ n \in 1 .. Len(stack) - 1 /\ n < Len(stack)
  BY <1>0, <1>2
<1>4. /\ stack' \in Seq(Frame) /\ Len(stack') = n
      /\ \A m \in 1 .. n - 1 : stack'[m] = stack[m]
      /\ stack'[n].tag = stack[n].tag /\ stack'[n].head = stack[n].head
      /\ stack'[n].start = stack[n].start /\ stack'[n].i = i
      /\ stack'[n].next = consumed
  BY <1>0, ResumeMakes DEF FInv
<1>5. \A j \in 1 .. n : stack'[j].tag = stack[j].tag
  <2>1. \A j \in 1 .. n : j \in 1 .. n - 1 \/ j = n
    BY <1>3
  <2> QED  BY <1>4, <2>1
<1>6. c = stack[n].tag /\ x = stack[n + 1].tag
  BY <1>p, <1>2, <1>3
<1>7. Given(stack, stack', heap, heap', root, root', o, q, n, c, x)
  BY <1>p, <1>3, <1>4, <1>5, <1>6 DEF Given
<1>8. Owned(stack, heap, root, o)
  BY DEF Loaded, Reads
<1>9. /\ Owned(stack', heap', root', q) /\ Joins(o, q, Len(heap), c, x)
      /\ \A d \in Nat : d # c => Into(q, Len(heap), d) = Into(o, Len(heap), d)
  BY ONLY <1>2, <1>7, <1>8, OwnedGiven
<1>10. Unfinished(stack, pc) = 2 .. n
  BY <1>1, <1>3 DEF Unfinished
<1>11. Turns(stack, stack', heap, heap', pc, o, q, n, c)
  BY <1>p, <1>3, <1>4, <1>6, <1>9, <1>10 DEF Turns
<1>12. stack'[1].next <= length
  <2>1. CASE n = 1
    BY <1>2, <1>4, <2>1
  <2>2. CASE n # 1
    <3>1. 1 \in 1 .. n - 1
      BY <1>3, <2>2
    <3>2. stack[1].next <= length
      BY <1>2 DEF Loaded
    <3> QED  BY <1>4, <3>1, <3>2
  <2> QED  BY <2>1, <2>2
<1>13. stack'[n].tag = c /\ stack'[n].start = Caller.start
  BY <1>2, <1>4, <1>6
<1>14. Handed(o, q, n, c, i)
  BY <1>0, <1>3, <1>4, <1>11, <1>13 DEF Handed
<1> QED  BY <1>p, <1>2, <1>9, <1>12, <1>14


LEMMA CallerRead ==
  ASSUME FInv, NEW o, NEW z, Loaded(o, z), pc = "return", Depth > 2
  PROVE  /\ BodyRead(stack, heap, pc, Ext, o, z, Depth - 1) /\ Entered(stack, pc, Depth - 1)
         /\ Caller = stack[Depth - 1] /\ Caller.start \in Nat /\ Caller.start <= Caller.next
         /\ Depth - 1 > 1
<1>1. /\ stack \in Seq(Frame) /\ Depth = Len(stack) /\ Depth \in Nat
  BY LinkedFacts
<1>2. Depth - 1 \in Unfinished(stack, pc) /\ Depth - 1 \in 1 .. Len(stack) /\ Depth - 1 < Len(stack)
      /\ Depth - 1 > 1
  BY <1>1 DEF Unfinished
<1>3. stack[Depth - 1].start \in Nat
  BY <1>1, <1>2, FrameFacts
<1>4. FrameOK(stack, heap, pc, Depth - 1)
  BY <1>2 DEF FInv, IInv, FramesOK
<1>5. Caller.start <= Caller.next
  BY <1>4 DEF FrameOK, Caller
<1>6. BodyRead(stack, heap, pc, Ext, o, z, Depth - 1)
  BY <1>2 DEF Loaded, Reads, BytesRead
<1> QED  BY <1>2, <1>3, <1>5, <1>6 DEF Caller, Entered

LEMMA ReturnToLoadLoad ==
  ASSUME FInv, NEW o, NEW z, Loaded(o, z), ReturnToLoad, Linked(stack, heap, root, pc)'
  PROVE  (\E q, w : Loaded(q, w))'
<1>1. /\ pc = "return" /\ pc' = "loop" /\ Depth = 2 /\ Resume(Caller.i) /\ heap' = heap
      /\ root' = Put(root, Cur.name, Top.tag) /\ buffer' = buffer
  BY DEF ReturnToLoad, Resume
<1>2. /\ heap \in Seq(Tag) /\ stack \in Seq(Frame) /\ Len(stack) = 2
      /\ Linked(stack, heap, root, pc) /\ Caller = stack[1] /\ Caller.i \in Nat /\ Caller.next \in Nat
  BY <1>1, LinkedFacts, ReturnFacts DEF FInv, Caller
<1>3. Caller.tag = 0
  BY <1>2 DEF Linked, Fresh
<1>4. PICK q, c, x : c = Caller.tag /\ x = Top.tag /\ q = [o EXCEPT ![x] = c]
  OBVIOUS
<1>5. Reads(stack, heap, root, pc, Ext, o, z)
  BY DEF Loaded
<1>6. Values(root') \subseteq Values(root) \cup {x}
  BY <1>1, <1>4 DEF Values, Put, Drop
<1>7. Hands(o, q, c, x)
  <2>1. SameNames(heap, heap') /\ Plain(heap')
    BY <1>1, <1>5 DEF SameNames, Reads
  <2> QED  BY <1>1, <1>2, <1>3, <1>4, <1>6, <2>1 DEF Hands
<1>8. /\ Joins(o, q, Len(heap), c, x) /\ x \in 1 .. Len(heap)
      /\ Owned(stack', heap', root', q) /\ stack'[1].next <= length
  BY <1>1, <1>2, <1>7, HandedOwns
<1>9. PICK n : Handed(o, q, n, c, Caller.i)
  BY <1>1, <1>2, <1>7, HandedOwns
<1>10. /\ n = 1 /\ Turns(stack, stack', heap, heap', pc, o, q, n, c)
       /\ stack'[n].next = consumed
  BY <1>1, <1>9 DEF Handed
<1>11. Span(Ext, 0, stack[1].next) = ReadBytes(heap, o, z, 0)
  BY <1>2, <1>5 DEF Reads, BytesRead
<1>12. Span(Ext, 0, consumed) = Then(Span(Ext, 0, Caller.next), Then(Lead(heap, x), z[x]))
  <2>1. 0 \in Nat /\ 0 <= Caller.next
    BY <1>2
  <2>2. ~(Depth > 2)
    BY <1>1
  <2> QED  BY <1>1, <1>4, <2>1, <2>2, HandedBytes
<1>13. ReadBytes(heap', q, z, 0) = Then(ReadBytes(heap, o, z, 0), Then(Lead(heap, x), z[x]))
  <2>1. z \in [1 .. Len(heap) -> Seq(Byte)] /\ 0 \in Nat
    BY <1>5 DEF Reads, BytesRead
  <2>2. Joins(o, q, Len(heap), 0, x)
    BY <1>3, <1>4, <1>8
  <2> QED  BY <1>1, <1>2, <1>8, <2>1, <2>2, ReadsGrow, SMTT(30)
<1>14. Span(Ext, 0, stack'[1].next) = ReadBytes(heap', q, z, Null)
  BY <1>2, <1>10, <1>11, <1>12, <1>13
<1>15. Plain(heap') /\ pc # "done" /\ ~(n > 1)
  BY <1>1, <1>5, <1>10 DEF Reads
<1> QED  BY <1>1, <1>8, <1>10, <1>14, <1>15, TurnLoad

LEMMA ReturnToCompoundLoad ==
  ASSUME FInv, NEW o, NEW z, Loaded(o, z), ReturnToCompound, Linked(stack, heap, root, pc)'
  PROVE  (\E q, w : Loaded(q, w))'
<1>0. PICK q, c, x : c = Caller.tag /\ x = Top.tag /\ q = [o EXCEPT ![x] = c]
  OBVIOUS
<1> DEFINE m == Put(heap[c].map, Cur.name, x)
           u == [heap[c] EXCEPT !.map = m]
<1>1. /\ pc = "return" /\ pc' = "loop" /\ Depth > 2 /\ Resume(Caller.i) /\ UNCHANGED <<root, buffer>>
      /\ heap[c].type = kTagCompound /\ heap' = [heap EXCEPT ![c].map = m]
  BY <1>0 DEF ReturnToCompound, Resume, IsCompound
<1>2. /\ heap \in Seq(Tag) /\ Cur = heap[x] /\ Cur \in Tag
      /\ c \in 1 .. Len(heap) /\ heap[c] \in Tag /\ Caller.i \in Nat /\ x \in 1 .. Len(heap)
  <2>1. Depth > 1
    BY <1>1, LinkedFacts
  <2> QED  BY <1>0, <1>1, <2>1, LinkedFacts, CallerFacts
<1>3. m \in Map
  <2>1. Cur.name \in Name
    BY <1>2, Zenon DEF Tag
  <2>2. heap[c].map \in Map
    BY <1>2 DEF Tag
  <2>3. x \in Nat
    BY <1>2
  <2> QED  BY <2>1, <2>2, <2>3, PutType
<1>4. \A e \in m : e \in heap[c].map \/ e[2] = x
  BY DEF Put, Drop
<1> HIDE DEF m
<1>5. /\ u \in Tag /\ u.type = heap[c].type /\ u.name = heap[c].name
      /\ u.kids = heap[c].kids /\ u.map = m
  BY <1>2, <1>3 DEF Tag
<1>6. heap' = [heap EXCEPT ![c] = u]
  BY <1>1, <1>2
<1> HIDE DEF u
<1>7. Becomes(heap, heap', c, u)
  BY <1>5, <1>6 DEF Becomes
<1>8. /\ heap' \in Seq(Tag) /\ Len(heap') = Len(heap) /\ heap'[c] = u
      /\ \A id \in 1 .. Len(heap) : /\ heap'[id].type = heap[id].type /\ heap'[id].name = heap[id].name
                                    /\ id # c => heap'[id] = heap[id]
  BY <1>2, <1>7, Replaced
<1>9. Held(heap', c) \subseteq Held(heap, c) \cup {x, Null}
  BY <1>4, <1>5, <1>8 DEF Held
<1>10. Plain(heap') /\ z \in [1 .. Len(heap) -> Seq(Byte)]
  <2>1. Plain(heap) /\ z \in [1 .. Len(heap) -> Seq(Byte)]
    BY DEF Loaded, Reads, BytesRead
  <2> QED  BY <1>2, <1>5, <1>8, <2>1 DEF Plain
<1>11. Hands(o, q, c, x)
  <2>1. SameNames(heap, heap')
    BY <1>8 DEF SameNames
  <2> QED  BY <1>0, <1>1, <1>2, <1>8, <1>9, <1>10, <2>1 DEF Hands
<1>12. /\ Joins(o, q, Len(heap), c, x)
       /\ Owned(stack', heap', root', q) /\ stack'[1].next <= length
  BY <1>1, <1>2, <1>11, HandedOwns
<1>21. PICK n : Handed(o, q, n, c, Caller.i)
  BY <1>1, <1>2, <1>11, HandedOwns
<1>13. /\ n = Depth - 1 /\ n \in Nat
       /\ Turns(stack, stack', heap, heap', pc, o, q, n, c)
       /\ stack'[n].tag = c /\ stack'[n].start = Caller.start /\ stack'[n].next = consumed
  BY <1>21 DEF Handed
<1>14. /\ BodyRead(stack, heap, pc, Ext, o, z, n) /\ Caller = stack[n]
       /\ Caller.start \in Nat /\ Caller.start <= Caller.next /\ n > 1
  BY <1>1, <1>13, CallerRead
<1>15. Span(Ext, Caller.start, Caller.next) = ReadBytes(heap, o, z, c)
  BY <1>0, <1>1, <1>14 DEF BodyRead
<1>16. ~IsList(Caller.tag)
  BY <1>0, <1>1 DEF IsList, kTagList, kTagCompound
<1>17. Span(Ext, Caller.start, consumed)
         = Then(Span(Ext, Caller.start, Caller.next), Then(Lead(heap, x), z[x]))
  BY <1>0, <1>1, <1>14, <1>16, HandedBytes
<1>18. ReadBytes(heap', q, z, c) = Then(ReadBytes(heap, o, z, c), Then(Lead(heap, x), z[x]))
  <2>1. c \in Nat
    BY <1>2
  <2> QED  BY <1>2, <1>8, <1>10, <1>12, <2>1, ReadsGrow
<1>19. BodyRead(stack', heap', "loop", Ext, q, z, n)
  <2>1. heap'[c].type # kTagList
    BY <1>1, <1>2, <1>8 DEF kTagList, kTagCompound
  <2> QED  BY <1>13, <1>15, <1>17, <1>18, <2>1 DEF BodyRead
<1>20. pc # "done" /\ n # 1
  BY <1>1, <1>14
<1> QED  BY <1>1, <1>10, <1>12, <1>13, <1>19, <1>20, TurnLoad

LEMMA ReturnToListLoad ==
  ASSUME FInv, NEW o, NEW z, Loaded(o, z), ReturnToList, Linked(stack, heap, root, pc)'
  PROVE  (\E q, w : Loaded(q, w))'
<1>0. PICK q, c, x, i : /\ c = Caller.tag /\ x = Top.tag /\ q = [o EXCEPT ![x] = c]
                        /\ i = Caller.i
  OBVIOUS
<1> DEFINE k == [heap[c].kids EXCEPT ![i + 1] = x]
           u == [heap[c] EXCEPT !.kids = k]
<1>1. /\ pc = "return" /\ pc' = "loop" /\ Depth > 2 /\ Resume(i + 1) /\ UNCHANGED <<root, buffer>>
      /\ heap[c].type = kTagList /\ heap' = [heap EXCEPT ![c].kids[i + 1] = x]
  BY <1>0 DEF ReturnToList, Resume, IsList
<1>2. /\ heap \in Seq(Tag)
      /\ c \in 1 .. Len(heap) /\ heap[c] \in Tag /\ i \in Nat /\ x \in 1 .. Len(heap)
      /\ ReadTo(heap, c, i) /\ i < Len(heap[c].kids)
  BY <1>0, <1>1, LinkedFacts, CallerFacts
<1>3. heap[c].kids \in Seq(Nat) /\ i + 1 \in 1 .. Len(heap[c].kids) /\ x \in Nat /\ i + 1 \in Nat
  <2>1. heap[c].kids \in Seq(Nat)
    BY <1>2 DEF Tag
  <2> QED  BY <1>2, <2>1
<1>4. /\ k \in Seq(Nat) /\ Len(k) = Len(heap[c].kids)
      /\ \A l \in 1 .. Len(k) : k[l] = IF l = i + 1 THEN x ELSE heap[c].kids[l]
  BY <1>3, ExceptSeq
<1> HIDE DEF k
<1>5. /\ u \in Tag /\ u.type = heap[c].type /\ u.name = heap[c].name
      /\ u.kids = k /\ u.map = heap[c].map /\ u.ctype = heap[c].ctype
  BY <1>2, <1>4 DEF Tag
<1>6. heap' = [heap EXCEPT ![c] = u]
  BY <1>1, <1>2 DEF k
<1> HIDE DEF u
<1>7. Becomes(heap, heap', c, u)
  BY <1>5, <1>6 DEF Becomes
<1>8. /\ heap' \in Seq(Tag) /\ Len(heap') = Len(heap) /\ heap'[c] = u
      /\ \A id \in 1 .. Len(heap) : /\ heap'[id].type = heap[id].type /\ heap'[id].name = heap[id].name
                                    /\ id # c => heap'[id] = heap[id]
  BY <1>2, <1>7, Replaced
<1>9. Held(heap', c) \subseteq Held(heap, c) \cup {x, Null}
  <2>1. \A l \in 1 .. Len(k) : k[l] = x \/ k[l] \in Held(heap, c)
    BY <1>4 DEF Held
  <2>2. \A e \in heap[c].map : e[2] \in Held(heap, c)
    BY DEF Held
  <2>3. Held(heap', c) = {k[l] : l \in 1 .. Len(k)} \cup {e[2] : e \in heap[c].map}
    BY <1>5, <1>8 DEF Held
  <2> QED  BY <2>1, <2>2, <2>3
<1>10. Plain(heap') /\ z \in [1 .. Len(heap) -> Seq(Byte)]
  <2>1. Plain(heap) /\ z \in [1 .. Len(heap) -> Seq(Byte)]
    BY DEF Loaded, Reads, BytesRead
  <2> QED  BY <1>1, <1>2, <1>8, <2>1 DEF Plain
<1>11. Hands(o, q, c, x)
  <2>1. SameNames(heap, heap')
    BY <1>8 DEF SameNames
  <2> QED  BY <1>0, <1>1, <1>2, <1>8, <1>9, <1>10, <2>1 DEF Hands
<1>12. /\ Owned(stack', heap', root', q) /\ stack'[1].next <= length
  BY <1>1, <1>3, <1>11, HandedOwns
<1>21. PICK n : Handed(o, q, n, c, i + 1)
  BY <1>1, <1>3, <1>11, HandedOwns
<1>13. /\ n = Depth - 1 /\ n \in Nat
       /\ Turns(stack, stack', heap, heap', pc, o, q, n, c)
       /\ stack'[n].tag = c /\ stack'[n].start = Caller.start /\ stack'[n].next = consumed
       /\ stack'[n].i = i + 1
  BY <1>21 DEF Handed
<1>14. /\ BodyRead(stack, heap, pc, Ext, o, z, n) /\ Entered(stack, pc, n) /\ Caller = stack[n]
       /\ Caller.start \in Nat /\ Caller.start <= Caller.next /\ n > 1
  BY <1>1, <1>13, CallerRead
<1>15. Span(Ext, Caller.start, Caller.next) = ListBytes(heap, z, c, i)
  BY <1>0, <1>1, <1>14 DEF BodyRead
<1>16. IsList(Caller.tag)
  BY <1>0, <1>1 DEF IsList
<1>17. Span(Ext, Caller.start, consumed) = Then(Span(Ext, Caller.start, Caller.next), z[x])
  BY <1>0, <1>1, <1>14, <1>16, HandedBytes
<1>18. ListBytes(heap', z, c, i + 1) = Then(ListBytes(heap, z, c, i), z[x])
  <2>1. NextKid(heap, z, heap', c, i, x)
    <3>1. ASSUME NEW j \in 1 .. i
          PROVE  heap'[c].kids[j] = heap[c].kids[j] /\ z[heap[c].kids[j]] \in Seq(Byte)
      <4>1. j \in 1 .. Len(heap[c].kids) /\ j # i + 1 /\ j <= i
        BY <1>2, <1>3
      <4>2. heap[c].kids[j] \in 1 .. Len(heap)
        BY <1>2, <4>1 DEF ReadTo
      <4> QED  BY <1>4, <1>5, <1>8, <1>10, <4>1, <4>2
    <3>2. heap'[c].kids[i + 1] = x /\ z[x] \in Seq(Byte)
      BY <1>2, <1>3, <1>4, <1>5, <1>8, <1>10
    <3> QED  BY <3>1, <3>2 DEF NextKid
  <2>2. heap'[c].ctype = heap[c].ctype /\ Len(heap'[c].kids) = Len(heap[c].kids)
    BY <1>4, <1>5, <1>8
  <2>3. heap[c] \in Tag /\ i \in Nat
    BY <1>2
  <2> QED  BY ONLY <2>1, <2>2, <2>3, ListGrows
<1>19. BodyRead(stack', heap', "loop", Ext, q, z, n)
  <2>1. heap'[c].type # kTagCompound
    BY <1>1, <1>2, <1>8 DEF kTagList, kTagCompound
  <2>2. i + 1 <= Len(heap'[c].kids)
    BY <1>3, <1>4, <1>5, <1>8
  <2> QED  BY <1>13, <1>15, <1>17, <1>18, <2>1, <2>2 DEF BodyRead
<1>20. pc # "done" /\ n # 1
  BY <1>1, <1>14
<1> QED  BY <1>1, <1>10, <1>12, <1>13, <1>19, <1>20, TurnLoad


-----------------------------------------------------------------------------
(* The invariant                                                            *)

LEMMA FailingLoad ==
  ASSUME FInv, NEW o, NEW z, Loaded(o, z), FailingStep PROVE (\E q, w : Loaded(q, w))'
<1>1. pc # "done" /\ \E how \in {"false", "bad_alloc"} : Abort(how)
  BY DEF FailingStep, HeaderFails, AtHeader, Looping, LeafFails, ResizeThrows, Reading,
         ListFails, ElementFails, Fail
<1>2. PICK how \in {"false", "bad_alloc"} : Abort(how)
  BY <1>1
<1>3. how # "true"
  BY <1>2
<1> QED  BY <1>1, <1>2, <1>3, AbortLoad

LEMMA StillLoaded ==
  ASSUME NEW o, NEW z, Loaded(o, z), UNCHANGED vars PROVE (\E q, w : Loaded(q, w))'
<1>1. UNCHANGED <<heap, root, stack, pc, ret, buffer, result>>
  BY DEF vars
<1>2. Ext' = Ext /\ length' = length /\ Top' = Top /\ Depth' = Depth
  BY <1>1 DEF Ext, length, Top, Depth
<1>3. Loaded(o, z)'
  BY <1>1, <1>2 DEF Loaded
<1> QED  BY <1>3

LEMMA NextLoad == ASSUME LInv, [Next]_vars PROVE LInv'
<1>1. FInv /\ FInv'
  BY NextForest DEF LInv
<1>2. Linked(stack, heap, root, pc)'
  BY <1>1 DEF FInv
<1>3. PICK o, z : Loaded(o, z)
  BY DEF LInv
<1>4. (\E q, w : Loaded(q, w))'
  <2>1. CASE Load              BY <2>1, LoadLoad
  <2>2. CASE LoadReturns       BY <1>1, <1>3, <2>2, LoadReturnsLoad
  <2>3. CASE ReadHeader        BY <1>1, <1>2, <1>3, <2>3, ReadHeaderLoad
  <2>4. CASE ReadScalar        BY <1>1, <1>2, <1>3, <2>4, ReadScalarLoad
  <2>5. CASE ReadArray         BY <1>1, <1>2, <1>3, <2>5, ReadArrayLoad
  <2>6. CASE ReadString        BY <1>1, <1>2, <1>3, <2>6, ReadStringLoad
  <2>7. CASE ReadEndList       BY <1>1, <1>2, <1>3, <2>7, ReadEndListLoad
  <2>8. CASE EnterList         BY <1>1, <1>2, <1>3, <2>8, EnterListLoad
  <2>9. CASE ReadElement       BY <1>1, <1>2, <1>3, <2>9, ReadElementLoad
  <2>10. CASE FinishList       BY <1>1, <1>2, <1>3, <2>10, FinishListLoad
  <2>11. CASE EnterCompound    BY <1>1, <1>2, <1>3, <2>11, EnterCompoundLoad
  <2>12. CASE FinishCompound   BY <1>1, <1>2, <1>3, <2>12, FinishCompoundLoad
  <2>13. CASE ReturnToLoad     BY <1>1, <1>2, <1>3, <2>13, ReturnToLoadLoad
  <2>14. CASE ReturnToCompound BY <1>1, <1>2, <1>3, <2>14, ReturnToCompoundLoad
  <2>15. CASE ReturnToList     BY <1>1, <1>2, <1>3, <2>15, ReturnToListLoad
  <2>16. CASE FailingStep      BY <1>1, <1>3, <2>16, FailingLoad
  <2>17. CASE UNCHANGED vars   BY <1>3, <2>17, StillLoaded
  <2> QED
    BY <2>1, <2>2, <2>3, <2>4, <2>5, <2>6, <2>7, <2>8, <2>9, <2>10, <2>11, <2>12,
       <2>13, <2>14, <2>15, <2>16, <2>17, Zenon DEF Next, ReadStep, FailingStep
<1> QED  BY <1>1, <1>4 DEF LInv

LEMMA InitLoad == Init => LInv
<1> SUFFICES ASSUME Init PROVE LInv
  OBVIOUS
<1>1. /\ heap = << >> /\ root = {} /\ stack = << >> /\ pc = "done" /\ buffer = << >>
      /\ Len(stack) = 0 /\ Depth = 0
  BY DEF Init, Depth
<1>2. FInv
  BY <1>1, InitKeeps, LinkedNone DEF FInv
<1>3. Reads(stack, heap, root, pc, Ext, << >>, << >>)
  BY <1>1, ReadsStart
<1>4. length = 0
  BY <1>1 DEF length
<1>5. Span(Ext, 0, 0) = ReadBytes(heap, << >>, << >>, Null)
  <2>1. Into(<< >>, Len(<< >>), 0) = {}
    BY DEF Into
  <2>2. ReadBytes(<< >>, << >>, << >>, 0) = << >>
    BY <2>1, ReadsNone
  <2>3. Span(Ext, 0, 0) = << >>
    BY SpanNothing
  <2> QED  BY <1>1, <2>2, <2>3
<1>6. Loaded(<< >>, << >>)
  BY <1>1, <1>3, <1>4, <1>5 DEF Loaded
<1> QED  BY <1>2, <1>6 DEF LInv

-----------------------------------------------------------------------------
(* When Load is over and replaced no tag, what was read into a container is *)
(* what it holds, and so what was read is the document.                     *)

Kept(h, r, o) ==
  /\ h \in Seq(Tag) /\ r \in Map /\ Pointers(h, r) /\ Keys(h, r) /\ Plain(h)
  /\ Owned(<< >>, h, r, o) /\ Lists(<< >>, h, "done")
  /\ \A x \in 1 .. Len(h) : x \in Values(r) \/ \E p \in 1 .. Len(h) : x \in Held(h, p)

LEMMA KeptTag ==
  ASSUME NEW h, NEW r, NEW o, Kept(h, r, o), NEW c \in 1 .. Len(h)
  PROVE  /\ h[c] \in Tag /\ DOMAIN h[c].kids = 1 .. Len(h[c].kids)
         /\ \A j \in DOMAIN h[c].kids : h[c].kids[j] \in c + 1 .. Len(h)
         /\ \A e \in h[c].map : e[2] \in c + 1 .. Len(h)
<1>1. /\ h \in Seq(Tag) /\ Pointers(h, r) /\ Keys(h, r) /\ Plain(h) /\ Lists(<< >>, h, "done")
  BY DEF Kept
<1>2. h[c] \in Tag
  BY <1>1, ElementOfSeq
<1>3. h[c].kids \in Seq(Nat)
  BY <1>2 DEF Tag
<1>4. DOMAIN h[c].kids = 1 .. Len(h[c].kids)
  BY <1>3, LenProperties
<1>5. \A x \in 1 .. Len(h) : x \in Held(h, c) => x \in c + 1 .. Len(h)
  <2>1. \A x \in 1 .. Len(h) : x # Null
    BY <1>1
  <2>2. \A x \in 1 .. Len(h) : x \in Held(h, c) => c < x /\ x <= Len(h)
    BY <1>1, <2>1, Zenon DEF Pointers
  <2> QED  BY <1>1, <2>2
<1>6. ASSUME NEW j \in DOMAIN h[c].kids PROVE h[c].kids[j] \in c + 1 .. Len(h)
  <2>1. j \in 1 .. Len(h[c].kids) /\ h[c].kids # << >>
    BY <1>3, <1>4
  <2>2. h[c].type = kTagList
    BY <1>1, <2>1 DEF Plain
  <2>3. Unfinished(<< >>, "done") = {}
    <3>1. 2 .. Len(<< >>) = {}
      BY EmptySeq
    <3> QED  BY <3>1 DEF Unfinished
  <2>4. ReadTo(h, c, Len(h[c].kids))
    BY <1>1, <2>2, <2>3 DEF Lists
  <2>5. h[c].kids[j] \in 1 .. Len(h)
    BY <1>3, <2>1, <2>4 DEF ReadTo
  <2>6. h[c].kids[j] \in Held(h, c)
    BY <2>1, Zenon DEF Held
  <2> QED  BY <1>5, <2>5, <2>6
<1>7. ASSUME NEW e \in h[c].map PROVE e[2] \in c + 1 .. Len(h)
  <2>1. e[2] \in 1 .. Len(h)
    BY <1>1, Zenon DEF Keys, EntriesIn
  <2>2. e[2] \in Held(h, c)
    BY Zenon DEF Held
  <2> QED  BY <1>5, <2>1, <2>2
<1> QED  BY <1>2, <1>4, <1>6, <1>7

LEMMA KeptInto ==
  ASSUME NEW h, NEW r, NEW o, Kept(h, r, o)
  PROVE  /\ ReadInto(h, o, Null) = r
         /\ \A c \in 1 .. Len(h) : h[c].type = kTagCompound => ReadInto(h, o, c) = h[c].map
<1>1. /\ h \in Seq(Tag) /\ r \in Map /\ Keys(h, r) /\ Plain(h)
      /\ \A c \in 1 .. Len(h) : \A x \in Held(h, c) : x # Null => o[x] = c
      /\ \A x \in Values(r) : o[x] = Null
      /\ \A x \in 1 .. Len(h) : x # Null
      /\ \A x \in 1 .. Len(h) : x \in Values(r) \/ \E p \in 1 .. Len(h) : x \in Held(h, p)
  BY DEF Kept, Owned
<1>2. ASSUME NEW m \in Map, EntriesIn(h, m), NEW c \in Nat,
             \A x \in 1 .. Len(h) : (x > c /\ o[x] = c) <=> x \in Values(m)
      PROVE  ReadInto(h, o, c) = m
  <2>1. \A e \in m : e = Entry(h, e[2]) /\ e[2] \in 1 .. Len(h)
    BY <1>2 DEF EntriesIn, Entry, Map
  <2>2. \A x : x \in Into(o, Len(h), c) <=> x \in 1 .. Len(h) /\ x \in Values(m)
    BY <1>1, <1>2 DEF Into
  <2>3. \A x : x \in Values(m) <=> \E e \in m : e[2] = x
    BY DEF Values
  <2>4. ASSUME NEW e \in m PROVE e \in ReadInto(h, o, c)
    BY <2>1, <2>2, <2>3 DEF ReadInto
  <2>5. ASSUME NEW e \in ReadInto(h, o, c) PROVE e \in m
    <3>1. PICK x \in Into(o, Len(h), c) : e = Entry(h, x)
      BY DEF ReadInto
    <3>2. PICK f \in m : f[2] = x
      BY <2>2, <2>3, <3>1
    <3> QED  BY <2>1, <3>1, <3>2
  <2> QED  BY <2>4, <2>5
<1>3. ReadInto(h, o, Null) = r
  <2>1. EntriesIn(h, r)
    BY <1>1 DEF Keys
  <2>2. \A x \in 1 .. Len(h) : (x > 0 /\ o[x] = 0) <=> x \in Values(r)
    BY <1>1
  <2> QED  BY <1>1, <1>2, <2>1, <2>2
<1>4. ASSUME NEW c \in 1 .. Len(h), h[c].type = kTagCompound PROVE ReadInto(h, o, c) = h[c].map
  <2>1. EntriesIn(h, h[c].map) /\ h[c].map \in Map
    <3>1. h[c] \in Tag
      BY <1>1, ElementOfSeq
    <3> QED  BY <1>1, <3>1 DEF Keys, Tag
  <2>2. Held(h, c) = Values(h[c].map)
    <3>1. kTagCompound # kTagList
      BY DEF kTagCompound, kTagList
    <3>2. h[c].kids = << >>
      BY <1>1, <1>4, <3>1 DEF Plain
    <3>3. 1 .. Len(h[c].kids) = {}
      BY <3>2
    <3> QED  BY <3>3 DEF Held, Values
  <2>3. \A x \in 1 .. Len(h) : (x > c /\ o[x] = c) <=> x \in Values(h[c].map)
    <3> TAKE x \in 1 .. Len(h)
    <3>1. c # Null /\ x # Null
      BY <1>1
    <3>2. ASSUME x > c, o[x] = c PROVE x \in Held(h, c)
      BY <1>1, <3>1, <3>2
    <3>3. ASSUME x \in Held(h, c) PROVE x > c /\ o[x] = c
      <4>1. o[x] = c
        BY <1>1, <3>1, <3>3
      <4>2. PICK e \in h[c].map : e[2] = x
        BY <2>2, <3>3 DEF Values
      <4>3. x \in c + 1 .. Len(h)
        BY <4>2, KeptTag
      <4> QED  BY <4>1, <4>3
    <3> QED  BY <2>2, <3>2, <3>3
  <2> QED  BY <1>2, <2>1, <2>3
<1> QED  BY <1>3, <1>4

In(h, y, c)    == PayloadIn(h, y, h[c], AsRead)
PaysRead(h, y) == y = [id \in 1 .. Len(h) |-> PayloadIn(h, y, h[id], AsRead)]

(* What the format writes of a tag that is no compound. *)
Leafy(y, tag, p) ==
  /\ tag.type \in ScalarTypes => p = tag.data
  /\ tag.type \in ArrayTypes  =>
       p = Then(U32(Len(tag.data) \div ElementSize(tag.type)), tag.data)
  /\ tag.type = kTagString    => p = Then(U16(Len(tag.data)), tag.data)
  /\ tag.type = kTagList      =>
       p = IF tag.ctype = kTagEnd THEN Then(<<kTagEnd>>, U32(1))
           ELSE Then(Then(<<tag.ctype>>, U32(Len(tag.kids))), KidsInOrder(tag.kids, y))

LEMMA LeafyPayload == ASSUME NEW h, NEW y, NEW tag PROVE Leafy(y, tag, PayloadIn(h, y, tag, AsRead))
<1> DEFINE t == tag.type
           p == PayloadIn(h, y, tag, AsRead)
<1>1. /\ t \in ScalarTypes => /\ t \notin ArrayTypes
                              /\ t \notin {kTagString, kTagList, kTagCompound}
      /\ t \in ArrayTypes => t \notin {kTagString, kTagList, kTagCompound}
      /\ kTagString \notin {kTagList, kTagCompound} /\ kTagList # kTagCompound
  BY DEF ScalarTypes, ArrayTypes, kTagByte, kTagDouble, kTagByteArray, kTagIntArray,
     kTagString, kTagList, kTagCompound
<1>2. t \in ScalarTypes => p = tag.data
  BY <1>1, Zenon DEF PayloadIn
<1>3. t \in ArrayTypes => p = Then(U32(Len(tag.data) \div ElementSize(t)), tag.data)
  BY <1>1, Zenon DEF PayloadIn, Then
<1>4. t = kTagString => p = Then(U16(Len(tag.data)), tag.data)
  BY <1>1, Zenon DEF PayloadIn, Then
<1>5. t = kTagList => p = IF tag.ctype = kTagEnd THEN Then(<<kTagEnd>>, U32(1))
                          ELSE Then(Then(<<tag.ctype>>, U32(Len(tag.kids))), KidsInOrder(tag.kids, y))
  BY <1>1, Zenon DEF PayloadIn, Then
<1> QED  BY <1>2, <1>3, <1>4, <1>5, Zenon DEF Leafy

LEMMA WithoutMap ==
  ASSUME NEW h, NEW y, NEW a, NEW b, a.type = b.type, a.data = b.data, a.ctype = b.ctype,
         a.kids = b.kids, a.type \in TagTypes, a.type # kTagCompound
  PROVE  PayloadIn(h, y, a, AsRead) = PayloadIn(h, y, b, AsRead)
<1> DEFINE p == PayloadIn(h, y, a, AsRead)
           q == PayloadIn(h, y, b, AsRead)
<1>1. Leafy(y, a, p) /\ Leafy(y, b, q)
  BY LeafyPayload
<1>2. a.type \in ScalarTypes \/ a.type \in ArrayTypes \/ a.type = kTagString \/ a.type = kTagList
  BY DEF TagTypes, ScalarTypes, ArrayTypes, kTagByte, kTagDouble,
         kTagByteArray, kTagIntArray, kTagString, kTagList, kTagCompound
<1> HIDE DEF p, q
<1>3. a.type \in ScalarTypes => p = q
  BY <1>1 DEF Leafy
<1>4. a.type \in ArrayTypes => p = q
  BY <1>1 DEF Leafy
<1>5. a.type = kTagString => p = q
  BY <1>1 DEF Leafy
<1>6. a.type = kTagList => p = q
  BY <1>1 DEF Leafy
<1> QED  BY <1>2, <1>3, <1>4, <1>5, <1>6 DEF p, q

LEMMA KeptWhole ==
  ASSUME NEW h, NEW r, NEW o, Kept(h, r, o), NEW y, NEW c \in 1 .. Len(h)
  PROVE  Whole(h, o, y, c) = In(h, y, c)
<1>1. h[c] \in Tag
  BY KeptTag
<1>2. Whole(h, o, y, c) = PayloadIn(h, y, Full(h, o, c), AsRead)
  BY DEF Whole
<1>3. CASE h[c].type = kTagCompound
  <2>1. ReadInto(h, o, c) = h[c].map
    BY <1>3, KeptInto
  <2>2. Full(h, o, c) = h[c]
    BY <1>1, <2>1 DEF Full, Tag
  <2> QED  BY <1>2, <2>2 DEF In
<1>4. CASE h[c].type # kTagCompound
  <2>1. /\ Full(h, o, c).type = h[c].type /\ Full(h, o, c).data = h[c].data
        /\ Full(h, o, c).ctype = h[c].ctype /\ Full(h, o, c).kids = h[c].kids
    BY <1>1 DEF Full, Tag
  <2>2. Full(h, o, c).type # kTagCompound /\ Full(h, o, c).type \in TagTypes
    BY <1>1, <1>4, <2>1 DEF Tag
  <2>3. PayloadIn(h, y, Full(h, o, c), AsRead) = PayloadIn(h, y, h[c], AsRead)
    BY <2>1, <2>2, WithoutMap
  <2> QED  BY <1>2, <2>3, Zenon DEF In
<1> QED  BY <1>3, <1>4

LEMMA InSame ==
  ASSUME NEW h, NEW r, NEW o, Kept(h, r, o), NEW c \in 1 .. Len(h),
         NEW y, NEW z, \A k \in c + 1 .. Len(h) : y[k] = z[k]
  PROVE  In(h, y, c) = In(h, z, c)
<1>1. \A j \in DOMAIN h[c].kids : y[h[c].kids[j]] = z[h[c].kids[j]]
  BY KeptTag
<1>2. \A e \in h[c].map : y[e[2]] = z[e[2]]
  BY KeptTag
<1>3. KidsInOrder(h[c].kids, y) = KidsInOrder(h[c].kids, z)
  <2>1. [j \in DOMAIN h[c].kids |-> y[h[c].kids[j]]] = [j \in DOMAIN h[c].kids |-> z[h[c].kids[j]]]
    BY <1>1, Zenon
  <2> QED  BY <2>1, Zenon DEF KidsInOrder
<1>4. NamedInOrder(h, h[c].map, AsRead, y) = NamedInOrder(h, h[c].map, AsRead, z)
  <2>1. [e \in h[c].map |-> Named(h, e, y)] = [e \in h[c].map |-> Named(h, e, z)]
    BY <1>2, Zenon DEF Named
  <2> QED  BY <2>1, Zenon DEF NamedInOrder
<1> QED  BY <1>3, <1>4, Zenon DEF PayloadIn, In

(* The payloads are determined, from the youngest tag to the oldest.        *)
LEMMA PaysOnce ==
  ASSUME NEW h, NEW r, NEW o, Kept(h, r, o),
         NEW y, PaysRead(h, y), NEW z, PaysRead(h, z)
  PROVE  y = z
<1> DEFINE n == Len(h)
           T == {m \in Nat : \A id \in 1 .. n : id > n - m => y[id] = z[id]}
<1>1. n \in Nat
  BY DEF Kept
<1>2. \A id \in 1 .. n : y[id] = In(h, y, id) /\ z[id] = In(h, z, id)
  BY Zenon DEF PaysRead, In
<1>3. 0 \in T
  BY <1>1
<1>4. ASSUME NEW m \in Nat, m \in T PROVE m + 1 \in T
  <2> SUFFICES ASSUME NEW id \in 1 .. n, id > n - (m + 1) PROVE y[id] = z[id]
    OBVIOUS
  <2>1. \A k \in id + 1 .. n : k \in 1 .. n /\ k > n - m
    BY <1>1
  <2>2. \A k \in id + 1 .. n : y[k] = z[k]
    BY <1>4, <2>1
  <2>3. In(h, y, id) = In(h, z, id)
    BY <2>2, InSame
  <2> QED  BY <1>2, <2>3
<1> HIDE DEF T
<1>5. n \in T
  BY <1>1, <1>3, <1>4, Naturals
<1>6. \A id \in 1 .. n : y[id] = z[id]
  <2>1. \A id \in 1 .. n : id > n - n
    BY <1>1
  <2> QED  BY <1>5, <2>1 DEF T
<1>7. y = [id \in 1 .. n |-> y[id]] /\ z = [id \in 1 .. n |-> z[id]]
  BY Zenon DEF PaysRead
<1> QED  BY <1>6, <1>7, Zenon

LEMMA PayloadIsRead == Payload(AsRead) = CHOOSE y : PaysRead(heap, y)
BY Zenon DEF Payload, PaysRead, Ids

LEMMA DocumentRead ==
  ASSUME NEW o, Kept(heap, root, o), NEW z, z \in [1 .. Len(heap) -> Seq(Byte)],
         \A x \in 1 .. Len(heap) : z[x] = Whole(heap, o, z, x)
  PROVE  Document(AsRead) = ReadBytes(heap, o, z, Null)
<1>1. PaysRead(heap, z)
  <2>1. \A x \in 1 .. Len(heap) : z[x] = In(heap, z, x)
    BY KeptWhole
  <2>2. z = [x \in 1 .. Len(heap) |-> z[x]]
    OBVIOUS
  <2>3. z = [x \in 1 .. Len(heap) |-> In(heap, z, x)]
    BY <2>1, <2>2, Zenon
  <2> QED  BY <2>3, Zenon DEF PaysRead, In
<1>2. Payload(AsRead) = z
  <2>1. PaysRead(heap, CHOOSE y : PaysRead(heap, y))
    BY <1>1, Zenon
  <2>2. (CHOOSE y : PaysRead(heap, y)) = z
    BY <1>1, <2>1, PaysOnce
  <2> QED  BY <2>2, PayloadIsRead, Zenon
<1>3. ReadInto(heap, o, Null) = root /\ heap \in Seq(Tag)
  BY KeptInto DEF Kept
<1>4. \A e \in root : Row(heap, z, e) = Named(heap, e, z)
  <2> TAKE e \in root
  <2>1. e[1] = heap[e[2]].name
    BY DEF Kept, Keys, EntriesIn
  <2> QED  BY <2>1, Zenon DEF Row, Named, Lead, Then
<1>5. Rows(heap, z, root) = [e \in root |-> Named(heap, e, z)]
  BY <1>4, Zenon DEF Rows
<1>6. NamedInOrder(heap, root, AsRead, z) = ReadBytes(heap, o, z, Null)
  BY <1>3, <1>5, Zenon DEF NamedInOrder, ReadBytes
<1> QED  BY <1>2, <1>6, Zenon DEF Document

LEMMA FaithfulFromLoaded == ASSUME LInv PROVE LoadFaithful
<1> SUFFICES ASSUME pc = "done", NothingReplaced
             PROVE  /\ IsPrefix(Document(AsRead), buffer)
                    /\ result = "true" => Document(AsRead) = buffer
  BY Zenon DEF LoadFaithful
<1>1. FInv
  BY DEF LInv
<1>2. PICK o, z : Loaded(o, z)
  BY DEF LInv
<1>3. Depth = 0 /\ stack = << >>
  BY <1>1 DEF FInv, IInv, TypeOK, Depth
<1>4. /\ heap \in Seq(Tag) /\ root \in Map /\ Linked(<< >>, heap, root, "done")
  BY <1>1, <1>3 DEF FInv, IInv, TypeOK
<1>5. Reads(<< >>, heap, root, "done", Ext, o, z)
  BY <1>2, <1>3 DEF Loaded
<1>6. Kept(heap, root, o)
  <2>1. \A x \in 1 .. Len(heap) : x \in Values(root) \/ \E p \in 1 .. Len(heap) : x \in Held(heap, p)
    BY DEF NothingReplaced, Ids, Values, Held, Children
  <2> QED  BY <1>4, <1>5, <2>1 DEF Kept, Linked, Reads
<1>7. \A x \in 1 .. Len(heap) : z[x] = Whole(heap, o, z, x)
  <2>1. Unfinished(<< >>, "done") = {}
    <3>1. 2 .. Len(<< >>) = {}
      BY EmptySeq
    <3> QED  BY <3>1 DEF Unfinished
  <2> QED  BY <1>5, <2>1 DEF Reads, BytesRead
<1>8. Document(AsRead) = ReadBytes(heap, o, z, Null)
  BY <1>5, <1>6, <1>7, DocumentRead DEF Reads, BytesRead
<1>9. PICK k \in 0 .. length : /\ Span(Ext, 0, k) = ReadBytes(heap, o, z, Null)
                               /\ result = "true" => k = length
  BY <1>2 DEF Loaded
<1>10. /\ buffer \in Seq(Byte) /\ length = Len(buffer) /\ length \in Nat
       /\ Span(Ext, 0, k) = Span(buffer, 0, k)
  BY <1>1, <1>9, ExtIs
<1> DEFINE d == Document(AsRead)
<1>11. d = SubSeq(buffer, 1, k)
  <2>1. 0 + 1 = 1
    OBVIOUS
  <2> QED  BY <1>8, <1>9, <1>10, <2>1 DEF Span
<1> HIDE DEF d
<1>12. d \in Seq(Byte) /\ Len(d) = k /\ k <= Len(buffer)
  <2>1. k \in Nat /\ k <= Len(buffer) /\ 0 <= k /\ k - 0 = k
    BY <1>9, <1>10
  <2>2. Span(buffer, 0, k) \in Seq(Byte) /\ Len(Span(buffer, 0, k)) = k - 0
    BY <1>10, <2>1, SpanType
  <2> QED  BY <1>11, <2>1, <2>2 DEF Span
<1>13. SubSeq(d, 1, Len(d)) = d
  BY <1>12, SubSeqFull
<1>14. IsPrefix(d, buffer)
  BY <1>11, <1>12, <1>13 DEF IsPrefix
<1>15. ASSUME result = "true" PROVE d = buffer
  <2>1. d = SubSeq(buffer, 1, Len(buffer))
    BY <1>9, <1>10, <1>11, <1>15
  <2> QED  BY <1>10, <2>1, SubSeqFull
<1> QED  BY <1>14, <1>15 DEF d

(* What Load leaves in the root is what it was given: when it is over and   *)
(* no tag has taken the place of another, the tags in the root, encoded as  *)
(* the format says and in the order they were read, are the bytes of the    *)
(* buffer - all of them when Load returned true, those of the whole root    *)
(* tags in front of the failure when it did not.                            *)
THEOREM Faithful == Spec => []LoadFaithful
<1>1. Init => LInv
  BY InitLoad
<1>2. LInv /\ [Next]_vars => LInv'
  BY NextLoad
<1>3. LInv => LoadFaithful
  BY FaithfulFromLoaded
<1> QED  BY <1>1, <1>2, <1>3, PTL DEF Spec

-----------------------------------------------------------------------------
(* Load and the grammar of documents: a Load of a document goes on to its   *)
(* end (AInv, below), and one that gets to the end has read a document      *)
(* (OInv).  First, what a parse of the buffer says.                         *)

USE DEF SizeofTagType, SizeofU16, SizeofU32

LEMMA PayloadPart ==
  ASSUME NEW b, NEW p, IsParse(b, p), NEW t, NEW from, NEW to,
         <<t, from, to>> \in p.payloads
  PROVE  /\ t \in TagTypes /\ from \in Offsets(b) /\ to \in Offsets(b)
         /\ from < to /\ PayloadFrom(b, p, t, from, to)
<1>1. p.payloads \in SUBSET (TagTypes \X Offsets(b) \X Offsets(b))
  BY DEF IsParse, Parse
<1>2. <<t, from, to>> \in TagTypes \X Offsets(b) \X Offsets(b)
  BY <1>1
<1>3. \A e \in p.payloads : e[2] < e[3] /\ PayloadFrom(b, p, e[1], e[2], e[3])
  BY DEF IsParse
<1>4. <<t, from, to>>[1] = t /\ <<t, from, to>>[2] = from /\ <<t, from, to>>[3] = to
  OBVIOUS
<1>5. from < to /\ PayloadFrom(b, p, t, from, to)
  BY <1>3, <1>4, Zenon
<1> QED  BY <1>2, <1>5

LEMMA ElementsPart ==
  ASSUME NEW b, NEW p, IsParse(b, p), NEW t, NEW n, NEW from, NEW to,
         <<t, n, from, to>> \in p.elements
  PROVE  /\ t \in TagTypes /\ n \in Nat /\ from \in Offsets(b) /\ to \in Offsets(b)
         /\ ElementsFrom(b, p, t, n, from, to)
<1>1. p.elements \in SUBSET (TagTypes \X Nat \X Offsets(b) \X Offsets(b))
  BY DEF IsParse, Parse
<1>2. <<t, n, from, to>> \in TagTypes \X Nat \X Offsets(b) \X Offsets(b)
  BY <1>1
<1>3. \A e \in p.elements : ElementsFrom(b, p, e[1], e[2], e[3], e[4])
  BY DEF IsParse
<1> DEFINE e == <<t, n, from, to>>
<1>4. e[1] = t /\ e[2] = n /\ e[3] = from /\ e[4] = to
  OBVIOUS
<1>5. ElementsFrom(b, p, e[1], e[2], e[3], e[4])
  BY <1>3, Zenon
<1>6. ElementsFrom(b, p, t, n, from, to)
  BY <1>4, <1>5
<1> QED  BY <1>2, <1>6

LEMMA TagsPart ==
  ASSUME NEW b, NEW p, IsParse(b, p), NEW from \in p.tags
  PROVE  from \in Offsets(b) /\ TagsFrom(b, p, from)
<1>1. p.tags \in SUBSET Offsets(b)
  BY DEF IsParse, Parse
<1> QED  BY <1>1 DEF IsParse

(* What a payload of each type is.                                          *)
LEMMA PayloadKinds ==
  ASSUME NEW b, NEW p, NEW t, NEW from, NEW to, PayloadFrom(b, p, t, from, to)
  PROVE  /\ t \in ScalarTypes => to = from + ScalarSize(t)
         /\ t \in ArrayTypes => /\ from + 4 <= Len(b)
                                /\ to = from + 4 + U32At(b, from) * ElementSize(t)
         /\ t = kTagString => from + 2 <= Len(b) /\ to = from + 2 + U16At(b, from)
         /\ t = kTagList => ListFrom(b, p, from, to)
         /\ t = kTagCompound => CompoundFrom(b, p, from, to)
<1>1. t \in ScalarTypes => t \notin ArrayTypes /\ t # kTagString /\ t # kTagList /\ t # kTagCompound
  BY DEF ScalarTypes, ArrayTypes, kTagByte, kTagDouble, kTagByteArray, kTagIntArray,
         kTagString, kTagList, kTagCompound
<1>2. t \in ArrayTypes => t # kTagString /\ t # kTagList /\ t # kTagCompound
  BY DEF ArrayTypes, kTagByteArray, kTagIntArray, kTagString, kTagList, kTagCompound
<1>3. kTagString # kTagList /\ kTagString # kTagCompound /\ kTagList # kTagCompound
  BY DEF kTagString, kTagList, kTagCompound
<1> QED  BY <1>1, <1>2, <1>3, Zenon DEF PayloadFrom, LeafFrom

-----------------------------------------------------------------------------
(* What the calls have yet to read.  Each of them is in a part of the parse *)
(* and `end` says where that part ends: the loop of frame j, whose tag is x *)
(* and which has read k elements if that is a list, has `from` to `to` left.*)

Remains(b, p, j, x, k, from, to) ==
  IF j = 1 THEN from \in p.tags /\ to = Len(b)
  ELSE IF x.type = kTagCompound THEN <<kTagCompound, from, to>> \in p.payloads
  ELSE <<x.ctype, Len(x.kids) - k, from, to>> \in p.elements

RemainsIn(b, p, s, h, j, k, from, to) == Remains(b, p, j, h[s[j].tag], k, from, to)

(* The innermost call is at `c`; it returns r when that is "return".        *)
TopIn(b, p, s, h, c, r, end) ==
  LET j == Len(s) IN
  /\ c = "loop"   => RemainsIn(b, p, s, h, j, s[j].i, s[j].next, end[j])
  /\ c = "body"   => s[j].i = 0 /\ <<h[s[j].tag].type, s[j].start, end[j]>> \in p.payloads
  /\ c = "return" => end[j] = s[j].start + r

Within(b, p, s, h, c, r, end) ==
  /\ end \in [1 .. Len(s) -> Nat]
  /\ \A j \in 1 .. Len(s) - 1 : RemainsIn(b, p, s, h, j, s[j].i + 1, end[j + 1], end[j])
  /\ TopIn(b, p, s, h, c, r, end)

InDocument(p) ==
  IF pc = "done" THEN result = "true"
  ELSE \E end : Within(buffer, p, stack, heap, pc, ret, end)

AInv == IInv /\ \A p : IsDocument(buffer, p) => InDocument(p)

(* Only this about a tag says what its loop has yet to read.                *)
SameLoop(x, y) ==
  /\ y.type = x.type
  /\ x.type # kTagCompound => y.ctype = x.ctype /\ Len(y.kids) = Len(x.kids)

LEMMA RemainsSame ==
  ASSUME NEW b, NEW p, NEW j, NEW x, NEW y, j = 1 \/ SameLoop(x, y),
         NEW k, NEW from, NEW to, Remains(b, p, j, x, k, from, to)
  PROVE  Remains(b, p, j, y, k, from, to)
BY DEF Remains, SameLoop

(* The innermost call gets to the end of its part. *)
LEMMA WithinReturn ==
  ASSUME NEW b, NEW p, NEW s \in Seq(Frame), NEW h, NEW c, NEW r, NEW end,
         Within(b, p, s, h, c, r, end),
         NEW g, \A j \in 2 .. Len(s) - 1 : SameLoop(h[s[j].tag], g[s[j].tag]),
         NEW n, end[Len(s)] = s[Len(s)].start + n
  PROVE  Within(b, p, s, g, "return", n, end)
<1>1. ASSUME NEW j \in 1 .. Len(s) - 1
      PROVE  RemainsIn(b, p, s, g, j, s[j].i + 1, end[j + 1], end[j])
  <2>1. j = 1 \/ j \in 2 .. Len(s) - 1
    OBVIOUS
  <2>2. RemainsIn(b, p, s, h, j, s[j].i + 1, end[j + 1], end[j])
    BY DEF Within
  <2> QED  BY <2>1, <2>2, RemainsSame DEF RemainsIn
<1> QED  BY <1>1 DEF Within, TopIn

(* It calls the read of a tag, which ends at e.                             *)
LEMMA WithinPush ==
  ASSUME NEW b, NEW p, NEW s \in Seq(Frame), Len(s) > 0, NEW h, NEW c, NEW r, NEW end,
         Within(b, p, s, h, c, r, end),
         NEW g, \A j \in 2 .. Len(s) : SameLoop(h[s[j].tag], g[s[j].tag]),
         NEW f \in Frame, f.i = 0, NEW e \in Nat, <<g[f.tag].type, f.start, e>> \in p.payloads,
         RemainsIn(b, p, s, h, Len(s), s[Len(s)].i + 1, e, end[Len(s)]), NEW n
  PROVE  \E to : Within(b, p, Append(s, f), g, "body", n, to)
<1> DEFINE t == Append(s, f)
           to == [j \in 1 .. Len(s) + 1 |-> IF j <= Len(s) THEN end[j] ELSE e]
<1>1. /\ Len(t) = Len(s) + 1 /\ Len(s) \in Nat
      /\ \A j \in 1 .. Len(s) : t[j] = s[j]
      /\ t[Len(s) + 1] = f
  BY Push
<1>2. end \in [1 .. Len(s) -> Nat]
  BY DEF Within
<1>3. to \in [1 .. Len(t) -> Nat]
  BY <1>1, <1>2
<1>4. /\ \A j \in 1 .. Len(s) : to[j] = end[j]
      /\ to[Len(s) + 1] = e
  BY <1>1
<1> HIDE DEF t, to
<1>5. ASSUME NEW j \in 1 .. Len(t) - 1
      PROVE  RemainsIn(b, p, t, g, j, t[j].i + 1, to[j + 1], to[j])
  <2>1. j \in 1 .. Len(s) /\ t[j] = s[j] /\ to[j] = end[j]
    BY <1>1, <1>4
  <2>2. RemainsIn(b, p, s, h, j, s[j].i + 1, to[j + 1], end[j])
    <3>1. CASE j = Len(s)
      <4>1. to[j + 1] = e
        BY <1>4, <3>1
      <4> QED  BY <3>1, <4>1
    <3>2. CASE j # Len(s)
      <4>1. j \in 1 .. Len(s) - 1 /\ j + 1 \in 1 .. Len(s)
        BY <1>1, <2>1, <3>2
      <4>2. to[j + 1] = end[j + 1]
        BY <1>4, <4>1
      <4> QED  BY <4>1, <4>2 DEF Within
    <3> QED  BY <3>1, <3>2
  <2>3. j = 1 \/ j \in 2 .. Len(s)
    BY <2>1
  <2> QED  BY <2>1, <2>2, <2>3, RemainsSame DEF RemainsIn
<1>6. TopIn(b, p, t, g, "body", n, to)
  BY <1>1, <1>4 DEF TopIn
<1>7. Within(b, p, t, g, "body", n, to)
  BY <1>3, <1>5, <1>6 DEF Within
<1> QED  BY <1>7 DEF t

(* A loop begins or goes on in frame m, which is the innermost from then.   *)
LEMMA WithinLoop ==
  ASSUME NEW b, NEW p, NEW s \in Seq(Frame), NEW h, NEW c, NEW r, NEW end,
         Within(b, p, s, h, c, r, end),
         NEW m \in 1 .. Len(s), NEW t \in Seq(Frame), Len(t) = m,
         \A j \in 1 .. m - 1 : t[j] = s[j],
         NEW g, \A j \in 2 .. m - 1 : SameLoop(h[s[j].tag], g[s[j].tag]),
         RemainsIn(b, p, t, g, m, t[m].i, t[m].next, end[m]), NEW n
  PROVE  \E to : Within(b, p, t, g, "loop", n, to)
<1> DEFINE to == [j \in 1 .. m |-> end[j]]
<1>1. end \in [1 .. Len(s) -> Nat] /\ m \in Nat /\ Len(s) \in Nat
  BY DEF Within
<1>2. to \in [1 .. Len(t) -> Nat] /\ \A j \in 1 .. m : to[j] = end[j]
  <2>1. \A j \in 1 .. m : j \in 1 .. Len(s)
    BY <1>1
  <2> QED  BY <1>1, <2>1
<1> HIDE DEF to
<1>3. ASSUME NEW j \in 1 .. m - 1
      PROVE  RemainsIn(b, p, t, g, j, t[j].i + 1, to[j + 1], to[j])
  <2>1. j \in 1 .. Len(s) - 1 /\ j + 1 \in 1 .. m /\ j \in 1 .. m
    BY <1>1
  <2>2. RemainsIn(b, p, s, h, j, s[j].i + 1, end[j + 1], end[j])
    BY <2>1 DEF Within
  <2>3. t[j] = s[j] /\ to[j + 1] = end[j + 1] /\ to[j] = end[j]
    BY <1>2, <2>1
  <2>4. j = 1 \/ j \in 2 .. m - 1
    BY <1>1
  <2> QED  BY <2>2, <2>3, <2>4, RemainsSame DEF RemainsIn
<1>4. TopIn(b, p, t, g, "loop", n, to)
  <2>1. to[m] = end[m]
    BY <1>1, <1>2
  <2> QED  BY <2>1 DEF TopIn
<1> QED  BY <1>2, <1>3, <1>4 DEF Within

-----------------------------------------------------------------------------
(* A Load of a document goes on until it has read it.                       *)

LEMMA CallersAre ==
  ASSUME IInv, NEW j \in 2 .. Len(stack) - 1
  PROVE  /\ stack[j].tag \in 1 .. Len(heap) /\ heap[stack[j].tag] \in Tag
         /\ heap[stack[j].tag].type # kTagCompound => heap[stack[j].tag].ctype \in TagTypes
<1>1. stack \in Seq(Frame) /\ heap \in Seq(Tag)
  BY DEF IInv, TypeOK
<1>2. j \in 1 .. Len(stack) /\ j > 1 /\ j < Len(stack)
  BY <1>1
<1>3. FrameOK(stack, heap, pc, j)
  BY <1>2 DEF IInv, FramesOK
<1>4. stack[j].tag \in 1 .. Len(heap)
  BY <1>2, <1>3 DEF FrameOK
<1>5. heap[stack[j].tag] \in Tag
  BY <1>1, <1>4, ElementOfSeq
<1> QED  BY <1>2, <1>3, <1>4, <1>5 DEF FrameOK, Entered, Container

LEMMA SameLoopItself == ASSUME NEW x PROVE SameLoop(x, x)
BY DEF SameLoop

LEMMA SameLoopData == ASSUME NEW x \in Tag, NEW d PROVE SameLoop(x, [x EXCEPT !.data = d])
BY DEF SameLoop, Tag

LEMMA SameLoopMap == ASSUME NEW x \in Tag, NEW m PROVE SameLoop(x, [x EXCEPT !.map = m])
BY DEF SameLoop, Tag

(* The top of the stack, in the terms of the actions. *)
LEMMA TopIs ==
  ASSUME IInv, pc # "done", NEW p, NEW end, Within(buffer, p, stack, heap, pc, ret, end)
  PROVE  /\ Depth = Len(stack) /\ Depth \in 1 .. Len(stack) /\ Depth \in Nat
         /\ Top = stack[Len(stack)] /\ Cur = heap[stack[Len(stack)].tag]
         /\ end[Depth] \in Nat
         /\ pc = "loop" => Remains(buffer, p, Depth, Cur, Top.i, Top.next, end[Depth])
         /\ pc = "body" => Top.i = 0 /\ <<Cur.type, Top.start, end[Depth]>> \in p.payloads
         /\ pc = "return" => end[Depth] = Top.start + ret
<1>1. Depth = Len(stack) /\ Depth \in 1 .. Len(stack) /\ Depth \in Nat
  <2>1. Depth \in Nat /\ Depth > 0
    BY RunningFacts
  <2> QED  BY <2>1 DEF Depth
<1>2. Top = stack[Len(stack)] /\ Cur = heap[stack[Len(stack)].tag]
  BY DEF Top, Cur, Depth
<1>3. end[Depth] \in Nat
  BY <1>1 DEF Within
<1>4. TopIn(buffer, p, stack, heap, pc, ret, end)
  BY DEF Within
<1>5. /\ pc = "loop" => Remains(buffer, p, Depth, Cur, Top.i, Top.next, end[Depth])
      /\ pc = "body" => Top.i = 0 /\ <<Cur.type, Top.start, end[Depth]>> \in p.payloads
      /\ pc = "return" => end[Depth] = Top.start + ret
  BY <1>1, <1>2, <1>4 DEF TopIn, RemainsIn
<1> QED  BY <1>1, <1>2, <1>3, <1>5

LEMMA InDocumentNext ==
  ASSUME NEW p, pc' # "done",
         NEW end, Within(buffer', p, stack', heap', pc', ret', end)
  PROVE  InDocument(p)'
BY DEF InDocument

(* Leaves *)

LEMMA ReturnAccepts ==
  ASSUME IInv, pc # "done", NEW p, NEW end, Within(buffer, p, stack, heap, pc, ret, end),
         UNCHANGED <<buffer, stack>>, pc' = "return",
         end[Depth] = Top.start + ret',
         \A j \in 2 .. Len(stack) - 1 : SameLoop(heap[stack[j].tag], heap'[stack[j].tag])
  PROVE  InDocument(p)'
<1>1. stack \in Seq(Frame) /\ Depth = Len(stack) /\ Top = stack[Len(stack)]
  BY TopIs DEF IInv, TypeOK
<1>2. Within(buffer, p, stack, heap', "return", ret', end)
  BY <1>1, WithinReturn
<1>3. Within(buffer', p, stack', heap', pc', ret', end)
  BY <1>2
<1> QED  BY <1>3, InDocumentNext

LEMMA LeafLoops ==
  ASSUME IInv, NEW head, NEW n, ReadLeaf(head, n), NEW j \in 2 .. Len(stack) - 1
  PROVE  SameLoop(heap[stack[j].tag], heap'[stack[j].tag])
<1> DEFINE id == stack[j].tag
           d  == Bytes(buffer, Top.start + head, n)
<1>1. id \in 1 .. Len(heap) /\ heap[id] \in Tag /\ heap \in Seq(Tag)
  BY CallersAre DEF IInv, TypeOK
<1>2. heap' = [heap EXCEPT ![Top.tag].data = d]
  BY DEF ReadLeaf
<1> HIDE DEF id, d
<1>3. heap'[id] = IF id = Top.tag THEN [heap[id] EXCEPT !.data = d] ELSE heap[id]
  <2>1. DOMAIN heap = 1 .. Len(heap)
    BY <1>1, LenProperties
  <2> QED  BY <1>1, <1>2, <2>1
<1>4. SameLoop(heap[id], heap'[id])
  BY <1>1, <1>3, SameLoopData, SameLoopItself
<1> QED  BY <1>4 DEF id

LEMMA LeafAccepts ==
  ASSUME IInv, pc = "body", NEW p, NEW end, Within(buffer, p, stack, heap, pc, ret, end),
         NEW head, NEW n, ReadLeaf(head, n), end[Depth] = Top.start + (head + n)
  PROVE  InDocument(p)'
<1>1. UNCHANGED <<buffer, stack>> /\ pc' = "return" /\ ret' = head + n
  BY DEF ReadLeaf
<1> QED  BY <1>1, LeafLoops, ReturnAccepts

(* The part that a tag's body is. *)
LEMMA BodyPart ==
  ASSUME IInv, pc = "body", NEW p, IsDocument(buffer, p),
         NEW end, Within(buffer, p, stack, heap, pc, ret, end)
  PROVE  /\ PayloadFrom(buffer, p, Cur.type, Top.start, end[Depth])
         /\ end[Depth] <= length /\ end[Depth] \in Nat /\ Top.start \in Nat
         /\ length = Len(buffer) /\ length \in Nat /\ buffer \in Seq(Byte)
         /\ Cur.type \in TagTypes
<1>1. <<Cur.type, Top.start, end[Depth]>> \in p.payloads
  BY TopIs
<1>2. PayloadFrom(buffer, p, Cur.type, Top.start, end[Depth]) /\ end[Depth] \in Offsets(buffer)
      /\ Cur.type \in TagTypes
  BY <1>1, PayloadPart DEF IsDocument
<1>3. Top.start \in Nat /\ length \in Nat /\ length = Len(buffer)
  BY RunningFacts DEF length
<1>4. buffer \in Seq(Byte)
  BY DEF IInv, TypeOK
<1> QED  BY <1>2, <1>3, <1>4 DEF Offsets

LEMMA ReadScalarAccepts ==
  ASSUME IInv, NEW p, IsDocument(buffer, p), NEW end,
         Within(buffer, p, stack, heap, pc, ret, end), ReadScalar
  PROVE  InDocument(p)'
<1>1. pc = "body" /\ Cur.type \in ScalarTypes /\ ReadLeaf(0, ScalarSize(Cur.type))
  BY DEF ReadScalar
<1>2. ScalarSize(Cur.type) \in 1 .. 8
  BY <1>1, ScalarSizes
<1>3. end[Depth] = Top.start + ScalarSize(Cur.type)
  BY <1>1, BodyPart, PayloadKinds
<1>4. end[Depth] = Top.start + (0 + ScalarSize(Cur.type))
  BY <1>2, <1>3
<1> QED  BY <1>1, <1>4, LeafAccepts

LEMMA Sums == \A m, n, k \in Nat : m + n + k = m + (n + k)
OBVIOUS

LEMMA ArrayPart ==
  ASSUME IInv, pc = "body", NEW p, IsDocument(buffer, p), NEW end,
         Within(buffer, p, stack, heap, pc, ret, end), Cur.type \in ArrayTypes
  PROVE  /\ ArrayReadable /\ ArrayBytes \in Nat
         /\ end[Depth] = Top.start + (SizeofU32 + ArrayBytes)
<1>1. Top.start + 4 <= Len(buffer) /\ end[Depth] = Top.start + 4 + ArrayBytes
  BY BodyPart, PayloadKinds DEF ArrayBytes
<1>2. U32At(buffer, Top.start) \in Nat
  BY <1>1, BodyPart, U32Value
<1>3. ArrayBytes \in Nat
  <2>1. ElementSize(Cur.type) \in {1, 4}
    BY DEF ElementSize
  <2> QED  BY <1>2, <2>1 DEF ArrayBytes
<1>4. ArrayReadable
  BY <1>1, BodyPart DEF ArrayReadable
<1>5. Top.start + 4 + ArrayBytes = Top.start + (4 + ArrayBytes)
  BY <1>3, BodyPart
<1> QED  BY <1>1, <1>3, <1>4, <1>5

LEMMA ReadArrayAccepts ==
  ASSUME IInv, NEW p, IsDocument(buffer, p), NEW end,
         Within(buffer, p, stack, heap, pc, ret, end), ReadArray
  PROVE  InDocument(p)'
<1>1. pc = "body" /\ Cur.type \in ArrayTypes /\ ReadLeaf(SizeofU32, ArrayBytes)
  BY DEF ReadArray
<1> QED  BY <1>1, ArrayPart, LeafAccepts

LEMMA StringPart ==
  ASSUME IInv, pc = "body", NEW p, IsDocument(buffer, p), NEW end,
         Within(buffer, p, stack, heap, pc, ret, end), Cur.type = kTagString
  PROVE  /\ StringReadable
         /\ end[Depth] = Top.start + (SizeofU16 + U16At(buffer, Top.start))
<1>1. Top.start + 2 <= Len(buffer) /\ end[Depth] = Top.start + 2 + U16At(buffer, Top.start)
  BY BodyPart, PayloadKinds
<1>2. U16At(buffer, Top.start) \in Nat
  BY <1>1, BodyPart, U16Value
<1>3. StringReadable
  BY <1>1, BodyPart DEF StringReadable
<1>4. Top.start + 2 + U16At(buffer, Top.start) = Top.start + (2 + U16At(buffer, Top.start))
  BY <1>2, BodyPart
<1> QED  BY <1>1, <1>3, <1>4

LEMMA ReadStringAccepts ==
  ASSUME IInv, NEW p, IsDocument(buffer, p), NEW end,
         Within(buffer, p, stack, heap, pc, ret, end), ReadString
  PROVE  InDocument(p)'
<1>1. pc = "body" /\ Cur.type = kTagString /\ ReadLeaf(SizeofU16, U16At(buffer, Top.start))
  BY DEF ReadString, Reading
<1> QED  BY <1>1, StringPart, LeafAccepts

LEMMA LeafNeverFails ==
  ASSUME IInv, NEW p, IsDocument(buffer, p), NEW end,
         Within(buffer, p, stack, heap, pc, ret, end)
  PROVE  ~LeafFails
<1> SUFFICES ASSUME LeafFails PROVE FALSE
  OBVIOUS
<1>1. pc = "body"
  BY DEF LeafFails
<1>2. ~(Cur.type \in ScalarTypes /\ ~ScalarReadable)
  BY <1>1, BodyPart, PayloadKinds DEF ScalarReadable
<1>3. ~(Cur.type \in ArrayTypes /\ ~ArrayReadable)
  BY <1>1, ArrayPart
<1>4. ~(Cur.type = kTagString /\ ~StringReadable)
  BY <1>1, StringPart
<1> QED  BY <1>2, <1>3, <1>4 DEF LeafFails

-----------------------------------------------------------------------------
(* Lists                                                                    *)

LEMMA ListPart ==
  ASSUME IInv, pc = "body", NEW p, IsDocument(buffer, p), NEW end,
         Within(buffer, p, stack, heap, pc, ret, end), Cur.type = kTagList
  PROVE  /\ ListReadable
         /\ ListType = kTagEnd => end[Depth] = Top.start + ListHead
         /\ ListType # kTagEnd =>
              /\ ListLength <= MaxList
              /\ <<ListType, ListLength, Top.start + ListHead, end[Depth]>> \in p.elements
<1>1. ListFrom(buffer, p, Top.start, end[Depth])
  BY BodyPart, PayloadKinds
<1>2. /\ Top.start + 5 <= Len(buffer)
      /\ \/ ListType = kTagEnd /\ ListLength = 1 /\ end[Depth] = Top.start + 5
         \/ /\ ListType \in TagTypes /\ ListLength <= MaxList
            /\ <<ListType, ListLength, Top.start + 5, end[Depth]>> \in p.elements
  BY <1>1 DEF ListFrom, ListType, ListLength
<1>3. \A t \in TagTypes : t # kTagEnd /\ t < kTagMax
  BY DEF TagTypes, kTagEnd, kTagByte, kTagIntArray, kTagMax
<1>4. kTagEnd < kTagMax
  BY DEF kTagEnd, kTagMax
<1>5. length = Len(buffer) /\ ListHead = 5
  BY BodyPart DEF ListHead
<1> QED  BY <1>2, <1>3, <1>4, <1>5 DEF ListReadable

(* A list at its body is none of the callers: they have their child types.  *)
LEMMA ListIsNew ==
  ASSUME IInv, pc = "body", Cur.type = kTagList, NEW j \in 2 .. Len(stack) - 1
  PROVE  stack[j].tag # Top.tag
<1>1. Cur.ctype \notin TagTypes
  BY BodyFacts
<1>2. Cur.type # kTagCompound
  BY DEF kTagList, kTagCompound
<1> QED  BY <1>1, <1>2, CallersAre DEF Cur

LEMMA EndListLoops ==
  ASSUME IInv, ReadEndList, NEW j \in 2 .. Len(stack) - 1
  PROVE  SameLoop(heap[stack[j].tag], heap'[stack[j].tag])
<1> DEFINE id == stack[j].tag
<1>1. pc = "body" /\ Cur.type = kTagList /\ heap' = [heap EXCEPT ![Top.tag].ctype = kTagEnd]
  BY DEF ReadEndList, Reading
<1>2. id # Top.tag /\ id \in 1 .. Len(heap) /\ heap \in Seq(Tag)
  BY <1>1, ListIsNew, CallersAre DEF IInv, TypeOK
<1> HIDE DEF id
<1>3. heap'[id] = heap[id]
  BY <1>1, <1>2
<1>4. SameLoop(heap[id], heap'[id])
  BY <1>3, SameLoopItself
<1> QED  BY <1>4 DEF id

LEMMA ReadEndListAccepts ==
  ASSUME IInv, NEW p, IsDocument(buffer, p), NEW end,
         Within(buffer, p, stack, heap, pc, ret, end), ReadEndList
  PROVE  InDocument(p)'
<1>1. /\ pc = "body" /\ Cur.type = kTagList /\ ListType = kTagEnd
      /\ UNCHANGED <<buffer, stack>> /\ pc' = "return" /\ ret' = ListHead
  BY DEF ReadEndList, Reading
<1>2. end[Depth] = Top.start + ListHead
  BY <1>1, ListPart
<1> QED  BY <1>1, <1>2, EndListLoops, ReturnAccepts

LEMMA LoopAccepts ==
  ASSUME IInv, NEW p, NEW end, Within(buffer, p, stack, heap, pc, ret, end),
         UNCHANGED buffer, pc' = "loop", stack' \in Seq(Frame),
         NEW m \in 1 .. Len(stack), Len(stack') = m,
         \A j \in 1 .. m - 1 : stack'[j] = stack[j],
         \A j \in 2 .. m - 1 : SameLoop(heap[stack[j].tag], heap'[stack[j].tag]),
         RemainsIn(buffer, p, stack', heap', m, stack'[m].i, stack'[m].next, end[m])
  PROVE  InDocument(p)'
<1>1. stack \in Seq(Frame)
  BY DEF IInv, TypeOK
<1>2. PICK to : Within(buffer, p, stack', heap', "loop", ret', to)
  BY <1>1, WithinLoop
<1>3. Within(buffer', p, stack', heap', pc', ret', to)
  BY <1>2
<1> QED  BY <1>3, InDocumentNext

LEMMA EnterListMakes ==
  ASSUME IInv, EnterList
  PROVE  /\ Depth = Len(stack) /\ Depth \in 1 .. Len(stack) /\ Depth \in Nat /\ Depth > 1
         /\ Top = stack[Depth] /\ Top.start \in Nat /\ ListLength \in Nat
         /\ stack' \in Seq(Frame) /\ Len(stack') = Depth
         /\ \A j \in 1 .. Depth - 1 : stack'[j] = stack[j]
         /\ stack'[Depth].tag = Top.tag /\ stack'[Depth].start = Top.start
         /\ stack'[Depth].next = Top.start + 5 /\ stack'[Depth].i = Top.i
         /\ heap'[Top.tag].type = kTagList /\ heap'[Top.tag].ctype = ListType
         /\ Len(heap'[Top.tag].kids) = ListLength
         /\ \A j \in 2 .. Depth - 1 : SameLoop(heap[stack[j].tag], heap'[stack[j].tag])
<1> DEFINE nulls == [j \in 1 .. ListLength |-> Null]
           from  == Top.start + 5
<1>1. /\ pc = "body" /\ Cur.type = kTagList /\ ListReadable /\ ListType # kTagEnd
      /\ stack' = [stack EXCEPT ![Depth].next = from]
      /\ heap' = [heap EXCEPT ![Top.tag].ctype = ListType, ![Top.tag].kids = nulls]
  BY DEF EnterList, Reading, ListHead
<1>2. from \in Nat /\ ListLength \in Nat /\ nulls \in Seq(Nat)
  BY <1>1, ListHeadFacts
<1>3. Len(nulls) = ListLength
  BY <1>2
<1>4. /\ Depth = Len(stack) /\ Depth \in 1 .. Len(stack) /\ Depth \in Nat /\ Depth > 1
      /\ Top = stack[Depth] /\ Top.start \in Nat /\ Top.tag \in 1 .. Len(heap) /\ Cur \in Tag
      /\ heap \in Seq(Tag) /\ stack \in Seq(Frame) /\ Cur = heap[Top.tag]
  <2>1. Depth > 1
    BY <1>1, BodyFacts
  <2>2. Depth \in 1 .. Len(stack) /\ Depth = Len(stack) /\ Depth \in Nat
    BY <1>1, <2>1, RunningFacts DEF Depth
  <2>3. Top = stack[Depth] /\ Cur = heap[Top.tag]
    BY DEF Top, Cur
  <2> QED  BY <1>1, <2>1, <2>2, <2>3, RunningFacts DEF IInv, TypeOK
<1> HIDE DEF nulls, from
<1>5. /\ stack' \in Seq(Frame) /\ Len(stack') = Depth
      /\ \A j \in 1 .. Depth - 1 : stack'[j] = stack[j]
      /\ stack'[Depth].tag = Top.tag /\ stack'[Depth].start = Top.start
      /\ stack'[Depth].next = from /\ stack'[Depth].i = Top.i
  <2>1. /\ stack' \in Seq(Frame) /\ Len(stack') = Len(stack)
        /\ \A m \in 1 .. Len(stack) : m # Depth => stack'[m] = stack[m]
        /\ stack'[Depth].tag = stack[Depth].tag /\ stack'[Depth].start = stack[Depth].start
        /\ stack'[Depth].next = from /\ stack'[Depth].i = stack[Depth].i
    <3>1. /\ stack' = [stack EXCEPT ![Depth].next = from] /\ from \in Nat
          /\ stack \in Seq(Frame) /\ Depth \in 1 .. Len(stack)
      BY <1>1, <1>2, <1>4
    <3> QED  BY <3>1, AdvanceTop
  <2> QED  BY <1>4, <2>1
<1>6. ASSUME NEW j \in 2 .. Depth - 1
      PROVE  SameLoop(heap[stack[j].tag], heap'[stack[j].tag])
  <2> DEFINE id == stack[j].tag
  <2>1. id # Top.tag /\ id \in 1 .. Len(heap)
    BY <1>1, <1>4, ListIsNew, CallersAre
  <2> HIDE DEF id
  <2>2. heap'[id] = heap[id]
    BY <1>1, <1>4, <2>1
  <2>3. SameLoop(heap[id], heap'[id])
    BY <2>2, SameLoopItself
  <2> QED  BY <2>3 DEF id
<1>7. heap'[Top.tag].type = kTagList /\ heap'[Top.tag].ctype = ListType
      /\ heap'[Top.tag].kids = nulls
  <2> DEFINE x == [Cur EXCEPT !.ctype = ListType, !.kids = nulls]
  <2>1. heap' = [heap EXCEPT ![Top.tag] = x]
    BY <1>1, <1>4
  <2>2. x.type = Cur.type /\ x.ctype = ListType /\ x.kids = nulls
    BY <1>4 DEF Tag
  <2> HIDE DEF x
  <2>3. heap'[Top.tag] = x
    BY <1>4, <2>1
  <2> QED  BY <1>1, <2>2, <2>3
<1> QED  BY <1>2, <1>3, <1>4, <1>5, <1>6, <1>7 DEF from

LEMMA EnterListAccepts ==
  ASSUME IInv, NEW p, IsDocument(buffer, p), NEW end,
         Within(buffer, p, stack, heap, pc, ret, end), EnterList
  PROVE  InDocument(p)'
<1>1. /\ pc = "body" /\ Cur.type = kTagList /\ ListType # kTagEnd
      /\ UNCHANGED buffer /\ pc' = "loop"
  BY DEF EnterList, Reading
<1>2. <<ListType, ListLength, Top.start + 5, end[Depth]>> \in p.elements
  BY <1>1, ListPart DEF ListHead
<1>3. Top.i = 0
  BY <1>1, TopIs
<1>4. RemainsIn(buffer, p, stack', heap', Depth, stack'[Depth].i, stack'[Depth].next, end[Depth])
  <2>1. Depth # 1 /\ kTagList # kTagCompound /\ ListLength - 0 = ListLength
    BY EnterListMakes DEF kTagList, kTagCompound
  <2> QED  BY <1>2, <1>3, <2>1, EnterListMakes DEF RemainsIn, Remains
<1> QED  BY <1>1, <1>4, EnterListMakes, LoopAccepts

LEMMA ListNeverFails ==
  ASSUME IInv, NEW p, IsDocument(buffer, p), NEW end,
         Within(buffer, p, stack, heap, pc, ret, end)
  PROVE  ~ListFails /\ ~ResizeThrows
<1>1. ~ListFails
  BY ListPart DEF ListFails, Reading
<1>2. ASSUME ResizeThrows PROVE FALSE
  <2>1. /\ pc = "body" /\ Cur.type = kTagList /\ ListReadable /\ ListType # kTagEnd
        /\ ListLength > MaxList
    BY <1>2 DEF ResizeThrows, Reading
  <2>2. ListLength <= MaxList
    BY <2>1, ListPart
  <2>3. ListLength \in Nat
    BY <2>1, ListHeadFacts
  <2> QED  BY <2>1, <2>2, <2>3, MaxListAssumption
<1> QED  BY <1>1, <1>2

(* What a list has left while elements are missing: one, and the others.    *)
LEMMA NextElement ==
  ASSUME IInv, NEW p, IsDocument(buffer, p), NEW end,
         Within(buffer, p, stack, heap, pc, ret, end),
         Looping(kTagList), Top.i < Len(Cur.kids)
  PROVE  \E next \in Nat :
           /\ Top.next < next /\ next <= length
           /\ <<Cur.ctype, Top.next, next>> \in p.payloads
           /\ Remains(buffer, p, Depth, Cur, Top.i + 1, next, end[Depth])
<1>1. pc = "loop" /\ Depth > 1 /\ Cur.type = kTagList
  BY DEF Looping
<1>2. Top.i \in Nat /\ Cur \in Tag /\ length = Len(buffer) /\ length \in Nat
  BY <1>1, RunningFacts DEF length
<1>3. Len(Cur.kids) \in Nat
  BY <1>2 DEF Tag
<1>4. Depth # 1 /\ Cur.type # kTagCompound
  BY <1>1, RunningFacts DEF kTagList, kTagCompound
<1>5. <<Cur.ctype, Len(Cur.kids) - Top.i, Top.next, end[Depth]>> \in p.elements
  BY <1>1, <1>4, TopIs DEF Remains
<1>6. ElementsFrom(buffer, p, Cur.ctype, Len(Cur.kids) - Top.i, Top.next, end[Depth])
  BY <1>5, ElementsPart DEF IsDocument
<1>7. Len(Cur.kids) - Top.i # 0 /\ Len(Cur.kids) - Top.i - 1 = Len(Cur.kids) - (Top.i + 1)
  BY <1>2, <1>3
<1>8. PICK next \in Offsets(buffer) :
        /\ <<Cur.ctype, Top.next, next>> \in p.payloads
        /\ <<Cur.ctype, Len(Cur.kids) - Top.i - 1, next, end[Depth]>> \in p.elements
  BY <1>6, <1>7 DEF ElementsFrom
<1>9. Top.next < next
  BY <1>8, PayloadPart DEF IsDocument
<1>10. Remains(buffer, p, Depth, Cur, Top.i + 1, next, end[Depth])
  BY <1>4, <1>7, <1>8 DEF Remains
<1>11. next \in Nat /\ next <= length
  BY <1>2, <1>8 DEF Offsets
<1> QED  BY <1>8, <1>9, <1>10, <1>11

LEMMA PushLoops ==
  ASSUME IInv, NEW x, heap' = Append(heap, x), NEW j \in 2 .. Len(stack)
  PROVE  SameLoop(heap[stack[j].tag], heap'[stack[j].tag])
<1>1. heap \in Seq(Tag) /\ stack \in Seq(Frame)
  BY DEF IInv, TypeOK
<1>2. \A id \in 1 .. Len(heap) : heap'[id] = heap[id]
  BY <1>1
<1>3. j \in 1 .. Len(stack) /\ j > 1
  BY <1>1
<1>4. stack[j].tag \in 1 .. Len(heap)
  BY <1>3 DEF IInv, FramesOK, FrameOK
<1> QED  BY <1>2, <1>4, SameLoopItself

(* A tag is added and its body read, up to `next`. *)
LEMMA PushAccepts ==
  ASSUME IInv, pc = "loop", NEW p, NEW end, Within(buffer, p, stack, heap, pc, ret, end),
         UNCHANGED buffer, pc' = "body", NEW x, heap' = Append(heap, x),
         NEW f \in Frame, stack' = Append(stack, f), f.tag = Len(heap) + 1, f.i = 0,
         NEW next \in Nat, <<x.type, f.start, next>> \in p.payloads,
         Remains(buffer, p, Depth, Cur, Top.i + 1, next, end[Depth])
  PROVE  InDocument(p)'
<1>1. /\ stack \in Seq(Frame) /\ heap \in Seq(Tag) /\ Len(heap) \in Nat
      /\ Len(stack) \in Nat /\ Len(stack) > 0
      /\ Depth = Len(stack) /\ Top = stack[Len(stack)] /\ Cur = heap[stack[Len(stack)].tag]
  BY TopIs DEF IInv, TypeOK
<1>2. heap'[f.tag] = x
  BY <1>1
<1>3. RemainsIn(buffer, p, stack, heap, Len(stack), stack[Len(stack)].i + 1, next, end[Len(stack)])
  BY <1>1 DEF RemainsIn
<1>4. PICK to : Within(buffer, p, stack', heap', "body", ret', to)
  <2>1. <<heap'[f.tag].type, f.start, next>> \in p.payloads
    BY <1>2
  <2> QED  BY <1>1, <1>3, <2>1, PushLoops, WithinPush
<1>5. Within(buffer', p, stack', heap', pc', ret', to)
  BY <1>4
<1> QED  BY <1>5, InDocumentNext

LEMMA ReadElementAccepts ==
  ASSUME IInv, NEW p, IsDocument(buffer, p), NEW end,
         Within(buffer, p, stack, heap, pc, ret, end), ReadElement
  PROVE  InDocument(p)'
<1> DEFINE x == NewTag(Cur.ctype)
           f == NewFrame(Len(heap) + 1, 0, Top.next)
<1>1. /\ Looping(kTagList) /\ Top.i < Len(Cur.kids) /\ pc = "loop" /\ Depth > 1
      /\ Cur.type = kTagList /\ UNCHANGED buffer /\ pc' = "body"
      /\ heap' = Append(heap, x) /\ stack' = Append(stack, f)
  BY DEF ReadElement, Looping
<1>2. PICK next \in Nat :
        /\ <<Cur.ctype, Top.next, next>> \in p.payloads
        /\ Remains(buffer, p, Depth, Cur, Top.i + 1, next, end[Depth])
  BY <1>1, NextElement
<1>3. x.type = Cur.ctype
  BY <1>1, RunningFacts, NewTagType
<1>4. f \in Frame /\ f.tag = Len(heap) + 1 /\ f.start = Top.next /\ f.i = 0
  <2>1. Len(heap) + 1 \in Nat /\ Top.next \in Nat
    BY <1>1, RunningFacts
  <2> QED  BY <2>1 DEF NewFrame, Frame
<1> HIDE DEF x, f
<1> QED  BY <1>1, <1>2, <1>3, <1>4, PushAccepts

LEMMA ElementNeverFails ==
  ASSUME IInv, NEW p, IsDocument(buffer, p), NEW end,
         Within(buffer, p, stack, heap, pc, ret, end)
  PROVE  ~ElementFails
<1> SUFFICES ASSUME ElementFails PROVE FALSE
  OBVIOUS
<1>1. Looping(kTagList) /\ Top.i < Len(Cur.kids) /\ Top.next >= length /\ pc = "loop"
  BY DEF ElementFails, Looping
<1>2. PICK next \in Nat : Top.next < next /\ next <= length
  BY <1>1, NextElement
<1>3. Top.next \in Nat /\ length \in Nat
  BY <1>1, RunningFacts
<1> QED  BY <1>1, <1>2, <1>3

LEMMA FinishListAccepts ==
  ASSUME IInv, NEW p, IsDocument(buffer, p), NEW end,
         Within(buffer, p, stack, heap, pc, ret, end), FinishList
  PROVE  InDocument(p)'
<1>1. /\ pc = "loop" /\ Depth > 1 /\ Cur.type = kTagList /\ Top.i = Len(Cur.kids)
      /\ UNCHANGED <<buffer, stack, heap>> /\ pc' = "return"
      /\ ret' = Top.next - Top.start
  BY DEF FinishList, Looping
<1>2. Depth # 1 /\ Cur.type # kTagCompound
  BY <1>1, RunningFacts DEF kTagList, kTagCompound
<1>3. Top.i \in Nat /\ Top.next \in Nat /\ Top.start \in Nat
  BY <1>1, RunningFacts
<1>4. <<Cur.ctype, Len(Cur.kids) - Top.i, Top.next, end[Depth]>> \in p.elements
  BY <1>1, <1>2, TopIs DEF Remains
<1>5. ElementsFrom(buffer, p, Cur.ctype, Len(Cur.kids) - Top.i, Top.next, end[Depth])
  BY <1>4, ElementsPart DEF IsDocument
<1>6. Len(Cur.kids) - Top.i = 0
  BY <1>1, <1>3
<1>7. end[Depth] = Top.next
  BY <1>5, <1>6 DEF ElementsFrom
<1>8. end[Depth] = Top.start + ret'
  BY <1>1, <1>3, <1>7
<1> QED  BY <1>1, <1>8, SameLoopItself, ReturnAccepts

-----------------------------------------------------------------------------
(* Compounds and Load                                                       *)

LEMMA CompoundEnds ==
  ASSUME IInv, NEW p, IsDocument(buffer, p), NEW end,
         Within(buffer, p, stack, heap, pc, ret, end), AtCompoundEnd
  PROVE  end[Depth] = Top.next + SizeofTagType
<1>1. pc = "loop" /\ Depth > 1 /\ Cur.type = kTagCompound /\ At(buffer, Top.next) = kTagEnd
  BY DEF AtCompoundEnd, Looping
<1>2. Depth # 1
  BY <1>1, RunningFacts
<1>3. <<kTagCompound, Top.next, end[Depth]>> \in p.payloads
  BY <1>1, <1>2, TopIs DEF Remains
<1>4. CompoundFrom(buffer, p, Top.next, end[Depth])
  BY <1>3, PayloadPart, PayloadKinds DEF IsDocument
<1>5. kTagEnd \notin TagTypes
  BY DEF TagTypes, kTagEnd, kTagByte, kTagIntArray
<1> QED  BY <1>1, <1>4, <1>5 DEF CompoundFrom, TagFrom

LEMMA FinishCompoundAccepts ==
  ASSUME IInv, NEW p, IsDocument(buffer, p), NEW end,
         Within(buffer, p, stack, heap, pc, ret, end), FinishCompound
  PROVE  InDocument(p)'
<1>1. /\ pc = "loop" /\ AtCompoundEnd /\ UNCHANGED <<buffer, stack, heap>> /\ pc' = "return"
      /\ ret' = Top.next + SizeofTagType - Top.start
  BY DEF FinishCompound, AtCompoundEnd, Looping
<1>2. Top.next \in Nat /\ Top.start \in Nat
  BY <1>1, RunningFacts
<1>3. end[Depth] = Top.start + ret'
  <2>1. end[Depth] = Top.next + SizeofTagType
    BY <1>1, CompoundEnds
  <2> QED  BY <1>1, <1>2, <2>1
<1> QED  BY <1>1, <1>3, SameLoopItself, ReturnAccepts

LEMMA EnterCompoundAccepts ==
  ASSUME IInv, NEW p, IsDocument(buffer, p), NEW end,
         Within(buffer, p, stack, heap, pc, ret, end), EnterCompound
  PROVE  InDocument(p)'
<1>1. pc = "body" /\ Cur.type = kTagCompound /\ UNCHANGED <<buffer, stack, heap>> /\ pc' = "loop"
  BY DEF EnterCompound, Reading
<1>2. /\ Depth = Len(stack) /\ Depth \in 1 .. Len(stack) /\ Depth \in Nat /\ Depth > 1
      /\ Top = stack[Depth] /\ Cur = heap[stack[Depth].tag] /\ Top.next = Top.start
      /\ stack \in Seq(Frame)
  BY <1>1, TopIs, BodyFacts
<1>3. <<kTagCompound, Top.next, end[Depth]>> \in p.payloads
  BY <1>1, <1>2, TopIs
<1>4. RemainsIn(buffer, p, stack', heap', Depth, stack'[Depth].i, stack'[Depth].next, end[Depth])
  BY <1>1, <1>2, <1>3 DEF RemainsIn, Remains
<1> QED  BY <1>1, <1>2, <1>4, SameLoopItself, LoopAccepts

(* What is next is a tag, in a compound that does not end and in Load.      *)
LEMMA NextTag ==
  ASSUME IInv, NEW p, IsDocument(buffer, p), NEW end,
         Within(buffer, p, stack, heap, pc, ret, end), AtHeader, ~AtCompoundEnd
  PROVE  /\ HeaderReadable
         /\ \E next \in Nat :
              /\ <<At(buffer, Top.next), Top.next + 3 + NameLength, next>> \in p.payloads
              /\ Remains(buffer, p, Depth, Cur, Top.i + 1, next, end[Depth])
<1>1. /\ pc = "loop" /\ buffer \in Seq(Byte) /\ length = Len(buffer)
      /\ Top.next \in Nat /\ length \in Nat /\ Depth \in Nat
      /\ Remains(buffer, p, Depth, Cur, Top.i, Top.next, end[Depth])
  <2>1. pc = "loop"
    BY DEF AtHeader, Looping
  <2> QED  BY <2>1, TopIs, RunningFacts DEF IInv, TypeOK, length
<1>2. PICK next \in Nat :
        /\ TagFrom(buffer, p, Top.next, next)
        /\ Remains(buffer, p, Depth, Cur, Top.i + 1, next, end[Depth])
  <2>1. CASE InLoad /\ Top.next < length
    <3>1. Depth = 1
      BY <2>1 DEF InLoad
    <3>2. Top.next \in p.tags /\ end[Depth] = Len(buffer)
      BY <1>1, <3>1 DEF Remains
    <3>3. TagsFrom(buffer, p, Top.next)
      BY <3>2, TagsPart DEF IsDocument
    <3>4. Top.next # Len(buffer)
      BY <1>1, <2>1
    <3>5. PICK next \in p.tags : TagFrom(buffer, p, Top.next, next)
      BY <3>3, <3>4 DEF TagsFrom
    <3>6. next \in Nat
      BY <1>1, <3>5, TagsPart DEF IsDocument, Offsets
    <3>7. Remains(buffer, p, Depth, Cur, Top.i + 1, next, end[Depth])
      BY <3>1, <3>2, <3>5 DEF Remains
    <3> QED  BY <3>5, <3>6, <3>7
  <2>2. CASE Looping(kTagCompound)
    <3>1. Depth # 1 /\ Cur.type = kTagCompound
      BY <1>1, <2>2 DEF Looping
    <3>2. <<kTagCompound, Top.next, end[Depth]>> \in p.payloads
      BY <1>1, <3>1 DEF Remains
    <3>3. CompoundFrom(buffer, p, Top.next, end[Depth])
      BY <3>2, PayloadPart, PayloadKinds DEF IsDocument
    <3>4. ~(Top.next < Len(buffer) /\ At(buffer, Top.next) = kTagEnd)
      BY <1>1, <2>2 DEF AtCompoundEnd, TypeReadable
    <3>5. PICK next \in Offsets(buffer) :
            /\ TagFrom(buffer, p, Top.next, next)
            /\ <<kTagCompound, next, end[Depth]>> \in p.payloads
      BY <3>3, <3>4 DEF CompoundFrom
    <3>6. next \in Nat
      BY <1>1, <3>5 DEF Offsets
    <3>7. Remains(buffer, p, Depth, Cur, Top.i + 1, next, end[Depth])
      BY <3>1, <3>5 DEF Remains
    <3> QED  BY <3>5, <3>6, <3>7
  <2> QED  BY <2>1, <2>2 DEF AtHeader
<1>3. /\ Top.next + 3 <= length /\ At(buffer, Top.next) \in TagTypes
      /\ NameLength = U16At(buffer, Top.next + 1)
      /\ <<At(buffer, Top.next), Top.next + 3 + NameLength, next>> \in p.payloads
  BY <1>1, <1>2 DEF TagFrom, NameLength
<1>4. NameLength \in Nat
  <2>1. Top.next + 1 \in Nat /\ Top.next + 1 + 2 <= Len(buffer)
    BY <1>1, <1>3
  <2> QED  BY <1>1, <1>3, <2>1, U16Value
<1>5. Top.next + 3 + NameLength <= length
  <2>1. Top.next + 3 + NameLength \in Offsets(buffer)
    BY <1>3, PayloadPart DEF IsDocument
  <2> QED  BY <1>1, <2>1 DEF Offsets
<1>6. TypeReadable /\ NameReadable
  <2>1. Top.next + 1 <= length /\ (Top.next + 1) + 2 <= length
    BY <1>1, <1>3
  <2>2. NameLength <= length - (Top.next + 1) - 1
    BY <1>1, <1>4, <1>5
  <2> QED  BY <2>1, <2>2 DEF TypeReadable, NameReadable
<1> QED  BY <1>2, <1>3, <1>6 DEF HeaderReadable

LEMMA HeaderNeverFails ==
  ASSUME IInv, NEW p, IsDocument(buffer, p), NEW end,
         Within(buffer, p, stack, heap, pc, ret, end)
  PROVE  ~HeaderFails
BY NextTag DEF HeaderFails

LEMMA ReadHeaderAccepts ==
  ASSUME IInv, NEW p, IsDocument(buffer, p), NEW end,
         Within(buffer, p, stack, heap, pc, ret, end), ReadHeader
  PROVE  InDocument(p)'
<1> DEFINE head == SizeofTagType + SizeofU16 + NameLength
           x == [NewTag(At(buffer, Top.next)) EXCEPT
                   !.name = Bytes(Append(buffer, Beyond),
                                  Top.next + SizeofTagType + SizeofU16, NameLength)]
           f == NewFrame(Len(heap) + 1, head, Top.next + head)
<1>1. /\ pc = "loop" /\ AtHeader /\ HeaderReadable /\ UNCHANGED buffer /\ pc' = "body"
      /\ heap' = Append(heap, x) /\ stack' = Append(stack, f)
  BY DEF ReadHeader, AtHeader, Looping
<1>2. At(buffer, Top.next) \in TagTypes /\ ~AtCompoundEnd
  <2>1. kTagEnd \notin TagTypes
    BY DEF TagTypes, kTagEnd, kTagByte, kTagIntArray
  <2> QED  BY <1>1, <2>1 DEF HeaderReadable, AtCompoundEnd
<1>3. PICK next \in Nat :
        /\ <<At(buffer, Top.next), Top.next + 3 + NameLength, next>> \in p.payloads
        /\ Remains(buffer, p, Depth, Cur, Top.i + 1, next, end[Depth])
  BY <1>1, <1>2, NextTag
<1>4. NameLength \in Nat /\ f \in Frame /\ f.tag = Len(heap) + 1 /\ f.start = Top.next + head
  BY HeaderMakes, Zenon
<1>5. f.i = 0
  BY DEF NewFrame
<1>6. x.type = At(buffer, Top.next)
  BY DEF NewTag
<1>7. f.start = Top.next + 3 + NameLength
  <2>1. Top.next \in Nat
    BY <1>1, RunningFacts
  <2>2. f.start = Top.next + (1 + 2 + NameLength)
    BY <1>4
  <2>3. \A m, n \in Nat : m + (1 + 2 + n) = m + 3 + n
    OBVIOUS
  <2> QED  BY <1>4, <2>1, <2>2, <2>3
<1> HIDE DEF x, f
<1>8. <<x.type, f.start, next>> \in p.payloads
  BY <1>3, <1>6, <1>7
<1> QED  BY <1>1, <1>3, <1>4, <1>5, <1>8, PushAccepts

(* A call has returned; its caller goes on behind it.                       *)
LEMMA ReturnPart ==
  ASSUME IInv, NEW p, NEW end, Within(buffer, p, stack, heap, pc, ret, end),
         NEW i \in Nat, Resume(i),
         \A id \in 1 .. Len(heap) : SameLoop(heap[id], heap'[id]),
         Depth = 2 \/ IsCompound(Caller.tag) \/ i = Caller.i + 1
  PROVE  InDocument(p)'
<1> DEFINE n == Depth - 1
<1>1. pc = "return" /\ UNCHANGED buffer /\ pc' = "loop"
  BY DEF Resume
<1>2. /\ n \in 1 .. Len(stack) /\ n < Len(stack) /\ n \in Nat /\ n + 1 = Depth
      /\ stack' \in Seq(Frame) /\ Len(stack') = n
      /\ \A m \in 1 .. n - 1 : stack'[m] = stack[m]
      /\ stack'[n].tag = stack[n].tag /\ stack'[n].i = i
      /\ stack'[n].next = consumed /\ Caller = stack[n] /\ Depth = Len(stack)
  <2>1. Depth \in Nat /\ Depth = Len(stack)
    BY <1>1, TopIs
  <2>2. n + 1 = Depth
    BY <2>1
  <2> QED  BY <2>1, <2>2, ResumeMakes DEF Caller
<1>3. end[n + 1] = consumed
  BY <1>1, <1>2, TopIs, ReturnFacts
<1>4. n \in 1 .. Len(stack) - 1
  BY <1>2
<1> HIDE DEF n
<1>5. RemainsIn(buffer, p, stack, heap, n, stack[n].i + 1, consumed, end[n])
  BY <1>3, <1>4 DEF Within
<1>6. Remains(buffer, p, n, heap[stack[n].tag], i, consumed, end[n])
  <2>1. CASE Depth = 2
    <3>1. n = 1
      BY <1>2, <2>1
    <3> QED  BY <1>5, <3>1 DEF RemainsIn, Remains
  <2>2. CASE IsCompound(Caller.tag)
    <3>1. heap[stack[n].tag].type = kTagCompound
      BY <1>2, <2>2 DEF IsCompound
    <3> QED  BY <1>5, <3>1 DEF RemainsIn, Remains
  <2>3. CASE i = Caller.i + 1
    <3>1. i = stack[n].i + 1
      BY <1>2, <2>3
    <3> QED  BY <1>5, <3>1 DEF RemainsIn
  <2> QED  BY <2>1, <2>2, <2>3
<1>7. ASSUME NEW j \in 2 .. n
      PROVE  SameLoop(heap[stack[j].tag], heap'[stack[j].tag])
  <2>1. j \in 2 .. Len(stack) - 1
    BY <1>2, <1>4
  <2> QED  BY <2>1, CallersAre
<1>8. RemainsIn(buffer, p, stack', heap', n, stack'[n].i, stack'[n].next, end[n])
  <2>1. n = 1 \/ n \in 2 .. n
    BY <1>2
  <2>2. n = 1 \/ SameLoop(heap[stack[n].tag], heap'[stack[n].tag])
    BY <1>7, <2>1
  <2>3. Remains(buffer, p, n, heap'[stack[n].tag], i, consumed, end[n])
    BY <1>6, <2>2, RemainsSame
  <2> QED  BY <1>2, <2>3 DEF RemainsIn
<1>9. \A j \in 2 .. n - 1 : SameLoop(heap[stack[j].tag], heap'[stack[j].tag])
  <2>1. \A j \in 2 .. n - 1 : j \in 2 .. n
    BY <1>2
  <2> QED  BY <1>7, <2>1
<1> QED  BY <1>1, <1>2, <1>8, <1>9, LoopAccepts

(* The caller's loop is the same one, whatever tag it was handed.           *)
LEMMA CompoundLoops ==
  ASSUME IInv, ReturnToCompound, NEW id \in 1 .. Len(heap)
  PROVE  SameLoop(heap[id], heap'[id])
<1> DEFINE m == Put(heap[Caller.tag].map, Cur.name, Top.tag)
           c == Caller.tag
<1>1. pc = "return" /\ Depth > 2 /\ heap' = [heap EXCEPT ![c].map = Put(@, Cur.name, Top.tag)]
  BY DEF ReturnToCompound, Resume
<1>2. heap' = [heap EXCEPT ![c] = [heap[c] EXCEPT !.map = m]]
  BY <1>1
<1>3. heap \in Seq(Tag) /\ c \in 1 .. Len(heap) /\ heap[id] \in Tag
  BY <1>1, ReturnFacts, ElementOfSeq
<1> HIDE DEF m, c
<1>4. heap'[id] = IF id = c THEN [heap[c] EXCEPT !.map = m] ELSE heap[id]
  BY <1>2, <1>3
<1>5. CASE id = c
  <2>1. heap'[id] = [heap[id] EXCEPT !.map = m]
    BY <1>4, <1>5
  <2> QED  BY <1>3, <2>1, SameLoopMap
<1>6. CASE id # c
  BY <1>4, <1>6, SameLoopItself
<1> QED  BY <1>5, <1>6

LEMMA ListLoops ==
  ASSUME IInv, ReturnToList, NEW id \in 1 .. Len(heap)
  PROVE  SameLoop(heap[id], heap'[id])
<1> DEFINE c == Caller.tag
           i == Caller.i + 1
           k == [heap[c].kids EXCEPT ![i] = Top.tag]
<1>1. pc = "return" /\ Depth > 2 /\ heap' = [heap EXCEPT ![c].kids[i] = Top.tag]
  BY DEF ReturnToList, Resume
<1>2. heap' = [heap EXCEPT ![c] = [heap[c] EXCEPT !.kids = k]]
  BY <1>1
<1>3. /\ heap \in Seq(Tag) /\ c \in 1 .. Len(heap) /\ heap[id] \in Tag /\ heap[c] \in Tag
      /\ Top.tag \in Nat
  BY <1>1, ReturnFacts, ElementOfSeq
<1>4. heap[c].kids \in Seq(Nat)
  BY <1>3 DEF Tag
<1>5. Len(k) = Len(heap[c].kids)
  <2>1. CASE i \in 1 .. Len(heap[c].kids)
    BY <1>3, <1>4, <2>1, ExceptSeq
  <2>2. CASE i \notin 1 .. Len(heap[c].kids)
    <3>1. DOMAIN heap[c].kids = 1 .. Len(heap[c].kids)
          /\ heap[c].kids = [x \in DOMAIN heap[c].kids |-> heap[c].kids[x]]
      BY <1>4, LenProperties
    <3>2. k = heap[c].kids
      BY <2>2, <3>1
    <3> QED  BY <3>2
  <2> QED  BY <2>1, <2>2
<1> HIDE DEF c, i, k
<1>6. heap'[id] = IF id = c THEN [heap[c] EXCEPT !.kids = k] ELSE heap[id]
  BY <1>2, <1>3
<1>7. SameLoop(heap[c], [heap[c] EXCEPT !.kids = k])
  BY <1>3, <1>5 DEF SameLoop, Tag
<1> QED  BY <1>6, <1>7, SameLoopItself

LEMMA ReturnToLoadAccepts ==
  ASSUME IInv, NEW p, NEW end, Within(buffer, p, stack, heap, pc, ret, end), ReturnToLoad
  PROVE  InDocument(p)'
<1>1. pc = "return" /\ Resume(Caller.i) /\ heap' = heap /\ Depth = 2
  BY DEF ReturnToLoad, Resume
<1>2. Caller.i \in Nat
  BY <1>1, ReturnFacts
<1>3. \A id \in 1 .. Len(heap) : SameLoop(heap[id], heap'[id])
  BY <1>1, SameLoopItself
<1> QED  BY <1>1, <1>2, <1>3, ReturnPart

LEMMA ReturnToCompoundAccepts ==
  ASSUME IInv, NEW p, NEW end, Within(buffer, p, stack, heap, pc, ret, end), ReturnToCompound
  PROVE  InDocument(p)'
<1>1. pc = "return" /\ Resume(Caller.i) /\ IsCompound(Caller.tag)
  BY DEF ReturnToCompound, Resume
<1>2. Caller.i \in Nat
  BY <1>1, ReturnFacts
<1> QED  BY <1>1, <1>2, CompoundLoops, ReturnPart

LEMMA ReturnToListAccepts ==
  ASSUME IInv, NEW p, NEW end, Within(buffer, p, stack, heap, pc, ret, end), ReturnToList
  PROVE  InDocument(p)'
<1>1. pc = "return" /\ Resume(Caller.i + 1)
  BY DEF ReturnToList, Resume
<1>2. Caller.i \in Nat
  BY <1>1, ReturnFacts
<1>3. Caller.i + 1 \in Nat
  BY <1>2
<1> QED  BY <1>1, <1>3, ListLoops, ReturnPart

LEMMA LoadAccepts ==
  ASSUME Load, NEW p, IsDocument(buffer', p)
  PROVE  InDocument(p)'
<1> DEFINE f   == NewFrame(Null, 0, 0)
           end == [j \in 1 .. 1 |-> Len(buffer')]
<1>1. stack' = <<f>> /\ pc' = "loop" /\ buffer' \in Seq(Byte)
  BY BuffersAssumption DEF Load, LoadFrom
<1>2. Len(stack') = 1 /\ stack'[1] = f /\ f.next = 0
  BY <1>1 DEF NewFrame
<1>3. end \in [1 .. Len(stack') -> Nat] /\ end[1] = Len(buffer')
  BY <1>1, <1>2
<1> HIDE DEF f, end
<1>4. RemainsIn(buffer', p, stack', heap', 1, stack'[1].i, stack'[1].next, end[1])
  BY <1>2, <1>3 DEF IsDocument, RemainsIn, Remains
<1>5. TopIn(buffer', p, stack', heap', pc', ret', end)
  BY <1>1, <1>2, <1>4 DEF TopIn
<1>6. Within(buffer', p, stack', heap', pc', ret', end)
  <2>1. 1 .. Len(stack') - 1 = {}
    BY <1>2
  <2> QED  BY <1>3, <1>5, <2>1 DEF Within
<1> QED  BY <1>1, <1>6, InDocumentNext

-----------------------------------------------------------------------------

LEMMA StepAccepts ==
  ASSUME AInv, ReadStep, NEW p, IsDocument(buffer, p)
  PROVE  InDocument(p)'
<1>1. IInv /\ InDocument(p)
  BY DEF AInv
<1>2. CASE LoadReturns
  BY <1>2 DEF LoadReturns, InDocument
<1>3. pc # "done"
  <2>1. pc \in {"loop", "body", "return"}
    BY DEF ReadStep, LoadReturns, ReadHeader, HeaderFails, AtHeader, Looping, ReadScalar,
           ReadArray, ReadString, LeafFails, ReadEndList, EnterList, ResizeThrows,
           ListFails, Reading, ReadElement, ElementFails, FinishList, EnterCompound,
           FinishCompound, AtCompoundEnd, ReturnToLoad, ReturnToCompound, ReturnToList,
           Resume
  <2> QED  BY <2>1
<1>4. PICK end : Within(buffer, p, stack, heap, pc, ret, end)
  BY <1>1, <1>3 DEF InDocument
<1>5. ~HeaderFails /\ ~LeafFails /\ ~ListFails /\ ~ResizeThrows /\ ~ElementFails
  BY <1>1, <1>4, HeaderNeverFails, LeafNeverFails, ListNeverFails, ElementNeverFails
<1>6. CASE ReadHeader        BY <1>1, <1>4, <1>6, ReadHeaderAccepts
<1>7. CASE ReadScalar        BY <1>1, <1>4, <1>7, ReadScalarAccepts
<1>8. CASE ReadArray         BY <1>1, <1>4, <1>8, ReadArrayAccepts
<1>9. CASE ReadString        BY <1>1, <1>4, <1>9, ReadStringAccepts
<1>10. CASE ReadEndList      BY <1>1, <1>4, <1>10, ReadEndListAccepts
<1>11. CASE EnterList        BY <1>1, <1>4, <1>11, EnterListAccepts
<1>12. CASE ReadElement      BY <1>1, <1>4, <1>12, ReadElementAccepts
<1>13. CASE FinishList       BY <1>1, <1>4, <1>13, FinishListAccepts
<1>14. CASE EnterCompound    BY <1>1, <1>4, <1>14, EnterCompoundAccepts
<1>15. CASE FinishCompound   BY <1>1, <1>4, <1>15, FinishCompoundAccepts
<1>16. CASE ReturnToLoad     BY <1>1, <1>4, <1>16, ReturnToLoadAccepts
<1>17. CASE ReturnToCompound BY <1>1, <1>4, <1>17, ReturnToCompoundAccepts
<1>18. CASE ReturnToList     BY <1>1, <1>4, <1>18, ReturnToListAccepts
<1> QED
  BY <1>2, <1>5, <1>6, <1>7, <1>8, <1>9, <1>10, <1>11, <1>12, <1>13, <1>14, <1>15,
     <1>16, <1>17, <1>18, Zenon DEF ReadStep

LEMMA ReadStepBuffer == ASSUME ReadStep PROVE UNCHANGED buffer
BY DEF ReadStep, LoadReturns, ReadHeader, HeaderFails, Fail, Abort, ReadLeaf, ReadScalar,
       ReadArray, ReadString, LeafFails, ReadEndList, EnterList, ResizeThrows, ListFails,
       ReadElement, ElementFails, FinishList, EnterCompound, FinishCompound,
       ReturnToLoad, ReturnToCompound, ReturnToList, Resume

LEMMA NextAccepts == ASSUME AInv, [Next]_vars PROVE AInv'
<1>1. IInv'
  BY NextKeeps DEF AInv
<1>2. ASSUME NEW p, IsDocument(buffer', p) PROVE InDocument(p)'
  <2>1. CASE Load
    BY <1>2, <2>1, LoadAccepts
  <2>2. CASE ReadStep
    <3>1. IsDocument(buffer, p)
      BY <1>2, <2>2, ReadStepBuffer
    <3> QED  BY <2>2, <3>1, StepAccepts
  <2>3. CASE UNCHANGED vars
    <3>1. IsDocument(buffer, p)
      BY <1>2, <2>3 DEF vars
    <3>2. InDocument(p)
      BY <3>1 DEF AInv
    <3> QED  BY <2>3, <3>2 DEF vars, InDocument
  <2> QED  BY <2>1, <2>2, <2>3 DEF Next
<1> QED  BY <1>1, <1>2 DEF AInv

(* Load turns no document down: whatever ParseOf takes the parts of a       *)
(* buffer to be, if that makes the whole of it a sequence of tags by the    *)
(* grammar, with lists that memory has room for, then no bound check of any *)
(* ReadBodyFromBuffer, ReadNextTag or ReadNameFromBuffer fails on it, no    *)
(* matter how deep, and Load returns true.                                  *)
THEOREM Accepts == Spec => []DocumentsAccepted
<1>1. Init => AInv
  BY InitKeeps DEF AInv, InDocument, Init
<1>2. AInv /\ [Next]_vars => AInv'
  BY NextAccepts
<1>3. AInv => DocumentsAccepted
  BY DEF AInv, InDocument, DocumentsAccepted
<1> QED  BY <1>1, <1>2, <1>3, PTL DEF Spec

-----------------------------------------------------------------------------
(* What the calls have read so far is in a parse that grows with them.      *)

Wider(p, q) == p.payloads \subseteq q.payloads /\ p.elements \subseteq q.elements

LEMMA WiderItself == ASSUME NEW p PROVE Wider(p, p)
BY DEF Wider

LEMMA WiderTag ==
  ASSUME NEW b, NEW p, NEW q, Wider(p, q), NEW from, NEW to, TagFrom(b, p, from, to)
  PROVE  TagFrom(b, q, from, to)
BY DEF Wider, TagFrom

LEMMA WiderPayload ==
  ASSUME NEW b, NEW p, NEW q, Wider(p, q), NEW t, NEW from, NEW to,
         PayloadFrom(b, p, t, from, to)
  PROVE  PayloadFrom(b, q, t, from, to)
<1>1. ListFrom(b, p, from, to) => ListFrom(b, q, from, to)
  BY DEF Wider, ListFrom
<1>2. ASSUME CompoundFrom(b, p, from, to) PROVE CompoundFrom(b, q, from, to)
  <2>1. CASE \E next \in Offsets(b) : /\ TagFrom(b, p, from, next)
                                     /\ <<kTagCompound, next, to>> \in p.payloads
    <3>1. PICK next \in Offsets(b) : /\ TagFrom(b, p, from, next)
                                     /\ <<kTagCompound, next, to>> \in p.payloads
      BY <2>1
    <3>2. TagFrom(b, q, from, next) /\ <<kTagCompound, next, to>> \in q.payloads
      BY <3>1, WiderTag DEF Wider
    <3> QED  BY <3>2 DEF CompoundFrom
  <2> QED  BY <1>2, <2>1 DEF CompoundFrom
<1> QED  BY <1>1, <1>2 DEF PayloadFrom

LEMMA WiderElements ==
  ASSUME NEW b, NEW p, NEW q, Wider(p, q), NEW t, NEW n, NEW from, NEW to,
         ElementsFrom(b, p, t, n, from, to)
  PROVE  ElementsFrom(b, q, t, n, from, to)
<1>1. CASE n = 0
  BY <1>1 DEF ElementsFrom
<1>2. CASE n # 0
  <2>1. PICK next \in Offsets(b) : /\ <<t, from, next>> \in p.payloads
                                   /\ <<t, n - 1, next, to>> \in p.elements
    BY <1>2 DEF ElementsFrom
  <2>2. <<t, from, next>> \in q.payloads /\ <<t, n - 1, next, to>> \in q.elements
    BY <2>1 DEF Wider
  <2> QED  BY <1>2, <2>2 DEF ElementsFrom
<1> QED  BY <1>1, <1>2

(* A parse with no claim about whole tags yet, and one with more parts.     *)
Partial(b, p) == IsParse(b, p) /\ p.tags = {}

With(p, A, B) == [payloads |-> p.payloads \cup A, elements |-> p.elements \cup B, tags |-> {}]

LEMMA PartialGrows ==
  ASSUME NEW b, NEW p, Partial(b, p),
         NEW A \in SUBSET (TagTypes \X Offsets(b) \X Offsets(b)),
         NEW B \in SUBSET (TagTypes \X Nat \X Offsets(b) \X Offsets(b)),
         \A e \in A : e[2] < e[3] /\ PayloadFrom(b, With(p, A, B), e[1], e[2], e[3]),
         \A e \in B : ElementsFrom(b, With(p, A, B), e[1], e[2], e[3], e[4])
  PROVE  Partial(b, With(p, A, B)) /\ Wider(p, With(p, A, B))
<1> DEFINE q == With(p, A, B)
<1>1. q.payloads = p.payloads \cup A /\ q.elements = p.elements \cup B /\ q.tags = {}
  BY DEF With
<1>2. Wider(p, q)
  BY <1>1 DEF Wider
<1>3. q \in Parse(b)
  BY DEF With, Partial, IsParse, Parse
<1> HIDE DEF q
<1>4. ASSUME NEW e \in q.payloads
      PROVE  e[2] < e[3] /\ PayloadFrom(b, q, e[1], e[2], e[3])
  <2>1. CASE e \in p.payloads
    <3>1. e[2] < e[3] /\ PayloadFrom(b, p, e[1], e[2], e[3])
      BY <2>1 DEF Partial, IsParse
    <3> QED  BY <1>2, <3>1, WiderPayload
  <2>2. CASE e \in A
    BY <2>2 DEF q
  <2> QED  BY <1>1, <2>1, <2>2
<1>5. ASSUME NEW e \in q.elements
      PROVE  ElementsFrom(b, q, e[1], e[2], e[3], e[4])
  <2>1. CASE e \in p.elements
    <3>1. ElementsFrom(b, p, e[1], e[2], e[3], e[4])
      BY <2>1 DEF Partial, IsParse
    <3> QED  BY <1>2, <3>1, WiderElements
  <2>2. CASE e \in B
    BY <2>2 DEF q
  <2> QED  BY <1>1, <2>1, <2>2
<1>6. Partial(b, q)
  BY <1>1, <1>3, <1>4, <1>5 DEF Partial, IsParse
<1> QED  BY <1>2, <1>6 DEF q

(* One more payload. *)
LEMMA PartialAdds ==
  ASSUME NEW b, NEW p, Partial(b, p), NEW t \in TagTypes, NEW from \in Offsets(b),
         NEW to \in Offsets(b), from < to, PayloadFrom(b, p, t, from, to)
  PROVE  \E q : Partial(b, q) /\ Wider(p, q) /\ <<t, from, to>> \in q.payloads
<1> DEFINE A == {<<t, from, to>>}
           q == With(p, A, {})
<1>1. A \in SUBSET (TagTypes \X Offsets(b) \X Offsets(b))
  OBVIOUS
<1>2. Wider(p, q)
  BY DEF Wider, With
<1>3. PayloadFrom(b, q, t, from, to)
  BY <1>2, WiderPayload
<1>4. <<t, from, to>> \in q.payloads
  BY DEF With
<1> HIDE DEF q
<1>5. \A e \in A : e[2] < e[3] /\ PayloadFrom(b, q, e[1], e[2], e[3])
  BY <1>3
<1> HIDE DEF A
<1>6. Partial(b, q)
  BY <1>1, <1>5, PartialGrows DEF q
<1> QED  BY <1>2, <1>4, <1>6

-----------------------------------------------------------------------------
(* The loop of a frame f has come from tag to tag, or from element to       *)
(* element: M holds the offsets in between, for elements with how many      *)
(* there are in front.                                                      *)

TagsSoFar(b, p, f, M) ==
  /\ M \subseteq 0 .. f.next /\ f.start \in M
  /\ \A m \in M : m = f.next \/ \E n \in M : m < n /\ TagFrom(b, p, m, n)

ElementsSoFar(b, p, f, x, M) ==
  /\ M \subseteq (0 .. f.i) \X (0 .. f.next) /\ <<0, f.start + 5>> \in M
  /\ f.start + 5 <= Len(b) /\ At(b, f.start) = x.ctype
  /\ U32At(b, f.start + 1) = Len(x.kids) /\ Len(x.kids) <= MaxList
  /\ \A k \in 0 .. f.i : \A m \in 0 .. f.next : <<k, m>> \in M =>
       IF k = f.i THEN m = f.next
       ELSE \E n \in 0 .. f.next : <<k + 1, n>> \in M /\ <<x.ctype, m, n>> \in p.payloads

SoFar(b, p, j, f, x, M) ==
  /\ j = 1 => f.start = 0
  /\ IF j = 1 \/ x.type = kTagCompound THEN TagsSoFar(b, p, f, M)
                                       ELSE ElementsSoFar(b, p, f, x, M)

(* Frame g reads what is next in frame f: its tag is y.                     *)
ReadNext(b, j, f, x, g, y) ==
  IF j = 1 \/ x.type = kTagCompound
  THEN /\ f.next + 3 <= Len(b) /\ At(b, f.next) = y.type
       /\ g.start = f.next + 3 + U16At(b, f.next + 1)
  ELSE g.start = f.next /\ y.type = x.ctype

ReadIn(b, p, s, h, c, r, M) ==
  /\ \A j \in 1 .. Len(s) : Entered(s, c, j) => SoFar(b, p, j, s[j], h[s[j].tag], M[j])
  /\ \A j \in 1 .. Len(s) - 1 : ReadNext(b, j, s[j], h[s[j].tag], s[j + 1], h[s[j + 1].tag])
  /\ c = "body" => s[Len(s)].i = 0
  /\ c = "return" => <<h[s[Len(s)].tag].type, s[Len(s)].start, s[Len(s)].start + r>> \in p.payloads

Known(p, M) == Partial(buffer, p) /\ ReadIn(buffer, p, stack, heap, pc, ret, M)

SoundSoFar ==
  IF pc = "done" THEN result = "true" => HasParse(buffer)
                 ELSE \E p, M : Known(p, M)

OInv == IInv /\ SoundSoFar

LEMMA SoFarKept ==
  ASSUME NEW b, NEW p, NEW q, Wider(p, q), NEW j, NEW f, NEW x, NEW y,
         j = 1 \/ SameLoop(x, y), NEW M, SoFar(b, p, j, f, x, M)
  PROVE  SoFar(b, q, j, f, y, M)
<1>1. CASE j = 1 \/ x.type = kTagCompound
  <2>1. j = 1 \/ y.type = kTagCompound
    BY <1>1 DEF SameLoop
  <2>2. TagsSoFar(b, p, f, M)
    BY <1>1 DEF SoFar
  <2>3. ASSUME NEW m \in M, m # f.next
        PROVE  \E n \in M : m < n /\ TagFrom(b, q, m, n)
    <3>1. PICK n \in M : m < n /\ TagFrom(b, p, m, n)
      BY <2>2, <2>3 DEF TagsSoFar
    <3> QED  BY <3>1, WiderTag
  <2>4. TagsSoFar(b, q, f, M)
    BY <2>2, <2>3 DEF TagsSoFar
  <2> QED  BY <2>1, <2>4 DEF SoFar
<1>2. CASE ~(j = 1 \/ x.type = kTagCompound)
  <2>1. /\ ~(j = 1 \/ y.type = kTagCompound)
        /\ y.ctype = x.ctype /\ Len(y.kids) = Len(x.kids)
    BY <1>2 DEF SameLoop
  <2>2. ElementsSoFar(b, p, f, x, M)
    BY <1>2 DEF SoFar
  <2>3. ElementsSoFar(b, q, f, y, M)
    BY <2>1, <2>2 DEF ElementsSoFar, Wider
  <2> QED  BY <2>1, <2>3 DEF SoFar
<1> QED  BY <1>1, <1>2

LEMMA ReadNextKept ==
  ASSUME NEW b, NEW j, NEW f, NEW x, NEW y, j = 1 \/ SameLoop(x, y),
         NEW g, NEW u, NEW v, v.type = u.type, ReadNext(b, j, f, x, g, u)
  PROVE  ReadNext(b, j, f, y, g, v)
BY DEF ReadNext, SameLoop

(* The innermost call has read a payload.                                   *)
LEMMA ReadInReturn ==
  ASSUME NEW b, NEW p, NEW s \in Seq(Frame), Len(s) > 1, NEW h, NEW c, NEW r, NEW M,
         ReadIn(b, p, s, h, c, r, M), NEW q, Wider(p, q),
         NEW g, \A j \in 2 .. Len(s) - 1 : SameLoop(h[s[j].tag], g[s[j].tag]),
         g[s[Len(s)].tag].type = h[s[Len(s)].tag].type,
         NEW n, <<h[s[Len(s)].tag].type, s[Len(s)].start, s[Len(s)].start + n>> \in q.payloads
  PROVE  ReadIn(b, q, s, g, "return", n, M)
<1>1. Len(s) \in Nat
  OBVIOUS
<1>2. ASSUME NEW j \in 1 .. Len(s), Entered(s, "return", j)
      PROVE  SoFar(b, q, j, s[j], g[s[j].tag], M[j])
  <2>1. j < Len(s) /\ (j = 1 \/ j \in 2 .. Len(s) - 1)
    BY <1>1, <1>2 DEF Entered
  <2>2. SoFar(b, p, j, s[j], h[s[j].tag], M[j])
    BY <2>1 DEF ReadIn, Entered
  <2> QED  BY <2>1, <2>2, SoFarKept
<1>3. ASSUME NEW j \in 1 .. Len(s) - 1
      PROVE  ReadNext(b, j, s[j], g[s[j].tag], s[j + 1], g[s[j + 1].tag])
  <2>1. j = 1 \/ j \in 2 .. Len(s) - 1
    BY <1>1
  <2>2. ReadNext(b, j, s[j], h[s[j].tag], s[j + 1], h[s[j + 1].tag])
    BY DEF ReadIn
  <2>3. g[s[j + 1].tag].type = h[s[j + 1].tag].type
    <3>1. j + 1 = Len(s) \/ j + 1 \in 2 .. Len(s) - 1
      BY <1>1
    <3> QED  BY <3>1 DEF SameLoop
  <2> QED  BY <2>1, <2>2, <2>3, ReadNextKept
<1> QED  BY <1>2, <1>3 DEF ReadIn

LEMMA ReadInPush ==
  ASSUME NEW b, NEW p, NEW s \in Seq(Frame), Len(s) > 0, NEW h, NEW r, NEW M,
         ReadIn(b, p, s, h, "loop", r, M),
         NEW g, \A j \in 2 .. Len(s) : SameLoop(h[s[j].tag], g[s[j].tag]),
         NEW f \in Frame, f.i = 0,
         ReadNext(b, Len(s), s[Len(s)], h[s[Len(s)].tag], f, g[f.tag]), NEW n
  PROVE  ReadIn(b, p, Append(s, f), g, "body", n, M)
<1> DEFINE t == Append(s, f)
<1>1. /\ Len(t) = Len(s) + 1 /\ Len(s) \in Nat
      /\ \A j \in 1 .. Len(s) : t[j] = s[j]
      /\ t[Len(s) + 1] = f
  BY Push
<1> HIDE DEF t
<1>2. ASSUME NEW j \in 1 .. Len(t), Entered(t, "body", j)
      PROVE  SoFar(b, p, j, t[j], g[t[j].tag], M[j])
  <2>1. j \in 1 .. Len(s) /\ t[j] = s[j] /\ (j = 1 \/ j \in 2 .. Len(s))
    BY <1>1, <1>2 DEF Entered
  <2>2. SoFar(b, p, j, s[j], h[s[j].tag], M[j])
    BY <2>1 DEF ReadIn, Entered
  <2> QED  BY <2>1, <2>2, SoFarKept, WiderItself
<1>3. ASSUME NEW j \in 1 .. Len(t) - 1
      PROVE  ReadNext(b, j, t[j], g[t[j].tag], t[j + 1], g[t[j + 1].tag])
  <2>1. j \in 1 .. Len(s) /\ t[j] = s[j] /\ (j = 1 \/ j \in 2 .. Len(s))
    BY <1>1
  <2>2. CASE j = Len(s)
    <3>1. t[j + 1] = f
      BY <1>1, <2>2
    <3> QED  BY <2>1, <2>2, <3>1, ReadNextKept
  <2>3. CASE j # Len(s)
    <3>1. j \in 1 .. Len(s) - 1 /\ j + 1 \in 2 .. Len(s) /\ j + 1 \in 1 .. Len(s)
      BY <1>1, <2>1, <2>3
    <3>2. ReadNext(b, j, s[j], h[s[j].tag], s[j + 1], h[s[j + 1].tag])
      BY <3>1 DEF ReadIn
    <3>3. t[j + 1] = s[j + 1] /\ g[s[j + 1].tag].type = h[s[j + 1].tag].type
      BY <1>1, <3>1 DEF SameLoop
    <3> QED  BY <2>1, <3>2, <3>3, ReadNextKept
  <2> QED  BY <2>2, <2>3
<1>4. ReadIn(b, p, t, g, "body", n, M)
  BY <1>1, <1>2, <1>3 DEF ReadIn
<1> QED  BY <1>4 DEF t

LEMMA ReadInLoop ==
  ASSUME NEW b, NEW p, NEW s \in Seq(Frame), NEW h, NEW c, NEW r, NEW M,
         ReadIn(b, p, s, h, c, r, M),
         NEW m \in 1 .. Len(s), NEW t \in Seq(Frame), Len(t) = m,
         \A j \in 1 .. m - 1 : t[j] = s[j],
         t[m].tag = s[m].tag, t[m].start = s[m].start,
         NEW g, \A j \in 2 .. m - 1 : SameLoop(h[s[j].tag], g[s[j].tag]),
         m > 1 => g[s[m].tag].type = h[s[m].tag].type,
         NEW N, SoFar(b, p, m, t[m], g[t[m].tag], N), NEW n
  PROVE  \E K : ReadIn(b, p, t, g, "loop", n, K)
<1> DEFINE K == [j \in 1 .. m |-> IF j = m THEN N ELSE M[j]]
<1>1. m \in Nat /\ Len(s) \in Nat /\ m <= Len(s)
  OBVIOUS
<1>2. K[m] = N /\ \A j \in 1 .. m - 1 : K[j] = M[j]
  BY <1>1
<1> HIDE DEF K
<1>3. ASSUME NEW j \in 1 .. Len(t)
      PROVE  SoFar(b, p, j, t[j], g[t[j].tag], K[j])
  <2>1. CASE j = m
    BY <1>2, <2>1
  <2>2. CASE j # m
    <3>1. j \in 1 .. m - 1 /\ j \in 1 .. Len(s) /\ j < Len(s) /\ (j = 1 \/ j \in 2 .. m - 1)
      BY <1>1, <2>2
    <3>2. SoFar(b, p, j, s[j], h[s[j].tag], M[j])
      BY <3>1 DEF ReadIn, Entered
    <3>3. t[j] = s[j] /\ K[j] = M[j]
      BY <1>2, <3>1
    <3>4. j = 1 \/ SameLoop(h[s[j].tag], g[s[j].tag])
      BY <3>1
    <3>5. SoFar(b, p, j, s[j], g[s[j].tag], M[j])
      BY <3>2, <3>4, SoFarKept, WiderItself
    <3> QED  BY <3>3, <3>5
  <2> QED  BY <2>1, <2>2
<1>4. ASSUME NEW j \in 1 .. Len(t) - 1
      PROVE  ReadNext(b, j, t[j], g[t[j].tag], t[j + 1], g[t[j + 1].tag])
  <2>1. j \in 1 .. m - 1 /\ j \in 1 .. Len(s) - 1 /\ (j = 1 \/ j \in 2 .. m - 1)
        /\ (j + 1 = m \/ j + 1 \in 2 .. m - 1)
    BY <1>1
  <2>2. ReadNext(b, j, s[j], h[s[j].tag], s[j + 1], h[s[j + 1].tag])
    BY <2>1 DEF ReadIn
  <2>3. t[j + 1].tag = s[j + 1].tag /\ t[j + 1].start = s[j + 1].start
    <3>1. CASE j + 1 = m
      BY <3>1
    <3>2. CASE j + 1 \in 2 .. m - 1
      <4>1. j + 1 \in 1 .. m - 1
        BY <3>2
      <4> QED  BY <4>1
    <3> QED  BY <2>1, <3>1, <3>2
  <2>4. g[s[j + 1].tag].type = h[s[j + 1].tag].type
    <3>1. CASE j + 1 = m
      <4>1. m > 1
        BY <1>1, <2>1
      <4> QED  BY <3>1, <4>1
    <3>2. CASE j + 1 \in 2 .. m - 1
      BY <3>2 DEF SameLoop
    <3> QED  BY <2>1, <3>1, <3>2
  <2>5. j = 1 \/ SameLoop(h[s[j].tag], g[s[j].tag])
    BY <2>1
  <2>6. t[j] = s[j]
    BY <2>1
  <2>7. ReadNext(b, j, s[j], g[s[j].tag], s[j + 1], g[s[j + 1].tag])
    BY <2>2, <2>4, <2>5, ReadNextKept
  <2>8. ReadNext(b, j, s[j], g[s[j].tag], t[j + 1], g[t[j + 1].tag])
    BY <2>3, <2>7 DEF ReadNext
  <2> QED  BY <2>6, <2>8
<1>5. ReadIn(b, p, t, g, "loop", n, K)
  BY <1>3, <1>4 DEF ReadIn
<1> QED  BY <1>5

-----------------------------------------------------------------------------
(* Each step reads what the grammar says.                                   *)

LEMMA TopFacts ==
  ASSUME IInv, pc # "done"
  PROVE  /\ Depth = Len(stack) /\ Depth \in 1 .. Len(stack) /\ Depth \in Nat
         /\ stack \in Seq(Frame) /\ heap \in Seq(Tag) /\ buffer \in Seq(Byte)
         /\ length = Len(buffer) /\ length \in Nat
         /\ Top = stack[Depth] /\ Cur = heap[stack[Depth].tag]
         /\ Top.start \in Nat /\ Top.next \in Nat /\ Top.i \in Nat
         /\ Top.start <= Top.next
<1>1. Depth = Len(stack) /\ Depth \in 1 .. Len(stack) /\ Depth \in Nat
  <2>1. Depth \in Nat /\ Depth > 0
    BY RunningFacts
  <2> QED  BY <2>1 DEF Depth
<1>2. Top = stack[Depth] /\ Cur = heap[stack[Depth].tag]
  BY DEF Top, Cur
<1>3. stack \in Seq(Frame) /\ heap \in Seq(Tag) /\ buffer \in Seq(Byte)
  BY DEF IInv, TypeOK
<1>4. length = Len(buffer)
  BY DEF length
<1> QED  BY <1>1, <1>2, <1>3, <1>4, RunningFacts

LEMMA KnownNext ==
  ASSUME pc' # "done", NEW p, NEW M, Known(p, M)'
  PROVE  SoundSoFar'
BY DEF SoundSoFar

(* The innermost call has read its payload. *)
LEMMA ReturnReads ==
  ASSUME IInv, pc # "done", Depth > 1, NEW p, NEW M, Known(p, M),
         UNCHANGED <<buffer, stack>>, pc' = "return",
         NEW q, Partial(buffer, q), Wider(p, q),
         <<Cur.type, Top.start, Top.start + ret'>> \in q.payloads,
         heap'[Top.tag].type = Cur.type,
         \A j \in 2 .. Len(stack) - 1 : SameLoop(heap[stack[j].tag], heap'[stack[j].tag])
  PROVE  SoundSoFar'
<1>1. ReadIn(buffer, p, stack, heap, pc, ret, M)
  BY DEF Known
<1>2. ReadIn(buffer, q, stack, heap', "return", ret', M)
  BY <1>1, TopFacts, ReadInReturn
<1>3. Known(q, M)'
  BY <1>2 DEF Known
<1> QED  BY <1>3, KnownNext

LEMMA LeafReads ==
  ASSUME IInv, pc = "body", NEW p, NEW M, Known(p, M),
         NEW head \in Nat, NEW n \in Nat, ReadLeaf(head, n), head + n > 0,
         Top.start + (head + n) <= length,
         LeafFrom(buffer, Cur.type, Top.start, Top.start + (head + n))
  PROVE  SoundSoFar'
<1> DEFINE to == Top.start + (head + n)
<1>1. /\ UNCHANGED <<buffer, stack>> /\ pc' = "return" /\ ret' = head + n
      /\ heap' = [heap EXCEPT ![Top.tag].data = Bytes(buffer, Top.start + head, n)]
  BY DEF ReadLeaf
<1>2. Depth > 1 /\ Cur \in Tag /\ Top.tag \in 1 .. Len(heap)
  BY BodyFacts, RunningFacts
<1>3. Cur.type \in TagTypes
  BY <1>2 DEF Tag
<1>4. /\ Top.start \in Offsets(buffer) /\ to \in Offsets(buffer) /\ Top.start < to
  BY TopFacts DEF Offsets
<1>5. PayloadFrom(buffer, p, Cur.type, Top.start, to)
  BY DEF PayloadFrom
<1> HIDE DEF to
<1>6. PICK q : Partial(buffer, q) /\ Wider(p, q) /\ <<Cur.type, Top.start, to>> \in q.payloads
  BY <1>3, <1>4, <1>5, PartialAdds DEF Known
<1>7. heap'[Top.tag].type = Cur.type
  BY <1>1, <1>2, TopFacts DEF Cur
<1>8. to = Top.start + ret'
  BY <1>1 DEF to
<1> QED  BY <1>1, <1>2, <1>6, <1>7, <1>8, LeafLoops, ReturnReads

LEMMA ReadScalarReads ==
  ASSUME IInv, NEW p, NEW M, Known(p, M), ReadScalar
  PROVE  SoundSoFar'
<1> DEFINE n == ScalarSize(Cur.type)
<1>1. /\ pc = "body" /\ Cur.type \in ScalarTypes /\ ReadLeaf(0, n)
      /\ Top.start + n <= length
  BY DEF ReadScalar, ScalarReadable
<1>2. n \in 1 .. 8
  BY <1>1, ScalarSizes
<1>3. Top.start \in Nat /\ length \in Nat
  BY <1>1, RunningFacts
<1>4. LeafFrom(buffer, Cur.type, Top.start, Top.start + n)
  BY <1>1 DEF LeafFrom
<1> HIDE DEF n
<1>5. 0 + n = n /\ n \in Nat /\ n > 0
  BY <1>2
<1> QED  BY <1>1, <1>4, <1>5, LeafReads

LEMMA ReadArrayReads ==
  ASSUME IInv, NEW p, NEW M, Known(p, M), ReadArray
  PROVE  SoundSoFar'
<1>1. /\ pc = "body" /\ Cur.type \in ArrayTypes /\ ReadLeaf(4, ArrayBytes)
      /\ Top.start + 4 <= length /\ Top.start + 4 + ArrayBytes <= length
  BY DEF ReadArray, ArrayReadable
<1>2. Top.start \in Nat /\ length \in Nat /\ length = Len(buffer) /\ buffer \in Seq(Byte)
  BY <1>1, TopFacts
<1>3. ArrayBytes \in Nat
  <2>1. U32At(buffer, Top.start) \in Nat
    BY <1>1, <1>2, U32Value
  <2>2. ElementSize(Cur.type) \in {1, 4}
    BY DEF ElementSize
  <2> QED  BY <2>1, <2>2 DEF ArrayBytes
<1>4. Top.start + 4 + ArrayBytes = Top.start + (4 + ArrayBytes)
  BY <1>2, <1>3
<1>5. LeafFrom(buffer, Cur.type, Top.start, Top.start + 4 + ArrayBytes)
  BY <1>1, <1>2 DEF LeafFrom, ArrayBytes
<1>6. 4 + ArrayBytes > 0 /\ 4 \in Nat
  BY <1>3
<1> QED  BY <1>1, <1>3, <1>4, <1>5, <1>6, LeafReads

LEMMA ReadStringReads ==
  ASSUME IInv, NEW p, NEW M, Known(p, M), ReadString
  PROVE  SoundSoFar'
<1> DEFINE n == U16At(buffer, Top.start)
<1>1. /\ pc = "body" /\ Cur.type = kTagString /\ ReadLeaf(2, n)
      /\ Top.start + 2 <= length /\ Top.start + 2 + n <= length
  BY DEF ReadString, Reading, StringReadable
<1>2. Top.start \in Nat /\ length \in Nat /\ length = Len(buffer) /\ buffer \in Seq(Byte)
  BY <1>1, TopFacts
<1>3. n \in Nat
  BY <1>1, <1>2, U16Value
<1>4. LeafFrom(buffer, Cur.type, Top.start, Top.start + 2 + n)
  BY <1>1, <1>2 DEF LeafFrom
<1> HIDE DEF n
<1>5. Top.start + 2 + n = Top.start + (2 + n)
  BY <1>2, <1>3
<1>6. 2 + n > 0 /\ 2 \in Nat
  BY <1>3
<1> QED  BY <1>1, <1>3, <1>4, <1>5, <1>6, LeafReads

-----------------------------------------------------------------------------
(* Lists                                                                    *)

LEMMA ReadEndListReads ==
  ASSUME IInv, NEW p, NEW M, Known(p, M), ReadEndList
  PROVE  SoundSoFar'
<1> DEFINE to == Top.start + 5
<1>1. /\ pc = "body" /\ Cur.type = kTagList /\ ListType = kTagEnd /\ ListReadable
      /\ UNCHANGED <<buffer, stack>> /\ pc' = "return" /\ ret' = 5
      /\ heap' = [heap EXCEPT ![Top.tag].ctype = kTagEnd]
  BY DEF ReadEndList, Reading, ListHead
<1>2. Depth > 1 /\ Cur \in Tag /\ Top.tag \in 1 .. Len(heap)
  BY <1>1, BodyFacts, RunningFacts
<1>3. Cur.type \in TagTypes
  BY <1>2 DEF Tag
<1>4. /\ Top.start \in Offsets(buffer) /\ to \in Offsets(buffer) /\ Top.start < to
      /\ Top.start + 5 <= Len(buffer) /\ ListLength = 1
  BY <1>1, TopFacts DEF Offsets, ListReadable, ListHead
<1>5. PayloadFrom(buffer, p, Cur.type, Top.start, to)
  BY <1>1, <1>4 DEF PayloadFrom, ListFrom, ListType, ListLength
<1> HIDE DEF to
<1>6. PICK q : Partial(buffer, q) /\ Wider(p, q) /\ <<Cur.type, Top.start, to>> \in q.payloads
  BY <1>3, <1>4, <1>5, PartialAdds DEF Known
<1>7. heap'[Top.tag].type = Cur.type
  BY <1>1, <1>2, TopFacts DEF Cur
<1>8. to = Top.start + ret'
  BY <1>1 DEF to
<1> QED  BY <1>1, <1>2, <1>6, <1>7, <1>8, EndListLoops, ReturnReads

(* A loop begins, or goes on with what its callee has read. *)
LEMMA LoopReads ==
  ASSUME IInv, pc # "done", NEW p, NEW M, Known(p, M), UNCHANGED buffer, pc' = "loop",
         NEW m \in 1 .. Len(stack), stack' \in Seq(Frame), Len(stack') = m,
         \A j \in 1 .. m - 1 : stack'[j] = stack[j],
         stack'[m].tag = stack[m].tag, stack'[m].start = stack[m].start,
         \A j \in 2 .. m - 1 : SameLoop(heap[stack[j].tag], heap'[stack[j].tag]),
         m > 1 => heap'[stack[m].tag].type = heap[stack[m].tag].type,
         NEW N, SoFar(buffer, p, m, stack'[m], heap'[stack'[m].tag], N)
  PROVE  SoundSoFar'
<1>1. ReadIn(buffer, p, stack, heap, pc, ret, M) /\ stack \in Seq(Frame)
  BY TopFacts DEF Known
<1>2. PICK K : ReadIn(buffer, p, stack', heap', "loop", ret', K)
  BY <1>1, ReadInLoop
<1>3. Known(p, K)'
  BY <1>2 DEF Known
<1> QED  BY <1>3, KnownNext

LEMMA EnterListReads ==
  ASSUME IInv, NEW p, NEW M, Known(p, M), EnterList
  PROVE  SoundSoFar'
<1> DEFINE from == Top.start + 5
           N == {<<0, from>>}
<1>1. /\ pc = "body" /\ Cur.type = kTagList /\ ListReadable /\ ListType # kTagEnd
      /\ ListLength <= MaxList /\ UNCHANGED buffer /\ pc' = "loop"
  BY DEF EnterList, Reading
<1>2. Top.i = 0
  BY <1>1, TopFacts DEF Known, ReadIn
<1>3. stack[Depth].tag = Top.tag /\ Top.tag = stack'[Depth].tag
  BY EnterListMakes
<1>4. ElementsSoFar(buffer, p, stack'[Depth], heap'[stack'[Depth].tag], N)
  <2> DEFINE f == stack'[Depth]
             x == heap'[f.tag]
  <2>1. f.i = 0 /\ f.next = from /\ f.start = Top.start /\ Top.start \in Nat
    BY <1>2, EnterListMakes
  <2>2. x.ctype = At(buffer, f.start) /\ Len(x.kids) = U32At(buffer, f.start + 1)
        /\ Len(x.kids) <= MaxList
    BY <1>1, <2>1, EnterListMakes DEF ListType, ListLength
  <2>3. f.start + 5 <= Len(buffer)
    BY <1>1, <2>1, ListHeadFacts DEF length
  <2> HIDE DEF f, x
  <2>4. N \subseteq (0 .. f.i) \X (0 .. f.next) /\ <<0, f.start + 5>> \in N
    BY <2>1
  <2>5. ASSUME NEW k \in 0 .. f.i, NEW m \in 0 .. f.next, <<k, m>> \in N
        PROVE  k = f.i /\ m = f.next
    BY <2>1, <2>5
  <2>6. ElementsSoFar(buffer, p, f, x, N)
    BY <2>2, <2>3, <2>4, <2>5 DEF ElementsSoFar
  <2> QED  BY <2>6 DEF f, x
<1>5. SoFar(buffer, p, Depth, stack'[Depth], heap'[stack'[Depth].tag], N)
  <2>1. Depth # 1 /\ heap'[stack'[Depth].tag].type # kTagCompound
    BY <1>3, EnterListMakes DEF kTagList, kTagCompound
  <2> QED  BY <1>4, <2>1 DEF SoFar
<1>6. heap'[stack[Depth].tag].type = heap[stack[Depth].tag].type
  BY <1>1, <1>3, TopFacts, EnterListMakes
<1> HIDE DEF N, from
<1> QED  BY <1>1, <1>3, <1>5, <1>6, EnterListMakes, LoopReads

(* A tag is added and its body read.                                        *)
LEMMA PushReads ==
  ASSUME IInv, pc = "loop", NEW p, NEW M, Known(p, M),
         UNCHANGED buffer, pc' = "body", NEW x, heap' = Append(heap, x),
         NEW f \in Frame, stack' = Append(stack, f), f.tag = Len(heap) + 1, f.i = 0,
         ReadNext(buffer, Depth, Top, Cur, f, x)
  PROVE  SoundSoFar'
<1>1. /\ stack \in Seq(Frame) /\ Len(stack) > 0 /\ Depth = Len(stack)
      /\ Top = stack[Len(stack)] /\ Cur = heap[stack[Len(stack)].tag]
  BY TopFacts
<1>2. heap'[f.tag] = x
  BY TopFacts
<1>3. ReadIn(buffer, p, stack, heap, "loop", ret, M)
  BY DEF Known
<1>4. ReadNext(buffer, Len(stack), stack[Len(stack)], heap[stack[Len(stack)].tag], f, heap'[f.tag])
  BY <1>1, <1>2
<1>5. ReadIn(buffer, p, stack', heap', "body", ret', M)
  BY <1>1, <1>3, <1>4, PushLoops, ReadInPush
<1>6. Known(p, M)'
  BY <1>5 DEF Known
<1> QED  BY <1>6, KnownNext

LEMMA ReadElementReads ==
  ASSUME IInv, NEW p, NEW M, Known(p, M), ReadElement
  PROVE  SoundSoFar'
<1> DEFINE x == NewTag(Cur.ctype)
           f == NewFrame(Len(heap) + 1, 0, Top.next)
<1>1. /\ pc = "loop" /\ Depth > 1 /\ Cur.type = kTagList /\ UNCHANGED buffer /\ pc' = "body"
      /\ heap' = Append(heap, x) /\ stack' = Append(stack, f)
  BY DEF ReadElement, Looping
<1>2. x.type = Cur.ctype
  BY <1>1, RunningFacts, NewTagType
<1>3. f \in Frame /\ f.tag = Len(heap) + 1 /\ f.start = Top.next /\ f.i = 0
  <2>1. Len(heap) + 1 \in Nat /\ Top.next \in Nat
    BY <1>1, RunningFacts
  <2> QED  BY <2>1 DEF NewFrame, Frame
<1> HIDE DEF x, f
<1>4. ReadNext(buffer, Depth, Top, Cur, f, x)
  <2>1. Depth # 1 /\ Cur.type # kTagCompound
    BY <1>1, RunningFacts DEF kTagList, kTagCompound
  <2> QED  BY <1>2, <1>3, <2>1 DEF ReadNext
<1> QED  BY <1>1, <1>3, <1>4, PushReads

LEMMA FinishListReads ==
  ASSUME IInv, NEW p, NEW M, Known(p, M), FinishList
  PROVE  SoundSoFar'
<1> DEFINE N == M[Depth]
           A == {<<kTagList, Top.start, Top.next>>}
           B == {<<Cur.ctype, Top.i - e[1], e[2], Top.next>> : e \in N}
           q == With(p, A, B)
<1>1. /\ pc = "loop" /\ Depth > 1 /\ Cur.type = kTagList /\ Top.i = Len(Cur.kids)
      /\ UNCHANGED <<buffer, stack, heap>> /\ pc' = "return" /\ ret' = Top.next - Top.start
      /\ Looping(kTagList)
  BY DEF FinishList, Looping
<1>2. ElementsSoFar(buffer, p, Top, Cur, N)
  <2>1. Entered(stack, pc, Depth)
    BY <1>1 DEF Entered
  <2>2. SoFar(buffer, p, Depth, Top, Cur, N)
    BY <1>1, <2>1, TopFacts DEF Known, ReadIn
  <2>3. Depth # 1 /\ Cur.type # kTagCompound
    BY <1>1, TopFacts DEF kTagList, kTagCompound
  <2> QED  BY <2>2, <2>3 DEF SoFar
<1>3. /\ Top.start \in Nat /\ Top.next \in Nat /\ Top.i \in Nat /\ length = Len(buffer)
      /\ length \in Nat /\ Top.start + 5 <= Top.next /\ Cur.ctype \in TagTypes
  BY <1>1, TopFacts, RunningFacts
<1>4. Top.next <= length
  <2>1. ~(consumed > length)
    <3>1. ~Looping(kTagCompound)
      BY <1>1 DEF Looping, kTagList, kTagCompound
    <3> QED  BY <1>1, <3>1 DEF IInv, OverrunRejected
  <2>2. Top.next = consumed
    BY <1>1, LoopFacts
  <2> QED  BY <1>3, <2>1, <2>2
<1>5. \A m \in 0 .. Top.next : m \in Offsets(buffer)
  BY <1>3, <1>4 DEF Offsets
<1>6. Top.start \in Offsets(buffer) /\ Top.next \in Offsets(buffer) /\ kTagList \in TagTypes
  BY <1>3, <1>5 DEF TagTypes, kTagByte, kTagIntArray, kTagList
<1>7. A \in SUBSET (TagTypes \X Offsets(buffer) \X Offsets(buffer))
  BY <1>6
<1>8. ASSUME NEW e \in N
      PROVE  /\ e = <<e[1], e[2]>> /\ e[1] \in 0 .. Top.i /\ e[2] \in 0 .. Top.next
             /\ Top.i - e[1] \in Nat
  <2>1. e \in (0 .. Top.i) \X (0 .. Top.next)
    BY <1>2 DEF ElementsSoFar
  <2> QED  BY <1>3, <2>1
<1>9. B \in SUBSET (TagTypes \X Nat \X Offsets(buffer) \X Offsets(buffer))
  BY <1>3, <1>5, <1>6, <1>8
<1>10. q.payloads = p.payloads \cup A /\ q.elements = p.elements \cup B
  BY DEF With
<1> HIDE DEF q
<1>11. ASSUME NEW e \in A
       PROVE  e[2] < e[3] /\ PayloadFrom(buffer, q, e[1], e[2], e[3])
  <2>1. e[1] = kTagList /\ e[2] = Top.start /\ e[3] = Top.next
    OBVIOUS
  <2>2. /\ Top.start + 5 <= Len(buffer) /\ At(buffer, Top.start) = Cur.ctype
        /\ U32At(buffer, Top.start + 1) = Len(Cur.kids) /\ Len(Cur.kids) <= MaxList
        /\ <<0, Top.start + 5>> \in N
    BY <1>2 DEF ElementsSoFar
  <2>3. <<Cur.ctype, Len(Cur.kids), Top.start + 5, Top.next>> \in q.elements
    <3>1. Top.i - <<0, Top.start + 5>>[1] = Len(Cur.kids)
      BY <1>1, <1>3
    <3>2. <<Cur.ctype, Len(Cur.kids), Top.start + 5, Top.next>> \in B
      BY <2>2, <3>1
    <3> QED  BY <1>10, <3>2
  <2>4. ListFrom(buffer, q, Top.start, Top.next)
    BY <1>3, <2>2, <2>3 DEF ListFrom
  <2> HIDE DEF A
  <2> QED  BY <1>3, <2>1, <2>4 DEF PayloadFrom
<1>12. ASSUME NEW e \in B
       PROVE  ElementsFrom(buffer, q, e[1], e[2], e[3], e[4])
  <2>1. PICK d \in N : e = <<Cur.ctype, Top.i - d[1], d[2], Top.next>>
    OBVIOUS
  <2> DEFINE k == d[1]
             m == d[2]
  <2>2. /\ e[1] = Cur.ctype /\ e[2] = Top.i - k /\ e[3] = m /\ e[4] = Top.next
        /\ <<k, m>> \in N /\ k \in 0 .. Top.i /\ m \in 0 .. Top.next
    BY <1>8, <2>1
  <2> HIDE DEF k, m
  <2>3. CASE k = Top.i
    <3>1. m = Top.next
      BY <1>2, <2>2, <2>3 DEF ElementsSoFar
    <3>2. e[2] = 0
      BY <1>3, <2>2, <2>3
    <3> QED  BY <2>2, <3>1, <3>2 DEF ElementsFrom
  <2>4. CASE k # Top.i
    <3>1. PICK n \in 0 .. Top.next : <<k + 1, n>> \in N /\ <<Cur.ctype, m, n>> \in p.payloads
      <4>1. \A h \in 0 .. Top.i : \A l \in 0 .. Top.next : <<h, l>> \in N =>
              IF h = Top.i THEN l = Top.next
              ELSE \E n \in 0 .. Top.next : <<h + 1, n>> \in N
                                          /\ <<Cur.ctype, l, n>> \in p.payloads
        BY <1>2 DEF ElementsSoFar
      <4> HIDE DEF A, B
      <4> QED  BY <2>2, <2>4, <4>1
    <3>2. Top.i - k # 0 /\ Top.i - k - 1 = Top.i - (k + 1)
      BY <1>3, <2>2, <2>4
    <3>3. <<Cur.ctype, Top.i - k - 1, n, Top.next>> \in q.elements
      <4>1. <<Cur.ctype, Top.i - <<k + 1, n>>[1], <<k + 1, n>>[2], Top.next>> \in B
        BY <3>1
      <4> HIDE DEF B
      <4> QED  BY <1>10, <3>2, <4>1
    <3>4. n \in Offsets(buffer) /\ <<Cur.ctype, m, n>> \in q.payloads
      BY <1>5, <1>10, <3>1
    <3>5. ElementsFrom(buffer, q, Cur.ctype, Top.i - k, m, Top.next)
      BY <3>2, <3>3, <3>4 DEF ElementsFrom
    <3> QED  BY <2>2, <3>5
  <2> QED  BY <2>3, <2>4
<1>13. <<Cur.type, Top.start, Top.start + ret'>> \in q.payloads
  <2>1. Top.start + ret' = Top.next
    BY <1>1, <1>3
  <2> QED  BY <1>1, <1>10, <2>1
<1>14. Partial(buffer, q) /\ Wider(p, q)
  <2> HIDE DEF A, B
  <2> QED  BY <1>7, <1>9, <1>11, <1>12, PartialGrows DEF q, Known
<1> HIDE DEF A, B, N
<1>15. heap'[Top.tag].type = Cur.type
  BY <1>1 DEF Cur
<1> QED  BY <1>1, <1>13, <1>14, <1>15, SameLoopItself, ReturnReads

-----------------------------------------------------------------------------
(* Compounds and Load                                                       *)

LEMMA EnterCompoundReads ==
  ASSUME IInv, NEW p, NEW M, Known(p, M), EnterCompound
  PROVE  SoundSoFar'
<1> DEFINE N == {Top.start}
<1>1. pc = "body" /\ Cur.type = kTagCompound /\ UNCHANGED <<buffer, stack, heap>> /\ pc' = "loop"
  BY DEF EnterCompound, Reading
<1>2. /\ Depth = Len(stack) /\ Depth \in 1 .. Len(stack) /\ Depth > 1 /\ stack \in Seq(Frame)
      /\ Top = stack[Depth] /\ Cur = heap[stack[Depth].tag] /\ Top.next = Top.start
      /\ Top.next \in Nat
  BY <1>1, TopFacts, BodyFacts
<1>3. SoFar(buffer, p, Depth, Top, Cur, N)
  <2>1. TagsSoFar(buffer, p, Top, N)
    BY <1>2 DEF TagsSoFar
  <2> QED  BY <1>1, <1>2, <2>1 DEF SoFar
<1> HIDE DEF N
<1>4. SoFar(buffer, p, Depth, stack'[Depth], heap'[stack'[Depth].tag], N)
  BY <1>1, <1>2, <1>3
<1>5. Len(stack') = Depth /\ stack' \in Seq(Frame)
  BY <1>1, <1>2
<1>6. /\ \A j \in 1 .. Depth - 1 : stack'[j] = stack[j]
      /\ stack'[Depth].tag = stack[Depth].tag /\ stack'[Depth].start = stack[Depth].start
      /\ heap'[stack[Depth].tag].type = heap[stack[Depth].tag].type
  BY <1>1
<1>7. \A j \in 2 .. Depth - 1 : SameLoop(heap[stack[j].tag], heap'[stack[j].tag])
  BY <1>1, SameLoopItself
<1> QED  BY <1>1, <1>2, <1>4, <1>5, <1>6, <1>7, LoopReads

LEMMA FinishCompoundReads ==
  ASSUME IInv, NEW p, NEW M, Known(p, M), FinishCompound
  PROVE  SoundSoFar'
<1> DEFINE N  == M[Depth]
           to == Top.next + 1
           A  == {<<kTagCompound, m, to>> : m \in N}
           q  == With(p, A, {})
<1>1. /\ pc = "loop" /\ Depth > 1 /\ Cur.type = kTagCompound
      /\ Top.next + 1 <= length /\ At(buffer, Top.next) = kTagEnd
      /\ UNCHANGED <<buffer, stack, heap>> /\ pc' = "return"
      /\ ret' = Top.next + 1 - Top.start
  BY DEF FinishCompound, AtCompoundEnd, TypeReadable, Looping
<1>2. TagsSoFar(buffer, p, Top, N)
  <2>1. Entered(stack, pc, Depth)
    BY <1>1 DEF Entered
  <2>2. SoFar(buffer, p, Depth, Top, Cur, N)
    BY <1>1, <2>1, TopFacts DEF Known, ReadIn
  <2> QED  BY <1>1, <2>2 DEF SoFar
<1>3. Top.start \in Nat /\ Top.next \in Nat /\ length = Len(buffer) /\ length \in Nat
  BY <1>1, TopFacts
<1>4. ASSUME NEW m \in N
      PROVE  m \in Offsets(buffer) /\ m < to
  <2>1. m \in 0 .. Top.next
    BY <1>2 DEF TagsSoFar
  <2> QED  BY <1>1, <1>3, <2>1 DEF Offsets
<1>5. to \in Offsets(buffer) /\ kTagCompound \in TagTypes
  BY <1>1, <1>3 DEF Offsets, TagTypes, kTagByte, kTagIntArray, kTagCompound
<1>6. A \in SUBSET (TagTypes \X Offsets(buffer) \X Offsets(buffer))
  BY <1>4, <1>5
<1>7. q.payloads = p.payloads \cup A /\ Wider(p, q)
  BY DEF With, Wider
<1> HIDE DEF q
<1>8. ASSUME NEW e \in A
      PROVE  e[2] < e[3] /\ PayloadFrom(buffer, q, e[1], e[2], e[3])
  <2>1. PICK m \in N : e = <<kTagCompound, m, to>>
    OBVIOUS
  <2>2. e[1] = kTagCompound /\ e[2] = m /\ e[3] = to
    BY <2>1
  <2>3. CompoundFrom(buffer, q, m, to)
    <3>1. CASE m = Top.next
      BY <1>1, <1>3, <3>1 DEF CompoundFrom
    <3>2. CASE m # Top.next
      <4>1. PICK n \in N : TagFrom(buffer, p, m, n)
        BY <1>2, <3>2 DEF TagsSoFar
      <4>2. TagFrom(buffer, q, m, n)
        BY <1>7, <4>1, WiderTag
      <4>3. <<kTagCompound, n, to>> \in q.payloads
        BY <1>7
      <4> QED  BY <1>4, <4>2, <4>3 DEF CompoundFrom
    <3> QED  BY <3>1, <3>2
  <2> HIDE DEF A, to, N
  <2>4. m < to
    BY <1>4
  <2> QED  BY <2>2, <2>3, <2>4 DEF PayloadFrom
<1>9. Partial(buffer, q)
  <2> HIDE DEF A
  <2> QED  BY <1>6, <1>8, PartialGrows DEF q, Known
<1>10. <<Cur.type, Top.start, Top.start + ret'>> \in q.payloads
  <2>1. Top.start + ret' = to
    BY <1>1, <1>3
  <2>2. Top.start \in N
    BY <1>2 DEF TagsSoFar
  <2> QED  BY <1>1, <1>7, <2>1, <2>2
<1> HIDE DEF A, N, to
<1>11. heap'[Top.tag].type = Cur.type
  BY <1>1 DEF Cur
<1> QED  BY <1>1, <1>7, <1>9, <1>10, <1>11, SameLoopItself, ReturnReads

LEMMA ReadHeaderReads ==
  ASSUME IInv, NEW p, NEW M, Known(p, M), ReadHeader
  PROVE  SoundSoFar'
<1> DEFINE head == SizeofTagType + SizeofU16 + NameLength
           x == [NewTag(At(buffer, Top.next)) EXCEPT
                   !.name = Bytes(Append(buffer, Beyond),
                                  Top.next + SizeofTagType + SizeofU16, NameLength)]
           f == NewFrame(Len(heap) + 1, head, Top.next + head)
<1>1. /\ pc = "loop" /\ AtHeader /\ HeaderReadable /\ UNCHANGED buffer /\ pc' = "body"
      /\ heap' = Append(heap, x) /\ stack' = Append(stack, f)
  BY DEF ReadHeader, AtHeader, Looping
<1>2. NameLength \in Nat /\ f \in Frame /\ f.tag = Len(heap) + 1 /\ f.start = Top.next + head
  BY HeaderMakes, Zenon
<1>3. f.i = 0
  BY DEF NewFrame
<1>4. x.type = At(buffer, Top.next)
  BY DEF NewTag
<1>5. Top.next \in Nat /\ length = Len(buffer) /\ length \in Nat
  BY <1>1, TopFacts
<1>6. f.start = Top.next + 3 + NameLength
  <2>1. f.start = Top.next + (1 + 2 + NameLength)
    BY <1>2
  <2>2. \A m, n \in Nat : m + (1 + 2 + n) = m + 3 + n
    OBVIOUS
  <2> QED  BY <1>2, <1>5, <2>1, <2>2
<1> HIDE DEF x, f, head
<1>7. Top.next + 3 <= Len(buffer) /\ NameLength = U16At(buffer, Top.next + 1)
  BY <1>1, <1>5 DEF HeaderReadable, NameReadable, NameLength
<1>8. Depth = 1 \/ Cur.type = kTagCompound
  BY <1>1 DEF AtHeader, Looping, InLoad
<1>9. ReadNext(buffer, Depth, Top, Cur, f, x)
  BY <1>4, <1>6, <1>7, <1>8 DEF ReadNext
<1> QED  BY <1>1, <1>2, <1>3, <1>9, PushReads

(* A loop goes one tag, or one element, further. *)
LEMMA TagsGoOn ==
  ASSUME NEW b, NEW p, NEW f \in Frame, NEW N, TagsSoFar(b, p, f, N),
         NEW to \in Nat, f.next < to, TagFrom(b, p, f.next, to),
         NEW g, g.next = to, g.start = f.start
  PROVE  TagsSoFar(b, p, g, N \cup {to})
<1>1. f.next \in Nat
  BY DEF Frame
<1>2. N \cup {to} \subseteq 0 .. g.next
  BY <1>1 DEF TagsSoFar
<1>3. ASSUME NEW m \in N
      PROVE  \E n \in N \cup {to} : m < n /\ TagFrom(b, p, m, n)
  <2>1. CASE m = f.next
    BY <2>1
  <2>2. CASE m # f.next
    BY <2>2 DEF TagsSoFar
  <2> QED  BY <2>1, <2>2
<1>4. g.start \in N
  BY DEF TagsSoFar
<1> QED  BY <1>2, <1>3, <1>4 DEF TagsSoFar

LEMMA ElementsGoOn ==
  ASSUME NEW b, NEW p, NEW f \in Frame, NEW x, NEW N, ElementsSoFar(b, p, f, x, N),
         NEW to \in Nat, f.next < to, <<x.ctype, f.next, to>> \in p.payloads,
         NEW g, g.next = to, g.start = f.start, g.i = f.i + 1
  PROVE  ElementsSoFar(b, p, g, x, N \cup {<<f.i + 1, to>>})
<1> DEFINE K == N \cup {<<f.i + 1, to>>}
<1>1. f.next \in Nat /\ f.i \in Nat
  BY DEF Frame
<1>2. N \subseteq (0 .. f.i) \X (0 .. f.next)
  BY DEF ElementsSoFar
<1>3. ASSUME NEW k, NEW m, <<k, m>> \in N
      PROVE  k \in 0 .. f.i /\ m \in 0 .. f.next
  BY <1>2, <1>3
<1>4. K \subseteq (0 .. g.i) \X (0 .. g.next)
  <2>1. 0 .. f.i \subseteq 0 .. g.i /\ 0 .. f.next \subseteq 0 .. g.next
    BY <1>1
  <2>2. f.i + 1 \in 0 .. g.i /\ to \in 0 .. g.next
    BY <1>1
  <2> QED  BY <1>2, <2>1, <2>2
<1>5. ASSUME NEW k \in 0 .. g.i, NEW m \in 0 .. g.next, <<k, m>> \in K
      PROVE  IF k = g.i THEN m = g.next
             ELSE \E n \in 0 .. g.next : <<k + 1, n>> \in K /\ <<x.ctype, m, n>> \in p.payloads
  <2>1. CASE <<k, m>> \in N
    <3>1. k \in 0 .. f.i /\ m \in 0 .. f.next /\ k # g.i
      BY <1>1, <1>3, <2>1
    <3>2. CASE k = f.i
      <4>1. m = f.next
        BY <2>1, <3>1, <3>2 DEF ElementsSoFar
      <4>2. to \in 0 .. g.next /\ <<k + 1, to>> \in K /\ <<x.ctype, m, to>> \in p.payloads
        BY <3>2, <4>1
      <4> QED  BY <3>1, <4>2
    <3>3. CASE k # f.i
      <4>1. PICK n \in 0 .. f.next : <<k + 1, n>> \in N /\ <<x.ctype, m, n>> \in p.payloads
        BY <2>1, <3>1, <3>3 DEF ElementsSoFar
      <4>2. n \in 0 .. g.next
        BY <1>1
      <4> QED  BY <3>1, <4>1, <4>2
    <3> QED  BY <3>2, <3>3
  <2>2. CASE <<k, m>> = <<f.i + 1, to>>
    BY <2>2
  <2> QED  BY <1>5, <2>1, <2>2
<1> HIDE DEF K
<1>6. <<0, g.start + 5>> \in K
  BY DEF ElementsSoFar, K
<1>7. /\ g.start + 5 <= Len(b) /\ At(b, g.start) = x.ctype
      /\ U32At(b, g.start + 1) = Len(x.kids) /\ Len(x.kids) <= MaxList
  BY DEF ElementsSoFar
<1>8. \A k \in 0 .. g.i : \A m \in 0 .. g.next : <<k, m>> \in K =>
        IF k = g.i THEN m = g.next
        ELSE \E n \in 0 .. g.next : <<k + 1, n>> \in K /\ <<x.ctype, m, n>> \in p.payloads
  BY <1>5
<1>9. ElementsSoFar(b, p, g, x, K)
  BY <1>4, <1>6, <1>7, <1>8 DEF ElementsSoFar
<1> QED  BY <1>9 DEF K

(* What a call read is what its caller's loop goes on with.                 *)
LEMMA ResumeReads ==
  ASSUME IInv, NEW p, NEW M, Known(p, M), NEW i \in Nat, Resume(i),
         \A id \in 1 .. Len(heap) : SameLoop(heap[id], heap'[id]),
         Depth = 2 \/ IsCompound(Caller.tag) \/ i = Caller.i + 1
  PROVE  SoundSoFar'
<1> DEFINE n == Depth - 1
           f == stack[n]
           x == heap[stack[n].tag]
           g == stack'[n]
<1>1. pc = "return" /\ UNCHANGED buffer /\ pc' = "loop"
  BY DEF Resume
<1>2. /\ n \in 1 .. Len(stack) /\ n < Len(stack) /\ n \in Nat /\ n + 1 = Depth
      /\ stack' \in Seq(Frame) /\ Len(stack') = n
      /\ \A m \in 1 .. n - 1 : stack'[m] = stack[m]
      /\ g.tag = f.tag /\ g.start = f.start /\ g.i = i
      /\ g.next = consumed /\ Caller = f /\ Depth = Len(stack)
      /\ f \in Frame /\ consumed \in Nat
  <2>1. Depth \in Nat /\ Depth = Len(stack) /\ stack \in Seq(Frame) /\ consumed \in Nat
    BY <1>1, ReturnFacts
  <2>2. n + 1 = Depth
    BY <2>1
  <2>3. n \in 1 .. Len(stack)
    BY ResumeMakes
  <2>4. f \in Frame
    BY <2>1, <2>3, ElementOfSeq
  <2> QED  BY <2>1, <2>2, <2>4, ResumeMakes DEF Caller
<1>3. /\ Partial(buffer, p) /\ SoFar(buffer, p, n, f, x, M[n])
      /\ ReadNext(buffer, n, f, x, Top, Cur)
      /\ <<Cur.type, Top.start, consumed>> \in p.payloads
  <2>1. n \in 1 .. Len(stack) - 1 /\ Entered(stack, pc, n)
    BY <1>2 DEF Entered
  <2>2. Top = stack[n + 1] /\ Cur = heap[stack[n + 1].tag]
    BY <1>2 DEF Top, Cur
  <2>3. Top.start + ret = consumed
    BY <1>1, ReturnFacts
  <2> HIDE DEF n
  <2> QED  BY <1>1, <1>2, <2>1, <2>2, <2>3 DEF Known, ReadIn
<1>4. Cur.type \in TagTypes /\ Top.start < consumed /\ f.next \in Nat /\ Top.start \in Nat
  <2>1. Cur.type \in TagTypes /\ Top.start < consumed
    BY <1>3, PayloadPart DEF Partial
  <2> QED  BY <1>1, <1>2, <2>1, ReturnFacts DEF Frame
<1>5. n = 1 \/ SameLoop(x, heap'[g.tag])
  <2>1. CASE n # 1
    <3>1. Depth > 2
      BY <1>2, <2>1
    <3>2. f.tag \in 1 .. Len(heap)
      BY <1>1, <1>2, <3>1, ReturnFacts
    <3> QED  BY <1>2, <3>2
  <2> QED  BY <2>1
<1> HIDE DEF n, f, x, g
<1>6. \E N : SoFar(buffer, p, n, g, heap'[g.tag], N)
  <2>1. CASE n = 1 \/ x.type = kTagCompound
    <3>1. TagsSoFar(buffer, p, f, M[n])
      BY <1>3, <2>1 DEF SoFar
    <3>2. /\ f.next + 3 <= Len(buffer) /\ At(buffer, f.next) = Cur.type
          /\ Top.start = f.next + 3 + U16At(buffer, f.next + 1)
      BY <1>3, <2>1 DEF ReadNext
    <3>3. f.next < consumed
      <4>1. Len(buffer) \in Nat /\ buffer \in Seq(Byte)
        BY <1>1, TopFacts
      <4>2. f.next + 1 \in Nat /\ f.next + 1 + 2 <= Len(buffer)
        BY <1>4, <3>2, <4>1
      <4>3. U16At(buffer, f.next + 1) \in Nat
        BY <4>1, <4>2, U16Value
      <4> QED  BY <1>2, <1>4, <3>2, <4>3
    <3>4. TagFrom(buffer, p, f.next, consumed)
      BY <1>3, <1>4, <3>2 DEF TagFrom
    <3>5. TagsSoFar(buffer, p, g, M[n] \cup {consumed})
      BY <1>2, <3>1, <3>3, <3>4, TagsGoOn
    <3>6. SoFar(buffer, p, n, g, x, M[n] \cup {consumed})
      BY <1>2, <1>3, <2>1, <3>5 DEF SoFar
    <3>7. SoFar(buffer, p, n, g, heap'[g.tag], M[n] \cup {consumed})
      BY <1>5, <3>6, SoFarKept, WiderItself
    <3> QED  BY <3>7
  <2>2. CASE ~(n = 1 \/ x.type = kTagCompound)
    <3>1. ElementsSoFar(buffer, p, f, x, M[n])
      BY <1>3, <2>2 DEF SoFar
    <3>2. Top.start = f.next /\ Cur.type = x.ctype
      BY <1>3, <2>2 DEF ReadNext
    <3>3. i = f.i + 1
      <4>1. Depth # 2
        BY <1>2, <2>2 DEF n
      <4>2. ~IsCompound(Caller.tag)
        BY <1>2, <2>2 DEF IsCompound, x, f
      <4> QED  BY <1>2, <4>1, <4>2
    <3>4. ElementsSoFar(buffer, p, g, x, M[n] \cup {<<f.i + 1, consumed>>})
      <4>1. f.next < consumed /\ <<x.ctype, f.next, consumed>> \in p.payloads
        BY <1>3, <1>4, <3>2
      <4>2. g.next = consumed /\ g.start = f.start /\ g.i = f.i + 1
        BY <1>2, <3>3
      <4>3. f \in Frame /\ consumed \in Nat
        BY <1>2
      <4> QED  BY <3>1, <4>1, <4>2, <4>3, ElementsGoOn
    <3>5. SoFar(buffer, p, n, g, x, M[n] \cup {<<f.i + 1, consumed>>})
      BY <2>2, <3>4 DEF SoFar
    <3>6. SoFar(buffer, p, n, g, heap'[g.tag], M[n] \cup {<<f.i + 1, consumed>>})
      BY <1>5, <3>5, SoFarKept, WiderItself
    <3> QED  BY <3>6
  <2> QED  BY <2>1, <2>2
<1>7. ASSUME NEW j \in 2 .. n, n > 1
      PROVE  SameLoop(heap[stack[j].tag], heap'[stack[j].tag])
  <2>1. j \in 2 .. Len(stack) - 1
    BY <1>2
  <2> QED  BY <2>1, CallersAre
<1>8. \A j \in 2 .. n - 1 : SameLoop(heap[stack[j].tag], heap'[stack[j].tag])
  <2>1. \A j \in 2 .. n - 1 : j \in 2 .. n /\ n > 1
    BY <1>2
  <2> QED  BY <1>7, <2>1
<1>9. n > 1 => heap'[stack[n].tag].type = heap[stack[n].tag].type
  <2>1. n > 1 => n \in 2 .. n
    BY <1>2
  <2> QED  BY <1>7, <2>1 DEF SameLoop
<1>10. stack'[n].tag = stack[n].tag /\ stack'[n].start = stack[n].start
  BY <1>2 DEF f, g
<1>11. \E N : SoFar(buffer, p, n, stack'[n], heap'[stack'[n].tag], N)
  BY <1>6 DEF g
<1> QED  BY <1>1, <1>2, <1>8, <1>9, <1>10, <1>11, LoopReads

LEMMA ReturnToLoadReads ==
  ASSUME IInv, NEW p, NEW M, Known(p, M), ReturnToLoad
  PROVE  SoundSoFar'
<1>1. pc = "return" /\ Resume(Caller.i) /\ heap' = heap /\ Depth = 2
  BY DEF ReturnToLoad, Resume
<1>2. Caller.i \in Nat
  BY <1>1, ReturnFacts
<1>3. \A id \in 1 .. Len(heap) : SameLoop(heap[id], heap'[id])
  BY <1>1, SameLoopItself
<1> QED  BY <1>1, <1>2, <1>3, ResumeReads

LEMMA ReturnToCompoundReads ==
  ASSUME IInv, NEW p, NEW M, Known(p, M), ReturnToCompound
  PROVE  SoundSoFar'
<1>1. pc = "return" /\ Resume(Caller.i) /\ IsCompound(Caller.tag)
  BY DEF ReturnToCompound, Resume
<1>2. Caller.i \in Nat
  BY <1>1, ReturnFacts
<1> QED  BY <1>1, <1>2, CompoundLoops, ResumeReads

LEMMA ReturnToListReads ==
  ASSUME IInv, NEW p, NEW M, Known(p, M), ReturnToList
  PROVE  SoundSoFar'
<1>1. pc = "return" /\ Resume(Caller.i + 1)
  BY DEF ReturnToList, Resume
<1>2. Caller.i + 1 \in Nat
  BY <1>1, ReturnFacts
<1> QED  BY <1>1, <1>2, ListLoops, ResumeReads

(* Load begins at offset 0, and ends where the buffer does.                 *)
LEMMA LoadReads == ASSUME Load PROVE SoundSoFar'
<1> DEFINE f == NewFrame(Null, 0, 0)
           p == [payloads |-> {}, elements |-> {}, tags |-> {}]
           M == [j \in {1} |-> {0}]
<1>1. stack' = <<f>> /\ pc' = "loop"
  BY DEF Load, LoadFrom
<1>2. Len(stack') = 1 /\ stack'[1] = f /\ f.start = 0 /\ f.next = 0
  BY <1>1 DEF NewFrame
<1>3. Partial(buffer', p)
  BY DEF Partial, IsParse, Parse
<1>4. M[1] = {0}
  OBVIOUS
<1> HIDE DEF f, p, M
<1>5. SoFar(buffer', p, 1, stack'[1], heap'[stack'[1].tag], M[1])
  <2>1. TagsSoFar(buffer', p, stack'[1], M[1])
    BY <1>2, <1>4 DEF TagsSoFar
  <2> QED  BY <1>2, <2>1 DEF SoFar
<1>6. ReadIn(buffer', p, stack', heap', pc', ret', M)
  <2>1. 1 .. Len(stack') - 1 = {} /\ 1 .. Len(stack') = {1}
    BY <1>2
  <2> QED  BY <1>1, <1>5, <2>1 DEF ReadIn
<1>7. Known(p, M)'
  BY <1>3, <1>6 DEF Known
<1> QED  BY <1>1, <1>7, KnownNext

LEMMA LoadReturnsReads ==
  ASSUME IInv, NEW p, NEW M, Known(p, M), LoadReturns
  PROVE  SoundSoFar'
<1> DEFINE q == [payloads |-> p.payloads, elements |-> p.elements, tags |-> M[1]]
<1>1. pc = "loop" /\ Depth = 1 /\ Top.next >= length /\ UNCHANGED buffer /\ pc' = "done"
  BY DEF LoadReturns, InLoad
<1>2. Top = stack[1] /\ Len(stack) = 1 /\ Top.next \in Nat /\ length \in Nat /\ length = Len(buffer)
  BY <1>1, TopFacts
<1>3. Top.next = Len(buffer)
  <2>1. ~(consumed > length)
    BY <1>1 DEF IInv, OverrunRejected, Looping
  <2>2. Top.next = consumed
    BY <1>1, LoopFacts
  <2> QED  BY <1>1, <1>2, <2>1, <2>2
<1>4. TagsSoFar(buffer, p, Top, M[1]) /\ Top.start = 0
  <2>1. Entered(stack, pc, 1) /\ 1 \in 1 .. Len(stack)
    BY <1>1, <1>2 DEF Entered
  <2>2. SoFar(buffer, p, 1, Top, heap[stack[1].tag], M[1])
    BY <1>1, <1>2, <2>1 DEF Known, ReadIn
  <2> QED  BY <2>2 DEF SoFar
<1>5. /\ Wider(p, q) /\ Wider(q, p) /\ q.tags = M[1]
      /\ q.payloads = p.payloads /\ q.elements = p.elements
  BY DEF Wider
<1>6. q \in Parse(buffer)
  <2>1. M[1] \subseteq Offsets(buffer)
    BY <1>3, <1>4 DEF TagsSoFar, Offsets
  <2> QED  BY <2>1 DEF Known, Partial, IsParse, Parse
<1> HIDE DEF q
<1>7. ASSUME NEW e \in q.payloads
      PROVE  e[2] < e[3] /\ PayloadFrom(buffer, q, e[1], e[2], e[3])
  <2>1. e[2] < e[3] /\ PayloadFrom(buffer, p, e[1], e[2], e[3])
    BY <1>5 DEF Known, Partial, IsParse
  <2> QED  BY <1>5, <2>1, WiderPayload
<1>8. ASSUME NEW e \in q.elements
      PROVE  ElementsFrom(buffer, q, e[1], e[2], e[3], e[4])
  <2>1. ElementsFrom(buffer, p, e[1], e[2], e[3], e[4])
    BY <1>5 DEF Known, Partial, IsParse
  <2> QED  BY <1>5, <2>1, WiderElements
<1>9. ASSUME NEW m \in q.tags
      PROVE  TagsFrom(buffer, q, m)
  <2>1. CASE m = Top.next
    BY <1>3, <2>1 DEF TagsFrom
  <2>2. CASE m # Top.next
    <3>1. PICK n \in M[1] : m < n /\ TagFrom(buffer, p, m, n)
      BY <1>4, <1>5, <2>2 DEF TagsSoFar
    <3>2. TagFrom(buffer, q, m, n) /\ n \in q.tags
      BY <1>5, <3>1, WiderTag
    <3> QED  BY <3>1, <3>2 DEF TagsFrom
  <2> QED  BY <2>1, <2>2
<1>10. 0 \in q.tags
  BY <1>4, <1>5 DEF TagsSoFar
<1>11. IsDocument(buffer, q)
  BY <1>6, <1>7, <1>8, <1>9, <1>10 DEF IsDocument, IsParse
<1>12. HasParse(buffer')
  BY <1>1, <1>11 DEF HasParse
<1> QED  BY <1>1, <1>12 DEF SoundSoFar

-----------------------------------------------------------------------------

LEMMA AbortReads == ASSUME NEW how \in {"false", "bad_alloc"}, Abort(how) PROVE SoundSoFar'
BY DEF Abort, SoundSoFar

LEMMA StepReads == ASSUME OInv, ReadStep PROVE SoundSoFar'
<1>1. IInv /\ SoundSoFar
  BY DEF OInv
<1>2. pc # "done"
  <2>1. pc \in {"loop", "body", "return"}
    BY DEF ReadStep, LoadReturns, ReadHeader, HeaderFails, AtHeader, Looping, ReadScalar,
           ReadArray, ReadString, LeafFails, ReadEndList, EnterList, ResizeThrows,
           ListFails, Reading, ReadElement, ElementFails, FinishList, EnterCompound,
           FinishCompound, AtCompoundEnd, ReturnToLoad, ReturnToCompound, ReturnToList,
           Resume
  <2> QED  BY <2>1
<1>3. PICK p, M : Known(p, M)
  BY <1>1, <1>2 DEF SoundSoFar
<1>4. HeaderFails \/ LeafFails \/ ListFails \/ ResizeThrows \/ ElementFails => SoundSoFar'
  BY AbortReads DEF HeaderFails, LeafFails, ListFails, ResizeThrows, ElementFails, Fail
<1>5. CASE LoadReturns       BY <1>1, <1>3, <1>5, LoadReturnsReads
<1>6. CASE ReadHeader        BY <1>1, <1>3, <1>6, ReadHeaderReads
<1>7. CASE ReadScalar        BY <1>1, <1>3, <1>7, ReadScalarReads
<1>8. CASE ReadArray         BY <1>1, <1>3, <1>8, ReadArrayReads
<1>9. CASE ReadString        BY <1>1, <1>3, <1>9, ReadStringReads
<1>10. CASE ReadEndList      BY <1>1, <1>3, <1>10, ReadEndListReads
<1>11. CASE EnterList        BY <1>1, <1>3, <1>11, EnterListReads
<1>12. CASE ReadElement      BY <1>1, <1>3, <1>12, ReadElementReads
<1>13. CASE FinishList       BY <1>1, <1>3, <1>13, FinishListReads
<1>14. CASE EnterCompound    BY <1>1, <1>3, <1>14, EnterCompoundReads
<1>15. CASE FinishCompound   BY <1>1, <1>3, <1>15, FinishCompoundReads
<1>16. CASE ReturnToLoad     BY <1>1, <1>3, <1>16, ReturnToLoadReads
<1>17. CASE ReturnToCompound BY <1>1, <1>3, <1>17, ReturnToCompoundReads
<1>18. CASE ReturnToList     BY <1>1, <1>3, <1>18, ReturnToListReads
<1> QED
  BY <1>4, <1>5, <1>6, <1>7, <1>8, <1>9, <1>10, <1>11, <1>12, <1>13, <1>14, <1>15,
     <1>16, <1>17, <1>18, Zenon DEF ReadStep

LEMMA NextReads == ASSUME OInv, [Next]_vars PROVE OInv'
<1>1. IInv'
  BY NextKeeps DEF OInv
<1>2. CASE UNCHANGED vars
  <2>1. SoundSoFar'
    BY <1>2 DEF OInv, SoundSoFar, Known, vars
  <2> QED  BY <1>1, <2>1 DEF OInv
<1>3. CASE Load
  BY <1>1, <1>3, LoadReads DEF OInv
<1>4. CASE ReadStep
  BY <1>1, <1>4, StepReads DEF OInv
<1> QED  BY <1>2, <1>3, <1>4 DEF Next

(* The empty byte string is a document. *)
LEMMA InitReads == ASSUME Init PROVE OInv
<1> DEFINE p == [payloads |-> {}, elements |-> {}, tags |-> {0}]
<1>1. IInv
  BY InitKeeps
<1>2. buffer = << >> /\ Len(buffer) = 0 /\ pc = "done"
  BY DEF Init
<1>3. IsDocument(buffer, p)
  BY <1>2 DEF IsDocument, IsParse, Parse, Offsets, TagsFrom
<1>4. SoundSoFar
  BY <1>2, <1>3 DEF SoundSoFar, HasParse
<1> QED  BY <1>1, <1>4 DEF OInv

(* Load accepts nothing but documents: when it returns true, the bytes it   *)
(* was given can be parsed by the grammar from the first to the last.  With *)
(* Accepts, Load returns true of documents exactly.                         *)
THEOREM AcceptsOnly == Spec => [](pc = "done" /\ result = "true" => HasParse(buffer))
<1>1. Init => OInv
  BY InitReads
<1>2. OInv /\ [Next]_vars => OInv'
  BY NextReads
<1>3. OInv => (pc = "done" /\ result = "true" => HasParse(buffer))
  BY DEF OInv, SoundSoFar
<1> QED  BY <1>1, <1>2, <1>3, PTL DEF Spec

(* The same of a ParseOf that knows the parse of every document, as the one *)
(* that the runs use does.                                                  *)
THEOREM AcceptsParsed ==
  ASSUME \A b : HasParse(b) => IsDocument(b, ParseOf(b))
  PROVE  Spec => []OnlyDocumentsAccepted
<1>1. Init => OInv
  BY InitReads
<1>2. OInv /\ [Next]_vars => OInv'
  BY NextReads
<1>3. OInv => OnlyDocumentsAccepted
  BY DEF OInv, SoundSoFar, OnlyDocumentsAccepted
<1> QED  BY <1>1, <1>2, <1>3, PTL DEF Spec

=============================================================================
