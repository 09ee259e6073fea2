-------------------------- MODULE TagReader_proofs --------------------------
(***************************************************************************)
(* What holds of Load for every buffer, whatever its length.               *)
(***************************************************************************)
EXTENDS TagReader, TagFormat_proofs

USE DEF Null, SizeofTagType, SizeofU16, SizeofU32

-----------------------------------------------------------------------------
(* Byte strings                                                             *)

LEMMA ByteAt ==
  ASSUME NEW b \in Seq(Byte), NEW o \in Nat, o < Len(b)
  PROVE  At(b, o) \in Byte
<1>1. o + 1 \in 1 .. Len(b)
  OBVIOUS
<1> QED  BY <1>1, ElementOfSeq DEF At

LEMMA U16Value ==
  ASSUME NEW b \in Seq(Byte), NEW o \in Nat, o + 2 <= Len(b)
  PROVE  U16At(b, o) \in Nat
<1>1. At(b, o) \in Byte
  BY ByteAt
<1>2. At(b, o + 1) \in Byte
  <2>1. o + 1 \in Nat /\ o + 1 < Len(b)
    OBVIOUS
  <2> QED  BY <2>1, ByteAt
<1>3. At(b, o) \in Nat /\ At(b, o + 1) \in Nat
  <2>1. \A x \in Byte : x \in Nat
    BY DEF Byte
  <2> QED  BY <1>1, <1>2, <2>1, Zenon
<1>4. \A m, n \in Nat : 256 * m + n \in Nat
  OBVIOUS
<1> QED  BY <1>3, <1>4, Zenon DEF U16At

LEMMA U32Value ==
  ASSUME NEW b \in Seq(Byte), NEW o \in Nat, o + 4 <= Len(b)
  PROVE  U32At(b, o) \in Nat
<1>1. U16At(b, o) \in Nat
  BY U16Value
<1>2. U16At(b, o + 2) \in Nat
  <2>1. o + 2 \in Nat /\ o + 2 + 2 <= Len(b)
    OBVIOUS
  <2> QED  BY <2>1, U16Value
<1> QED  BY <1>1, <1>2 DEF U32At

LEMMA BytesType ==
  ASSUME NEW b \in Seq(Byte), NEW o \in Nat, NEW n \in Nat, o + n <= Len(b)
  PROVE  Bytes(b, o, n) \in Seq(Byte)
<1>1. \A i \in o + 1 .. o + n : b[i] \in Byte
  <2> TAKE i \in o + 1 .. o + n
  <2>1. i \in 1 .. Len(b)
    OBVIOUS
  <2> QED  BY <2>1, ElementOfSeq
<1> QED  BY <1>1, SubSeqProperties DEF Bytes

LEMMA WithBeyond ==
  ASSUME NEW b \in Seq(Byte)
  PROVE  Append(b, Beyond) \in Seq(Byte) /\ Len(Append(b, Beyond)) = Len(b) + 1
BY BeyondAssumption

-----------------------------------------------------------------------------
(* Tags                                                                     *)

LEMMA NamedTagType ==
  ASSUME NEW t \in TagTypes, NEW n \in Name
  PROVE  /\ [NewTag(t) EXCEPT !.name = n] \in Tag
         /\ [NewTag(t) EXCEPT !.name = n].ctype = kTagEnd
BY NewTagType DEF Tag

(* The heap only changes in these two ways: a tag is added, or a part of a  *)
(* tag is set.  No tag ever changes its type, and no list whose children    *)
(* have a type loses that.                                                  *)
SameTypes(h, g) ==
  /\ g \in Seq(Tag)
  /\ Len(h) <= Len(g)
  /\ \A id \in 1 .. Len(h) :
       /\ g[id].type = h[id].type
       /\ h[id].ctype \in TagTypes => g[id].ctype \in TagTypes

LEMMA AddTag ==
  ASSUME NEW h \in Seq(Tag), NEW t \in Tag
  PROVE  /\ SameTypes(h, Append(h, t))
         /\ Len(Append(h, t)) = Len(h) + 1
         /\ Append(h, t)[Len(h) + 1] = t
BY AppendProperties DEF SameTypes

LEMMA SetTag ==
  ASSUME NEW h \in Seq(Tag), NEW id \in 1 .. Len(h), NEW t \in Tag,
         t.type = h[id].type, h[id].ctype \in TagTypes => t.ctype \in TagTypes
  PROVE  SameTypes(h, [h EXCEPT ![id] = t])
<1>1. /\ [h EXCEPT ![id] = t] \in Seq(Tag)
      /\ Len([h EXCEPT ![id] = t]) = Len(h)
      /\ \A j \in 1 .. Len(h) : [h EXCEPT ![id] = t][j] = IF j = id THEN t ELSE h[j]
  BY ExceptSeq
<1> QED  BY <1>1 DEF SameTypes

LEMMA SetData ==
  ASSUME NEW h \in Seq(Tag), NEW id \in 1 .. Len(h), NEW d \in Seq(Byte)
  PROVE  SameTypes(h, [h EXCEPT ![id].data = d])
<1>1. h[id] \in Tag
  BY ElementOfSeq
<1>2. /\ [h[id] EXCEPT !.data = d] \in Tag
      /\ [h[id] EXCEPT !.data = d].type = h[id].type
      /\ [h[id] EXCEPT !.data = d].ctype = h[id].ctype
  BY <1>1 DEF Tag
<1>3. [h EXCEPT ![id].data = d] = [h EXCEPT ![id] = [h[id] EXCEPT !.data = d]]
  OBVIOUS
<1> QED  BY <1>2, <1>3, SetTag

LEMMA SetListType ==
  ASSUME NEW h \in Seq(Tag), NEW id \in 1 .. Len(h),
         NEW t \in kTagEnd .. kTagIntArray, h[id].ctype \notin TagTypes
  PROVE  SameTypes(h, [h EXCEPT ![id].ctype = t])
<1>1. h[id] \in Tag
  BY ElementOfSeq
<1>2. /\ [h[id] EXCEPT !.ctype = t] \in Tag
      /\ [h[id] EXCEPT !.ctype = t].type = h[id].type
  BY <1>1 DEF Tag
<1>3. [h EXCEPT ![id].ctype = t] = [h EXCEPT ![id] = [h[id] EXCEPT !.ctype = t]]
  OBVIOUS
<1> QED  BY <1>2, <1>3, SetTag

LEMMA SetList ==
  ASSUME NEW h \in Seq(Tag), NEW id \in 1 .. Len(h),
         NEW t \in kTagEnd .. kTagIntArray, NEW k \in Seq(Nat),
         h[id].ctype \notin TagTypes
  PROVE  SameTypes(h, [h EXCEPT ![id].ctype = t, ![id].kids = k])
<1>1. h[id] \in Tag
  BY ElementOfSeq
<1> DEFINE g == [h[id] EXCEPT !.ctype = t, !.kids = k]
<1>2. g \in Tag /\ g.type = h[id].type
  BY <1>1 DEF Tag
<1>3. [h EXCEPT ![id].ctype = t, ![id].kids = k] = [h EXCEPT ![id] = g]
  OBVIOUS
<1> QED  BY <1>2, <1>3, SetTag

LEMMA SetKid ==
  ASSUME NEW h \in Seq(Tag), NEW id \in 1 .. Len(h), NEW j \in Nat, NEW kid \in Nat
  PROVE  SameTypes(h, [h EXCEPT ![id].kids[j] = kid])
<1>1. h[id] \in Tag /\ h[id].kids \in Seq(Nat)
  <2>1. h[id] \in Tag
    BY ElementOfSeq
  <2> QED  BY <2>1 DEF Tag
<1> DEFINE k == [h[id].kids EXCEPT ![j] = kid]
<1>2. k \in Seq(Nat)
  <2>1. CASE j \in 1 .. Len(h[id].kids)
    BY <1>1, <2>1, ExceptSeq
  <2>2. CASE j \notin 1 .. Len(h[id].kids)
    <3>1. DOMAIN h[id].kids = 1 .. Len(h[id].kids) /\ h[id].kids = [x \in DOMAIN h[id].kids |-> h[id].kids[x]]
      BY <1>1, LenProperties
    <3>2. k = h[id].kids
      BY <2>2, <3>1
    <3> QED  BY <1>1, <3>2
  <2> QED  BY <2>1, <2>2
<1>3. [h[id] EXCEPT !.kids = k] \in Tag /\ [h[id] EXCEPT !.kids = k].type = h[id].type
      /\ [h[id] EXCEPT !.kids = k].ctype = h[id].ctype
  BY <1>1, <1>2 DEF Tag
<1>4. [h EXCEPT ![id].kids[j] = kid] = [h EXCEPT ![id] = [h[id] EXCEPT !.kids = k]]
  OBVIOUS
<1> QED  BY <1>3, <1>4, SetTag

LEMMA PutType ==
  ASSUME NEW m \in Map, NEW k \in Name, NEW id \in Nat
  PROVE  Put(m, k, id) \in Map
BY DEF Map, Put, Drop

LEMMA SetMap ==
  ASSUME NEW h \in Seq(Tag), NEW id \in 1 .. Len(h), NEW k \in Name, NEW kid \in Nat
  PROVE  SameTypes(h, [h EXCEPT ![id].map = Put(@, k, kid)])
<1>1. h[id] \in Tag /\ h[id].map \in Map
  <2>1. h[id] \in Tag
    BY ElementOfSeq
  <2> QED  BY <2>1 DEF Tag
<1> DEFINE m == Put(h[id].map, k, kid)
<1>2. m \in Map
  BY <1>1, PutType
<1>3. [h[id] EXCEPT !.map = m] \in Tag /\ [h[id] EXCEPT !.map = m].type = h[id].type
      /\ [h[id] EXCEPT !.map = m].ctype = h[id].ctype
  BY <1>1, <1>2 DEF Tag
<1>4. [h EXCEPT ![id].map = Put(@, k, kid)] = [h EXCEPT ![id] = [h[id] EXCEPT !.map = m]]
  OBVIOUS
<1> QED  BY <1>3, <1>4, SetTag

-----------------------------------------------------------------------------
(* Frames                                                                   *)

LEMMA FrameType ==
  ASSUME NEW f \in Frame
  PROVE  /\ f.tag \in Nat /\ f.head \in Nat /\ f.start \in Nat
         /\ f.next \in Nat /\ f.i \in Nat
BY DEF Frame

LEMMA NewFrameType ==
  ASSUME NEW id \in Nat, NEW head \in Nat, NEW start \in Nat
  PROVE  LET f == NewFrame(id, head, start) IN
         /\ f \in Frame
         /\ f.tag = id /\ f.head = head /\ f.start = start /\ f.next = start
BY DEF NewFrame, Frame

LEMMA Push ==
  ASSUME NEW s \in Seq(Frame), NEW f \in Frame
  PROVE  LET t == Append(s, f) IN
         /\ t \in Seq(Frame)
         /\ Len(t) = Len(s) + 1
         /\ \A m \in 1 .. Len(s) : t[m] = s[m]
         /\ t[Len(s) + 1] = f
BY AppendProperties

LEMMA Pop ==
  ASSUME NEW s \in Seq(Frame), Len(s) > 1
  PROVE  LET t == SubSeq(s, 1, Len(s) - 1) IN
         /\ t \in Seq(Frame)
         /\ Len(t) = Len(s) - 1
         /\ \A m \in 1 .. Len(s) - 1 : t[m] = s[m]
<1>1. \A m \in 1 .. Len(s) - 1 : s[m] \in Frame
  BY ElementOfSeq
<1>2. Len(s) - 1 \in Int
  OBVIOUS
<1> QED  BY <1>1, <1>2, SubSeqProperties

-----------------------------------------------------------------------------
(* The shape of the call stack `s`, over a heap `h`, when the innermost     *)
(* call is at `p`.  The frames above Load's belong to tags, and all but the *)
(* innermost to containers.  Each of them has cost three bytes: a type and  *)
(* a name's length, or the five that start a list.                          *)

Entered(s, p, j)   == j < Len(s) \/ p = "loop"   \* the loop of frame j runs
Container(h, id)   == h[id].type \in {kTagList, kTagCompound}

(* What frame j has to do with the frames around it. *)
FrameOK(s, h, p, j) ==
  /\ 3 * (j - 1) <= s[j].start /\ s[j].start <= s[j].next
  /\ j > 1 => s[j].tag \in 1 .. Len(h)
  /\ j > 1 /\ Entered(s, p, j) =>
       /\ Container(h, s[j].tag)
       /\ h[s[j].tag].type = kTagList =>
            /\ s[j].start + 5 <= s[j].next
            /\ h[s[j].tag].ctype \in TagTypes
  /\ j > 1 /\ j = Len(s) /\ p = "body" => h[s[j].tag].ctype = kTagEnd
  /\ j < Len(s) => s[j].next + s[j + 1].head = s[j + 1].start

FramesOK(s, h, p) ==
  /\ p \in {"body", "return"} => Len(s) > 1
  /\ \A j \in 1 .. Len(s) : FrameOK(s, h, p, j)

LEMMA FrameFacts ==
  ASSUME NEW s \in Seq(Frame)
  PROVE  /\ Len(s) \in Nat
         /\ \A j \in 1 .. Len(s) : s[j] \in Frame
         /\ \A j \in 1 .. Len(s) : /\ s[j].tag \in Nat /\ s[j].head \in Nat
                                   /\ s[j].start \in Nat /\ s[j].next \in Nat
                                   /\ s[j].i \in Nat
<1>1. Len(s) \in Nat
  OBVIOUS
<1>2. \A j \in 1 .. Len(s) : s[j] \in Frame
  BY ElementOfSeq
<1> QED  BY <1>1, <1>2, FrameType

LEMMA FramesPush ==
  ASSUME NEW s \in Seq(Frame), NEW h \in Seq(Tag), NEW g, NEW f \in Frame,
         Len(s) > 0, FramesOK(s, h, "loop"), SameTypes(h, g),
         f.tag \in 1 .. Len(g), f.next = f.start, f.start >= 3 * Len(s),
         f.start = s[Len(s)].next + f.head, g[f.tag].ctype = kTagEnd
  PROVE  FramesOK(Append(s, f), g, "body")
<1> DEFINE t == Append(s, f)
<1>1. /\ Len(t) = Len(s) + 1
      /\ \A j \in 1 .. Len(s) : t[j] = s[j]
      /\ t[Len(s) + 1] = f
  BY Push
<1>2. f.start \in Nat /\ f.next \in Nat /\ f.head \in Nat /\ Len(s) \in Nat
  BY FrameType
<1>3. Len(h) \in Nat /\ Len(g) \in Nat /\ Len(h) <= Len(g)
      /\ \A id \in 1 .. Len(h) :
           /\ g[id].type = h[id].type
           /\ h[id].ctype \in TagTypes => g[id].ctype \in TagTypes
  BY DEF SameTypes
<1> HIDE DEF t
<1>4. ASSUME NEW j \in 1 .. Len(s)
      PROVE  FrameOK(t, g, "body", j)
  <2>1. FrameOK(s, h, "loop", j)
    BY DEF FramesOK
  <2>2. t[j] = s[j] /\ j <= Len(s) /\ j \in Nat /\ s[j].tag \in Nat
    BY <1>1, FrameFacts
  <2>3. /\ j = Len(s) => t[j + 1] = f
        /\ j < Len(s) => t[j + 1] = s[j + 1]
    <3>1. j < Len(s) => j + 1 \in 1 .. Len(s)
      BY <1>2
    <3> QED  BY <1>1, <3>1
  <2>4. j > 1 => /\ s[j].tag \in 1 .. Len(h) /\ s[j].tag \in 1 .. Len(g)
                 /\ g[s[j].tag].type = h[s[j].tag].type
                 /\ h[s[j].tag].ctype \in TagTypes => g[s[j].tag].ctype \in TagTypes
    BY <1>3, <2>1, <2>2 DEF FrameOK
  <2>5. 3 * (j - 1) <= t[j].start /\ t[j].start <= t[j].next
    BY <2>1, <2>2 DEF FrameOK
  <2>6. j > 1 => /\ t[j].tag \in 1 .. Len(g)
                 /\ Container(g, t[j].tag)
                 /\ g[t[j].tag].type = kTagList =>
                      t[j].start + 5 <= t[j].next /\ g[t[j].tag].ctype \in TagTypes
    BY <2>1, <2>2, <2>4 DEF FrameOK, Entered, Container
  <2>7. j # Len(t) /\ t[j].next + t[j + 1].head = t[j + 1].start
    <3>1. j # Len(t)
      BY <1>1, <1>2, <2>2
    <3>2. CASE j = Len(s)
      <4>1. t[j + 1] = f /\ t[j] = s[Len(s)]
        BY <2>2, <2>3, <3>2, Zenon
      <4> QED  BY <3>1, <4>1, Zenon
    <3>3. CASE j < Len(s)
      <4>1. t[j + 1] = s[j + 1] /\ t[j] = s[j]
        BY <2>2, <2>3, <3>3, Zenon
      <4>2. s[j].next + s[j + 1].head = s[j + 1].start
        BY <2>1, <3>3 DEF FrameOK
      <4> QED  BY <3>1, <4>1, <4>2, Zenon
    <3> QED  BY <1>2, <2>2, <3>1, <3>2, <3>3
  <2> QED  BY <2>5, <2>6, <2>7 DEF FrameOK
<1>5. FrameOK(t, g, "body", Len(s) + 1)
  BY <1>1, <1>2 DEF FrameOK, Entered
<1>6. \A j \in 1 .. Len(t) : j \in 1 .. Len(s) \/ j = Len(s) + 1
  BY <1>1, <1>2
<1>7. Len(t) > 1
  BY <1>1, <1>2
<1>8. FramesOK(t, g, "body")
  BY <1>4, <1>5, <1>6, <1>7 DEF FramesOK
<1> QED  BY <1>8 DEF t

LEMMA FramesStay ==
  ASSUME NEW s \in Seq(Frame), NEW h \in Seq(Tag), NEW g,
         NEW p \in {"loop", "body"}, Len(s) > 1, FramesOK(s, h, p), SameTypes(h, g)
  PROVE  FramesOK(s, g, "return")
<1>1. Len(h) \in Nat /\ Len(g) \in Nat /\ Len(h) <= Len(g) /\ Len(s) \in Nat
      /\ \A id \in 1 .. Len(h) :
           /\ g[id].type = h[id].type
           /\ h[id].ctype \in TagTypes => g[id].ctype \in TagTypes
  BY DEF SameTypes
<1>2. ASSUME NEW j \in 1 .. Len(s)
      PROVE  FrameOK(s, g, "return", j)
  <2>1. FrameOK(s, h, p, j)
    BY DEF FramesOK
  <2>2. j \in Nat /\ s[j].tag \in Nat
    BY FrameFacts
  <2> QED  BY <1>1, <2>1, <2>2 DEF FrameOK, Entered, Container
<1> QED  BY <1>2 DEF FramesOK

LEMMA Between == \A i, j, k \in Nat : i <= j /\ j <= k => i <= k
OBVIOUS

(* A loop is entered or gone on with: frame n of `s`, now the innermost,    *)
(* has moved forward.                                                       *)
LEMMA FramesLoop ==
  ASSUME NEW s \in Seq(Frame), NEW h \in Seq(Tag), NEW p, FramesOK(s, h, p),
         NEW t \in Seq(Frame), NEW g, SameTypes(h, g),
         NEW n \in 1 .. Len(s), Len(t) = n,
         \A j \in 1 .. n - 1 : t[j] = s[j],
         t[n].tag = s[n].tag, t[n].head = s[n].head, t[n].start = s[n].start,
         s[n].next <= t[n].next,
         n > 1 => /\ Container(h, s[n].tag)
                  /\ h[s[n].tag].type = kTagList =>
                       s[n].start + 5 <= t[n].next /\ g[s[n].tag].ctype \in TagTypes
  PROVE  FramesOK(t, g, "loop")
<1>1. Len(h) \in Nat /\ Len(g) \in Nat /\ Len(h) <= Len(g) /\ Len(s) \in Nat
      /\ \A id \in 1 .. Len(h) :
           /\ g[id].type = h[id].type
           /\ h[id].ctype \in TagTypes => g[id].ctype \in TagTypes
  BY DEF SameTypes
<1>2. ASSUME NEW j \in 1 .. n - 1
      PROVE  FrameOK(t, g, "loop", j)
  <2>1. j \in 1 .. Len(s) /\ j + 1 \in 1 .. Len(s) /\ j < Len(s) /\ j \in Nat /\ n \in Nat
    BY <1>1
  <2>2. FrameOK(s, h, p, j)
    BY <2>1 DEF FramesOK
  <2>3. s[j].tag \in Nat
    BY <2>1, FrameFacts
  <2>4. t[j + 1].head = s[j + 1].head /\ t[j + 1].start = s[j + 1].start
    <3>1. CASE j + 1 = n
      BY <3>1
    <3>2. CASE j + 1 # n
      <4>1. j + 1 \in 1 .. n - 1
        BY <3>2, <2>1
      <4> QED  BY <4>1
    <3> QED  BY <3>1, <3>2
  <2>5. j > 1 => /\ s[j].tag \in 1 .. Len(h) /\ s[j].tag \in 1 .. Len(g)
                 /\ g[s[j].tag].type = h[s[j].tag].type
                 /\ h[s[j].tag].ctype \in TagTypes => g[s[j].tag].ctype \in TagTypes
    <3>1. j > 1 => s[j].tag \in 1 .. Len(h)
      BY <2>2 DEF FrameOK
    <3> QED  BY <1>1, <3>1
  <2> QED  BY <2>1, <2>2, <2>4, <2>5 DEF FrameOK, Entered, Container
<1>3. FrameOK(t, g, "loop", n)
  <2>1. FrameOK(s, h, p, n)
    BY DEF FramesOK
  <2>2. /\ s[n].start \in Nat /\ s[n].next \in Nat /\ t[n].next \in Nat
        /\ s[n].tag \in Nat /\ n \in Nat
    <3>1. n \in 1 .. Len(t) /\ n \in Nat
      BY <1>1
    <3> QED  BY <3>1, FrameFacts
  <2>3. 3 * (n - 1) <= t[n].start /\ t[n].start <= t[n].next
    <3>1. 3 * (n - 1) <= s[n].start /\ s[n].start <= s[n].next
      BY <2>1 DEF FrameOK
    <3>2. s[n].start <= t[n].next
      BY <2>2, <3>1, Between
    <3> QED  BY <3>1, <3>2
  <2>4. n > 1 => /\ t[n].tag \in 1 .. Len(g)
                 /\ g[t[n].tag].type = h[s[n].tag].type
    BY <1>1, <2>1, <2>2 DEF FrameOK
  <2>5. n > 1 => /\ Container(g, t[n].tag)
                 /\ g[t[n].tag].type = kTagList =>
                      t[n].start + 5 <= t[n].next /\ g[t[n].tag].ctype \in TagTypes
    BY <2>4 DEF Container
  <2> QED  BY <2>2, <2>3, <2>4, <2>5 DEF FrameOK
<1>4. \A j \in 1 .. Len(t) : j \in 1 .. n - 1 \/ j = n
  BY <1>1
<1> QED  BY <1>2, <1>3, <1>4 DEF FramesOK

LEMMA FramesFirst ==
  ASSUME NEW h
  PROVE  FramesOK(<<NewFrame(Null, 0, 0)>>, h, "loop")
BY DEF FramesOK, FrameOK, NewFrame

LEMMA FramesNone ==
  ASSUME NEW h
  PROVE  FramesOK(<< >>, h, "done")
BY DEF FramesOK

-----------------------------------------------------------------------------
(* The compounds that have counted themselves in read_level.                *)

Open(s, h, p) ==
  {j \in 2 .. Len(s) : h[s[j].tag].type = kTagCompound /\ Entered(s, p, j)}

LEMMA OpenIsFinite ==
  ASSUME NEW s \in Seq(Frame), NEW h, NEW p
  PROVE  IsFiniteSet(Open(s, h, p)) /\ Cardinality(Open(s, h, p)) \in Nat
<1>1. IsFiniteSet(2 .. Len(s))
  BY FS_Interval
<1>2. Open(s, h, p) \in SUBSET (2 .. Len(s))
  BY DEF Open
<1> QED  BY <1>1, <1>2, FS_Subset, FS_CardinalityType

LEMMA OpenCompoundsAre == OpenCompounds = Open(stack, heap, pc)
BY DEF OpenCompounds, Open, Entered, Depth, IsCompound

LEMMA OpenPush ==
  ASSUME NEW s \in Seq(Frame), NEW h \in Seq(Tag), NEW g, NEW f \in Frame,
         FramesOK(s, h, "loop"), SameTypes(h, g)
  PROVE  Open(Append(s, f), g, "body") = Open(s, h, "loop")
<1> DEFINE t == Append(s, f)
<1>1. Len(t) = Len(s) + 1 /\ Len(s) \in Nat /\ \A j \in 1 .. Len(s) : t[j] = s[j]
  BY Push
<1> HIDE DEF t
<1>2. ASSUME NEW j \in 2 .. Len(s)
      PROVE  g[t[j].tag].type = h[s[j].tag].type
  <2>1. FrameOK(s, h, "loop", j) /\ j > 1
    BY <1>1 DEF FramesOK
  <2>2. s[j].tag \in 1 .. Len(h)
    BY <2>1 DEF FrameOK
  <2>3. t[j] = s[j]
    BY <1>1
  <2> QED  BY <2>2, <2>3 DEF SameTypes
<1>3. Open(t, g, "body") = {j \in 2 .. Len(s) : g[t[j].tag].type = kTagCompound}
  BY <1>1 DEF Open, Entered
<1>4. Open(s, h, "loop") = {j \in 2 .. Len(s) : h[s[j].tag].type = kTagCompound}
  BY DEF Open, Entered
<1>5. Open(t, g, "body") = Open(s, h, "loop")
  BY <1>2, <1>3, <1>4
<1> QED  BY <1>5 DEF t

(* A call that is about to return is not open, nor is one at its body. *)
LEMMA OpenReturn ==
  ASSUME NEW s \in Seq(Frame), NEW h \in Seq(Tag), NEW g, NEW p,
         FramesOK(s, h, p), SameTypes(h, g)
  PROVE  Open(s, g, "return") = Open(s, h, p) \ {Len(s)}
<1>1. ASSUME NEW j \in 2 .. Len(s)
      PROVE  g[s[j].tag].type = h[s[j].tag].type
  <2>1. FrameOK(s, h, p, j)
    BY DEF FramesOK
  <2> QED  BY <2>1 DEF FrameOK, SameTypes
<1> QED  BY <1>1 DEF Open, Entered

-----------------------------------------------------------------------------
(* The inductive invariant                                                  *)

IInv ==
  /\ TypeOK
  /\ FramesOK(stack, heap, pc)
  /\ CursorsAgree
  /\ OverrunRejected
  /\ LoadReadsAll
  /\ Cardinality(Open(stack, heap, pc)) <= read_level

(* A step leaves alone what read_level counts beyond the open compounds.    *)
LevelKept ==
  read_level' - Cardinality(Open(stack', heap', pc')) =
    read_level - Cardinality(Open(stack, heap, pc))

LEMMA LevelBound ==
  ASSUME IInv, LevelKept, stack' \in Seq(Frame), read_level' \in Nat
  PROVE  Cardinality(Open(stack', heap', pc')) <= read_level'
<1>1. Cardinality(Open(stack, heap, pc)) \in Nat
  BY OpenIsFinite DEF IInv, TypeOK
<1>2. Cardinality(Open(stack', heap', pc')) \in Nat
  BY OpenIsFinite
<1>3. read_level \in Nat /\ Cardinality(Open(stack, heap, pc)) <= read_level
  BY DEF IInv, TypeOK
<1>4. read_level' - Cardinality(Open(stack', heap', pc')) =
        read_level - Cardinality(Open(stack, heap, pc))
  BY DEF LevelKept
<1> QED  BY <1>1, <1>2, <1>3, <1>4

LEMMA RunningFacts ==
  ASSUME IInv, pc # "done"
  PROVE  /\ Depth \in Nat /\ Depth > 0 /\ length \in Nat /\ Len(heap) \in Nat
         /\ Top \in Frame /\ Top.tag \in Nat /\ Top.head \in Nat
         /\ Top.start \in Nat /\ Top.next \in Nat /\ Top.i \in Nat
         /\ 3 * (Depth - 1) <= Top.start /\ Top.start <= Top.next
         /\ Depth > 1 => Top.tag \in 1 .. Len(heap) /\ Cur \in Tag
         /\ Depth > 1 /\ pc = "loop" =>
              /\ Cur.type \in {kTagList, kTagCompound}
              /\ Cur.type = kTagList => /\ Top.start + 5 <= Top.next
                                        /\ Cur.ctype \in TagTypes
<1>1. /\ stack \in Seq(Frame) /\ heap \in Seq(Tag) /\ buffer \in Seq(Byte)
      /\ (Depth = 0) <=> (pc = "done")
  BY DEF IInv, TypeOK
<1>2. Depth \in Nat /\ Depth > 0 /\ length \in Nat /\ Len(heap) \in Nat
  BY <1>1 DEF Depth, length
<1>3. Depth \in 1 .. Len(stack)
  BY <1>2 DEF Depth
<1>4. /\ Top \in Frame /\ Top.tag \in Nat /\ Top.head \in Nat
      /\ Top.start \in Nat /\ Top.next \in Nat /\ Top.i \in Nat
  BY <1>1, <1>3, FrameFacts DEF Top
<1>5. FrameOK(stack, heap, pc, Depth)
  BY <1>3 DEF IInv, FramesOK
<1>6. /\ 3 * (Depth - 1) <= Top.start /\ Top.start <= Top.next
      /\ Depth > 1 => Top.tag \in 1 .. Len(heap)
      /\ Depth > 1 /\ pc = "loop" =>
           /\ Cur.type \in {kTagList, kTagCompound}
           /\ Cur.type = kTagList => /\ Top.start + 5 <= Top.next
                                     /\ Cur.ctype \in TagTypes
  BY <1>5 DEF FrameOK, Entered, Container, Top, Cur
<1>7. Depth > 1 => Cur \in Tag
  BY <1>1, <1>6, ElementOfSeq DEF Cur
<1> QED  BY <1>2, <1>4, <1>6, <1>7

(* The four ways a step changes the call stack keep the invariant.          *)

LEMMA AbortKeeps ==
  ASSUME IInv, pc # "done", NEW how \in {"false", "bad_alloc"}, Abort(how)
  PROVE  IInv'
<1> USE DEF Abort
<1>1. heap' \in Seq(Tag)
  <2>1. heap \in Seq(Tag)
    BY DEF IInv, TypeOK
  <2>2. CASE ~InLoad
    <3>1. 2 \in 1 .. Len(stack)
      <4>1. Depth \in Nat /\ Depth > 0
        BY RunningFacts
      <4>2. Depth # 1
        BY <2>2 DEF InLoad
      <4>3. 2 \in 1 .. Depth
        BY <4>1, <4>2
      <4> QED  BY <4>3 DEF Depth
    <3>2. stack[2].tag \in 1 .. Len(heap)
      BY <3>1 DEF IInv, FramesOK, FrameOK
    <3>3. \A j \in 1 .. stack[2].tag - 1 : heap[j] \in Tag
      BY <2>1, <3>2, ElementOfSeq
    <3>4. stack[2].tag - 1 \in Int
      BY <3>2
    <3>5. SubSeq(heap, 1, stack[2].tag - 1) \in Seq(Tag)
      BY <3>3, <3>4, SubSeqProperties
    <3> QED  BY <2>2, <3>5
  <2> QED  BY <2>1, <2>2
<1>2. stack' = << >> /\ stack' \in Seq(Frame) /\ Len(stack') = 0 /\ Depth' = 0
  BY DEF Depth
<1>3. TypeOK'
  BY <1>1, <1>2 DEF IInv, TypeOK, Results
<1>4. FramesOK(stack, heap, pc)'
  BY <1>2, FramesNone
<1>5. CursorsAgree' /\ OverrunRejected' /\ LoadReadsAll'
  BY <1>2 DEF IInv, CursorsAgree, OverrunRejected, LoadReadsAll, length
<1>6. Cardinality(Open(stack', heap', pc')) <= read_level'
  <2>1. Open(stack', heap', pc') = {}
    BY <1>2 DEF Open
  <2>2. Cardinality({}) = 0
    BY FS_EmptySet
  <2>3. read_level' \in Nat
    BY DEF IInv, TypeOK
  <2>4. 0 <= read_level'
    BY <2>3
  <2>5. Cardinality(Open(stack', heap', pc')) = 0
    BY <2>1, <2>2, Zenon
  <2> QED  BY <2>4, <2>5
<1> QED  BY <1>3, <1>4, <1>5, <1>6 DEF IInv

LEMMA ReturnKeeps ==
  ASSUME IInv, pc \in {"loop", "body"}, Depth > 1, SameTypes(heap, heap'),
         pc' = "return", ret' \in Nat,
         consumed' = Top.start + ret', consumed' <= length,
         read_level' \in Nat,
         read_level' - Cardinality(Open(stack, heap, pc) \ {Depth}) =
           read_level - Cardinality(Open(stack, heap, pc)),
         UNCHANGED <<root, buffer, stack, result, loads>>
  PROVE  IInv' /\ LevelKept
<1>1. stack \in Seq(Frame) /\ heap \in Seq(Tag) /\ stack' = stack /\ Depth' = Depth
  BY DEF IInv, TypeOK, Depth
<1>2. TypeOK'
  <2>1. Top.start \in Nat
    BY RunningFacts
  <2> QED  BY <1>1, <2>1 DEF IInv, TypeOK, SameTypes
<1>3. FramesOK(stack, heap, pc)'
  BY <1>1, FramesStay DEF IInv, Depth
<1>4. CursorsAgree'
  BY <1>1 DEF IInv, CursorsAgree, Top
<1>5. OverrunRejected' /\ LoadReadsAll'
  <2>1. consumed' \in Nat /\ length \in Nat /\ length' = length
    BY <1>2, RunningFacts DEF TypeOK, length
  <2> QED  BY <2>1 DEF OverrunRejected, LoadReadsAll
<1>6. LevelKept
  <2>1. Open(stack', heap', pc') = Open(stack, heap, pc) \ {Depth}
    BY <1>1, OpenReturn DEF IInv, Depth
  <2> QED  BY <2>1 DEF LevelKept
<1>7. Cardinality(Open(stack', heap', pc')) <= read_level'
  BY <1>1, <1>6, LevelBound
<1> QED  BY <1>2, <1>3, <1>4, <1>5, <1>6, <1>7 DEF IInv

LEMMA PushKeeps ==
  ASSUME IInv, pc = "loop", SameTypes(heap, heap'),
         NEW f \in Frame, stack' = Append(stack, f), pc' = "body",
         f.tag \in 1 .. Len(heap'), f.next = f.start, f.start >= 3 * Depth,
         f.start = Top.next + f.head, heap'[f.tag].ctype = kTagEnd,
         consumed' = f.start, consumed' <= length + 1,
         UNCHANGED <<root, buffer, ret, result, read_level, loads>>
  PROVE  IInv' /\ LevelKept
<1>1. stack \in Seq(Frame) /\ heap \in Seq(Tag)
  BY DEF IInv, TypeOK
<1>2. /\ stack' \in Seq(Frame) /\ Depth' = Depth + 1 /\ stack'[Depth'] = f
      /\ Top' = f
  BY <1>1, Push DEF Depth, Top
<1>3. f.start \in Nat /\ Depth \in Nat
  BY <1>2, FrameType, RunningFacts
<1>4. TypeOK'
  BY <1>2, <1>3 DEF IInv, TypeOK, SameTypes
<1>5. FramesOK(stack, heap, pc)'
  <2>1. Len(stack) > 0
    BY RunningFacts DEF Depth
  <2> QED  BY <1>1, <2>1, FramesPush DEF IInv, Depth, Top
<1>6. CursorsAgree'
  <2>1. \A j \in 1 .. Depth' - 1 : j \in 1 .. Len(stack') /\ j < Len(stack')
    BY <1>2, <1>3 DEF Depth
  <2>2. \A j \in 1 .. Depth' - 1 : stack'[j].next + stack'[j + 1].head = stack'[j + 1].start
    BY <1>5, <2>1 DEF FramesOK, FrameOK
  <2> QED  BY <1>2, <2>2 DEF CursorsAgree
<1>7. OverrunRejected' /\ LoadReadsAll'
  BY DEF OverrunRejected, LoadReadsAll, length
<1>8. LevelKept /\ Cardinality(Open(stack', heap', pc')) <= read_level'
  <2>1. Open(stack', heap', pc') = Open(stack, heap, pc)
    BY <1>1, OpenPush DEF IInv
  <2> QED  BY <2>1 DEF IInv, LevelKept
<1> QED  BY <1>4, <1>5, <1>6, <1>7, <1>8 DEF IInv

LEMMA LoopKeeps ==
  ASSUME IInv, pc # "done", SameTypes(heap, heap'), stack' \in Seq(Frame),
         NEW n \in 1 .. Len(stack), Len(stack') = n,
         \A j \in 1 .. n - 1 : stack'[j] = stack[j],
         stack'[n].tag = stack[n].tag, stack'[n].head = stack[n].head,
         stack'[n].start = stack[n].start, stack[n].next <= stack'[n].next,
         n > 1 => /\ Container(heap, stack[n].tag)
                  /\ heap[stack[n].tag].type = kTagList =>
                       /\ stack[n].start + 5 <= stack'[n].next
                       /\ heap'[stack[n].tag].ctype \in TagTypes,
         pc' = "loop", consumed' = stack'[n].next, ret' \in Nat, root' \in Map,
         consumed' <= length + 1,
         consumed' > length => /\ n > 1 /\ heap[stack[n].tag].type = kTagCompound
                               /\ stack'[n].next = stack'[n].start,
         read_level' \in Nat,
         read_level' - Cardinality({j \in 2 .. n : heap[stack[j].tag].type = kTagCompound}) =
           read_level - Cardinality(Open(stack, heap, pc)),
         UNCHANGED <<buffer, result, loads>>
  PROVE  IInv' /\ LevelKept
<1>1. stack \in Seq(Frame) /\ heap \in Seq(Tag)
  BY DEF IInv, TypeOK
<1>2. Depth' = n /\ Top' = stack'[n] /\ n \in Nat /\ n > 0
  BY DEF Depth, Top
<1>3. stack'[n].next \in Nat
  BY <1>2, FrameFacts
<1>4. TypeOK'
  BY <1>2, <1>3 DEF IInv, TypeOK, SameTypes
<1>5. FramesOK(stack, heap, pc)'
  BY <1>1, FramesLoop DEF IInv
<1>6. CursorsAgree'
  <2>1. \A j \in 1 .. Depth' - 1 : j \in 1 .. Len(stack') /\ j < Len(stack')
    BY <1>2
  <2>2. \A j \in 1 .. Depth' - 1 : stack'[j].next + stack'[j + 1].head = stack'[j + 1].start
    BY <1>5, <2>1 DEF FramesOK, FrameOK
  <2> QED  BY <1>2, <2>2 DEF CursorsAgree
<1>7. OverrunRejected'
  <2>1. n > 1 => heap'[stack'[n].tag].type = heap[stack[n].tag].type
    <3>1. FrameOK(stack, heap, pc, n)
      BY DEF IInv, FramesOK
    <3> QED  BY <3>1 DEF FrameOK, SameTypes
  <2>2. length' = length
    BY DEF length
  <2> QED  BY <1>2, <2>1, <2>2 DEF OverrunRejected, Looping, Cur
<1>8. LoadReadsAll'
  BY DEF LoadReadsAll
<1>9. LevelKept
  <2>1. Open(stack', heap', pc') = {j \in 2 .. n : heap[stack[j].tag].type = kTagCompound}
    <3>1. ASSUME NEW j \in 2 .. n
          PROVE  heap'[stack'[j].tag].type = heap[stack[j].tag].type
      <4>1. FrameOK(stack, heap, pc, j) /\ j > 1
        BY <1>2 DEF IInv, FramesOK
      <4>2. stack[j].tag \in 1 .. Len(heap)
        BY <4>1 DEF FrameOK
      <4>3. stack'[j].tag = stack[j].tag
        <5>1. j \in 1 .. n - 1 \/ j = n
          BY <1>2
        <5> QED  BY <5>1
      <4> QED  BY <4>2, <4>3 DEF SameTypes
    <3>2. Open(stack', heap', pc') = {j \in 2 .. n : heap'[stack'[j].tag].type = kTagCompound}
      BY DEF Open, Entered
    <3> QED  BY <3>1, <3>2
  <2> QED  BY <2>1 DEF LevelKept
<1>10. Cardinality(Open(stack', heap', pc')) <= read_level'
  BY <1>9, LevelBound
<1> QED  BY <1>4, <1>5, <1>6, <1>7, <1>8, <1>9, <1>10 DEF IInv

-----------------------------------------------------------------------------
(* Every action keeps the invariant.                                        *)

LEMMA BodyFacts ==
  ASSUME IInv, pc = "body"
  PROVE  /\ Depth > 1 /\ Top.start = consumed /\ Top.next = consumed
         /\ Open(stack, heap, pc) \ {Depth} = Open(stack, heap, pc)
         /\ heap \in Seq(Tag) /\ buffer \in Seq(Byte) /\ stack \in Seq(Frame)
         /\ read_level \in Nat /\ Cur.ctype \notin TagTypes
<1>1. Depth > 1
  BY DEF IInv, FramesOK, Depth
<1>2. Open(stack, heap, pc) \ {Depth} = Open(stack, heap, pc)
  BY DEF Open, Entered, Depth
<1>3. Cur.ctype = kTagEnd
  <2>1. Depth \in 1 .. Len(stack)
    BY <1>1, RunningFacts DEF Depth
  <2>2. FrameOK(stack, heap, pc, Depth)
    BY <2>1 DEF IInv, FramesOK
  <2> QED  BY <1>1, <2>2 DEF FrameOK, Depth, Top, Cur
<1>4. Cur.ctype \notin TagTypes
  BY <1>3 DEF TagTypes, kTagEnd, kTagByte, kTagIntArray
<1> QED  BY <1>1, <1>2, <1>4 DEF IInv, CursorsAgree, TypeOK

LEMMA SameHeap == ASSUME NEW h \in Seq(Tag) PROVE SameTypes(h, h)
BY DEF SameTypes

LEMMA LeafKeeps ==
  ASSUME IInv, pc = "body", NEW head \in Nat, NEW n \in Nat,
         Top.start + head + n <= length, ReadLeaf(head, n)
  PROVE  IInv' /\ LevelKept
<1> USE DEF ReadLeaf
<1>1. Top.start \in Nat /\ Top.tag \in 1 .. Len(heap) /\ length \in Nat
  BY BodyFacts, RunningFacts
<1>2. Bytes(buffer, Top.start + head, n) \in Seq(Byte)
  <2>1. Top.start + head \in Nat /\ Top.start + head + n <= Len(buffer)
    BY <1>1 DEF length
  <2> QED  BY <2>1, BodyFacts, BytesType
<1>3. SameTypes(heap, heap')
  BY <1>1, <1>2, BodyFacts, SetData
<1>4. ret' \in Nat /\ consumed' = Top.start + ret' /\ consumed' <= length
  BY <1>1
<1> QED  BY <1>3, <1>4, BodyFacts, ReturnKeeps

LEMMA ReadScalarKeeps == ASSUME IInv, ReadScalar PROVE IInv' /\ LevelKept
<1> USE DEF ReadScalar
<1>1. ScalarSize(Cur.type) \in Nat
  BY ScalarSizes
<1>2. Top.start \in Nat
  BY RunningFacts
<1>3. Top.start + 0 + ScalarSize(Cur.type) <= length
  BY <1>1, <1>2 DEF ScalarReadable
<1> QED  BY <1>1, <1>3, LeafKeeps

LEMMA ReadArrayKeeps == ASSUME IInv, ReadArray PROVE IInv' /\ LevelKept
<1> USE DEF ReadArray, ArrayReadable
<1>1. Top.start \in Nat /\ buffer \in Seq(Byte)
  BY RunningFacts DEF IInv, TypeOK
<1>2. U32At(buffer, Top.start) \in Nat
  BY <1>1, U32Value DEF length
<1>3. ElementSize(Cur.type) \in {1, 4}
  BY DEF ElementSize
<1>4. ArrayBytes \in Nat
  BY <1>2, <1>3 DEF ArrayBytes
<1> QED  BY <1>1, <1>4, LeafKeeps

LEMMA ReadStringKeeps == ASSUME IInv, ReadString PROVE IInv' /\ LevelKept
<1> USE DEF ReadString, StringReadable, Reading
<1>1. Top.start \in Nat /\ buffer \in Seq(Byte)
  BY RunningFacts DEF IInv, TypeOK
<1>2. U16At(buffer, Top.start) \in Nat
  BY <1>1, U16Value DEF length
<1> QED  BY <1>1, <1>2, LeafKeeps

LEMMA ReadEndListKeeps == ASSUME IInv, ReadEndList PROVE IInv' /\ LevelKept
<1> USE DEF ReadEndList, Reading, ListHead
<1>1. Top.start \in Nat /\ Top.tag \in 1 .. Len(heap)
  BY BodyFacts, RunningFacts
<1>2. kTagEnd \in kTagEnd .. kTagIntArray
  BY DEF kTagEnd, kTagIntArray
<1>3. SameTypes(heap, heap')
  BY <1>1, <1>2, BodyFacts, SetListType DEF Cur
<1>4. ret' \in Nat /\ consumed' = Top.start + ret' /\ consumed' <= length
  BY <1>1 DEF ListReadable
<1> QED  BY <1>3, <1>4, BodyFacts, ReturnKeeps

LEMMA LoopFacts ==
  ASSUME IInv, pc = "loop"
  PROVE  /\ Depth > 0 /\ Depth \in 1 .. Len(stack) /\ Top.next = consumed
         /\ heap \in Seq(Tag) /\ buffer \in Seq(Byte) /\ stack \in Seq(Frame)
         /\ read_level \in Nat /\ root \in Map
<1>1. Depth \in Nat /\ Depth > 0
  BY RunningFacts
<1>2. Depth \in 1 .. Len(stack)
  BY <1>1 DEF Depth
<1> QED  BY <1>1, <1>2 DEF IInv, CursorsAgree, TypeOK

LEMMA FinishListKeeps == ASSUME IInv, FinishList PROVE IInv' /\ LevelKept
<1> USE DEF FinishList, Looping
<1>1. Top.start \in Nat /\ Top.next \in Nat /\ Top.start <= Top.next /\ length \in Nat
  BY RunningFacts
<1>2. ret' \in Nat /\ consumed' = Top.start + ret'
  BY <1>1, LoopFacts
<1>3. consumed' <= length
  BY <1>1, LoopFacts DEF IInv, OverrunRejected, kTagList, kTagCompound
<1>4. Open(stack, heap, pc) \ {Depth} = Open(stack, heap, pc)
  BY DEF Open, Entered, Depth, Top, Cur, kTagList, kTagCompound
<1>5. read_level' - Cardinality(Open(stack, heap, pc) \ {Depth}) =
        read_level - Cardinality(Open(stack, heap, pc))
  BY <1>4
<1> QED  BY <1>2, <1>3, <1>5, LoopFacts, SameHeap, ReturnKeeps

LEMMA FinishCompoundKeeps == ASSUME IInv, FinishCompound PROVE IInv' /\ LevelKept
<1> USE DEF FinishCompound, AtCompoundEnd, Looping, TypeReadable
<1>1. Top.start \in Nat /\ Top.next \in Nat /\ Top.start <= Top.next /\ length \in Nat
  BY RunningFacts
<1>2. ret' \in Nat /\ consumed' = Top.start + ret' /\ consumed' <= length
  <2>1. /\ ret' = Top.next + 1 - Top.start /\ consumed' = Top.next + 1
        /\ Top.next + 1 <= length
    OBVIOUS
  <2> HIDE DEF FinishCompound, AtCompoundEnd, Looping, TypeReadable
  <2> QED  BY <1>1, <2>1
<1>3. Depth \in Open(stack, heap, pc)
  BY LoopFacts DEF Open, Entered, Depth, Top, Cur
<1>4. /\ IsFiniteSet(Open(stack, heap, pc)) /\ Cardinality(Open(stack, heap, pc)) \in Nat
      /\ IsFiniteSet(Open(stack, heap, pc) \ {Depth})
      /\ Cardinality(Open(stack, heap, pc) \ {Depth}) \in Nat
      /\ Cardinality(Open(stack, heap, pc) \ {Depth}) =
            Cardinality(Open(stack, heap, pc)) - 1
  <2>1. IsFiniteSet(Open(stack, heap, pc)) /\ Cardinality(Open(stack, heap, pc)) \in Nat
    BY LoopFacts, OpenIsFinite
  <2>2. /\ IsFiniteSet(Open(stack, heap, pc) \ {Depth})
        /\ Cardinality(Open(stack, heap, pc) \ {Depth}) =
              Cardinality(Open(stack, heap, pc)) - 1
    BY <1>3, <2>1, FS_RemoveElement
  <2> QED  BY <2>1, <2>2, FS_CardinalityType
<1>5. /\ read_level' \in Nat
      /\ read_level' - Cardinality(Open(stack, heap, pc) \ {Depth}) =
           read_level - Cardinality(Open(stack, heap, pc))
  <2>1. Cardinality(Open(stack, heap, pc)) <= read_level
    BY DEF IInv
  <2>2. read_level' = read_level - 1 /\ read_level \in Nat
    BY LoopFacts
  <2> QED  BY ONLY <1>4, <2>1, <2>2
<1> QED  BY <1>2, <1>5, LoopFacts, SameHeap, ReturnKeeps

(* The name is in the buffer, or ends one byte behind it. *)
LEMMA HeaderMakes ==
  ASSUME IInv, ReadHeader
  PROVE  LET name_offset == Top.next + SizeofTagType + SizeofU16
             head == SizeofTagType + SizeofU16 + NameLength
             name == Bytes(Append(buffer, Beyond), name_offset, NameLength)
             tag  == [NewTag(At(buffer, Top.next)) EXCEPT !.name = name]
             f    == NewFrame(Len(heap) + 1, head, Top.next + head)
         IN
         /\ NameLength \in Nat /\ name_offset + NameLength <= length + 1
         /\ tag \in Tag /\ tag.ctype = kTagEnd
         /\ f \in Frame /\ f.tag = Len(heap) + 1 /\ f.head = head
         /\ f.start = Top.next + head /\ f.next = Top.next + head
<1> DEFINE type == At(buffer, Top.next)
           name_offset == Top.next + SizeofTagType + SizeofU16
           head == SizeofTagType + SizeofU16 + NameLength
           name == Bytes(Append(buffer, Beyond), name_offset, NameLength)
           tag  == [NewTag(type) EXCEPT !.name = name]
           f    == NewFrame(Len(heap) + 1, head, Top.next + head)
<1>1. pc = "loop"
  BY DEF ReadHeader, AtHeader, Looping
<1>2. Top.next \in Nat /\ Len(heap) \in Nat /\ length \in Nat
  BY <1>1, RunningFacts
<1>3. NameReadable /\ type \in TagTypes
  BY DEF ReadHeader, HeaderReadable
<1>4. NameLength \in Nat
  <2>1. Top.next + 1 \in Nat /\ Top.next + 1 + 2 <= Len(buffer)
    BY <1>2, <1>3 DEF NameReadable, length
  <2> QED  BY <1>1, <2>1, LoopFacts, U16Value DEF NameLength
<1>5. name_offset \in Nat /\ name_offset + NameLength <= length + 1
  <2>1. NameLength <= length - (Top.next + 1) - 1
    BY <1>3 DEF NameReadable
  <2>2. \A a, n, l \in Nat : n <= l - (a + 1) - 1 => a + 1 + 2 \in Nat /\ a + 1 + 2 + n <= l + 1
    OBVIOUS
  <2> QED  BY <1>2, <1>4, <2>1, <2>2, Zenon
<1>6. name \in Name
  <2>1. /\ Append(buffer, Beyond) \in Seq(Byte)
        /\ Len(Append(buffer, Beyond)) = length + 1
    BY <1>1, LoopFacts, WithBeyond DEF length
  <2> QED  BY <1>4, <1>5, <2>1, BytesType DEF Name
<1>7. tag \in Tag /\ tag.ctype = kTagEnd
  BY <1>3, <1>6, NamedTagType
<1>8. head \in Nat /\ Top.next + head \in Nat /\ Len(heap) + 1 \in Nat
  BY <1>2, <1>4
<1>9. /\ f \in Frame /\ f.tag = Len(heap) + 1 /\ f.head = head
      /\ f.start = Top.next + head /\ f.next = Top.next + head
  BY <1>8, NewFrameType
<1> QED  BY <1>4, <1>5, <1>7, <1>9, Zenon

LEMMA ReadHeaderKeeps == ASSUME IInv, ReadHeader PROVE IInv' /\ LevelKept
<1> DEFINE name_offset == Top.next + SizeofTagType + SizeofU16
           head == SizeofTagType + SizeofU16 + NameLength
           name == Bytes(Append(buffer, Beyond), name_offset, NameLength)
           tag  == [NewTag(At(buffer, Top.next)) EXCEPT !.name = name]
           f    == NewFrame(Len(heap) + 1, head, Top.next + head)
<1>1. pc = "loop"
  BY DEF ReadHeader, AtHeader, Looping
<1>2. Top.next \in Nat /\ Len(heap) \in Nat /\ length \in Nat /\ Depth \in Nat
      /\ 3 * (Depth - 1) <= Top.start /\ Top.start <= Top.next /\ Top.start \in Nat
  BY <1>1, RunningFacts
<1>3. /\ NameLength \in Nat /\ name_offset + NameLength <= length + 1
      /\ tag \in Tag /\ tag.ctype = kTagEnd
      /\ f \in Frame /\ f.tag = Len(heap) + 1 /\ f.head = head
      /\ f.start = Top.next + head /\ f.next = Top.next + head
  BY HeaderMakes, Zenon
<1>4. heap' = Append(heap, tag) /\ stack' = Append(stack, f) /\ pc' = "body"
      /\ consumed' = name_offset + NameLength
      /\ UNCHANGED <<root, buffer, ret, result, read_level, loads>>
  BY DEF ReadHeader
<1> HIDE DEF tag, name, f
<1>5. /\ SameTypes(heap, heap') /\ Len(heap') = Len(heap) + 1
      /\ heap'[Len(heap) + 1].ctype = kTagEnd
  BY <1>1, <1>3, <1>4, LoopFacts, AddTag
<1>6. f.tag \in 1 .. Len(heap') /\ f.start >= 3 * Depth
  <2>1. f.tag \in 1 .. Len(heap')
    BY <1>2, <1>3, <1>5
  <2>2. head = NameLength + 3 /\ f.start = Top.next + head /\ NameLength \in Nat
    BY <1>3
  <2> HIDE DEF head
  <2>3. f.start >= 3 * Depth
    BY <1>2, <2>2
  <2> QED  BY <2>1, <2>3
<1>7. consumed' = f.start /\ consumed' <= length + 1
  <2>1. name_offset + NameLength = Top.next + head
    BY <1>2, <1>3, SMTT(30)
  <2> QED  BY <1>3, <1>4, <2>1
<1> QED  BY <1>1, <1>3, <1>4, <1>5, <1>6, <1>7, PushKeeps

LEMMA ReadElementKeeps == ASSUME IInv, ReadElement PROVE IInv' /\ LevelKept
<1> DEFINE f == NewFrame(Len(heap) + 1, 0, Top.next)
<1>1. pc = "loop" /\ Depth > 1 /\ Cur.type = kTagList
  BY DEF ReadElement, Looping
<1>2. Top.next \in Nat /\ Len(heap) \in Nat /\ length \in Nat /\ Depth \in Nat
      /\ 3 * (Depth - 1) <= Top.start /\ Top.start + 5 <= Top.next /\ Top.start \in Nat
      /\ Top.next < length
  BY <1>1, RunningFacts DEF ReadElement
<1>3. NewTag(Cur.ctype) \in Tag /\ NewTag(Cur.ctype).ctype = kTagEnd
  BY <1>1, RunningFacts, NewTagType
<1>4. heap' = Append(heap, NewTag(Cur.ctype)) /\ stack' = Append(stack, f) /\ pc' = "body"
      /\ UNCHANGED <<root, buffer, ret, result, read_level, consumed, loads>>
  BY DEF ReadElement
<1>5. /\ SameTypes(heap, heap') /\ Len(heap') = Len(heap) + 1
      /\ heap'[Len(heap) + 1].ctype = kTagEnd
  BY <1>1, <1>3, <1>4, LoopFacts, AddTag
<1>6. /\ f \in Frame /\ f.tag = Len(heap) + 1 /\ f.head = 0
      /\ f.start = Top.next /\ f.next = Top.next
  <2>1. Len(heap) + 1 \in Nat /\ 0 \in Nat
    BY <1>2
  <2> QED  BY <1>2, <2>1 DEF NewFrame, Frame
<1> HIDE DEF f
<1>7. f.tag \in 1 .. Len(heap') /\ f.start >= 3 * Depth /\ f.start = Top.next + f.head
  BY <1>2, <1>5, <1>6
<1>8. consumed' = f.start /\ consumed' <= length + 1
  BY <1>1, <1>2, <1>4, <1>6, LoopFacts
<1> QED  BY <1>1, <1>4, <1>5, <1>6, <1>7, <1>8, PushKeeps

LEMMA NullsType ==
  ASSUME NEW n \in Nat
  PROVE  [j \in 1 .. n |-> Null] \in Seq(Nat)
<1>1. [j \in 1 .. n |-> Null] \in [1 .. n -> Nat]
  OBVIOUS
<1> QED  BY <1>1, SeqDef

(* Only the offset of the innermost frame changes. *)
LEMMA AdvanceTop ==
  ASSUME NEW s \in Seq(Frame), NEW j \in 1 .. Len(s), NEW n \in Nat
  PROVE  LET t == [s EXCEPT ![j].next = n] IN
         /\ t \in Seq(Frame)
         /\ Len(t) = Len(s)
         /\ \A m \in 1 .. Len(s) : m # j => t[m] = s[m]
         /\ t[j].tag = s[j].tag /\ t[j].head = s[j].head
         /\ t[j].start = s[j].start /\ t[j].next = n /\ t[j].i = s[j].i
<1> DEFINE f == [s[j] EXCEPT !.next = n]
<1>1. s[j] \in Frame
  BY ElementOfSeq
<1>2. /\ f \in Frame
      /\ f.tag = s[j].tag /\ f.head = s[j].head /\ f.start = s[j].start /\ f.next = n
      /\ f.i = s[j].i
  BY <1>1 DEF Frame
<1>3. [s EXCEPT ![j].next = n] = [s EXCEPT ![j] = f]
  OBVIOUS
<1>4. /\ [s EXCEPT ![j] = f] \in Seq(Frame)
      /\ Len([s EXCEPT ![j] = f]) = Len(s)
      /\ \A m \in 1 .. Len(s) : [s EXCEPT ![j] = f][m] = IF m = j THEN f ELSE s[m]
  BY <1>2, ExceptSeq
<1> HIDE DEF f
<1> QED  BY <1>2, <1>3, <1>4

(* The open compounds are those among the first n frames when a loop is     *)
(* resumed in frame n, or begins in a list; a compound's own loop adds it.  *)
LEMMA OpenBefore ==
  ASSUME IInv, NEW n \in 1 .. Len(stack),
         \/ pc = "return" /\ n = Depth - 1
         \/ pc = "body" /\ n = Depth /\ Cur.type # kTagCompound
  PROVE  {j \in 2 .. n : heap[stack[j].tag].type = kTagCompound} = Open(stack, heap, pc)
<1>1. Len(stack) \in Nat /\ Depth = Len(stack) /\ n \in Nat
  BY DEF IInv, TypeOK, Depth
<1> QED  BY <1>1 DEF Open, Entered, Cur, Top

LEMMA OpenEnter ==
  ASSUME IInv, pc = "body", Cur.type = kTagCompound
  PROVE  Cardinality({j \in 2 .. Depth : heap[stack[j].tag].type = kTagCompound}) =
           Cardinality(Open(stack, heap, pc)) + 1
<1> DEFINE O == Open(stack, heap, pc)
<1>1. Len(stack) \in Nat /\ Depth = Len(stack) /\ Depth > 1 /\ stack \in Seq(Frame)
  BY BodyFacts DEF Depth
<1>2. {j \in 2 .. Depth : heap[stack[j].tag].type = kTagCompound} = O \cup {Depth}
  BY <1>1 DEF Open, Entered, Cur, Top
<1>3. Depth \notin O
  BY <1>1 DEF Open, Entered
<1>4. IsFiniteSet(O)
  BY <1>1, OpenIsFinite
<1>5. Cardinality(O \cup {Depth}) = Cardinality(O) + 1
  BY <1>3, <1>4, FS_AddElement
<1> QED  BY <1>2, <1>5

LEMMA TypeBytes ==
  ASSUME NEW x \in Byte, x < kTagMax, x # kTagEnd
  PROVE  x \in kTagEnd .. kTagIntArray /\ x \in TagTypes
BY DEF TagTypes, Byte, kTagEnd, kTagByte, kTagIntArray, kTagMax

(* What the head of a list says. *)
LEMMA ListHeadFacts ==
  ASSUME IInv, pc = "body", ListReadable, ListType # kTagEnd
  PROVE  /\ Top.start + 5 \in Nat /\ Top.start + 5 <= length
         /\ ListLength \in Nat /\ [j \in 1 .. ListLength |-> Null] \in Seq(Nat)
         /\ ListType \in kTagEnd .. kTagIntArray /\ ListType \in TagTypes
<1>1. Top.start \in Nat /\ length \in Nat
  BY RunningFacts
<1>2. Top.start + 5 \in Nat /\ Top.start + 5 <= length
  BY <1>1 DEF ListReadable, ListHead
<1>3. ListLength \in Nat
  <2>1. Top.start + 1 \in Nat /\ Top.start + 1 + 4 <= Len(buffer)
    BY <1>1, <1>2 DEF length
  <2> QED  BY <2>1, BodyFacts, U32Value DEF ListLength
<1>4. ListType \in kTagEnd .. kTagIntArray /\ ListType \in TagTypes
  <2>1. ListType \in Byte
    BY <1>1, <1>2, BodyFacts, ByteAt DEF ListType, length
  <2>2. ListType < kTagMax
    BY DEF ListReadable
  <2> QED  BY <2>1, <2>2, TypeBytes
<1> QED  BY <1>2, <1>3, <1>4, NullsType

LEMMA EnterListKeeps == ASSUME IInv, EnterList PROVE IInv' /\ LevelKept
<1> USE DEF EnterList, Reading, ListHead
<1>1. /\ Top.start \in Nat /\ Top.tag \in 1 .. Len(heap) /\ Depth \in 1 .. Len(stack)
      /\ length \in Nat /\ Top.next = Top.start
  <2>1. Depth > 1 /\ Depth \in Nat /\ Top.next = Top.start
    BY BodyFacts, RunningFacts
  <2> QED  BY <2>1, RunningFacts DEF Depth
<1>2. Top.start + 5 \in Nat /\ Top.start + 5 <= length
  BY ListHeadFacts
<1>3. ListLength \in Nat
  BY ListHeadFacts
<1>4. ListType \in kTagEnd .. kTagIntArray /\ ListType \in TagTypes
  BY ListHeadFacts
<1> DEFINE nulls == [j \in 1 .. ListLength |-> Null]
<1>5. nulls \in Seq(Nat)
  BY ListHeadFacts
<1>6. heap' = [heap EXCEPT ![Top.tag].ctype = ListType, ![Top.tag].kids = nulls]
  OBVIOUS
<1> HIDE DEF nulls
<1>7. SameTypes(heap, heap') /\ heap'[Top.tag].ctype = ListType
  <2>1. SameTypes(heap, heap')
    <3>1. heap[Top.tag].ctype \notin TagTypes /\ heap \in Seq(Tag)
      BY BodyFacts DEF Cur
    <3> HIDE DEF EnterList
    <3> QED  BY <1>1, <1>4, <1>5, <1>6, <3>1, SetList
  <2>2. heap[Top.tag] \in Tag
    BY <1>1, BodyFacts, ElementOfSeq
  <2>3. heap'[Top.tag].ctype = ListType
    BY <1>1, <1>6, <2>2, BodyFacts DEF Tag
  <2> QED  BY <2>1, <2>3
<1>8. stack' = [stack EXCEPT ![Depth].next = Top.start + 5]
  OBVIOUS
<1>9. /\ stack' \in Seq(Frame) /\ Len(stack') = Depth /\ Depth \in Nat
      /\ \A j \in 1 .. Depth - 1 : stack'[j] = stack[j]
      /\ stack'[Depth].tag = stack[Depth].tag /\ stack'[Depth].head = stack[Depth].head
      /\ stack'[Depth].start = stack[Depth].start /\ stack'[Depth].next = Top.start + 5
  <2>1. stack \in Seq(Frame) /\ Len(stack) = Depth /\ Depth \in Nat
    BY <1>1, BodyFacts, RunningFacts DEF Depth
  <2>2. /\ stack' \in Seq(Frame) /\ Len(stack') = Len(stack)
        /\ \A m \in 1 .. Len(stack) : m # Depth => stack'[m] = stack[m]
        /\ stack'[Depth].tag = stack[Depth].tag /\ stack'[Depth].head = stack[Depth].head
        /\ stack'[Depth].start = stack[Depth].start /\ stack'[Depth].next = Top.start + 5
    <3> HIDE DEF EnterList
    <3> QED  BY <1>1, <1>2, <1>8, <2>1, AdvanceTop
  <2> QED  BY <2>1, <2>2
<1>10. Container(heap, stack[Depth].tag) /\ heap[stack[Depth].tag].type = kTagList
  BY DEF Container, Cur, Top
<1>11. {j \in 2 .. Depth : heap[stack[j].tag].type = kTagCompound} = Open(stack, heap, pc)
  <2>1. Cur.type # kTagCompound
    BY DEF kTagList, kTagCompound
  <2> QED  BY <1>1, <2>1, OpenBefore
<1>12. /\ stack[Depth].next <= stack'[Depth].next
       /\ stack[Depth].start + 5 <= stack'[Depth].next
       /\ heap'[stack[Depth].tag].ctype \in TagTypes
       /\ consumed' = stack'[Depth].next /\ consumed' <= length /\ consumed' \in Nat
  <2>1. /\ Top = stack[Depth] /\ stack'[Depth].next = Top.start + 5
        /\ heap'[Top.tag].ctype \in TagTypes /\ consumed' = Top.start + 5
    BY <1>4, <1>7, <1>9 DEF Top
  <2> HIDE DEF EnterList
  <2> QED  BY <1>1, <1>2, <2>1
<1>13. ret' \in Nat /\ root' \in Map /\ read_level' = read_level /\ read_level \in Nat
       /\ pc' = "loop" /\ UNCHANGED <<buffer, result, loads>>
  BY DEF IInv, TypeOK
<1>14. consumed' <= length + 1 /\ ~(consumed' > length)
  BY <1>1, <1>12
<1> QED  BY <1>1, <1>7, <1>9, <1>10, <1>11, <1>12, <1>13, <1>14, LoopKeeps

LEMMA EnterCompoundKeeps == ASSUME IInv, EnterCompound PROVE IInv' /\ LevelKept
<1> USE DEF EnterCompound, Reading
<1>1. /\ Top.start \in Nat /\ Depth \in 1 .. Len(stack) /\ Len(stack) = Depth
      /\ Top.next = Top.start /\ Top.start = consumed /\ Depth \in Nat /\ Depth > 1
      /\ length \in Nat /\ consumed <= length + 1
  <2>1. Depth > 1 /\ Depth \in Nat /\ Top.next = Top.start /\ Top.start = consumed
    BY BodyFacts, RunningFacts
  <2> QED  BY <2>1, RunningFacts DEF Depth, IInv, OverrunRejected
<1>2. /\ Container(heap, stack[Depth].tag) /\ heap[stack[Depth].tag].type = kTagCompound
      /\ heap[stack[Depth].tag].type # kTagList
  BY DEF Container, Cur, Top, kTagList, kTagCompound
<1>3. /\ read_level' - Cardinality({j \in 2 .. Depth : heap[stack[j].tag].type = kTagCompound}) =
           read_level - Cardinality(Open(stack, heap, pc))
      /\ read_level' \in Nat
  <2>1. Cardinality({j \in 2 .. Depth : heap[stack[j].tag].type = kTagCompound}) =
          Cardinality(Open(stack, heap, pc)) + 1
    BY OpenEnter
  <2>2. read_level' = read_level + 1 /\ read_level \in Nat
    BY BodyFacts
  <2>3. Cardinality(Open(stack, heap, pc)) \in Nat
    BY OpenIsFinite, BodyFacts
  <2> QED  BY <2>1, <2>2, <2>3
<1>4. SameTypes(heap, heap')
  BY BodyFacts, SameHeap
<1>5. /\ stack' = stack /\ stack \in Seq(Frame) /\ ret' \in Nat /\ root' \in Map
      /\ consumed' = stack'[Depth].next /\ stack'[Depth].next = stack'[Depth].start
      /\ stack[Depth].next <= stack'[Depth].next
  BY <1>1 DEF IInv, TypeOK, Top
<1>6. pc' = "loop" /\ consumed' <= length + 1 /\ UNCHANGED <<buffer, result, loads>>
  BY <1>1
<1> QED  BY <1>1, <1>2, <1>3, <1>4, <1>5, <1>6, LoopKeeps

LEMMA ReturnFacts ==
  ASSUME IInv, pc = "return"
  PROVE  /\ Depth \in Nat /\ Depth > 1 /\ Len(stack) = Depth /\ stack \in Seq(Frame)
         /\ Top.start + ret = consumed /\ consumed \in Nat /\ consumed <= length
         /\ ret \in Nat /\ Top.head \in Nat /\ Top.tag \in Nat /\ Top.start \in Nat
         /\ Caller.next \in Nat /\ Caller.i \in Nat
         /\ Caller.next + Top.head = Top.start
         /\ heap \in Seq(Tag) /\ root \in Map /\ read_level \in Nat
         /\ Cur \in Tag
         /\ Depth > 2 => Caller.tag \in 1 .. Len(heap)
<1>1. /\ Depth \in Nat /\ Depth > 1 /\ Len(stack) = Depth /\ Cur \in Tag
      /\ Top.head \in Nat /\ Top.tag \in Nat /\ Top.start \in Nat /\ length \in Nat
  BY RunningFacts DEF IInv, FramesOK, Depth
<1>2. stack \in Seq(Frame) /\ heap \in Seq(Tag) /\ root \in Map /\ read_level \in Nat
      /\ ret \in Nat /\ consumed \in Nat
  BY DEF IInv, TypeOK
<1>3. Depth - 1 \in 1 .. Len(stack)
  BY <1>1
<1>4. Caller.next \in Nat /\ Caller.i \in Nat
  BY <1>2, <1>3, FrameFacts DEF Caller
<1>5. FrameOK(stack, heap, pc, Depth - 1)
  BY <1>3 DEF IInv, FramesOK
<1>6. Caller.next + Top.head = Top.start
  BY <1>1, <1>5 DEF FrameOK, Caller, Top
<1>7. Depth > 2 => Caller.tag \in 1 .. Len(heap)
  BY <1>1, <1>5 DEF FrameOK, Caller
<1>8. Top.start + ret = consumed
  BY DEF IInv, CursorsAgree
<1>9. consumed <= length
  BY <1>1, <1>2 DEF IInv, OverrunRejected, Looping
<1> QED  BY <1>1, <1>2, <1>4, <1>6, <1>7, <1>8, <1>9

(* The frames when a call has returned: the caller is where the read ended. *)
LEMMA ResumeMakes ==
  ASSUME IInv, NEW i \in Nat, Resume(i)
  PROVE  LET n == Depth - 1 IN
         /\ n \in 1 .. Len(stack) /\ n < Len(stack) /\ n \in Nat
         /\ stack' \in Seq(Frame) /\ Len(stack') = n
         /\ \A m \in 1 .. n - 1 : stack'[m] = stack[m]
         /\ stack'[n].tag = stack[n].tag /\ stack'[n].head = stack[n].head
         /\ stack'[n].start = stack[n].start /\ stack'[n].i = i
         /\ stack'[n].next = consumed /\ stack[n].next <= consumed
<1> DEFINE n == Depth - 1
           s == SubSeq(stack, 1, n)
<1>1. pc = "return"
  BY DEF Resume
<1>2. n \in 1 .. Len(stack) /\ n < Len(stack) /\ n \in Nat
  <2>1. Depth \in Nat /\ Depth > 1 /\ Len(stack) = Depth
    BY <1>1, ReturnFacts
  <2> QED  BY <2>1
<1>3. s \in Seq(Frame) /\ Len(s) = n /\ \A m \in 1 .. n : s[m] = stack[m]
  <2>1. stack \in Seq(Frame) /\ Len(stack) = Depth /\ Len(stack) > 1
    BY <1>1, ReturnFacts
  <2> QED  BY <2>1, Pop
<1> DEFINE next == s[n].next + Top.head + ret
<1>4. /\ n \in 1 .. Len(s) /\ s[n] = Caller
      /\ next \in Nat /\ next = consumed /\ stack[n].next <= next
  <2>1. n \in 1 .. Len(s) /\ s[n] = Caller /\ Caller = stack[n]
    BY <1>2, <1>3 DEF Caller
  <2>2. /\ Caller.next \in Nat /\ Top.head \in Nat /\ ret \in Nat
        /\ Caller.next + Top.head = Top.start /\ Top.start + ret = consumed
    BY <1>1, ReturnFacts
  <2> HIDE DEF s
  <2> QED  BY <2>1, <2>2
<1>5. stack' = [s EXCEPT ![n].next = next, ![n].i = i]
  BY DEF Resume
<1> HIDE DEF s, next
<1>6. /\ stack' \in Seq(Frame) /\ Len(stack') = Len(s)
      /\ \A m \in 1 .. Len(s) : m # n => stack'[m] = s[m]
      /\ stack'[n].tag = s[n].tag /\ stack'[n].head = s[n].head
      /\ stack'[n].start = s[n].start /\ stack'[n].next = next /\ stack'[n].i = i
  <2>1. s \in Seq(Frame) /\ n \in 1 .. Len(s) /\ next \in Nat
    BY <1>3, <1>4
  <2> DEFINE f == [s[n] EXCEPT !.next = next, !.i = i]
  <2>2. s[n] \in Frame
    BY <2>1, ElementOfSeq
  <2>3. /\ f \in Frame
        /\ f.tag = s[n].tag /\ f.head = s[n].head
        /\ f.start = s[n].start /\ f.next = next /\ f.i = i
    BY <2>1, <2>2 DEF Frame
  <2>4. stack' = [s EXCEPT ![n] = f]
    BY <1>5
  <2> HIDE DEF f
  <2>5. /\ stack' \in Seq(Frame) /\ Len(stack') = Len(s)
        /\ \A m \in 1 .. Len(s) : stack'[m] = IF m = n THEN f ELSE s[m]
    BY <2>1, <2>3, <2>4, ExceptSeq
  <2> QED  BY <2>1, <2>3, <2>5
<1>7. \A m \in 1 .. n - 1 : m \in 1 .. Len(s) /\ m # n /\ m \in 1 .. n
  BY <1>2, <1>3
<1>8. s[n] = stack[n]
  BY <1>2, <1>3
<1> QED  BY <1>2, <1>3, <1>4, <1>6, <1>7, <1>8

LEMMA ResumeKeeps ==
  ASSUME IInv, NEW i \in Nat, Resume(i), SameTypes(heap, heap'), root' \in Map
  PROVE  IInv' /\ LevelKept
<1> DEFINE n == Depth - 1
           next == consumed
<1>1. pc = "return" /\ pc' = "loop" /\ ret' = 0
      /\ UNCHANGED <<buffer, result, read_level, consumed, loads>>
  BY DEF Resume
<1>2. n \in 1 .. Len(stack) /\ n < Len(stack) /\ n \in Nat /\ length \in Nat
  <2>1. length \in Nat
    BY <1>1, RunningFacts
  <2> QED  BY <2>1, ResumeMakes
<1>3. next \in Nat /\ stack[n].next <= next
  BY <1>1, ResumeMakes, ReturnFacts
<1> HIDE DEF next
<1>4. /\ stack' \in Seq(Frame) /\ Len(stack') = n
      /\ \A m \in 1 .. n - 1 : stack'[m] = stack[m]
      /\ stack'[n].tag = stack[n].tag /\ stack'[n].head = stack[n].head
      /\ stack'[n].start = stack[n].start /\ stack'[n].next = next
  BY ResumeMakes DEF next
<1>5. n > 1 => /\ Container(heap, stack[n].tag)
               /\ heap[stack[n].tag].type = kTagList =>
                    /\ stack[n].start + 5 <= next
                    /\ heap'[stack[n].tag].ctype \in TagTypes
  <2>1. FrameOK(stack, heap, pc, n)
    BY <1>2 DEF IInv, FramesOK
  <2>2. stack[n].start \in Nat /\ stack[n].next \in Nat
    BY <1>1, <1>2, ReturnFacts, FrameFacts
  <2>3. next \in Nat /\ stack[n].next <= next
    BY <1>3
  <2>4. n > 1 => /\ stack[n].tag \in 1 .. Len(heap)
                 /\ Container(heap, stack[n].tag)
                 /\ heap[stack[n].tag].type = kTagList =>
                      /\ stack[n].start + 5 <= stack[n].next
                      /\ heap[stack[n].tag].ctype \in TagTypes
    BY <1>2, <2>1 DEF FrameOK, Entered
  <2>5. n > 1 /\ heap[stack[n].tag].type = kTagList =>
          heap'[stack[n].tag].ctype \in TagTypes
    BY <2>4 DEF SameTypes
  <2>6. \A a, b, c \in Nat : a + 5 <= b /\ b <= c => a + 5 <= c
    OBVIOUS
  <2> QED  BY <2>2, <2>3, <2>4, <2>5, <2>6, Zenon
<1>6. {j \in 2 .. n : heap[stack[j].tag].type = kTagCompound} = Open(stack, heap, pc)
  BY <1>1, <1>2, OpenBefore
<1>7. consumed' = next /\ consumed' <= length + 1 /\ ~(consumed' > length)
  <2>1. consumed' = next /\ consumed' = consumed /\ consumed \in Nat /\ consumed <= length
    BY <1>1, ReturnFacts DEF next
  <2>2. \A a, b \in Nat : a <= b => a <= b + 1 /\ ~(a > b)
    OBVIOUS
  <2> QED  BY <1>2, <2>1, <2>2, Zenon
<1>8. read_level' \in Nat /\ ret' \in Nat
  BY <1>1, ReturnFacts
<1> QED
  BY <1>1, <1>2, <1>3, <1>4, <1>5, <1>6, <1>7, <1>8, LoopKeeps

LEMMA ReturnToLoadKeeps == ASSUME IInv, ReturnToLoad PROVE IInv' /\ LevelKept
<1>1. pc = "return" /\ Resume(Caller.i) /\ heap' = heap /\ root' = Put(root, Cur.name, Top.tag)
  BY DEF ReturnToLoad, Resume
<1>2. Cur.name \in Name
  BY <1>1, ReturnFacts DEF Tag
<1>3. root' \in Map
  <2>1. root \in Map /\ Top.tag \in Nat
    BY <1>1, ReturnFacts
  <2> QED  BY <1>1, <1>2, <2>1, PutType
<1>4. SameTypes(heap, heap')
  BY <1>1, ReturnFacts, SameHeap
<1> QED  BY <1>1, <1>3, <1>4, ReturnFacts, ResumeKeeps

LEMMA ReturnToCompoundKeeps == ASSUME IInv, ReturnToCompound PROVE IInv' /\ LevelKept
<1>1. /\ pc = "return" /\ Depth > 2 /\ Resume(Caller.i) /\ root' = root
      /\ heap' = [heap EXCEPT ![Caller.tag].map = Put(@, Cur.name, Top.tag)]
  BY DEF ReturnToCompound, Resume
<1>2. Cur.name \in Name
  BY <1>1, ReturnFacts DEF Tag
<1>3. SameTypes(heap, heap')
  BY <1>1, <1>2, ReturnFacts, SetMap
<1> QED  BY <1>1, <1>3, ReturnFacts, ResumeKeeps

LEMMA ReturnToListKeeps == ASSUME IInv, ReturnToList PROVE IInv' /\ LevelKept
<1>1. /\ pc = "return" /\ Depth > 2 /\ Resume(Caller.i + 1) /\ root' = root
      /\ heap' = [heap EXCEPT ![Caller.tag].kids[Caller.i + 1] = Top.tag]
  BY DEF ReturnToList, Resume
<1>2. Caller.i + 1 \in Nat
  <2>1. Caller.i \in Nat
    BY <1>1, ReturnFacts
  <2> QED  BY <2>1
<1>3. SameTypes(heap, heap')
  BY <1>1, <1>2, ReturnFacts, SetKid
<1> QED  BY <1>1, <1>2, <1>3, ReturnFacts, ResumeKeeps

-----------------------------------------------------------------------------
(* The steps in and out of Load                                             *)

LEMMA OpenNone ==
  ASSUME NEW s, NEW h, NEW p, Len(s) \in {0, 1}
  PROVE  Open(s, h, p) = {}
BY DEF Open

LEMMA LoadKeeps == ASSUME IInv, Load PROVE IInv' /\ LevelKept
<1> USE DEF Load, LoadFrom, MayLoad
<1> DEFINE f == NewFrame(Null, 0, 0)
<1>1. f \in Frame /\ f.next = 0
  BY NewFrameType
<1>2. stack' = <<f>>
  OBVIOUS
<1>3. /\ stack' \in Seq(Frame) /\ Len(stack') = 1 /\ stack'[1] = f
      /\ Depth' = 1 /\ Top' = f
  <2> HIDE DEF f, Load
  <2> QED  BY <1>1, <1>2 DEF Depth, Top
<1>4. buffer' \in Seq(Byte)
  BY BuffersAssumption
<1>5. TypeOK'
  <2>1. heap' \in Seq(Tag) /\ root' \in Map /\ consumed' \in Nat /\ loads' \in Nat
        /\ pc' = "loop" /\ UNCHANGED <<ret, result, read_level>>
    BY DEF Map, IInv, TypeOK
  <2> HIDE DEF f, Load
  <2> QED  BY <1>3, <1>4, <2>1 DEF IInv, TypeOK
<1>6. FramesOK(stack, heap, pc)'
  BY FramesFirst
<1>7. CursorsAgree' /\ OverrunRejected' /\ LoadReadsAll'
  <2>1. consumed' = 0 /\ pc' = "loop" /\ length' \in Nat /\ 0 <= length' + 1 /\ ~(0 > length')
    BY <1>4 DEF length
  <2> HIDE DEF f, Load
  <2>2. CursorsAgree'
    BY <1>1, <1>3, <2>1 DEF CursorsAgree
  <2>3. OverrunRejected'
    BY <2>1, Zenon DEF OverrunRejected
  <2>4. LoadReadsAll'
    BY <2>1, Zenon DEF LoadReadsAll
  <2> QED  BY <2>2, <2>3, <2>4
<1>8. LevelKept
  <2>1. Open(stack', heap', pc') = {}
    BY <1>3, OpenNone
  <2>2. Len(stack) = 0
    BY DEF IInv, TypeOK, Depth
  <2>3. Open(stack, heap, pc) = {}
    BY <2>2, OpenNone
  <2> QED  BY <2>1, <2>3 DEF LevelKept
<1>9. Cardinality(Open(stack', heap', pc')) <= read_level'
  BY <1>3, <1>5, <1>8, LevelBound DEF TypeOK
<1> QED  BY <1>5, <1>6, <1>7, <1>8, <1>9 DEF IInv

LEMMA LoadReturnsKeeps == ASSUME IInv, LoadReturns PROVE IInv' /\ LevelKept
<1> USE DEF LoadReturns
<1>1. stack' = << >> /\ stack' \in Seq(Frame) /\ Len(stack') = 0 /\ Depth' = 0
  BY DEF Depth
<1>2. TypeOK'
  BY <1>1 DEF IInv, TypeOK, Results
<1>3. FramesOK(stack, heap, pc)'
  BY <1>1, FramesNone
<1>4. consumed' = length'
  <2>1. Top.next = consumed /\ consumed \in Nat /\ length \in Nat /\ consumed <= length + 1
    BY LoopFacts, RunningFacts DEF IInv, TypeOK, OverrunRejected
  <2>2. ~(consumed > length)
    BY DEF IInv, OverrunRejected, InLoad, Looping
  <2> QED  BY <2>1, <2>2 DEF length
<1>5. CursorsAgree' /\ OverrunRejected' /\ LoadReadsAll'
  <2>1. /\ pc' = "done" /\ length' \in Nat
        /\ consumed' <= length' + 1 /\ ~(consumed' > length')
    <3>1. buffer' \in Seq(Byte)
      BY <1>2 DEF TypeOK
    <3>2. length' \in Nat
      BY <3>1 DEF length
    <3>3. pc' = "done"
      OBVIOUS
    <3>4. \A m, n \in Nat : m = n => m <= n + 1 /\ ~(m > n)
      OBVIOUS
    <3> QED  BY <1>4, <3>2, <3>3, <3>4, Zenon
  <2> HIDE DEF LoadReturns
  <2>2. CursorsAgree'
    BY <1>1, <2>1 DEF CursorsAgree
  <2>3. OverrunRejected'
    BY <2>1, Zenon DEF OverrunRejected
  <2>4. LoadReadsAll'
    BY <1>4, Zenon DEF LoadReadsAll
  <2> QED  BY <2>2, <2>3, <2>4
<1>6. LevelKept
  <2>1. Open(stack', heap', pc') = {} /\ Open(stack, heap, pc) = {}
    BY <1>1, OpenNone DEF InLoad, Depth
  <2> QED  BY <2>1 DEF LevelKept
<1>7. Cardinality(Open(stack', heap', pc')) <= read_level'
  BY <1>1, <1>2, <1>6, LevelBound DEF TypeOK
<1> QED  BY <1>2, <1>3, <1>5, <1>6, <1>7 DEF IInv

(* Every failure ends in Abort. *)
Failed == pc' = "done" /\ result' # "true"

FailingStep == HeaderFails \/ LeafFails \/ ResizeThrows \/ ListFails \/ ElementFails

LEMMA FailingStepKeeps == ASSUME IInv, FailingStep PROVE IInv' /\ Failed
<1>1. ASSUME NEW how \in {"false", "bad_alloc"}, Abort(how), pc # "done"
      PROVE  IInv' /\ Failed
  <2>1. IInv'
    BY <1>1, AbortKeeps
  <2>2. Failed
    BY <1>1 DEF Failed, Abort
  <2> QED  BY <2>1, <2>2
<1>2. CASE HeaderFails
  BY <1>1, <1>2 DEF HeaderFails, AtHeader, Looping, Fail
<1>3. CASE LeafFails
  BY <1>1, <1>3 DEF LeafFails, Fail
<1>4. CASE ResizeThrows
  BY <1>1, <1>4 DEF ResizeThrows, Reading
<1>5. CASE ListFails
  BY <1>1, <1>5 DEF ListFails, Reading, Fail
<1>6. CASE ElementFails
  BY <1>1, <1>6 DEF ElementFails, Looping, Fail
<1> QED  BY <1>2, <1>3, <1>4, <1>5, <1>6 DEF FailingStep

LEMMA StutterKeeps == ASSUME IInv, UNCHANGED vars PROVE IInv' /\ LevelKept
BY DEF vars, IInv, LevelKept, TypeOK, FramesOK, FrameOK, CursorsAgree, OverrunRejected,
       LoadReadsAll, Open, Entered, Container, Depth, Top, Cur, length, Looping

LEMMA NextKeeps == ASSUME IInv, [Next]_vars PROVE IInv' /\ (LevelKept \/ Failed)
<1>1. CASE Load              BY <1>1, LoadKeeps
<1>2. CASE LoadReturns       BY <1>2, LoadReturnsKeeps
<1>3. CASE ReadHeader        BY <1>3, ReadHeaderKeeps
<1>4. CASE ReadScalar        BY <1>4, ReadScalarKeeps
<1>5. CASE ReadArray         BY <1>5, ReadArrayKeeps
<1>6. CASE ReadString        BY <1>6, ReadStringKeeps
<1>7. CASE ReadEndList       BY <1>7, ReadEndListKeeps
<1>8. CASE EnterList         BY <1>8, EnterListKeeps
<1>9. CASE ReadElement       BY <1>9, ReadElementKeeps
<1>10. CASE FinishList       BY <1>10, FinishListKeeps
<1>11. CASE EnterCompound    BY <1>11, EnterCompoundKeeps
<1>12. CASE FinishCompound   BY <1>12, FinishCompoundKeeps
<1>13. CASE ReturnToLoad     BY <1>13, ReturnToLoadKeeps
<1>14. CASE ReturnToCompound BY <1>14, ReturnToCompoundKeeps
<1>15. CASE ReturnToList     BY <1>15, ReturnToListKeeps
<1>16. CASE FailingStep      BY <1>16, FailingStepKeeps
<1>17. CASE UNCHANGED vars   BY <1>17, StutterKeeps
<1> QED
  BY <1>1, <1>2, <1>3, <1>4, <1>5, <1>6, <1>7, <1>8, <1>9, <1>10, <1>11, <1>12,
     <1>13, <1>14, <1>15, <1>16, <1>17, Zenon DEF Next, ReadStep, FailingStep

LEMMA InitKeeps == Init => IInv
<1> SUFFICES ASSUME Init PROVE IInv
  OBVIOUS
<1> USE DEF Init
<1>1. TypeOK
  BY DEF TypeOK, Results, Map, Depth
<1>2. FramesOK(stack, heap, pc)
  BY FramesNone
<1>3. CursorsAgree /\ OverrunRejected /\ LoadReadsAll
  BY DEF CursorsAgree, OverrunRejected, LoadReadsAll, Depth, length
<1>4. Cardinality(Open(stack, heap, pc)) <= read_level
  <2>1. Open(stack, heap, pc) = {}
    BY OpenNone
  <2>2. Cardinality({}) = 0
    BY FS_EmptySet
  <2>3. Cardinality(Open(stack, heap, pc)) = 0
    BY <2>1, <2>2, Zenon
  <2> QED  BY <2>3
<1> QED  BY <1>1, <1>2, <1>3, <1>4 DEF IInv

-----------------------------------------------------------------------------
(* The theorems                                                             *)

(* Whatever the buffers are, the calls of Load keep the inductive           *)
(* invariant: their frames are shaped like the tags they read, their        *)
(* offsets are those of the bytes really read, and read_level counts at     *)
(* least the compounds that are open.                                       *)
THEOREM Invariance == Spec => []IInv
<1>1. Init => IInv
  BY InitKeeps
<1>2. IInv /\ [Next]_vars => IInv'
  BY NextKeeps
<1> QED  BY <1>1, <1>2, PTL DEF Spec

(* Every variable has its type, for buffers of any length: no read leaves   *)
(* a tag with a payload, a name or a child type outside of its range, and   *)
(* read_level, which failures never lower, is not counted down below zero.  *)
THEOREM TypeCorrect == Spec => []TypeOK
<1>1. IInv => TypeOK
  BY DEF IInv
<1> QED  BY <1>1, Invariance, PTL

(* The offsets and sizes the calls hand one another agree with the bytes    *)
(* read, at any depth: no byte is skipped or read twice.                    *)
THEOREM Cursors == Spec => []CursorsAgree
<1>1. IInv => CursorsAgree
  BY DEF IInv
<1> QED  BY <1>1, Invariance, PTL

(* The one byte ReadNameFromBuffer may take too many is the most any Load   *)
(* reads past its buffer, and no tag read with it is kept.                  *)
THEOREM Overrun == Spec => []OverrunRejected
<1>1. IInv => OverrunRejected
  BY DEF IInv
<1> QED  BY <1>1, Invariance, PTL

(* A Load that returns true has read its whole buffer, and no more.         *)
THEOREM ReadsAll == Spec => []LoadReadsAll
<1>1. IInv => LoadReadsAll
  BY DEF IInv
<1> QED  BY <1>1, Invariance, PTL

(* Each level of the recursion has cost three bytes of the buffer at least. *)
THEOREM Recursion == Spec => []RecursionBounded
<1>1. IInv => RecursionBounded
  <2> SUFFICES ASSUME IInv, Depth > 0
               PROVE  3 * (Depth - 1) <= consumed
    BY DEF RecursionBounded
  <2>1. pc # "done"
    BY DEF IInv, TypeOK
  <2>2. /\ 3 * (Depth - 1) <= Top.start /\ Top.start <= Top.next
        /\ Depth \in Nat /\ Top.start \in Nat /\ Top.next \in Nat
    BY <2>1, RunningFacts
  <2>3. consumed \in Nat /\ ret \in Nat /\ pc \in {"loop", "body", "return"}
    BY <2>1 DEF IInv, TypeOK
  <2>4. Top.start <= consumed
    BY <2>2, <2>3 DEF IInv, CursorsAgree
  <2> QED  BY <2>2, <2>3, <2>4
<1> QED  BY <1>1, Invariance, PTL

(* read_level goes up and down with the compounds being read; only a step   *)
(* with which a Load fails can leave it too high.                           *)
THEOREM LevelLeaks == Spec => LevelLeaksOnFailure
<1> DEFINE A == \/ read_level' - Cardinality(OpenCompounds') =
                     read_level - Cardinality(OpenCompounds)
                \/ pc' = "done" /\ result' # "true"
<1>1. IInv /\ [Next]_vars => [A]_vars
  <2> SUFFICES ASSUME IInv, [Next]_vars PROVE A
    OBVIOUS
  <2>1. OpenCompounds = Open(stack, heap, pc)
    BY OpenCompoundsAre
  <2>2. OpenCompounds' = Open(stack', heap', pc')
    BY DEF OpenCompounds, Open, Entered, Depth, IsCompound
  <2>3. LevelKept \/ Failed
    BY NextKeeps
  <2> QED  BY <2>1, <2>2, <2>3, Zenon DEF LevelKept, Failed
<1> QED  BY <1>1, Invariance, PTL DEF Spec, LevelLeaksOnFailure

-----------------------------------------------------------------------------
(***************************************************************************)
(* What Load builds is a forest of well-formed tags, for every buffer.     *)
(*                                                                         *)
(* TagsWellFormed speaks of the tags alone and is not inductive: it does   *)
(* not say that a tag being read is pointed at by nothing yet, so that a   *)
(* pointer to it can be added; nor that the tags made before the current   *)
(* root tag lead to none of those made since, so that these can go when    *)
(* Load fails.  `Linked` does.                                             *)
(***************************************************************************)

HIDE DEF SizeofTagType, SizeofU16, SizeofU32

-----------------------------------------------------------------------------
(* The invariant, over a call stack `s`, a heap `h`, a root `r` and the     *)
(* place `p` of the innermost call.                                         *)

Held(h, id) ==
  {h[id].kids[j] : j \in 1 .. Len(h[id].kids)} \cup {e[2] : e \in h[id].map}

Values(m) == {e[2] : e \in m}

(* No two pointers lead to one tag, and none to an older tag. *)
Distinct(k) == \A i, j \in 1 .. Len(k) : k[i] = k[j] => i = j \/ k[i] = Null

Pointers(h, r) ==
  /\ \A id \in 1 .. Len(h) : \A x \in Held(h, id) :
       x # Null => id < x /\ x <= Len(h)
  /\ \A id \in 1 .. Len(h) : Distinct(h[id].kids)
  /\ \A a, b \in 1 .. Len(h) : \A x \in Held(h, a) :
       x \in Held(h, b) => a = b \/ x = Null
  /\ \A id \in 1 .. Len(h) : \A x \in Held(h, id) :
       x \in Values(r) => x = Null

(* Entries stand under the names of their tags. *)
EntriesIn(h, m) ==
  /\ \A e \in m : e[2] \in 1 .. Len(h) /\ h[e[2]].name = e[1]
  /\ \A e, f \in m : e[1] = f[1] => e = f

Keys(h, r) == EntriesIn(h, r) /\ \A id \in 1 .. Len(h) : EntriesIn(h, h[id].map)

(* The first n children of a list are there, the others are null. *)
ReadTo(h, id, n) ==
  \A j \in 1 .. Len(h[id].kids) :
    LET kid == h[id].kids[j] IN
    IF j <= n THEN kid \in 1 .. Len(h) /\ h[kid].type = h[id].ctype ELSE kid = Null

(* The frames whose tag has something left to read. *)
Unfinished(s, p) == {j \in 2 .. Len(s) : p = "return" => j < Len(s)}

Lists(s, h, p) ==
  /\ \A id \in 1 .. Len(h) :
       h[id].type = kTagList /\ (\A j \in Unfinished(s, p) : s[j].tag # id)
         => ReadTo(h, id, Len(h[id].kids))
  /\ \A j \in Unfinished(s, p) : h[s[j].tag].type = kTagList =>
       /\ ReadTo(h, s[j].tag, s[j].i)
       /\ j < Len(s) => /\ s[j].i < Len(h[s[j].tag].kids)
                        /\ h[s[j + 1].tag].type = h[s[j].tag].ctype

(* A tag being read is younger than those around it and pointed at by none; *)
(* what was there before the current root tag leads to nothing made since.  *)
Fresh(s, h, r, p) ==
  /\ Len(s) > 0 => s[1].tag = Null
  /\ \A j \in 2 .. Len(s) : s[j].tag \in 1 .. Len(h)
  /\ \A j, k \in 2 .. Len(s) : j < k => s[j].tag < s[k].tag
  /\ \A j \in 2 .. Len(s) : \A id \in 1 .. Len(h) : s[j].tag \notin Held(h, id)
  /\ Len(s) > 1 =>
       /\ \A id \in 1 .. Len(h) : id < s[2].tag =>
            \A x \in Held(h, id) : x < s[2].tag
       /\ \A x \in Values(r) : x < s[2].tag
  /\ p = "body" => s[Len(s)].i = 0 /\ h[s[Len(s)].tag].kids = << >>

Linked(s, h, r, p) ==
  Pointers(h, r) /\ Keys(h, r) /\ Lists(s, h, p) /\ Fresh(s, h, r, p)

LEMMA HeldType ==
  ASSUME NEW h \in Seq(Tag), NEW id \in 1 .. Len(h)
  PROVE  \A x \in Held(h, id) : x \in Nat
<1>1. h[id] \in Tag
  BY ElementOfSeq
<1>2. h[id].kids \in Seq(Nat) /\ h[id].map \in SUBSET (Name \X Nat)
  BY <1>1 DEF Tag, Map
<1>3. \A j \in 1 .. Len(h[id].kids) : h[id].kids[j] \in Nat
  BY <1>2, ElementOfSeq
<1> QED  BY <1>2, <1>3 DEF Held

-----------------------------------------------------------------------------
(* One tag of the heap, c, is replaced: by u                                *)

Becomes(h, g, c, u) ==
  /\ u \in Tag /\ u.type = h[c].type /\ u.name = h[c].name
  /\ g = [h EXCEPT ![c] = u]

LEMMA Replaced ==
  ASSUME NEW h \in Seq(Tag), NEW c \in 1 .. Len(h), NEW u, NEW g, Becomes(h, g, c, u)
  PROVE  /\ g \in Seq(Tag) /\ Len(g) = Len(h) /\ g[c] = u
         /\ \A id \in 1 .. Len(h) :
              /\ g[id].type = h[id].type /\ g[id].name = h[id].name
              /\ id # c => g[id] = h[id]
<1>1. /\ g \in Seq(Tag) /\ Len(g) = Len(h)
      /\ \A j \in 1 .. Len(h) : g[j] = IF j = c THEN u ELSE h[j]
  BY ExceptSeq DEF Becomes
<1> QED  BY <1>1 DEF Becomes

(* ... by one that points at one more tag, x, or at none. *)
LEMMA PointersReplaced ==
  ASSUME NEW h \in Seq(Tag), NEW r, NEW c \in 1 .. Len(h), NEW u, NEW g,
         Becomes(h, g, c, u), Pointers(h, r), Distinct(u.kids),
         NEW x \in Nat, Held(g, c) \subseteq Held(h, c) \cup {x, Null},
         x # Null => /\ c < x /\ x <= Len(h) /\ x \notin Values(r)
                     /\ \A id \in 1 .. Len(h) : x \notin Held(h, id)
  PROVE  Pointers(g, r)
<1>1. /\ Len(g) = Len(h) /\ g[c] = u
      /\ \A id \in 1 .. Len(h) : id # c => g[id] = h[id]
  BY Replaced
<1>2. \A id \in 1 .. Len(h) : id # c => Held(g, id) = Held(h, id)
  BY <1>1 DEF Held
<1>3. \A id \in 1 .. Len(h) : \A y \in Held(g, id) :
        y # Null => y \in Held(h, id) \/ (y = x /\ id = c)
  <2> TAKE id \in 1 .. Len(h)
  <2>1. CASE id = c
    BY <2>1, Zenon
  <2>2. CASE id # c
    <3>1. Held(g, id) = Held(h, id)
      BY <1>2, <2>2
    <3> QED  BY <3>1
  <2> QED  BY <2>1, <2>2, Zenon
<1>4. \A id \in 1 .. Len(h) : \A y \in Held(g, id) : y # Null => id < y /\ y <= Len(h)
  BY <1>3 DEF Pointers
<1>5. \A id \in 1 .. Len(h) : Distinct(g[id].kids)
  BY <1>1 DEF Pointers
<1>6. \A a, b \in 1 .. Len(h) : \A y \in Held(g, a) :
        y \in Held(g, b) => a = b \/ y = Null
  <2> SUFFICES ASSUME NEW a \in 1 .. Len(h), NEW b \in 1 .. Len(h), NEW y \in Held(g, a),
                      y \in Held(g, b), y # Null
               PROVE  a = b
    OBVIOUS
  <2>1. CASE y = x
    <3>1. y \notin Held(h, a) /\ y \notin Held(h, b)
      BY <2>1
    <3>2. a = c
      BY <1>3, <3>1
    <3>3. b = c
      BY <1>3, <3>1
    <3> QED  BY <3>2, <3>3
  <2>2. CASE y # x
    <3>1. y \in Held(h, a) /\ y \in Held(h, b)
      BY <1>3, <2>2, Zenon
    <3> QED  BY <3>1, Zenon DEF Pointers
  <2> QED  BY <2>1, <2>2
<1>7. \A id \in 1 .. Len(h) : \A y \in Held(g, id) :
        y \in Values(r) => y = Null
  BY <1>3 DEF Pointers
<1> QED  BY <1>1, <1>4, <1>5, <1>6, <1>7 DEF Pointers

LEMMA KeysReplaced ==
  ASSUME NEW h \in Seq(Tag), NEW r, NEW c \in 1 .. Len(h), NEW u, NEW g,
         Becomes(h, g, c, u), Keys(h, r), EntriesIn(h, u.map)
  PROVE  Keys(g, r)
<1>1. /\ Len(g) = Len(h) /\ g[c] = u
      /\ \A id \in 1 .. Len(h) : g[id].name = h[id].name
      /\ \A id \in 1 .. Len(h) : id # c => g[id] = h[id]
  BY Replaced
<1>2. ASSUME NEW m, EntriesIn(h, m)
      PROVE  EntriesIn(g, m)
  BY <1>1, <1>2 DEF EntriesIn
<1>3. \A id \in 1 .. Len(h) : EntriesIn(g, g[id].map)
  <2> TAKE id \in 1 .. Len(h)
  <2>1. CASE id = c
    BY <1>1, <1>2, <2>1
  <2>2. CASE id # c
    BY <1>1, <1>2, <2>2 DEF Keys
  <2> QED  BY <2>1, <2>2
<1>4. EntriesIn(g, r)
  BY <1>2 DEF Keys
<1> QED  BY <1>1, <1>3, <1>4 DEF Keys

LEMMA ReadToReplaced ==
  ASSUME NEW h \in Seq(Tag), NEW c \in 1 .. Len(h), NEW u, NEW g, Becomes(h, g, c, u),
         NEW id \in 1 .. Len(h), id # c, NEW n, ReadTo(h, id, n)
  PROVE  ReadTo(g, id, n)
<1>1. /\ Len(g) = Len(h) /\ g[id] = h[id]
      /\ \A k \in 1 .. Len(h) : g[k].type = h[k].type
  BY Replaced
<1> QED  BY <1>1 DEF ReadTo

(* Frame n becomes the innermost, and may go on to another child. *)
Moves(s, t, n) ==
  /\ n \in 2 .. Len(s) /\ t \in Seq(Frame) /\ Len(t) = n
  /\ \A j \in 1 .. n : t[j].tag = s[j].tag
  /\ \A j \in 1 .. n - 1 : t[j].i = s[j].i

(* A loop is entered or gone on with in frame n of `s`, where the calls     *)
(* above have ended; the tag read there may now point at the last one's.    *)
LEMMA FreshReplaced ==
  ASSUME NEW h \in Seq(Tag), NEW r, NEW s \in Seq(Frame), NEW p, Fresh(s, h, r, p),
         NEW n, NEW t, Moves(s, t, n),
         NEW c, c = s[n].tag, NEW u, NEW g, Becomes(h, g, c, u),
         NEW x \in Nat, Held(g, c) \subseteq Held(h, c) \cup {x, Null},
         x # Null => n < Len(s) /\ x = s[Len(s)].tag,
         NEW q \in {"loop", "return"}
  PROVE  Fresh(t, g, r, q)
<1>1. /\ \A j \in 2 .. Len(s) : s[j].tag \in 1 .. Len(h)
      /\ \A j, k \in 2 .. Len(s) : j < k => s[j].tag < s[k].tag
      /\ \A j \in 2 .. Len(s) : \A id \in 1 .. Len(h) : s[j].tag \notin Held(h, id)
      /\ \A id \in 1 .. Len(h) : id < s[2].tag => \A y \in Held(h, id) : y < s[2].tag
      /\ \A y \in Values(r) : y < s[2].tag
      /\ s[1].tag = Null /\ n \in Nat /\ Len(s) \in Nat /\ n > 1 /\ n <= Len(s)
      /\ Len(t) = n /\ \A j \in 1 .. n : t[j].tag = s[j].tag
      /\ \A j \in 1 .. n - 1 : t[j].i = s[j].i
  BY DEF Fresh, Moves
<1>2. c \in 1 .. Len(h)
  BY <1>1
<1>3. Len(g) = Len(h) /\ \A id \in 1 .. Len(h) : id # c => g[id] = h[id]
  BY <1>2, Replaced
<1>4. \A id \in 1 .. Len(h) : id # c => Held(g, id) = Held(h, id)
  BY <1>3 DEF Held
<1>5. \A j \in 2 .. n : s[j].tag # x /\ s[j].tag # Null
  BY <1>1
<1>6. \A j \in 2 .. n : \A id \in 1 .. Len(h) : s[j].tag \notin Held(g, id)
  <2> TAKE j \in 2 .. n
  <2> TAKE id \in 1 .. Len(h)
  <2>1. j \in 2 .. Len(s)
    BY <1>1
  <2>2. s[j].tag \notin Held(h, id)
    BY <2>1, Zenon DEF Fresh
  <2>3. CASE id = c
    BY <1>5, <2>2, <2>3, Zenon
  <2>4. CASE id # c
    BY <1>4, <2>2, <2>4, Zenon
  <2> QED  BY <2>3, <2>4, Zenon
<1>7. c >= s[2].tag
  <2>1. CASE n = 2
    BY <1>2, <2>1
  <2>2. CASE n > 2
    BY <1>1, <2>2
  <2> QED  BY <1>1, <2>1, <2>2
<1>8. \A id \in 1 .. Len(h) : id < s[2].tag => \A y \in Held(g, id) : y < s[2].tag
  <2> TAKE id \in 1 .. Len(h)
  <2>1. id < s[2].tag => id # c
    <3>1. 2 \in 2 .. Len(s)
      BY <1>1
    <3>2. s[2].tag \in Nat
      BY <1>1, <3>1
    <3> QED  BY <1>2, <1>7, <3>2
  <2>2. id < s[2].tag => \A y \in Held(h, id) : y < s[2].tag
    BY <1>1, Zenon
  <2> QED  BY <1>4, <2>1, <2>2, Zenon
<1>9. t[1].tag = Null /\ \A j \in 2 .. n : t[j].tag = s[j].tag
  BY <1>1
<1>10. \A j \in 2 .. n : t[j].tag \in 1 .. Len(g)
  BY <1>1, <1>3, <1>9
<1>11. \A j, k \in 2 .. n : j < k => t[j].tag < t[k].tag
  <2> TAKE j, k \in 2 .. n
  <2>1. j \in 2 .. Len(s) /\ k \in 2 .. Len(s)
    BY <1>1
  <2> QED  BY <1>1, <1>9, <2>1, Zenon
<1>12. \A j \in 2 .. n : \A id \in 1 .. Len(g) : t[j].tag \notin Held(g, id)
  BY <1>3, <1>6, <1>9
<1>13. /\ \A id \in 1 .. Len(g) : id < t[2].tag => \A y \in Held(g, id) : y < t[2].tag
       /\ \A y \in Values(r) : y < t[2].tag
  <2>1. t[2].tag = s[2].tag
    BY <1>1, <1>9
  <2> QED  BY <1>1, <1>3, <1>8, <2>1, Zenon
<1> QED  BY <1>1, <1>9, <1>10, <1>11, <1>12, <1>13 DEF Fresh

LEMMA ListsReplaced ==
  ASSUME NEW h \in Seq(Tag), NEW r, NEW s \in Seq(Frame), NEW p,
         Fresh(s, h, r, p), Lists(s, h, p),
         NEW n, NEW t, Moves(s, t, n), Unfinished(s, p) = 2 .. n,
         NEW c, c = s[n].tag, NEW u, NEW g, Becomes(h, g, c, u),
         u.type = kTagList => ReadTo(g, c, t[n].i)
  PROVE  Lists(t, g, "loop")
<1>1. /\ \A j \in 2 .. Len(s) : s[j].tag \in 1 .. Len(h)
      /\ \A j, k \in 2 .. Len(s) : j < k => s[j].tag < s[k].tag
      /\ n \in Nat /\ Len(s) \in Nat /\ n > 1 /\ n <= Len(s)
      /\ Len(t) = n /\ \A j \in 1 .. n : t[j].tag = s[j].tag
      /\ \A j \in 1 .. n - 1 : t[j].i = s[j].i
  BY DEF Fresh, Moves
<1>2. c \in 1 .. Len(h)
  BY <1>1
<1>3. /\ Len(g) = Len(h) /\ g[c] = u
      /\ \A id \in 1 .. Len(h) : id # c => g[id] = h[id]
      /\ \A id \in 1 .. Len(h) : g[id].type = h[id].type
  BY <1>2, Replaced
<1>4. \A id \in 1 .. Len(h) : \A k : id # c /\ ReadTo(h, id, k) => ReadTo(g, id, k)
  <2> TAKE id \in 1 .. Len(h)
  <2> TAKE k
  <2> HAVE id # c /\ ReadTo(h, id, k)
  <2> QED  BY <1>2, <1>3 DEF ReadTo
<1>5. Unfinished(t, "loop") = 2 .. n
  BY <1>1 DEF Unfinished
<1>6. ASSUME NEW id \in 1 .. Len(h), g[id].type = kTagList, \A j \in 2 .. n : t[j].tag # id
      PROVE  ReadTo(g, id, Len(g[id].kids))
  <2>1. id # c
    BY <1>1, <1>6
  <2>2. \A j \in 2 .. n : s[j].tag # id
    BY <1>1, <1>6
  <2>3. ReadTo(h, id, Len(h[id].kids))
    BY <1>3, <1>6, <2>2 DEF Lists
  <2> QED  BY <1>3, <1>4, <2>1, <2>3
<1>7. ASSUME NEW j \in 2 .. n, g[t[j].tag].type = kTagList
      PROVE  /\ ReadTo(g, t[j].tag, t[j].i)
             /\ j < n => /\ t[j].i < Len(g[t[j].tag].kids)
                         /\ g[t[j + 1].tag].type = g[t[j].tag].ctype
  <2>1. /\ t[j].tag = s[j].tag /\ s[j].tag \in 1 .. Len(h)
        /\ j < n => s[j].tag # c /\ t[j].i = s[j].i /\ t[j + 1].tag = s[j + 1].tag
                    /\ s[j + 1].tag \in 1 .. Len(h) /\ j < Len(s)
    <3>1. j \in 1 .. n /\ j \in 2 .. Len(s)
      BY <1>1
    <3>2. j < n => j \in 1 .. n - 1 /\ j + 1 \in 1 .. n /\ j + 1 \in 2 .. Len(s) /\ j < Len(s)
      BY <1>1
    <3> QED  BY <1>1, <3>1, <3>2
  <2>2. CASE j = n
    BY <1>3, <1>7, <2>1, <2>2
  <2>3. CASE j < n
    <3>1. h[s[j].tag].type = kTagList
      BY <1>3, <1>7, <2>1
    <3>2. /\ ReadTo(h, s[j].tag, s[j].i) /\ s[j].i < Len(h[s[j].tag].kids)
          /\ h[s[j + 1].tag].type = h[s[j].tag].ctype
      BY <2>1, <2>3, <3>1 DEF Lists
    <3> QED  BY <1>3, <1>4, <2>1, <2>3, <3>2
  <2> QED  BY <1>1, <2>2, <2>3
<1> QED  BY <1>1, <1>3, <1>5, <1>6, <1>7 DEF Lists

LEMMA LinkedReplaced ==
  ASSUME NEW h \in Seq(Tag), NEW r, NEW s \in Seq(Frame), NEW p, Linked(s, h, r, p),
         NEW n, NEW t, Moves(s, t, n), Unfinished(s, p) = 2 .. n,
         NEW c, c = s[n].tag, NEW u, NEW g, Becomes(h, g, c, u),
         Distinct(u.kids), EntriesIn(h, u.map),
         NEW x \in Nat, Held(g, c) \subseteq Held(h, c) \cup {x, Null},
         x # Null => n < Len(s) /\ x = s[Len(s)].tag,
         u.type = kTagList => ReadTo(g, c, t[n].i)
  PROVE  Linked(t, g, r, "loop")
<1>1. Pointers(h, r) /\ Keys(h, r) /\ Lists(s, h, p) /\ Fresh(s, h, r, p)
  BY DEF Linked
<1>2. /\ \A j \in 2 .. Len(s) : s[j].tag \in 1 .. Len(h)
      /\ \A j, k \in 2 .. Len(s) : j < k => s[j].tag < s[k].tag
      /\ \A j \in 2 .. Len(s) : \A id \in 1 .. Len(h) : s[j].tag \notin Held(h, id)
      /\ Len(s) > 1 => \A y \in Values(r) : y < s[2].tag
  BY <1>1 DEF Fresh
<1>3. n \in Nat /\ Len(s) \in Nat /\ n > 1 /\ n <= Len(s) /\ c \in 1 .. Len(h)
  BY <1>2 DEF Moves
<1>4. x # Null => /\ c < x /\ x <= Len(h) /\ x \notin Values(r)
                  /\ \A id \in 1 .. Len(h) : x \notin Held(h, id)
  <2> SUFFICES ASSUME x # Null
               PROVE  /\ c < x /\ x <= Len(h) /\ x \notin Values(r)
                      /\ \A id \in 1 .. Len(h) : x \notin Held(h, id)
    OBVIOUS
  <2>1. n < Len(s) /\ x = s[Len(s)].tag /\ Len(s) \in 2 .. Len(s) /\ 2 \in 2 .. Len(s)
    BY <1>3
  <2>2. c < x /\ x <= Len(h) /\ \A id \in 1 .. Len(h) : x \notin Held(h, id)
    <3>1. n \in 2 .. Len(s) /\ Len(s) \in 2 .. Len(s)
      BY <1>3, <2>1
    <3>2. c < x
      BY <1>2, <2>1, <3>1
    <3>3. x \in 1 .. Len(h) /\ \A id \in 1 .. Len(h) : x \notin Held(h, id)
      BY <1>2, <2>1, <3>1, Zenon
    <3> QED  BY <3>2, <3>3
  <2>3. s[2].tag < x /\ s[2].tag \in Nat
    BY <1>2, <1>3, <2>1
  <2>4. x \notin Values(r)
    BY <1>2, <1>3, <2>3
  <2> QED  BY <2>2, <2>4
<1>5. Pointers(g, r)
  BY <1>1, <1>3, <1>4, PointersReplaced
<1>6. Keys(g, r)
  BY <1>1, <1>3, KeysReplaced
<1>7. Lists(t, g, "loop")
  BY <1>1, ListsReplaced
<1>8. Fresh(t, g, r, "loop")
  BY <1>1, FreshReplaced
<1> QED  BY <1>5, <1>6, <1>7, <1>8 DEF Linked

(* A list is as far as it was if its children are, and have kept their types. *)
LEMMA ReadToSame ==
  ASSUME NEW g, NEW h, NEW id, NEW k, ReadTo(h, id, k),
         g[id].kids = h[id].kids, g[id].ctype = h[id].ctype,
         \A kid \in 1 .. Len(h) : kid \in 1 .. Len(g) /\ g[kid].type = h[kid].type
  PROVE  ReadTo(g, id, k)
<1> SUFFICES ASSUME NEW j \in 1 .. Len(h[id].kids)
             PROVE  LET kid == h[id].kids[j] IN
                    IF j <= k THEN kid \in 1 .. Len(g) /\ g[kid].type = h[id].ctype ELSE kid = Null
  BY Zenon DEF ReadTo
<1>1. LET kid == h[id].kids[j] IN
      IF j <= k THEN kid \in 1 .. Len(h) /\ h[kid].type = h[id].ctype ELSE kid = Null
  BY Zenon DEF ReadTo
<1> QED  BY <1>1, Zenon

(* The innermost call ends: its tag has been read. *)
LEMMA LinkedFinish ==
  ASSUME NEW h \in Seq(Tag), NEW r, NEW s \in Seq(Frame), NEW p \in {"body", "loop"},
         Linked(s, h, r, p), Len(s) > 1,
         NEW c, c = s[Len(s)].tag, NEW u, NEW g, Becomes(h, g, c, u),
         u.ctype = h[c].ctype, u.kids = h[c].kids, u.map = h[c].map,
         u.type = kTagList => ReadTo(h, c, Len(u.kids))
  PROVE  Linked(s, g, r, "return")
<1> DEFINE n == Len(s)
<1>1. Pointers(h, r) /\ Keys(h, r) /\ Lists(s, h, p) /\ Fresh(s, h, r, p)
  BY DEF Linked
<1>2. n \in 2 .. Len(s) /\ n \in Nat
  OBVIOUS
<1>3. c \in 1 .. Len(h)
  BY <1>1, <1>2 DEF Fresh
<1>4. /\ g \in Seq(Tag) /\ Len(g) = Len(h) /\ g[c] = u
      /\ \A id \in 1 .. Len(h) :
           /\ g[id].type = h[id].type /\ g[id].name = h[id].name
           /\ id # c => g[id] = h[id]
  BY <1>3, Replaced
<1>5. Held(g, c) = Held(h, c)
  BY <1>4 DEF Held
<1>6. Held(g, c) \subseteq Held(h, c) \cup {0, Null}
  BY <1>5
<1>7. Distinct(u.kids)
  BY <1>1, <1>3 DEF Pointers
<1>8. EntriesIn(h, u.map)
  BY <1>1, <1>3 DEF Keys
<1>9. Pointers(g, r)
  <2>1. 0 \in Nat /\ 0 = Null
    OBVIOUS
  <2> QED  BY <1>1, <1>3, <1>6, <1>7, <2>1, PointersReplaced
<1>10. Keys(g, r)
  BY <1>1, <1>3, <1>8, KeysReplaced
<1>11. Fresh(s, g, r, "return")
  <2>1. 0 \in Nat /\ 0 = Null
    OBVIOUS
  <2>2. Moves(s, s, n)
    BY <1>2 DEF Moves
  <2> QED  BY <1>1, <1>6, <2>1, <2>2, FreshReplaced
<1>12. \A id \in 1 .. Len(h) : \A k : ReadTo(h, id, k) => ReadTo(g, id, k)
  <2> TAKE id \in 1 .. Len(h)
  <2> TAKE k
  <2> HAVE ReadTo(h, id, k)
  <2>1. g[id].kids = h[id].kids /\ g[id].ctype = h[id].ctype
    BY <1>4
  <2>2. \A kid \in 1 .. Len(h) : kid \in 1 .. Len(g) /\ g[kid].type = h[kid].type
    BY <1>4
  <2> QED  BY <2>1, <2>2, ReadToSame, Zenon
<1>13. Unfinished(s, p) = 2 .. n /\ Unfinished(s, "return") = 2 .. n - 1
  BY <1>2 DEF Unfinished
<1>14. ASSUME NEW id \in 1 .. Len(h), g[id].type = kTagList,
              \A j \in 2 .. n - 1 : s[j].tag # id
       PROVE  ReadTo(g, id, Len(g[id].kids))
  <2>1. CASE id = c
    BY <1>4, <1>12, <1>14, <2>1
  <2>2. CASE id # c
    <3>1. \A j \in 2 .. n : s[j].tag # id
      BY <1>2, <1>14, <2>2
    <3>2. ReadTo(h, id, Len(h[id].kids))
      BY <1>1, <1>4, <1>13, <1>14, <3>1 DEF Lists
    <3> QED  BY <1>4, <1>12, <2>2, <3>2
  <2> QED  BY <2>1, <2>2
<1>15. ASSUME NEW j \in 2 .. n - 1, g[s[j].tag].type = kTagList
       PROVE  /\ ReadTo(g, s[j].tag, s[j].i)
              /\ s[j].i < Len(g[s[j].tag].kids)
              /\ g[s[j + 1].tag].type = g[s[j].tag].ctype
  <2>1. j \in 2 .. n /\ j + 1 \in 2 .. n /\ j < Len(s)
    BY <1>2
  <2>2. s[j].tag \in 1 .. Len(h) /\ s[j + 1].tag \in 1 .. Len(h)
    BY <1>1, <2>1 DEF Fresh
  <2>3. h[s[j].tag].type = kTagList
    BY <1>4, <1>15, <2>2
  <2>4. /\ ReadTo(h, s[j].tag, s[j].i) /\ s[j].i < Len(h[s[j].tag].kids)
        /\ h[s[j + 1].tag].type = h[s[j].tag].ctype
    BY <1>1, <1>13, <2>1, <2>3 DEF Lists
  <2>5. g[s[j].tag].kids = h[s[j].tag].kids /\ g[s[j].tag].ctype = h[s[j].tag].ctype
    BY <1>4, <2>2
  <2> QED  BY <1>4, <1>12, <2>2, <2>4, <2>5
<1>16. Lists(s, g, "return")
  BY <1>4, <1>13, <1>14, <1>15 DEF Lists
<1> QED  BY <1>9, <1>10, <1>11, <1>16 DEF Linked

-----------------------------------------------------------------------------
(* A tag is made and its call begins                                        *)

LEMMA LinkedPush ==
  ASSUME NEW h \in Seq(Tag), NEW r \in Map, NEW s \in Seq(Frame),
         Linked(s, h, r, "loop"), Len(s) > 0,
         NEW u \in Tag, u.kids = << >>, u.map = {},
         NEW f \in Frame, f.tag = Len(h) + 1, f.i = 0,
         Len(s) > 1 /\ h[s[Len(s)].tag].type = kTagList =>
           /\ s[Len(s)].i < Len(h[s[Len(s)].tag].kids)
           /\ u.type = h[s[Len(s)].tag].ctype
  PROVE  Linked(Append(s, f), Append(h, u), r, "body")
<1> DEFINE g == Append(h, u)
           t == Append(s, f)
           m == Len(h) + 1
           n == Len(s) + 1
<1>1. /\ g \in Seq(Tag) /\ Len(g) = m /\ g[m] = u
      /\ \A id \in 1 .. Len(h) : g[id] = h[id]
  BY AppendProperties
<1>2. t \in Seq(Frame) /\ Len(t) = n /\ t[n] = f /\ \A j \in 1 .. Len(s) : t[j] = s[j]
  BY Push
<1>3. Pointers(h, r) /\ Keys(h, r) /\ Lists(s, h, "loop") /\ Fresh(s, h, r, "loop")
  BY DEF Linked
<1>4. /\ Len(h) \in Nat /\ m \in Nat /\ Len(s) \in Nat /\ n \in Nat /\ n > 1
      /\ \A id \in 1 .. m : id = m \/ id \in 1 .. Len(h)
      /\ \A j \in 2 .. n : j = n \/ j \in 2 .. Len(s)
      /\ m \notin 1 .. Len(h)
  OBVIOUS
<1> HIDE DEF g, t
<1>5. /\ Held(g, m) = {}
      /\ \A id \in 1 .. Len(h) : Held(g, id) = Held(h, id)
  <2>1. Held(g, m) = {}
    BY <1>1 DEF Held
  <2>2. \A id \in 1 .. Len(h) : Held(g, id) = Held(h, id)
    BY <1>1 DEF Held
  <2> QED  BY <2>1, <2>2
<1>6. \A id \in 1 .. Len(h) : \A x \in Held(h, id) : x <= Len(h)
  BY <1>3 DEF Pointers
<1>7. \A x \in Values(r) : x \in 1 .. Len(h)
  BY <1>3 DEF Keys, EntriesIn, Values
<1>8. Pointers(g, r)
  <2>1. \A id \in 1 .. m : \A x \in Held(g, id) : x # Null => id < x /\ x <= m
    <3> TAKE id \in 1 .. m
    <3>1. CASE id = m
      BY <1>5, <3>1, Zenon
    <3>2. CASE id \in 1 .. Len(h)
      <4>1. \A x \in Held(h, id) : x # Null => id < x /\ x <= Len(h)
        BY <1>3, <3>2, Zenon DEF Pointers
      <4>2. \A x \in Held(h, id) : x \in Nat
        BY <3>2, HeldType
      <4> QED  BY <1>4, <1>5, <3>2, <4>1, <4>2
    <3> QED  BY <1>4, <3>1, <3>2
  <2>2. \A id \in 1 .. m : Distinct(g[id].kids)
    <3> TAKE id \in 1 .. m
    <3>1. CASE id = m
      BY <1>1, <3>1 DEF Distinct
    <3>2. CASE id \in 1 .. Len(h)
      BY <1>1, <1>3, <3>2 DEF Pointers
    <3> QED  BY <1>4, <3>1, <3>2
  <2>3. \A a, b \in 1 .. m : \A x \in Held(g, a) : x \in Held(g, b) => a = b \/ x = Null
    <3> SUFFICES ASSUME NEW a \in 1 .. m, NEW b \in 1 .. m, NEW x \in Held(g, a),
                        x \in Held(g, b), x # Null
                 PROVE  a = b
      OBVIOUS
    <3>1. a # m /\ b # m
      BY <1>5
    <3>2. a \in 1 .. Len(h) /\ b \in 1 .. Len(h)
      BY <1>4, <3>1
    <3>3. x \in Held(h, a) /\ x \in Held(h, b)
      BY <1>5, <3>2
    <3> QED  BY <1>3, <3>2, <3>3 DEF Pointers
  <2>4. \A id \in 1 .. m : \A x \in Held(g, id) : x \in Values(r) => x = Null
    <3> TAKE id \in 1 .. m
    <3>1. CASE id = m
      BY <1>5, <3>1, Zenon
    <3>2. CASE id \in 1 .. Len(h)
      BY <1>3, <1>5, <3>2, Zenon DEF Pointers
    <3> QED  BY <1>4, <3>1, <3>2
  <2> QED  BY <1>1, <2>1, <2>2, <2>3, <2>4 DEF Pointers
<1>9. Keys(g, r)
  <2>1. ASSUME NEW q, EntriesIn(h, q)
        PROVE  EntriesIn(g, q)
    BY <1>1, <1>4, <2>1 DEF EntriesIn
  <2>2. \A id \in 1 .. m : EntriesIn(g, g[id].map)
    <3> TAKE id \in 1 .. m
    <3>1. CASE id = m
      BY <1>1, <3>1 DEF EntriesIn
    <3>2. CASE id \in 1 .. Len(h)
      BY <1>1, <1>3, <2>1, <3>2 DEF Keys
    <3> QED  BY <1>4, <3>1, <3>2
  <2>3. EntriesIn(g, r)
    BY <1>3, <2>1 DEF Keys
  <2> QED  BY <1>1, <2>2, <2>3 DEF Keys
<1>10. /\ \A j \in 2 .. Len(s) : s[j].tag \in 1 .. Len(h)
       /\ \A j, k \in 2 .. Len(s) : j < k => s[j].tag < s[k].tag
       /\ \A j \in 2 .. Len(s) : \A id \in 1 .. Len(h) : s[j].tag \notin Held(h, id)
       /\ Len(s) > 1 =>
            /\ \A id \in 1 .. Len(h) : id < s[2].tag =>
                 \A x \in Held(h, id) : x < s[2].tag
            /\ \A x \in Values(r) : x < s[2].tag
       /\ s[1].tag = Null
  BY <1>3 DEF Fresh
<1>11. Fresh(t, g, r, "body")
  <2>1. t[1].tag = Null
    BY <1>2, <1>4, <1>10
  <2>2. \A j \in 2 .. n : t[j].tag \in 1 .. m
    BY <1>2, <1>4, <1>10
  <2>3. \A j, k \in 2 .. n : j < k => t[j].tag < t[k].tag
    BY <1>2, <1>4, <1>10, SMTT(30)
  <2>4. \A j \in 2 .. n : \A id \in 1 .. m : t[j].tag \notin Held(g, id)
    <3> TAKE j \in 2 .. n
    <3> TAKE id \in 1 .. m
    <3>1. CASE id = m
      BY <1>5, <3>1
    <3>2. CASE id \in 1 .. Len(h) /\ j = n
      <4>1. t[j].tag = m
        BY <1>2, <3>2
      <4>2. m \notin Held(h, id)
        BY <1>4, <1>6, <3>2
      <4> QED  BY <1>5, <3>2, <4>1, <4>2
    <3>3. CASE id \in 1 .. Len(h) /\ j \in 2 .. Len(s)
      <4>1. t[j].tag = s[j].tag
        BY <1>2, <1>4, <3>3, SMTT(30)
      <4> QED  BY <1>5, <1>10, <3>3, <4>1
    <3> QED  BY <1>4, <3>1, <3>2, <3>3
  <2>5. /\ \A id \in 1 .. m : id < t[2].tag => \A x \in Held(g, id) : x < t[2].tag
        /\ \A x \in Values(r) : x < t[2].tag
    <3>1. CASE Len(s) = 1
      <4>1. t[2].tag = m
        BY <1>2, <3>1
      <4>2. \A id \in 1 .. m : id < m => \A x \in Held(g, id) : x < m
        <5> SUFFICES ASSUME NEW id \in 1 .. m, id < m, NEW x \in Held(g, id)
                     PROVE  x < m
          OBVIOUS
        <5>1. id \in 1 .. Len(h)
          BY <1>4
        <5>2. x <= Len(h) /\ x \in Held(h, id)
          BY <1>5, <1>6, <5>1
        <5>3. x \in Nat
          BY <5>1, <5>2, HeldType
        <5> QED  BY <1>4, <5>2, <5>3
      <4>3. \A x \in Values(r) : x < m
        BY <1>4, <1>7
      <4> QED  BY <4>1, <4>2, <4>3
    <3>2. CASE Len(s) > 1
      <4>1. t[2].tag = s[2].tag /\ s[2].tag \in 1 .. Len(h)
        BY <1>2, <1>4, <1>10, <3>2
      <4>2. \A id \in 1 .. m : id < s[2].tag => id \in 1 .. Len(h)
        BY <1>4, <4>1
      <4> QED  BY <1>5, <1>10, <3>2, <4>1, <4>2, Zenon
    <3>3. Len(s) = 1 \/ Len(s) > 1
      <4>1. \A k \in Nat : k > 0 => k = 1 \/ k > 1
        OBVIOUS
      <4> QED  BY <1>4, <4>1, Zenon
    <3> QED  BY <3>1, <3>2, <3>3, Zenon
  <2>6. t[Len(t)].i = 0 /\ g[t[Len(t)].tag].kids = << >>
    BY <1>1, <1>2
  <2> QED  BY <1>1, <1>2, <2>1, <2>2, <2>3, <2>4, <2>5, <2>6 DEF Fresh
<1>12. Lists(t, g, "body")
  <2>1. Unfinished(t, "body") = 2 .. n /\ Unfinished(s, "loop") = 2 .. Len(s)
    BY <1>2 DEF Unfinished
  <2>2. \A id \in 1 .. Len(h) : \A k : ReadTo(h, id, k) => ReadTo(g, id, k)
    <3> TAKE id \in 1 .. Len(h)
    <3> TAKE k
    <3> HAVE ReadTo(h, id, k)
    <3>1. g[id] = h[id] /\ \A kid \in 1 .. Len(h) : g[kid] = h[kid] /\ kid \in 1 .. Len(g)
      BY <1>1, <1>4
    <3> QED  BY <3>1, ReadToSame, Zenon
  <2>3. ASSUME NEW id \in 1 .. m, g[id].type = kTagList, \A j \in 2 .. n : t[j].tag # id
        PROVE  ReadTo(g, id, Len(g[id].kids))
    <3>1. id # m
      BY <1>2, <1>4, <2>3
    <3>2. id \in 1 .. Len(h) /\ g[id] = h[id]
      BY <1>1, <1>4, <3>1
    <3>3. \A j \in 2 .. Len(s) : s[j].tag # id
      BY <1>2, <1>4, <2>3
    <3>4. ReadTo(h, id, Len(h[id].kids))
      BY <1>3, <2>1, <2>3, <3>2, <3>3 DEF Lists
    <3> QED  BY <2>2, <3>2, <3>4
  <2>4. ASSUME NEW j \in 2 .. n, g[t[j].tag].type = kTagList
        PROVE  /\ ReadTo(g, t[j].tag, t[j].i)
               /\ j < n => /\ t[j].i < Len(g[t[j].tag].kids)
                           /\ g[t[j + 1].tag].type = g[t[j].tag].ctype
    <3>1. CASE j = n
      <4>1. t[j].tag = m /\ ~(j < n)
        BY <1>2, <1>4, <3>1
      <4>2. g[m].kids = << >>
        BY <1>1
      <4>3. 1 .. Len(g[m].kids) = {}
        BY ONLY <4>2
      <4>4. \A k : ReadTo(g, m, k)
        BY ONLY <4>3, Zenon DEF ReadTo
      <4> QED  BY <4>1, <4>4, Zenon
    <3>2. CASE j \in 2 .. Len(s)
      <4>1. t[j] = s[j] /\ s[j].tag \in 1 .. Len(h) /\ g[s[j].tag] = h[s[j].tag]
        BY <1>1, <1>2, <1>4, <1>10, <3>2
      <4>2. ReadTo(h, s[j].tag, s[j].i)
        BY <1>3, <2>1, <2>4, <3>2, <4>1 DEF Lists
      <4>3. ReadTo(g, t[j].tag, t[j].i)
        BY <2>2, <4>1, <4>2
      <4>4. CASE j = Len(s)
        <5>1. t[j + 1].tag = m /\ Len(s) > 1
          BY <1>2, <1>4, <3>2, <4>4
        <5> QED  BY <1>1, <2>4, <4>1, <4>3, <4>4, <5>1
      <4>5. CASE j < Len(s)
        <5>1. j + 1 \in 2 .. Len(s) /\ t[j + 1] = s[j + 1]
          BY <1>2, <1>4, <3>2, <4>5
        <5>2. g[s[j + 1].tag] = h[s[j + 1].tag]
          BY <1>1, <1>10, <5>1
        <5>3. /\ s[j].i < Len(h[s[j].tag].kids)
              /\ h[s[j + 1].tag].type = h[s[j].tag].ctype
          BY <1>3, <2>1, <2>4, <3>2, <4>1, <4>5 DEF Lists
        <5> QED  BY <4>1, <4>3, <5>1, <5>2, <5>3
      <4> QED  BY <1>4, <3>2, <4>4, <4>5
    <3> QED  BY <1>4, <3>1, <3>2
  <2> QED  BY <1>1, <1>2, <2>1, <2>3, <2>4 DEF Lists
<1>13. Linked(t, g, r, "body")
  BY <1>8, <1>9, <1>11, <1>12 DEF Linked
<1> QED  BY <1>13 DEF t, g

(* A tag is entered under its name. *)
LEMMA PutEntries ==
  ASSUME NEW h, NEW r, EntriesIn(h, r), NEW x \in 1 .. Len(h),
         NEW q, q = Put(r, h[x].name, x)
  PROVE  EntriesIn(h, q)
<1> DEFINE k == h[x].name
<1>1. \A e \in q : (e \in r /\ e[1] # k) \/ (e[1] = k /\ e[2] = x)
  BY DEF Put, Drop
<1>2. \A e \in q : e = <<k, x>> \/ e[1] # k
  BY DEF Put, Drop
<1> HIDE DEF k
<1>3. \A e \in q : e[2] \in 1 .. Len(h) /\ h[e[2]].name = e[1]
  <2> TAKE e \in q
  <2>1. CASE e \in r
    BY <2>1 DEF EntriesIn
  <2>2. CASE e[1] = k /\ e[2] = x
    BY <2>2 DEF k
  <2> QED  BY <1>1, <2>1, <2>2, Zenon
<1>4. \A e, f \in q : e[1] = f[1] => e = f
  <2> SUFFICES ASSUME NEW e \in q, NEW f \in q, e[1] = f[1] PROVE e = f
    OBVIOUS
  <2>1. CASE e[1] = k
    BY <1>2, <2>1
  <2>2. CASE e[1] # k
    <3>1. e \in r /\ f \in r
      BY <1>1, <2>2
    <3> QED  BY <3>1, Zenon DEF EntriesIn
  <2> QED  BY <2>1, <2>2
<1> QED  BY <1>3, <1>4, Zenon DEF EntriesIn

-----------------------------------------------------------------------------
(* Load takes a root tag, ends, or begins                                   *)

LEMMA LinkedRoot ==
  ASSUME NEW h \in Seq(Tag), NEW r, NEW s \in Seq(Frame), Len(s) = 2,
         Linked(s, h, r, "return"),
         NEW x, x = s[2].tag, NEW q, q = Put(r, h[x].name, x),
         NEW t \in Seq(Frame), Len(t) = 1, t[1].tag = s[1].tag
  PROVE  Linked(t, h, q, "loop")
<1>1. Pointers(h, r) /\ Keys(h, r) /\ Lists(s, h, "return") /\ Fresh(s, h, r, "return")
  BY DEF Linked
<1>2. /\ x \in 1 .. Len(h) /\ t[1].tag = Null
      /\ \A id \in 1 .. Len(h) : x \notin Held(h, id)
  BY <1>1 DEF Fresh
<1>3. Values(q) \subseteq Values(r) \cup {x}
  BY DEF Values, Put, Drop
<1>4. Pointers(h, q)
  BY <1>1, <1>2, <1>3 DEF Pointers
<1>5. EntriesIn(h, q)
  BY <1>1, <1>2, PutEntries DEF Keys
<1>6. Keys(h, q)
  BY <1>1, <1>5 DEF Keys
<1>7. Unfinished(s, "return") = {} /\ Unfinished(t, "loop") = {}
  BY DEF Unfinished
<1>8. Lists(t, h, "loop")
  BY <1>1, <1>7 DEF Lists
<1>9. Fresh(t, h, q, "loop")
  BY <1>2 DEF Fresh
<1> QED  BY <1>4, <1>6, <1>8, <1>9 DEF Linked

LEMMA LinkedEnd ==
  ASSUME NEW h \in Seq(Tag), NEW r, NEW s, Len(s) = 1, NEW p, Linked(s, h, r, p)
  PROVE  Linked(<< >>, h, r, "done")
<1>1. Unfinished(s, p) = {} /\ Unfinished(<< >>, "done") = {}
  BY DEF Unfinished
<1>2. Lists(<< >>, h, "done")
  BY <1>1 DEF Linked, Lists
<1>3. Fresh(<< >>, h, r, "done")
  BY DEF Fresh
<1> QED  BY <1>2, <1>3 DEF Linked

(* A load that fails in a root tag takes all that was read of it away.      *)
LEMMA LinkedCut ==
  ASSUME NEW h \in Seq(Tag), NEW r, NEW s \in Seq(Frame), Len(s) > 1,
         NEW p, Linked(s, h, r, p), NEW g, g = SubSeq(h, 1, s[2].tag - 1)
  PROVE  Linked(<< >>, g, r, "done")
<1> DEFINE c == s[2].tag
           m == c - 1
<1>1. Pointers(h, r) /\ Keys(h, r) /\ Lists(s, h, p) /\ Fresh(s, h, r, p)
  BY DEF Linked
<1>2. /\ \A j \in 2 .. Len(s) : s[j].tag \in 1 .. Len(h)
      /\ \A j, k \in 2 .. Len(s) : j < k => s[j].tag < s[k].tag
      /\ \A id \in 1 .. Len(h) : id < c => \A y \in Held(h, id) : y < c
      /\ \A y \in Values(r) : y < c
  BY <1>1 DEF Fresh
<1>3. c \in 1 .. Len(h) /\ m \in Nat /\ Len(h) \in Nat /\ Len(s) \in Nat
  <2>1. 2 \in 2 .. Len(s)
    OBVIOUS
  <2> QED  BY <1>2, <2>1
<1>4. \A j \in 2 .. Len(s) : s[j].tag >= c
  <2> TAKE j \in 2 .. Len(s)
  <2>1. CASE j = 2
    BY <1>3, <2>1
  <2>2. CASE j > 2
    BY <1>2, <1>3, <2>2, SMTT(30)
  <2> QED  BY <2>1, <2>2
<1>5. Len(g) = m /\ \A id \in 1 .. m : g[id] = h[id] /\ id \in 1 .. Len(h) /\ id < c
  <2>1. \A id \in 1 .. m : h[id] \in Tag
    BY <1>3, ElementOfSeq
  <2>2. Len(g) = m /\ \A id \in 1 .. m : g[id] = h[id]
    BY <1>3, <2>1, SubSeqProperties
  <2> QED  BY <1>3, <2>2
<1> HIDE DEF c, m
<1>6. \A id \in 1 .. m : Held(g, id) = Held(h, id)
  <2> TAKE id \in 1 .. m
  <2>1. g[id] = h[id]
    BY <1>5
  <2> QED  BY <2>1, Zenon DEF Held
<1>7. \A id \in 1 .. Len(h) : \A x \in Held(h, id) : x \in Nat
  BY HeldType
<1>8. \A x \in Nat : x < c => x <= m
  BY <1>3 DEF m
<1>9. Pointers(g, r)
  <2>1. \A id \in 1 .. m : \A x \in Held(g, id) : x # Null => id < x /\ x <= m
    <3> TAKE id \in 1 .. m
    <3>1. \A x \in Held(h, id) : x # Null => id < x
      BY <1>1, <1>5, Zenon DEF Pointers
    <3>2. \A x \in Held(h, id) : x <= m
      BY <1>2, <1>5, <1>7, <1>8, Zenon
    <3> QED  BY <1>6, <3>1, <3>2, Zenon
  <2>2. \A id \in 1 .. m : Distinct(g[id].kids)
    BY <1>1, <1>5 DEF Pointers
  <2>3. \A a, b \in 1 .. m : \A x \in Held(g, a) : x \in Held(g, b) => a = b \/ x = Null
    BY <1>1, <1>5, <1>6, SMT DEF Pointers
  <2>4. \A id \in 1 .. m : \A x \in Held(g, id) : x \in Values(r) => x = Null
    BY <1>1, <1>5, <1>6, Zenon DEF Pointers
  <2> QED  BY <1>5, <2>1, <2>2, <2>3, <2>4 DEF Pointers
<1>10. Keys(g, r)
  <2>1. ASSUME NEW q, EntriesIn(h, q), \A y \in Values(q) : y < c
        PROVE  EntriesIn(g, q)
    <3>1. \A e \in q : e[2] \in 1 .. m /\ h[e[2]].name = e[1]
      <4> TAKE e \in q
      <4>1. e[2] \in 1 .. Len(h) /\ h[e[2]].name = e[1] /\ e[2] < c
        BY <2>1 DEF EntriesIn, Values
      <4> QED  BY <1>3, <1>8, <4>1, SMTT(30)
    <3> QED  BY <1>5, <2>1, <3>1 DEF EntriesIn
  <2>2. \A id \in 1 .. m : EntriesIn(g, g[id].map)
    <3> TAKE id \in 1 .. m
    <3>1. Values(h[id].map) \subseteq Held(h, id)
      BY DEF Values, Held
    <3>2. \A y \in Values(h[id].map) : y < c
      BY <1>2, <1>5, <3>1
    <3>3. EntriesIn(h, h[id].map)
      BY <1>1, <1>5 DEF Keys
    <3> QED  BY <1>5, <2>1, <3>2, <3>3
  <2>3. EntriesIn(g, r)
    BY <1>1, <1>2, <2>1 DEF Keys
  <2> QED  BY <1>5, <2>2, <2>3 DEF Keys
<1>11. Lists(<< >>, g, "done")
  <2>1. ASSUME NEW id \in 1 .. m, g[id].type = kTagList
        PROVE  ReadTo(g, id, Len(g[id].kids))
    <3>1. \A j \in Unfinished(s, p) : s[j].tag # id
      <4> TAKE j \in Unfinished(s, p)
      <4>1. j \in 2 .. Len(s)
        BY DEF Unfinished
      <4>2. s[j].tag >= c /\ s[j].tag \in 1 .. Len(h)
        BY <1>2, <1>4, <4>1
      <4> QED  BY <1>3, <1>5, <4>2
    <3>2. ReadTo(h, id, Len(h[id].kids))
      BY <1>1, <1>5, <2>1, <3>1 DEF Lists
    <3>3. \A j \in 1 .. Len(h[id].kids) : h[id].kids[j] <= m
      <4> TAKE j \in 1 .. Len(h[id].kids)
      <4>1. h[id].kids[j] \in Held(h, id)
        BY DEF Held
      <4> QED  BY <1>2, <1>5, <1>7, <1>8, <4>1, Zenon
    <3>4. \A j \in 1 .. Len(h[id].kids) :
            h[id].kids[j] \in 1 .. m /\ h[h[id].kids[j]].type = h[id].ctype
      <4> TAKE j \in 1 .. Len(h[id].kids)
      <4>1. /\ h[id].kids[j] \in 1 .. Len(h)
            /\ h[h[id].kids[j]].type = h[id].ctype
        BY <3>2, ElementOfSeq DEF ReadTo
      <4> QED  BY <1>3, <3>3, <4>1
    <3>5. g[id] = h[id] /\ \A kid \in 1 .. m : g[kid] = h[kid]
      BY <1>5
    <3>6. \A j \in 1 .. Len(h[id].kids) : j <= Len(h[id].kids)
      OBVIOUS
    <3>7. \A j \in 1 .. Len(g[id].kids) :
            g[id].kids[j] \in 1 .. Len(g) /\ g[g[id].kids[j]].type = g[id].ctype
      BY <1>5, <3>4, <3>5, ZenonT(40)
    <3> QED  BY <3>5, <3>6, <3>7, Zenon DEF ReadTo
  <2>2. Unfinished(<< >>, "done") = {}
    BY DEF Unfinished
  <2> QED  BY <1>5, <2>1, <2>2 DEF Lists
<1>12. Fresh(<< >>, g, r, "done")
  BY DEF Fresh
<1> QED  BY <1>9, <1>10, <1>11, <1>12 DEF Linked

LEMMA LinkedNone ==
  ASSUME NEW s, Len(s) \in {0, 1}, Len(s) = 1 => s[1].tag = Null, NEW p, p # "body"
  PROVE  Linked(s, << >>, {}, p)
<1>1. Pointers(<< >>, {})
  BY DEF Pointers
<1>2. Keys(<< >>, {})
  BY DEF Keys, EntriesIn
<1>3. Lists(s, << >>, p)
  <2>1. Unfinished(s, p) = {}
    <3>1. CASE Len(s) = 0
      BY <3>1 DEF Unfinished
    <3>2. CASE Len(s) = 1
      BY <3>2 DEF Unfinished
    <3> QED  BY <3>1, <3>2
  <2> QED  BY <2>1 DEF Lists
<1>4. Fresh(s, << >>, {}, p)
  BY DEF Fresh, Values
<1> QED  BY <1>1, <1>2, <1>3, <1>4 DEF Linked

-----------------------------------------------------------------------------
(* Every action keeps the forest.                                           *)

FInv == IInv /\ Linked(stack, heap, root, pc)

LEMMA LinkedFacts ==
  ASSUME FInv, pc # "done"
  PROVE  /\ heap \in Seq(Tag) /\ root \in Map /\ stack \in Seq(Frame)
         /\ Depth = Len(stack) /\ Depth \in Nat /\ Depth > 0
         /\ Top = stack[Len(stack)] /\ Cur = heap[Top.tag]
         /\ Depth > 1 => Top.tag \in 1 .. Len(heap) /\ Cur \in Tag
         /\ Linked(stack, heap, root, pc)
<1>1. heap \in Seq(Tag) /\ root \in Map /\ stack \in Seq(Frame)
  BY DEF FInv, IInv, TypeOK
<1>2. Depth \in Nat /\ Depth > 0 /\ (Depth > 1 => Top.tag \in 1 .. Len(heap) /\ Cur \in Tag)
  BY RunningFacts DEF FInv
<1> QED  BY <1>1, <1>2 DEF FInv, Depth, Top, Cur

LEMMA AbortForest ==
  ASSUME FInv, pc # "done", NEW how, Abort(how)
  PROVE  Linked(stack, heap, root, pc)'
<1>1. stack' = << >> /\ pc' = "done" /\ root' = root
      /\ heap' = IF InLoad THEN heap ELSE SubSeq(heap, 1, stack[2].tag - 1)
  BY DEF Abort
<1>2. CASE InLoad
  BY <1>1, <1>2, LinkedFacts, LinkedEnd DEF InLoad
<1>3. CASE ~InLoad
  <2>1. Len(stack) > 1
    BY <1>3, LinkedFacts DEF InLoad
  <2> QED  BY <1>1, <1>3, <2>1, LinkedFacts, LinkedCut
<1> QED  BY <1>2, <1>3

(* The body of a leaf or of an empty list, and a list's last child.         *)
LEMMA FinishForest ==
  ASSUME FInv, pc \in {"body", "loop"}, Depth > 1, pc' = "return",
         UNCHANGED <<root, stack>>,
         NEW u, Becomes(heap, heap', Top.tag, u),
         u.ctype = Cur.ctype, u.kids = Cur.kids, u.map = Cur.map,
         Cur.type = kTagList => Top.i = Len(Cur.kids) \/ Cur.kids = << >>
  PROVE  Linked(stack, heap, root, pc)'
<1>1. /\ heap \in Seq(Tag) /\ stack \in Seq(Frame) /\ Len(stack) > 1
      /\ Top = stack[Len(stack)] /\ Cur = heap[Top.tag]
      /\ Linked(stack, heap, root, pc) /\ u.type = Cur.type
  BY LinkedFacts DEF Becomes
<1>2. u.type = kTagList => ReadTo(heap, Top.tag, Len(u.kids))
  <2>1. Len(stack) \in Unfinished(stack, pc)
    BY <1>1 DEF Unfinished
  <2>2. Cur.type = kTagList => ReadTo(heap, Top.tag, Top.i)
    BY <1>1, <2>1 DEF Linked, Lists
  <2>3. Cur.kids = << >> => ReadTo(heap, Top.tag, Len(u.kids))
    BY <1>1 DEF ReadTo
  <2> QED  BY <1>1, <2>2, <2>3
<1>3. Linked(stack, heap', root, "return")
  BY <1>1, <1>2, LinkedFinish
<1> QED  BY <1>3

LEMMA BodyForest ==
  ASSUME FInv, pc = "body"
  PROVE  Depth > 1 /\ Cur.kids = << >> /\ Cur.ctype = kTagEnd /\ Top.i = 0
<1>1. Depth > 1
  BY BodyFacts DEF FInv
<1>2. Cur.kids = << >> /\ Top.i = 0
  BY DEF FInv, Linked, Fresh, Cur, Top, Depth
<1>3. Cur.ctype = kTagEnd
  <2>1. FrameOK(stack, heap, pc, Depth)
    BY <1>1, LinkedFacts DEF FInv, IInv, FramesOK
  <2> QED  BY <1>1 , <2>1 DEF FrameOK, Depth, Top, Cur
<1> QED  BY <1>1, <1>2, <1>3

LEMMA LeafForest ==
  ASSUME FInv, pc = "body", Cur.type # kTagList, NEW head, NEW n, ReadLeaf(head, n),
         Bytes(buffer, Top.start + head, n) \in Seq(Byte)
  PROVE  Linked(stack, heap, root, pc)'
<1> DEFINE d == Bytes(buffer, Top.start + head, n)
           u == [Cur EXCEPT !.data = d]
<1>1. pc' = "return" /\ UNCHANGED <<root, stack>>
      /\ heap' = [heap EXCEPT ![Top.tag].data = d]
  BY DEF ReadLeaf
<1>2. Depth > 1 /\ Cur \in Tag /\ Cur = heap[Top.tag]
  BY BodyForest, LinkedFacts
<1> HIDE DEF d
<1>3. /\ u \in Tag /\ u.type = Cur.type /\ u.name = Cur.name /\ u.ctype = Cur.ctype
      /\ u.kids = Cur.kids /\ u.map = Cur.map
  BY <1>2 DEF Tag, d
<1>4. heap' = [heap EXCEPT ![Top.tag] = u]
  BY <1>1, <1>2
<1> HIDE DEF u
<1>5. Becomes(heap, heap', Top.tag, u)
  BY <1>2, <1>3, <1>4 DEF Becomes
<1> QED  BY <1>1, <1>2, <1>3, <1>5, FinishForest

LEMMA SameBecomes ==
  ASSUME NEW h \in Seq(Tag), NEW c \in 1 .. Len(h), NEW g, g = h
  PROVE  Becomes(h, g, c, h[c])
<1>1. h[c] \in Tag
  BY ElementOfSeq
<1>2. h = [j \in DOMAIN h |-> h[j]]
  OBVIOUS
<1>3. [h EXCEPT ![c] = h[c]] = h
  BY <1>2
<1> QED  BY <1>1, <1>3 DEF Becomes

LEMMA PayloadType ==
  ASSUME FInv, pc = "body", NEW head \in Nat, NEW n \in Nat,
         Top.start + head + n <= length
  PROVE  Bytes(buffer, Top.start + head, n) \in Seq(Byte)
<1>1. Top.start \in Nat /\ buffer \in Seq(Byte)
  BY RunningFacts DEF FInv, IInv, TypeOK
<1>2. Top.start + head \in Nat /\ Top.start + head + n <= Len(buffer)
  BY <1>1 DEF length
<1> QED  BY <1>1, <1>2, BytesType

LEMMA ReadScalarForest == ASSUME FInv, ReadScalar PROVE Linked(stack, heap, root, pc)'
<1>1. pc = "body" /\ Cur.type \in ScalarTypes /\ ReadLeaf(0, ScalarSize(Cur.type))
      /\ Top.start + ScalarSize(Cur.type) <= length
  BY DEF ReadScalar, ScalarReadable
<1>2. ScalarSize(Cur.type) \in Nat /\ 0 \in Nat /\ Cur.type # kTagList
  BY <1>1, ScalarSizes DEF ScalarTypes, kTagList, kTagByte, kTagDouble
<1>3. Top.start \in Nat
  BY <1>1, RunningFacts DEF FInv
<1>4. Top.start + 0 + ScalarSize(Cur.type) <= length
  BY <1>1, <1>2, <1>3
<1> QED  BY <1>1, <1>2, <1>4, PayloadType, LeafForest

LEMMA ReadArrayForest == ASSUME FInv, ReadArray PROVE Linked(stack, heap, root, pc)'
<1>1. pc = "body" /\ Cur.type \in ArrayTypes /\ ReadLeaf(SizeofU32, ArrayBytes)
      /\ Top.start + SizeofU32 <= length /\ Top.start + SizeofU32 + ArrayBytes <= length
  BY DEF ReadArray, ArrayReadable
<1>2. Top.start \in Nat /\ buffer \in Seq(Byte)
  BY <1>1, RunningFacts DEF FInv, IInv, TypeOK
<1>3. U32At(buffer, Top.start) \in Nat
  BY <1>1, <1>2, U32Value DEF length, SizeofU32
<1>4. ElementSize(Cur.type) \in {1, 4}
  BY DEF ElementSize
<1>5. ArrayBytes \in Nat /\ SizeofU32 \in Nat
  BY <1>3, <1>4 DEF ArrayBytes, SizeofU32
<1>6. Cur.type # kTagList
  BY <1>1 DEF ArrayTypes, kTagByteArray, kTagIntArray, kTagList
<1> QED  BY <1>1, <1>5, <1>6, PayloadType, LeafForest

LEMMA ReadStringForest == ASSUME FInv, ReadString PROVE Linked(stack, heap, root, pc)'
<1> DEFINE n == U16At(buffer, Top.start)
<1>1. pc = "body" /\ Cur.type = kTagString /\ ReadLeaf(SizeofU16, n)
      /\ Top.start + SizeofU16 <= length /\ Top.start + SizeofU16 + n <= length
  BY DEF ReadString, StringReadable, Reading
<1>2. Top.start \in Nat /\ buffer \in Seq(Byte)
  BY <1>1, RunningFacts DEF FInv, IInv, TypeOK
<1>3. n \in Nat /\ SizeofU16 \in Nat
  BY <1>1, <1>2, U16Value DEF length, SizeofU16
<1>4. Cur.type # kTagList
  BY <1>1 DEF kTagString, kTagList
<1> HIDE DEF n
<1> QED  BY <1>1, <1>3, <1>4, PayloadType, LeafForest

LEMMA ReadEndListForest == ASSUME FInv, ReadEndList PROVE Linked(stack, heap, root, pc)'
<1>1. pc = "body" /\ Cur.type = kTagList /\ pc' = "return"
      /\ heap' = [heap EXCEPT ![Top.tag].ctype = kTagEnd] /\ UNCHANGED <<root, stack>>
  BY DEF ReadEndList, Reading
<1>2. /\ Depth > 1 /\ Cur \in Tag /\ Cur = heap[Top.tag]
      /\ Cur.kids = << >> /\ Cur.ctype = kTagEnd
  BY <1>1, BodyForest, LinkedFacts
<1> DEFINE u == [Cur EXCEPT !.ctype = kTagEnd]
<1>3. /\ u \in Tag /\ u.type = Cur.type /\ u.name = Cur.name /\ u.ctype = Cur.ctype
      /\ u.kids = Cur.kids /\ u.map = Cur.map
  BY <1>2 DEF Tag
<1>4. heap' = [heap EXCEPT ![Top.tag] = u]
  BY <1>1, <1>2
<1> HIDE DEF u
<1>5. Becomes(heap, heap', Top.tag, u)
  BY <1>2, <1>3, <1>4 DEF Becomes
<1> QED  BY <1>1, <1>2, <1>3, <1>5, FinishForest

LEMMA FinishListForest == ASSUME FInv, FinishList PROVE Linked(stack, heap, root, pc)'
<1>1. pc = "loop" /\ Depth > 1 /\ Top.i = Len(Cur.kids) /\ pc' = "return"
      /\ UNCHANGED <<heap, root, stack>>
  BY DEF FinishList, Looping
<1>2. /\ Cur = heap[Top.tag] /\ heap \in Seq(Tag) /\ Top.tag \in 1 .. Len(heap)
  BY <1>1, LinkedFacts
<1>3. Becomes(heap, heap', Top.tag, Cur)
  BY <1>1, <1>2, SameBecomes
<1> QED  BY <1>1, <1>3, FinishForest

LEMMA FinishCompoundForest ==
  ASSUME FInv, FinishCompound PROVE Linked(stack, heap, root, pc)'
<1>1. pc = "loop" /\ Depth > 1 /\ Cur.type = kTagCompound /\ pc' = "return"
      /\ UNCHANGED <<heap, root, stack>>
  BY DEF FinishCompound, AtCompoundEnd, Looping
<1>2. /\ Cur = heap[Top.tag] /\ heap \in Seq(Tag) /\ Top.tag \in 1 .. Len(heap)
      /\ Cur.type # kTagList
  BY <1>1, LinkedFacts DEF kTagList, kTagCompound
<1>3. Becomes(heap, heap', Top.tag, Cur)
  BY <1>1, <1>2, SameBecomes
<1> QED  BY <1>1, <1>2, <1>3, FinishForest

(* A new tag points at nothing. *)
LEMMA NewTagFields ==
  ASSUME NEW t
  PROVE  NewTag(t).type = t /\ NewTag(t).kids = << >> /\ NewTag(t).map = {}
BY DEF NewTag

LEMMA ReadHeaderForest == ASSUME FInv, ReadHeader PROVE Linked(stack, heap, root, pc)'
<1> DEFINE name == Bytes(Append(buffer, Beyond), Top.next + SizeofTagType + SizeofU16, NameLength)
           u == [NewTag(At(buffer, Top.next)) EXCEPT !.name = name]
           head == SizeofTagType + SizeofU16 + NameLength
           f == NewFrame(Len(heap) + 1, head, Top.next + head)
<1>1. pc = "loop" /\ pc' = "body" /\ root' = root
      /\ heap' = Append(heap, u) /\ stack' = Append(stack, f)
  BY DEF ReadHeader, AtHeader, Looping
<1>2. u \in Tag /\ f \in Frame
  BY HeaderMakes, Zenon DEF FInv
<1>3. u.kids = << >> /\ u.map = {}
  BY NewTagFields DEF NewTag
<1>4. f.tag = Len(heap) + 1 /\ f.i = 0
  BY DEF NewFrame
<1>5. Depth > 1 => Cur.type = kTagCompound
  BY DEF ReadHeader, AtHeader, Looping, InLoad
<1>6. ~(Len(stack) > 1 /\ heap[stack[Len(stack)].tag].type = kTagList)
  BY <1>1, <1>5, LinkedFacts DEF kTagList, kTagCompound
<1> HIDE DEF u, f
<1> QED  BY <1>1, <1>2, <1>3, <1>4, <1>6, LinkedFacts, LinkedPush

LEMMA ReadElementForest == ASSUME FInv, ReadElement PROVE Linked(stack, heap, root, pc)'
<1> DEFINE u == NewTag(Cur.ctype)
           f == NewFrame(Len(heap) + 1, 0, Top.next)
<1>1. pc = "loop" /\ pc' = "body" /\ root' = root /\ Top.i < Len(Cur.kids) /\ Depth > 1
      /\ Cur.type = kTagList /\ heap' = Append(heap, u) /\ stack' = Append(stack, f)
  BY DEF ReadElement, Looping
<1>2. u \in Tag /\ f \in Frame
  <2>1. Cur.ctype \in TagTypes /\ Len(heap) \in Nat /\ Top.next \in Nat
    BY <1>1, RunningFacts DEF FInv
  <2>2. Len(heap) + 1 \in Nat /\ 0 \in Nat
    BY <2>1
  <2> QED  BY <2>1, <2>2, NewTagType, NewFrameType
<1>3. u.kids = << >> /\ u.map = {} /\ u.type = Cur.ctype
  BY NewTagFields
<1>4. f.tag = Len(heap) + 1 /\ f.i = 0
  BY DEF NewFrame
<1> HIDE DEF u, f
<1> QED  BY <1>1, <1>2, <1>3, <1>4, LinkedFacts, LinkedPush

(* The body of a container turns into its loop.                             *)
LEMMA EnterForest ==
  ASSUME FInv, pc = "body", pc' = "loop", root' = root, Moves(stack, stack', Len(stack)),
         NEW u, Becomes(heap, heap', Top.tag, u),
         Distinct(u.kids), u.map = Cur.map,
         Held(heap', Top.tag) \subseteq Held(heap, Top.tag) \cup {Null},
         stack'[Len(stack)].i = 0,
         u.type = kTagList => ReadTo(heap', Top.tag, 0)
  PROVE  Linked(stack, heap, root, pc)'
<1>1. /\ heap \in Seq(Tag) /\ stack \in Seq(Frame) /\ Top = stack[Len(stack)]
      /\ Linked(stack, heap, root, pc) /\ Top.tag \in 1 .. Len(heap) /\ Cur = heap[Top.tag]
  BY BodyForest, LinkedFacts
<1>2. Unfinished(stack, pc) = 2 .. Len(stack)
  BY DEF Unfinished
<1>3. EntriesIn(heap, u.map)
  BY <1>1 DEF Linked, Keys
<1>4. 0 \in Nat /\ 0 = Null
      /\ Held(heap', Top.tag) \subseteq Held(heap, Top.tag) \cup {0, Null}
  OBVIOUS
<1>5. Linked(stack', heap', root, "loop")
  BY <1>1, <1>2, <1>3, <1>4, LinkedReplaced
<1> QED  BY <1>5

LEMMA EnterCompoundForest ==
  ASSUME FInv, EnterCompound PROVE Linked(stack, heap, root, pc)'
<1>1. pc = "body" /\ Cur.type = kTagCompound /\ pc' = "loop" /\ UNCHANGED <<heap, root, stack>>
  BY DEF EnterCompound, Reading
<1>2. /\ heap \in Seq(Tag) /\ stack \in Seq(Frame) /\ Top = stack[Len(stack)]
      /\ Linked(stack, heap, root, pc) /\ Top.tag \in 1 .. Len(heap) /\ Cur = heap[Top.tag]
      /\ Len(stack) > 1 /\ Top.i = 0 /\ Cur.type # kTagList
  BY <1>1, BodyForest, LinkedFacts DEF kTagList, kTagCompound
<1>3. Becomes(heap, heap', Top.tag, Cur)
  BY <1>1, <1>2, SameBecomes
<1>4. Moves(stack, stack', Len(stack))
  BY <1>1, <1>2 DEF Moves
<1>5. Distinct(Cur.kids)
  BY <1>2 DEF Linked, Pointers
<1> QED  BY <1>1, <1>2, <1>3, <1>4, <1>5, EnterForest

LEMMA EnterListForest == ASSUME FInv, EnterList PROVE Linked(stack, heap, root, pc)'
<1> DEFINE nulls == [j \in 1 .. ListLength |-> Null]
           u == [Cur EXCEPT !.ctype = ListType, !.kids = nulls]
           next == Top.start + ListHead
<1>1. /\ pc = "body" /\ pc' = "loop" /\ root' = root /\ Cur.type = kTagList
      /\ ListReadable /\ ListType # kTagEnd
      /\ heap' = [heap EXCEPT ![Top.tag].ctype = ListType, ![Top.tag].kids = nulls]
      /\ stack' = [stack EXCEPT ![Depth].next = next]
  BY DEF EnterList, Reading
<1>2. /\ heap \in Seq(Tag) /\ stack \in Seq(Frame) /\ Top = stack[Len(stack)]
      /\ Linked(stack, heap, root, pc) /\ Top.tag \in 1 .. Len(heap) /\ Cur = heap[Top.tag]
      /\ Len(stack) > 1 /\ Depth = Len(stack) /\ Top.i = 0 /\ Cur \in Tag
  BY <1>1, BodyForest, LinkedFacts
<1>3. /\ next \in Nat /\ ListLength \in Nat /\ nulls \in Seq(Nat)
      /\ ListType \in kTagEnd .. kTagIntArray
  BY <1>1, ListHeadFacts DEF FInv, ListHead, SizeofTagType, SizeofU32
<1>4. \A j \in 1 .. Len(nulls) : nulls[j] = Null
  BY <1>3
<1> HIDE DEF nulls, next
<1>5. /\ u \in Tag /\ u.type = Cur.type /\ u.name = Cur.name
      /\ u.kids = nulls /\ u.map = Cur.map
  BY <1>2, <1>3 DEF Tag
<1>6. heap' = [heap EXCEPT ![Top.tag] = u]
  BY <1>1, <1>2
<1> HIDE DEF u
<1>7. Becomes(heap, heap', Top.tag, u)
  BY <1>2, <1>5, <1>6 DEF Becomes
<1>8. heap'[Top.tag] = u
  BY <1>2, <1>7, Replaced
<1>9. Held(heap', Top.tag) \subseteq Held(heap, Top.tag) \cup {Null}
  BY <1>2, <1>4, <1>5, <1>8 DEF Held
<1>10. Distinct(u.kids) /\ ReadTo(heap', Top.tag, 0)
  BY <1>4, <1>5, <1>8 DEF Distinct, ReadTo
<1>11. Moves(stack, stack', Len(stack)) /\ stack'[Len(stack)].i = 0
  <2>1. Len(stack) \in 1 .. Len(stack)
    BY <1>2
  <2>2. /\ stack' \in Seq(Frame) /\ Len(stack') = Len(stack)
        /\ \A m \in 1 .. Len(stack) : m # Len(stack) => stack'[m] = stack[m]
        /\ stack'[Len(stack)].tag = stack[Len(stack)].tag
        /\ stack'[Len(stack)].i = stack[Len(stack)].i
    BY <1>1, <1>2, <1>3, <2>1, AdvanceTop, SMTT(30)
  <2> QED  BY <1>2, <2>1, <2>2 DEF Moves
<1> QED  BY <1>1, <1>5, <1>7, <1>9, <1>10, <1>11, EnterForest

-----------------------------------------------------------------------------
(* A tag that has been read is handed to its container.                     *)

LEMMA ReturnForest ==
  ASSUME FInv, NEW i \in Nat, Resume(i), Depth > 2, root' = root,
         NEW u, Becomes(heap, heap', Caller.tag, u),
         Distinct(u.kids), EntriesIn(heap, u.map),
         Held(heap', Caller.tag) \subseteq Held(heap, Caller.tag) \cup {Top.tag, Null},
         u.type = kTagList => ReadTo(heap', Caller.tag, i)
  PROVE  Linked(stack, heap, root, pc)'
<1> DEFINE n == Depth - 1
<1>1. pc = "return" /\ pc' = "loop"
  BY DEF Resume
<1>2. /\ heap \in Seq(Tag) /\ stack \in Seq(Frame) /\ Top = stack[Len(stack)]
      /\ Linked(stack, heap, root, pc) /\ Depth = Len(stack) /\ Depth \in Nat
      /\ Caller = stack[n] /\ Top.tag \in Nat
  BY <1>1, LinkedFacts DEF Caller
<1>3. /\ n \in Nat /\ n < Len(stack) /\ stack' \in Seq(Frame) /\ Len(stack') = n
      /\ \A m \in 1 .. n - 1 : stack'[m] = stack[m]
      /\ stack'[n].tag = stack[n].tag /\ stack'[n].i = i
  BY ResumeMakes DEF FInv
<1>4. Moves(stack, stack', n)
  BY <1>2, <1>3 DEF Moves
<1>5. Unfinished(stack, pc) = 2 .. n
  BY <1>1, <1>2 DEF Unfinished
<1>6. u.type = kTagList => ReadTo(heap', Caller.tag, stack'[n].i)
  BY <1>3
<1> HIDE DEF n
<1>7. Linked(stack', heap', root, "loop")
  BY <1>2, <1>3, <1>4, <1>5, <1>6, LinkedReplaced, SMTT(30)
<1> QED  BY <1>1, <1>7

LEMMA CallerFacts ==
  ASSUME FInv, pc = "return", Depth > 2
  PROVE  /\ Caller.tag \in 1 .. Len(heap) /\ heap[Caller.tag] \in Tag /\ Caller.i \in Nat
         /\ Top.tag \in 1 .. Len(heap) /\ Top.tag \notin Held(heap, Caller.tag)
         /\ heap[Caller.tag].type = kTagList =>
              /\ ReadTo(heap, Caller.tag, Caller.i)
              /\ Caller.i < Len(heap[Caller.tag].kids)
              /\ heap[Top.tag].type = heap[Caller.tag].ctype
<1>1. /\ heap \in Seq(Tag) /\ Depth = Len(stack) /\ Depth \in Nat
      /\ Top = stack[Len(stack)] /\ Caller = stack[Depth - 1]
      /\ Linked(stack, heap, root, pc)
  BY LinkedFacts DEF Caller
<1>2. Caller.tag \in 1 .. Len(heap) /\ Caller.i \in Nat
  BY ReturnFacts DEF FInv
<1>3. heap[Caller.tag] \in Tag
  BY <1>1, <1>2, ElementOfSeq
<1>4. Top.tag \in 1 .. Len(heap) /\ Top.tag \notin Held(heap, Caller.tag)
  <2>1. Depth \in 2 .. Len(stack)
    BY <1>1
  <2> QED  BY <1>1, <1>2, <2>1 DEF Linked, Fresh
<1>5. heap[Caller.tag].type = kTagList =>
        /\ ReadTo(heap, Caller.tag, Caller.i)
        /\ Caller.i < Len(heap[Caller.tag].kids)
        /\ heap[Top.tag].type = heap[Caller.tag].ctype
  <2>1. Depth - 1 \in Unfinished(stack, pc) /\ Depth - 1 < Len(stack) /\ Depth - 1 + 1 = Len(stack)
    BY <1>1 DEF Unfinished
  <2> QED  BY <1>1, <2>1 DEF Linked, Lists
<1> QED  BY <1>2, <1>3, <1>4, <1>5

LEMMA ReturnToCompoundForest ==
  ASSUME FInv, ReturnToCompound PROVE Linked(stack, heap, root, pc)'
<1> DEFINE c == Caller.tag
           m == Put(heap[c].map, Cur.name, Top.tag)
           u == [heap[c] EXCEPT !.map = m]
<1>1. /\ pc = "return" /\ Depth > 2 /\ Resume(Caller.i) /\ root' = root
      /\ heap[c].type = kTagCompound /\ heap' = [heap EXCEPT ![c].map = m]
  BY DEF ReturnToCompound, Resume, IsCompound
<1>2. /\ heap \in Seq(Tag) /\ Linked(stack, heap, root, pc) /\ Cur = heap[Top.tag] /\ Cur \in Tag
      /\ c \in 1 .. Len(heap) /\ heap[c] \in Tag /\ Caller.i \in Nat /\ Top.tag \in 1 .. Len(heap)
  <2>1. Depth > 1
    BY <1>1, LinkedFacts
  <2> QED  BY <1>1, <2>1, LinkedFacts, CallerFacts
<1>3. m \in Map
  <2>1. Cur.name \in Name
    BY <1>2, Zenon DEF Tag
  <2>2. heap[c].map \in Map
    BY <1>2 DEF Tag
  <2>3. Top.tag \in Nat
    BY <1>2
  <2> QED  BY <2>1, <2>2, <2>3, PutType
<1>4. EntriesIn(heap, m)
  BY <1>2, PutEntries DEF Linked, Keys
<1>5. \A e \in m : e \in heap[c].map \/ e[2] = Top.tag
  BY DEF Put, Drop
<1> HIDE DEF m
<1>6. /\ u \in Tag /\ u.type = heap[c].type /\ u.name = heap[c].name
      /\ u.kids = heap[c].kids /\ u.map = m
  BY <1>2, <1>3 DEF Tag
<1>7. heap' = [heap EXCEPT ![c] = u]
  BY <1>1, <1>2
<1> HIDE DEF u
<1>8. Becomes(heap, heap', c, u)
  BY <1>6, <1>7 DEF Becomes
<1>9. heap'[c] = u
  BY <1>2, <1>8, Replaced
<1>10. Held(heap', c) \subseteq Held(heap, c) \cup {Top.tag, Null}
  BY <1>5, <1>6, <1>9 DEF Held
<1>11. Distinct(u.kids) /\ u.type # kTagList
  BY <1>1, <1>2, <1>6 DEF Linked, Pointers, kTagList, kTagCompound
<1>12. EntriesIn(heap, u.map)
  BY <1>4, <1>6
<1> QED  BY <1>1, <1>2, <1>8, <1>10, <1>11, <1>12, ReturnForest

LEMMA ReturnToListForest ==
  ASSUME FInv, ReturnToList PROVE Linked(stack, heap, root, pc)'
<1> DEFINE c == Caller.tag
           j == Caller.i + 1
           k == [heap[c].kids EXCEPT ![j] = Top.tag]
           u == [heap[c] EXCEPT !.kids = k]
<1>1. /\ pc = "return" /\ Depth > 2 /\ Resume(j) /\ root' = root
      /\ heap[c].type = kTagList /\ heap' = [heap EXCEPT ![c].kids[j] = Top.tag]
  BY DEF ReturnToList, Resume, IsList
<1>2. /\ heap \in Seq(Tag) /\ Linked(stack, heap, root, pc)
      /\ c \in 1 .. Len(heap) /\ heap[c] \in Tag /\ Caller.i \in Nat
      /\ Top.tag \in 1 .. Len(heap) /\ Top.tag \notin Held(heap, c)
      /\ ReadTo(heap, c, Caller.i) /\ Caller.i < Len(heap[c].kids)
      /\ heap[Top.tag].type = heap[c].ctype
  BY <1>1, LinkedFacts, CallerFacts
<1>3. heap[c].kids \in Seq(Nat) /\ j \in 1 .. Len(heap[c].kids) /\ Top.tag \in Nat /\ j \in Nat
  <2>1. heap[c].kids \in Seq(Nat)
    BY <1>2 DEF Tag
  <2> QED  BY <1>2, <2>1
<1>4. /\ k \in Seq(Nat) /\ Len(k) = Len(heap[c].kids)
      /\ \A l \in 1 .. Len(k) : k[l] = IF l = j THEN Top.tag ELSE heap[c].kids[l]
  BY <1>3, ExceptSeq
<1>5. \A l \in 1 .. Len(k) : heap[c].kids[l] \in Held(heap, c)
  BY <1>4 DEF Held
<1>6. \A l \in 1 .. Len(k) : l <= j /\ l # j => l <= Caller.i
  BY <1>2, <1>4
<1>7. \A l \in 1 .. Len(k) : ~(l <= j) => ~(l <= Caller.i) /\ l # j
  BY <1>2, <1>4
<1> HIDE DEF k, j
<1>8. /\ u \in Tag /\ u.type = heap[c].type /\ u.name = heap[c].name
      /\ u.kids = k /\ u.map = heap[c].map /\ u.ctype = heap[c].ctype
  BY <1>2, <1>4 DEF Tag
<1>9. heap' = [heap EXCEPT ![c] = u]
  BY <1>1, <1>2 DEF k
<1> HIDE DEF u
<1>10. Becomes(heap, heap', c, u)
  BY <1>8, <1>9 DEF Becomes
<1>11. /\ heap'[c] = u /\ Len(heap') = Len(heap)
       /\ \A id \in 1 .. Len(heap) : heap'[id].type = heap[id].type
  BY <1>2, <1>10, Replaced
<1>12. Held(heap', c) \subseteq Held(heap, c) \cup {Top.tag, Null}
  <2>1. \A l \in 1 .. Len(k) : k[l] = Top.tag \/ k[l] \in Held(heap, c)
    BY <1>4, <1>5
  <2>2. \A e \in heap[c].map : e[2] \in Held(heap, c)
    BY DEF Held
  <2>3. Held(heap', c) = {k[l] : l \in 1 .. Len(k)} \cup {e[2] : e \in heap[c].map}
    BY <1>8, <1>11 DEF Held
  <2> QED  BY <2>1, <2>2, <2>3
<1>13. Distinct(u.kids)
  <2>1. Distinct(heap[c].kids)
    BY <1>2 DEF Linked, Pointers
  <2>2. \A l \in 1 .. Len(k) : l # j => k[l] # Top.tag /\ k[l] = heap[c].kids[l]
    BY <1>2, <1>4, <1>5
  <2>3. k[j] = Top.tag
    BY <1>3, <1>4
  <2>4. ASSUME NEW a \in 1 .. Len(k), NEW b \in 1 .. Len(k), k[a] = k[b]
        PROVE  a = b \/ k[a] = Null
    <3>1. CASE a = j
      BY <2>2, <2>3, <2>4, <3>1
    <3>2. CASE a # j
      <4>1. b # j
        BY <2>2, <2>3, <2>4, <3>2
      <4>2. heap[c].kids[a] = heap[c].kids[b] /\ k[a] = heap[c].kids[a]
        BY <2>2, <2>4, <3>2, <4>1
      <4> QED  BY <1>4, <2>1, <4>2 DEF Distinct
    <3> QED  BY <3>1, <3>2
  <2> QED  BY <1>8, <2>4 DEF Distinct
<1>14. ReadTo(heap', c, j)
  <2>1. ASSUME NEW l \in 1 .. Len(k)
        PROVE  IF l <= j THEN k[l] \in 1 .. Len(heap) /\ heap'[k[l]].type = heap[c].ctype
                         ELSE k[l] = Null
    <3>1. CASE l = j
      <4>1. l <= j /\ k[l] = Top.tag
        BY <1>3, <1>4, <3>1
      <4> QED  BY <1>2, <1>11, <4>1
    <3>2. CASE l <= j /\ l # j
      <4>1. l <= Caller.i /\ k[l] = heap[c].kids[l] /\ l \in 1 .. Len(heap[c].kids)
        BY <1>4, <1>6, <3>2
      <4>2. k[l] \in 1 .. Len(heap) /\ heap[k[l]].type = heap[c].ctype
        BY <1>2, <4>1 DEF ReadTo
      <4> QED  BY <1>11, <3>2, <4>2
    <3>3. CASE ~(l <= j)
      <4>1. ~(l <= Caller.i) /\ k[l] = heap[c].kids[l] /\ l \in 1 .. Len(heap[c].kids)
        BY <1>4, <1>7, <3>3
      <4>2. k[l] = Null
        BY <1>2, <4>1 DEF ReadTo
      <4> QED  BY <3>3, <4>2
    <3> QED  BY <3>1, <3>2, <3>3
  <2> QED  BY <1>8, <1>11, <2>1 DEF ReadTo
<1>15. EntriesIn(heap, u.map)
  BY <1>2, <1>8 DEF Linked, Keys
<1> QED  BY <1>1, <1>3, <1>10, <1>12, <1>13, <1>14, <1>15, ReturnForest

LEMMA ReturnToLoadForest == ASSUME FInv, ReturnToLoad PROVE Linked(stack, heap, root, pc)'
<1>1. /\ pc = "return" /\ pc' = "loop" /\ Depth = 2 /\ Resume(Caller.i) /\ heap' = heap
      /\ root' = Put(root, Cur.name, Top.tag)
  BY DEF ReturnToLoad, Resume
<1>2. /\ heap \in Seq(Tag) /\ stack \in Seq(Frame) /\ Len(stack) = 2
      /\ Top = stack[2] /\ Cur = heap[Top.tag]
      /\ Linked(stack, heap, root, "return")
  BY <1>1, LinkedFacts
<1>3. stack' \in Seq(Frame) /\ Len(stack') = 1 /\ stack'[1].tag = stack[1].tag
  <2>1. Caller.i \in Nat
    BY <1>1, ReturnFacts DEF FInv
  <2>2. Depth - 1 = 1
    BY <1>1
  <2> QED  BY <1>1, <2>1, <2>2, ResumeMakes DEF FInv
<1>4. Linked(stack', heap, root', "loop")
  BY <1>1, <1>2, <1>3, LinkedRoot
<1> QED  BY <1>1, <1>4

-----------------------------------------------------------------------------
(* Every step keeps the forest                                              *)

LEMMA LoadForest == ASSUME FInv, Load PROVE Linked(stack, heap, root, pc)'
<1>1. /\ stack' = <<NewFrame(Null, 0, 0)>> /\ heap' = << >> /\ root' = {} /\ pc' = "loop"
  BY DEF Load, LoadFrom
<1>2. Len(stack') = 1 /\ stack'[1].tag = Null
  BY <1>1 DEF NewFrame
<1> QED  BY <1>1, <1>2, LinkedNone

LEMMA LoadReturnsForest == ASSUME FInv, LoadReturns PROVE Linked(stack, heap, root, pc)'
<1>1. /\ pc = "loop" /\ InLoad /\ pc' = "done" /\ stack' = << >> /\ UNCHANGED <<heap, root>>
  BY DEF LoadReturns
<1>2. heap \in Seq(Tag) /\ Len(stack) = 1 /\ Linked(stack, heap, root, pc)
  BY <1>1, LinkedFacts DEF InLoad
<1>3. Linked(<< >>, heap, root, "done")
  BY <1>2, LinkedEnd
<1> QED  BY <1>1, <1>3

LEMMA FailingForest == ASSUME FInv, FailingStep PROVE Linked(stack, heap, root, pc)'
<1>1. pc # "done" /\ \E how \in {"false", "bad_alloc"} : Abort(how)
  BY DEF FailingStep, HeaderFails, AtHeader, Looping, LeafFails, ResizeThrows, Reading,
         ListFails, ElementFails, Fail
<1> QED  BY <1>1, AbortForest

LEMMA NextForest == ASSUME FInv, [Next]_vars PROVE FInv'
<1>1. IInv'
  BY NextKeeps DEF FInv
<1>2. Linked(stack, heap, root, pc)'
  <2>1. CASE Load              BY <2>1, LoadForest
  <2>2. CASE LoadReturns       BY <2>2, LoadReturnsForest
  <2>3. CASE ReadHeader        BY <2>3, ReadHeaderForest
  <2>4. CASE ReadScalar        BY <2>4, ReadScalarForest
  <2>5. CASE ReadArray         BY <2>5, ReadArrayForest
  <2>6. CASE ReadString        BY <2>6, ReadStringForest
  <2>7. CASE ReadEndList       BY <2>7, ReadEndListForest
  <2>8. CASE EnterList         BY <2>8, EnterListForest
  <2>9. CASE ReadElement       BY <2>9, ReadElementForest
  <2>10. CASE FinishList       BY <2>10, FinishListForest
  <2>11. CASE EnterCompound    BY <2>11, EnterCompoundForest
  <2>12. CASE FinishCompound   BY <2>12, FinishCompoundForest
  <2>13. CASE ReturnToLoad     BY <2>13, ReturnToLoadForest
  <2>14. CASE ReturnToCompound BY <2>14, ReturnToCompoundForest
  <2>15. CASE ReturnToList     BY <2>15, ReturnToListForest
  <2>16. CASE FailingStep      BY <2>16, FailingForest
  <2>17. CASE UNCHANGED vars   BY <2>17 DEF FInv, vars
  <2> QED
    BY <2>1, <2>2, <2>3, <2>4, <2>5, <2>6, <2>7, <2>8, <2>9, <2>10, <2>11, <2>12,
       <2>13, <2>14, <2>15, <2>16, <2>17, Zenon DEF Next, ReadStep, FailingStep
<1> QED  BY <1>1, <1>2 DEF FInv

(* The invariant says what TagsWellFormed says of the tags alone.           *)
LEMMA WellFormedFromLinked == ASSUME FInv PROVE TagsWellFormed
<1>1. /\ heap \in Seq(Tag) /\ root \in Map /\ stack \in Seq(Frame) /\ Depth = Len(stack)
      /\ Pointers(heap, root) /\ Keys(heap, root)
      /\ Lists(stack, heap, pc) /\ Fresh(stack, heap, root, pc)
  BY DEF FInv, IInv, TypeOK, Linked, Depth
<1>2. \A id \in Ids : Children(id) = Held(heap, id)
  BY DEF Children, Held
<1>3. KeysAreNames
  BY <1>1 DEF KeysAreNames, Entries, Keys, EntriesIn, Ids
<1>4. Forest
  <2>1. \A id \in Ids : \A kid \in Children(id) : kid = Null \/ kid > id
    <3> TAKE id \in Ids
    <3> TAKE kid \in Children(id)
    <3>1. kid \in Held(heap, id) /\ id \in 1 .. Len(heap)
      BY <1>2 DEF Ids
    <3>2. kid \in Nat
      BY <1>1, <3>1, HeldType
    <3> QED  BY <1>1, <3>1, <3>2 DEF Pointers
  <2>2. \A id \in Ids : \A j, k \in 1 .. Len(heap[id].kids) :
          heap[id].kids[j] = heap[id].kids[k] => j = k \/ heap[id].kids[j] = Null
    BY <1>1 DEF Pointers, Distinct, Ids
  <2>3. \A id \in Ids : \A e, f \in heap[id].map : e[2] = f[2] => e = f
    BY <1>1 DEF Keys, EntriesIn, Ids
  <2>4. \A a, b \in Ids : a # b => Children(a) \cap Children(b) \subseteq {Null}
    BY <1>1, <1>2 DEF Pointers, Ids
  <2>5. \A id \in Ids : Children(id) \cap {e[2] : e \in root} \subseteq {Null}
    BY <1>1, <1>2 DEF Pointers, Ids, Values
  <2> QED  BY <2>1, <2>2, <2>3, <2>4, <2>5 DEF Forest
<1>5. ListsHomogeneous
  <2> SUFFICES ASSUME NEW id \in Ids, IsList(id)
               PROVE  ReadTo(heap, id, ReadSoFar(id))
    BY DEF ListsHomogeneous, ReadTo, Ids
  <2>1. id \in 1 .. Len(heap) /\ heap[id].type = kTagList /\ id # Null
    BY DEF Ids, IsList
  <2>2. CASE \E j \in Unfinished(stack, pc) : stack[j].tag = id
    <3>1. PICK j \in Unfinished(stack, pc) : stack[j].tag = id
      BY <2>2
    <3>2. j \in 2 .. Len(stack) /\ (pc = "return" => j < Len(stack))
      BY <3>1 DEF Unfinished
    <3>3. \A k \in 1 .. Depth : stack[k].tag = id => k = j
      <4> TAKE k \in 1 .. Depth
      <4> HAVE stack[k].tag = id
      <4>1. k # 1
        BY <1>1, <2>1 DEF Fresh
      <4>2. k \in 2 .. Len(stack) /\ k \in Nat /\ j \in Nat
        BY <1>1, <3>2, <4>1
      <4>3. stack[j].tag = stack[k].tag /\ stack[j].tag \in Nat
        BY <2>1, <3>1
      <4> QED  BY <1>1, <3>2, <4>2, <4>3 DEF Fresh
    <3>4. j \in 1 .. Depth
      BY <1>1, <3>2
    <3>5. (CHOOSE k \in 1 .. Depth : stack[k].tag = id) = j
      BY <3>1, <3>3, <3>4
    <3>6. OnStack(id)
      BY <3>1, <3>4 DEF OnStack
    <3>7. ~(pc = "return" /\ Top.tag = id)
      <4>1. Depth \in 1 .. Depth /\ (pc = "return" => j # Depth)
        BY <1>1, <3>2
      <4> QED  BY <3>3, <4>1 DEF Top
    <3>8. ReadSoFar(id) = stack[j].i
      BY <3>5, <3>6, <3>7 DEF ReadSoFar
    <3> QED  BY <1>1, <2>1, <3>1, <3>8 DEF Lists
  <2>3. CASE ~ \E j \in Unfinished(stack, pc) : stack[j].tag = id
    <3>1. ~OnStack(id) \/ (pc = "return" /\ Top.tag = id)
      <4> SUFFICES ASSUME OnStack(id) PROVE pc = "return" /\ Top.tag = id
        OBVIOUS
      <4>1. PICK j \in 1 .. Depth : stack[j].tag = id
        BY DEF OnStack
      <4>2. j # 1
        BY <1>1, <2>1, <4>1 DEF Fresh
      <4>3. j \in 2 .. Len(stack)
        BY <1>1, <4>1, <4>2
      <4>4. pc = "return" /\ ~(j < Len(stack))
        BY <2>3, <4>1, <4>3 DEF Unfinished
      <4>5. j = Depth
        BY <1>1, <4>3, <4>4
      <4> QED  BY <4>1, <4>4, <4>5 DEF Top
    <3>2. ReadSoFar(id) = Len(heap[id].kids)
      BY <3>1 DEF ReadSoFar
    <3> QED  BY <1>1, <2>1, <2>3, <3>2 DEF Lists
  <2> QED  BY <2>2, <2>3
<1> QED  BY <1>3, <1>4, <1>5 DEF TagsWellFormed

-----------------------------------------------------------------------------
(* The theorem                                                              *)

(* Whatever the buffers are, the tags in memory are a forest: every         *)
(* container holds tags made after it, no tag is held twice, a list's       *)
(* children are of its child type, and a compound's and the root's stand    *)
(* under their own names; in the middle of a read only what a list has yet  *)
(* to read is null, and after a failure nothing is.                         *)
THEOREM WellFormed == Spec => []TagsWellFormed
<1>1. Init => FInv
  <2> SUFFICES ASSUME Init PROVE Linked(stack, heap, root, pc)
    BY InitKeeps DEF FInv
  <2>1. heap = << >> /\ root = {} /\ stack = << >> /\ pc = "done"
    BY DEF Init
  <2>2. Len(stack) = 0
    BY <2>1
  <2> QED  BY <2>1, <2>2, LinkedNone
<1>2. FInv /\ [Next]_vars => FInv'
  BY NextForest
<1>3. FInv => TagsWellFormed
  BY WellFormedFromLinked
<1> QED  BY <1>1, <1>2, <1>3, PTL DEF Spec

=============================================================================
