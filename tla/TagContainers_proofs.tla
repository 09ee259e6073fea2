------------------------ MODULE TagContainers_proofs ------------------------
(***************************************************************************)
(* What holds of the containers for every program that uses them, however  *)
(* many tags it makes and however long its lists are.                      *)
(***************************************************************************)
EXTENDS TagContainers, TagFormat_proofs

-----------------------------------------------------------------------------
(* Sequences                                                                *)

LEMMA InsertAtType ==
  ASSUME NEW S, NEW s \in Seq(S), NEW e \in S, NEW i \in 1 .. Len(s) + 1
  PROVE  InsertAt(s, i, e) \in Seq(S)
<1>1. SubSeq(s, 1, i - 1) \in Seq(S)
  <2>1. \A k \in 1 .. i - 1 : s[k] \in S
    BY ElementOfSeq
  <2> QED  BY <2>1, SubSeqProperties
<1>2. SubSeq(s, i, Len(s)) \in Seq(S)
  <2>1. \A k \in i .. Len(s) : s[k] \in S
    BY ElementOfSeq
  <2> QED  BY <2>1, SubSeqProperties
<1>3. <<e>> \in Seq(S)
  OBVIOUS
<1> QED  BY <1>1, <1>2, <1>3, ConcatProperties DEF InsertAt

LEMMA RemoveAtType ==
  ASSUME NEW S, NEW s \in Seq(S), NEW i \in 1 .. Len(s)
  PROVE  RemoveAt(s, i) \in Seq(S) /\ Len(RemoveAt(s, i)) = Len(s) - 1
<1>1. SubSeq(s, 1, i - 1) \in Seq(S) /\ Len(SubSeq(s, 1, i - 1)) = i - 1
  <2>1. \A k \in 1 .. i - 1 : s[k] \in S
    BY ElementOfSeq
  <2> QED  BY <2>1, SubSeqProperties
<1>2. SubSeq(s, i + 1, Len(s)) \in Seq(S) /\ Len(SubSeq(s, i + 1, Len(s))) = Len(s) - i
  <2>1. \A k \in i + 1 .. Len(s) : s[k] \in S
    BY ElementOfSeq
  <2> QED  BY <2>1, SubSeqProperties
<1> QED  BY <1>1, <1>2, ConcatProperties DEF RemoveAt

LEMMA FrontType ==
  ASSUME NEW S, NEW s \in Seq(S), Len(s) > 0
  PROVE  Front(s) \in Seq(S) /\ Len(Front(s)) = Len(s) - 1
<1> DEFINE n == Len(s) - 1
<1>1. \A k \in 1 .. n : s[k] \in S
  BY ElementOfSeq
<1>2. n \in Nat
  OBVIOUS
<1>3. Front(s) = SubSeq(s, 1, n)
  BY DEF Front
<1>4. SubSeq(s, 1, n) \in Seq(S) /\ Len(SubSeq(s, 1, n)) = n
  <2> HIDE DEF n
  <2> QED  BY <1>1, <1>2, SubSeqProperties
<1> QED  BY <1>3, <1>4

LEMMA TailType ==
  ASSUME NEW S, NEW s \in Seq(S), Len(s) > 0
  PROVE  Tail(s) \in Seq(S)
BY HeadTailProperties

LEMMA ReplaceAtType ==
  ASSUME NEW S, NEW s \in Seq(S), NEW e \in S, NEW i \in 1 .. Len(s)
  PROVE  ReplaceAt(s, i, e) \in Seq(S)
BY ExceptSeq DEF ReplaceAt

LEMMA SeqOfNone ==
  ASSUME NEW S, NEW T, NEW s \in Seq(S), Len(s) = 0
  PROVE  s \in Seq(T) /\ s = << >>
BY EmptySeq

-----------------------------------------------------------------------------
(* The heap                                                                 *)

OfType(h, t) == {id \in 1 .. Len(h) : h[id].type = t}

(* A tag that refers to tags of h only, and whose children have its child   *)
(* type if it is a list.                                                    *)
Sound(h, tag) ==
  /\ tag.kids \in Seq(1 .. Len(h))
  /\ tag.type = kTagList => tag.kids \in Seq(OfType(h, tag.ctype))
  /\ \A e \in tag.map : e[2] \in 1 .. Len(h)

Good(h) == h \in Seq(Tag) /\ \A id \in 1 .. Len(h) : Sound(h, h[id])

LEMMA SetTag ==
  ASSUME NEW h, Good(h), NEW id \in 1 .. Len(h), NEW tag \in Tag,
         tag.type = h[id].type, Sound(h, tag)
  PROVE  Good([h EXCEPT ![id] = tag])
<1> DEFINE g == [h EXCEPT ![id] = tag]
<1>1. /\ g \in Seq(Tag) /\ Len(g) = Len(h)
      /\ \A j \in 1 .. Len(h) : g[j] = IF j = id THEN tag ELSE h[j]
  BY ExceptSeq DEF Good
<1>2. \A t : OfType(g, t) = OfType(h, t)
  BY <1>1 DEF OfType
<1>3. \A j \in 1 .. Len(h) : Sound(h, g[j])
  BY <1>1 DEF Good
<1>4. \A j \in 1 .. Len(g) : Sound(g, g[j])
  <2> HIDE DEF g
  <2> QED  BY <1>1, <1>2, <1>3 DEF Sound
<1> QED  BY <1>1, <1>4 DEF Good

LEMMA AddTag ==
  ASSUME NEW h, Good(h), NEW tag \in Tag, tag.kids = << >>, tag.map = {}
  PROVE  Good(Append(h, tag))
<1> DEFINE g == Append(h, tag)
<1>1. /\ g \in Seq(Tag) /\ Len(g) = Len(h) + 1
      /\ g[Len(h) + 1] = tag
      /\ \A j \in 1 .. Len(h) : g[j] = h[j]
  BY AppendProperties DEF Good
<1>2. Len(h) \in Nat
  BY DEF Good
<1> HIDE DEF g
<1>3. 1 .. Len(h) \subseteq 1 .. Len(g) /\ \A t : OfType(h, t) \subseteq OfType(g, t)
  BY <1>1, <1>2 DEF OfType
<1>4. ASSUME NEW j \in 1 .. Len(g)
      PROVE  Sound(g, g[j])
  <2>1. CASE j = Len(h) + 1
    <3>1. \A T : << >> \in Seq(T)
      OBVIOUS
    <3>2. g[j].kids = << >> /\ g[j].map = {}
      BY <2>1, <1>1
    <3> QED  BY <3>1, <3>2 DEF Sound
  <2>2. CASE j \in 1 .. Len(h)
    <3>1. Sound(h, h[j])
      BY <2>2 DEF Good
    <3>2. g[j].kids \in Seq(1 .. Len(g))
      BY <3>1, <2>2, <1>1, <1>3, SeqMonotonic DEF Sound
    <3>3. g[j].type = kTagList => g[j].kids \in Seq(OfType(g, g[j].ctype))
      BY <3>1, <2>2, <1>1, <1>3, SeqMonotonic DEF Sound
    <3>4. \A e \in g[j].map : e[2] \in 1 .. Len(g)
      BY <3>1, <2>2, <1>1, <1>3 DEF Sound
    <3> QED  BY <3>2, <3>3, <3>4 DEF Sound
  <2> QED  BY <2>1, <2>2, <1>1, <1>2
<1>5. Good(g)
  BY <1>1, <1>4 DEF Good
<1> QED  BY <1>5 DEF g

(* A list may be given any children of one type, if it gets that type.      *)
LEMMA SetKids ==
  ASSUME NEW h, Good(h), NEW id \in 1 .. Len(h), NEW ct \in kTagEnd .. kTagIntArray,
         NEW kids \in Seq(OfType(h, ct))
  PROVE  Good([h EXCEPT ![id] = [h[id] EXCEPT !.kids = kids, !.ctype = ct]])
<1> DEFINE tag == [h[id] EXCEPT !.kids = kids, !.ctype = ct]
<1>1. h[id] \in Tag /\ Sound(h, h[id]) /\ Len(h) \in Nat
  BY ElementOfSeq DEF Good
<1>2. kids \in Seq(1 .. Len(h)) /\ kids \in Seq(Nat)
  <2>1. OfType(h, ct) \subseteq 1 .. Len(h) /\ OfType(h, ct) \subseteq Nat
    BY <1>1 DEF OfType
  <2> QED  BY <2>1, SeqMonotonic
<1>3. /\ tag \in Tag /\ tag.type = h[id].type /\ tag.kids = kids
      /\ tag.ctype = ct /\ tag.map = h[id].map
  BY <1>1, <1>2 DEF Tag
<1>4. Sound(h, tag)
  BY <1>1, <1>2, <1>3 DEF Sound
<1> QED  BY <1>3, <1>4, SetTag

-----------------------------------------------------------------------------
(* Lists                                                                    *)

(* What every call on tags guarantees.                                      *)
GoodKept ==
  Good(heap') /\ Len(heap) <= Len(heap') /\ UNCHANGED root /\ returned' \in BOOLEAN

LEMMA Refused ==
  ASSUME Good(heap), Refuse
  PROVE  GoodKept
<1>1. heap' = heap /\ UNCHANGED root /\ returned' = FALSE
  BY DEF Refuse
<1>2. Len(heap) \in Nat
  BY LenProperties DEF Good
<1>3. Len(heap) <= Len(heap')
  BY <1>1, <1>2
<1>4. Good(heap')
  BY <1>1, Zenon
<1> QED  BY <1>1, <1>3, <1>4 DEF GoodKept

LEMMA Changed ==
  ASSUME Good(heap), NEW id \in Ids, NEW tag, Becomes(id, tag),
         Good([heap EXCEPT ![id] = tag])
  PROVE  GoodKept
<1>1. heap' = [heap EXCEPT ![id] = tag] /\ returned' = TRUE /\ UNCHANGED root
  BY DEF Becomes
<1>2. Len(heap') = Len(heap) /\ Len(heap) \in Nat
  BY <1>1 DEF Good
<1> QED  BY <1>1, <1>2 DEF GoodKept

LEMMA ListFacts ==
  ASSUME Good(heap), NEW id \in Ids, IsList(id)
  PROVE  /\ heap[id].kids \in Seq(OfType(heap, child_type(id)))
         /\ child_type(id) \in kTagEnd .. kTagIntArray
         /\ count(id) \in Nat
<1>1. heap[id] \in Tag /\ Sound(heap, heap[id])
  BY ElementOfSeq DEF Good, Ids
<1> QED  BY <1>1, LenProperties DEF Sound, Tag, IsList, child_type, count

LEMMA Rearranged ==
  ASSUME Good(heap), NEW id \in Ids, NEW ct \in kTagEnd .. kTagIntArray,
         NEW kids \in Seq(OfType(heap, ct)),
         Becomes(id, WithKids(id, kids, ct))
  PROVE  GoodKept
<1>1. Good([heap EXCEPT ![id] = WithKids(id, kids, ct)])
  BY SetKids DEF Ids, WithKids
<1> QED  BY <1>1, Changed

(* A list without children may have any child type. *)
LEMMA Emptied ==
  ASSUME Good(heap), NEW id \in Ids, NEW ct \in kTagEnd .. kTagIntArray,
         Becomes(id, WithKids(id, << >>, ct))
  PROVE  GoodKept
<1>1. << >> \in Seq(OfType(heap, ct))
  OBVIOUS
<1> QED  BY <1>1, Rearranged

(* A list that takes a tag, in a place of its own. *)
LEMMA TakesIn ==
  ASSUME Good(heap), NEW id \in Ids, IsList(id), NEW tag \in Pointers, Accepted(id, tag)
  PROVE  /\ heap[tag].type \in kTagEnd .. kTagIntArray
         /\ heap[id].kids \in Seq(OfType(heap, heap[tag].type))
         /\ tag \in OfType(heap, heap[tag].type)
<1>1. tag \in 1 .. Len(heap) /\ heap[tag] \in Tag
  BY ElementOfSeq DEF Good, Ids, Pointers, Accepted
<1>2. heap[tag].type \in kTagEnd .. kTagIntArray
  BY <1>1 DEF Tag, TagTypes, kTagByte, kTagEnd, kTagIntArray
<1>3. heap[id].kids \in Seq(OfType(heap, heap[tag].type))
  <2>1. CASE heap[tag].type = child_type(id)
    BY <2>1, ListFacts
  <2>2. CASE count(id) = 0
    BY <2>2, ListFacts, SeqOfNone DEF count
  <2> QED  BY <2>1, <2>2 DEF Accepted
<1> QED  BY <1>1, <1>2, <1>3 DEF OfType

(* Taking one child out, with the child type that EraseAt and PopBack give  *)
(* the list or with the one it had.                                         *)
LEMMA TakesOut ==
  ASSUME Good(heap), NEW id \in Ids, IsList(id), NEW ct \in {child_type(id), TypeAfterLoss(id)},
         NEW kids \in Seq(OfType(heap, child_type(id))), Len(kids) = count(id) - 1,
         Becomes(id, WithKids(id, kids, ct))
  PROVE  GoodKept
<1>1. child_type(id) \in kTagEnd .. kTagIntArray /\ count(id) \in Nat
  BY ListFacts
<1>2. CASE ct = child_type(id)
  BY <1>1, <1>2, Rearranged
<1>3. CASE ct # child_type(id)
  <2>1. count(id) = 1 /\ ct = kTagEnd /\ ct \in kTagEnd .. kTagIntArray
    BY <1>3 DEF TypeAfterLoss, kTagEnd, kTagIntArray
  <2>2. Len(kids) = 0
    BY <2>1
  <2>3. kids = << >>
    BY <2>2, SeqOfNone
  <2> QED  BY <2>1, <2>3, Emptied
<1> QED  BY <1>2, <1>3

LEMMA ListSetChildGood ==
  ASSUME Good(heap), NEW id \in Ids, NEW index \in Nat, NEW tag \in Pointers,
         ListSetChild(id, index, tag)
  PROVE  GoodKept
<1>1. IsList(id)
  BY DEF ListSetChild
<1>2. CASE ~Settable(id, index, tag)
  BY <1>2, Refused DEF ListSetChild
<1>3. CASE Settable(id, index, tag)
  <2>1. tag \in OfType(heap, child_type(id))
    BY <1>3 DEF Settable, Pointers, Ids, OfType
  <2>2. index + 1 \in 1 .. Len(heap[id].kids)
    BY <1>1, <1>3, ListFacts DEF Settable, count
  <2>3. ReplaceAt(heap[id].kids, index + 1, tag) \in Seq(OfType(heap, child_type(id)))
    BY <1>1, <2>1, <2>2, ListFacts, ReplaceAtType
  <2> QED  BY <1>1, <1>3, <2>3, ListFacts, Rearranged DEF ListSetChild
<1> QED  BY <1>2, <1>3

LEMMA EraseAtGood ==
  ASSUME Good(heap), NEW id \in Ids, IsList(id), NEW index \in Nat, EraseAt(id, index)
  PROVE  GoodKept
<1>1. CASE ~(index < count(id))
  BY <1>1, Refused DEF EraseAt
<1>2. CASE index < count(id)
  <2>1. index + 1 \in 1 .. Len(heap[id].kids)
    BY <1>2, ListFacts DEF count
  <2>2. /\ RemoveAt(heap[id].kids, index + 1) \in Seq(OfType(heap, child_type(id)))
        /\ Len(RemoveAt(heap[id].kids, index + 1)) = count(id) - 1
    BY <2>1, ListFacts, RemoveAtType DEF count
  <2>3. ~(index >= count(id))
    BY <1>2, ListFacts
  <2> QED  BY <1>2, <2>2, <2>3, TakesOut DEF EraseAt
<1> QED  BY <1>1, <1>2

LEMMA InsertBeforeGood ==
  ASSUME Good(heap), NEW id \in Ids, IsList(id), NEW index \in Nat, NEW tag \in Pointers,
         InsertBefore(id, index, tag)
  PROVE  GoodKept
<1>1. CASE ~Insertable(id, index, tag)
  BY <1>1, Refused DEF InsertBefore
<1>2. CASE Insertable(id, index, tag)
  <2> DEFINE t == heap[tag].type
  <2>1. Accepted(id, tag) /\ index + 1 \in 1 .. Len(heap[id].kids) + 1
    BY <1>2, ListFacts DEF Insertable, count
  <2>2. InsertAt(heap[id].kids, index + 1, tag) \in Seq(OfType(heap, t))
    BY <2>1, TakesIn, InsertAtType
  <2> QED  BY <1>2, <2>1, <2>2, TakesIn, Rearranged DEF InsertBefore
<1> QED  BY <1>1, <1>2

LEMMA PushBackGood ==
  ASSUME Good(heap), NEW id \in Ids, NEW tag \in Pointers, PushBack(id, tag)
  PROVE  GoodKept
<1>1. CASE ~Accepted(id, tag)
  BY <1>1, Refused DEF PushBack
<1>2. CASE Accepted(id, tag)
  <2> DEFINE t == heap[tag].type
  <2>1. IsList(id)
    BY DEF PushBack
  <2>2. Append(heap[id].kids, tag) \in Seq(OfType(heap, t))
    BY <1>2, <2>1, TakesIn, AppendProperties
  <2> QED  BY <1>2, <2>1, <2>2, TakesIn, Rearranged DEF PushBack
<1> QED  BY <1>1, <1>2

LEMMA ClearGood ==
  ASSUME Good(heap), NEW id \in Ids, ListClear(id) \/ ClearListValue(id)
  PROVE  GoodKept
<1>1. IsList(id) /\ kTagEnd \in kTagEnd .. kTagIntArray
  BY DEF ListClear, ClearListValue, kTagEnd, kTagIntArray
<1>2. CASE ListClear(id)
  BY <1>1, <1>2, Emptied DEF ListClear
<1>3. CASE ClearListValue(id)
  BY <1>1, <1>3, ListFacts, Emptied DEF ClearListValue
<1> QED  BY <1>2, <1>3

LEMMA PopGood ==
  ASSUME Good(heap), NEW id \in Ids, PopBack(id) \/ PopListValue(id) \/ ShiftListValue(id)
  PROVE  GoodKept
<1> DEFINE kids == heap[id].kids
           S == OfType(heap, child_type(id))
<1>1. IsList(id)
  BY DEF PopBack, PopListValue, ShiftListValue
<1>2. kids \in Seq(S) /\ count(id) = Len(kids) /\ count(id) \in Nat
  BY <1>1, ListFacts DEF count
<1>3. CASE count(id) = 0
  BY <1>3, Refused DEF PopBack, PopListValue, ShiftListValue
<1>4. CASE count(id) > 0
  <2>1. Front(kids) \in Seq(S) /\ Len(Front(kids)) = count(id) - 1
    BY <1>2, <1>4, FrontType
  <2>2. Tail(kids) \in Seq(S) /\ Len(Tail(kids)) = count(id) - 1
    BY <1>2, <1>4, HeadTailProperties
  <2>3. count(id) # 0
    BY <1>4, <1>2
  <2>4. CASE PopBack(id)
    BY <1>1, <2>1, <2>3, <2>4, TakesOut DEF PopBack
  <2>5. CASE PopListValue(id)
    BY <1>1, <2>1, <2>3, <2>5, TakesOut DEF PopListValue
  <2>6. CASE ShiftListValue(id)
    BY <1>1, <2>2, <2>3, <2>6, TakesOut DEF ShiftListValue
  <2> QED  BY <2>4, <2>5, <2>6
<1> QED  BY <1>2, <1>3, <1>4

LEMMA EraseListValueGood ==
  ASSUME Good(heap), NEW id \in Ids, NEW index \in Nat, EraseListValue(id, index)
  PROVE  GoodKept
<1>1. IsList(id) /\ index < count(id)
  BY DEF EraseListValue
<1>2. index + 1 \in 1 .. Len(heap[id].kids)
  BY <1>1, ListFacts DEF count
<1>3. /\ RemoveAt(heap[id].kids, index + 1) \in Seq(OfType(heap, child_type(id)))
      /\ Len(RemoveAt(heap[id].kids, index + 1)) = count(id) - 1
  BY <1>1, <1>2, ListFacts, RemoveAtType DEF count
<1> QED  BY <1>1, <1>3, TakesOut DEF EraseListValue

LEMMA ListCallGood ==
  ASSUME Good(heap), NEW id \in Ids, ListCall(id)
  PROVE  GoodKept
<1>1. Indices \subseteq Nat /\ 0 \in Nat
  BY BoundsAssumption DEF Indices
<1>2. CASE ListClear(id) \/ ClearListValue(id)
  BY <1>2, ClearGood
<1>3. CASE PopBack(id) \/ PopListValue(id) \/ ShiftListValue(id)
  BY <1>3, PopGood
<1>4. CASE PopFront(id)
  BY <1>1, <1>4, EraseAtGood DEF PopFront, ListEraseChild
<1>5. CASE \E index \in Indices : ListEraseChild(id, index)
  BY <1>1, <1>5, EraseAtGood DEF ListEraseChild
<1>6. CASE \E index \in Indices : EraseListValue(id, index)
  BY <1>1, <1>6, EraseListValueGood
<1>7. CASE \E tag \in Pointers : PushBack(id, tag)
  BY <1>7, PushBackGood
<1>8. CASE \E tag \in Pointers : PushFront(id, tag)
  BY <1>1, <1>8, InsertBeforeGood DEF PushFront, ListInsert
<1>9. CASE \E tag \in Pointers, index \in Indices : ListSetChild(id, index, tag)
  BY <1>1, <1>9, ListSetChildGood
<1>10. CASE \E tag \in Pointers, index \in Indices : ListInsert(id, index, tag)
  BY <1>1, <1>10, InsertBeforeGood DEF ListInsert
<1> QED
  BY <1>2, <1>3, <1>4, <1>5, <1>6, <1>7, <1>8, <1>9, <1>10 DEF ListCall

-----------------------------------------------------------------------------
(* Compounds                                                                *)

LEMMA SetMap ==
  ASSUME NEW h, Good(h), NEW id \in 1 .. Len(h), NEW map \in SUBSET (Name \X (1 .. Len(h)))
  PROVE  Good([h EXCEPT ![id] = [h[id] EXCEPT !.map = map]])
<1> DEFINE tag == [h[id] EXCEPT !.map = map]
<1>1. h[id] \in Tag /\ Sound(h, h[id]) /\ Len(h) \in Nat
  BY ElementOfSeq DEF Good
<1>2. map \in Map
  BY <1>1 DEF Map
<1>3. /\ tag \in Tag /\ tag.type = h[id].type /\ tag.kids = h[id].kids
      /\ tag.ctype = h[id].ctype /\ tag.map = map
  BY <1>1, <1>2 DEF Tag
<1>4. Sound(h, tag)
  BY <1>1, <1>3 DEF Sound
<1> QED  BY <1>3, <1>4, SetTag

LEMMA Rename ==
  ASSUME NEW h, Good(h), NEW id \in 1 .. Len(h), NEW name \in Name
  PROVE  Good([h EXCEPT ![id] = [h[id] EXCEPT !.name = name]])
<1> DEFINE tag == [h[id] EXCEPT !.name = name]
<1>1. h[id] \in Tag /\ Sound(h, h[id])
  BY ElementOfSeq DEF Good
<1>2. /\ tag \in Tag /\ tag.type = h[id].type /\ tag.kids = h[id].kids
      /\ tag.ctype = h[id].ctype /\ tag.map = h[id].map
  BY <1>1 DEF Tag
<1>3. Sound(h, tag)
  BY <1>1, <1>2 DEF Sound
<1> QED  BY <1>2, <1>3, SetTag

LEMMA MapFacts ==
  ASSUME NEW h, Good(h), NEW id \in 1 .. Len(h)
  PROVE  h[id].map \in SUBSET (Name \X (1 .. Len(h)))
<1>1. h[id] \in Tag /\ Sound(h, h[id])
  BY ElementOfSeq DEF Good
<1>2. h[id].map \subseteq Name \X Nat /\ \A e \in h[id].map : e[2] \in 1 .. Len(h)
  BY <1>1 DEF Tag, Map, Sound
<1> QED  BY <1>2

LEMMA PutType ==
  ASSUME NEW S, NEW map \in SUBSET (Name \X S), NEW key \in Name, NEW tag \in S
  PROVE  Put(map, key, tag) \in SUBSET (Name \X S)
BY DEF Put, Drop

LEMMA SetToCompoundGood ==
  ASSUME Good(heap), NEW id \in Ids, NEW key \in Keys, NEW tag \in Pointers,
         NEW overwrite \in BOOLEAN, SetToCompound(id, key, tag, overwrite)
  PROVE  GoodKept
<1> DEFINE map == Put(heap[id].map, key, tag)
           h == [heap EXCEPT ![id] = [heap[id] EXCEPT !.map = map]]
           Taken == tag # Null /\ (overwrite \/ key \notin KeysOf(heap[id].map))
<1>1. CASE ~Taken
  BY <1>1, Refused DEF SetToCompound
<1>2. CASE Taken
  <2>1. tag \in 1 .. Len(heap) /\ id \in 1 .. Len(heap) /\ key \in Name
    BY <1>2, KeysAssumption DEF Pointers, Ids
  <2>2. map \in SUBSET (Name \X (1 .. Len(heap)))
    BY <2>1, MapFacts, PutType
  <2>3. Good(h)
    <3> HIDE DEF map
    <3> QED  BY <2>1, <2>2, SetMap
  <2> Len(h) = Len(heap)
    BY <2>1 DEF Good
  <2>4. Good([h EXCEPT ![tag] = [h[tag] EXCEPT !.name = key]])
    <3> HIDE DEF h
    <3> QED  BY <2>1, <2>3, Rename
  <2>5. heap' = [heap EXCEPT ![id].map = Put(@, key, tag), ![tag].name = key]
    BY <1>2 DEF SetToCompound, Refuse
  <2>6. heap' = [h EXCEPT ![tag] = [h[tag] EXCEPT !.name = key]]
    BY <2>5
  <2>7. Len(heap') = Len(heap) /\ Len(heap) \in Nat
    BY <2>1, <2>5 DEF Good
  <2>8. returned' = TRUE /\ UNCHANGED root
    BY <1>2 DEF SetToCompound, Refuse
  <2>9. Good(heap')
    BY <2>4, <2>6
  <2> QED  BY <2>7, <2>8, <2>9 DEF GoodKept
<1> QED  BY <1>1, <1>2

LEMMA CompoundEraseGood ==
  ASSUME Good(heap), NEW id \in Ids, NEW key \in Keys, CompoundEraseChild(id, key)
  PROVE  GoodKept
<1>1. CASE key \notin KeysOf(heap[id].map)
  BY <1>1, Refused DEF CompoundEraseChild
<1>2. CASE key \in KeysOf(heap[id].map)
  <2>1. Drop(heap[id].map, key) \in SUBSET (Name \X (1 .. Len(heap)))
    BY MapFacts DEF Drop, Ids
  <2>2. Good([heap EXCEPT ![id] = WithMap(id, Drop(heap[id].map, key))])
    BY <2>1, SetMap DEF WithMap, Ids
  <2> QED  BY <1>2, <2>2, Changed DEF CompoundEraseChild
<1> QED  BY <1>1, <1>2

LEMMA CompoundClearGood ==
  ASSUME Good(heap), NEW id \in Ids, CompoundClear(id)
  PROVE  GoodKept
<1>1. Good([heap EXCEPT ![id] = WithMap(id, {})])
  BY SetMap DEF WithMap, Ids
<1> QED  BY <1>1, Changed DEF CompoundClear

LEMMA CompoundCallGood ==
  ASSUME Good(heap), NEW id \in Ids, CompoundCall(id)
  PROVE  GoodKept
<1>1. CASE CompoundClear(id)
  BY <1>1, CompoundClearGood
<1>2. CASE \E key \in Keys : CompoundEraseChild(id, key)
  BY <1>2, CompoundEraseGood
<1>3. CASE \E key \in Keys, tag \in Pointers, overwrite \in BOOLEAN :
             SetToCompound(id, key, tag, overwrite)
  BY <1>3, SetToCompoundGood
<1> QED  BY <1>1, <1>2, <1>3 DEF CompoundCall

-----------------------------------------------------------------------------
(* Tags                                                                     *)

LEMMA SetNameGood ==
  ASSUME Good(heap), NEW id \in Ids, NEW name \in Keys, SetName(id, name)
  PROVE  GoodKept
<1>1. Good([heap EXCEPT ![id] = [heap[id] EXCEPT !.name = name]])
  BY Rename, KeysAssumption DEF Ids
<1> QED  BY <1>1, Changed DEF SetName

LEMMA MakeGood ==
  ASSUME Good(heap), NEW t \in Types, Make(t) \/ MakeTypedList(t)
  PROVE  GoodKept
<1>1. t \in TagTypes /\ kTagList \in TagTypes
  BY TypesAssumption DEF TagTypes, kTagByte, kTagIntArray, kTagList
<1>2. CASE Make(t)
  <2>1. NewTag(t) \in Tag /\ NewTag(t).kids = << >> /\ NewTag(t).map = {}
    BY <1>1, NewTagType DEF NewTag
  <2> QED  BY <1>2, <2>1, AddTag DEF Make, GoodKept, Good
<1>3. CASE MakeTypedList(t)
  <2> DEFINE tag == [NewTag(kTagList) EXCEPT !.ctype = t]
  <2>1. NewTag(kTagList) \in Tag
    BY <1>1, NewTagType
  <2>2. tag.kids = << >> /\ tag.map = {}
    BY DEF NewTag
  <2>3. t \in kTagEnd .. kTagIntArray
    BY <1>1 DEF TagTypes, kTagByte, kTagEnd, kTagIntArray
  <2>4. tag \in Tag
    <3> HIDE DEF kTagIntArray
    <3> QED  BY <2>1, <2>3 DEF Tag
  <2>5. heap' = Append(heap, tag) /\ UNCHANGED root /\ returned' = TRUE
    BY <1>3 DEF MakeTypedList
  <2> HIDE DEF tag
  <2>6. Good(heap')
    BY <2>2, <2>4, <2>5, AddTag
  <2>7. Len(heap) <= Len(heap')
    BY <2>4, <2>5, LenProperties, AppendProperties DEF Good
  <2> QED  BY <2>5, <2>6, <2>7 DEF GoodKept
<1> QED  BY <1>2, <1>3

-----------------------------------------------------------------------------
(* The root, and the theorems                                               *)

IInv == Good(heap) /\ root \in SUBSET (Name \X Pointers) /\ returned \in BOOLEAN

LEMMA RootCallInv ==
  ASSUME IInv, RootCall
  PROVE  IInv'
<1>1. PICK name \in RootKeys :
        \/ GetFromRoot(name) \/ RemoveFromRoot(name)
        \/ \E tag \in Pointers, overwrite \in BOOLEAN : AddToRoot(name, tag, overwrite)
  BY DEF RootCall
<1>2. name \in Name /\ Null \in Pointers
  BY KeysAssumption DEF Pointers
<1>3. \A tag \in Pointers : Put(root, name, tag) \in SUBSET (Name \X Pointers)
  BY <1>2, PutType DEF IInv
<1>4. Drop(root, name) \in SUBSET (Name \X Pointers)
  BY DEF IInv, Drop
<1>5. UNCHANGED heap /\ returned' \in BOOLEAN /\ root' \in SUBSET (Name \X Pointers)
  <2>1. CASE GetFromRoot(name)
    BY <2>1, <1>2, <1>3 DEF GetFromRoot, IInv
  <2>2. CASE RemoveFromRoot(name)
    BY <2>2, <1>4 DEF RemoveFromRoot, Refuse, IInv
  <2>3. CASE \E tag \in Pointers, overwrite \in BOOLEAN : AddToRoot(name, tag, overwrite)
    BY <2>3, <1>3 DEF AddToRoot, Refuse, IInv
  <2> QED  BY <1>1, <2>1, <2>2, <2>3
<1> QED  BY <1>5 DEF IInv, Pointers, Ids

LEMMA GoodKeptInv ==
  ASSUME IInv, GoodKept
  PROVE  IInv'
<1>1. Pointers \subseteq Pointers'
  BY DEF IInv, GoodKept, Good, Pointers, Ids
<1> QED  BY <1>1 DEF IInv, GoodKept

(* Whatever calls a program makes, every pointer leads to a tag and every   *)
(* list holds only tags of its child type.                                  *)
THEOREM Invariance == Spec => []IInv
<1>1. Init => IInv
  <2>1. << >> \in Seq(Tag) /\ Len(<< >>) = 0
    OBVIOUS
  <2> QED  BY <2>1 DEF Init, IInv, Good
<1>2. IInv /\ [Next]_vars => IInv'
  <2> SUFFICES ASSUME IInv, [Next]_vars PROVE IInv'
    OBVIOUS
  <2> Good(heap)
    BY DEF IInv
  <2>1. CASE \E t \in Types : Make(t) \/ MakeTypedList(t)
    BY <2>1, MakeGood, GoodKeptInv
  <2>2. CASE \E id \in Ids : ListCall(id)
    BY <2>2, ListCallGood, GoodKeptInv
  <2>3. CASE \E id \in Ids : CompoundCall(id)
    BY <2>3, CompoundCallGood, GoodKeptInv
  <2>4. CASE \E id \in Ids : \E name \in Keys : SetName(id, name)
    BY <2>4, SetNameGood, GoodKeptInv
  <2>5. CASE RootCall
    BY <2>5, RootCallInv
  <2>6. CASE UNCHANGED vars
    BY <2>6 DEF vars, IInv, Pointers, Ids
  <2> QED  BY <2>1, <2>2, <2>3, <2>4, <2>5, <2>6 DEF Next
<1> QED  BY <1>1, <1>2, PTL DEF Spec

(* Every pointer that a list or a compound holds leads to a tag, and one of *)
(* the root leads to a tag or is null.                                      *)
THEOREM TypeCorrect == Spec => []TypeOK
<1>1. IInv => TypeOK
  <2> SUFFICES ASSUME IInv PROVE TypeOK
    OBVIOUS
  <2>1. ASSUME NEW id \in Ids
        PROVE  Children(id) \subseteq Ids
    <3>1. Sound(heap, heap[id])
      BY DEF IInv, Good, Ids
    <3>2. \A j \in 1 .. Len(heap[id].kids) : heap[id].kids[j] \in Ids
      BY <3>1, ElementOfSeq DEF Sound, Ids
    <3> QED  BY <3>1, <3>2 DEF Sound, Children, Ids
  <2> QED  BY <2>1 DEF IInv, Good, TypeOK
<1> QED  BY <1>1, Invariance, PTL

(* All children of a list are there and have the list's child type, in      *)
(* whatever order the list's own calls and the primitives of its TagValue   *)
(* are made.                                                                *)
THEOREM Homogeneous == Spec => []ListsHomogeneous
<1>1. IInv => ListsHomogeneous
  <2> SUFFICES ASSUME IInv, NEW id \in Ids, IsList(id), NEW j \in 1 .. count(id)
               PROVE  heap[id].kids[j] \in Ids /\ heap[heap[id].kids[j]].type = child_type(id)
    BY DEF ListsHomogeneous
  <2>1. heap[id].kids \in Seq(OfType(heap, child_type(id)))
    BY ListFacts DEF IInv
  <2>2. heap[id].kids[j] \in OfType(heap, child_type(id))
    BY <2>1, ElementOfSeq DEF count
  <2> QED  BY <2>2 DEF OfType, Ids
<1> QED  BY <1>1, Invariance, PTL

-----------------------------------------------------------------------------
(* The containers keep what TypedContainers promises                        *)

TypesOf(h) == [id \in 1 .. Len(h) |-> h[id].type]
NamesOf(h) == [id \in 1 .. Len(h) |-> h[id].name]
ListsOf(h) == [id \in 1 .. Len(h) |-> h[id].kids]
MapsOf(h)  == [id \in 1 .. Len(h) |-> AsFunction(h[id].map)]

(* g shows what h does, but for the tag that takes the place of one.        *)
ShowsInstead(g, h, id, tag) ==
  /\ TypesOf(g) = TypesOf(h)
  /\ NamesOf(g) = [NamesOf(h) EXCEPT ![id] = tag.name]
  /\ ListsOf(g) = [ListsOf(h) EXCEPT ![id] = tag.kids]
  /\ MapsOf(g) = [MapsOf(h) EXCEPT ![id] = AsFunction(tag.map)]

LEMMA SetSeen ==
  ASSUME NEW h \in Seq(Tag), NEW id \in 1 .. Len(h), NEW tag \in Tag, tag.type = h[id].type
  PROVE  ShowsInstead([h EXCEPT ![id] = tag], h, id, tag)
<1> DEFINE g == [h EXCEPT ![id] = tag]
<1>1. /\ Len(g) = Len(h)
      /\ \A j \in 1 .. Len(h) : g[j] = IF j = id THEN tag ELSE h[j]
  BY ExceptSeq
<1> HIDE DEF g
<1>2. TypesOf(g) = TypesOf(h)
  BY <1>1 DEF TypesOf
<1>3. ListsOf(g) = [ListsOf(h) EXCEPT ![id] = tag.kids]
  BY <1>1 DEF ListsOf
<1>4. MapsOf(g) = [MapsOf(h) EXCEPT ![id] = AsFunction(tag.map)]
  BY <1>1 DEF MapsOf
<1>5. NamesOf(g) = [NamesOf(h) EXCEPT ![id] = tag.name]
  BY <1>1 DEF NamesOf
<1> QED  BY <1>2, <1>3, <1>4, <1>5 DEF g, ShowsInstead

LEMMA AddSeen ==
  ASSUME NEW h \in Seq(Tag), NEW tag \in Tag,
         tag.name = << >>, tag.kids = << >>, tag.map = {}
  PROVE  /\ TypesOf(Append(h, tag)) = Append(TypesOf(h), tag.type)
         /\ NamesOf(Append(h, tag)) = Append(NamesOf(h), << >>)
         /\ ListsOf(Append(h, tag)) = Append(ListsOf(h), << >>)
         /\ MapsOf(Append(h, tag)) = Append(MapsOf(h), << >>)
<1> DEFINE g == Append(h, tag)
<1>1. /\ Len(g) = Len(h) + 1 /\ Len(h) \in Nat
      /\ g[Len(h) + 1] = tag
      /\ \A j \in 1 .. Len(h) : g[j] = h[j]
  BY AppendProperties
<1> HIDE DEF g
<1>2. TypesOf(g) = Append(TypesOf(h), tag.type)
  BY <1>1 DEF TypesOf
<1>3. ListsOf(g) = Append(ListsOf(h), << >>)
  BY <1>1 DEF ListsOf
<1>4. AsFunction({}) = << >>
  BY DEF AsFunction, KeysOf
<1>5. MapsOf(g) = Append(MapsOf(h), << >>)
  <2>1. /\ AsFunction(g[Len(h) + 1].map) = << >>
        /\ \A j \in 1 .. Len(h) : AsFunction(g[j].map) = AsFunction(h[j].map)
    BY <1>1, <1>4
  <2>2. MapsOf(g) \in [1 .. Len(h) + 1 -> {AsFunction(g[j].map) : j \in 1 .. Len(h) + 1}]
    BY <1>1 DEF MapsOf
  <2> QED  BY <1>1, <2>1 DEF MapsOf
<1>6. NamesOf(g) = Append(NamesOf(h), << >>)
  BY <1>1 DEF NamesOf
<1> QED  BY <1>2, <1>3, <1>5, <1>6 DEF g

WithEntry(f, key, tag) ==
  [k \in DOMAIN f \cup {key} |-> IF k = key THEN tag ELSE f[k]]

LEMMA PutSeen ==
  ASSUME NEW map, NEW key, NEW tag
  PROVE  AsFunction(Put(map, key, tag)) = WithEntry(AsFunction(map), key, tag)
<1>1. KeysOf(Put(map, key, tag)) = KeysOf(map) \cup {key}
  <2>1. ASSUME NEW k \in KeysOf(map), k # key
        PROVE  k \in KeysOf(Put(map, key, tag))
    <3>1. PICK e \in map : k = e[1]
      BY DEF KeysOf
    <3>2. e \in Put(map, key, tag)
      BY <2>1, <3>1 DEF Put, Drop
    <3> QED  BY <3>1, <3>2 DEF KeysOf
  <2>2. key \in KeysOf(Put(map, key, tag))
    <3>1. <<key, tag>> \in Put(map, key, tag) /\ <<key, tag>>[1] = key
      BY DEF Put
    <3> QED  BY <3>1 DEF KeysOf
  <2>3. ASSUME NEW k \in KeysOf(Put(map, key, tag))
        PROVE  k \in KeysOf(map) \cup {key}
    <3>1. PICK e \in Put(map, key, tag) : k = e[1]
      BY DEF KeysOf
    <3>2. e \in map \/ e = <<key, tag>>
      BY DEF Put, Drop
    <3> QED  BY <3>1, <3>2 DEF KeysOf
  <2> QED  BY <2>1, <2>2, <2>3
<1>2. \A k : EntriesOf(Put(map, key, tag), k)
               = IF k = key THEN {<<key, tag>>} ELSE EntriesOf(map, k)
  BY DEF EntriesOf, Put, Drop
<1>3. \A k \in KeysOf(map) \cup {key} :
        AsFunction(Put(map, key, tag))[k] = IF k = key THEN tag ELSE AsFunction(map)[k]
  <2>1. AnyOf({<<key, tag>>}) = <<key, tag>>
    BY DEF AnyOf
  <2>2. AnyOf({<<key, tag>>})[2] = tag
    BY <2>1
  <2>3. ASSUME NEW k \in KeysOf(map) \cup {key}
        PROVE  AsFunction(Put(map, key, tag))[k] = AnyOf(EntriesOf(Put(map, key, tag), k))[2]
    BY <1>1 DEF AsFunction
  <2>4. ASSUME NEW k \in KeysOf(map)
        PROVE  AsFunction(map)[k] = AnyOf(EntriesOf(map, k))[2]
    BY DEF AsFunction
  <2> QED  BY <1>2, <2>2, <2>3, <2>4
<1> QED  BY <1>1, <1>3 DEF AsFunction, WithEntry

LEMMA DropSeen ==
  ASSUME NEW map, NEW key
  PROVE  AsFunction(Drop(map, key)) = [k \in KeysOf(map) \ {key} |-> AsFunction(map)[k]]
<1>1. KeysOf(Drop(map, key)) = KeysOf(map) \ {key}
  BY DEF KeysOf, Drop
<1>2. \A k \in KeysOf(map) \ {key} : EntriesOf(Drop(map, key), k) = EntriesOf(map, k)
  BY DEF EntriesOf, Drop
<1>3. \A k \in KeysOf(map) \ {key} : AsFunction(Drop(map, key))[k] = AsFunction(map)[k]
  <2> TAKE k \in KeysOf(map) \ {key}
  <2>1. AsFunction(Drop(map, key))[k] = AnyOf(EntriesOf(Drop(map, key), k))[2]
    BY <1>1 DEF AsFunction
  <2>2. AsFunction(map)[k] = AnyOf(EntriesOf(map, k))[2]
    BY DEF AsFunction
  <2> QED  BY <1>2, <2>1, <2>2
<1> QED  BY <1>1, <1>3 DEF AsFunction

LEMMA Seen ==
  ASSUME Good(heap)
  PROVE  /\ Promises!Tags = Ids
         /\ \A id \in Ids : Promises!Count(id) = count(id)
BY DEF Promises!Tags, Promises!Count, count, Ids

LEMMA SeenRefuse ==
  ASSUME Refuse
  PROVE  Promises!Refuse
BY DEF Refuse, Promises!Refuse, Ids

LEMMA SeenList ==
  ASSUME Good(heap), NEW id \in Ids, NEW ct \in kTagEnd .. kTagIntArray,
         NEW kids \in Seq(OfType(heap, ct)),
         Becomes(id, WithKids(id, kids, ct))
  PROVE  /\ returned' = TRUE
         /\ TypesOf(heap') = TypesOf(heap) /\ NamesOf(heap') = NamesOf(heap)
         /\ ListsOf(heap') = [ListsOf(heap) EXCEPT ![id] = kids]
         /\ MapsOf(heap') = MapsOf(heap)
<1> DEFINE tag == WithKids(id, kids, ct)
<1>1. heap \in Seq(Tag) /\ heap[id] \in Tag /\ kids \in Seq(Nat)
  <2>1. OfType(heap, ct) \subseteq Nat
    BY DEF OfType, Good
  <2> QED  BY <2>1, SeqMonotonic, ElementOfSeq DEF Good, Ids
<1>2. /\ tag \in Tag /\ tag.type = heap[id].type /\ tag.kids = kids
      /\ tag.map = heap[id].map /\ tag.name = heap[id].name
  BY <1>1 DEF Tag, WithKids
<1>3. heap' = [heap EXCEPT ![id] = tag] /\ returned' = TRUE
  BY DEF Becomes
<1> HIDE DEF tag
<1>4. /\ TypesOf(heap') = TypesOf(heap)
      /\ NamesOf(heap') = [NamesOf(heap) EXCEPT ![id] = heap[id].name]
      /\ ListsOf(heap') = [ListsOf(heap) EXCEPT ![id] = kids]
      /\ MapsOf(heap') = [MapsOf(heap) EXCEPT ![id] = AsFunction(heap[id].map)]
  <2>1. ShowsInstead(heap', heap, id, tag)
    BY <1>1, <1>2, <1>3, SetSeen DEF Ids
  <2> QED  BY <1>2, <2>1 DEF ShowsInstead
<1>5. /\ [NamesOf(heap) EXCEPT ![id] = heap[id].name] = NamesOf(heap)
      /\ [MapsOf(heap) EXCEPT ![id] = AsFunction(heap[id].map)] = MapsOf(heap)
  BY DEF NamesOf, MapsOf, Ids
<1> QED  BY <1>3, <1>4, <1>5

LEMMA SeenMap ==
  ASSUME Good(heap), NEW id \in Ids, NEW map \in SUBSET (Name \X (1 .. Len(heap))),
         Becomes(id, WithMap(id, map))
  PROVE  /\ returned' = TRUE
         /\ TypesOf(heap') = TypesOf(heap) /\ NamesOf(heap') = NamesOf(heap)
         /\ ListsOf(heap') = ListsOf(heap)
         /\ MapsOf(heap') = [MapsOf(heap) EXCEPT ![id] = AsFunction(map)]
<1> DEFINE tag == WithMap(id, map)
<1>1. heap \in Seq(Tag) /\ heap[id] \in Tag /\ map \in Map
  BY ElementOfSeq DEF Good, Ids, Map
<1>2. /\ tag \in Tag /\ tag.type = heap[id].type /\ tag.kids = heap[id].kids
      /\ tag.map = map /\ tag.name = heap[id].name
  BY <1>1 DEF Tag, WithMap
<1>3. heap' = [heap EXCEPT ![id] = tag] /\ returned' = TRUE
  BY DEF Becomes
<1> HIDE DEF tag
<1>4. /\ TypesOf(heap') = TypesOf(heap)
      /\ NamesOf(heap') = [NamesOf(heap) EXCEPT ![id] = heap[id].name]
      /\ ListsOf(heap') = [ListsOf(heap) EXCEPT ![id] = heap[id].kids]
      /\ MapsOf(heap') = [MapsOf(heap) EXCEPT ![id] = AsFunction(map)]
  <2>1. ShowsInstead(heap', heap, id, tag)
    BY <1>1, <1>2, <1>3, SetSeen DEF Ids
  <2> QED  BY <1>2, <2>1 DEF ShowsInstead
<1>5. /\ [NamesOf(heap) EXCEPT ![id] = heap[id].name] = NamesOf(heap)
      /\ [ListsOf(heap) EXCEPT ![id] = heap[id].kids] = ListsOf(heap)
  BY DEF NamesOf, ListsOf, Ids
<1> QED  BY <1>3, <1>4, <1>5

(* What the code asks of _child_type is what the children themselves say.   *)
LEMMA SeenFits ==
  ASSUME Good(heap), NEW id \in Ids, IsList(id), NEW tag \in Pointers
  PROVE  /\ Promises!Fits(id, tag) <=> Accepted(id, tag)
         /\ \A index \in Nat : index < count(id) =>
                (Promises!Fits(id, tag) <=> tag # Null /\ heap[tag].type = child_type(id))
<1> DEFINE kids == heap[id].kids
<1>1. kids \in Seq(OfType(heap, child_type(id))) /\ count(id) = Len(kids) /\ count(id) \in Nat
  BY ListFacts DEF count
<1>2. \A j \in 1 .. Len(kids) : kids[j] \in Ids /\ heap[kids[j]].type = child_type(id)
  <2> TAKE j \in 1 .. Len(kids)
  <2>1. kids[j] \in OfType(heap, child_type(id))
    BY <1>1, ElementOfSeq
  <2> QED  BY <2>1 DEF OfType, Ids
<1>3. DOMAIN kids = 1 .. Len(kids)
  BY <1>1
<1>4. tag # Null => tag \in Ids
  BY DEF Pointers
<1>5. Promises!Fits(id, tag)
        <=> tag # Null /\ \A j \in 1 .. Len(kids) : heap[kids[j]].type = heap[tag].type
  BY <1>2, <1>3, <1>4 DEF Promises!Fits, Promises!Null, Null
<1>6. Promises!Fits(id, tag)
        <=> tag # Null /\ (Len(kids) = 0 \/ child_type(id) = heap[tag].type)
  <2>1. Len(kids) \in Nat /\ (Len(kids) # 0 => 1 \in 1 .. Len(kids))
    BY <1>1
  <2> QED  BY <1>2, <1>5, <2>1
<1> QED  BY <1>1, <1>6 DEF Accepted

(* The list calls, each as the promise it keeps.                            *)

LEMMA KeepsSetChild ==
  ASSUME Good(heap), NEW id \in Ids, NEW index \in Nat, NEW tag \in Pointers,
         ListSetChild(id, index, tag)
  PROVE  Promises!SetChild(id, index, tag)
<1>1. IsList(id) /\ call' = <<"SetChild", id, index, tag>>
  BY DEF ListSetChild
<1>2. Settable(id, index, tag) <=> index < count(id) /\ Promises!Fits(id, tag)
  BY <1>1, SeenFits DEF Settable
<1>3. CASE ~Settable(id, index, tag)
  <2>1. Refuse
    BY <1>3 DEF ListSetChild
  <2> QED  BY <1>1, <1>2, <1>3, <2>1, SeenRefuse, Seen DEF Promises!SetChild
<1>4. CASE Settable(id, index, tag)
  <2> DEFINE kids == ReplaceAt(heap[id].kids, index + 1, tag)
  <2>1. tag \in OfType(heap, child_type(id))
    BY <1>4 DEF Settable, Pointers, Ids, OfType
  <2>2. index + 1 \in 1 .. Len(heap[id].kids)
    BY <1>1, <1>4, ListFacts DEF Settable, count
  <2>3. kids \in Seq(OfType(heap, child_type(id)))
    BY <1>1, <2>1, <2>2, ListFacts, ReplaceAtType
  <2>4. Promises!BecomesList(id, kids)
    <3> HIDE DEF kids
    <3>1. Becomes(id, WithKids(id, kids, child_type(id)))
      BY <1>4 DEF ListSetChild, kids
    <3>2. child_type(id) \in kTagEnd .. kTagIntArray
      BY <1>1, ListFacts
    <3> QED  BY <2>3, <3>1, <3>2, SeenList
      DEF Promises!BecomesList, TypesOf, NamesOf, ListsOf, MapsOf, Ids
  <2> QED  BY <1>1, <1>2, <1>4, <2>4, Seen
    DEF Promises!SetChild, Promises!BecomesList, Promises!ReplaceAt, ReplaceAt, Ids
<1> QED  BY <1>3, <1>4

LEMMA KeepsInsert ==
  ASSUME Good(heap), NEW id \in Ids, IsList(id), NEW index \in Nat, NEW tag \in Pointers,
         InsertBefore(id, index, tag)
  PROVE  Promises!InsertBefore(id, index, tag)
<1>1. Insertable(id, index, tag) <=> index <= count(id) /\ Promises!Fits(id, tag)
  BY SeenFits DEF Insertable
<1>2. CASE ~Insertable(id, index, tag)
  <2>1. Refuse
    BY <1>2 DEF InsertBefore
  <2> QED  BY <1>1, <1>2, <2>1, SeenRefuse, Seen DEF Promises!InsertBefore
<1>3. CASE Insertable(id, index, tag)
  <2> DEFINE t == heap[tag].type
             kids == InsertAt(heap[id].kids, index + 1, tag)
  <2>1. Accepted(id, tag) /\ index + 1 \in 1 .. Len(heap[id].kids) + 1
    BY <1>3, ListFacts DEF Insertable, count
  <2>2. kids \in Seq(OfType(heap, t)) /\ t \in kTagEnd .. kTagIntArray
    BY <2>1, TakesIn, InsertAtType
  <2>3. Promises!BecomesList(id, kids)
    <3> HIDE DEF kids
    <3>1. Becomes(id, WithKids(id, kids, t))
      BY <1>3 DEF InsertBefore, kids
    <3> QED  BY <2>2, <3>1, SeenList
      DEF Promises!BecomesList, TypesOf, NamesOf, ListsOf, MapsOf, Ids
  <2> QED  BY <1>1, <1>3, <2>3, Seen
    DEF Promises!InsertBefore, Promises!BecomesList, Promises!InsertAt, InsertAt, Ids
<1> QED  BY <1>2, <1>3

(* Appending a child is inserting it behind the last one. *)
LEMMA AppendIsInsert ==
  ASSUME NEW S, NEW s \in Seq(S), NEW e
  PROVE  Append(s, e) = InsertAt(s, Len(s) + 1, e)
<1>1. SubSeq(s, 1, Len(s) + 1 - 1) = s
  BY SubSeqFull
<1>2. SubSeq(s, Len(s) + 1, Len(s)) = << >>
  BY SubSeqEmpty
<1>3. Append(s, e) = s \o <<e>>
  BY AppendIsConcat
<1>4. s \o <<e>> \in Seq(S \cup {e})
  OBVIOUS
<1>5. (s \o <<e>>) \o << >> = s \o <<e>>
  BY <1>4, ConcatEmptySeq
<1> QED  BY <1>1, <1>2, <1>3, <1>5 DEF InsertAt

LEMMA KeepsPushBack ==
  ASSUME Good(heap), NEW id \in Ids, NEW tag \in Pointers, PushBack(id, tag)
  PROVE  Promises!PushBack(id, tag)
<1>1. IsList(id) /\ call' = <<"PushBack", id, tag>>
  BY DEF PushBack
<1>2. count(id) \in Nat /\ Promises!Count(id) = count(id)
  BY <1>1, ListFacts, Seen
<1>3. Accepted(id, tag) <=> Promises!Fits(id, tag)
  BY <1>1, SeenFits
<1>4. CASE ~Accepted(id, tag)
  <2>1. Refuse
    BY <1>4 DEF PushBack
  <2> QED
    BY <1>1, <1>2, <1>3, <1>4, <2>1, SeenRefuse DEF Promises!PushBack, Promises!InsertBefore
<1>5. CASE Accepted(id, tag)
  <2> DEFINE t == heap[tag].type
             kids == Append(heap[id].kids, tag)
  <2>1. kids \in Seq(OfType(heap, t)) /\ t \in kTagEnd .. kTagIntArray
    BY <1>1, <1>5, TakesIn, AppendProperties
  <2>2. kids = InsertAt(heap[id].kids, count(id) + 1, tag)
    BY <1>1, ListFacts, AppendIsInsert DEF count
  <2>3. Promises!BecomesList(id, kids)
    <3> HIDE DEF kids
    <3>1. Becomes(id, WithKids(id, kids, t))
      BY <1>5 DEF PushBack, kids
    <3> QED  BY <2>1, <3>1, SeenList
      DEF Promises!BecomesList, TypesOf, NamesOf, ListsOf, MapsOf, Ids
  <2> HIDE DEF kids
  <2>4. count(id) <= count(id)
    BY <1>2
  <2> QED
    BY <1>1, <1>2, <1>3, <1>5, <2>2, <2>3, <2>4
    DEF Promises!PushBack, Promises!InsertBefore, Promises!BecomesList, Promises!InsertAt,
        InsertAt, Ids
<1> QED  BY <1>4, <1>5

(* Whatever child type a list has after it, taking out one child keeps the  *)
(* promise to take out that one.                                            *)
LEMMA KeepsTakingOut ==
  ASSUME Good(heap), NEW id \in Ids, IsList(id), NEW ct \in {child_type(id), TypeAfterLoss(id)},
         NEW index \in Nat, index < count(id),
         Becomes(id, WithKids(id, RemoveAt(heap[id].kids, index + 1), ct))
  PROVE  Promises!EraseAt(id, index)
<1> DEFINE kids == RemoveAt(heap[id].kids, index + 1)
<1>1. child_type(id) \in kTagEnd .. kTagIntArray /\ count(id) \in Nat
  BY ListFacts
<1>2. index + 1 \in 1 .. Len(heap[id].kids)
  BY <1>1 DEF count
<1>3. kids \in Seq(OfType(heap, child_type(id))) /\ Len(kids) = count(id) - 1
  BY <1>2, ListFacts, RemoveAtType DEF count
<1>4. ct \in kTagEnd .. kTagIntArray /\ kids \in Seq(OfType(heap, ct))
  <2>1. CASE ct = child_type(id)
    BY <1>1, <1>3, <2>1
  <2>2. CASE ct # child_type(id)
    <3>1. count(id) = 1 /\ ct = kTagEnd /\ ct \in kTagEnd .. kTagIntArray
      BY <2>2 DEF TypeAfterLoss, kTagEnd, kTagIntArray
    <3>2. Len(kids) = 0
      BY <1>3, <3>1
    <3> QED  BY <1>3, <3>1, <3>2, SeqOfNone
  <2> QED  BY <2>1, <2>2
<1>5. Promises!BecomesList(id, kids)
  <2> HIDE DEF kids
  <2> Becomes(id, WithKids(id, kids, ct))
    BY DEF kids
  <2> QED  BY <1>4, SeenList DEF Promises!BecomesList, TypesOf, NamesOf, ListsOf, MapsOf, Ids
<1> QED  BY <1>5, Seen DEF Promises!EraseAt, Promises!BecomesList, Promises!RemoveAt, RemoveAt, Ids

LEMMA FrontIsRemove ==
  ASSUME NEW S, NEW s \in Seq(S), Len(s) > 0
  PROVE  Front(s) = RemoveAt(s, Len(s))
<1>1. SubSeq(s, Len(s) + 1, Len(s)) = << >>
  BY SubSeqEmpty
<1>2. SubSeq(s, 1, Len(s) - 1) \in Seq(S)
  BY FrontType DEF Front
<1> QED  BY <1>1, <1>2, ConcatEmptySeq DEF Front, RemoveAt

LEMMA TailIsRemove ==
  ASSUME NEW S, NEW s \in Seq(S), Len(s) > 0
  PROVE  Tail(s) = RemoveAt(s, 1)
<1>1. SubSeq(s, 1, 1 - 1) = << >>
  BY SubSeqEmpty
<1>2. Tail(s) = SubSeq(s, 2, Len(s)) /\ Tail(s) \in Seq(S)
  BY TailIsSubSeq, TailType
<1> QED  BY <1>1, <1>2, ConcatEmptySeq DEF RemoveAt

LEMMA KeepsErase ==
  ASSUME Good(heap), NEW id \in Ids, NEW index \in Nat,
         ListEraseChild(id, index) \/ EraseListValue(id, index)
  PROVE  Promises!EraseChild(id, index)
<1>1. IsList(id) /\ call' = <<"EraseChild", id, index>>
  BY DEF ListEraseChild, EraseListValue
<1>2. CASE index >= count(id) /\ Refuse
  BY <1>1, <1>2, Seen, SeenRefuse DEF Promises!EraseChild, Promises!EraseAt
<1>3. CASE index < count(id) /\ EraseListValue(id, index)
  BY <1>1, <1>3, KeepsTakingOut DEF EraseListValue, Promises!EraseChild
<1>4. CASE index < count(id) /\ EraseAt(id, index)
  <2>1. count(id) \in Nat
    BY <1>1, ListFacts
  <2>2. Becomes(id, WithKids(id, RemoveAt(heap[id].kids, index + 1), TypeAfterLoss(id)))
    BY <1>4, <2>1 DEF EraseAt
  <2> QED  BY <1>1, <1>4, <2>2, KeepsTakingOut DEF Promises!EraseChild
<1> QED  BY <1>2, <1>3, <1>4 DEF ListEraseChild, EraseListValue, EraseAt

LEMMA KeepsShift ==
  ASSUME Good(heap), NEW id \in Ids, ShiftListValue(id)
  PROVE  Promises!EraseChild(id, 0)
<1>1. IsList(id) /\ call' = <<"EraseChild", id, 0>>
  BY DEF ShiftListValue
<1>2. count(id) = Len(heap[id].kids) /\ count(id) \in Nat
  BY <1>1, ListFacts DEF count
<1>3. CASE count(id) = 0
  <2>1. Refuse /\ 0 >= count(id)
    BY <1>2, <1>3 DEF ShiftListValue
  <2> QED  BY <1>1, <2>1, Seen, SeenRefuse DEF Promises!EraseChild, Promises!EraseAt
<1>4. CASE count(id) > 0
  <2>1. Becomes(id, WithKids(id, Tail(heap[id].kids), child_type(id)))
    BY <1>2, <1>4 DEF ShiftListValue
  <2>2. Tail(heap[id].kids) = RemoveAt(heap[id].kids, 0 + 1)
    <3>1. Tail(heap[id].kids) = RemoveAt(heap[id].kids, 1)
      BY <1>1, <1>2, <1>4, ListFacts, TailIsRemove
    <3>2. 0 + 1 = 1
      OBVIOUS
    <3> QED  BY <3>1, <3>2
  <2>3. Becomes(id, WithKids(id, RemoveAt(heap[id].kids, 0 + 1), child_type(id)))
    BY <2>1, <2>2 DEF Becomes, WithKids
  <2> QED  BY <1>1, <1>4, <2>3, KeepsTakingOut DEF Promises!EraseChild
<1> QED  BY <1>2, <1>3, <1>4

LEMMA KeepsPopBack ==
  ASSUME Good(heap), NEW id \in Ids, PopBack(id) \/ PopListValue(id)
  PROVE  Promises!PopBack(id)
<1>1. IsList(id) /\ call' = <<"PopBack", id>>
  BY DEF PopBack, PopListValue
<1>2. /\ count(id) = Len(heap[id].kids) /\ count(id) \in Nat
      /\ Promises!Count(id) = count(id)
  BY <1>1, ListFacts, Seen DEF count
<1>3. CASE count(id) = 0
  <2>1. Refuse
    BY <1>2, <1>3 DEF PopBack, PopListValue
  <2> QED  BY <1>1, <1>2, <1>3, <2>1, SeenRefuse DEF Promises!PopBack
<1>4. CASE count(id) > 0
  <2> DEFINE last == count(id) - 1
  <2>1. last \in Nat /\ last < count(id) /\ last + 1 = Len(heap[id].kids)
    BY <1>2, <1>4
  <2>2. Front(heap[id].kids) = RemoveAt(heap[id].kids, last + 1)
    BY <1>1, <1>2, <1>4, <2>1, ListFacts, FrontIsRemove
  <2>3. PICK ct \in {child_type(id), TypeAfterLoss(id)} :
          Becomes(id, WithKids(id, Front(heap[id].kids), ct))
    BY <1>2, <1>4 DEF PopBack, PopListValue
  <2>4. Becomes(id, WithKids(id, RemoveAt(heap[id].kids, last + 1), ct))
    BY <2>2, <2>3 DEF Becomes, WithKids
  <2>5. Promises!EraseAt(id, last)
    <3> \A i \in Nat : i = last => Promises!EraseAt(id, i)
      BY <1>1, <2>1, <2>4, KeepsTakingOut
    <3> QED  BY <2>1 DEF Promises!EraseAt, Promises!BecomesList
  <2> QED  BY <1>1, <1>2, <1>4, <2>5 DEF Promises!PopBack, Promises!EraseAt, Promises!BecomesList
<1> QED  BY <1>2, <1>3, <1>4

LEMMA KeepsClear ==
  ASSUME Good(heap), NEW id \in Ids, ListClear(id) \/ ClearListValue(id)
  PROVE  Promises!Clear(id)
<1>1. IsList(id) /\ call' = <<"Clear", id>>
  BY DEF ListClear, ClearListValue
<1>2. PICK ct \in kTagEnd .. kTagIntArray : Becomes(id, WithKids(id, << >>, ct))
  BY <1>1, ListFacts DEF ListClear, ClearListValue, kTagEnd, kTagIntArray
<1>3. << >> \in Seq(OfType(heap, ct))
  OBVIOUS
<1> QED
  BY <1>1, <1>2, <1>3, SeenList
  DEF Promises!Clear, Promises!BecomesList, TypesOf, NamesOf, ListsOf, MapsOf, Ids

(* The compound calls.                                                      *)

LEMMA KeepsSetKey ==
  ASSUME Good(heap), NEW id \in Ids, NEW key \in Keys, NEW tag \in Pointers,
         NEW overwrite \in BOOLEAN, SetToCompound(id, key, tag, overwrite)
  PROVE  Promises!SetKey(id, key, tag, overwrite)
<1> DEFINE map == Put(heap[id].map, key, tag)
           one == [heap[id] EXCEPT !.map = map]
           h == [heap EXCEPT ![id] = one]
           two == [h[tag] EXCEPT !.name = key]
           Taken == tag # Null /\ (overwrite \/ key \notin KeysOf(heap[id].map))
<1>1. call' = <<"SetKey", id, key, tag, overwrite>>
  BY DEF SetToCompound
<1>2. DOMAIN MapsOf(heap)[id] = KeysOf(heap[id].map)
  BY DEF MapsOf, AsFunction, Ids
<1>3. CASE ~Taken
  <2>1. Refuse
    BY <1>3 DEF SetToCompound
  <2> QED
    BY <1>1, <1>2, <1>3, <2>1, SeenRefuse DEF Promises!SetKey, Promises!Null, Null, MapsOf, Ids
<1>4. CASE Taken
  <2>1. tag \in 1 .. Len(heap) /\ id \in 1 .. Len(heap) /\ key \in Name /\ heap \in Seq(Tag)
    BY <1>4, KeysAssumption DEF Pointers, Ids, Good
  <2>2. heap[id] \in Tag /\ map \in Map
    <3>1. map \in SUBSET (Name \X (1 .. Len(heap)))
      BY <2>1, MapFacts, PutType
    <3> QED  BY <2>1, <3>1, ElementOfSeq DEF Map
  <2>3. /\ one \in Tag /\ one.type = heap[id].type /\ one.kids = heap[id].kids
        /\ one.map = map /\ one.name = heap[id].name
    <3> HIDE DEF map
    <3> QED  BY <2>2 DEF Tag
  <2>4. h \in Seq(Tag) /\ Len(h) = Len(heap) /\ h[tag] \in Tag
    <3> HIDE DEF one
    <3> QED  BY <2>1, <2>3, ExceptSeq, ElementOfSeq
  <2>5. /\ two \in Tag /\ two.type = h[tag].type /\ two.kids = h[tag].kids
        /\ two.map = h[tag].map /\ two.name = key
    <3> HIDE DEF h
    <3> QED  BY <2>1, <2>4 DEF Tag
  <2>6. heap' = [h EXCEPT ![tag] = two] /\ returned' = TRUE
    <3>1. heap' = [heap EXCEPT ![id].map = Put(@, key, tag), ![tag].name = key]
      BY <1>4 DEF SetToCompound, Refuse
    <3>2. returned' = TRUE
      BY <1>4 DEF SetToCompound, Refuse
    <3> QED  BY <3>1, <3>2
  <2>7. /\ TypesOf(h) = TypesOf(heap)
        /\ NamesOf(h) = [NamesOf(heap) EXCEPT ![id] = heap[id].name]
        /\ ListsOf(h) = [ListsOf(heap) EXCEPT ![id] = heap[id].kids]
        /\ MapsOf(h) = [MapsOf(heap) EXCEPT ![id] = AsFunction(map)]
    <3>1. ShowsInstead(h, heap, id, one)
      <4> HIDE DEF one
      <4> QED  BY <2>1, <2>3, SetSeen
    <3> HIDE DEF one, h, map
    <3> QED  BY <2>3, <3>1 DEF ShowsInstead
  <2>8. /\ TypesOf(heap') = TypesOf(h)
        /\ NamesOf(heap') = [NamesOf(h) EXCEPT ![tag] = key]
        /\ ListsOf(heap') = [ListsOf(h) EXCEPT ![tag] = h[tag].kids]
        /\ MapsOf(heap') = [MapsOf(h) EXCEPT ![tag] = AsFunction(h[tag].map)]
    <3> HIDE DEF two, h
    <3>1. ShowsInstead(heap', h, tag, two)
      BY <2>1, <2>4, <2>5, <2>6, SetSeen
    <3> QED  BY <2>5, <3>1 DEF ShowsInstead
  <2>9. /\ [NamesOf(heap) EXCEPT ![id] = heap[id].name] = NamesOf(heap)
        /\ [ListsOf(heap) EXCEPT ![id] = heap[id].kids] = ListsOf(heap)
        /\ [ListsOf(h) EXCEPT ![tag] = h[tag].kids] = ListsOf(h)
        /\ [MapsOf(h) EXCEPT ![tag] = AsFunction(h[tag].map)] = MapsOf(h)
    <3> HIDE DEF h
    <3> QED  BY <2>1, <2>4 DEF NamesOf, ListsOf, MapsOf
  <2>10. /\ TypesOf(heap') = TypesOf(heap) /\ ListsOf(heap') = ListsOf(heap)
         /\ NamesOf(heap') = [NamesOf(heap) EXCEPT ![tag] = key]
         /\ MapsOf(heap') = [MapsOf(heap) EXCEPT ![id] = AsFunction(map)]
    <3> HIDE DEF h, map
    <3> QED  BY <2>7, <2>8, <2>9
  <2>11. AsFunction(map) = WithEntry(AsFunction(heap[id].map), key, tag)
    BY PutSeen
  <2>12. MapsOf(heap)[id] = AsFunction(heap[id].map)
    BY DEF MapsOf, Ids
  <2> HIDE DEF h, map, one, two
  <2> QED
    BY <1>1, <1>2, <1>4, <2>6, <2>10, <2>11, <2>12
    DEF Promises!SetKey, Promises!BecomesMap, Promises!Null, Null, WithEntry,
        TypesOf, NamesOf, ListsOf, MapsOf, Ids
<1> QED  BY <1>3, <1>4

LEMMA KeepsEraseKey ==
  ASSUME Good(heap), NEW id \in Ids, NEW key \in Keys, CompoundEraseChild(id, key)
  PROVE  Promises!EraseKey(id, key)
<1>1. call' = <<"EraseKey", id, key>>
  BY DEF CompoundEraseChild
<1>2. /\ MapsOf(heap)[id] = AsFunction(heap[id].map)
      /\ DOMAIN MapsOf(heap)[id] = KeysOf(heap[id].map)
  BY DEF MapsOf, AsFunction, Ids
<1>3. CASE key \notin KeysOf(heap[id].map)
  <2>1. Refuse
    BY <1>3 DEF CompoundEraseChild
  <2> QED  BY <1>1, <1>2, <1>3, <2>1, SeenRefuse DEF Promises!EraseKey, MapsOf, Ids
<1>4. CASE key \in KeysOf(heap[id].map)
  <2> DEFINE map == Drop(heap[id].map, key)
  <2>1. map \in SUBSET (Name \X (1 .. Len(heap)))
    BY MapFacts DEF Drop, Ids
  <2>2. Becomes(id, WithMap(id, map))
    BY <1>4 DEF CompoundEraseChild
  <2>3. AsFunction(map) = [k \in KeysOf(heap[id].map) \ {key} |-> AsFunction(heap[id].map)[k]]
    BY DropSeen
  <2> HIDE DEF map
  <2>4. /\ returned' = TRUE /\ NamesOf(heap') = NamesOf(heap)
        /\ TypesOf(heap') = TypesOf(heap) /\ ListsOf(heap') = ListsOf(heap)
        /\ MapsOf(heap') = [MapsOf(heap) EXCEPT ![id] = AsFunction(map)]
    BY <2>1, <2>2, SeenMap
  <2> QED
    BY <1>1, <1>2, <1>4, <2>3, <2>4
    DEF Promises!EraseKey, Promises!BecomesMap, TypesOf, NamesOf, ListsOf, MapsOf, Ids
<1> QED  BY <1>3, <1>4

LEMMA KeepsClearKeys ==
  ASSUME Good(heap), NEW id \in Ids, CompoundClear(id)
  PROVE  Promises!ClearKeys(id)
<1>1. call' = <<"ClearKeys", id>> /\ Becomes(id, WithMap(id, {}))
  BY DEF CompoundClear
<1>2. AsFunction({}) = << >>
  BY DEF AsFunction, KeysOf
<1>3. {} \in SUBSET (Name \X (1 .. Len(heap)))
  OBVIOUS
<1>4. /\ returned' = TRUE /\ NamesOf(heap') = NamesOf(heap)
      /\ TypesOf(heap') = TypesOf(heap) /\ ListsOf(heap') = ListsOf(heap)
      /\ MapsOf(heap') = [MapsOf(heap) EXCEPT ![id] = AsFunction({})]
  BY <1>1, <1>3, SeenMap
<1> QED
  BY <1>1, <1>2, <1>4
  DEF Promises!ClearKeys, Promises!BecomesMap, TypesOf, NamesOf, ListsOf, MapsOf, Ids

(* The calls that make tags, and those that no promise is about.            *)

LEMMA KeepsMake ==
  ASSUME Good(heap), NEW t \in Types, Make(t) \/ MakeTypedList(t)
  PROVE  Promises!Make
<1>1. t \in TagTypes /\ kTagList \in TagTypes
  BY TypesAssumption DEF TagTypes, kTagByte, kTagIntArray, kTagList
<1>2. PICK tag \in Tag :
        /\ tag.type \in Types /\ tag.name = << >> /\ tag.kids = << >> /\ tag.map = {}
        /\ heap' = Append(heap, tag)
  <2>1. CASE Make(t)
    <3>1. NewTag(t) \in Tag /\ NewTag(t).type = t
      BY <1>1, NewTagType
    <3>2. NewTag(t).name = << >> /\ NewTag(t).kids = << >> /\ NewTag(t).map = {}
      BY DEF NewTag
    <3> QED  BY <2>1, <3>1, <3>2 DEF Make
  <2>2. CASE MakeTypedList(t)
    <3> DEFINE tag == [NewTag(kTagList) EXCEPT !.ctype = t]
    <3>1. NewTag(kTagList) \in Tag /\ NewTag(kTagList).type = kTagList
      BY <1>1, NewTagType
    <3>2. /\ NewTag(kTagList).name = << >>
          /\ NewTag(kTagList).kids = << >> /\ NewTag(kTagList).map = {}
      BY DEF NewTag
    <3>3. t \in kTagEnd .. kTagIntArray
      BY <1>1 DEF TagTypes, kTagByte, kTagEnd, kTagIntArray
    <3>4. /\ tag \in Tag /\ tag.type = kTagList
          /\ tag.name = << >> /\ tag.kids = << >> /\ tag.map = {}
      <4> HIDE DEF kTagIntArray
      <4> QED  BY <3>1, <3>2, <3>3 DEF Tag
    <3> QED  BY <2>2, <3>4 DEF MakeTypedList
  <2> QED  BY <2>1, <2>2
<1>3. /\ TypesOf(heap') = Append(TypesOf(heap), tag.type)
      /\ NamesOf(heap') = Append(NamesOf(heap), << >>)
      /\ ListsOf(heap') = Append(ListsOf(heap), << >>)
      /\ MapsOf(heap') = Append(MapsOf(heap), << >>)
  BY <1>2, AddSeen DEF Good
<1>4. call' = <<"Make">> /\ returned' = TRUE
  BY DEF Make, MakeTypedList
<1> QED  BY <1>2, <1>3, <1>4 DEF Promises!Make, TypesOf, NamesOf, ListsOf, MapsOf, Ids

LEMMA KeepsElsewhere ==
  ASSUME RootCall
  PROVE  Promises!Elsewhere
<1>1. UNCHANGED heap
  BY DEF RootCall, GetFromRoot, RemoveFromRoot, AddToRoot, Refuse
<1>2. call'[1] \in {"GetFromRoot", "RemoveFromRoot", "AddToRoot"}
  BY DEF RootCall, GetFromRoot, RemoveFromRoot, AddToRoot
<1>3. call'[1] \notin Promises!Calls
  BY <1>2 DEF Promises!Calls
<1> QED  BY <1>1, <1>3 DEF Promises!Elsewhere, Ids

LEMMA KeepsSetName ==
  ASSUME Good(heap), NEW id \in Ids, NEW name \in Keys, SetName(id, name)
  PROVE  Promises!SetName(id, name)
<1> DEFINE tag == [heap[id] EXCEPT !.name = name]
<1>1. heap \in Seq(Tag) /\ heap[id] \in Tag /\ name \in Name
  BY ElementOfSeq, KeysAssumption DEF Good, Ids
<1>2. /\ tag \in Tag /\ tag.type = heap[id].type /\ tag.kids = heap[id].kids
      /\ tag.map = heap[id].map /\ tag.name = name
  BY <1>1 DEF Tag
<1>3. heap' = [heap EXCEPT ![id] = tag] /\ call' = <<"set_name", id, name>> /\ returned' = TRUE
  BY DEF SetName, Becomes
<1> HIDE DEF tag
<1>4. /\ TypesOf(heap') = TypesOf(heap)
      /\ NamesOf(heap') = [NamesOf(heap) EXCEPT ![id] = name]
      /\ ListsOf(heap') = [ListsOf(heap) EXCEPT ![id] = heap[id].kids]
      /\ MapsOf(heap') = [MapsOf(heap) EXCEPT ![id] = AsFunction(heap[id].map)]
  <2>1. ShowsInstead(heap', heap, id, tag)
    BY <1>1, <1>2, <1>3, SetSeen DEF Ids
  <2> QED  BY <1>2, <2>1 DEF ShowsInstead
<1>5. /\ [ListsOf(heap) EXCEPT ![id] = heap[id].kids] = ListsOf(heap)
      /\ [MapsOf(heap) EXCEPT ![id] = AsFunction(heap[id].map)] = MapsOf(heap)
  BY DEF ListsOf, MapsOf, Ids
<1> QED
  BY <1>3, <1>4, <1>5 DEF Promises!SetName, TypesOf, NamesOf, ListsOf, MapsOf, Ids

LEMMA KeepsListCall ==
  ASSUME Good(heap), NEW id \in Ids, ListCall(id)
  PROVE  Promises!Next
<1>1. Indices \subseteq Nat /\ 0 \in Nat /\ 0 \in Indices
  BY BoundsAssumption DEF Indices
<1>2. Promises!Tags = Ids /\ Promises!Tags \cup {Promises!Null} = Pointers
  BY Seen DEF Promises!Null, Null, Pointers
<1>3. CASE ListClear(id) \/ ClearListValue(id)
  BY <1>2, <1>3, KeepsClear DEF Promises!Next
<1>4. CASE PopBack(id) \/ PopListValue(id)
  BY <1>2, <1>4, KeepsPopBack DEF Promises!Next
<1>5. CASE ShiftListValue(id)
  BY <1>1, <1>2, <1>5, KeepsShift DEF Promises!Next
<1>6. CASE PopFront(id)
  BY <1>1, <1>2, <1>6, KeepsErase DEF PopFront, Promises!Next
<1>7. CASE \E index \in Indices : ListEraseChild(id, index) \/ EraseListValue(id, index)
  BY <1>1, <1>2, <1>7, KeepsErase DEF Promises!Next
<1>8. CASE \E tag \in Pointers : PushBack(id, tag)
  BY <1>2, <1>8, KeepsPushBack DEF Promises!Next
<1>9. CASE \E tag \in Pointers : PushFront(id, tag)
  <2>1. PICK tag \in Pointers : ListInsert(id, 0, tag)
    BY <1>9 DEF PushFront
  <2>2. Promises!Insert(id, 0, tag)
    BY <1>1, <2>1, KeepsInsert DEF ListInsert, Promises!Insert
  <2> QED  BY <1>1, <1>2, <2>2 DEF Promises!Next
<1>10. CASE \E tag \in Pointers, index \in Indices : ListSetChild(id, index, tag)
  BY <1>1, <1>2, <1>10, KeepsSetChild DEF Promises!Next
<1>11. CASE \E tag \in Pointers, index \in Indices : ListInsert(id, index, tag)
  <2>1. PICK tag \in Pointers, index \in Indices : ListInsert(id, index, tag)
    BY <1>11
  <2>2. Promises!Insert(id, index, tag)
    BY <1>1, <2>1, KeepsInsert DEF ListInsert, Promises!Insert
  <2> QED  BY <1>2, <2>2 DEF Promises!Next
<1> QED
  BY <1>3, <1>4, <1>5, <1>6, <1>7, <1>8, <1>9, <1>10, <1>11 DEF ListCall

LEMMA KeepsCompoundCall ==
  ASSUME Good(heap), NEW id \in Ids, CompoundCall(id)
  PROVE  Promises!Next
<1>1. Promises!Tags = Ids /\ Promises!Tags \cup {Promises!Null} = Pointers
  BY Seen DEF Promises!Null, Null, Pointers
<1>2. CASE CompoundClear(id)
  BY <1>1, <1>2, KeepsClearKeys DEF Promises!Next
<1>3. CASE \E key \in Keys : CompoundEraseChild(id, key)
  BY <1>1, <1>3, KeepsEraseKey DEF Promises!Next
<1>4. CASE \E key \in Keys, tag \in Pointers, overwrite \in BOOLEAN :
             SetToCompound(id, key, tag, overwrite)
  BY <1>1, <1>4, KeepsSetKey DEF Promises!Next
<1> QED  BY <1>2, <1>3, <1>4 DEF CompoundCall

(* A list takes a tag exactly when it has the type of the children that are *)
(* there, though the code compares it with _child_type only; a compound is  *)
(* a function from names to tags; and a call that is refused changes        *)
(* nothing.                                                                 *)
THEOREM Refinement == Spec => KeepsPromises
<1>1. Init => Promises!Init
  <2> SUFFICES ASSUME Init PROVE Promises!Init
    OBVIOUS
  <2>1. Ids = {}
    BY DEF Init, Ids
  <2> QED  BY <2>1 DEF Init, Promises!Init
<1>2. IInv /\ [Next]_vars => [Promises!Next]_(Promises!vars)
  <2> SUFFICES ASSUME IInv, [Next]_vars PROVE [Promises!Next]_(Promises!vars)
    OBVIOUS
  <2> Good(heap)
    BY DEF IInv
  <2>1. CASE \E t \in Types : Make(t) \/ MakeTypedList(t)
    BY <2>1, KeepsMake DEF Promises!Next
  <2>2. CASE \E id \in Ids : ListCall(id)
    BY <2>2, KeepsListCall
  <2>3. CASE \E id \in Ids : CompoundCall(id)
    BY <2>3, KeepsCompoundCall
  <2>4. CASE RootCall
    BY <2>4, KeepsElsewhere DEF Promises!Next
  <2>5. CASE \E id \in Ids, name \in Keys : SetName(id, name)
    BY <2>5, KeepsSetName, Seen DEF Promises!Next
  <2>6. CASE UNCHANGED vars
    BY <2>6 DEF vars, Promises!vars, Ids
  <2> QED  BY <2>1, <2>2, <2>3, <2>4, <2>5, <2>6 DEF Next
<1> QED  BY <1>1, <1>2, Invariance, PTL DEF Spec, KeepsPromises, Promises!Spec

=============================================================================
