---------------------------- MODULE MCTagReader ----------------------------
(***************************************************************************)
(* Buffers for the reader.                                                 *)
(***************************************************************************)
EXTENDS TagReaderFormat

a == 97

(* Whole tags and parts of tags.  No byte in them is large enough to make a *)
(* 32-bit length that TLC's integers cannot hold.                           *)
Pieces ==
  {<<kTagEnd>>,
   <<kTagByte, 0, 1, a, 5>>,              \* Byte a = 5
   <<kTagShort, 0, 0, 1, 2>>,             \* Short = 258
   <<kTagString, 0, 1, a, 0, 2, 7, 7>>,   \* String a, two characters
   <<kTagIntArray, 0, 0, 0, 0, 0, 1>>,    \* IntArray, one element to come
   <<kTagCompound, 0, 1, a>>,             \* Compound a
   <<kTagList, 0, 0>>,                    \* List, payload to come
   <<kTagByte, 0, 0, 0, 2>>,              \* list payload: two Bytes to come
   <<kTagList, 0, 0, 0, 2>>,              \*   two Lists
   <<kTagCompound, 0, 0, 0, 1>>,          \*   one Compound
   <<kTagEnd, 0, 0, 0, 1>>,               \*   none
   <<kTagMax, 0>>}                        \* no type has this number

Joined(A, B) == {x \o y : x \in A, y \in B}
Cut(S)       == UNION {{SubSeq(b, 1, k) : k \in 0 .. Len(b)} : b \in S}

(* Up to two pieces and a third one that may be cut short; four pieces. *)
WideBuffers ==
  LET two == Joined(Pieces, Pieces)
  IN Joined({<< >>} \cup Pieces \cup two, Cut(Pieces)) \cup Joined(two, two)

-----------------------------------------------------------------------------
(* Encodings of documents: payloads of each type, nested to a depth.        *)

Header(t, name) == <<t>> \o U16(Len(name)) \o name
Names == {<< >>, <<a>>}

Payloads(t, below) ==
  CASE t = kTagByte      -> {<<5>>}
    [] t = kTagLong      -> {<<0, 1, 2, 3, 4, 5, 6, 7>>}
    [] t = kTagByteArray -> {U32(0), U32(2) \o <<0, 9>>}
    [] t = kTagIntArray  -> {U32(1) \o <<0, 0, 1, 0>>}
    [] t = kTagString    -> {U16(0), U16(1) \o <<a>>}
    [] t = kTagList      ->
         {<<kTagEnd>> \o U32(1), <<kTagString>> \o U32(0)} \cup
         UNION {Joined({<<u>> \o U32(1)}, below[u])
                  \cup Joined({<<u>> \o U32(2)}, Joined(below[u], below[u]))
                : u \in DOMAIN below}
    [] t = kTagCompound  ->
         LET members == UNION {Joined({Header(u, n) : n \in Names}, below[u])
                               : u \in DOMAIN below}
         IN {<<kTagEnd>>} \cup Joined(members, {<<kTagEnd>>})

Leaves == {kTagByte, kTagLong, kTagByteArray, kTagIntArray, kTagString}
Nested == {kTagByte, kTagString, kTagList, kTagCompound}

Depth0 == [t \in {} |-> {}]
Depth1 == [t \in Nested |-> Payloads(t, Depth0)]
Depth2 == [t \in Nested |-> Payloads(t, Depth1)]

Encodings(t, below) == Joined({Header(t, <<a>>)}, Payloads(t, below))

(* Documents of one deep tag, and of two flat ones. *)
WellFormed ==
  LET deep == UNION {Encodings(t, Depth2) : t \in Nested}
      flat == UNION {Encodings(t, Depth1) : t \in Leaves \cup {kTagCompound}}
  IN deep \cup Joined(flat, flat)

-----------------------------------------------------------------------------
(* The parse of a buffer: where a payload that starts at an offset ends.    *)
(* No length that takes more than its last two bytes fits into a buffer.    *)

None == -1
Short(b, from) == At(b, from) = 0 /\ At(b, from + 1) = 0

RECURSIVE PayloadEnd(_, _, _), ElementsEnd(_, _, _, _)

(* The end of the tag that starts at an offset. *)
TagEnd(b, from) ==
  IF from + 3 <= Len(b) /\ At(b, from) \in TagTypes
  THEN PayloadEnd(b, At(b, from), from + 3 + U16At(b, from + 1))
  ELSE None

PayloadEnd(b, type, from) ==
  LET Fits(to) == IF to <= Len(b) THEN to ELSE None
      After(to) == IF to = None THEN None ELSE PayloadEnd(b, type, to)
  IN CASE from + 1 > Len(b)       -> None
       [] type \in ScalarTypes    -> Fits(from + ScalarSize(type))
       [] type = kTagCompound     ->
            IF At(b, from) = kTagEnd THEN from + 1 ELSE After(TagEnd(b, from))
       [] from + 2 > Len(b)       -> None
       [] type = kTagString       -> Fits(from + 2 + U16At(b, from))
       [] from + 4 > Len(b)       -> None
       [] type \in ArrayTypes     ->
            IF Short(b, from) THEN Fits(from + 4 + U32At(b, from) * ElementSize(type))
                              ELSE None
       [] from + 5 > Len(b)       -> None
       [] type = kTagList         ->
            LET elements == At(b, from)
                n == IF Short(b, from + 1) THEN U32At(b, from + 1) ELSE None
            IN IF elements = kTagEnd /\ n = 1 THEN from + 5
               ELSE IF elements \in TagTypes /\ n \in 0 .. MaxList
               THEN ElementsEnd(b, elements, n, from + 5)
               ELSE None

ElementsEnd(b, type, n, from) ==
  IF n = 0 \/ from = None THEN from
  ELSE ElementsEnd(b, type, n - 1, PayloadEnd(b, type, from))

Parsed(b) ==
  LET payloads == {<<t, from, PayloadEnd(b, t, from)>> :
                     t \in TagTypes, from \in Offsets(b)}
      elements == {<<t, n, from, ElementsEnd(b, t, n, from)>> :
                     t \in TagTypes, n \in 0 .. MaxList, from \in Offsets(b)}
      tags[from \in Offsets(b)] ==
        from = Len(b) \/ LET to == TagEnd(b, from) IN to # None /\ tags[to]
  IN [payloads |-> {e \in payloads : e[3] # None},
      elements |-> {e \in elements : e[4] # None},
      tags     |-> {from \in Offsets(b) : tags[from]}]

-----------------------------------------------------------------------------
(* A compound of a list of compounds, a name that comes twice, an array and *)
(* a string, a list of lists one of which has no type; and what is left of  *)
(* them when they are cut short.                                            *)
FewBuffers ==
  Cut({<<kTagCompound, 0, 1, a, kTagList, 0, 0, kTagCompound, 0, 0, 0, 1,
         kTagByte, 0, 0, 5, kTagEnd, kTagEnd>>,
       <<kTagByte, 0, 1, a, 5, kTagCompound, 0, 1, a, kTagEnd>>,
       <<kTagIntArray, 0, 0, 0, 0, 0, 1, 0, 0, 1, 0,
         kTagString, 0, 1, a, 0, 2, 7, 7>>,
       <<kTagList, 0, 0, kTagList, 0, 0, 0, 2,
         kTagEnd, 0, 0, 0, 1, kTagString, 0, 0, 0, 1, 0, 1, a>>})

(* A document ends in a tag whose name is one byte longer than the rest of  *)
(* the buffer.                                                              *)
LongName == {<<kTagByte, 0, 0, 5, kTagByte, 0, 1>>, <<kTagCompound, 0, 1>>}

=============================================================================
