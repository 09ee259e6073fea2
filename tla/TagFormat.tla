----------------------------- MODULE TagFormat -----------------------------
(***************************************************************************)
(* The NBT format as a function of the tags: the bytes that stand for the  *)
(* tags of a heap.  It says what a reader and a writer have to agree on,   *)
(* and is written without an offset, a buffer or a bound check.            *)
(*                                                                         *)
(* The tags of a compound have no order in the format.  A reader meets     *)
(* them as they come, and makes its tags in that order; a writer takes     *)
(* them in the order of std::map.  `Before` is the order to use.           *)
(***************************************************************************)
EXTENDS TagHeap, SequencesExt

U16(n) == <<(n \div 256) % 256, n % 256>>
U32(n) == U16(n \div 65536) \o U16(n)

(* The byte strings of the members of a set, one after the other. *)
InOrder(S, Before(_, _), bytes) ==
  LET First(s) == CHOOSE x \in s : \A y \in s : x = y \/ Before(x, y)
      from[s \in SUBSET S] ==
        IF s = {} THEN << >> ELSE bytes[First(s)] \o from[s \ {First(s)}]
  IN from[S]

AsRead(e, f)  == e[2] < f[2]
ByIndex(i, j) == i < j

(* A type, a name and a payload. *)
Named(tags, e, payload) ==
  <<tags[e[2]].type>> \o U16(Len(e[1])) \o e[1] \o payload[e[2]]

NamedInOrder(tags, m, Before(_, _), payload) ==
  InOrder(m, Before, [e \in m |-> Named(tags, e, payload)])

KidsInOrder(kids, payload) ==
  InOrder(DOMAIN kids, ByIndex, [j \in DOMAIN kids |-> payload[kids[j]]])

(* The payload of one of the tags, by those of its children. *)
PayloadIn(tags, payload, tag, Before(_, _)) ==
  CASE tag.type \in ScalarTypes -> tag.data
    [] tag.type \in ArrayTypes  ->
         U32(Len(tag.data) \div ElementSize(tag.type)) \o tag.data
    [] tag.type = kTagString    -> U16(Len(tag.data)) \o tag.data
    [] tag.type = kTagList      ->
         IF tag.ctype = kTagEnd
         THEN <<kTagEnd>> \o U32(1)
         ELSE <<tag.ctype>> \o U32(Len(tag.kids)) \o KidsInOrder(tag.kids, payload)
    [] tag.type = kTagCompound  ->
         NamedInOrder(tags, tag.map, Before, payload) \o <<kTagEnd>>

(* The payload of every tag.  The children of a container are younger than *)
(* the container.                                                          *)
Payload(Before(_, _)) ==
  LET payload[id \in Ids] == PayloadIn(heap, payload, heap[id], Before)
  IN payload

(* The tags that the root leads to.                                        *)
Live ==
  LET live[id \in Ids] ==
        \/ \E e \in root : e[2] = id
        \/ \E parent \in 1 .. id - 1 : live[parent] /\ id \in Children(parent)
  IN {id \in Ids : live[id]}

(* The bytes of an NBT entity: its root tags, one after the other. *)
Document(Before(_, _)) == NamedInOrder(heap, root, Before, Payload(Before))

=============================================================================
