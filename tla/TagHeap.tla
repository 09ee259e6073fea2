------------------------------ MODULE TagHeap ------------------------------
(***************************************************************************)
(* The tag objects of nbt.cc and the NBT entity that owns them.            *)
(*                                                                         *)
(* Every BaseTag is allocated once and held through shared_ptr, so the     *)
(* objects live in `heap` and a pointer is the index of its object; Null   *)
(* is nullptr.  Containers refer to their children by index, which lets    *)
(* two containers hold the same tag, as two shared_ptrs may.               *)
(*                                                                         *)
(* A byte string stands for itself.  Offsets into a buffer count from 0,   *)
(* as in C++; `At`, `U16At` and `U32At` do the shift to TLA+ sequences.    *)
(***************************************************************************)
EXTENDS Integers, Sequences

VARIABLES
  heap,  \* the tags made, by index; one that nothing points at is deleted
  root   \* NBT::_root

Null == 0
Byte == 0 .. 255
Name == Seq(Byte)

-----------------------------------------------------------------------------
(* enum TagType *)

kTagEnd       == 0
kTagByte      == 1
kTagShort     == 2
kTagInt       == 3
kTagLong      == 4
kTagFloat     == 5
kTagDouble    == 6
kTagByteArray == 7
kTagString    == 8
kTagList      == 9
kTagCompound  == 10
kTagIntArray  == 11
kTagMax       == 12

TagTypes    == kTagByte .. kTagIntArray     \* the types that have a class
ScalarTypes == kTagByte .. kTagDouble
ArrayTypes  == {kTagByteArray, kTagIntArray}

(* sizeof the C++ types that are copied to and from a buffer *)
SizeofTagType == 1
SizeofU16     == 2
SizeofU32     == 4
ScalarSize(t)  == <<1, 2, 4, 8, 4, 8>>[t]
ElementSize(t) == IF t = kTagIntArray THEN 4 ELSE 1

-----------------------------------------------------------------------------
(* std::map<string, shared_ptr<BaseTag>>: a set of <<key, tag>> entries, at *)
(* most one for each key.                                                   *)

Map == SUBSET (Name \X Nat)

KeysOf(m)     == {e[1] : e \in m}
Drop(m, k)    == {e \in m : e[1] # k}
Put(m, k, id) == Drop(m, k) \cup {<<k, id>>}

-----------------------------------------------------------------------------
(* A tag.  `data` is the payload of a leaf in network order: the bytes of a *)
(* scalar's value, the elements of an array, the characters of a string.    *)
(* The be16toh/htobe16 pairs of the code convert between this order and the *)
(* host's on every copy in and out.                                         *)

Tag ==
  [type  : TagTypes,
   name  : Name,
   data  : Seq(Byte),
   ctype : kTagEnd .. kTagIntArray,   \* TagList::_child_type
   kids  : Seq(Nat),                  \* the children of a list
   map   : Map]                       \* the children of a compound

(* make_shared<TagX>(): TagValue's constructor zeroes a scalar and starts   *)
(* every other payload empty.                                               *)
NewTag(t) ==
  [type  |-> t,
   name  |-> << >>,
   data  |-> IF t \in ScalarTypes THEN [j \in 1 .. ScalarSize(t) |-> 0]
                                  ELSE << >>,
   ctype |-> kTagEnd,
   kids  |-> << >>,
   map   |-> {}]

Ids         == 1 .. Len(heap)
IsList(id)     == heap[id].type = kTagList
IsCompound(id) == heap[id].type = kTagCompound

(* The children a container points at. *)
Children(id) ==
  {heap[id].kids[j] : j \in 1 .. Len(heap[id].kids)}
    \cup {e[2] : e \in heap[id].map}

-----------------------------------------------------------------------------
(* Reading a byte string *)

At(b, o)       == b[o + 1]
U16At(b, o)    == 256 * At(b, o) + At(b, o + 1)
U32At(b, o)    == 65536 * U16At(b, o) + U16At(b, o + 2)
Bytes(b, o, n) == SubSeq(b, o + 1, o + n)

=============================================================================
