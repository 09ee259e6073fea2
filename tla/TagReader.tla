----------------------------- MODULE TagReader -----------------------------
(***************************************************************************)
(* NBT::Load: the recursive-descent reader.                                *)
(*                                                                         *)
(* The C++ call stack is the sequence `stack`: at the bottom the frame of  *)
(* Load, above it one frame for each tag whose ReadBodyFromBuffer has been *)
(* called and has not handed its result to its caller.  No call knows how  *)
(* far the calls below it have read; each one returns a size, and its      *)
(* caller adds that size to an offset of its own.  `consumed` is no        *)
(* variable of the program: it records where the last read really ended.   *)
(***************************************************************************)
EXTENDS TagHeap, FiniteSets

CONSTANTS
  Buffers,   \* the byte strings handed to Load
  Beyond,    \* the byte that happens to lie right behind a buffer
  MaxList,   \* the longest list of pointers memory has room for
  MaxLoads   \* bound: how many times Load is called

ASSUME BuffersAssumption == Buffers \subseteq Seq(Byte)
ASSUME BeyondAssumption  == Beyond \in Byte
ASSUME MaxListAssumption == MaxList \in Nat
ASSUME MaxLoadsAssumption == MaxLoads \in Nat

VARIABLES
  buffer,      \* the argument of the current or the last Load
  stack,       \* the active calls
  pc,          \* what the innermost call does next, or "done"
  ret,         \* the size ReadBodyFromBuffer returns, when pc = "return"
  result,      \* how the last Load ended
  read_level,  \* BaseTag::read_level, static
  consumed,    \* auxiliary: one past the last byte that was read
  loads        \* auxiliary: how many calls of Load there were

vars ==
  <<heap, root, buffer, stack, pc, ret, result, read_level, consumed, loads>>

-----------------------------------------------------------------------------
(* A frame: the tag being read (Null for Load), the bytes its type and name *)
(* took in front of its body, the offset its body starts at, the offset its *)
(* loop has got to, and, for a list, the index of the element it is at.     *)

Frame == [tag : Nat, head : Nat, start : Nat, next : Nat, i : Nat]

NewFrame(id, head, start) ==
  [tag |-> id, head |-> head, start |-> start, next |-> start, i |-> 0]

Depth  == Len(stack)
Top    == stack[Depth]
Cur    == heap[Top.tag]
length == Len(buffer)
Results == {"true", "false", "bad_alloc"}   \* the last one is thrown

InLoad   == Depth = 1
Reading(type) == pc = "body" /\ Cur.type = type
Looping(type) == pc = "loop" /\ Depth > 1 /\ Cur.type = type

-----------------------------------------------------------------------------
Init ==
  /\ heap = << >> /\ root = {}
  /\ buffer = << >> /\ stack = << >> /\ pc = "done" /\ ret = 0
  /\ result = "true" /\ read_level = 0 /\ consumed = 0 /\ loads = 0

(* Mutant: the tags of the previous load stay. *)
LoadMore(b) ==
  /\ buffer' = b
  /\ stack' = <<NewFrame(Null, 0, 0)>>
  /\ pc' = "loop"
  /\ consumed' = 0 /\ loads' = loads + 1
  /\ UNCHANGED <<heap, root, ret, result, read_level>>

(* Load drops the tags of the previous load: the NBT entity is the only     *)
(* owner they have here.                                                    *)
LoadFrom(b) ==
  /\ buffer' = b
  /\ root' = {} /\ heap' = << >>
  /\ stack' = <<NewFrame(Null, 0, 0)>>
  /\ pc' = "loop"
  /\ consumed' = 0 /\ loads' = loads + 1
  /\ UNCHANGED <<ret, result, read_level>>

MayLoad == pc = "done" /\ loads < MaxLoads

Load == MayLoad /\ \E b \in Buffers : LoadFrom(b)

(* while (offset < size) is over. *)
LoadReturns ==
  /\ pc = "loop" /\ InLoad /\ Top.next >= length
  /\ pc' = "done" /\ result' = "true" /\ stack' = << >>
  /\ UNCHANGED <<heap, root, buffer, ret, read_level, consumed, loads>>

(* Every caller of a failed read returns NBTCC_READ_ERROR at once, up to    *)
(* Load, which returns false; an exception passes through them all the      *)
(* same.  The root tag being read goes, with all that was read below it;    *)
(* read_level stays where the failure left it.                              *)
Abort(how) ==
  /\ pc' = "done" /\ result' = how /\ stack' = << >>
  /\ heap' = IF InLoad THEN heap ELSE SubSeq(heap, 1, stack[2].tag - 1)
  /\ UNCHANGED <<root, buffer, ret, read_level, consumed, loads>>

Fail == Abort("false")

-----------------------------------------------------------------------------
(* NBT::GetNextTag and TagCompound::ReadNextTag: a type and a name.         *)

AtHeader ==
  \/ pc = "loop" /\ InLoad /\ Top.next < length
  \/ Looping(kTagCompound)

TypeReadable == Top.next + SizeofTagType <= length
NameLength   == U16At(buffer, Top.next + SizeofTagType)

(* BaseTag::ReadNameFromBuffer, whose offset is that of the name's length.  *)
(* The second comparison counts one byte for that length, which takes two.  *)
NameReadable ==
  LET offset == Top.next + SizeofTagType IN
  /\ offset + SizeofU16 <= length
  /\ NameLength <= length - offset - 1

HeaderReadable ==
  /\ TypeReadable
  /\ At(buffer, Top.next) \in TagTypes
  /\ NameReadable

ReadHeader ==
  /\ AtHeader
  /\ HeaderReadable
  /\ LET name_offset == Top.next + SizeofTagType + SizeofU16
         head == SizeofTagType + SizeofU16 + NameLength
     IN
     /\ heap' = Append(heap,
                  [NewTag(At(buffer, Top.next)) EXCEPT
                     !.name = Bytes(Append(buffer, Beyond), name_offset, NameLength)])
     /\ stack' = Append(stack, NewFrame(Len(heap) + 1, head, Top.next + head))
     /\ consumed' = name_offset + NameLength
  /\ pc' = "body"
  /\ UNCHANGED <<root, buffer, ret, result, read_level, loads>>

AtCompoundEnd ==
  Looping(kTagCompound) /\ TypeReadable /\ At(buffer, Top.next) = kTagEnd

(* Mutant: the failed tag is tried again. *)
HeaderRetried ==
  AtHeader /\ ~HeaderReadable /\ ~AtCompoundEnd /\ UNCHANGED vars

HeaderFails == AtHeader /\ ~HeaderReadable /\ ~AtCompoundEnd /\ Fail

-----------------------------------------------------------------------------
(* ReadBodyFromBuffer of a leaf: `head` bytes of length, `n` of payload.    *)

ReadLeaf(head, n) ==
  /\ heap' = [heap EXCEPT ![Top.tag].data = Bytes(buffer, Top.start + head, n)]
  /\ ret' = head + n
  /\ consumed' = Top.start + head + n
  /\ pc' = "return"
  /\ UNCHANGED <<root, buffer, stack, result, read_level, loads>>

ScalarReadable == Top.start + ScalarSize(Cur.type) <= length

ReadScalar ==
  /\ pc = "body" /\ Cur.type \in ScalarTypes
  /\ ScalarReadable
  /\ ReadLeaf(0, ScalarSize(Cur.type))

ArrayBytes    == U32At(buffer, Top.start) * ElementSize(Cur.type)
ArrayReadable ==
  /\ Top.start + SizeofU32 <= length
  /\ Top.start + SizeofU32 + ArrayBytes <= length

(* Mutant: the elements of an array are taken for bytes. *)
ReadArrayBytes ==
  /\ pc = "body" /\ Cur.type \in ArrayTypes
  /\ ArrayReadable
  /\ ReadLeaf(SizeofU32, U32At(buffer, Top.start))

ReadArray ==
  /\ pc = "body" /\ Cur.type \in ArrayTypes
  /\ ArrayReadable
  /\ ReadLeaf(SizeofU32, ArrayBytes)

(* Mutant: a string may not end where the buffer ends. *)
StringReadableStrict ==
  /\ Top.start + SizeofU16 <= length
  /\ Top.start + SizeofU16 + U16At(buffer, Top.start) < length

StringReadable ==
  /\ Top.start + SizeofU16 <= length
  /\ Top.start + SizeofU16 + U16At(buffer, Top.start) <= length

ReadString ==
  /\ Reading(kTagString)
  /\ StringReadable
  /\ ReadLeaf(SizeofU16, U16At(buffer, Top.start))

(* Mutant: a leaf that cannot be read keeps its default. *)
LeafSkipped ==
  /\ pc = "body"
  /\ \/ Cur.type \in ScalarTypes /\ ~ScalarReadable
     \/ Cur.type \in ArrayTypes /\ ~ArrayReadable
     \/ Cur.type = kTagString /\ ~StringReadable
  /\ ret' = 0 /\ pc' = "return"
  /\ UNCHANGED <<heap, root, buffer, stack, result, read_level, consumed, loads>>

LeafFails ==
  /\ pc = "body"
  /\ \/ Cur.type \in ScalarTypes /\ ~ScalarReadable
     \/ Cur.type \in ArrayTypes /\ ~ArrayReadable
     \/ Cur.type = kTagString /\ ~StringReadable
  /\ Fail

-----------------------------------------------------------------------------
(* TagList::ReadBodyFromBuffer and ReadNextTag                              *)

ListHead   == SizeofTagType + SizeofU32
ListType   == At(buffer, Top.start)
ListLength == U32At(buffer, Top.start + SizeofTagType)

ListReadable ==
  /\ Top.start + ListHead <= length
  /\ ListType < kTagMax
  /\ ListType = kTagEnd => ListLength = 1

(* A list of kTagEnd ends here, whatever children the tag already has.      *)
ReadEndList ==
  /\ Reading(kTagList) /\ ListReadable /\ ListType = kTagEnd
  /\ heap' = [heap EXCEPT ![Top.tag].ctype = kTagEnd]
  /\ ret' = ListHead
  /\ consumed' = Top.start + ListHead
  /\ pc' = "return"
  /\ UNCHANGED <<root, buffer, stack, result, read_level, loads>>

(* Mutant: the length is not counted in the offset. *)
EnterListShort ==
  /\ Reading(kTagList) /\ ListReadable /\ ListType # kTagEnd
  /\ ListLength <= MaxList
  /\ heap' = [heap EXCEPT ![Top.tag].ctype = ListType,
                          ![Top.tag].kids  = [j \in 1 .. ListLength |-> Null]]
  /\ stack' = [stack EXCEPT ![Depth].next = Top.start + SizeofTagType]
  /\ consumed' = Top.start + SizeofTagType
  /\ pc' = "loop"
  /\ UNCHANGED <<root, buffer, ret, result, read_level, loads>>

(* The children are allocated, as null pointers, before any of them is      *)
(* read, and however few bytes are left to read them from.                  *)
EnterList ==
  /\ Reading(kTagList) /\ ListReadable /\ ListType # kTagEnd
  /\ ListLength <= MaxList
  /\ heap' = [heap EXCEPT ![Top.tag].ctype = ListType,
                          ![Top.tag].kids  = [j \in 1 .. ListLength |-> Null]]
  /\ stack' = [stack EXCEPT ![Depth].next = Top.start + ListHead]
  /\ consumed' = Top.start + ListHead
  /\ pc' = "loop"
  /\ UNCHANGED <<root, buffer, ret, result, read_level, loads>>

ResizeThrows ==
  /\ Reading(kTagList) /\ ListReadable /\ ListType # kTagEnd
  /\ ListLength > MaxList
  /\ Abort("bad_alloc")

ListFails == Reading(kTagList) /\ ~ListReadable /\ Fail

(* Mutant: every element is read into the first one's tag. *)
ReadElementReused ==
  /\ Looping(kTagList) /\ Top.i < Len(Cur.kids)
  /\ Top.next < length
  /\ IF Top.i = 0
     THEN /\ heap' = Append(heap, NewTag(Cur.ctype))
          /\ stack' = Append(stack, NewFrame(Len(heap) + 1, 0, Top.next))
     ELSE /\ stack' = Append(stack, NewFrame(Cur.kids[1], 0, Top.next))
          /\ UNCHANGED heap
  /\ pc' = "body"
  /\ UNCHANGED <<root, buffer, ret, result, read_level, consumed, loads>>

ReadElement ==
  /\ Looping(kTagList) /\ Top.i < Len(Cur.kids)
  /\ Top.next < length
  /\ heap' = Append(heap, NewTag(Cur.ctype))
  /\ stack' = Append(stack, NewFrame(Len(heap) + 1, 0, Top.next))
  /\ pc' = "body"
  /\ UNCHANGED <<root, buffer, ret, result, read_level, consumed, loads>>

(* Mutant: a list that is cut short ends like a complete one. *)
ElementMissing ==
  /\ Looping(kTagList) /\ Top.i < Len(Cur.kids) /\ Top.next >= length
  /\ ret' = Top.next - Top.start
  /\ pc' = "return"
  /\ UNCHANGED <<heap, root, buffer, stack, result, read_level, consumed, loads>>

ElementFails ==
  Looping(kTagList) /\ Top.i < Len(Cur.kids) /\ Top.next >= length /\ Fail

FinishList ==
  /\ Looping(kTagList) /\ Top.i = Len(Cur.kids)
  /\ ret' = Top.next - Top.start
  /\ pc' = "return"
  /\ UNCHANGED <<heap, root, buffer, stack, result, read_level, consumed, loads>>

-----------------------------------------------------------------------------
(* TagCompound::ReadBodyFromBuffer                                          *)

(* Mutant: the level is not counted. *)
EnterCompoundFlat ==
  /\ Reading(kTagCompound)
  /\ pc' = "loop"
  /\ UNCHANGED <<heap, root, buffer, stack, ret, result, read_level, consumed, loads>>

EnterCompound ==
  /\ Reading(kTagCompound)
  /\ read_level' = read_level + 1
  /\ pc' = "loop"
  /\ UNCHANGED <<heap, root, buffer, stack, ret, result, consumed, loads>>

(* Mutants: the end tag is not counted in the size; the level is not        *)
(* counted down.                                                            *)
FinishCompoundShort ==
  /\ AtCompoundEnd
  /\ ret' = Top.next - Top.start
  /\ consumed' = Top.next + SizeofTagType
  /\ read_level' = read_level - 1
  /\ pc' = "return"
  /\ UNCHANGED <<heap, root, buffer, stack, result, loads>>

FinishCompoundDeep ==
  /\ AtCompoundEnd
  /\ ret' = Top.next + SizeofTagType - Top.start
  /\ consumed' = Top.next + SizeofTagType
  /\ pc' = "return"
  /\ UNCHANGED <<heap, root, buffer, stack, result, read_level, loads>>

FinishCompound ==
  /\ AtCompoundEnd
  /\ ret' = Top.next + SizeofTagType - Top.start
  /\ consumed' = Top.next + SizeofTagType
  /\ read_level' = read_level - 1
  /\ pc' = "return"
  /\ UNCHANGED <<heap, root, buffer, stack, result, loads>>

-----------------------------------------------------------------------------
(* The caller of a tag's read gets its size and keeps the tag.              *)

Caller == stack[Depth - 1]

Resume(i) ==
  /\ pc = "return"
  /\ stack' = [SubSeq(stack, 1, Depth - 1) EXCEPT
                 ![Depth - 1].next = @ + Top.head + ret,
                 ![Depth - 1].i    = i]
  /\ pc' = "loop" /\ ret' = 0
  /\ UNCHANGED <<buffer, result, read_level, consumed, loads>>

ReturnToLoad ==
  /\ Depth = 2
  /\ Resume(Caller.i)
  /\ root' = Put(root, Cur.name, Top.tag)
  /\ UNCHANGED heap

(* Mutant: the compound's name is the key. *)
ReturnToCompoundMisnamed ==
  /\ Depth > 2 /\ IsCompound(Caller.tag)
  /\ Resume(Caller.i)
  /\ heap' = [heap EXCEPT ![Caller.tag].map =
                 Put(@, heap[Caller.tag].name, Top.tag)]
  /\ UNCHANGED root

ReturnToCompound ==
  /\ Depth > 2 /\ IsCompound(Caller.tag)
  /\ Resume(Caller.i)
  /\ heap' = [heap EXCEPT ![Caller.tag].map = Put(@, Cur.name, Top.tag)]
  /\ UNCHANGED root

ReturnToList ==
  /\ Depth > 2 /\ IsList(Caller.tag)
  /\ Resume(Caller.i + 1)
  /\ heap' = [heap EXCEPT ![Caller.tag].kids[Caller.i + 1] = Top.tag]
  /\ UNCHANGED root

-----------------------------------------------------------------------------
ReadStep ==
  \/ LoadReturns
  \/ ReadHeader \/ HeaderFails
  \/ ReadScalar \/ ReadArray \/ ReadString \/ LeafFails
  \/ ReadEndList \/ EnterList \/ ResizeThrows \/ ListFails
  \/ ReadElement \/ ElementFails \/ FinishList
  \/ EnterCompound \/ FinishCompound
  \/ ReturnToLoad \/ ReturnToCompound \/ ReturnToList

Next == Load \/ ReadStep

Spec     == Init /\ [][Next]_vars
FairSpec == Spec /\ WF_vars(ReadStep)   \* a call that has started keeps running

-----------------------------------------------------------------------------
(* Invariants                                                               *)

TypeOK ==
  /\ heap \in Seq(Tag) /\ root \in Map
  /\ buffer \in Seq(Byte) /\ stack \in Seq(Frame)
  /\ pc \in {"loop", "body", "return", "done"}
  /\ (Depth = 0) <=> (pc = "done")
  /\ ret \in Nat /\ result \in Results
  /\ read_level \in Nat /\ consumed \in Nat /\ loads \in Nat

(* The offsets the calls keep, and the sizes they return to one another,    *)
(* agree with the bytes that were really read: no byte is skipped and none  *)
(* is read twice, at any depth (ReadFromBuffer, ReadNextTag and the loops   *)
(* of Load, TagList and TagCompound).                                       *)
CursorsAgree ==
  /\ pc = "loop"   => Top.next = consumed
  /\ pc = "body"   => Top.start = consumed /\ Top.next = consumed
  /\ pc = "return" => Top.start + ret = consumed
  /\ \A j \in 1 .. Depth - 1 :
       stack[j].next + stack[j + 1].head = stack[j + 1].start

(* ReadNameFromBuffer can take one byte too many; whatever tag it happens   *)
(* to, the body's own bound check then fails, so a tag read past the end of *)
(* the buffer never becomes part of the NBT entity.                         *)
OverrunRejected ==
  /\ consumed <= length + 1
  /\ consumed > length =>
       \/ pc = "body"
       \/ Looping(kTagCompound) /\ Top.next = Top.start
       \/ pc = "done" /\ result # "true"

(* When Load returns true it has read the whole buffer.                     *)
LoadReadsAll == pc = "done" /\ result = "true" => consumed = length

(* "All children tags must be of the same type": in a list that has been    *)
(* read every child is there and has the list's child type; in one that is  *)
(* being read this holds of the children before the current one, and the    *)
(* others are null.                                                         *)
OnStack(id) == \E j \in 1 .. Depth : stack[j].tag = id
ReadSoFar(id) ==
  IF OnStack(id) /\ ~(pc = "return" /\ Top.tag = id)
  THEN stack[CHOOSE j \in 1 .. Depth : stack[j].tag = id].i
  ELSE Len(heap[id].kids)

ListsHomogeneous ==
  \A id \in Ids : IsList(id) =>
    \A j \in 1 .. Len(heap[id].kids) :
      LET kid == heap[id].kids[j] IN
      IF j <= ReadSoFar(id)
      THEN kid \in Ids /\ heap[kid].type = heap[id].ctype
      ELSE kid = Null

(* A read builds a forest: every tag was made after the container that      *)
(* holds it, and no two pointers, of one container or of two, lead to the   *)
(* same tag.                                                                *)
Forest ==
  /\ \A id \in Ids : \A kid \in Children(id) : kid = Null \/ kid > id
  /\ \A id \in Ids : \A j, k \in 1 .. Len(heap[id].kids) :
       heap[id].kids[j] = heap[id].kids[k] => j = k \/ heap[id].kids[j] = Null
  /\ \A id \in Ids : \A e, f \in heap[id].map : e[2] = f[2] => e = f
  /\ \A a, b \in Ids : a # b => Children(a) \cap Children(b) \subseteq {Null}
  /\ \A id \in Ids : Children(id) \cap {e[2] : e \in root} \subseteq {Null}

(* Every tag sits in its compound, or in the root, under its own name, and  *)
(* no two tags there have the same name.                                    *)
Entries(m) ==
  /\ \A e \in m : e[2] \in Ids /\ heap[e[2]].name = e[1]
  /\ \A e, f \in m : e[1] = f[1] => e = f
KeysAreNames == Entries(root) /\ \A id \in Ids : Entries(heap[id].map)

(* What is in memory is a forest of well-formed tags, in the middle of a    *)
(* read and after a failure too: only what a list has yet to read is null.  *)
TagsWellFormed == ListsHomogeneous /\ Forest /\ KeysAreNames

(* The recursion is at most a third as deep as the buffer is long: each     *)
(* level of it has cost three bytes at least.                               *)
RecursionBounded == Depth > 0 => 3 * (Depth - 1) <= consumed

-----------------------------------------------------------------------------
(* Action properties                                                        *)

(* The compounds whose ReadBodyFromBuffer has counted itself in read_level. *)
OpenCompounds ==
  {j \in 2 .. Depth : /\ IsCompound(stack[j].tag)
                      /\ j = Depth => pc = "loop"}

(* read_level rises and falls with the compounds being read, and a Load     *)
(* that returns true leaves it as it found it; only a failure leaks.        *)
LevelLeaksOnFailure ==
  [][\/ read_level' - Cardinality(OpenCompounds') =
          read_level - Cardinality(OpenCompounds)
     \/ pc' = "done" /\ result' # "true"]_vars

-----------------------------------------------------------------------------
(* Liveness: every Load returns.                                            *)
LoadReturnsEventually == (pc # "done") ~> (pc = "done")

-----------------------------------------------------------------------------
(* Claims of the repository that the code does not keep                     *)

(* base_tag.h: "@param length The size of the buffer": reads end there.     *)
ReadsWithinBuffer == consumed <= length

=============================================================================
