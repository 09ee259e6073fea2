----------------------------- MODULE TagWriter -----------------------------
(***************************************************************************)
(* NBT::GetBufferSize and NBT::Write: the recursive writer.                *)
(*                                                                         *)
(* `stack` is the C++ call stack: the frame of Write at the bottom, above  *)
(* it one for each tag whose WriteToBuffer has been called and has not     *)
(* handed its result to its caller.  Each call checks the room it needs    *)
(* for itself, some with CalculateSize, and some callers look at what      *)
(* their callees return; `out` is what the buffer holds because of them.   *)
(***************************************************************************)
EXTENDS TagFormat

CONSTANTS
  Entities,    \* the tags there are: records of a heap and a root
  Limits,      \* the sizes of the buffers given to Write
  UINT16_MAX   \* the largest uint16_t

ASSUME LimitsAssumption == Limits \subseteq Nat
ASSUME UINT16Assumption == UINT16_MAX \in Nat

(* A std::map holds a key once.                                             *)
Keyed(m) == IsFiniteSet(m) /\ \A e, f \in m : e[1] = f[1] => e = f

(* What can be written at all: a scalar has its size, the children of a     *)
(* list are of its child type, and no child is null or contains its         *)
(* container, which CalculateSize would follow for ever.  Tags like that    *)
(* can be numbered so that children come after containers.                  *)
Entity(h, r) ==
  /\ h \in Seq(Tag) /\ r \in Map
  /\ Keyed(r) /\ \A e \in r : e[2] \in 1 .. Len(h)
  /\ \A id \in 1 .. Len(h) :
       /\ h[id].type \in ScalarTypes => Len(h[id].data) = ScalarSize(h[id].type)
       /\ \A j \in 1 .. Len(h[id].kids) :
            /\ h[id].kids[j] \in id + 1 .. Len(h)
            /\ h[h[id].kids[j]].type = h[id].ctype
       /\ Keyed(h[id].map) /\ \A e \in h[id].map : e[2] \in id + 1 .. Len(h)

ASSUME EntitiesAssumption == \A entity \in Entities : Entity(entity.heap, entity.root)

VARIABLES
  limit,   \* the size of the buffer
  out,     \* the buffer, up to the last byte that was written
  stack,   \* the active calls
  pc,      \* what the innermost call does next, or "done"
  ret,     \* the result of the last call that returned
  result   \* whether the last Write came to its end; "none" before it is over

vars == <<heap, root, limit, out, stack, pc, ret, result>>

-----------------------------------------------------------------------------
(* NBTCC_WRITE_ERROR is the largest size_t: adding it is subtracting one.   *)
Error == -1

Untouched == 256   \* in place of a byte that nothing was written to

(* memcpy(buffer + offset, bytes, n) *)
Copied(offset, bytes) ==
  [j \in 1 .. Max({Len(out), offset + Len(bytes)}) |->
     CASE j > offset /\ j <= offset + Len(bytes) -> bytes[j - offset]
       [] j > offset + Len(bytes)                -> out[j]
       [] j <= offset /\ j <= Len(out)           -> out[j]
       [] OTHER                                  -> Untouched]

(* A length that is stored in 16 bits loses the rest. *)
(* Mutant: the bytes stay in the order of a little-endian host.             *)
Stored16Host(n) == Reverse(U16(n % (UINT16_MAX + 1)))

Stored16(n) == U16(n % (UINT16_MAX + 1))

(* The order of std::map<string, ...>. *)
Before(e, f) ==
  \/ IsStrictPrefix(e[1], f[1])
  \/ \E k \in DOMAIN e[1] \cap DOMAIN f[1] :
       e[1][k] < f[1][k] /\ \A j \in 1 .. k - 1 : e[1][j] = f[1][j]

First(entries) == CHOOSE e \in entries : \A f \in entries : e = f \/ Before(e, f)

-----------------------------------------------------------------------------
(* CalculateSize                                                            *)

(* Mutant: the length of the name takes 32 bits.                            *)
HeaderSizeWide(e) == SizeofTagType + SizeofU32 + Len(e[1])

HeaderSize(e) == SizeofTagType + SizeofU16 + Len(e[1])
ListHead      == SizeofTagType + SizeofU32

(* The sizes of the children of a list and of the entries of a map.         *)
KidSizes(size, kids) == [j \in DOMAIN kids |-> size[kids[j]]]
EntrySizes(size, m)  == [e \in m |-> HeaderSize(e) + size[e[2]]]

SizeIn(size, tag) ==
  CASE tag.type \in ScalarTypes -> ScalarSize(tag.type)
    [] tag.type \in ArrayTypes  -> SizeofU32 + Len(tag.data)
    [] tag.type = kTagString    -> SizeofU16 + Len(tag.data)
    [] tag.type = kTagList      -> ListHead + SumFunction(KidSizes(size, tag.kids))
    [] tag.type = kTagCompound  -> SumFunction(EntrySizes(size, tag.map)) + SizeofTagType

CalculateSize ==
  LET size[id \in Ids] == SizeIn(size, heap[id])
  IN size

(* Mutant: the names are not counted.                                       *)
GetBufferSizeUnnamed ==
  SumFunction([e \in root |-> SizeofTagType + SizeofU16 + CalculateSize[e[2]]])

GetBufferSize == SumFunction(EntrySizes(CalculateSize, root))

-----------------------------------------------------------------------------
(* A frame: the tag being written (Null for Write), the offset its bytes    *)
(* start at, the offset its loop has got to, the index of the element a     *)
(* list is at, and the entries a map has left.                              *)

Frame == [tag : Nat, start : Nat, next : Int, i : Nat, todo : Map]

NewFrame(id, offset, entries) ==
  [tag |-> id, start |-> offset, next |-> offset, i |-> 0, todo |-> entries]

Depth  == Len(stack)
Top    == stack[Depth]
Cur    == heap[Top.tag]
Caller == stack[Depth - 1]

InWrite       == Depth = 1
Writing(type) == pc = "body" /\ Cur.type = type
Looping(type) == pc = "loop" /\ Depth > 1 /\ Cur.type = type

Return(value) == pc' = "return" /\ ret' = value /\ UNCHANGED <<stack, result>>

Unchanged == UNCHANGED <<heap, root, limit>>

(* A type, a name, and then the tag's own WriteToBuffer.                    *)
Header(e) == <<heap[e[2]].type>> \o Stored16(Len(e[1])) \o e[1]

Descend(e) ==
  /\ out' = Copied(Top.next, Header(e))
  /\ stack' = Append([stack EXCEPT ![Depth].next = @ + HeaderSize(e),
                                   ![Depth].todo = @ \ {e}],
                     NewFrame(e[2], Top.next + HeaderSize(e), heap[e[2]].map))
  /\ pc' = "body"
  /\ UNCHANGED <<ret, result>> /\ Unchanged

-----------------------------------------------------------------------------
Init ==
  /\ \E entity \in Entities : heap = entity.heap /\ root = entity.root
  /\ limit = 0 /\ out = << >> /\ stack = << >>
  /\ pc = "done" /\ ret = 0 /\ result = "none"

(* NBT::Write *)

Write(size) ==
  /\ pc = "done"
  /\ limit' = size /\ out' = << >>
  /\ stack' = <<NewFrame(Null, 0, root)>>
  /\ pc' = "loop" /\ ret' = 0 /\ result' = "none"
  /\ UNCHANGED <<heap, root>>

(* Mutant: the length of the name is not looked at.                         *)
AnyNameWritable(e) == Top.next + HeaderSize(e) <= limit

NameWritable(e) ==
  /\ Top.next + HeaderSize(e) <= limit
  /\ Len(e[1]) <= UINT16_MAX

WriteRootTag ==
  /\ pc = "loop" /\ InWrite /\ Top.todo # {}
  /\ NameWritable(First(Top.todo))
  /\ Descend(First(Top.todo))

Ends(how, value) ==
  /\ pc' = "done" /\ result' = how /\ ret' = value /\ stack' = << >>
  /\ UNCHANGED out /\ Unchanged

RootTagFails ==
  /\ pc = "loop" /\ InWrite /\ Top.todo # {}
  /\ ~NameWritable(First(Top.todo))
  /\ Ends("failed", Error)

WriteReturns ==
  pc = "loop" /\ InWrite /\ Top.todo = {} /\ Ends("written", Top.next)

-----------------------------------------------------------------------------
(* WriteToBuffer of a leaf                                                  *)

WriteScalar ==
  /\ pc = "body" /\ Cur.type \in ScalarTypes
  /\ Top.start + ScalarSize(Cur.type) <= limit
  /\ out' = Copied(Top.start, Cur.data)
  /\ Return(ScalarSize(Cur.type)) /\ Unchanged

StringSize == SizeofU16 + Len(Cur.data)

WriteString ==
  /\ Writing(kTagString)
  /\ Top.start + StringSize <= limit
  /\ out' = Copied(Top.start, Stored16(Len(Cur.data)) \o Cur.data)
  /\ Return(StringSize) /\ Unchanged

ArraySize   == SizeofU32 + Len(Cur.data)

(* Mutant: the length counts bytes.                                         *)
ArrayLengthInBytes == U32(Len(Cur.data))

ArrayLength == U32(Len(Cur.data) \div ElementSize(Cur.type))

WriteArray ==
  /\ pc = "body" /\ Cur.type \in ArrayTypes
  /\ Top.start + ArraySize <= limit
  /\ out' = Copied(Top.start, ArrayLength \o Cur.data)
  /\ Return(ArraySize) /\ Unchanged

(* The length is written before there is found to be no room for the rest.  *)
WriteArrayLength ==
  /\ pc = "body" /\ Cur.type \in ArrayTypes
  /\ Top.start + SizeofU32 <= limit
  /\ Top.start + ArraySize > limit
  /\ out' = Copied(Top.start, ArrayLength)
  /\ Return(Error) /\ Unchanged

LeafFails ==
  /\ pc = "body"
  /\ \/ Cur.type \in ScalarTypes /\ Top.start + ScalarSize(Cur.type) > limit
     \/ Cur.type \in ArrayTypes  /\ Top.start + SizeofU32 > limit
     \/ Cur.type = kTagString    /\ Top.start + StringSize > limit
  /\ Return(Error) /\ UNCHANGED out /\ Unchanged

-----------------------------------------------------------------------------
(* TagList::WriteToBuffer                                                   *)

ListWritable == Top.start + CalculateSize[Top.tag] <= limit

(* An empty list is all zeroes, whatever its child type: a list of no       *)
(* TAG_Ends.                                                                *)
WriteEmptyList ==
  /\ Writing(kTagList) /\ ListWritable /\ Cur.kids = << >>
  /\ out' = Copied(Top.start, <<kTagEnd>> \o U32(0))
  /\ Return(ListHead) /\ Unchanged

EnterList ==
  /\ Writing(kTagList) /\ ListWritable /\ Cur.kids # << >>
  /\ out' = Copied(Top.start, <<Cur.ctype>> \o U32(Len(Cur.kids)))
  /\ stack' = [stack EXCEPT ![Depth].next = Top.start + ListHead]
  /\ pc' = "loop"
  /\ UNCHANGED <<ret, result>> /\ Unchanged

ListFails ==
  Writing(kTagList) /\ ~ListWritable /\ Return(Error) /\ UNCHANGED out /\ Unchanged

WriteElement ==
  /\ Looping(kTagList) /\ Top.i < Len(Cur.kids)
  /\ LET kid == Cur.kids[Top.i + 1] IN
     stack' = Append(stack, NewFrame(kid, Top.next, heap[kid].map))
  /\ pc' = "body"
  /\ UNCHANGED <<out, ret, result>> /\ Unchanged

(* The size that is returned is not counted but calculated.                 *)
FinishList ==
  /\ Looping(kTagList) /\ Top.i = Len(Cur.kids)
  /\ Return(CalculateSize[Top.tag]) /\ UNCHANGED out /\ Unchanged

-----------------------------------------------------------------------------
(* TagCompound::WriteToBuffer                                               *)

EnterCompound ==
  /\ Writing(kTagCompound)
  /\ pc' = "loop"
  /\ UNCHANGED <<out, stack, ret, result>> /\ Unchanged

(* Mutant: only the name has to fit.                                        *)
ChildHeaderWritable(e) == Top.next + HeaderSize(e) <= limit

ChildWritable(e) == Top.next + HeaderSize(e) + CalculateSize[e[2]] <= limit

WriteChild ==
  /\ Looping(kTagCompound) /\ Top.todo # {}
  /\ ChildWritable(First(Top.todo))
  /\ Descend(First(Top.todo))

(* Mutant: a child that does not fit is tried again.                        *)
ChildFailsRetried ==
  /\ Looping(kTagCompound) /\ Top.todo # {}
  /\ ~ChildWritable(First(Top.todo))
  /\ UNCHANGED vars

ChildFails ==
  /\ Looping(kTagCompound) /\ Top.todo # {}
  /\ ~ChildWritable(First(Top.todo))
  /\ Return(Error) /\ UNCHANGED out /\ Unchanged

(* Mutants: the TAG_End is written without a look at the room for it, and   *)
(* is not counted.                                                          *)
FinishCompoundUnchecked ==
  /\ Looping(kTagCompound) /\ Top.todo = {}
  /\ out' = Copied(Top.next, <<kTagEnd>>)
  /\ Return(Top.next + SizeofTagType - Top.start) /\ Unchanged

FinishCompoundShort ==
  /\ Looping(kTagCompound) /\ Top.todo = {}
  /\ Top.next + SizeofTagType <= limit
  /\ out' = Copied(Top.next, <<kTagEnd>>)
  /\ Return(Top.next - Top.start) /\ Unchanged

FinishCompound ==
  /\ Looping(kTagCompound) /\ Top.todo = {}
  /\ Top.next + SizeofTagType <= limit
  /\ out' = Copied(Top.next, <<kTagEnd>>)
  /\ Return(Top.next + SizeofTagType - Top.start) /\ Unchanged

CompoundEndFails ==
  /\ Looping(kTagCompound) /\ Top.todo = {}
  /\ Top.next + SizeofTagType > limit
  /\ Return(Error) /\ UNCHANGED out /\ Unchanged

-----------------------------------------------------------------------------
(* The caller of a tag's WriteToBuffer gets its result.                     *)

Resume(i) ==
  /\ stack' = [SubSeq(stack, 1, Depth - 1) EXCEPT
                 ![Depth - 1].next = @ + ret, ![Depth - 1].i = i]
  /\ pc' = "loop"
  /\ UNCHANGED <<out, ret, result>> /\ Unchanged

ReturnToWrite ==
  /\ pc = "return" /\ Depth = 2
  /\ \/ ret # Error /\ Resume(Caller.i)
     \/ ret = Error /\ Ends("failed", Error)

(* A list hands an error on.  None comes: see OnlyRootTagsFail.             *)
ReturnToList ==
  /\ pc = "return" /\ Depth > 2 /\ IsList(Caller.tag)
  /\ IF ret # Error
     THEN Resume(Caller.i + 1)
     ELSE /\ stack' = SubSeq(stack, 1, Depth - 1)
          /\ UNCHANGED <<pc, out, ret, result>> /\ Unchanged

(* A compound adds whatever it gets to `written`.                           *)
ReturnToCompound ==
  pc = "return" /\ Depth > 2 /\ IsCompound(Caller.tag) /\ Resume(Caller.i)

-----------------------------------------------------------------------------
WriteStep ==
  \/ WriteRootTag \/ RootTagFails \/ WriteReturns
  \/ WriteScalar \/ WriteString \/ WriteArray \/ WriteArrayLength \/ LeafFails
  \/ WriteEmptyList \/ EnterList \/ ListFails \/ WriteElement \/ FinishList
  \/ EnterCompound \/ WriteChild \/ ChildFails \/ FinishCompound \/ CompoundEndFails
  \/ ReturnToWrite \/ ReturnToList \/ ReturnToCompound

Next == WriteStep \/ \E size \in Limits : Write(size)

Spec     == Init /\ [][Next]_vars
FairSpec == Spec /\ WF_vars(WriteStep)   \* a call that has started keeps running

-----------------------------------------------------------------------------
(* Invariants                                                               *)

(* The types; every byte of `out` has been written, so there are no holes.  *)
TypeOK ==
  /\ limit \in Nat /\ out \in Seq(Byte)
  /\ stack \in Seq(Frame) /\ pc \in {"loop", "body", "return", "done"}
  /\ (Depth = 0) <=> (pc = "done")
  /\ ret \in Nat \cup {Error} /\ result \in {"none", "written", "failed"}
  /\ result = "none" \/ pc = "done"

(* No byte is written behind the buffer: the checks that every              *)
(* WriteToBuffer makes for itself are enough, whatever calls it.            *)
WritesWithinBuffer == Len(out) <= limit

(* The result of a child is added to `written` unseen (compound.h:115).     *)
(* That is sound because no child of a compound, and none of a list, ever   *)
(* fails: the size calculated for it had room.  Only root tags fail.        *)
OnlyRootTagsFail == pc = "return" /\ ret = Error => Depth = 2

(* Every tag is as long as CalculateSize says, every call returns how many  *)
(* bytes were written on its behalf, and its caller goes on behind the last *)
(* of them: nothing is written over.                                        *)
SizesAgree ==
  /\ pc = "return" /\ ret # Error =>
       ret = CalculateSize[Top.tag] /\ Top.start + ret = Len(out)
  /\ pc = "loop" => Top.next = Len(out)
  /\ pc = "body" => Top.start = Len(out)

(* Write succeeds exactly when the buffer is as long as GetBufferSize says, *)
(* or longer, and every name of the root can be stored; then it returns     *)
(* that size.  So a failure does not depend on what the tags contain, and   *)
(* a buffer of GetBufferSize() bytes, as example/main.cc takes, will do.    *)
Fits == GetBufferSize <= limit /\ \A e \in root : Len(e[1]) <= UINT16_MAX

SucceedsIfItFits ==
  /\ result = "written" => Fits /\ ret = GetBufferSize
  /\ result = "failed"  => ~Fits

(* What CalculateSize says and what WriteToBuffer does is the same, of each *)
(* tag while it is written and of the whole entity in the end.              *)
SizesAreRight == SizesAgree /\ SucceedsIfItFits

(* What Write has written so far is the front of the format's document, in  *)
(* the order of std::map; it is all of it when Write returns successfully.  *)
(* Lengths that 16 bits hold and lists that have children are taken for     *)
(* granted: Write is wrong about the others.                                *)
Lengths ==
  {Len(e[1]) : e \in (UNION {heap[id].map : id \in Live}) \cup root}
    \cup {Len(heap[id].data) : id \in {j \in Live : heap[j].type = kTagString}}
Storable     == \A n \in Lengths : n <= UINT16_MAX
NoEmptyLists == \A id \in Live : IsList(id) => heap[id].kids # << >>

WritesDocument ==
  Storable /\ NoEmptyLists =>
    LET document == Document(Before) IN
    /\ IsPrefix(out, document)
    /\ result = "written" => out = document

-----------------------------------------------------------------------------
(* Liveness: every Write returns, whatever the buffer.                      *)
WriteReturnsEventually == (pc # "done") ~> (pc = "done")

=============================================================================
