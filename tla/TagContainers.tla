--------------------------- MODULE TagContainers ---------------------------
(***************************************************************************)
(* The calls a program makes to build and to change tags: the constructors,*)
(* TagList, TagCompound and the root of NBT, and the primitives of TagValue*)
(* that BaseTag::__value__ opens up.  The calls are made one at a time, in *)
(* any order, with any tags: the program holds a shared_ptr to every tag   *)
(* it has made, and may put a tag into several containers.                 *)
(***************************************************************************)
EXTENDS TagHeap, SequencesExt

CONSTANTS
  Types,    \* the types of the tags that are made
  Keys,     \* the names given to children
  RootKeys, \* the names given to the tags of the root
  MaxTags,  \* bound: how many tags are made
  MaxKids   \* bound: how long a list gets

ASSUME TypesAssumption == Types \subseteq TagTypes
ASSUME KeysAssumption  == Keys \subseteq Name /\ RootKeys \subseteq Name
ASSUME BoundsAssumption == MaxTags \in Nat /\ MaxKids \in Nat

VARIABLES
  call,     \* the last call: its name and its arguments
  returned  \* what it returned

vars == <<heap, root, call, returned>>

Pointers == Ids \cup {Null}
Indices  == 0 .. MaxKids

count(id)      == Len(heap[id].kids)
child_type(id) == heap[id].ctype

(* A call that returns true leaves `tag` in the place of tag `id`; one that *)
(* returns false changes nothing.                                           *)
Becomes(id, tag) ==
  heap' = [heap EXCEPT ![id] = tag] /\ returned' = TRUE /\ UNCHANGED root
Refuse == returned' = FALSE /\ UNCHANGED <<heap, root>>

-----------------------------------------------------------------------------
Init ==
  /\ heap = << >> /\ root = {}
  /\ call = <<"Make">> /\ returned = TRUE

(* The constructors.  TagList has one that takes a child type.              *)
Make(t) ==
  /\ Len(heap) < MaxTags
  /\ call' = <<"Make">>
  /\ heap' = Append(heap, NewTag(t)) /\ returned' = TRUE
  /\ UNCHANGED root

MakeTypedList(t) ==
  /\ Len(heap) < MaxTags /\ kTagList \in Types
  /\ call' = <<"Make">>
  /\ heap' = Append(heap, [NewTag(kTagList) EXCEPT !.ctype = t]) /\ returned' = TRUE
  /\ UNCHANGED root

SetName(id, name) ==
  /\ call' = <<"set_name", id, name>>
  /\ Becomes(id, [heap[id] EXCEPT !.name = name])

-----------------------------------------------------------------------------
(* TagList                                                                  *)

WithKids(id, kids, ctype) == [heap[id] EXCEPT !.kids = kids, !.ctype = ctype]

(* A list that has lost its last child has no child type.                   *)
TypeAfterLoss(id) == IF count(id) = 1 THEN kTagEnd ELSE child_type(id)

Settable(id, index, tag) ==
  /\ index < count(id) /\ tag # Null
  /\ heap[tag].type = child_type(id)

ListSetChild(id, index, tag) ==
  /\ IsList(id) /\ call' = <<"SetChild", id, index, tag>>
  /\ \/ /\ Settable(id, index, tag)
        /\ Becomes(id, WithKids(id, ReplaceAt(heap[id].kids, index + 1, tag), child_type(id)))
     \/ ~Settable(id, index, tag) /\ Refuse

EraseAt(id, index) ==
  \/ /\ index < count(id)
     /\ Becomes(id, WithKids(id, RemoveAt(heap[id].kids, index + 1), TypeAfterLoss(id)))
  \/ index >= count(id) /\ Refuse

ListEraseChild(id, index) ==
  IsList(id) /\ call' = <<"EraseChild", id, index>> /\ EraseAt(id, index)

ListClear(id) ==
  IsList(id) /\ call' = <<"Clear", id>> /\ Becomes(id, WithKids(id, << >>, kTagEnd))

Accepted(id, tag) ==
  /\ tag # Null
  /\ heap[tag].type = child_type(id) \/ count(id) = 0

Insertable(id, index, tag) == Accepted(id, tag) /\ index <= count(id)

(* Mutant: the type of the new child is not looked at.                      *)
InsertAnyAt(id, index, tag) ==
  \/ /\ tag # Null /\ index <= count(id) /\ count(id) < MaxKids
     /\ Becomes(id, WithKids(id, InsertAt(heap[id].kids, index + 1, tag), heap[tag].type))
  \/ ~(tag # Null /\ index <= count(id)) /\ Refuse

InsertBefore(id, index, tag) ==
  \/ /\ Insertable(id, index, tag) /\ count(id) < MaxKids
     /\ Becomes(id, WithKids(id, InsertAt(heap[id].kids, index + 1, tag), heap[tag].type))
  \/ ~Insertable(id, index, tag) /\ Refuse

ListInsert(id, index, tag) ==
  IsList(id) /\ call' = <<"Insert", id, index, tag>> /\ InsertBefore(id, index, tag)

(* Mutant: an empty list keeps the type it had.                             *)
PushBackTyped(id, tag) ==
  /\ IsList(id) /\ call' = <<"PushBack", id, tag>>
  /\ \/ /\ Accepted(id, tag) /\ child_type(id) \in {kTagEnd, heap[tag].type}
        /\ count(id) < MaxKids
        /\ Becomes(id, WithKids(id, Append(heap[id].kids, tag), heap[tag].type))
     \/ /\ ~(Accepted(id, tag) /\ child_type(id) \in {kTagEnd, heap[tag].type})
        /\ Refuse

PushBack(id, tag) ==
  /\ IsList(id) /\ call' = <<"PushBack", id, tag>>
  /\ \/ /\ Accepted(id, tag) /\ count(id) < MaxKids
        /\ Becomes(id, WithKids(id, Append(heap[id].kids, tag), heap[tag].type))
     \/ ~Accepted(id, tag) /\ Refuse

PopBack(id) ==
  /\ IsList(id) /\ call' = <<"PopBack", id>>
  /\ \/ /\ count(id) > 0
        /\ Becomes(id, WithKids(id, Front(heap[id].kids), TypeAfterLoss(id)))
     \/ count(id) = 0 /\ Refuse

PushFront(id, tag) == ListInsert(id, 0, tag)
PopFront(id)       == ListEraseChild(id, 0)

-----------------------------------------------------------------------------
(* The primitives of TagValue for a list.  None of them looks at a type.    *)

(* EraseListValue goes straight to the vector: the index has to be valid.   *)
EraseListValue(id, index) ==
  /\ IsList(id) /\ index < count(id) /\ call' = <<"EraseChild", id, index>>
  /\ Becomes(id, WithKids(id, RemoveAt(heap[id].kids, index + 1), child_type(id)))

ShiftListValue(id) ==
  /\ IsList(id) /\ call' = <<"EraseChild", id, 0>>
  /\ \/ /\ count(id) > 0
        /\ Becomes(id, WithKids(id, Tail(heap[id].kids), child_type(id)))
     \/ count(id) = 0 /\ Refuse

PopListValue(id) ==
  /\ IsList(id) /\ call' = <<"PopBack", id>>
  /\ \/ /\ count(id) > 0
        /\ Becomes(id, WithKids(id, Front(heap[id].kids), child_type(id)))
     \/ count(id) = 0 /\ Refuse

ClearListValue(id) ==
  IsList(id) /\ call' = <<"Clear", id>> /\ Becomes(id, WithKids(id, << >>, child_type(id)))

-----------------------------------------------------------------------------
(* TagCompound.  SetToCompound gives the child its new name.                *)

WithMap(id, map) == [heap[id] EXCEPT !.map = map]

(* Mutant: a null tag is taken.                                             *)
SetNull(id, key, tag, overwrite) ==
  /\ IsCompound(id) /\ call' = <<"SetKey", id, key, tag, overwrite>>
  /\ \/ /\ overwrite \/ key \notin KeysOf(heap[id].map)
        /\ heap' = [heap EXCEPT ![id].map = Put(@, key, tag)]
        /\ returned' = TRUE /\ UNCHANGED root
     \/ ~(overwrite \/ key \notin KeysOf(heap[id].map)) /\ Refuse

(* Mutant: the child keeps the name it had.                                 *)
SetUnnamed(id, key, tag, overwrite) ==
  /\ IsCompound(id) /\ call' = <<"SetKey", id, key, tag, overwrite>>
  /\ \/ /\ tag # Null /\ (overwrite \/ key \notin KeysOf(heap[id].map))
        /\ Becomes(id, WithMap(id, Put(heap[id].map, key, tag)))
     \/ /\ tag = Null \/ (~overwrite /\ key \in KeysOf(heap[id].map))
        /\ Refuse

(* Mutant: the tag that is there is overwritten in any case.                *)
SetAlways(id, key, tag, overwrite) ==
  /\ IsCompound(id) /\ call' = <<"SetKey", id, key, tag, overwrite>>
  /\ \/ /\ tag # Null
        /\ heap' = [heap EXCEPT ![id].map = Put(@, key, tag), ![tag].name = key]
        /\ returned' = TRUE /\ UNCHANGED root
     \/ tag = Null /\ Refuse

SetToCompound(id, key, tag, overwrite) ==
  /\ IsCompound(id) /\ call' = <<"SetKey", id, key, tag, overwrite>>
  /\ \/ /\ tag # Null /\ (overwrite \/ key \notin KeysOf(heap[id].map))
        /\ heap' = [heap EXCEPT ![id].map = Put(@, key, tag), ![tag].name = key]
        /\ returned' = TRUE /\ UNCHANGED root
     \/ /\ tag = Null \/ (~overwrite /\ key \in KeysOf(heap[id].map))
        /\ Refuse

CompoundEraseChild(id, key) ==
  /\ IsCompound(id) /\ call' = <<"EraseKey", id, key>>
  /\ \/ /\ key \in KeysOf(heap[id].map)
        /\ Becomes(id, WithMap(id, Drop(heap[id].map, key)))
     \/ key \notin KeysOf(heap[id].map) /\ Refuse

CompoundClear(id) ==
  IsCompound(id) /\ call' = <<"ClearKeys", id>> /\ Becomes(id, WithMap(id, {}))

-----------------------------------------------------------------------------
(* The root of NBT.  It takes null pointers, it names no tag, and looking   *)
(* for a name adds it.                                                      *)

GetFromRoot(name) ==
  /\ call' = <<"GetFromRoot", name>>
  /\ root' = IF name \in KeysOf(root) THEN root ELSE Put(root, name, Null)
  /\ returned' = (name \in KeysOf(root) /\ <<name, Null>> \notin root)
  /\ UNCHANGED heap

AddToRoot(name, tag, overwrite) ==
  /\ call' = <<"AddToRoot", name, tag, overwrite>>
  /\ \/ /\ overwrite \/ name \notin KeysOf(root)
        /\ root' = Put(root, name, tag) /\ returned' = TRUE /\ UNCHANGED heap
     \/ ~overwrite /\ name \in KeysOf(root) /\ Refuse

RemoveFromRoot(name) ==
  /\ call' = <<"RemoveFromRoot", name>>
  /\ \/ /\ name \in KeysOf(root)
        /\ root' = Drop(root, name) /\ returned' = TRUE /\ UNCHANGED heap
     \/ name \notin KeysOf(root) /\ Refuse

-----------------------------------------------------------------------------
ListCall(id) ==
  \/ ListClear(id) \/ PopBack(id) \/ PopFront(id)
  \/ ShiftListValue(id) \/ PopListValue(id) \/ ClearListValue(id)
  \/ \E index \in Indices : ListEraseChild(id, index) \/ EraseListValue(id, index)
  \/ \E tag \in Pointers :
       \/ PushBack(id, tag) \/ PushFront(id, tag)
       \/ \E index \in Indices : ListSetChild(id, index, tag) \/ ListInsert(id, index, tag)

CompoundCall(id) ==
  \/ CompoundClear(id)
  \/ \E key \in Keys :
       \/ CompoundEraseChild(id, key)
       \/ \E tag \in Pointers, overwrite \in BOOLEAN : SetToCompound(id, key, tag, overwrite)

RootCall ==
  \E name \in RootKeys :
    \/ GetFromRoot(name) \/ RemoveFromRoot(name)
    \/ \E tag \in Pointers, overwrite \in BOOLEAN : AddToRoot(name, tag, overwrite)

Next ==
  \/ \E t \in Types : Make(t) \/ MakeTypedList(t)
  \/ \E id \in Ids : \/ ListCall(id) \/ CompoundCall(id)
                     \/ \E name \in Keys : SetName(id, name)
  \/ RootCall

Spec == Init /\ [][Next]_vars

-----------------------------------------------------------------------------
(* Invariants                                                               *)

(* Every pointer of a list or a compound leads to a tag; one of the root    *)
(* may be null.                                                             *)
TypeOK ==
  /\ heap \in Seq(Tag) /\ root \in SUBSET (Name \X Pointers)
  /\ \A id \in Ids : Children(id) \subseteq Ids
  /\ returned \in BOOLEAN

(* "All children tags must be of the same type", the list's child type:     *)
(* whatever calls are made, those of __value__ included, every child that a *)
(* list holds is there and has that type.                                   *)
ListsHomogeneous ==
  \A id \in Ids : IsList(id) =>
    \A j \in 1 .. count(id) :
      heap[id].kids[j] \in Ids /\ heap[heap[id].kids[j]].type = child_type(id)

-----------------------------------------------------------------------------
(* Refinement                                                               *)

EntriesOf(map, key) == {e \in map : e[1] = key}
AnyOf(S)            == CHOOSE x \in S : TRUE
AsFunction(map)     == [key \in KeysOf(map) |-> AnyOf(EntriesOf(map, key))[2]]

Promises == INSTANCE TypedContainers WITH
  types <- [id \in Ids |-> heap[id].type],
  names <- [id \in Ids |-> heap[id].name],
  lists <- [id \in Ids |-> heap[id].kids],
  maps  <- [id \in Ids |-> AsFunction(heap[id].map)]

(* A list takes a child exactly when it has the type of the children that   *)
(* are there, though what the code compares it with is _child_type; a       *)
(* compound is a function from names to tags, and names the tag it is given *)
(* even if that has another name in another compound; a refused call        *)
(* changes nothing, and no call changes two containers.                     *)
KeepsPromises == Promises!Spec

-----------------------------------------------------------------------------
(* Claims of the repository that the code does not keep                     *)

(* The example asserts of every root key that GetFromRoot finds a tag for it *)
(* (main.cc, `assert(tag.get())`).  So every call but AddToRoot, which takes *)
(* a null pointer if it is given one, should leave the root that way.        *)
HaveTags(map) == \A e \in map : e[2] # Null

RootKeysHaveTags ==
  [][HaveTags(root) /\ call'[1] # "AddToRoot" => HaveTags(root')]_vars

=============================================================================
