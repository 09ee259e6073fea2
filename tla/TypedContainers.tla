-------------------------- MODULE TypedContainers --------------------------
(***************************************************************************)
(* What TagList and TagCompound promise to their callers, without the      *)
(* fields they keep for it.  A list is a sequence of tags of one type,     *)
(* whichever that is; a compound is a function from names to tags.  A call *)
(* that would break either is refused, and changes nothing.  A tag has one *)
(* name, however many compounds it is in: the last that it was given.      *)
(***************************************************************************)
EXTENDS Integers, SequencesExt

CONSTANTS Types, Keys, Indices   \* the arguments of the calls

VARIABLES
  types,    \* the type of every tag made so far
  names,    \* the name of every tag
  lists,    \* the children of every tag, as a list
  maps,     \* the children of every tag, as a compound
  call,     \* the last call: its name and its arguments
  returned  \* whether it was accepted

vars == <<types, names, lists, maps, call, returned>>
Null == 0

Calls == {"SetChild", "EraseChild", "Insert", "PushBack", "PopBack", "Clear",
          "SetKey", "EraseKey", "ClearKeys", "set_name", "Make"}

Tags     == DOMAIN types
Count(id) == Len(lists[id])

(* A tag may join a list if it has the type of those that are there.        *)
Fits(id, tag) ==
  tag # Null /\ \A j \in DOMAIN lists[id] : types[lists[id][j]] = types[tag]

Refuse == returned' = FALSE /\ UNCHANGED <<types, names, lists, maps>>

BecomesList(id, items) ==
  /\ returned' = TRUE
  /\ lists' = [lists EXCEPT ![id] = items]
  /\ UNCHANGED <<types, names, maps>>

BecomesMap(id, map) ==
  /\ returned' = TRUE
  /\ maps' = [maps EXCEPT ![id] = map]
  /\ UNCHANGED <<types, lists>>

-----------------------------------------------------------------------------
Init ==
  /\ types = << >> /\ names = << >> /\ lists = << >> /\ maps = << >>
  /\ call = <<"Make">> /\ returned = TRUE

Make ==
  /\ call' = <<"Make">> /\ returned' = TRUE
  /\ \E t \in Types : types' = Append(types, t)
  /\ names' = Append(names, << >>)
  /\ lists' = Append(lists, << >>)
  /\ maps' = Append(maps, << >>)

(* Lists *)

SetChild(id, index, tag) ==
  /\ call' = <<"SetChild", id, index, tag>>
  /\ \/ /\ index < Count(id) /\ Fits(id, tag)
        /\ BecomesList(id, ReplaceAt(lists[id], index + 1, tag))
     \/ ~(index < Count(id) /\ Fits(id, tag)) /\ Refuse

EraseAt(id, index) ==
  \/ index < Count(id) /\ BecomesList(id, RemoveAt(lists[id], index + 1))
  \/ index >= Count(id) /\ Refuse

InsertBefore(id, index, tag) ==
  \/ /\ index <= Count(id) /\ Fits(id, tag)
     /\ BecomesList(id, InsertAt(lists[id], index + 1, tag))
  \/ ~(index <= Count(id) /\ Fits(id, tag)) /\ Refuse

EraseChild(id, index)  == call' = <<"EraseChild", id, index>> /\ EraseAt(id, index)
Insert(id, index, tag) == call' = <<"Insert", id, index, tag>> /\ InsertBefore(id, index, tag)
PushBack(id, tag)      == call' = <<"PushBack", id, tag>> /\ InsertBefore(id, Count(id), tag)
Clear(id)              == call' = <<"Clear", id>> /\ BecomesList(id, << >>)

PopBack(id) ==
  /\ call' = <<"PopBack", id>>
  /\ \/ Count(id) > 0 /\ EraseAt(id, Count(id) - 1)
     \/ Count(id) = 0 /\ Refuse

(* Compounds *)

SetKey(id, key, tag, overwrite) ==
  /\ call' = <<"SetKey", id, key, tag, overwrite>>
  /\ \/ /\ tag # Null /\ (overwrite \/ key \notin DOMAIN maps[id])
        /\ BecomesMap(id, [k \in DOMAIN maps[id] \cup {key} |->
                             IF k = key THEN tag ELSE maps[id][k]])
        /\ names' = [names EXCEPT ![tag] = key]
     \/ /\ tag = Null \/ (~overwrite /\ key \in DOMAIN maps[id])
        /\ Refuse

EraseKey(id, key) ==
  /\ call' = <<"EraseKey", id, key>>
  /\ \/ /\ key \in DOMAIN maps[id]
        /\ BecomesMap(id, [k \in DOMAIN maps[id] \ {key} |-> maps[id][k]])
        /\ UNCHANGED names
     \/ key \notin DOMAIN maps[id] /\ Refuse

ClearKeys(id) ==
  call' = <<"ClearKeys", id>> /\ BecomesMap(id, << >>) /\ UNCHANGED names

(* Tags *)

SetName(id, name) ==
  /\ call' = <<"set_name", id, name>> /\ returned' = TRUE
  /\ names' = [names EXCEPT ![id] = name]
  /\ UNCHANGED <<types, lists, maps>>

(* A call of something else. *)
Elsewhere == call'[1] \notin Calls /\ UNCHANGED <<types, names, lists, maps>>

Next ==
  \/ Make \/ Elsewhere
  \/ \E id \in Tags :
       \/ Clear(id) \/ PopBack(id) \/ ClearKeys(id)
       \/ \E index \in Indices : EraseChild(id, index)
       \/ \E key \in Keys : EraseKey(id, key) \/ SetName(id, key)
       \/ \E tag \in Tags \cup {Null} :
            \/ PushBack(id, tag)
            \/ \E index \in Indices : SetChild(id, index, tag) \/ Insert(id, index, tag)
            \/ \E key \in Keys, overwrite \in BOOLEAN : SetKey(id, key, tag, overwrite)

Spec == Init /\ [][Next]_vars
=============================================================================
