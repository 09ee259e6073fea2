---------------------------- MODULE MCTagWriter ----------------------------
(***************************************************************************)
(* Entities for the writer: a tag, what is in it, and what is in that.     *)
(***************************************************************************)
EXTENDS TagWriter

MaxU16 == 3   \* lengths wrap early, so that the names that are too long are short
a == <<97>>
b == <<98>>
TooLong == <<97, 97, 97, 97>>

Leaf(t, data) == [NewTag(t) EXCEPT !.data = data]
ListOf(t, kids) == [NewTag(kTagList) EXCEPT !.ctype = t, !.kids = kids]
CompoundOf(m) == [NewTag(kTagCompound) EXCEPT !.map = m]

Leaves ==
  {Leaf(kTagShort, <<1, 2>>),
   Leaf(kTagByteArray, << >>),
   Leaf(kTagIntArray, <<0, 0, 0, 1, 0, 0, 1, 0>>),
   Leaf(kTagString, <<7, 7>>),
   Leaf(kTagString, TooLong)}

(* The containers of tags 3 and 4, which may be left empty. *)
Inner == {ListOf(kTagEnd, << >>), ListOf(kTagByte, << >>), CompoundOf({}),
          ListOf(kTagByte, <<3, 4>>),
          CompoundOf({<<b, 3>>, <<a, 4>>}),
          CompoundOf({<<a \o b, 3>>, <<a, 4>>}),
          CompoundOf({<<TooLong, 3>>})}

(* The containers of tag 2, which some hold twice. *)
Outer(t) == {ListOf(t, <<2, 2>>), CompoundOf({<<a, 2>>, <<b, 4>>}),
             CompoundOf({<<<< >>, 3>>, <<a, 2>>})}

Roots == {{<<a, 1>>}, {<<b, 1>>, <<a, 3>>}, {<<a, 1>>, <<a \o a, 2>>}}

AnEntity(outer, inner, r) ==
  [heap |-> <<outer, inner, Leaf(kTagByte, <<5>>), Leaf(kTagByte, <<6>>)>>,
   root |-> r]

AllEntities ==
  {AnEntity(leaf, leaf, r) : leaf \in Leaves, r \in Roots \cup {{}, {<<TooLong, 1>>}}}
    \cup UNION {{AnEntity(outer, inner, r) : outer \in Outer(inner.type), r \in Roots}
                : inner \in Leaves \cup Inner}

(* One buffer is of every size up to and beyond what the largest takes. *)
AllLimits == 0 .. 54
=============================================================================
