-------------------------- MODULE TagReaderFormat --------------------------
(***************************************************************************)
(* What Load makes of a buffer, against the format of TagFormat.           *)
(***************************************************************************)
EXTENDS TagReader, TagFormat

CONSTANT ParseOf(_)   \* which parts of a byte string are taken to be what

(* No tag was put in the place of another one of the same name. *)
NothingReplaced ==
  \A id \in Ids : \/ \E e \in root : e[2] = id
                  \/ \E parent \in Ids : id \in Children(parent)

(* The tags Load leaves in the root, encoded in the order they were read,   *)
(* are the bytes it was given: all of them when it returns true, and the    *)
(* whole root tags in front of the one that failed when it does not.  Load, *)
(* GetNextTag, both ReadNextTags and every ReadBodyFromBuffer take part.    *)
LoadFaithful ==
  pc = "done" /\ NothingReplaced =>
    LET read == Document(AsRead) IN
    /\ IsPrefix(read, buffer)
    /\ result = "true" => read = buffer

-----------------------------------------------------------------------------
(* The format as a grammar of byte strings.  A parse of b tells which of   *)
(* its parts, from one offset to another, are the payload of a type or the *)
(* payloads of so many elements of a type; and from where on b consists of *)
(* whole tags.  It is good if each of these claims follows from others.    *)

Offsets(b) == 0 .. Len(b)

Parse(b) ==
  [payloads : SUBSET (TagTypes \X Offsets(b) \X Offsets(b)),
   elements : SUBSET (TagTypes \X Nat \X Offsets(b) \X Offsets(b)),
   tags     : SUBSET Offsets(b)]

(* A type, a name and a payload. *)
TagFrom(b, parse, from, to) ==
  /\ from + 3 <= Len(b)
  /\ At(b, from) \in TagTypes
  /\ <<At(b, from), from + 3 + U16At(b, from + 1), to>> \in parse.payloads

LeafFrom(b, type, from, to) ==
  \/ type \in ScalarTypes /\ to = from + ScalarSize(type)
  \/ /\ type \in ArrayTypes /\ from + 4 <= Len(b)
     /\ to = from + 4 + U32At(b, from) * ElementSize(type)
  \/ /\ type = kTagString /\ from + 2 <= Len(b)
     /\ to = from + 2 + U16At(b, from)

(* The list of no type has the length one. *)
ListFrom(b, parse, from, to) ==
  /\ from + 5 <= Len(b)
  /\ LET type == At(b, from)
         n    == U32At(b, from + 1)
     IN \/ type = kTagEnd /\ n = 1 /\ to = from + 5
        \/ /\ type \in TagTypes /\ n <= MaxList
           /\ <<type, n, from + 5, to>> \in parse.elements

CompoundFrom(b, parse, from, to) ==
  \/ from < Len(b) /\ At(b, from) = kTagEnd /\ to = from + 1
  \/ \E next \in Offsets(b) : /\ TagFrom(b, parse, from, next)
                             /\ <<kTagCompound, next, to>> \in parse.payloads

PayloadFrom(b, parse, type, from, to) ==
  \/ LeafFrom(b, type, from, to)
  \/ type = kTagList /\ ListFrom(b, parse, from, to)
  \/ type = kTagCompound /\ CompoundFrom(b, parse, from, to)

ElementsFrom(b, parse, type, n, from, to) ==
  IF n = 0 THEN to = from
  ELSE \E next \in Offsets(b) : /\ <<type, from, next>> \in parse.payloads
                              /\ <<type, n - 1, next, to>> \in parse.elements

TagsFrom(b, parse, from) ==
  \/ from = Len(b)
  \/ \E next \in parse.tags : from < next /\ TagFrom(b, parse, from, next)

IsParse(b, parse) ==
  /\ parse \in Parse(b)
  /\ \A e \in parse.payloads : e[2] < e[3] /\ PayloadFrom(b, parse, e[1], e[2], e[3])
  /\ \A e \in parse.elements : ElementsFrom(b, parse, e[1], e[2], e[3], e[4])
  /\ \A from \in parse.tags : TagsFrom(b, parse, from)

(* A document with lists that memory has room for: whole tags, from the     *)
(* first byte to the last.                                                  *)
IsDocument(b, parse) == IsParse(b, parse) /\ 0 \in parse.tags
HasParse(b) == \E parse : IsDocument(b, parse)

(* Load turns no document down: none of the bound checks in its callees is  *)
(* too strict, alone or with the offsets that the calls around it keep.     *)
DocumentsAccepted ==
  pc = "done" /\ result # "true" => ~IsDocument(buffer, ParseOf(buffer))

(* Load accepts nothing else: none of those checks lets anything through    *)
(* that is not a document.                                                  *)
OnlyDocumentsAccepted ==
  pc = "done" /\ result = "true" => IsDocument(buffer, ParseOf(buffer))

=============================================================================
