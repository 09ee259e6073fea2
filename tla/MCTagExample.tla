---------------------------- MODULE MCTagExample ----------------------------
(***************************************************************************)
(* Files for example/main.cc: the documents and the malformed buffers that *)
(* the reader is checked with.                                             *)
(***************************************************************************)
EXTENDS TagExample, MCTagReader

Files == WellFormed \cup FewBuffers
MaxU16 == 65535

(* The encodings are documents of the grammar. *)
ASSUME EncodingsAssumption == \A b \in WellFormed : IsDocument(b, Parsed(b))
=============================================================================
