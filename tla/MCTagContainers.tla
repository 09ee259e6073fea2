-------------------------- MODULE MCTagContainers --------------------------
(***************************************************************************)
(* Types and names for the containers.                                     *)
(***************************************************************************)
EXTENDS TagContainers

ListTypes     == {kTagByte, kTagList}
CompoundTypes == {kTagByte, kTagCompound}

NoKeys  == {}
OneKey  == {<<97>>}
TwoKeys == {<< >>, <<97>>}
=============================================================================
