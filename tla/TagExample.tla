----------------------------- MODULE TagExample -----------------------------
(***************************************************************************)
(* example/main.cc: a file is loaded, written into a buffer of             *)
(* GetBufferSize() bytes, and loaded again from there.                     *)
(*                                                                         *)
(* The reader and the writer are TagReader and TagWriter, on the same      *)
(* heap and root: the one's variables have their own names, the other's    *)
(* begin with a w.                                                         *)
(***************************************************************************)
EXTENDS TagReader

CONSTANT UINT16_MAX   \* the largest uint16_t

VARIABLES
  wlimit, wout, wstack, wpc, wret, wresult,
  written   \* auxiliary: the tags that Write was called for

reader  == <<buffer, stack, pc, ret, result, read_level, consumed, loads>>
writer  == <<wlimit, wout, wstack, wpc, wret, wresult>>
allVars == <<heap, root, reader, writer, written>>

W == INSTANCE TagWriter WITH
       Entities <- {}, Limits <- {}, limit <- wlimit, out <- wout,
       stack <- wstack, pc <- wpc, ret <- wret, result <- wresult

(* The tags, as the format has them, and whether every list has children.   *)
Tags == [bytes |-> W!Document(W!Before), filled |-> W!NoEmptyLists]

-----------------------------------------------------------------------------
ExampleInit ==
  /\ Init
  /\ wlimit = 0 /\ wout = << >> /\ wstack = << >>
  /\ wpc = "done" /\ wret = 0 /\ wresult = "none"
  /\ written = Tags

LoadFile == loads = 0 /\ Load /\ UNCHANGED <<writer, written>>

LoadStep == ReadStep /\ UNCHANGED <<writer, written>>

(* main returns when the file could not be loaded.                          *)
WriteBack ==
  /\ loads = 1 /\ pc = "done" /\ result = "true"
  /\ wpc = "done" /\ wresult = "none"
  /\ W!Write(W!GetBufferSize)
  /\ written' = Tags
  /\ UNCHANGED reader

WriteBackStep == W!WriteStep /\ UNCHANGED <<reader, written>>

(* What Write returned is printed, and the buffer is loaded whatever it is. *)
(* No byte of it is left as malloc gave it: see WriteBackFillsBuffer.       *)
LoadBack ==
  /\ loads = 1 /\ wresult # "none"
  /\ MayLoad /\ LoadFrom(wout)
  /\ UNCHANGED <<writer, written>>

ExampleNext == LoadFile \/ LoadStep \/ WriteBack \/ WriteBackStep \/ LoadBack

ExampleSpec == ExampleInit /\ [][ExampleNext]_allVars

-----------------------------------------------------------------------------
(* What has been loaded can be written, and fills the GetBufferSize() bytes *)
(* that main allocates for it: every name that was read is short enough to  *)
(* be written, and nothing uninitialized is loaded back.                    *)
WriteBackFillsBuffer ==
  wresult # "none" => wresult = "written" /\ wret = wlimit /\ Len(wout) = wlimit

(* The tags come back, whatever the order they were read in the first time, *)
(* unless there is an empty list among them: the reader turns down the form *)
(* TagList::WriteToBuffer gives to those.                                   *)
ComesBack ==
  loads = 2 /\ pc = "done" =>
    /\ (result = "true") <=> written.filled
    /\ result = "true"  => Tags = written

(* Both ways of main, there and back.                                       *)
RoundTrip == WriteBackFillsBuffer /\ ComesBack

-----------------------------------------------------------------------------
(* Claims of the repository that the code does not keep                     *)

(* tag_type.h: kTagEnd "may also be the type of empty List tags"; main.cc   *)
(* loads what it has written.                                               *)
ReloadSucceeds == loads = 2 /\ pc = "done" => result = "true"

=============================================================================
