----------------------------- MODULE OpenFiles -----------------------------
(***************************************************************************)
(* What a file system promises of the files open in it: read gives the     *)
(* bytes from the file's position on and moves it past them, seek moves it *)
(* where it was told, pread gives the bytes from an offset on and leaves   *)
(* the position alone, even if it fails.  After a failed read or seek the  *)
(* position may be anywhere.  An answer repeats what was asked.            *)
(***************************************************************************)
EXTENDS Integers, Sequences

CONSTANTS
  Handles, Lengths, Offsets, Whences,
  Word,    \* positions are numbers below Word
  Closed   \* the position of a file that is not open

VARIABLES
  contents,  \* the bytes of the file open at each handle
  position,
  answer     \* what the last operation answered

vars == <<contents, position, answer>>

Slice(s, from, n) ==
  SubSeq(s, from + 1, IF from + n < Len(s) THEN from + n ELSE Len(s))

IsOpen(h) == position[h] # Closed

OthersKept(h) == \A g \in Handles \ {h} : contents'[g] = contents[g]

Init == position = [h \in Handles |-> Closed] /\ answer = <<"none">>

Open(h) ==
  /\ ~IsOpen(h) /\ position' = [position EXCEPT ![h] = 0]
  /\ answer' = <<"open", h>> /\ OthersKept(h)

Close(h) ==
  /\ IsOpen(h) /\ position' = [position EXCEPT ![h] = Closed]
  /\ answer' = <<"close", h>> /\ OthersKept(h)

Read(h, n) ==
  /\ IsOpen(h)
  /\ answer' = <<"read", h, n, Slice(contents[h], position[h], n)>>
  /\ position' = [position EXCEPT ![h] = @ + Len(answer'[4])]
  /\ UNCHANGED contents

Pread(h, n, offset) ==
  /\ IsOpen(h) /\ answer' = <<"pread", h, n, offset, Slice(contents[h], offset, n)>>
  /\ UNCHANGED <<contents, position>>

FailedPread(h) == answer' = <<"pread failed", h>> /\ UNCHANGED <<contents, position>>

Target(h, whence, offset) ==
  ((CASE whence = "SET" -> 0 [] whence = "CUR" -> position[h]
      [] whence = "END" -> Len(contents[h])) + offset) % Word

Seek(h, whence, offset) ==
  /\ IsOpen(h)
  /\ answer' = <<"seek", h, whence, offset, Target(h, whence, offset)>>
  /\ position' = [position EXCEPT ![h] = answer'[5]]
  /\ UNCHANGED contents

Fail(h) ==
  /\ answer' = <<"failed", h>> /\ UNCHANGED contents
  /\ \A g \in Handles \ {h} : position'[g] = position[g]
  /\ position'[h] = Closed <=> position[h] = Closed

Next ==
  \E h \in Handles :
    \/ Open(h) \/ Close(h) \/ FailedPread(h) \/ Fail(h)
    \/ \E n \in Lengths : Read(h, n) \/ \E offset \in Offsets : Pread(h, n, offset)
    \/ \E offset \in Offsets, whence \in Whences : Seek(h, whence, offset)

Spec == Init /\ [][Next]_vars

-----------------------------------------------------------------------------
(* A weaker promise: pread gives the bytes at the position, whatever its   *)
(* offset, and all else is as before.                                      *)
PreadHere(h, n, offset) ==
  /\ IsOpen(h) /\ answer' = <<"pread", h, n, offset, Slice(contents[h], position[h], n)>>
  /\ UNCHANGED <<contents, position>>

NextHere == Next \/ \E h \in Handles, n \in Lengths, offset \in Offsets : PreadHere(h, n, offset)

SpecHere == Init /\ [][NextHere]_vars

=============================================================================
