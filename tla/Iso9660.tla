------------------------------ MODULE Iso9660 ------------------------------
(***************************************************************************)
(* Files of a CD's file system as devices (bal/fs/iso9660/iso9660.c):      *)
(* openat, read, pread, seek and close over lib9660, which is external and *)
(* known only by how it is used.  Its reads take one sector after the      *)
(* other from the block device, each of which may fail (Cdrom), and its    *)
(* seek sets the position before it may fail.                              *)
(***************************************************************************)
EXTENDS Integers, Sequences

CONSTANTS
  Handles,   \* the addresses malloc returns
  Volume,    \* the files: for each name, its first sector and its length
  Sector,    \* 2048
  Word,      \* 2^32, above the UINT32_MAX of file_seek
  Lengths, Offsets, Whences,   \* what callers pass
  MaxOps     \* bound on the operations of a behaviour

VARIABLES
  allocated,  \* the iso9660_file objects that were not freed
  opening,    \* the name and the object of the fs_openat under way
  file,       \* the file each open object is of, or NoFile
  position,   \* f->impl's position
  reply,      \* what the last operation answered
  ops

vars == <<allocated, opening, file, position, reply, ops>>

NoFile == [lba |-> 0, length |-> -1]
NotOpening == <<"none", "none">>
OpenNow == {h \in Handles : file[h] # NoFile}

Init ==
  /\ allocated = {} /\ opening = NotOpening
  /\ file = [h \in Handles |-> NoFile] /\ position = [h \in Handles |-> 0]
  /\ reply = <<"none">> /\ ops = 0

Answer(a) == reply' = a
Operation == opening = NotOpening /\ ops < MaxOps /\ ops' = ops + 1

-----------------------------------------------------------------------------
(* fs_openat, a step for each call that may fail.                          *)
OpenAt(name) ==
  /\ Operation
  /\ \/ \E h \in Handles \ allocated :
          allocated' = allocated \cup {h} /\ opening' = <<name, h>> /\ UNCHANGED reply
     \/ Answer(<<"failed", CHOOSE h \in Handles : TRUE>>) /\ UNCHANGED <<allocated, opening>>
  /\ UNCHANGED <<file, position>>

(* Mutant of OpenFails: the cleanup is left out.                           *)
OpenFailsLeaking ==
  /\ opening # NotOpening
  /\ Answer(<<"failed", opening[2]>>) /\ opening' = NotOpening
  /\ UNCHANGED <<allocated, file, position, ops>>

(* open_root or openat failed, for want of the file or of a sector.        *)
OpenFails ==
  /\ opening # NotOpening
  /\ allocated' = allocated \ {opening[2]}
  /\ Answer(<<"failed", opening[2]>>) /\ opening' = NotOpening
  /\ UNCHANGED <<file, position, ops>>

OpenSucceeds ==
  /\ opening # NotOpening /\ opening[1] \in DOMAIN Volume
  /\ file' = [file EXCEPT ![opening[2]] = Volume[opening[1]]]
  /\ position' = [position EXCEPT ![opening[2]] = 0]
  /\ Answer(<<"open", opening[2]>>) /\ opening' = NotOpening
  /\ UNCHANGED <<allocated, ops>>

-----------------------------------------------------------------------------
(* read_sector: the byte offset passed to the block device has 32 bits.    *)
SectorAt(s) == [i \in 0 .. Sector - 1 |-> ((s * Sector) % Word) + i]

Byte(f, i) == SectorAt(f.lba + (i \div Sector))[i % Sector]

(* l9660_read: the bytes from the position on, up to the end of the file.  *)
Count(h, n) ==
  LET rest == file[h].length - position[h]
  IN IF rest <= 0 THEN 0 ELSE IF n < rest THEN n ELSE rest

Bytes(h, n) == [i \in 1 .. Count(h, n) |-> Byte(file[h], position[h] + i - 1)]

Read(h, n) ==
  /\ Operation /\ h \in OpenNow
  /\ \/ /\ Answer(<<"read", h, n, Bytes(h, n)>>)
        /\ position' = [position EXCEPT ![h] = @ + Count(h, n)]
     \/ /\ Answer(<<"failed", h>>)
        /\ \E p \in position[h] .. position[h] + Count(h, n) :
             position' = [position EXCEPT ![h] = p]
  /\ UNCHANGED <<allocated, opening, file>>

(* Mutant of Pread: the position is not restored.                          *)
PreadMoves(h, n, offset) ==
  /\ Operation /\ h \in OpenNow
  /\ Answer(<<"pread", h, n, offset, Bytes(h, n)>>)
  /\ position' = [position EXCEPT ![h] = @ + Count(h, n)]
  /\ UNCHANGED <<allocated, opening, file>>

(* file_pread reads at the position, not at the offset it is passed, and   *)
(* then seeks back.  Either call may fail.                                 *)
Pread(h, n, offset) ==
  /\ Operation /\ h \in OpenNow
  /\ \/ Answer(<<"pread", h, n, offset, Bytes(h, n)>>)
     \/ Answer(<<"pread failed", h>>)
  /\ UNCHANGED <<allocated, opening, file, position>>

From(h, whence) ==
  CASE whence = "SET" -> 0 [] whence = "CUR" -> position[h]
    [] whence = "END" -> file[h].length

Seek(h, whence, offset) ==
  /\ Operation /\ h \in OpenNow
  /\ \/ offset >= Word /\ Answer(<<"failed", h>>) /\ UNCHANGED position
     \/ /\ offset < Word
        /\ position' = [position EXCEPT ![h] = (From(h, whence) + offset) % Word]
        /\ \/ Answer(<<"seek", h, whence, offset, position'[h]>>)
           \/ Answer(<<"failed", h>>)
  /\ UNCHANGED <<allocated, opening, file>>

Close(h) ==
  /\ Operation /\ h \in OpenNow
  /\ allocated' = allocated \ {h} /\ file' = [file EXCEPT ![h] = NoFile]
  /\ Answer(<<"close", h>>) /\ UNCHANGED <<opening, position>>

Next ==
  \/ \E name \in DOMAIN Volume \cup {"missing"} : OpenAt(name)
  \/ OpenFails \/ OpenSucceeds
  \/ \E h \in Handles :
       \/ Close(h)
       \/ \E n \in Lengths :
            Read(h, n) \/ \E offset \in Offsets : Pread(h, n, offset)
       \/ \E whence \in Whences, offset \in Offsets : Seek(h, whence, offset)

Spec == Init /\ [][Next]_vars

-----------------------------------------------------------------------------
(* Nothing is lost: between calls of openat, each iso9660_file in memory   *)
(* is a file somebody can close, on every path through openat's cleanup.   *)
NoFileLeaks == opening = NotOpening => allocated = OpenNow

OF == INSTANCE OpenFiles WITH
        Closed <- -1, answer <- reply,
        position <- [h \in Handles |-> IF file[h] = NoFile THEN -1 ELSE position[h]],
        contents <- [h \in Handles |->
                       [i \in 1 .. file[h].length |-> file[h].lba * Sector + i - 1]]

(* However reads, preads, seeks and failures of the drive follow each      *)
(* other on several files, every answer is the one OpenFiles promises, but *)
(* for the bytes of a pread, which are those at the position; and no pread *)
(* moves the position, even if it fails.                                   *)
ImplementsButPread == OF!SpecHere

(* ioctl.txt: "ioctl pread(void *buf, size_t nbytes, size_t *nbytesread,   *)
(* uint64_t offset)": the bytes of a pread are those at its offset.        *)
ImplementsOpenFiles == OF!Spec

=============================================================================
