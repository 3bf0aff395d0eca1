-------------------------------- MODULE Pxe --------------------------------
(***************************************************************************)
(* Stage 1 started from a network (stage1/init.S with pxe/storage.S): it   *)
(* opens the boot abstraction layer by TFTP, reads it a packet at a time   *)
(* and enters it.                                                          *)
(*                                                                         *)
(* Every call of the PXE API is a step that may fail.  The API and the     *)
(* server are external: packets come in order, all of them full but the    *)
(* last, and between two calls the files on the server may be replaced.    *)
(* A unit of a file is known by the file it is of, its edition and its     *)
(* offset.  a20_enable is module A20; here it returns, gives up, or does   *)
(* neither.                                                                *)
(***************************************************************************)
EXTENDS Integers

CONSTANTS
  Servers,      \* the networks
  PACKET_SIZE,  \* 512
  Load,         \* BAL_LOAD_ADDRESS
  Megabyte,     \* 2^20: segment and offset of 16 bits reach no further
  NameLength    \* the length of the names gd_bal.64 and gd_bal.32

VARIABLES
  server,    \* the structures of the PXE ROM, and the lengths of the files
             \* before and after they are replaced
  long_mode, \* the processor has it
  edition,   \* how often the files were replaced
  ppc,       \* the label stage 1 is at
  api,       \* where pxe_api_addr was taken from
  want,      \* the file opened: 64 or 32
  file_size, \* as TFTP_GET_FSIZE reported it
  session,   \* the file TFTP_OPEN opened, and how much of it was sent
  edi, ecx,  \* of file_read
  pmem,      \* memory
  failed     \* a call failed (history)

rom   == <<server, long_mode, edition>>
read  == <<edi, ecx, pmem>>
pvars == <<rom, ppc, api, want, file_size, session, read, failed>>

NotThere == -1   \* the length of a file the server does not have
Files == [{32, 64} -> Nat \cup {NotThere}]
Server == [pxenv : BOOLEAN, version : Nat, pxe : BOOLEAN, limit : Nat,
           files : Files, later : Files]
Free == <<0, 0, 0>>   \* of no file
NoSession == [file |-> 0, edition |-> 0, length |-> 0, sent |-> 0]

Begin ==
  /\ edition = 0 /\ ppc = "init" /\ api = "none" /\ want = 0 /\ file_size = 0
  /\ session = NoSession /\ edi = 0 /\ ecx = 0 /\ failed = FALSE
  /\ pmem = [a \in 0 .. Megabyte + PACKET_SIZE - 1 |-> Free]

Init == server \in Servers /\ long_mode \in BOOLEAN /\ Begin

Goto(label) == ppc' = label /\ UNCHANGED failed
Abort       == Goto("aborted") /\ UNCHANGED <<rom, api, want, file_size, session, read>>

(* pxe_error, and a20_enable's abort_boot.                                 *)
CallFails ==
  /\ ppc \in {"cached", "a20", "fsize", "open", "read", "close"}
  /\ ppc' = "aborted" /\ failed' = TRUE
  /\ UNCHANGED <<rom, api, want, file_size, session, read>>

(* Somebody replaces the files on the server.                              *)
Replace ==
  /\ edition = 0 /\ edition' = 1
  /\ UNCHANGED <<server, long_mode, ppc, api, want, file_size, session, read, failed>>

Length == IF edition = 0 THEN server.files[want] ELSE server.later[want]

-----------------------------------------------------------------------------
(* storage_init: the PXENV+ structure, and !PXE if the version has it.     *)
NoPxe == ppc = "init" /\ ~server.pxenv /\ Abort

FindApi ==
  /\ ppc = "init" /\ server.pxenv /\ Goto("cached")
  /\ api' = IF server.version >= 513 /\ server.pxe THEN "!PXE" ELSE "PXENV+"
  /\ UNCHANGED <<rom, want, file_size, session, read>>

GetCachedInfo ==
  /\ ppc = "cached" /\ Goto("a20")
  /\ UNCHANGED <<rom, api, want, file_size, session, read>>

A20Enabled ==
  /\ ppc = "a20" /\ Goto("fsize") /\ want' = IF long_mode THEN 64 ELSE 32
  /\ UNCHANGED <<rom, api, file_size, session, read>>

-----------------------------------------------------------------------------
(* file_open.  How much of the name is copied is the word at address 122   *)
(* of the name's segment: the 122 was meant as the number itself.          *)
NameCopied == server.limit = 0 \/ server.limit >= NameLength

(* file_open returned non-zero: gd_bal.32 is tried after gd_bal.64.        *)
NotFound ==
  \/ want = 64 /\ want' = 32 /\ Goto("fsize")
  \/ want = 32 /\ Goto("aborted") /\ UNCHANGED want

FsizeNotFound ==
  /\ ppc = "fsize" /\ (Length = NotThere \/ ~NameCopied)
  /\ NotFound /\ UNCHANGED <<rom, api, file_size, session, read>>

GetFsize ==
  /\ ppc = "fsize" /\ Length # NotThere /\ NameCopied
  /\ file_size' = Length /\ Goto("open")
  /\ UNCHANGED <<rom, api, want, session, read>>

OpenNotFound ==
  /\ ppc = "open" /\ Length = NotThere
  /\ NotFound /\ UNCHANGED <<rom, api, file_size, session, read>>

Open ==
  /\ ppc = "open" /\ Length # NotThere /\ Goto("read")
  /\ session' = [file |-> want, edition |-> edition, length |-> Length, sent |-> 0]
  /\ edi' = Load /\ ecx' = file_size
  /\ UNCHANGED <<rom, api, want, file_size, pmem>>

-----------------------------------------------------------------------------
(* file_read: up to a packet that is not full, or to the size reported.    *)
Packet == LET rest == session.length - session.sent
          IN IF rest < PACKET_SIZE THEN rest ELSE PACKET_SIZE

(* The buffer's segment has 16 bits.                                       *)
Buffer == edi % Megabyte

Received ==
  [a \in DOMAIN pmem |->
     IF Buffer <= a /\ a < Buffer + Packet
     THEN <<session.file, session.edition, session.sent + a - Buffer>> ELSE pmem[a]]

LastPacketEarly == Packet < PACKET_SIZE \/ ecx < 2 * Packet   \* mutant of LastPacket

LastPacket == Packet < PACKET_SIZE \/ ecx <= Packet

Read ==
  /\ ppc = "read" /\ pmem' = Received
  /\ session' = [session EXCEPT !.sent = @ + Packet]
  /\ edi' = IF Packet < PACKET_SIZE THEN edi ELSE edi + Packet
  /\ ecx' = IF LastPacket THEN ecx ELSE ecx - Packet
  /\ Goto(IF LastPacket THEN "close" ELSE "read")
  /\ UNCHANGED <<rom, api, want, file_size>>

(* file_close, and on to the file read.                                    *)
Close ==
  /\ ppc = "close" /\ Goto("entered")
  /\ UNCHANGED <<rom, api, want, file_size, session, read>>

Stage1 ==
  \/ CallFails \/ NoPxe \/ FindApi \/ GetCachedInfo \/ A20Enabled
  \/ FsizeNotFound \/ GetFsize \/ OpenNotFound \/ Open \/ Read \/ Close

Next == Stage1 \/ Replace

Spec == Init /\ [][Next]_pvars

Ended == ppc \in {"aborted", "entered"}

-----------------------------------------------------------------------------
(* At some time the server did not have the file.                          *)
Lacked(f) == server.files[f] = NotThere \/ (edition = 1 /\ server.later[f] = NotThere)

(* Memory is as it was but for the first n units of the file opened, all   *)
(* of one edition and in order.                                            *)
InMemory(n) ==
  \A a \in DOMAIN pmem :
    pmem[a] = IF Load <= a /\ a < Load + n
              THEN <<session.file, session.edition, a - Load>> ELSE Free

(* Stage 1 enters gd_bal.64 only on a processor with long mode, and        *)
(* gd_bal.32 only on one without, or because the server lacked the other.  *)
(* Of the file entered it has read all, or at least as much as the server  *)
(* said its length was when asked, which is less than all of it if the     *)
(* file was replaced by a longer one in between; and what it has read is   *)
(* in memory in order, with nothing else touched, if it fits below the     *)
(* first megabyte.  Boot is given up only because a call failed or         *)
(* a20_enable gave up, there is no PXE, the name was cut off, or the       *)
(* server lacked every file this processor could have.                     *)
PxeHandsOver ==
  /\ ppc = "entered" =>
       /\ session.file = want
       /\ want = 64 => long_mode
       /\ want = 32 => ~long_mode \/ Lacked(64)
       /\ session.sent = session.length \/ file_size <= session.sent
       /\ Load + session.sent <= Megabyte => InMemory(session.sent)
  /\ ppc = "aborted" =>
       failed \/ ~server.pxenv \/ ~NameCopied \/ (Lacked(32) /\ (long_mode => Lacked(64)))

(* "Reads the currently open file": all of the file that was opened is in  *)
(* memory when stage 1 enters it.                                          *)
WholeFileRead == ppc = "entered" => InMemory(session.length)

=============================================================================
