------------------------------- MODULE Cdrom -------------------------------
(***************************************************************************)
(* Reading sectors from a CD by the BIOS (bios/device/cdrom.c): pread      *)
(* rounds, clamps to what the BIOS can address or to the scratch buffer,   *)
(* asks the BIOS once, and asks it once more for a single sector if that   *)
(* fails.                                                                  *)
(*                                                                         *)
(* A sector is a few units long.  A unit of the disc is its number.  The   *)
(* BIOS is external: it fails, having written any of the sectors asked     *)
(* for, or says how many it read.                                          *)
(***************************************************************************)
EXTENDS Integers, Sequences

CONSTANTS
  Sector,      \* 2048
  Scratch,     \* sizeof scratch_buffer
  Top,         \* 0x100000
  MaxBlocks,   \* 0x7F
  Requests,    \* the calls made: where to, how much, from where; and where
               \* in its paragraph of 16 bytes the linker put lba_packet
  Room         \* how much of memory from the buffer on is looked at

VARIABLES
  request,     \* buf, nbytes and offset as the caller passed them; packet
  nbytes,      \* the variable, rounded and clamped
  lba_packet,  \* blocks, lba, and whether the buffer is the scratch buffer
  cpc,         \* where pread is
  memory,      \* the units from buf on and of the scratch buffer
  nbytesread, status

vars == <<request, nbytes, lba_packet, cpc, memory, nbytesread, status>>

Old == -1    \* what was in memory before
Junk == -2   \* what a failed read left
Fresh == [buf |-> [i \in 0 .. Room - 1 |-> Old],
          scratch |-> [i \in 0 .. Scratch - 1 |-> Old]]
NoPacket == [blocks |-> 0, lba |-> 0, to |-> "buf"]

Begin ==
  /\ nbytes = request.nbytes
  /\ lba_packet = NoPacket /\ cpc = "called" /\ memory = Fresh
  /\ nbytesread = 0 /\ status = "none"

Init == request \in Requests /\ Begin

Lower(a, b) == IF a < b THEN a ELSE b
WholeSectors(n) == n - (n % Sector)

(* Mutant of Clamped: of the scratch buffer, more is used than there is.   *)
ClampedLow(n, buf) ==
  IF buf > Top - Sector THEN n ELSE Lower(n, WholeSectors(Top - buf))

Clamped(n, buf) ==
  IF buf > Top - Sector THEN Lower(n, WholeSectors(Scratch))
  ELSE Lower(n, WholeSectors(Top - buf))

Return(value) ==
  /\ cpc' = "returned" /\ status' = value
  /\ UNCHANGED <<request, nbytes, lba_packet, memory>>

Misaligned == cpc = "called" /\ request.offset % Sector # 0

Refuse == Misaligned /\ Return("EINVAL") /\ nbytesread' = 0

Nothing ==
  /\ cpc = "called" /\ ~Misaligned /\ WholeSectors(nbytes) = 0
  /\ Return("0") /\ nbytesread' = 0

Prepare ==
  /\ cpc = "called" /\ ~Misaligned /\ WholeSectors(nbytes) # 0
  /\ nbytes' = Clamped(WholeSectors(nbytes), request.buf)
  /\ lba_packet' = [blocks |-> Lower(MaxBlocks, nbytes' \div Sector),
                    lba |-> request.offset \div Sector,
                    to |-> IF request.buf > Top - Sector THEN "scratch" ELSE "buf"]
  /\ cpc' = "bios" /\ nbytesread' = 0
  /\ UNCHANGED <<request, memory, status>>

(* n units of memory, from the start of the buffer, replaced by those of a *)
(* function.                                                               *)
Written(from, n, units) ==
  [i \in DOMAIN from |-> IF i < n THEN units[i] ELSE from[i]]

DiscFrom(lba, n) == [i \in 0 .. n - 1 |-> lba * Sector + i]

(* int 0x13, function 0x42.  It takes the packet from DS:SI.  The code     *)
(* passes the packet's paragraph in DS, its offset in that in EDI, and 0   *)
(* in ESI.                                                                 *)
PacketFound == request.packet = 0

BiosReads ==
  /\ cpc = "bios" /\ PacketFound
  /\ \E k \in 0 .. lba_packet.blocks :
       /\ memory' = [memory EXCEPT ![lba_packet.to] =
                       Written(@, k * Sector, DiscFrom(lba_packet.lba, k * Sector))]
       /\ lba_packet' = [lba_packet EXCEPT !.blocks = k]
       /\ cpc' = IF k = 0 THEN "failed" ELSE "read"
  /\ UNCHANGED <<request, nbytes, nbytesread, status>>

Scribbled(k) ==
  [memory EXCEPT ![lba_packet.to] =
     Written(@, k * Sector, [i \in 0 .. k * Sector - 1 |-> Junk])]

BiosFails ==
  /\ cpc = "bios" /\ PacketFound /\ cpc' = "failed"
  /\ \E k \in 0 .. lba_packet.blocks : memory' = Scribbled(k)
  /\ UNCHANGED <<request, nbytes, lba_packet, nbytesread, status>>

(* The BIOS takes the bytes before lba_packet for a packet.  It may read   *)
(* something else to somewhere else, over the buffer or over the count of  *)
(* blocks or over neither, and report an error or not.                     *)
BiosAstray ==
  /\ cpc = "bios" /\ ~PacketFound
  /\ \E k \in 0 .. lba_packet.blocks : memory' = Scribbled(k)
  /\ \E k \in 0 .. lba_packet.blocks :
       /\ lba_packet' = [lba_packet EXCEPT !.blocks = k]
       /\ cpc' = "failed" \/ (k # 0 /\ cpc' = "read")
  /\ UNCHANGED <<request, nbytes, nbytesread, status>>

(* Mutant of Retry: the call is repeated as it was.                        *)
RetrySame ==
  /\ cpc = "failed" /\ nbytes > Sector
  /\ cpc' = "called"
  /\ UNCHANGED <<request, nbytes, lba_packet, memory, nbytesread, status>>

(* pread calls itself for one sector.                                      *)
Retry ==
  /\ cpc = "failed" /\ nbytes > Sector
  /\ nbytes' = Sector /\ cpc' = "called"
  /\ UNCHANGED <<request, lba_packet, memory, nbytesread, status>>

GiveUp == cpc = "failed" /\ nbytes <= Sector /\ Return("EIO") /\ UNCHANGED nbytesread

Finish ==
  /\ cpc = "read" /\ cpc' = "returned" /\ status' = "0"
  /\ memory' = IF lba_packet.to = "buf" THEN memory
               ELSE [memory EXCEPT !.buf =
                       Written(@, lba_packet.blocks * Sector, memory.scratch)]
  /\ nbytesread' = lba_packet.blocks * Sector
  /\ UNCHANGED <<request, nbytes, lba_packet>>

Next ==
  \/ Refuse \/ Nothing \/ Prepare \/ BiosReads \/ BiosFails \/ BiosAstray
  \/ Retry \/ GiveUp \/ Finish

Spec == Init /\ [][Next]_vars

Ended == cpc = "returned"

-----------------------------------------------------------------------------
(* "ioctl pread(void *buf, size_t nbytes, size_t *nbytesread, uint64_t     *)
(* offset)": what pread says it read is what it read.  The first           *)
(* nbytesread units of the buffer are those of the disc from the offset    *)
(* on, after a failed call for more as well; it is an error that nothing   *)
(* was read of a whole sector; and no unit was written beyond what the     *)
(* caller asked for, the scratch buffer, or what the BIOS can address.     *)
ReadsTheDisc ==
  /\ \A i \in DOMAIN memory.buf : i >= request.nbytes => memory.buf[i] = Old
  /\ lba_packet.to = "scratch" => lba_packet.blocks * Sector <= Scratch
  /\ lba_packet.to = "buf" /\ lba_packet.blocks # 0 =>
       request.buf + lba_packet.blocks * Sector <= Top
  /\ Ended =>
       /\ status = "0" => \A i \in 0 .. nbytesread - 1 :
                            memory.buf[i] = request.offset + i
       /\ status # "0" => nbytesread = 0
       /\ status = "0" /\ nbytesread = 0 => request.nbytes < Sector

(* So it is if lba_packet lies at the start of a paragraph, where the BIOS *)
(* looks for it.                                                           *)
ReadsIfPacketFound == PacketFound => ReadsTheDisc

=============================================================================
