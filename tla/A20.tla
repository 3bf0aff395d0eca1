-------------------------------- MODULE A20 --------------------------------
(***************************************************************************)
(* Opening the gate of address line A20 (bios/stage1/a20.S): a20_enable    *)
(* asks the BIOS, then the keyboard controller, then port 0x92, and checks *)
(* after each whether the gate is open.                                    *)
(*                                                                         *)
(* The keyboard controller is external, and works on its own: it takes a   *)
(* byte from its input buffer, carries it out, and puts an answer, or a    *)
(* key, in its output buffer.  Reading that gives the last byte put there, *)
(* whether it is new or not.  Of a byte for the controller's output port   *)
(* two bits are of interest: "a20", and "run", without which the processor *)
(* is reset.                                                               *)
(***************************************************************************)
EXTENDS Integers, Sequences

CONSTANT Boards  \* what the BIOS and the gates of the board do

VARIABLES
  board,
  apc,       \* where a20_enable is
  gate,      \* the gate is open
  inbuf,     \* the controller's input buffer
  busy,      \* what the controller carries out
  outbuf,    \* its output buffer: the byte, and whether nobody read it yet
  port,      \* its output port
  keyboard,  \* the keyboard is enabled
  saved      \* the byte a20_enable pushed

controller == <<inbuf, busy, outbuf, port, keyboard>>
avars == <<board, apc, gate, controller, saved>>

Bit == {"a20", "run"}
Board == [gate : BOOLEAN, bios : {"opens", "refuses", "lies"}, wired : BOOLEAN,
          query : BOOLEAN, fast : {"opens", "dead", "set"}, stale : SUBSET Bit]

Command(c) == [command |-> c, data |-> {}]
Data(bits) == [command |-> "data", data |-> bits]

Begin ==
  /\ apc = "start" /\ gate = board.gate /\ inbuf = <<>> /\ busy = <<>>
  /\ outbuf = [byte |-> board.stale, full |-> FALSE]
  /\ port = {"run"} /\ keyboard = TRUE /\ saved = {}

Init == board \in Boards /\ Begin

Goto(label) == apc' = label /\ UNCHANGED board

-----------------------------------------------------------------------------
(* a20_check, and on to the next method or to the end.                     *)
a20_check(at, closed) ==
  /\ apc = at /\ Goto(IF gate THEN "returned" ELSE closed)
  /\ UNCHANGED <<gate, controller, saved>>

Check ==
  \/ a20_check("start", "bios") \/ a20_check("asked", "disable")
  \/ a20_check("told", "query") \/ a20_check("tried", "aborted")

(* int 0x15, function 0x2401: it may say that it opened the gate and not   *)
(* have done it.                                                           *)
AskBios ==
  /\ apc = "bios" /\ gate' = (gate \/ board.bios = "opens")
  /\ Goto(IF board.bios = "refuses" THEN "disable" ELSE "asked")
  /\ UNCHANGED <<controller, saved>>

(* kyb_wait_input_buf, and a byte for the controller.  Interrupts are off: *)
(* nobody else talks to it.                                                *)
Out(at, c, then) ==
  /\ apc = at /\ inbuf = <<>> /\ inbuf' = <<c>> /\ Goto(then)
  /\ UNCHANGED <<gate, busy, outbuf, port, keyboard, saved>>

Tell ==
  \/ Out("disable", Command("AD"), "ask") \/ Out("ask", Command("D0"), "answer")
  \/ Out("write", Command("D1"), "byte")  \/ Out("byte", Data(saved \cup {"a20"}), "enable")
  \/ Out("enable", Command("AE"), "settle")

(* kyb_wait_output_buf waits until the output buffer is empty.             *)
kyb_wait_output_buf ==
  /\ apc = "answer" /\ ~outbuf.full /\ Goto("in")
  /\ UNCHANGED <<gate, controller, saved>>

In ==
  /\ apc = "in" /\ saved' = outbuf.byte /\ outbuf' = [outbuf EXCEPT !.full = FALSE]
  /\ Goto("write") /\ UNCHANGED <<gate, inbuf, busy, port, keyboard>>

(* Mutant of Settle: the last command is not waited for.                   *)
SettleBlind ==
  /\ apc = "settle" /\ Goto("told")
  /\ UNCHANGED <<gate, controller, saved>>

(* The last command was taken, and so the one before it is done.           *)
Settle ==
  /\ apc = "settle" /\ inbuf = <<>> /\ Goto("told")
  /\ UNCHANGED <<gate, controller, saved>>

(* int 0x15, function 0x2403, and port 0x92, unless its bit is set.        *)
Query ==
  /\ apc = "query" /\ Goto(IF board.query THEN "fast" ELSE "aborted")
  /\ UNCHANGED <<gate, controller, saved>>

FastA20 ==
  /\ apc = "fast" /\ gate' = (gate \/ board.fast = "opens")
  /\ Goto(IF board.fast = "set" THEN "aborted" ELSE "tried")
  /\ UNCHANGED <<controller, saved>>

a20_enable ==
  \/ Check \/ AskBios \/ Tell \/ kyb_wait_output_buf \/ In \/ Settle
  \/ Query \/ FastA20

-----------------------------------------------------------------------------
(* The keyboard controller.                                                *)
Take ==
  /\ inbuf # <<>> /\ busy = <<>> /\ busy' = inbuf /\ inbuf' = <<>>
  /\ UNCHANGED <<board, apc, gate, outbuf, port, keyboard, saved>>

CarryOut ==
  /\ busy # <<>> /\ busy' = <<>>
  /\ LET c == Head(busy)
         writes == c.command = "data"
     IN /\ keyboard' = (c.command = "AE" \/ (keyboard /\ c.command # "AD"))
        /\ outbuf' = IF c.command = "D0" THEN [byte |-> port, full |-> TRUE] ELSE outbuf
        /\ port' = IF writes THEN c.data ELSE port
        /\ gate' = IF writes /\ board.wired THEN "a20" \in c.data ELSE gate
        /\ apc' = IF writes /\ "run" \notin c.data THEN "reset" ELSE apc
  /\ UNCHANGED <<board, inbuf, saved>>

Control == apc # "reset" /\ (Take \/ CarryOut)

(* A key is pressed.  As long as interrupts are on the BIOS reads it.      *)
InterruptsOn == apc \in {"start", "bios", "asked", "returned", "reset"}

Key ==
  /\ keyboard /\ ~outbuf.full /\ ~InterruptsOn
  /\ \E b \in SUBSET Bit : outbuf' = [byte |-> b, full |-> TRUE]
  /\ UNCHANGED <<board, apc, gate, inbuf, busy, port, keyboard, saved>>

Next == a20_enable \/ Control \/ Key

Spec == Init /\ [][Next]_avars

(* The processor and the controller go on; nobody has to press a key.      *)
FairSpec == Spec /\ WF_avars(a20_enable) /\ WF_avars(Control)

-----------------------------------------------------------------------------
(* a20_enable returns only with the gate open, and gives boot up only with *)
(* the gate closed and after every method that would have opened it: in    *)
(* particular it does not look before the controller has done what it was  *)
(* told.                                                                   *)
GateAsReported ==
  /\ apc = "returned" => gate
  /\ apc = "aborted" =>
       /\ ~gate /\ board.bios # "opens" /\ ~board.wired
       /\ ~(board.query /\ board.fast = "opens")

(* The two ways in which a20_enable neither returns nor gives up: the      *)
(* answer, or a key, is in the output buffer before kyb_wait_output_buf    *)
(* looks, which then waits for it to go away; or it looked earlier, and a  *)
(* byte that is not the controller's answer is written to the output port. *)
WaitsForEver == apc = "answer" /\ outbuf.full
WasReset     == apc = "reset"

=============================================================================
