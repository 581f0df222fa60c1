----------------------------- MODULE SioMemcard -----------------------------
(***************************************************************************)
(* The serial port with its memory card and pad (source/hle/hle_memcard.c).*)
(* The host (the guest program) sends one byte at a time; every byte moves *)
(* the protocol state machine sio_process_byte and pushes one reply into   *)
(* the receive FIFO.  The host may pop the FIFO, reset the port or toggle  *)
(* the interrupt at any moment, and the emulator's own API - file writer,  *)
(* load, format, reset, pad - may be called between any two bytes.         *)
(*                                                                         *)
(* Bit 1 of joy_stat mirrors rx # << >> and is left out; irq and ack are   *)
(* its bits 9 and 7, irqEnable is bit 12 of joy_ctrl.  joy_mode and        *)
(* joy_baud influence nothing.                                             *)
(*                                                                         *)
(* offer is a history variable: the bytes the host has sent of the write   *)
(* in progress.  No guard of the code reads it; it ties the model to       *)
(* CardStore.tla.                                                          *)
(***************************************************************************)
EXTENDS MemcardImage

CONSTANTS
  Wire,        \* what the host may send in each protocol state
  Pads,        \* button words of the pad: low byte, high byte
  FifoDepth,   \* replies the receive FIFO holds (8)
  Beyond,      \* checksums the memory behind the card may yield
  Fills,       \* sectors the payload of an emulator file is made of
  Tails,       \* sectors used of the last block of such a file
  Cuts         \* sectors a short write may leave in the card file

VARIABLES
  state,       \* protocol state
  msb, lsb, cur,             \* address bytes and the sector they name
  index, tmp, match,         \* payload position, write buffer, chk_match
  flag,                      \* flag_byte
  rx,                        \* receive FIFO, oldest first
  ack, irq, irqEnable,       \* joy_stat bits 7 and 9, joy_ctrl bit 12
  pad,                       \* pad_buttons
  card, disk, offer

address  == <<msb, lsb, cur>>
buffer   == <<index, tmp, match>>
store    == <<card, disk, offer>>
vars     == <<state, address, buffer, flag, rx, ack, irq, irqEnable, pad, store>>

-----------------------------------------------------------------------------
(* Replies the protocol gives whatever the host sends, with the state that *)
(* follows.                                                                *)

Script ==
  [READ_ID1   |-> <<90, "READ_ID2">>,    READ_ID2   |-> <<93, "READ_MSB">>,
   READ_ACK2  |-> <<93, "READ_CONFIRM_MSB">>,
   WRITE_ID1  |-> <<90, "WRITE_ID2">>,   WRITE_ID2  |-> <<93, "WRITE_MSB">>,
   WRITE_ACK2 |-> <<93, "WRITE_END">>,
   GETID_ID1  |-> <<90, "GETID_ID2">>,   GETID_ID2  |-> <<93, "GETID_ACK1">>,
   GETID_ACK1 |-> <<92, "GETID_ACK2">>,  GETID_ACK2 |-> <<93, "GETID_B0">>,
   GETID_B0   |-> <<4, "GETID_B1">>,     GETID_B1   |-> <<0, "GETID_B2">>,
   GETID_B2   |-> <<0, "GETID_B3">>,     PAD_BYTE1  |-> <<90, "PAD_SW_LO">>]

States ==
  DOMAIN Script \cup
  {"IDLE", "WAIT_CMD", "READ_MSB", "READ_LSB", "READ_CONFIRM_MSB",
   "READ_CONFIRM_LSB", "READ_DATA", "READ_CHECKSUM", "READ_END", "WRITE_MSB",
   "WRITE_LSB", "WRITE_DATA", "WRITE_CHECKSUM", "WRITE_END", "GETID_B3",
   "PAD_POLL", "PAD_SW_LO", "PAD_SW_HI"}

\* 'R', 'W' and 'S' after the card is selected.
Commands ==
  [b \in {82, 87, 83} |-> CASE b = 82 -> "READ_ID1" [] b = 87 -> "WRITE_ID1"
                            [] b = 83 -> "GETID_ID1"]

ASSUME SioAssumption ==
  /\ Wire \in [States -> SUBSET Byte]
  /\ Pads \subseteq Byte \X Byte
  /\ Beyond \subseteq Byte
  /\ FifoDepth \in Nat \ {0}
  /\ Fills \subseteq Sector
  /\ Tails \subseteq 1..BlockSectors
  /\ Cuts \subseteq 0..Total

-----------------------------------------------------------------------------
\* hle_memcard_reset, with no card file yet.
Init ==
  /\ state = "IDLE"
  /\ msb = 0 /\ lsb = 0 /\ cur = 0
  /\ index = 0 /\ tmp = Zeros /\ match = FALSE
  /\ flag = 8
  /\ rx = << >>
  /\ ack = FALSE /\ irq = FALSE /\ irqEnable = FALSE
  /\ pad = <<255, 255>>
  /\ card = Formatted /\ disk = << >> /\ offer = << >>

-----------------------------------------------------------------------------
(* One byte from the host.  Every branch pushes a reply - lost when the    *)
(* FIFO is full - and ends with the interrupt of a set ACK bit.            *)

\* Mutant: a full FIFO still takes the reply.
PushAlways(reply) == rx' = Append(rx, reply)

Push(reply) == rx' = IF Len(rx) < FifoDepth THEN Append(rx, reply) ELSE rx

Interrupt(acked) == irq' = (irq \/ (irqEnable /\ acked))

\* The exchange goes on with next; acked is the ACK bit it leaves.
Reply(reply, next, acked) ==
  /\ Push(reply)
  /\ state' = next
  /\ ack' = acked
  /\ Interrupt(acked)
  /\ UNCHANGED <<irqEnable, pad>>

\* A device is selected: 0x81 the card, 0x01 the pad.
Select(b) ==
  /\ state = "IDLE"
  /\ Reply(255, CASE b = 129 -> "WAIT_CMD" [] b = 1 -> "PAD_POLL"
                  [] OTHER -> "IDLE",
           ack \/ b \in {129, 1})
  /\ UNCHANGED <<address, buffer, flag, store>>

\* Mutant: an unknown command leaves the exchange open.
CommandWaits(b) ==
  /\ state = "WAIT_CMD"
  /\ IF b \in DOMAIN Commands
     THEN Reply(flag, Commands[b], ack)
     ELSE Reply(255, "WAIT_CMD", ack)
  /\ UNCHANGED <<address, buffer, flag, store>>

Command(b) ==
  /\ state = "WAIT_CMD"
  /\ IF b \in DOMAIN Commands
     THEN Reply(flag, Commands[b], ack)
     ELSE Reply(255, "IDLE", ack)
  /\ UNCHANGED <<address, buffer, flag, store>>

Scripted ==
  /\ state \in DOMAIN Script
  /\ Reply(Script[state][1], Script[state][2], ack)
  /\ UNCHANGED <<address, buffer, flag, store>>

ReadMsb(b) ==
  /\ state = "READ_MSB"
  /\ msb' = b
  /\ Reply(0, "READ_LSB", ack)
  /\ UNCHANGED <<lsb, cur, buffer, flag, store>>

ReadLsb(b) ==
  /\ state = "READ_LSB"
  /\ lsb' = b
  /\ cur' = msb * 256 + b
  /\ Reply(92, "READ_ACK2", ack)
  /\ UNCHANGED <<msb, buffer, flag, store>>

ReadConfirmMsb ==
  /\ state = "READ_CONFIRM_MSB"
  /\ Reply(msb, "READ_CONFIRM_LSB", ack)
  /\ UNCHANGED <<address, buffer, flag, store>>

ReadConfirmLsb ==
  /\ state = "READ_CONFIRM_LSB"
  /\ index' = 0
  /\ Reply(lsb, "READ_DATA", ack)
  /\ UNCHANGED <<address, tmp, match, flag, store>>

ReadData ==
  /\ state = "READ_DATA"
  /\ index' = index + 1
  /\ Reply(IF cur \in Numbers THEN card[cur][index + 1] ELSE 0,
           IF index + 1 >= SectorLen THEN "READ_CHECKSUM" ELSE "READ_DATA", ack)
  /\ UNCHANGED <<address, tmp, match, flag, store>>

\* The sector is not bounded here: behind the card the checksum is taken
\* over whatever memory follows it.
ReadChecksum ==
  /\ state = "READ_CHECKSUM"
  /\ \E sum \in IF cur \in Numbers THEN {Checksum(cur, card[cur])} ELSE Beyond :
       Reply(sum, "READ_END", ack)
  /\ UNCHANGED <<address, buffer, flag, store>>

ReadEnd ==
  /\ state = "READ_END"
  /\ Reply(71, "IDLE", FALSE)
  /\ UNCHANGED <<address, buffer, flag, store>>

WriteMsb(b) ==
  /\ state = "WRITE_MSB"
  /\ msb' = b
  /\ offer' = <<b>>
  /\ Reply(0, "WRITE_LSB", ack)
  /\ UNCHANGED <<lsb, cur, buffer, flag, card, disk>>

WriteLsb(b) ==
  /\ state = "WRITE_LSB"
  /\ lsb' = b
  /\ cur' = msb * 256 + b
  /\ index' = 0
  /\ offer' = Append(offer, b)
  /\ Reply(0, "WRITE_DATA", ack)
  /\ UNCHANGED <<msb, tmp, match, flag, card, disk>>

WriteData(b) ==
  /\ state = "WRITE_DATA"
  /\ IF index < SectorLen
     THEN tmp' = [tmp EXCEPT ![index + 1] = b] /\ index' = index + 1
     ELSE UNCHANGED <<tmp, index>>
  /\ offer' = Append(offer, b)
  /\ Reply(0, IF index' >= SectorLen THEN "WRITE_CHECKSUM" ELSE "WRITE_DATA", ack)
  /\ UNCHANGED <<address, match, flag, card, disk>>

WriteChecksum(b) ==
  /\ state = "WRITE_CHECKSUM"
  /\ match' = (b = Checksum(cur, tmp))
  /\ offer' = Append(offer, b)
  /\ Reply(92, "WRITE_ACK2", ack)
  /\ UNCHANGED <<address, index, tmp, flag, card, disk>>

\* Mutant: the sector is stored whatever its checksum.
WriteEndUnchecked ==
  /\ state = "WRITE_END"
  /\ IF cur \in Numbers
     THEN /\ card' = [card EXCEPT ![cur] = tmp]
          /\ disk' \in Saves(card', disk, Cuts)
     ELSE UNCHANGED <<card, disk>>
  /\ flag' = 0
  /\ offer' = << >>
  /\ Reply(IF match THEN 71 ELSE 78, "IDLE", FALSE)
  /\ UNCHANGED <<address, buffer>>

\* Nobody looks at the outcome of the save.
WriteEnd ==
  /\ state = "WRITE_END"
  /\ IF match /\ cur \in Numbers
     THEN /\ card' = [card EXCEPT ![cur] = tmp]
          /\ disk' \in Saves(card', disk, Cuts)
     ELSE UNCHANGED <<card, disk>>
  /\ flag' = 0
  /\ offer' = << >>
  /\ Reply(IF match THEN 71 ELSE 78, "IDLE", FALSE)
  /\ UNCHANGED <<address, buffer>>

GetIdEnd ==
  /\ state = "GETID_B3"
  /\ Reply(128, "IDLE", FALSE)
  /\ UNCHANGED <<address, buffer, flag, store>>

PadPoll(b) ==
  /\ state = "PAD_POLL"
  /\ IF b = 66 THEN Reply(65, "PAD_BYTE1", ack) ELSE Reply(255, "IDLE", ack)
  /\ UNCHANGED <<address, buffer, flag, store>>

PadLow ==
  /\ state = "PAD_SW_LO"
  /\ Reply(pad[1], "PAD_SW_HI", ack)
  /\ UNCHANGED <<address, buffer, flag, store>>

PadHigh ==
  /\ state = "PAD_SW_HI"
  /\ Reply(pad[2], "IDLE", FALSE)
  /\ UNCHANGED <<address, buffer, flag, store>>

SendByte(b) ==
  \/ Select(b) \/ Command(b) \/ Scripted
  \/ ReadMsb(b) \/ ReadLsb(b) \/ ReadConfirmMsb \/ ReadConfirmLsb
  \/ ReadData \/ ReadChecksum \/ ReadEnd
  \/ WriteMsb(b) \/ WriteLsb(b) \/ WriteData(b) \/ WriteChecksum(b) \/ WriteEnd
  \/ GetIdEnd
  \/ PadPoll(b) \/ PadLow \/ PadHigh

Send == \E b \in Wire[state] : SendByte(b)

-----------------------------------------------------------------------------
(* The rest of the port, and the emulator's API.                           *)

Pop ==
  /\ rx # << >>
  /\ rx' = Tail(rx)
  /\ UNCHANGED <<state, address, buffer, flag, ack, irq, irqEnable, pad, store>>

\* JOY_CTRL: bit 12 enables the interrupt, bit 4 acknowledges it, bit 6
\* resets the port; write buffer, address and card stay as they are.
WriteControl(enable, acknowledge, reset) ==
  /\ irqEnable' = enable
  /\ irq' = (irq /\ ~acknowledge /\ ~reset)
  /\ IF reset
     THEN state' = "IDLE" /\ rx' = << >> /\ ack' = FALSE /\ offer' = << >>
     ELSE UNCHANGED <<state, rx, ack, offer>>
  /\ UNCHANGED <<address, buffer, flag, pad, card, disk>>

SetButtons ==
  /\ pad' \in Pads
  /\ UNCHANGED <<state, address, buffer, flag, rx, ack, irq, irqEnable, store>>

Outside == <<state, address, buffer, rx, ack, irq, irqEnable, pad, offer>>

WriteFile(count, tail, fill) ==
  /\ Room(card, count)
  /\ card' = WithFile(card, count, tail, fill)
  /\ disk' \in Saves(card', disk, Cuts)
  /\ UNCHANGED <<Outside, flag>>

PutFile == \E count \in 1..Blocks, tail \in Tails, fill \in Fills :
             WriteFile(count, tail, fill)

Load ==
  /\ card' = Loaded(card, disk)
  /\ UNCHANGED <<Outside, flag, disk>>

Format ==
  /\ card' = Formatted
  /\ flag' = 8
  /\ UNCHANGED <<Outside, disk>>

\* hle_memcard_reset again, and a new process: only the card file survives.
Reset ==
  /\ state' = "IDLE"
  /\ msb' = 0 /\ lsb' = 0 /\ cur' = 0
  /\ index' = 0 /\ tmp' = Zeros /\ match' = FALSE
  /\ flag' = 8
  /\ rx' = << >>
  /\ ack' = FALSE /\ irq' = FALSE /\ irqEnable' = FALSE
  /\ pad' = <<255, 255>>
  /\ card' = Formatted /\ offer' = << >>
  /\ UNCHANGED disk

Port ==
  \/ Send \/ Pop
  \/ \E enable, acknowledge, reset \in BOOLEAN :
       WriteControl(enable, acknowledge, reset)

Api == SetButtons \/ PutFile \/ Load \/ Format \/ Reset

Next == Port \/ Api

\* The host keeps clocking bytes: a guest that talks to the port polls it to
\* the end of the exchange.  Nothing else is assumed.
Spec == Init /\ [][Next]_vars /\ WF_vars(Send)

-----------------------------------------------------------------------------
(* Properties.                                                             *)

\* Every register holds a value of its width, the FIFO at most its depth.
TypeOK ==
  /\ state \in States
  /\ msb \in Byte /\ lsb \in Byte /\ cur \in Nat /\ cur < 65536
  /\ index \in 0..SectorLen /\ tmp \in Sector /\ match \in BOOLEAN
  /\ flag \in {0, 8}
  /\ rx \in Seq(Byte) /\ Len(rx) <= FifoDepth
  /\ ack \in BOOLEAN /\ irq \in BOOLEAN /\ irqEnable \in BOOLEAN
  /\ pad \in Byte \X Byte
  /\ card \in Image /\ disk \in Seq(Sector)
  /\ offer \in Seq(Byte)

\* While an exchange is open the host sees the ACK bit: no path into the
\* protocol forgets to raise it and no reset or aborted exchange drops it
\* without also closing the exchange.
BusyShowsAck == state # "IDLE" => ack

\* A file the emulator puts on the card takes blocks that were free, links
\* them into one chain and leaves every block of another file alone.
FilesStayApart ==
  [][card' # card /\ PutFile =>
       /\ IsChain(card', {b \in 1..Blocks : IsFree(card, b) /\ ~IsFree(card', b)})
       /\ \A n \in Numbers :
            /\ n \in 1..Blocks /\ ~IsFree(card, n) => card'[n] = card[n]
            /\ BlockOf(n) \in 1..Blocks /\ ~IsFree(card, BlockOf(n))
                 => card'[n] = card[n]]_vars

\* Seen through card, card file and offered write, the serial protocol is
\* the card of CardStore: bytes that stop half way, a port reset in the
\* middle of a payload or a stale buffer never reach the card.
Files(image) ==
  {WithFile(image, count, tail, fill) :
     count \in {c \in 1..Blocks : Room(image, c)}, tail \in Tails, fill \in Fills}

Sendable == UNION {Wire[s] : s \in States}

Store == INSTANCE CardStore WITH
  Byte <- Sendable,
  Blank <- Formatted,
  Puts <- Files,
  Saves <- LAMBDA image, old : Saves(image, old, Cuts)

ImplementsCardStore == Store!Spec

\* Every exchange ends: a host that keeps clocking bytes, whatever it sends,
\* brings the port back to its idle state.
ExchangesEnd == []<>(state = "IDLE")
=============================================================================
