---------------------------- MODULE MCSioMemcard ----------------------------
(***************************************************************************)
(* SioMemcard on a card of two blocks of three sectors, with sectors of    *)
(* two bytes.  ProtocolWire lets the host try every command and stray      *)
(* bytes, and address the first directory frame (sector 1) or the first    *)
(* sector behind the card (9) with fitting and unfitting checksums.        *)
(* WriterWire is a host that only ever writes that directory frame, while  *)
(* the emulator puts files on the card.                                    *)
(***************************************************************************)
EXTENDS SioMemcard

ProtocolWire ==
  [s \in States |->
     CASE s = "IDLE"     -> {129, 1, 0}
       [] s = "WAIT_CMD" -> {82, 87, 83, 0}
       [] s = "PAD_POLL" -> {66, 0}
       [] s \in {"READ_LSB", "WRITE_LSB"} -> {1, 9}
       [] s = "WRITE_DATA" -> {81}
       [] s = "WRITE_CHECKSUM" -> {1, 9}
       [] OTHER -> {0}]

WriterWire ==
  [s \in States |->
     CASE s = "IDLE"       -> {129}
       [] s = "WAIT_CMD"   -> {87}
       [] s = "WRITE_LSB"  -> {1}
       [] s = "WRITE_DATA" -> {160}
       [] s = "WRITE_CHECKSUM" -> {1}
       [] OTHER -> {0}]

NoFills == {}
OneFill == {<<1, 1>>}
MCTails == {2}
OnePad  == {<<255, 255>>}
TwoPads == {<<255, 255>>, <<254, 255>>}
=============================================================================
