----------------------------- MODULE CardStore ------------------------------
(***************************************************************************)
(* What a memory card promises its host, whatever the wire protocol does:  *)
(* the card changes a whole sector at a time, and a sector changes only by *)
(* a write the host has offered in full - address, data and a checksum     *)
(* that fits - or by the emulator's own file operations, and each change   *)
(* goes to the card file in the same step.  An offer that is interrupted   *)
(* leaves no trace.                                                        *)
(***************************************************************************)
EXTENDS Naturals, Sequences

CONSTANTS
  Byte, Numbers, SectorLen,  \* bytes sent, sector numbers, bytes of a sector
  Blank,                     \* the formatted image
  Checksum(_, _),            \* the checksum of a sector
  Puts(_),                   \* images a file may leave behind
  Saves(_, _),               \* card files a save may leave behind
  Loaded(_, _)               \* the image after loading a card file

VARIABLES
  card,   \* the image the card answers from
  disk,   \* the sectors in the card file
  offer   \* what the host has sent of a write: address, data, checksum

storeVars == <<card, disk, offer>>

-----------------------------------------------------------------------------
OfferedSector == offer[1] * 256 + offer[2]

OfferedData == SubSeq(offer, 3, SectorLen + 2)

Sound ==
  /\ Len(offer) = SectorLen + 3
  /\ offer[SectorLen + 3] = Checksum(OfferedSector, OfferedData)

-----------------------------------------------------------------------------
Init ==
  /\ card = Blank
  /\ disk = << >>
  /\ offer = << >>

\* The host begins, continues, finishes without effect or gives up a write.
Talk ==
  /\ \/ offer' = << >>
     \/ \E b \in Byte : offer' \in {<<b>>, Append(offer, b)}
  /\ UNCHANGED <<card, disk>>

\* A write offered in full with a fitting checksum takes effect, at once.
Commit ==
  /\ Sound
  /\ OfferedSector \in Numbers
  /\ card' = [card EXCEPT ![OfferedSector] = OfferedData]
  /\ disk' \in Saves(card', disk)
  /\ offer' = << >>

PutFile ==
  /\ card' \in Puts(card)
  /\ disk' \in Saves(card', disk)
  /\ UNCHANGED offer

Load ==
  /\ card' = Loaded(card, disk)
  /\ UNCHANGED <<disk, offer>>

Format ==
  /\ card' = Blank
  /\ UNCHANGED disk
  /\ offer' \in {offer, << >>}

Next == Talk \/ Commit \/ PutFile \/ Load \/ Format

Spec == Init /\ [][Next]_storeVars
=============================================================================
