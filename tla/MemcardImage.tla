---------------------------- MODULE MemcardImage ----------------------------
(***************************************************************************)
(* The image of a memory card (source/hle/hle_memcard.c): sectors, sector  *)
(* checksums, the directory and the file writer.  Everything here is an    *)
(* operator on images; SioMemcard.tla holds the state.                     *)
(*                                                                         *)
(* An image is a function from sector numbers to sectors, a sector is a    *)
(* sequence of bytes.  The card has Blocks blocks of BlockSectors sectors  *)
(* behind block 0, which holds the header (sector 0) and one directory     *)
(* frame per block (sectors 1..Blocks).  Of a frame only the two fields    *)
(* that steer the code are kept: byte 1 is the allocation state, byte 2    *)
(* the pointer to the next block (blocks counted from 0, 255 for none).    *)
(* File names, file sizes and the frame's own checksum are left out.       *)
(***************************************************************************)
EXTENDS Naturals, Sequences, FiniteSets

CONSTANTS
  Blocks,        \* file blocks of the card (15)
  BlockSectors,  \* sectors of a block (64)
  SectorLen      \* bytes of a sector (128)

ASSUME ImageAssumption ==
  /\ Blocks \in 1..15
  /\ BlockSectors \in Nat /\ Blocks < BlockSectors
  /\ SectorLen \in Nat /\ SectorLen >= 2

Byte    == 0..255
Total   == (Blocks + 1) * BlockSectors
Numbers == 0..(Total - 1)
Sector  == [1..SectorLen -> Byte]
Image   == [Numbers -> Sector]

-----------------------------------------------------------------------------
(* Checksums.                                                              *)

\* The bit of weight w, and the exclusive or of two bytes.
Bit(a, w) == (a \div w) % 2

Xor(a, b) ==
  LET x(w) == w * ((Bit(a, w) + Bit(b, w)) % 2)
  IN  x(1) + x(2) + x(4) + x(8) + x(16) + x(32) + x(64) + x(128)

\* hle_memcard_calc_sector_checksum: the sector's number, then its bytes.
Checksum(n, data) ==
  LET upTo[k \in 0..SectorLen] ==
        IF k = 0 THEN Xor(n \div 256, n % 256) ELSE Xor(upTo[k - 1], data[k])
  IN  upTo[SectorLen]

-----------------------------------------------------------------------------
(* The fresh card.                                                         *)

Free == 160  \* 0xA0
None == 255  \* low byte of the 0xFFFF link

Zeros == [i \in 1..SectorLen |-> 0]

Frame(allocation, link) == [Zeros EXCEPT ![1] = allocation, ![2] = link]

Formatted ==
  [n \in Numbers |-> CASE n = 0         -> Frame(77, 67)  \* 'M', 'C'
                       [] n \in 1..Blocks -> Frame(Free, None)
                       [] OTHER          -> Zeros]

-----------------------------------------------------------------------------
(* Writing a file: the free blocks in order, one directory frame per block *)
(* used, the payload behind it.                                            *)

IsFree(image, b) == image[b][1] \in Free..(Free + 3)

FreeBlocks(image) ==
  LET upTo[b \in 0..Blocks] ==
        IF b = 0 THEN << >>
        ELSE IF IsFree(image, b) THEN Append(upTo[b - 1], b) ELSE upTo[b - 1]
  IN  upTo[Blocks]

Room(image, count) == count \in 1..Len(FreeBlocks(image))

Allocation(i, count) ==
  IF i = 1 THEN 81 ELSE IF i = count THEN 83 ELSE 82  \* 0x51, 0x53, 0x52

\* Mutant: the link counts blocks from 1.
LinkFromOne(free, i, count) == IF i < count THEN free[i + 1] ELSE None

Link(free, i, count) == IF i < count THEN free[i + 1] - 1 ELSE None

BlockOf(n) == n \div BlockSectors

\* The image with a file of count blocks, the last one filled up to its
\* sector tail, every payload sector holding fill.
WithFile(image, count, tail, fill) ==
  LET free   == FreeBlocks(image)
      used   == {free[i] : i \in 1..count}
      turn   == [b \in used |-> CHOOSE i \in 1..count : free[i] = b]
      filled(b) == IF turn[b] = count THEN tail ELSE BlockSectors
  IN  [n \in Numbers |->
        IF n \in used
        THEN Frame(Allocation(turn[n], count), Link(free, turn[n], count))
        ELSE IF BlockOf(n) \in used /\ n % BlockSectors < filled(BlockOf(n))
        THEN fill
        ELSE image[n]]

-----------------------------------------------------------------------------
(* The image in its file: a save writes the sectors in order and may come  *)
(* out short or not happen at all; a load takes the sectors it finds.      *)

AsFile(image) == [i \in 1..Total |-> image[i - 1]]

Saves(image, old, cuts) ==
  {AsFile(image), old} \cup {SubSeq(AsFile(image), 1, n) : n \in cuts}

Loaded(image, file) ==
  [n \in Numbers |-> IF n < Len(file) THEN file[n + 1] ELSE image[n]]

-----------------------------------------------------------------------------
(* What the directory should look like.                                    *)

\* The blocks in members form one chain: one head, one tail, and following
\* the links from any member but the tail leads to the next member.
IsChain(image, members) ==
  LET next(b) == image[b][2] + 1
      inner   == {b \in members : image[b][2] # None}
  IN  /\ \A b \in members : ~IsFree(image, b)
      /\ \A b \in inner : next(b) \in members /\ next(b) > b
      /\ \A b, c \in inner : next(b) = next(c) => b = c
      /\ Cardinality(inner) + 1 = Cardinality(members)
      /\ {b \in members : image[b][1] = 81} = members \ {next(b) : b \in inner}
=============================================================================
