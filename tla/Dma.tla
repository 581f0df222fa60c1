-------------------------------- MODULE Dma ---------------------------------
(***************************************************************************)
(* The DMA channels behind the drawing port and the movie decoder          *)
(* (io_special_write, source/runtime/runtime.c).  The guest clears an      *)
(* ordering table with channel 6, links its primitives into the entries    *)
(* and has channel 2 walk the list: the words of each node go to GP0.      *)
(* Transfers of blocks run on channels 0, 1 and 2.  A start runs to its    *)
(* end inside of the guest's store, so the guest does nothing during a     *)
(* walk, whose nodes are steps here.                                       *)
(*                                                                         *)
(* Memory holds the headers of nodes: how many words follow and where the  *)
(* next node is.  What is in the words is left out, as are the cameras,    *)
(* the callback of the movie player and channel 3 (see CdController) and 4 *)
(* (see Spu).                                                              *)
(***************************************************************************)
EXTENDS Integers, Sequences

CONSTANTS
  DmaLast,     \* bound: the last word of memory, 0x7FFFF
  DmaMax,      \* a count of 0, and the nodes walked at most, 0x10000
  DmaCap,      \* the words moved at most, 0x80000
  DmaCounts,   \* the counts the guest writes to BCR
  DmaSizes,    \* the words of its primitives
  DmaDicrs,    \* the values it writes to DICR
  DmaEnd       \* 0x00FFFFFF, the address with bit 23 that ends a list

VARIABLES
  dma_ram,     \* headers
  dma_walk,    \* channel 2: busy, the node it is at, the nodes behind it
  dma_moved,   \* words the last transfer of blocks moved
  dma_dicr,    \* 1F8010F4
  dma_irq3,    \* bit 3 of 1F801070
  dma_list,    \* ghost: the list as the guest has built it
  dma_from,    \* ghost: where in it the last walk began, 0 before one
  dma_sent     \* ghost: the nodes whose words went to GP0 since

dma_vars == <<dma_ram, dma_walk, dma_moved, dma_dicr, dma_irq3, dma_list, dma_from, dma_sent>>

DmaChannels == {0, 1, 2}
DmaDicr == [master : BOOLEAN, enabled : SUBSET DmaChannels, flags : SUBSET DmaChannels,
            any : BOOLEAN]

ASSUME DmaAssumption ==
  /\ DmaLast \in Nat /\ DmaMax \in Nat \ {0} /\ DmaCap \in Nat \ {0}
  /\ DmaCounts \subseteq Nat /\ DmaSizes \subseteq Nat
  /\ DmaDicrs \subseteq DmaDicr
  /\ DmaEnd \notin 0..DmaLast

DmaAddrs    == 0..DmaLast
DmaHeaders  == [n : {0} \cup DmaSizes, to : DmaAddrs \cup {DmaEnd}]

-----------------------------------------------------------------------------
DmaInit ==
  /\ dma_ram = [a \in DmaAddrs |-> [n |-> 0, to |-> 0]]
  /\ dma_walk = [busy |-> FALSE, cur |-> 0, nodes |-> 0]
  /\ dma_moved = 0
  /\ dma_dicr = [master |-> FALSE, enabled |-> {}, flags |-> {}, any |-> FALSE]
  /\ dma_irq3 = FALSE
  /\ dma_list = << >> /\ dma_from = 0 /\ dma_sent = << >>

\* A count of 0 is the greatest.
DmaCount(n) == IF n = 0 THEN DmaMax ELSE n

DmaLess(n, m) == IF n < m THEN n ELSE m

-----------------------------------------------------------------------------
(* What the guest writes.                                                  *)

\* Channel 6: the entries from madr down, each with the address of the one
\* below it, the lowest with the end marker.  The table lies in memory.
\* Mutant: the marker comes one entry late.
DmaClearedLate(madr, n) ==
  [a \in DmaAddrs |->
     IF a \in (madr - n + 1)..madr
     THEN [n |-> 0, to |-> IF a = 0 THEN DmaEnd ELSE a - 1]
     ELSE dma_ram[a]]

DmaCleared(madr, n) ==
  [a \in DmaAddrs |->
     IF a \in (madr - n + 1)..madr
     THEN [n |-> 0, to |-> IF a = madr - n + 1 THEN DmaEnd ELSE a - 1]
     ELSE dma_ram[a]]

DmaClear ==
  /\ ~dma_walk.busy
  /\ \E madr \in DmaAddrs, count \in DmaCounts :
       LET n == DmaCount(count)
       IN  /\ n <= madr + 1
           /\ dma_ram' = DmaCleared(madr, n)
           /\ dma_list' = [i \in 1..n |-> madr - i + 1]
  /\ dma_from' = 0 /\ dma_sent' = << >>
  /\ UNCHANGED <<dma_walk, dma_moved, dma_dicr, dma_irq3>>

\* A primitive, put behind a node of the list.
DmaLink ==
  /\ ~dma_walk.busy
  /\ \E at \in DOMAIN dma_list, n \in DmaSizes,
        p \in DmaAddrs \ {dma_list[i] : i \in DOMAIN dma_list} :
       /\ dma_ram' = [dma_ram EXCEPT ![p] = [n |-> n, to |-> dma_ram[dma_list[at]].to],
                                     ![dma_list[at]].to = p]
       /\ dma_list' = [i \in 1..(Len(dma_list) + 1) |->
                         IF i <= at THEN dma_list[i]
                         ELSE IF i = at + 1 THEN p ELSE dma_list[i - 1]]
  /\ dma_from' = 0 /\ dma_sent' = << >>
  /\ UNCHANGED <<dma_walk, dma_moved, dma_dicr, dma_irq3>>

\* DICR is a plain cell: a flag written back stays, it is not cleared.
DmaWriteDicr ==
  /\ ~dma_walk.busy
  /\ dma_dicr' \in DmaDicrs
  /\ UNCHANGED <<dma_ram, dma_walk, dma_moved, dma_irq3, dma_list, dma_from, dma_sent>>

DmaAcknowledge ==
  /\ ~dma_walk.busy /\ dma_irq3 /\ dma_irq3' = FALSE
  /\ UNCHANGED <<dma_ram, dma_walk, dma_moved, dma_dicr, dma_list, dma_from, dma_sent>>

-----------------------------------------------------------------------------
(* A start: bit 24 of CHCR.                                                *)

\* The end of a transfer on channels 0, 1 and 2.
DmaCompletes(ch) ==
  IF dma_dicr.master /\ ch \in dma_dicr.enabled
  THEN /\ dma_dicr' = [dma_dicr EXCEPT !.flags = @ \cup {ch}, !.any = TRUE]
       /\ dma_irq3' = TRUE
  ELSE UNCHANGED <<dma_dicr, dma_irq3>>

\* Blocks, or words one by one.
DmaWords(blocks, size, count) ==
  DmaLess(IF blocks THEN DmaCount(size) * DmaCount(count) ELSE DmaCount(size), DmaCap)

DmaBlocks ==
  /\ ~dma_walk.busy
  /\ \E ch \in DmaChannels,
        n \in {DmaWords(blocks, size, count) :
                 blocks \in BOOLEAN, size \in DmaCounts, count \in DmaCounts} :
       dma_moved' = n /\ DmaCompletes(ch)
  /\ UNCHANGED <<dma_ram, dma_walk, dma_list, dma_from, dma_sent>>

\* Channel 2 in linked-list mode, from a node of the list.
DmaStart ==
  /\ ~dma_walk.busy
  /\ \E at \in DOMAIN dma_list :
       /\ dma_walk' = [busy |-> TRUE, cur |-> dma_list[at], nodes |-> 0]
       /\ dma_from' = at
  /\ dma_sent' = << >>
  /\ UNCHANGED <<dma_ram, dma_moved, dma_dicr, dma_irq3, dma_list>>

\* A node: its words go to GP0, and it is the last one or points to the next.
DmaNode ==
  LET here == dma_ram[dma_walk.cur]
      last == here.to = DmaEnd \/ dma_walk.nodes + 1 = DmaMax
  IN  /\ dma_walk.busy
      /\ dma_sent' = Append(dma_sent, dma_walk.cur)
      /\ dma_walk' = IF last THEN [dma_walk EXCEPT !.busy = FALSE]
                     ELSE [busy |-> TRUE, cur |-> here.to, nodes |-> dma_walk.nodes + 1]
      /\ IF last THEN DmaCompletes(2) ELSE UNCHANGED <<dma_dicr, dma_irq3>>
      /\ UNCHANGED <<dma_ram, dma_moved, dma_list, dma_from>>

DmaNext ==
  DmaClear \/ DmaLink \/ DmaWriteDicr \/ DmaAcknowledge \/ DmaBlocks \/ DmaStart \/ DmaNode

DmaSpec == DmaInit /\ [][DmaNext]_dma_vars

-----------------------------------------------------------------------------
DmaTypeOK ==
  /\ dma_ram \in [DmaAddrs -> DmaHeaders]
  /\ dma_walk \in [busy : BOOLEAN, cur : DmaAddrs, nodes : 0..(DmaMax - 1)]
  /\ dma_moved \in 0..DmaCap
  /\ dma_dicr \in DmaDicr
  /\ dma_irq3 \in BOOLEAN
  /\ dma_list \in Seq(DmaAddrs) /\ dma_sent \in Seq(DmaAddrs)
  /\ dma_from \in 0..Len(dma_list)

\* The list that channel 2 has walked is the one the guest has built: every
\* entry of the table from the one it was started at down to the last, each
\* with its primitives, the one linked last first; nothing is drawn twice or
\* left out, and nothing behind the end (runtime.c:6455-6461, 6520-6545).
DmaDrawsTheTable ==
  dma_from # 0 /\ ~dma_walk.busy /\ Len(dma_list) <= DmaMax =>
    dma_sent = SubSeq(dma_list, dma_from, Len(dma_list))
=============================================================================
