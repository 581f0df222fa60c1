----------------------------- MODULE DeviceProofs ------------------------------
(***************************************************************************)
(* Proofs about the list DMA of channel 2, about the GPU behind it, and    *)
(* about the SPU and the GTE.                                              *)
(*                                                                         *)
(* Dma.  What a walk has sent is a piece of the guest's list because the   *)
(* list in memory is that list, no node stands on it twice, and a walk     *)
(* that runs stands on the node after those it has sent.                   *)
(*                                                                         *)
(* Gpu.  The interpreter is where the guest's stream is: its state says    *)
(* which words the format still calls for (GpuSteps).  The capture machine *)
(* is in the interpreter's state, but idle while that one gathers          *)
(* parameters (GpuCap), which holds only while no word of a command looks  *)
(* like the load of an image and no reset interrupts one.  The pixels of   *)
(* an image sent so far stand in VRAM, each at a place of its own          *)
(* (GpuImages).                                                            *)
(*                                                                         *)
(* Spu.  Every voice stays in its ranges through whatever a sample brings: *)
(* the levels an envelope steps to, the place in the block, the end of the *)
(* sample (SpuIInv).  A block's samples are played by a walk whose every   *)
(* step is a voice, by Recursion.                                          *)
(*                                                                         *)
(* Gte.  No command loses a register or changes the length of a queue      *)
(* (GteIInv), and what a vertex or a blend gives depends on the registers  *)
(* that no round before it writes (GteProjectAlone, GteBlendAlone).        *)
(***************************************************************************)
EXTENDS Gpu, Dma, Spu, Gte, Recursion, SequenceTheorems, TLAPS

-----------------------------------------------------------------------------
(* Sequences.                                                              *)

(* A function on 1..n is a sequence of n elements.                         *)
LEMMA FunctionIsSeq ==
  ASSUME NEW S, NEW n \in Nat, NEW f \in [1..n -> S]
  PROVE  f \in Seq(S) /\ Len(f) = n
<1>1. f \in Seq(S)  BY SeqDef
<1>2. Len(f) \in Nat /\ DOMAIN f = 1..Len(f)  BY <1>1, LenProperties
<1>3. 1..n = 1..Len(f)  BY <1>2
<1>4. \A k \in Nat : (k \in 1..n <=> k \in 1..Len(f)) BY <1>3
<1>5. n = Len(f)  
  <2>1. CASE n < Len(f)  BY <1>2, <1>4, <2>1
  <2>2. CASE n > Len(f)  BY <1>2, <1>4, <2>2
  <2> QED  BY <1>2, <2>1, <2>2
<1> QED  BY <1>1, <1>5

(* The elements of a concatenation.                                        *)
LEMMA AppendedElements ==
  ASSUME NEW S, NEW s \in Seq(S), NEW t \in Seq(S), NEW k \in Nat, Len(s) = k
  PROVE  /\ s \o t \in Seq(S) /\ Len(s \o t) = k + Len(t)
         /\ \A i \in 1..k : (s \o t)[i] = s[i]
         /\ \A i \in 1..Len(t) : (s \o t)[k + i] = t[i]
<1>1. Len(t) \in Nat  BY LenProperties
<1>2. /\ s \o t \in Seq(S) /\ Len(s \o t) = k + Len(t)
      /\ \A i \in 1..(k + Len(t)) : (s \o t)[i] = IF i <= k THEN s[i] ELSE t[i - k]
  BY ConcatProperties
<1>3. ASSUME NEW i \in 1..k PROVE (s \o t)[i] = s[i]
  <2>1. i \in 1..(k + Len(t)) /\ i <= k  BY <1>1
  <2> QED  BY <1>2, <2>1
<1>4. ASSUME NEW i \in 1..Len(t) PROVE (s \o t)[k + i] = t[i]
  <2> DEFINE j == k + i
  <2>1. j \in 1..(k + Len(t)) /\ ~(j <= k) /\ j - k = i  BY <1>1
  <2> HIDE DEF j
  <2>2. (s \o t)[j] = t[j - k]  BY <1>2, <2>1
  <2> QED  BY <2>1, <2>2 DEF j
<1> QED  BY <1>2, <1>3, <1>4

-----------------------------------------------------------------------------
(* DMA: the list in memory is the one the guest has built, and a walk is   *)
(* somewhere in it.                                                        *)

DmaLinked ==
  \A i \in 1..Len(dma_list) :
    dma_ram[dma_list[i]].to = IF i = Len(dma_list) THEN DmaEnd ELSE dma_list[i + 1]

DmaDistinct ==
  \A i, j \in 1..Len(dma_list) : dma_list[i] = dma_list[j] => i = j

DmaWalked ==
  dma_from # 0 =>
    /\ dma_from + Len(dma_sent) - 1 <= Len(dma_list)
    /\ \A i \in 1..Len(dma_sent) : dma_sent[i] = dma_list[dma_from + i - 1]
    /\ ~dma_walk.busy =>
         dma_from + Len(dma_sent) - 1 = Len(dma_list) \/ Len(dma_sent) = DmaMax

DmaWalks ==
  dma_walk.busy =>
    /\ dma_from # 0 /\ dma_walk.nodes = Len(dma_sent)
    /\ dma_from + dma_walk.nodes <= Len(dma_list)
    /\ dma_walk.cur = dma_list[dma_from + dma_walk.nodes]

DmaIInv == DmaTypeOK /\ DmaLinked /\ DmaDistinct /\ DmaWalked /\ DmaWalks

(* The end of a transfer leaves the interrupt register a register.         *)
LEMMA DmaCompletesTyped ==
  ASSUME NEW ch \in DmaChannels, DmaCompletes(ch), dma_dicr \in DmaDicr, dma_irq3 \in BOOLEAN
  PROVE  dma_dicr' \in DmaDicr /\ dma_irq3' \in BOOLEAN
<1>1. CASE dma_dicr.master /\ ch \in dma_dicr.enabled
  <2>1. /\ dma_dicr' = [dma_dicr EXCEPT !.flags = @ \cup {ch}, !.any = TRUE]
        /\ dma_irq3' = TRUE
    BY <1>1 DEF DmaCompletes
  <2>2. dma_dicr.flags \cup {ch} \in SUBSET DmaChannels  BY DEF DmaDicr
  <2> QED  BY <2>1, <2>2 DEF DmaDicr
<1>2. CASE ~(dma_dicr.master /\ ch \in dma_dicr.enabled)  BY <1>2 DEF DmaCompletes
<1> QED  BY <1>1, <1>2

(* A cleared table is a list of its own.                                   *)
LEMMA DmaClearKeepsIt == DmaIInv /\ DmaClear => DmaIInv'
<1> SUFFICES ASSUME DmaIInv, DmaClear PROVE DmaIInv'  OBVIOUS
<1> USE DmaAssumption
<1>1. PICK madr \in DmaAddrs, count \in DmaCounts :
        /\ DmaCount(count) <= madr + 1
        /\ dma_ram' = DmaCleared(madr, DmaCount(count))
        /\ dma_list' = [i \in 1..DmaCount(count) |-> madr - i + 1]
  BY DEF DmaClear
<1> DEFINE n == DmaCount(count)
<1>2. n \in Nat \ {0} /\ madr \in Nat /\ madr <= DmaLast  BY DEF DmaCount, DmaAddrs
<1>3. n <= madr + 1  BY <1>1
<1>4. dma_list' = [i \in 1..n |-> madr - i + 1] /\ dma_ram' = DmaCleared(madr, n)  BY <1>1
<1> HIDE DEF n
<1>5. /\ ~dma_walk.busy /\ dma_from' = 0 /\ dma_sent' = << >>
      /\ UNCHANGED <<dma_walk, dma_moved, dma_dicr, dma_irq3>>
  BY DEF DmaClear
<1>6. dma_list' \in Seq(DmaAddrs) /\ Len(dma_list') = n
  <2>1. \A i \in 1..n : madr - i + 1 \in DmaAddrs  BY <1>2, <1>3 DEF DmaAddrs
  <2>2. dma_list' \in [1..n -> DmaAddrs]  BY <1>4, <2>1
  <2> QED  BY <1>2, <2>2, FunctionIsSeq
<1>7. dma_ram' \in [DmaAddrs -> DmaHeaders]
  BY <1>2, <1>3, <1>4 DEF DmaIInv, DmaTypeOK, DmaCleared, DmaAddrs, DmaHeaders
<1>8. DmaTypeOK'  BY <1>5, <1>6, <1>7 DEF DmaIInv, DmaTypeOK
<1>9. DmaLinked'
  <2> SUFFICES ASSUME NEW i \in 1..n
               PROVE  dma_ram'[dma_list'[i]].to = IF i = n THEN DmaEnd ELSE dma_list'[i + 1]
    BY <1>6 DEF DmaLinked
  <2>1. dma_list'[i] = madr - i + 1 /\ (i # n => dma_list'[i + 1] = madr - i)
    BY <1>2, <1>4
  <2>2. madr - i + 1 \in DmaAddrs /\ madr - i + 1 \in (madr - n + 1)..madr
    BY <1>2, <1>3 DEF DmaAddrs
  <2> DEFINE a == madr - i + 1
  <2>3. dma_ram'[a] = [n |-> 0, to |-> IF a = madr - n + 1 THEN DmaEnd ELSE a - 1]
    <3> HIDE DEF a
    <3>1. a \in DmaAddrs /\ a \in (madr - n + 1)..madr  BY <2>2 DEF a
    <3> QED  BY <1>4, <3>1 DEF DmaCleared
  <2> QED  BY <1>2, <2>1, <2>3
<1>10. DmaDistinct'
  BY <1>2, <1>4, <1>6 DEF DmaDistinct
<1> QED  BY <1>5, <1>8, <1>9, <1>10 DEF DmaIInv, DmaWalked, DmaWalks

(* A primitive that is linked gets the place behind its node.              *)
LEMMA DmaLinkKeepsIt == DmaIInv /\ DmaLink => DmaIInv'
<1> SUFFICES ASSUME DmaIInv, DmaLink PROVE DmaIInv'  OBVIOUS
<1> USE DmaAssumption
<1>1. PICK at \in DOMAIN dma_list, n \in DmaSizes,
           p \in DmaAddrs \ {dma_list[i] : i \in DOMAIN dma_list} :
        /\ dma_ram' = [dma_ram EXCEPT ![p] = [n |-> n, to |-> dma_ram[dma_list[at]].to],
                                      ![dma_list[at]].to = p]
        /\ dma_list' = [i \in 1..(Len(dma_list) + 1) |->
                          IF i <= at THEN dma_list[i]
                          ELSE IF i = at + 1 THEN p ELSE dma_list[i - 1]]
  BY DEF DmaLink
<1> DEFINE m == Len(dma_list)
           e == dma_list[at]
<1>2. /\ dma_ram \in [DmaAddrs -> DmaHeaders] /\ dma_list \in Seq(DmaAddrs)
      /\ m \in Nat /\ DOMAIN dma_list = 1..m /\ \A i \in 1..m : dma_list[i] \in DmaAddrs
  BY DEF DmaIInv, DmaTypeOK
<1>3. at \in 1..m /\ e \in DmaAddrs /\ p \in DmaAddrs /\ \A i \in 1..m : dma_list[i] # p
  BY <1>1, <1>2
<1>4. /\ ~dma_walk.busy /\ dma_from' = 0 /\ dma_sent' = << >>
      /\ UNCHANGED <<dma_walk, dma_moved, dma_dicr, dma_irq3>>
  BY DEF DmaLink
<1>5. dma_list' \in Seq(DmaAddrs) /\ Len(dma_list') = m + 1
  <2>1. \A i \in 1..(m + 1) :
          (IF i <= at THEN dma_list[i] ELSE IF i = at + 1 THEN p ELSE dma_list[i - 1]) \in DmaAddrs
    BY <1>2, <1>3
  <2>2. dma_list' \in [1..(m + 1) -> DmaAddrs]  BY <1>1, <2>1
  <2> QED  BY <1>2, <2>2, FunctionIsSeq
<1>6. \A i \in 1..(m + 1) :
        dma_list'[i] = IF i <= at THEN dma_list[i] ELSE IF i = at + 1 THEN p ELSE dma_list[i - 1]
  BY <1>1
<1>7. /\ dma_ram' \in [DmaAddrs -> DmaHeaders]
      /\ dma_ram'[p].to = dma_ram[e].to /\ dma_ram'[e].to = p
      /\ \A a \in DmaAddrs \ {p, e} : dma_ram'[a] = dma_ram[a]
  <2>1. dma_ram[e] \in DmaHeaders  BY <1>2, <1>3
  <2>2. [n |-> n, to |-> dma_ram[e].to] \in DmaHeaders /\ [dma_ram[e] EXCEPT !.to = p] \in DmaHeaders
    BY <1>3, <2>1 DEF DmaHeaders
  <2>3. e # p  BY <1>3
  <2>4. dma_ram' = [dma_ram EXCEPT ![p] = [n |-> n, to |-> dma_ram[e].to],
                                   ![e] = [dma_ram[e] EXCEPT !.to = p]]
    BY <1>1, <1>2, <1>3, <2>3
  <2>5. [dma_ram[e] EXCEPT !.to = p].to = p  BY <2>1 DEF DmaHeaders
  <2> HIDE DEF e
  <2> QED  BY <1>2, <1>3, <2>2, <2>3, <2>4, <2>5
<1>8. DmaTypeOK'  BY <1>4, <1>5, <1>7 DEF DmaIInv, DmaTypeOK
<1>9. \A i \in 1..m : dma_ram[dma_list[i]].to = IF i = m THEN DmaEnd ELSE dma_list[i + 1]
  BY DEF DmaIInv, DmaLinked
<1>10. \A i, j \in 1..m : dma_list[i] = dma_list[j] => i = j
  BY DEF DmaIInv, DmaDistinct
<1> HIDE DEF m, e
<1>11. e = dma_list[at]  BY DEF e
<1>12. DmaLinked'
  <2> SUFFICES ASSUME NEW i \in 1..(m + 1)
               PROVE  dma_ram'[dma_list'[i]].to = IF i = m + 1 THEN DmaEnd ELSE dma_list'[i + 1]
    BY <1>5 DEF DmaLinked
  <2>1. CASE i < at
    <3>1. dma_list'[i] = dma_list[i] /\ dma_list'[i + 1] = dma_list[i + 1] /\ i # m
      BY <1>2, <1>3, <1>6, <2>1
    <3>2. dma_list[i] \in DmaAddrs \ {p, e}  BY <1>2, <1>3, <1>10, <1>11, <2>1
    <3> QED  BY <1>2, <1>3, <1>7, <1>9, <2>1, <3>1, <3>2
  <2>2. CASE i = at
    BY <1>2, <1>3, <1>6, <1>7, <1>11, <2>2
  <2>3. CASE i = at + 1
    <3>1. dma_list'[i] = p /\ dma_ram'[p].to = dma_ram[dma_list[at]].to
      BY <1>2, <1>3, <1>6, <1>7, <1>11, <2>3
    <3>2. at # m => dma_list'[i + 1] = dma_list[at + 1]  BY <1>2, <1>3, <1>6, <2>3
    <3> QED  BY <1>2, <1>3, <1>9, <2>3, <3>1, <3>2
  <2>4. CASE i > at + 1
    <3>1. i - 1 \in 1..m /\ dma_list'[i] = dma_list[i - 1]  BY <1>2, <1>3, <1>6, <2>4
    <3>2. dma_list[i - 1] \in DmaAddrs \ {p, e}  BY <1>2, <1>3, <1>10, <1>11, <2>4, <3>1
    <3>3. i # m + 1 => dma_list'[i + 1] = dma_list[i]  BY <1>2, <1>3, <1>6, <2>4
    <3>4. dma_ram'[dma_list'[i]].to = dma_ram[dma_list[i - 1]].to  BY <1>7, <3>1, <3>2
    <3>5. dma_ram[dma_list[i - 1]].to = IF i - 1 = m THEN DmaEnd ELSE dma_list[i - 1 + 1]
      BY <1>9, <3>1
    <3> QED  BY <1>2, <3>3, <3>4, <3>5
  <2> QED  BY <1>2, <1>3, <2>1, <2>2, <2>3, <2>4
<1>13. DmaDistinct'
  <2> SUFFICES ASSUME NEW i \in 1..(m + 1), NEW j \in 1..(m + 1), dma_list'[i] = dma_list'[j]
               PROVE  i = j
    BY <1>5 DEF DmaDistinct
  <2> QED  BY <1>2, <1>3, <1>6, <1>10
<1> QED  BY <1>4, <1>8, <1>12, <1>13 DEF DmaIInv, DmaWalked, DmaWalks

LEMMA DmaStartKeepsIt == DmaIInv /\ DmaStart => DmaIInv'
<1> SUFFICES ASSUME DmaIInv, DmaStart PROVE DmaIInv'  OBVIOUS
<1> USE DmaAssumption
<1>1. PICK at \in DOMAIN dma_list :
        /\ dma_walk' = [busy |-> TRUE, cur |-> dma_list[at], nodes |-> 0]
        /\ dma_from' = at
  BY DEF DmaStart
<1>2. /\ dma_sent' = << >>
      /\ UNCHANGED <<dma_ram, dma_moved, dma_dicr, dma_irq3, dma_list>>
  BY DEF DmaStart
<1>3. /\ dma_list \in Seq(DmaAddrs) /\ Len(dma_list) \in Nat
      /\ at \in 1..Len(dma_list) /\ dma_list[at] \in DmaAddrs
  BY DEF DmaIInv, DmaTypeOK
<1>4. DmaTypeOK'  BY <1>1, <1>2, <1>3 DEF DmaIInv, DmaTypeOK
<1>5. DmaLinked' /\ DmaDistinct'  BY <1>2 DEF DmaIInv, DmaLinked, DmaDistinct
<1>6. DmaWalked' /\ DmaWalks'  BY <1>1, <1>2, <1>3 DEF DmaWalked, DmaWalks
<1> QED  BY <1>4, <1>5, <1>6 DEF DmaIInv

LEMMA DmaNodeKeepsIt == DmaIInv /\ DmaNode => DmaIInv'
<1> SUFFICES ASSUME DmaIInv, DmaNode PROVE DmaIInv'  OBVIOUS
<1> USE DmaAssumption
<1> DEFINE at == dma_from + dma_walk.nodes
           last == dma_ram[dma_walk.cur].to = DmaEnd \/ dma_walk.nodes + 1 = DmaMax
<1>1. /\ dma_walk.busy
      /\ dma_sent' = Append(dma_sent, dma_walk.cur)
      /\ dma_walk' = IF last THEN [dma_walk EXCEPT !.busy = FALSE]
                     ELSE [busy |-> TRUE, cur |-> dma_ram[dma_walk.cur].to,
                           nodes |-> dma_walk.nodes + 1]
      /\ UNCHANGED <<dma_ram, dma_moved, dma_list, dma_from>>
  BY DEF DmaNode
<1>2. /\ dma_walk \in [busy : BOOLEAN, cur : DmaAddrs, nodes : 0..(DmaMax - 1)]
      /\ dma_list \in Seq(DmaAddrs) /\ dma_sent \in Seq(DmaAddrs)
      /\ dma_from \in 0..Len(dma_list) /\ dma_ram \in [DmaAddrs -> DmaHeaders]
      /\ Len(dma_list) \in Nat
  BY DEF DmaIInv, DmaTypeOK
<1>3. /\ dma_from # 0 /\ dma_walk.nodes = Len(dma_sent)
      /\ at \in 1..Len(dma_list) /\ dma_walk.cur = dma_list[at]
  BY <1>1, <1>2 DEF DmaIInv, DmaWalks
<1>4. /\ \A i \in 1..Len(dma_sent) : dma_sent[i] = dma_list[dma_from + i - 1]
  BY <1>3 DEF DmaIInv, DmaWalked
<1>5. dma_ram[dma_walk.cur].to = IF at = Len(dma_list) THEN DmaEnd ELSE dma_list[at + 1]
  BY <1>3 DEF DmaIInv, DmaLinked
<1>6. /\ dma_sent' \in Seq(DmaAddrs) /\ Len(dma_sent') = Len(dma_sent) + 1
      /\ \A i \in 1..Len(dma_sent') :
           dma_sent'[i] = IF i <= Len(dma_sent) THEN dma_sent[i] ELSE dma_walk.cur
  BY <1>1, <1>2
<1>7. \A i \in 1..Len(dma_list) : dma_list[i] \in DmaAddrs /\ dma_list[i] # DmaEnd
  BY <1>2 DEF DmaAddrs
<1>8. last <=> at = Len(dma_list) \/ dma_walk.nodes + 1 = DmaMax
  BY <1>2, <1>3, <1>5, <1>7
<1> HIDE DEF last
<1>9. \A i \in 1..Len(dma_sent') : dma_sent'[i] = dma_list'[dma_from' + i - 1]
  <2> SUFFICES ASSUME NEW i \in 1..Len(dma_sent')
               PROVE  dma_sent'[i] = dma_list[dma_from + i - 1]
    BY <1>1
  <2>1. Len(dma_sent) \in Nat /\ dma_from \in Nat  BY <1>2
  <2>2. CASE i <= Len(dma_sent)
    <3>1. i \in 1..Len(dma_sent)  BY <2>1, <2>2, <1>6
    <3>2. dma_sent'[i] = dma_sent[i]  BY <1>6, <2>2
    <3> QED  BY <1>4, <3>1, <3>2
  <2>3. CASE i = Len(dma_sent) + 1
    <3>1. dma_from + i - 1 = at  BY <1>3, <2>1, <2>3
    <3> QED  BY <1>3, <1>6, <2>1, <2>3, <3>1
  <2> QED  BY <1>6, <2>1, <2>2, <2>3
<1>10. dma_dicr' \in DmaDicr /\ dma_irq3' \in BOOLEAN
  <2>1. dma_dicr \in DmaDicr /\ dma_irq3 \in BOOLEAN  BY DEF DmaIInv, DmaTypeOK
  <2>2. CASE UNCHANGED <<dma_dicr, dma_irq3>>  BY <2>1, <2>2
  <2>3. CASE /\ dma_dicr' = [dma_dicr EXCEPT !.flags = @ \cup {2}, !.any = TRUE]
             /\ dma_irq3' = TRUE
    BY <2>1, <2>3 DEF DmaDicr, DmaChannels
  <2> QED  BY <2>2, <2>3 DEF DmaNode, DmaCompletes
<1>11. CASE last
  <2>1. dma_walk' = [dma_walk EXCEPT !.busy = FALSE]  BY <1>1, <1>11
  <2>2. dma_walk'.busy = FALSE /\ dma_walk' \in [busy : BOOLEAN, cur : DmaAddrs, nodes : 0..(DmaMax - 1)]
    BY <1>2, <2>1
  <2>3. DmaTypeOK'  BY <1>1, <1>6, <1>10, <2>2 DEF DmaIInv, DmaTypeOK
  <2>4. DmaWalked'
    <3>1. dma_from + Len(dma_sent') - 1 = at  BY <1>2, <1>3, <1>6
    <3>2. at = Len(dma_list) \/ Len(dma_sent') = DmaMax  BY <1>3, <1>6, <1>8, <1>11
    <3> QED  BY <1>1, <1>3, <1>9, <3>1, <3>2 DEF DmaWalked
  <2> QED  BY <1>1, <2>2, <2>3, <2>4 DEF DmaIInv, DmaLinked, DmaDistinct, DmaWalks
<1>12. CASE ~last
  <2>1. dma_walk' = [busy |-> TRUE, cur |-> dma_list[at + 1], nodes |-> dma_walk.nodes + 1]
    BY <1>1, <1>5, <1>8, <1>12
  <2>2. at + 1 \in 1..Len(dma_list) /\ dma_walk.nodes + 1 \in 0..(DmaMax - 1)
    BY <1>2, <1>3, <1>8, <1>12
  <2>3. DmaTypeOK'  BY <1>1, <1>6, <1>7, <1>10, <2>1, <2>2 DEF DmaIInv, DmaTypeOK
  <2>4. DmaWalked'
    <3>1. dma_from + Len(dma_sent') - 1 = at  BY <1>2, <1>3, <1>6
    <3> QED  BY <1>1, <1>3, <1>9, <2>1, <3>1 DEF DmaWalked
  <2>5. DmaWalks'
    <3>1. dma_from' + dma_walk'.nodes = at + 1 /\ dma_walk'.nodes = Len(dma_sent')
      BY <1>1, <1>2, <1>3, <1>6, <2>1
    <3>2. dma_walk'.cur = dma_list'[at + 1] /\ at + 1 <= Len(dma_list')  BY <1>1, <2>1, <2>2
    <3> QED  BY <1>1, <1>3, <3>1, <3>2 DEF DmaWalks
  <2> QED  BY <1>1, <2>3, <2>4, <2>5 DEF DmaIInv, DmaLinked, DmaDistinct
<1> QED  BY <1>11, <1>12

(* What leaves list and walk alone.                                        *)
LEMMA DmaRestKeepsIt ==
  ASSUME DmaIInv, DmaWriteDicr \/ DmaAcknowledge \/ DmaBlocks \/ UNCHANGED dma_vars
  PROVE  DmaIInv'
<1> USE DmaAssumption
<1>1. UNCHANGED <<dma_ram, dma_walk, dma_list, dma_from, dma_sent>>
  BY DEF DmaWriteDicr, DmaAcknowledge, DmaBlocks, dma_vars
<1>2. dma_dicr \in DmaDicr /\ dma_irq3 \in BOOLEAN /\ dma_moved \in 0..DmaCap
  BY DEF DmaIInv, DmaTypeOK
<1>3. dma_dicr' \in DmaDicr /\ dma_irq3' \in BOOLEAN /\ dma_moved' \in 0..DmaCap
  <2>1. CASE DmaWriteDicr  BY <1>2, <2>1 DEF DmaWriteDicr
  <2>2. CASE DmaAcknowledge  BY <1>2, <2>2 DEF DmaAcknowledge
  <2>3. CASE DmaBlocks
    <3>1. PICK ch \in DmaChannels,
               n \in {DmaWords(blocks, size, count) :
                        blocks \in BOOLEAN, size \in DmaCounts, count \in DmaCounts} :
            dma_moved' = n /\ DmaCompletes(ch)
      BY <2>3 DEF DmaBlocks
    <3>2. \A c \in DmaCounts : DmaCount(c) \in Nat  BY DEF DmaCount
    <3>3. \A blocks \in BOOLEAN, size \in DmaCounts, count \in DmaCounts :
            DmaWords(blocks, size, count) \in 0..DmaCap
      <4> TAKE blocks \in BOOLEAN, size \in DmaCounts, count \in DmaCounts
      <4>1. DmaCount(size) \in Nat /\ DmaCount(count) \in Nat  BY <3>2
      <4>2. DmaCount(size) * DmaCount(count) \in Nat  BY <4>1
      <4> QED  BY <4>1, <4>2 DEF DmaWords, DmaLess
    <3>4. dma_moved' \in 0..DmaCap
      <4>1. n \in 0..DmaCap  BY <3>3
      <4> QED  BY <3>1, <4>1
    <3>5. dma_dicr' \in DmaDicr /\ dma_irq3' \in BOOLEAN
      BY <1>2, <3>1, DmaCompletesTyped
    <3> QED  BY <3>4, <3>5
  <2>4. CASE UNCHANGED dma_vars  BY <1>2, <2>4 DEF dma_vars
  <2> QED  BY <2>1, <2>2, <2>3, <2>4
<1> QED
  BY <1>1, <1>3 DEF DmaIInv, DmaTypeOK, DmaLinked, DmaDistinct, DmaWalked, DmaWalks

(* A finished walk has sent the list from where it began.                  *)
LEMMA DmaWalksDraw == DmaIInv => DmaDrawsTheTable
<1> SUFFICES ASSUME DmaIInv, dma_from # 0, ~dma_walk.busy, Len(dma_list) <= DmaMax
             PROVE  dma_sent = SubSeq(dma_list, dma_from, Len(dma_list))
  BY DEF DmaDrawsTheTable
<1> USE DmaAssumption
<1>1. /\ dma_list \in Seq(DmaAddrs) /\ dma_sent \in Seq(DmaAddrs)
      /\ dma_from \in 1..Len(dma_list) /\ Len(dma_list) \in Nat /\ Len(dma_sent) \in Nat
  BY DEF DmaIInv, DmaTypeOK
<1>2. /\ dma_from + Len(dma_sent) - 1 <= Len(dma_list)
      /\ \A i \in 1..Len(dma_sent) : dma_sent[i] = dma_list[dma_from + i - 1]
      /\ dma_from + Len(dma_sent) - 1 = Len(dma_list) \/ Len(dma_sent) = DmaMax
  BY DEF DmaIInv, DmaWalked
<1>3. Len(dma_sent) = Len(dma_list) - dma_from + 1  BY <1>1, <1>2
<1> DEFINE tail == SubSeq(dma_list, dma_from, Len(dma_list))
<1>4. /\ tail \in Seq(DmaAddrs) /\ Len(tail) = Len(dma_list) - dma_from + 1
      /\ \A i \in 1..Len(tail) : tail[i] = dma_list[dma_from + i - 1]
  BY <1>1, SubSeqProperties
<1> HIDE DEF tail
<1>5. dma_sent = tail  BY <1>1, <1>2, <1>3, <1>4, SeqEqual
<1> QED  BY <1>5 DEF tail

(* Every entry of the table from the one the walk began at down to the     *)
(* last reaches the drawing port with its primitives, each once and in the *)
(* order of the links, for all tables and lists up to the walk's cap.      *)
THEOREM TablesAreDrawn == DmaSpec => []DmaDrawsTheTable
<1>1. DmaInit => DmaIInv
  <2> SUFFICES ASSUME DmaInit PROVE DmaIInv  OBVIOUS
  <2>1. dma_list = << >> /\ dma_sent = << >> /\ dma_from = 0 /\ ~dma_walk.busy
    BY DEF DmaInit
  <2>2. dma_ram \in [DmaAddrs -> DmaHeaders]
    BY DmaAssumption DEF DmaInit, DmaAddrs, DmaHeaders
  <2>3. dma_walk \in [busy : BOOLEAN, cur : DmaAddrs, nodes : 0..(DmaMax - 1)]
    BY DmaAssumption DEF DmaInit, DmaAddrs
  <2>4. dma_moved \in 0..DmaCap /\ dma_dicr \in DmaDicr /\ dma_irq3 \in BOOLEAN
    <3>1. dma_moved = 0 /\ dma_irq3 = FALSE
          /\ dma_dicr = [master |-> FALSE, enabled |-> {}, flags |-> {}, any |-> FALSE]
      BY DEF DmaInit
    <3>2. dma_dicr \in DmaDicr  BY <3>1 DEF DmaDicr
    <3>3. dma_irq3 \in BOOLEAN  BY <3>1
    <3>4. dma_moved \in 0..DmaCap
      <4>1. DmaCap \in Nat  BY DmaAssumption
      <4> QED  BY <3>1, <4>1
    <3> QED  BY <3>2, <3>3, <3>4
  <2>5. DmaTypeOK  BY <2>1, <2>2, <2>3, <2>4 DEF DmaTypeOK
  <2> QED  BY <2>1, <2>5 DEF DmaIInv, DmaLinked, DmaDistinct, DmaWalked, DmaWalks
<1>2. DmaIInv /\ [DmaNext]_dma_vars => DmaIInv'
  BY DmaClearKeepsIt, DmaLinkKeepsIt, DmaStartKeepsIt, DmaNodeKeepsIt, DmaRestKeepsIt
     DEF DmaNext
<1> QED  BY <1>1, <1>2, DmaWalksDraw, PTL DEF DmaSpec

-----------------------------------------------------------------------------
(* The drawing port: the words a command calls for.                        *)

GpuNames == {"command", "vertex", "colour", "texel", "place", "size", "pixels"}

GpuWords == [top : 0..255, x : Nat, y : Nat, role : GpuNames]

\* The interpreter counts the words of a command as the guest's library
\* lays them out: the count that R228 repaired, for every command byte.
LEMMA GpuCountsTheFormat ==
  ASSUME NEW cmd \in 0..255
  PROVE  /\ GpuRoles(cmd) \in Seq(GpuNames)
         /\ cmd # GpuLoad => GpuWordCount(cmd) = 1 + Len(GpuRoles(cmd))
<1> DEFINE vertex == <<"vertex">>
           texel  == IF GpuBit(cmd, 2) THEN <<"texel">> ELSE << >>
           colour == IF GpuBit(cmd, 4) THEN <<"colour">> ELSE << >>
           size   == IF GpuSizeCode(cmd) = 0 THEN <<"size">> ELSE << >>
           first  == vertex \o texel
           corner == (colour \o vertex) \o texel
           fourth == IF GpuBit(cmd, 3) THEN corner ELSE << >>
           two    == IF GpuBit(cmd, 2) THEN 1 ELSE 0
           four   == IF GpuBit(cmd, 4) THEN 1 ELSE 0
<1>1. \A s, t \in Seq(GpuNames) : s \o t \in Seq(GpuNames) /\ Len(s \o t) = Len(s) + Len(t)
  BY ConcatProperties
<1>2. /\ vertex \in Seq(GpuNames) /\ Len(vertex) = 1
      /\ texel \in Seq(GpuNames) /\ Len(texel) = two
      /\ colour \in Seq(GpuNames) /\ Len(colour) = four
      /\ size \in Seq(GpuNames) /\ Len(size) = IF GpuSizeCode(cmd) = 0 THEN 1 ELSE 0
  <2>1. vertex \in Seq(GpuNames) /\ Len(vertex) = 1  BY DEF GpuNames
  <2>2. texel \in Seq(GpuNames) /\ Len(texel) = two
    <3>1. <<"texel">> \in Seq(GpuNames) /\ Len(<<"texel">>) = 1  BY DEF GpuNames
    <3> QED  BY <3>1
  <2>3. colour \in Seq(GpuNames) /\ Len(colour) = four
    <3>1. <<"colour">> \in Seq(GpuNames) /\ Len(<<"colour">>) = 1  BY DEF GpuNames
    <3> QED  BY <3>1
  <2>4. size \in Seq(GpuNames) /\ Len(size) = IF GpuSizeCode(cmd) = 0 THEN 1 ELSE 0
    <3>1. <<"size">> \in Seq(GpuNames) /\ Len(<<"size">>) = 1  BY DEF GpuNames
    <3> QED  BY <3>1
  <2> QED  BY <2>1, <2>2, <2>3, <2>4
<1> HIDE DEF vertex, texel, colour, size
<1>0. two \in Nat /\ four \in Nat  OBVIOUS
<1> HIDE DEF two, four
<1>3. first \in Seq(GpuNames) /\ Len(first) = 1 + two
  <2>1. Len(first) = Len(vertex) + Len(texel) /\ first \in Seq(GpuNames)  BY <1>1, <1>2
  <2> QED  BY <1>2, <2>1
<1>4. colour \o vertex \in Seq(GpuNames) /\ Len(colour \o vertex) = four + 1
  <2>1. colour \o vertex \in Seq(GpuNames) /\ Len(colour \o vertex) = Len(colour) + Len(vertex)
    BY <1>1, <1>2
  <2> QED  BY <1>2, <2>1
<1>5. corner \in Seq(GpuNames) /\ Len(corner) = 1 + two + four  BY <1>1, <1>2, <1>4
<1> HIDE DEF first, corner
<1>6. fourth \in Seq(GpuNames) /\ Len(fourth) = IF GpuBit(cmd, 3) THEN 1 + two + four ELSE 0
  BY <1>5
<1> HIDE DEF fourth
<1>7. CASE GpuPoly(cmd)
  <2>1. first \o corner \in Seq(GpuNames) /\ Len(first \o corner) = 1 + two + 1 + two + four
    <3>1. /\ first \o corner \in Seq(GpuNames)
          /\ Len(first \o corner) = Len(first) + Len(corner)
      BY <1>1, <1>3, <1>5
    <3> QED  BY <1>0, <1>3, <1>5, <3>1
  <2>2. /\ (first \o corner) \o corner \in Seq(GpuNames)
        /\ Len((first \o corner) \o corner) = 3 * (1 + two + four) - four
    <3>1. /\ (first \o corner) \o corner \in Seq(GpuNames)
          /\ Len((first \o corner) \o corner) = Len(first \o corner) + Len(corner)
      BY <1>1, <1>5, <2>1
    <3> QED  BY <1>0, <1>5, <2>1, <3>1
  <2>3. /\ ((first \o corner) \o corner) \o fourth \in Seq(GpuNames)
        /\ Len(((first \o corner) \o corner) \o fourth) =
             (IF GpuBit(cmd, 3) THEN 4 ELSE 3) * (1 + two + four) - four
    <3> DEFINE three == (first \o corner) \o corner
    <3>1. three \o fourth \in Seq(GpuNames) /\ Len(three \o fourth) = Len(three) + Len(fourth)
      BY <1>1, <1>6, <2>2
    <3> QED  BY <1>0, <1>6, <2>2, <3>1
  <2>4. cmd \notin {GpuFill, GpuStore, GpuLoad, GpuCopy}
    BY <1>7 DEF GpuPoly, GpuFill, GpuStore, GpuLoad, GpuCopy
  <2>5. GpuRoles(cmd) = ((first \o corner) \o corner) \o fourth
    BY <1>7, <2>4 DEF GpuRoles, first, corner, fourth, vertex, texel, colour
  <2>6. GpuWordCount(cmd) = 1 + (IF GpuBit(cmd, 3) THEN 4 ELSE 3) * (1 + two + four) - four
    BY <1>7, <2>4 DEF GpuWordCount, two, four
  <2> DEFINE words == (IF GpuBit(cmd, 3) THEN 4 ELSE 3) * (1 + two + four) - four
  <2>7. words \in Int /\ 1 + words - 1 = words  BY <1>0
  <2>8. GpuWordCount(cmd) = 1 + words
    <3>1. 1 + (IF GpuBit(cmd, 3) THEN 4 ELSE 3) * (1 + two + four) - four = 1 + words  BY <1>0
    <3> QED  BY <2>6, <3>1
  <2>9. Len(GpuRoles(cmd)) = words /\ GpuRoles(cmd) \in Seq(GpuNames)  BY <2>3, <2>5
  <2> HIDE DEF words
  <2> QED  BY <2>7, <2>8, <2>9
<1>8. CASE GpuLine(cmd)
  <2>1. vertex \o colour \in Seq(GpuNames) /\ Len(vertex \o colour) = 1 + four
    <3>1. /\ vertex \o colour \in Seq(GpuNames)
          /\ Len(vertex \o colour) = Len(vertex) + Len(colour)
      BY <1>1, <1>2
    <3> QED  BY <1>2, <3>1
  <2>2. /\ (vertex \o colour) \o vertex \in Seq(GpuNames)
        /\ Len((vertex \o colour) \o vertex) = 2 + four
    BY <1>1, <1>2, <2>1
  <2>3. cmd \notin {GpuFill, GpuStore, GpuLoad, GpuCopy} /\ ~GpuPoly(cmd)
    BY <1>8 DEF GpuPoly, GpuLine, GpuFill, GpuStore, GpuLoad, GpuCopy
  <2>4. GpuRoles(cmd) = (vertex \o colour) \o vertex
    BY <1>8, <2>3 DEF GpuRoles, vertex, colour
  <2>5. GpuWordCount(cmd) = 3 + four  BY <1>8, <2>3 DEF GpuWordCount, four
  <2> QED  BY <1>0, <2>2, <2>4, <2>5
<1>9. CASE GpuRect(cmd)
  <2>1. first \o size \in Seq(GpuNames) /\ Len(first \o size) = Len(first) + Len(size)
    BY <1>1, <1>2, <1>3
  <2>2. /\ cmd \notin {GpuFill, GpuStore, GpuLoad, GpuCopy}
        /\ ~GpuPoly(cmd) /\ ~GpuLine(cmd)
    BY <1>9 DEF GpuPoly, GpuLine, GpuRect, GpuFill, GpuStore, GpuLoad, GpuCopy
  <2>3. GpuRoles(cmd) = first \o size
    BY <1>9, <2>2 DEF GpuRoles, first, vertex, texel, size
  <2>4. GpuWordCount(cmd) = 2 + two + IF GpuSizeCode(cmd) = 0 THEN 1 ELSE 0
    BY <1>9, <2>2 DEF GpuWordCount, two
  <2> QED  BY <1>0, <1>2, <1>3, <2>1, <2>3, <2>4
<1>10. CASE cmd \in {GpuFill, GpuStore, GpuLoad}
  <2>1. GpuRoles(cmd) = <<"place", "size">>  BY <1>10 DEF GpuRoles
  <2>2. cmd # GpuLoad => GpuWordCount(cmd) = 3  BY <1>10 DEF GpuWordCount
  <2> QED  BY <2>1, <2>2 DEF GpuNames
<1>11. CASE cmd = GpuCopy
  <2>1. cmd \notin {GpuFill, GpuStore, GpuLoad}
    BY <1>11 DEF GpuFill, GpuStore, GpuLoad, GpuCopy
  <2>2. GpuRoles(cmd) = <<"place", "place", "size">>  BY <1>11, <2>1 DEF GpuRoles
  <2>3. GpuWordCount(cmd) = 4  BY <1>11, <2>1 DEF GpuWordCount
  <2> QED  BY <2>2, <2>3 DEF GpuNames
<1>12. CASE /\ ~GpuPoly(cmd) /\ ~GpuLine(cmd) /\ ~GpuRect(cmd)
            /\ cmd \notin {GpuFill, GpuStore, GpuLoad, GpuCopy}
  <2>1. GpuRoles(cmd) = << >>  BY <1>12 DEF GpuRoles
  <2>2. GpuWordCount(cmd) = 1  BY <1>12 DEF GpuWordCount
  <2> QED  BY <2>1, <2>2
<1> QED  BY <1>7, <1>8, <1>9, <1>10, <1>11, <1>12

-----------------------------------------------------------------------------
(* The interpreter is where the guest is.                                  *)

GpuPorts ==
  [state : {"idle", "header1", "header2", "data", "accumulate"},
   x : GpuXs, y : GpuYs, w : 0..GpuWidth, h : 0..GpuHeight, left : Nat]

GpuSteps ==
  /\ gpu_gp0 \in GpuPorts
  /\ g_cmd_buf \in Seq(GpuWords) /\ gpu_todo \in Seq(GpuNames)
  /\ gpu_gp0.state = "idle" <=> gpu_todo = << >>
  /\ gpu_gp0.state # "accumulate" => g_cmd_buf = << >>
  /\ gpu_gp0.state = "accumulate" =>
       /\ g_cmd_buf # << >>
       /\ GpuWordCount(g_cmd_buf[1].top) = Len(g_cmd_buf) + Len(gpu_todo)
  /\ gpu_gp0.state = "header1" => gpu_todo = <<"place", "size">>
  /\ gpu_gp0.state = "header2" => gpu_todo = <<"size">>
  /\ gpu_gp0.state = "data" =>
       /\ gpu_gp0.left # 0 /\ Len(gpu_todo) = (gpu_gp0.left + 1) \div 2

LEMMA GpuSizesCount ==
  ASSUME NEW f \in GpuSizes
  PROVE  /\ GpuW(f[1]) \in 1..GpuWidth /\ GpuH(f[2]) \in 1..GpuHeight
         /\ GpuW(f[1]) * GpuH(f[2]) \in Nat \ {0}
<1>1. /\ f[1] \in 0..(GpuWidth - 1) /\ f[2] \in 0..(GpuHeight - 1)
      /\ GpuWidth \in Nat \ {0} /\ GpuHeight \in Nat \ {0}
  BY GpuAssumption DEF GpuXs, GpuYs
<1>2. GpuW(f[1]) \in 1..GpuWidth /\ GpuH(f[2]) \in 1..GpuHeight
  BY <1>1 DEF GpuW, GpuH
<1>3. \A a, b \in Nat \ {0} : a * b \in Nat \ {0}  OBVIOUS
<1> QED  BY <1>1, <1>2, <1>3

\* The words of the guest.
LEMMA GpuHeadWords ==
  ASSUME NEW cmd \in GpuHeads, NEW f \in GpuHeadFields(cmd), cmd # 229
  PROVE  [top |-> cmd, x |-> f[1], y |-> f[2], role |-> "command"] \in GpuWords
<1>1. cmd \in 0..255 /\ GpuWidth \in Nat /\ GpuHeight \in Nat  BY GpuAssumption
<1>2. f[1] \in Nat /\ f[2] \in Nat
  <2>1. CASE cmd \in {227, 228}
    <3>1. f \in GpuXs \X GpuYs  BY <2>1, GpuAssumption DEF GpuHeadFields
    <3> QED  BY <1>1, <3>1 DEF GpuXs, GpuYs
  <2>2. CASE cmd \notin {227, 228}
    <3>1. PICK c \in GpuColours : f = <<c, 0>>  BY <2>2 DEF GpuHeadFields
    <3>2. c \in Nat  BY GpuAssumption
    <3> QED  BY <3>1, <3>2
  <2> QED  BY <2>1, <2>2
<1> QED  BY <1>1, <1>2 DEF GpuWords, GpuNames

LEMMA GpuPayloadWords ==
  ASSUME NEW role \in GpuNames, NEW f \in GpuFields(role),
         NEW top \in IF role = "colour" THEN GpuTops ELSE {0}
  PROVE  /\ [top |-> top, x |-> f[1], y |-> f[2], role |-> role] \in GpuWords
         /\ role = "place" => f[1] \in GpuXs /\ f[2] \in GpuYs
         /\ role = "size" => f \in GpuSizes
<1>1. top \in 0..255 /\ GpuWidth \in Nat /\ GpuHeight \in Nat
  BY GpuAssumption
<1>2. CASE role \in {"vertex", "place", "size"}
  <2>1. f \in GpuXs \X GpuYs  BY <1>2, GpuAssumption DEF GpuFields, GpuPixels
  <2>2. f[1] \in Nat /\ f[2] \in Nat  BY <1>1, <2>1 DEF GpuXs, GpuYs
  <2> QED  BY <1>1, <1>2, <2>1, <2>2 DEF GpuWords, GpuFields
<1>3. CASE role = "pixels"
  <2>1. f \in Nat \X Nat  BY <1>3, GpuAssumption DEF GpuFields
  <2> QED  BY <1>1, <1>3, <2>1 DEF GpuWords
<1>4. CASE role \notin {"vertex", "place", "size", "pixels"}
  <2>1. f = <<0, 0>>  BY <1>4 DEF GpuFields
  <2> QED  BY <1>1, <1>4, <2>1 DEF GpuWords
<1> QED  BY <1>2, <1>3, <1>4

LEMMA GpuHeadKeepsSteps ==
  ASSUME GpuSteps, GpuHead
  PROVE  GpuSteps'
<1>0. PICK cmd \in GpuHeads : \E f \in GpuHeadFields(cmd) :
        /\ GpuWord([top |-> cmd, x |-> f[1], y |-> f[2], role |-> "command"])
        /\ gpu_todo' = GpuRoles(cmd)
  BY DEF GpuHead
<1>1. PICK f \in GpuHeadFields(cmd) :
        /\ GpuWord([top |-> cmd, x |-> f[1], y |-> f[2], role |-> "command"])
        /\ gpu_todo' = GpuRoles(cmd)
  BY <1>0
<1> DEFINE v == [top |-> cmd, x |-> f[1], y |-> f[2], role |-> "command"]
<1>2. v.top = cmd /\ cmd \in 0..255 /\ (cmd # 229 => v \in GpuWords)
  BY GpuAssumption, GpuHeadWords
<1>3. GpuInterpret(v)  BY <1>1 DEF GpuWord
<1> HIDE DEF v
<1>4. gpu_gp0.state = "idle" /\ g_cmd_buf = << >> /\ gpu_gp0 \in GpuPorts
  BY DEF GpuSteps, GpuHead
<1>5. /\ gpu_todo' \in Seq(GpuNames)
      /\ cmd # GpuLoad => GpuWordCount(cmd) = 1 + Len(gpu_todo')
  BY <1>1, <1>2, GpuCountsTheFormat
<1>6. CASE cmd = GpuLoad
  <2>1. GpuBegin(v)  BY <1>2, <1>3, <1>4, <1>6 DEF GpuInterpret
  <2>2. gpu_gp0' = [gpu_gp0 EXCEPT !.state = "header1"] /\ g_cmd_buf' = g_cmd_buf
    BY <1>2, <1>6, <2>1 DEF GpuBegin
  <2>3. gpu_todo' = <<"place", "size">>  BY <1>1, <1>6 DEF GpuRoles
  <2>4. gpu_gp0' \in GpuPorts /\ gpu_gp0'.state = "header1"  BY <1>4, <2>2 DEF GpuPorts
  <2>5. gpu_todo' # << >>  BY <2>3
  <2>6. g_cmd_buf' = << >> /\ g_cmd_buf' \in Seq(GpuWords)  BY <1>4, <2>2
  <2> QED  BY <1>5, <2>3, <2>4, <2>5, <2>6 DEF GpuSteps
<1>7. CASE cmd \in {0, 1, 31} \/ (cmd # GpuLoad /\ GpuEnv(cmd))
  <2>1. cmd # GpuLoad  BY <1>7 DEF GpuLoad
  <2>2. gpu_gp0' = gpu_gp0 /\ g_cmd_buf' = g_cmd_buf
    BY <1>2, <1>3, <1>4, <1>7, <2>1 DEF GpuInterpret, GpuBegin, GpuExecEnv
  <2>3. gpu_todo' = << >>
    <3>1. /\ cmd \notin {GpuFill, GpuStore, GpuLoad, GpuCopy}
          /\ ~GpuPoly(cmd) /\ ~GpuLine(cmd) /\ ~GpuRect(cmd)
      BY <1>2, <1>7
      DEF GpuEnv, GpuFill, GpuStore, GpuLoad, GpuCopy, GpuPoly, GpuLine, GpuRect
    <3> QED  BY <1>1, <3>1 DEF GpuRoles
  <2> QED  BY <1>4, <2>2, <2>3 DEF GpuSteps
<1>8. CASE cmd \notin {GpuLoad, 0, 1, 31} /\ ~GpuEnv(cmd)
  <2>1. GpuCollect(v)  BY <1>2, <1>3, <1>4, <1>8 DEF GpuInterpret
  <2> DEFINE buf == Append(g_cmd_buf, v)
  <2>0. v \in GpuWords  BY <1>2, <1>8 DEF GpuEnv
  <2>2. buf = <<v>> /\ Len(buf) = 1 /\ buf[1].top = cmd /\ buf \in Seq(GpuWords) /\ buf # << >>
    BY <1>2, <1>4, <2>0
  <2>3. Len(buf) >= GpuWordCount(cmd) <=> gpu_todo' = << >>
    BY <1>5, <1>8, <2>2, EmptySeq
  <2>4. CASE gpu_todo' = << >>
    <3>1. g_cmd_buf' = << >> /\ gpu_gp0' = [gpu_gp0 EXCEPT !.state = "idle"]
      BY <2>1, <2>2, <2>3, <2>4 DEF GpuCollect
    <3>2. gpu_gp0' \in GpuPorts /\ gpu_gp0'.state = "idle"  BY <1>4, <3>1 DEF GpuPorts
    <3> QED  BY <1>5, <2>4, <3>1, <3>2 DEF GpuSteps
  <2>5. CASE gpu_todo' # << >>
    <3>1. g_cmd_buf' = buf /\ gpu_gp0' = [gpu_gp0 EXCEPT !.state = "accumulate"]
      BY <2>1, <2>2, <2>3, <2>5 DEF GpuCollect
    <3>2. gpu_gp0' \in GpuPorts /\ gpu_gp0'.state = "accumulate"  BY <1>4, <3>1 DEF GpuPorts
    <3> QED  BY <1>5, <1>8, <2>2, <2>5, <3>1, <3>2 DEF GpuSteps
  <2> QED  BY <2>4, <2>5
<1> QED  BY <1>6, <1>7, <1>8

LEMMA GpuPayloadKeepsSteps ==
  ASSUME GpuSteps, GpuPayload
  PROVE  GpuSteps'
<1>1. PICK top \in IF Head(gpu_todo) = "colour" THEN GpuTops ELSE {0},
           f \in GpuFields(Head(gpu_todo)) :
        /\ GpuWord([top |-> top, x |-> f[1], y |-> f[2], role |-> Head(gpu_todo)])
        /\ gpu_todo' = IF gpu_gp0.state = "header2"
                       THEN [i \in 1..((GpuW(f[1]) * GpuH(f[2]) + 1) \div 2) |-> "pixels"]
                       ELSE Tail(gpu_todo)
  BY DEF GpuPayload
<1> DEFINE v == [top |-> top, x |-> f[1], y |-> f[2], role |-> Head(gpu_todo)]
<1>2. /\ gpu_todo \in Seq(GpuNames) /\ gpu_todo # << >> /\ Head(gpu_todo) \in GpuNames
      /\ Tail(gpu_todo) \in Seq(GpuNames) /\ Len(Tail(gpu_todo)) = Len(gpu_todo) - 1
      /\ Len(gpu_todo) \in Nat \ {0}
  BY HeadTailProperties, EmptySeq DEF GpuSteps, GpuPayload
<1>3. /\ v \in GpuWords /\ v.x = f[1] /\ v.y = f[2]
      /\ Head(gpu_todo) = "place" => v.x \in GpuXs /\ v.y \in GpuYs
      /\ Head(gpu_todo) = "size" => f \in GpuSizes
  BY <1>2, GpuPayloadWords
<1>4. GpuInterpret(v)  BY <1>1 DEF GpuWord
<1> HIDE DEF v
<1>5. gpu_gp0 \in GpuPorts /\ gpu_gp0.state # "idle" /\ g_cmd_buf \in Seq(GpuWords)
  BY <1>2 DEF GpuSteps
<1>6. Tail(gpu_todo) = << >> <=> Len(gpu_todo) = 1
  BY <1>2, EmptySeq
<1>7. CASE gpu_gp0.state = "header1"
  <2>1. gpu_todo = <<"place", "size">>  BY <1>7 DEF GpuSteps
  <2>2. gpu_todo' = <<"size">> /\ Head(gpu_todo) = "place"  BY <1>1, <1>7, <2>1
  <2>3. gpu_gp0' = [gpu_gp0 EXCEPT !.state = "header2", !.x = v.x, !.y = v.y] /\ g_cmd_buf' = g_cmd_buf
    BY <1>4, <1>7 DEF GpuInterpret, GpuTransfer, GpuHeader1
  <2>4. gpu_gp0' \in GpuPorts /\ gpu_gp0'.state = "header2"
    BY <1>3, <1>5, <2>2, <2>3 DEF GpuPorts
  <2>5. gpu_todo' \in Seq(GpuNames) /\ gpu_todo' # << >>  BY <2>2 DEF GpuNames
  <2> QED  BY <1>7, <2>2, <2>3, <2>4, <2>5 DEF GpuSteps
<1>8. CASE gpu_gp0.state = "header2"
  <2>1. gpu_todo = <<"size">>  BY <1>8 DEF GpuSteps
  <2>2. f \in GpuSizes  BY <1>3, <2>1
  <2> DEFINE left == GpuW(v.x) * GpuH(v.y)
             words == (left + 1) \div 2
  <2>3. GpuW(v.x) \in 1..GpuWidth /\ GpuH(v.y) \in 1..GpuHeight /\ left \in Nat \ {0}
    BY <1>3, <2>2, GpuSizesCount
  <2>4. gpu_gp0' = [gpu_gp0 EXCEPT !.state = "data", !.w = GpuW(v.x), !.h = GpuH(v.y),
                                   !.left = left]
        /\ g_cmd_buf' = g_cmd_buf
    BY <1>4, <1>8 DEF GpuInterpret, GpuTransfer, GpuHeader2
  <2>5. gpu_todo' = [i \in 1..words |-> "pixels"]  BY <1>1, <1>3, <1>8
  <2>6. GpuWidth \in Nat /\ GpuHeight \in Nat  BY GpuAssumption
  <2> HIDE DEF left
  <2>7. words \in Nat \ {0}  BY <2>3
  <2>8. gpu_gp0' \in GpuPorts /\ gpu_gp0'.state = "data" /\ gpu_gp0'.left = left
    <3>1. GpuW(v.x) \in 0..GpuWidth /\ GpuH(v.y) \in 0..GpuHeight /\ left \in Nat
      BY <2>3, <2>6
    <3> QED  BY <1>5, <2>4, <3>1 DEF GpuPorts
  <2> HIDE DEF words
  <2>9. gpu_todo' \in Seq(GpuNames) /\ Len(gpu_todo') = words
    <3>1. gpu_todo' \in [1..words -> GpuNames]  BY <2>5 DEF GpuNames
    <3> QED  BY <2>7, <3>1, FunctionIsSeq
  <2>10. gpu_todo' # << >>  BY <2>7, <2>9
  <2>11. g_cmd_buf' = << >> /\ g_cmd_buf' \in Seq(GpuWords)  BY <1>8, <2>4 DEF GpuSteps
  <2> QED  BY <2>3, <2>8, <2>9, <2>10, <2>11 DEF GpuSteps, words
<1>9. CASE gpu_gp0.state = "data"
  <2>1. gpu_gp0' = GpuData(gpu_gp0) /\ g_cmd_buf' = g_cmd_buf /\ gpu_todo' = Tail(gpu_todo)
    BY <1>1, <1>4, <1>9 DEF GpuInterpret, GpuTransfer
  <2>2. gpu_gp0.left \in Nat \ {0} /\ Len(gpu_todo) = (gpu_gp0.left + 1) \div 2
    BY <1>5, <1>9 DEF GpuSteps, GpuPorts
  <2>3. g_cmd_buf' = << >> /\ g_cmd_buf' \in Seq(GpuWords)  BY <1>9, <2>1 DEF GpuSteps
  <2>4. CASE gpu_gp0.left <= 2
    <3>1. gpu_gp0' \in GpuPorts /\ gpu_gp0'.state = "idle"
      BY <1>5, <2>1, <2>4 DEF GpuData, GpuPorts
    <3>2. gpu_todo' = << >>  BY <1>6, <2>1, <2>2, <2>4
    <3> QED  BY <1>2, <2>1, <2>3, <3>1, <3>2 DEF GpuSteps
  <2>5. CASE gpu_gp0.left > 2
    <3>1. gpu_gp0' = [gpu_gp0 EXCEPT !.left = gpu_gp0.left - 2]
      BY <2>1, <2>2, <2>5 DEF GpuData
    <3>2. gpu_gp0' \in GpuPorts /\ gpu_gp0'.state = "data" /\ gpu_gp0'.left = gpu_gp0.left - 2
      <4>1. gpu_gp0.left - 2 \in Nat  BY <2>2, <2>5
      <4> QED  BY <1>5, <1>9, <3>1, <4>1 DEF GpuPorts
    <3>3. gpu_todo' # << >> /\ Len(gpu_todo') = (gpu_gp0'.left + 1) \div 2 /\ gpu_gp0'.left # 0
      <4>1. \A n \in Nat : n > 2 => (n - 2 + 1) \div 2 = (n + 1) \div 2 - 1 /\ (n + 1) \div 2 > 1
        OBVIOUS
      <4>2. /\ (gpu_gp0.left - 2 + 1) \div 2 = (gpu_gp0.left + 1) \div 2 - 1
            /\ (gpu_gp0.left + 1) \div 2 > 1
        BY <2>2, <2>5, <4>1
      <4>3. gpu_todo' # << >>  BY <1>2, <1>6, <2>1, <2>2, <4>2
      <4>4. Len(gpu_todo') = (gpu_gp0'.left + 1) \div 2
        <5>1. Len(gpu_todo') = Len(gpu_todo) - 1  BY <1>2, <2>1
        <5> QED  BY <2>2, <3>2, <4>2, <5>1
      <4>5. gpu_gp0'.left # 0  BY <2>2, <2>5, <3>2
      <4> QED  BY <4>3, <4>4, <4>5
    <3> QED  BY <1>2, <2>1, <2>3, <3>2, <3>3 DEF GpuSteps
  <2> QED  BY <2>2, <2>4, <2>5
<1>10. CASE gpu_gp0.state = "accumulate"
  <2>1. GpuCollect(v) /\ gpu_todo' = Tail(gpu_todo)  BY <1>1, <1>4, <1>10 DEF GpuInterpret
  <2> DEFINE buf == Append(g_cmd_buf, v)
  <2>2. /\ g_cmd_buf # << >> /\ Len(g_cmd_buf) \in Nat \ {0}
        /\ GpuWordCount(g_cmd_buf[1].top) = Len(g_cmd_buf) + Len(gpu_todo)
    BY <1>10, EmptySeq DEF GpuSteps
  <2>3. buf \in Seq(GpuWords) /\ Len(buf) = Len(g_cmd_buf) + 1 /\ buf[1] = g_cmd_buf[1] /\ buf # << >>
    BY <1>3, <1>5, <2>2
  <2>4. Len(buf) >= GpuWordCount(buf[1].top) <=> gpu_todo' = << >>
    BY <1>2, <1>6, <2>1, <2>2, <2>3
  <2>5. CASE gpu_todo' = << >>
    <3>1. g_cmd_buf' = << >> /\ gpu_gp0' = [gpu_gp0 EXCEPT !.state = "idle"]
      BY <2>1, <2>4, <2>5 DEF GpuCollect
    <3>2. gpu_gp0' \in GpuPorts /\ gpu_gp0'.state = "idle"  BY <1>5, <3>1 DEF GpuPorts
    <3> QED  BY <1>2, <2>1, <2>5, <3>1, <3>2 DEF GpuSteps
  <2>6. CASE gpu_todo' # << >>
    <3>1. g_cmd_buf' = buf /\ gpu_gp0' = [gpu_gp0 EXCEPT !.state = "accumulate"]
      BY <2>1, <2>4, <2>6 DEF GpuCollect
    <3>2. gpu_gp0' \in GpuPorts /\ gpu_gp0'.state = "accumulate"  BY <1>5, <3>1 DEF GpuPorts
    <3>3. GpuWordCount(buf[1].top) = Len(buf) + Len(gpu_todo')  BY <1>2, <2>1, <2>2, <2>3
    <3> QED  BY <1>2, <2>1, <2>3, <2>6, <3>1, <3>2, <3>3 DEF GpuSteps
  <2> QED  BY <2>5, <2>6
<1> QED  BY <1>5, <1>7, <1>8, <1>9, <1>10 DEF GpuPorts

LEMMA GpuRestKeepsSteps ==
  ASSUME GpuSteps, GpuReset \/ GpuRead \/ UNCHANGED gpu_vars
  PROVE  GpuSteps'
<1>1. CASE GpuReset
  <2>1. /\ gpu_gp0' = [gpu_gp0 EXCEPT !.state = "idle"] /\ g_cmd_buf' = << >>
        /\ gpu_todo' = << >> /\ gpu_gp0 \in GpuPorts
    BY <1>1 DEF GpuReset, GpuSteps
  <2>2. gpu_gp0' \in GpuPorts /\ gpu_gp0'.state = "idle"  BY <2>1 DEF GpuPorts
  <2> QED  BY <2>1, <2>2 DEF GpuSteps
<1>2. CASE GpuRead \/ UNCHANGED gpu_vars
  BY <1>2 DEF GpuRead, gpu_vars, GpuSteps
<1> QED  BY <1>1, <1>2

LEMMA GpuInitSteps == GpuInit => GpuSteps
<1> SUFFICES ASSUME GpuInit PROVE GpuSteps  OBVIOUS
<1>1. gpu_gp0 = GpuIdle /\ g_cmd_buf = << >> /\ gpu_todo = << >>  BY DEF GpuInit
<1>2. GpuWidth \in Nat \ {0} /\ GpuHeight \in Nat \ {0}  BY GpuAssumption
<1>3. gpu_gp0 \in GpuPorts /\ gpu_gp0.state = "idle"
  BY <1>1, <1>2 DEF GpuIdle, GpuPorts, GpuXs, GpuYs
<1> QED  BY <1>1, <1>3 DEF GpuSteps

\* For every stream of commands of the guest, with every placement of a
\* reset of the port, also inside an image.
THEOREM InterpreterFollowsTheGuest == GpuSpec => []GpuInStep
<1>1. GpuSteps /\ [GpuNext]_gpu_vars => GpuSteps'
  BY GpuHeadKeepsSteps, GpuPayloadKeepsSteps, GpuRestKeepsSteps DEF GpuNext
<1>2. GpuSteps => GpuInStep  BY DEF GpuSteps, GpuInStep
<1> QED  BY <1>1, <1>2, GpuInitSteps, PTL DEF GpuSpec

-----------------------------------------------------------------------------
(* The capture machine is where the interpreter is, as long as the port is *)
(* not reset inside an image and no colour word looks like the load of     *)
(* one: the machine takes the words the interpreter collects for commands. *)

GpuCap ==
  gpu_cap = IF gpu_gp0.state = "accumulate" THEN [gpu_gp0 EXCEPT !.state = "idle"]
            ELSE gpu_gp0

LEMMA GpuWordKeepsCap ==
  ASSUME GpuSteps, GpuCap, NEW v, GpuWord(v),
         gpu_gp0.state = "accumulate" => v.top # GpuLoad
  PROVE  GpuCap'
<1>1. gpu_cap' = GpuCapture(v) /\ GpuInterpret(v)  BY DEF GpuWord
<1>2. gpu_gp0 \in GpuPorts  BY DEF GpuSteps
<1>3. CASE gpu_gp0.state \in {"header1", "header2", "data"}
  <2>1. gpu_cap = gpu_gp0  BY <1>3 DEF GpuCap
  <2>2. gpu_gp0' = CASE gpu_gp0.state = "header1" -> GpuHeader1(gpu_gp0, v)
                     [] gpu_gp0.state = "header2" -> GpuHeader2(gpu_gp0, v)
                     [] OTHER -> GpuData(gpu_gp0)
    BY <1>1, <1>3 DEF GpuInterpret, GpuTransfer
  <2>3. gpu_cap' = gpu_gp0'  BY <1>1, <1>3, <2>1, <2>2 DEF GpuCapture
  <2>4. gpu_gp0'.state # "accumulate"
    BY <1>2, <1>3, <2>2 DEF GpuHeader1, GpuHeader2, GpuData, GpuPorts
  <2> QED  BY <2>3, <2>4 DEF GpuCap
<1>4. CASE gpu_gp0.state = "accumulate"
  <2>1. gpu_cap = [gpu_gp0 EXCEPT !.state = "idle"] /\ gpu_cap.state = "idle"
    BY <1>2, <1>4 DEF GpuCap, GpuPorts
  <2>2. gpu_cap' = gpu_cap  BY <1>1, <1>4, <2>1 DEF GpuCapture
  <2>3. \/ gpu_gp0' = [gpu_gp0 EXCEPT !.state = "idle"]
        \/ gpu_gp0' = [gpu_gp0 EXCEPT !.state = "accumulate"]
    BY <1>1, <1>4 DEF GpuInterpret, GpuCollect
  <2> QED  BY <1>2, <1>4, <2>1, <2>2, <2>3 DEF GpuCap, GpuPorts
<1>5. CASE gpu_gp0.state = "idle"
  <2>1. gpu_cap = gpu_gp0  BY <1>5 DEF GpuCap
  <2>2. gpu_cap' = IF v.top = GpuLoad THEN [gpu_gp0 EXCEPT !.state = "header1"] ELSE gpu_gp0
    BY <1>1, <1>5, <2>1 DEF GpuCapture
  <2>3. CASE v.top = GpuLoad
    <3>1. gpu_gp0' = [gpu_gp0 EXCEPT !.state = "header1"]
      BY <1>1, <1>5, <2>3 DEF GpuInterpret, GpuBegin
    <3> QED  BY <1>2, <2>2, <2>3, <3>1 DEF GpuCap, GpuPorts
  <2>4. CASE v.top # GpuLoad
    <3>1. \/ gpu_gp0' = gpu_gp0
          \/ gpu_gp0' = [gpu_gp0 EXCEPT !.state = "idle"]
          \/ gpu_gp0' = [gpu_gp0 EXCEPT !.state = "accumulate"]
      BY <1>1, <1>5, <2>4 DEF GpuInterpret, GpuBegin, GpuExecEnv, GpuCollect
    <3> QED  BY <1>2, <1>5, <2>2, <2>4, <3>1 DEF GpuCap, GpuPorts
  <2> QED  BY <2>3, <2>4
<1> QED  BY <1>2, <1>3, <1>4, <1>5 DEF GpuPorts

LEMMA GpuNextKeepsCap ==
  ASSUME ~GpuAborts, GpuLoad \notin GpuTops, GpuSteps, GpuCap, [GpuNext]_gpu_vars
  PROVE  GpuCap'
<1>1. CASE GpuHead
  <2>1. PICK v : GpuWord(v)  BY <1>1 DEF GpuHead
  <2>2. gpu_gp0.state = "idle"  BY <1>1 DEF GpuHead, GpuSteps
  <2> QED  BY <2>1, <2>2, GpuWordKeepsCap
<1>2. CASE GpuPayload
  <2>1. PICK top \in IF Head(gpu_todo) = "colour" THEN GpuTops ELSE {0},
             f \in GpuFields(Head(gpu_todo)) :
          GpuWord([top |-> top, x |-> f[1], y |-> f[2], role |-> Head(gpu_todo)])
    BY <1>2 DEF GpuPayload
  <2>2. top # GpuLoad  BY DEF GpuLoad
  <2> DEFINE v == [top |-> top, x |-> f[1], y |-> f[2], role |-> Head(gpu_todo)]
  <2>3. GpuWord(v) /\ v.top # GpuLoad  BY <2>1, <2>2
  <2> HIDE DEF v
  <2> QED  BY <2>3, GpuWordKeepsCap
<1>3. CASE GpuReset
  <2>1. gpu_gp0' = [gpu_gp0 EXCEPT !.state = "idle"] /\ gpu_cap' = gpu_cap
        /\ gpu_gp0.state \in {"idle", "accumulate"} /\ gpu_gp0 \in GpuPorts
    BY <1>3 DEF GpuReset, GpuSteps
  <2> QED  BY <2>1 DEF GpuCap, GpuPorts
<1>4. CASE GpuRead \/ UNCHANGED gpu_vars
  BY <1>4 DEF GpuRead, gpu_vars, GpuCap
<1> QED  BY <1>1, <1>2, <1>3, <1>4 DEF GpuNext

\* Both hypotheses are needed: without the first the machine stays inside
\* the image, without the second it starts one of its own.
THEOREM CaptureFollowsTheInterpreter ==
  ASSUME ~GpuAborts, GpuLoad \notin GpuTops
  PROVE  GpuSpec => []GpuCaptureInStep
<1>1. GpuInit => GpuCap
  BY DEF GpuInit, GpuCap, GpuIdle
<1>2. GpuSteps /\ [GpuNext]_gpu_vars => GpuSteps'
  BY GpuHeadKeepsSteps, GpuPayloadKeepsSteps, GpuRestKeepsSteps DEF GpuNext
<1>3. GpuSteps /\ GpuCap /\ [GpuNext]_gpu_vars => GpuCap'  BY GpuNextKeepsCap
<1>4. GpuSteps /\ GpuCap => GpuCaptureInStep
  BY DEF GpuSteps, GpuCap, GpuCaptureInStep, GpuPorts
<1> QED  BY <1>1, <1>2, <1>3, <1>4, GpuInitSteps, PTL DEF GpuSpec

-----------------------------------------------------------------------------
(* Images.                                                                 *)

\* The pixels of a rectangle no larger than VRAM lie apart, also where it
\* wraps.
LEMMA GpuPixelsApart ==
  ASSUME NEW x \in GpuXs, NEW y \in GpuYs, NEW w \in 1..GpuWidth, NEW h \in 1..GpuHeight,
         NEW j \in 0..(w * h - 1)
  PROVE  /\ GpuAt(x, y, w, j) \in GpuPixels
         /\ \A k \in 0..(w * h - 1) : GpuAt(x, y, w, j) = GpuAt(x, y, w, k) => j = k
<1>1. GpuWidth \in Nat \ {0} /\ GpuHeight \in Nat \ {0}  BY GpuAssumption
<1>2. /\ x \in 0..(GpuWidth - 1) /\ y \in 0..(GpuHeight - 1)
      /\ w \in Nat \ {0} /\ h \in Nat \ {0}
  BY <1>1 DEF GpuXs, GpuYs
<1>3. \A m \in Nat \ {0}, n \in Nat : n % m \in 0..(m - 1) /\ n = m * (n \div m) + (n % m)
  OBVIOUS
<1>4. \A m, q \in Nat \ {0} : \A n \in 0..(m * q - 1) : n \div m \in 0..(q - 1)
  OBVIOUS
<1>5. \A m \in Nat \ {0} : \A b, n, r \in 0..(m - 1) : (b + n) % m = (b + r) % m => n = r
  <2> SUFFICES ASSUME NEW m \in Nat \ {0}, NEW b \in 0..(m - 1), NEW n \in 0..(m - 1),
                      NEW r \in 0..(m - 1), (b + n) % m = (b + r) % m
               PROVE  n = r
    OBVIOUS
  <2>1. \A a \in 0..(m - 1) : a % m = a  OBVIOUS
  <2>2. \A a \in m..(2 * m - 1) : a % m = a - m  OBVIOUS
  <2>3. (b + n) % m = (IF b + n < m THEN b + n ELSE b + n - m)  BY <2>1, <2>2
  <2>4. (b + r) % m = (IF b + r < m THEN b + r ELSE b + r - m)  BY <2>1, <2>2
  <2> QED  BY <2>3, <2>4
<1>6. w * h \in Nat  BY <1>2
<1>7. \A k \in 0..(w * h - 1) :
        /\ k \in Nat /\ k % w \in 0..(w - 1) /\ k \div w \in 0..(h - 1)
        /\ k = w * (k \div w) + (k % w)
  <2> TAKE k \in 0..(w * h - 1)
  <2>1. k \in Nat  BY <1>6
  <2>2. k \div w \in 0..(h - 1)  BY <1>2, <1>4
  <2> QED  BY <1>2, <1>3, <2>1, <2>2
<1>8. GpuAt(x, y, w, j) \in GpuPixels
  <2>1. x + (j % w) \in Nat /\ y + (j \div w) \in Nat
    <3>1. j % w \in 0..(w - 1) /\ j \div w \in 0..(h - 1)  BY <1>7
    <3>2. j % w \in Nat /\ j \div w \in Nat  BY <3>1
    <3>3. \A a, b \in Nat : a + b \in Nat  OBVIOUS
    <3>4. x \in Nat /\ y \in Nat  BY <1>2
    <3> QED  BY <3>2, <3>3, <3>4
  <2>2. (x + (j % w)) % GpuWidth \in GpuXs /\ (y + (j \div w)) % GpuHeight \in GpuYs
    BY <1>1, <1>3, <2>1 DEF GpuXs, GpuYs
  <2> QED  BY <2>2 DEF GpuAt, GpuPixels
<1>9. ASSUME NEW k \in 0..(w * h - 1), GpuAt(x, y, w, j) = GpuAt(x, y, w, k)
      PROVE  j = k
  <2>1. /\ (x + (j % w)) % GpuWidth = (x + (k % w)) % GpuWidth
        /\ (y + (j \div w)) % GpuHeight = (y + (k \div w)) % GpuHeight
    BY <1>9 DEF GpuAt
  <2>2. /\ j % w \in 0..(GpuWidth - 1) /\ k % w \in 0..(GpuWidth - 1)
        /\ j \div w \in 0..(GpuHeight - 1) /\ k \div w \in 0..(GpuHeight - 1)
    <3>1. \A n \in 0..(w - 1) : n \in 0..(GpuWidth - 1)  BY <1>1
    <3>2. \A n \in 0..(h - 1) : n \in 0..(GpuHeight - 1)  BY <1>1
    <3> QED  BY <1>7, <3>1, <3>2
  <2>3. j % w = k % w /\ j \div w = k \div w  BY <1>1, <1>2, <1>5, <2>1, <2>2
  <2> QED  BY <1>7, <2>3
<1> QED  BY <1>8, <1>9

\* A data word, painted by both machines, paints its one or two pixels and
\* leaves the others alone.
GpuPainted(new, vram, t, v, k) ==
  LET a == GpuAt(t.x, t.y, t.w, k)
      b == GpuAt(t.x, t.y, t.w, k + 1)
  IN  /\ DOMAIN new = GpuPixels
      /\ \A p \in GpuPixels : p # a /\ (t.left > 1 => p # b) => new[p] = vram[p]
      /\ t.left > 1 /\ b \in GpuPixels => new[b] = v.y
      /\ a \in GpuPixels /\ (t.left > 1 => a # b) => new[a] = v.x

LEMMA GpuPaints ==
  ASSUME NEW vram, DOMAIN vram = GpuPixels, NEW t, NEW v,
         t.left \in Nat \ {0}, NEW k, k = t.w * t.h - t.left
  PROVE  GpuPainted(GpuPaint(GpuPaint(vram, t, v, FALSE), t, v, TRUE), vram, t, v, k)
<1> DEFINE In(n) == t.x + (n % t.w) < GpuWidth /\ t.y + (n \div t.w) < GpuHeight
           a == GpuAt(t.x, t.y, t.w, k)
           b == GpuAt(t.x, t.y, t.w, k + 1)
           half == IF In(k) THEN [vram EXCEPT ![a] = v.x] ELSE vram
           first == GpuPaint(vram, t, v, FALSE)
           one == [first EXCEPT ![a] = v.x]
           new == GpuPaint(first, t, v, TRUE)
<1>1. t.left > 0 /\ t.w * t.h - t.left = k  OBVIOUS
<1> HIDE DEF In, a, b
<1>2. first = IF t.left > 1 /\ In(k + 1) THEN [half EXCEPT ![b] = v.y] ELSE half
  BY <1>1 DEF GpuPaint, In, a, b
<1> HIDE DEF first
<1>3. new = IF t.left > 1 THEN [one EXCEPT ![b] = v.y] ELSE one
  BY <1>1 DEF GpuPaint, a, b
<1> HIDE DEF new
<1>4. DOMAIN half = GpuPixels /\ \A p \in GpuPixels : p # a => half[p] = vram[p]
  OBVIOUS
<1> HIDE DEF half
<1>5. /\ DOMAIN first = GpuPixels
      /\ \A p \in GpuPixels : p # a /\ (t.left > 1 => p # b) => first[p] = vram[p]
  BY <1>2, <1>4
<1>6. /\ DOMAIN one = GpuPixels /\ (a \in GpuPixels => one[a] = v.x)
      /\ \A p \in GpuPixels : p # a => one[p] = first[p]
  BY <1>5
<1> HIDE DEF one
<1>7. /\ DOMAIN new = GpuPixels
      /\ \A p \in GpuPixels : (t.left > 1 => p # b) => new[p] = one[p]
      /\ t.left > 1 /\ b \in GpuPixels => new[b] = v.y
  BY <1>3, <1>6
<1> QED  BY <1>5, <1>6, <1>7 DEF GpuPainted, new, first, a, b

GpuShown ==
  \A k \in 0..(Len(gpu_image.pixels) - 1) :
    g_vram[GpuAt(gpu_image.x, gpu_image.y, gpu_image.w, k)] = gpu_image.pixels[k + 1]

GpuImages ==
  /\ DOMAIN g_vram = GpuPixels
  /\ gpu_image \in [whole : BOOLEAN, x : GpuXs, y : GpuYs, w : 0..GpuWidth, pixels : Seq(Nat)]
  /\ gpu_rd.done \in Nat /\ gpu_rd.left \in Nat
  /\ gpu_image.whole =>
       /\ GpuShown
       /\ gpu_gp0.state \in {"idle", "accumulate"}
       /\ gpu_gp0.state = "accumulate" => g_cmd_buf[1].top = GpuStore
  /\ gpu_gp0.state \in {"header1", "header2"} => gpu_image.pixels = << >>
  /\ gpu_gp0.state \in {"header2", "data"} =>
       gpu_image.x = gpu_gp0.x /\ gpu_image.y = gpu_gp0.y
  /\ gpu_gp0.state = "data" =>
       /\ GpuShown
       /\ gpu_gp0.w \in 1..GpuWidth /\ gpu_gp0.h \in 1..GpuHeight
       /\ gpu_image.w = gpu_gp0.w
       /\ Len(gpu_image.pixels) = gpu_gp0.w * gpu_gp0.h - gpu_gp0.left

\* What a command paints is a picture.
LEMMA GpuExecPaints ==
  ASSUME NEW buf \in Seq(GpuWords), NEW vram, DOMAIN vram = GpuPixels, GpuExec(buf, vram)
  PROVE  /\ DOMAIN g_vram' = GpuPixels
         /\ /\ buf[1].top \notin {GpuFill, GpuCopy}
            /\ ~GpuPoly(buf[1].top) /\ ~GpuLine(buf[1].top) /\ ~GpuRect(buf[1].top)
            => g_vram' = vram
         /\ (buf[1].top = GpuStore => Len(buf) >= 3) /\ gpu_rd.done \in Nat /\ gpu_rd.left \in Nat
            => gpu_rd'.done \in Nat /\ gpu_rd'.left \in Nat
<1> DEFINE cmd == buf[1].top
<1>1. g_vram' \in IF cmd = GpuFill THEN {GpuFilled(vram, buf)}
                   ELSE IF cmd = GpuCopy THEN {GpuCopied(vram, buf)}
                   ELSE IF GpuPoly(cmd) \/ GpuLine(cmd) \/ GpuRect(cmd)
                   THEN GpuDrawn(vram, gpu_env, buf)
                   ELSE {vram}
  BY DEF GpuExec
<1>2. DOMAIN GpuFilled(vram, buf) = GpuPixels /\ DOMAIN GpuCopied(vram, buf) = GpuPixels
  BY DEF GpuFilled, GpuCopied
<1>3. \A new \in GpuDrawn(vram, gpu_env, buf) : DOMAIN new = GpuPixels
  BY DEF GpuDrawn
<1> HIDE DEF cmd
<1>4. DOMAIN g_vram' = GpuPixels  BY <1>1, <1>2, <1>3
<1>5. /\ cmd \notin {GpuFill, GpuCopy} /\ ~GpuPoly(cmd) /\ ~GpuLine(cmd) /\ ~GpuRect(cmd)
      => g_vram' = vram
  BY <1>1
<1>6. ASSUME cmd = GpuStore => Len(buf) >= 3, gpu_rd.done \in Nat, gpu_rd.left \in Nat
      PROVE  gpu_rd'.done \in Nat /\ gpu_rd'.left \in Nat
  <2>1. CASE cmd = GpuStore
    <3>1. buf[3] \in GpuWords  BY <1>6, <2>1
    <3>2. GpuW(buf[3].x) \in Nat /\ GpuH(buf[3].y) \in Nat
      BY <3>1, GpuAssumption DEF GpuWords, GpuW, GpuH
    <3>3. GpuW(buf[3].x) * GpuH(buf[3].y) \in Nat  BY <3>2
    <3>4. gpu_rd'.done = 0 /\ gpu_rd'.left = GpuW(buf[3].x) * GpuH(buf[3].y)
      BY <2>1 DEF GpuExec, cmd
    <3> QED  BY <3>3, <3>4
  <2>2. CASE cmd # GpuStore
    <3>1. gpu_rd' = gpu_rd  BY <2>2 DEF GpuExec, cmd
    <3> QED  BY <1>6, <3>1
  <2> QED  BY <2>1, <2>2
<1> QED  BY <1>4, <1>5, <1>6 DEF cmd

LEMMA GpuCountsNothing ==
  ASSUME NEW cmd \in 0..255, cmd # GpuLoad
  PROVE  GpuWordCount(cmd) \in Nat /\ (GpuRoles(cmd) = << >> => GpuWordCount(cmd) = 1)
<1>1. GpuRoles(cmd) \in Seq(GpuNames) /\ GpuWordCount(cmd) = 1 + Len(GpuRoles(cmd))
  BY GpuCountsTheFormat
<1>2. Len(GpuRoles(cmd)) \in Nat /\ (GpuRoles(cmd) = << >> => Len(GpuRoles(cmd)) = 0)
  BY <1>1, EmptySeq, LenProperties
<1> QED  BY <1>1, <1>2

\* A command that calls for no further word, or for reading, paints nothing.
LEMMA GpuShortCommands ==
  ASSUME NEW cmd \in 0..255, GpuRoles(cmd) = << >> \/ cmd = GpuStore
  PROVE  /\ cmd \notin {GpuFill, GpuCopy, GpuLoad}
         /\ ~GpuPoly(cmd) /\ ~GpuLine(cmd) /\ ~GpuRect(cmd)
         /\ GpuRoles(cmd) = << >> => cmd # GpuStore
<1>1. CASE cmd = GpuStore
  BY <1>1 DEF GpuStore, GpuFill, GpuCopy, GpuLoad, GpuPoly, GpuLine, GpuRect, GpuRoles
<1>2. CASE GpuRoles(cmd) = << >>
  <2>1. cmd \notin {GpuFill, GpuStore, GpuLoad}  BY <1>2 DEF GpuRoles
  <2>2. cmd # GpuCopy  BY <1>2, <2>1 DEF GpuRoles
  <2>3. GpuWordCount(cmd) = 1  BY <1>2, <2>1, GpuCountsNothing
  <2>4. ~GpuPoly(cmd)
    <3> SUFFICES ASSUME GpuPoly(cmd) PROVE FALSE  OBVIOUS
    <3> DEFINE two == IF GpuBit(cmd, 2) THEN 1 ELSE 0
               four == IF GpuBit(cmd, 4) THEN 1 ELSE 0
    <3>1. GpuWordCount(cmd) = 1 + (IF GpuBit(cmd, 3) THEN 4 ELSE 3) * (1 + two + four) - four
      BY <2>1, <2>2 DEF GpuWordCount
    <3>2. two \in 0..1 /\ four \in 0..1  OBVIOUS
    <3> HIDE DEF two, four
    <3> QED  BY <2>3, <3>1, <3>2
  <2>5. ~GpuLine(cmd)
    <3> SUFFICES ASSUME GpuLine(cmd) PROVE FALSE  OBVIOUS
    <3>1. GpuWordCount(cmd) = 3 + IF GpuBit(cmd, 4) THEN 1 ELSE 0
      BY <2>1, <2>2, <2>4 DEF GpuWordCount
    <3> QED  BY <2>3, <3>1
  <2>6. ~GpuRect(cmd)
    <3> SUFFICES ASSUME GpuRect(cmd) PROVE FALSE  OBVIOUS
    <3>1. GpuWordCount(cmd) = 2 + (IF GpuBit(cmd, 2) THEN 1 ELSE 0)
                                + IF GpuSizeCode(cmd) = 0 THEN 1 ELSE 0
      BY <2>1, <2>2, <2>4, <2>5 DEF GpuWordCount
    <3> QED  BY <2>3, <3>1
  <2> QED  BY <2>1, <2>2, <2>4, <2>5, <2>6
<1> QED  BY <1>1, <1>2

LEMMA GpuCapturedWord ==
  ASSUME GpuSteps, GpuCap, NEW v
  PROVE  GpuCaptured(v) = IF gpu_gp0.state = "data" THEN GpuPaint(g_vram, gpu_gp0, v, FALSE)
                          ELSE g_vram
<1>1. gpu_gp0 \in GpuPorts  BY DEF GpuSteps
<1>2. CASE gpu_gp0.state = "accumulate"
  <2>1. gpu_cap.state = "idle"  BY <1>1, <1>2 DEF GpuCap, GpuPorts
  <2> QED  BY <1>2, <2>1 DEF GpuCaptured
<1>3. CASE gpu_gp0.state # "accumulate"
  BY <1>3 DEF GpuCap, GpuCaptured
<1> QED  BY <1>2, <1>3

LEMMA GpuHeadKeepsImages ==
  ASSUME GpuSteps, GpuCap, GpuImages, GpuHead
  PROVE  GpuImages'
<1>0. PICK cmd \in GpuHeads : \E f \in GpuHeadFields(cmd) :
        /\ GpuWord([top |-> cmd, x |-> f[1], y |-> f[2], role |-> "command"])
        /\ gpu_image' = IF GpuRoles(cmd) = << >> \/ cmd = GpuStore THEN gpu_image
                        ELSE GpuNoImage
  BY DEF GpuHead
<1>1. PICK f \in GpuHeadFields(cmd) :
        /\ GpuWord([top |-> cmd, x |-> f[1], y |-> f[2], role |-> "command"])
        /\ gpu_image' = IF GpuRoles(cmd) = << >> \/ cmd = GpuStore THEN gpu_image
                        ELSE GpuNoImage
  BY <1>0
<1> DEFINE v == [top |-> cmd, x |-> f[1], y |-> f[2], role |-> "command"]
<1>2. v.top = cmd /\ cmd \in 0..255 /\ (cmd # 229 => v \in GpuWords)
  BY GpuAssumption, GpuHeadWords
<1>3. GpuInterpret(v)  BY <1>1 DEF GpuWord
<1> HIDE DEF v
<1>4. /\ gpu_gp0.state = "idle" /\ g_cmd_buf = << >> /\ gpu_gp0 \in GpuPorts
      /\ GpuCaptured(v) = g_vram /\ DOMAIN g_vram = GpuPixels
  BY GpuCapturedWord DEF GpuSteps, GpuHead, GpuImages
<1>5. /\ gpu_image \in [whole : BOOLEAN, x : GpuXs, y : GpuYs, w : 0..GpuWidth, pixels : Seq(Nat)]
      /\ gpu_rd.done \in Nat /\ gpu_rd.left \in Nat
      /\ gpu_image.whole => GpuShown
  BY DEF GpuImages
<1>6. /\ GpuNoImage \in [whole : BOOLEAN, x : GpuXs, y : GpuYs, w : 0..GpuWidth, pixels : Seq(Nat)]
      /\ ~GpuNoImage.whole /\ GpuNoImage.pixels = << >>
  BY GpuAssumption DEF GpuNoImage, GpuXs, GpuYs
<1>7. gpu_image' = gpu_image \/ gpu_image' = GpuNoImage  BY <1>1
<1>8. CASE cmd = GpuLoad
  <2>1. GpuBegin(v)  BY <1>2, <1>3, <1>4, <1>8 DEF GpuInterpret
  <2>2. /\ gpu_gp0' = [gpu_gp0 EXCEPT !.state = "header1"]
        /\ g_vram' = g_vram /\ gpu_rd' = gpu_rd
    BY <1>2, <1>4, <1>8, <2>1 DEF GpuBegin
  <2>3. gpu_image' = GpuNoImage  BY <1>1, <1>2, <1>8, GpuShortCommands
  <2>4. gpu_gp0'.state = "header1"  BY <1>4, <2>2 DEF GpuPorts
  <2> QED  BY <1>4, <1>5, <1>6, <2>2, <2>3, <2>4 DEF GpuImages
<1>9. CASE cmd \in {0, 1, 31} \/ (cmd # GpuLoad /\ GpuEnv(cmd))
  <2>1. cmd # GpuLoad  BY <1>9 DEF GpuLoad
  <2>2. gpu_gp0' = gpu_gp0 /\ g_vram' = g_vram /\ gpu_rd' = gpu_rd /\ g_cmd_buf' = g_cmd_buf
    BY <1>2, <1>3, <1>4, <1>9, <2>1 DEF GpuInterpret, GpuBegin, GpuExecEnv
  <2>3. CASE gpu_image' = gpu_image
    BY <2>2, <2>3 DEF GpuImages, GpuShown
  <2>4. CASE gpu_image' = GpuNoImage
    BY <1>4, <1>5, <1>6, <2>2, <2>4 DEF GpuImages
  <2> QED  BY <1>7, <2>3, <2>4
<1>10. CASE cmd \notin {GpuLoad, 0, 1, 31} /\ ~GpuEnv(cmd)
  <2>1. GpuCollect(v)  BY <1>2, <1>3, <1>4, <1>10 DEF GpuInterpret
  <2> DEFINE buf == Append(g_cmd_buf, v)
  <2>0. v \in GpuWords  BY <1>2, <1>10 DEF GpuEnv
  <2>2. buf = <<v>> /\ Len(buf) = 1 /\ buf[1].top = cmd /\ buf \in Seq(GpuWords)
    BY <1>2, <1>4, <2>0
  <2> HIDE DEF buf
  <2>9. GpuWordCount(cmd) \in Nat /\ (GpuRoles(cmd) = << >> => GpuWordCount(cmd) = 1)
    BY <1>2, <1>10, GpuCountsNothing
  <2>3. /\ gpu_gp0'.state = IF 1 >= GpuWordCount(cmd) THEN "idle" ELSE "accumulate"
        /\ 1 < GpuWordCount(cmd) => g_cmd_buf' = buf
        /\ IF 1 >= GpuWordCount(cmd) THEN GpuExec(buf, g_vram)
           ELSE g_vram' = g_vram /\ gpu_rd' = gpu_rd
    <3>1. GpuWordCount(cmd) \in Nat  BY <2>9
    <3>2. CASE 1 >= GpuWordCount(cmd)
      <4>1. gpu_gp0' = [gpu_gp0 EXCEPT !.state = "idle"] /\ GpuExec(buf, GpuCaptured(v))
        BY <2>1, <2>2, <3>2 DEF GpuCollect, buf
      <4> QED  BY <1>4, <3>1, <3>2, <4>1 DEF GpuPorts
    <3>3. CASE ~(1 >= GpuWordCount(cmd))
      <4>1. /\ gpu_gp0' = [gpu_gp0 EXCEPT !.state = "accumulate"] /\ g_cmd_buf' = buf
            /\ g_vram' = g_vram /\ gpu_rd' = gpu_rd
        BY <1>4, <2>1, <2>2, <3>3 DEF GpuCollect, buf
      <4> QED  BY <1>4, <3>1, <3>3, <4>1 DEF GpuPorts
    <3> QED  BY <3>2, <3>3
  <2>4. GpuWordCount(GpuStore) = 3  BY DEF GpuWordCount
  <2>5. DOMAIN g_vram' = GpuPixels /\ gpu_rd'.done \in Nat /\ gpu_rd'.left \in Nat
    <3>1. CASE 1 >= GpuWordCount(cmd)
      <4>1. cmd # GpuStore  BY <2>4, <3>1
      <4> QED  BY <1>4, <1>5, <2>2, <2>3, <3>1, <4>1, GpuExecPaints
    <3>2. CASE ~(1 >= GpuWordCount(cmd))  BY <1>4, <1>5, <2>3, <3>2
    <3> QED  BY <3>1, <3>2
  <2>6. gpu_gp0'.state \in {"idle", "accumulate"}  BY <2>3
  <2>7. CASE GpuRoles(cmd) = << >> \/ cmd = GpuStore
    <3>1. gpu_image' = gpu_image  BY <1>1, <2>7
    <3>2. g_vram' = g_vram
      BY <1>2, <1>4, <2>2, <2>3, <2>7, GpuShortCommands, GpuExecPaints
    <3>3. gpu_gp0'.state = "accumulate" => g_cmd_buf'[1].top = GpuStore
      <4>1. CASE cmd = GpuStore  BY <2>9, <2>2, <2>3, <4>1
      <4>2. CASE GpuRoles(cmd) = << >>  BY <2>9, <2>3, <4>2
      <4> QED  BY <2>7, <4>1, <4>2
    <3>4. gpu_image'.whole => GpuShown'  BY <1>5, <3>1, <3>2 DEF GpuShown
    <3> QED  BY <1>5, <2>5, <2>6, <3>1, <3>3, <3>4 DEF GpuImages
  <2>8. CASE ~(GpuRoles(cmd) = << >> \/ cmd = GpuStore)
    <3>1. gpu_image' = GpuNoImage  BY <1>1, <2>8
    <3> QED  BY <1>6, <2>5, <2>6, <3>1 DEF GpuImages
  <2> QED  BY <2>7, <2>8
<1> QED  BY <1>8, <1>9, <1>10

\* The pixels behind a data word.
LEMMA GpuDataKeepsShown ==
  ASSUME GpuSteps, GpuCap, GpuImages, gpu_gp0.state = "data",
         NEW v \in GpuWords, GpuTransfer(v), gpu_image' = GpuImageAfter(v)
  PROVE  /\ GpuShown' /\ DOMAIN g_vram' = GpuPixels /\ gpu_image'.pixels \in Seq(Nat)
         /\ gpu_gp0.left > 2 =>
              Len(gpu_image'.pixels) = gpu_gp0.w * gpu_gp0.h - (gpu_gp0.left - 2)
<1> DEFINE t == gpu_gp0
           old == gpu_image.pixels
           k == Len(old)
           add == IF t.left = 1 THEN <<v.x>> ELSE <<v.x, v.y>>
           At(j) == GpuAt(t.x, t.y, t.w, j)
           n == Len(add)
           cat == old \o add
           new == GpuPaint(GpuPaint(g_vram, t, v, FALSE), t, v, TRUE)
<1>1. /\ t \in GpuPorts /\ t.left \in Nat \ {0} /\ t.x \in GpuXs /\ t.y \in GpuYs
      /\ t.w \in Nat /\ t.h \in Nat
  BY GpuAssumption DEF GpuSteps, GpuPorts
<1>2. /\ t.w \in 1..GpuWidth /\ t.h \in 1..GpuHeight
      /\ old \in Seq(Nat) /\ k = t.w * t.h - t.left /\ k \in Nat
      /\ <<gpu_image.x, gpu_image.y, gpu_image.w>> = <<t.x, t.y, t.w>>
      /\ GpuShown /\ DOMAIN g_vram = GpuPixels
  BY LenProperties DEF GpuImages
<1>3. g_vram' = new
  BY GpuCapturedWord DEF GpuTransfer
<1>4. /\ gpu_image' = [gpu_image EXCEPT !.pixels = old \o add, !.whole = t.left <= 2]
  BY DEF GpuImageAfter
<1>5. /\ gpu_image'.pixels = old \o add
      /\ <<gpu_image'.x, gpu_image'.y, gpu_image'.w>> = <<t.x, t.y, t.w>>
  BY <1>2, <1>4 DEF GpuImages
<1>6. /\ add \in Seq(Nat) /\ n = (IF t.left = 1 THEN 1 ELSE 2)
      /\ add[1] = v.x /\ (t.left > 1 => add[2] = v.y)
  <2>1. v.x \in Nat /\ v.y \in Nat  BY DEF GpuWords
  <2>2. CASE t.left = 1  BY <1>1, <2>1, <2>2
  <2>3. CASE t.left > 1  BY <1>1, <2>1, <2>3
  <2> QED  BY <1>1, <2>2, <2>3
<1> DEFINE size == t.w * t.h
<1>7. size \in Nat /\ k + n <= size /\ k < size /\ (t.left > 1 => k + 1 < size)
  BY <1>1, <1>2, <1>6
<1>8. \A j \in 0..(size - 1) :
        At(j) \in GpuPixels /\ \A i \in 0..(size - 1) : At(j) = At(i) => j = i
  BY <1>1, <1>2, GpuPixelsApart
<1>9. /\ cat \in Seq(Nat) /\ Len(cat) = k + n
      /\ \A i \in 1..k : cat[i] = old[i]
      /\ \A i \in 1..n : cat[k + i] = add[i]
  <2> HIDE DEF add, old
  <2>1. Len(old) = k  BY DEF k
  <2> HIDE DEF k
  <2>2. old \in Seq(Nat) /\ add \in Seq(Nat) /\ k \in Nat  BY <1>2, <1>6
  <2>3. /\ old \o add \in Seq(Nat) /\ Len(old \o add) = k + Len(add)
        /\ \A i \in 1..k : (old \o add)[i] = old[i]
        /\ \A i \in 1..Len(add) : (old \o add)[k + i] = add[i]
    <3>1. Len(old) = k /\ k \in Nat  BY <2>1, <2>2
    <3> HIDE DEF cat
    <3> QED  BY <2>2, <3>1, AppendedElements, SMTT(30)
  <2> QED  BY <2>3, Zenon
<1>10. /\ DOMAIN new = GpuPixels
       /\ \A p \in GpuPixels :
            p # At(k) /\ (t.left > 1 => p # At(k + 1)) => new[p] = g_vram[p]
       /\ t.left > 1 /\ At(k + 1) \in GpuPixels => new[At(k + 1)] = v.y
       /\ At(k) \in GpuPixels /\ (t.left > 1 => At(k) # At(k + 1)) => new[At(k)] = v.x
  <2> HIDE DEF k, t, old
  <2>1. t.left \in Nat \ {0} /\ DOMAIN g_vram = GpuPixels /\ k = t.w * t.h - t.left
    BY <1>1, <1>2
  <2>2. GpuPainted(new, g_vram, t, v, k)  BY <2>1, GpuPaints
  <2> QED  BY <2>2 DEF GpuPainted
<1> HIDE DEF new, At, cat, n, add, size, k, t, old
<1>12. k \in 0..(size - 1) /\ (t.left > 1 => k + 1 \in 0..(size - 1))  BY <1>2, <1>7
<1>13. \A j \in 0..(k - 1) : new[At(j)] = old[j + 1]
  <2> TAKE j \in 0..(k - 1)
  <2>1. j \in 0..(size - 1) /\ j # k /\ j # k + 1  BY <1>2, <1>7, <1>12
  <2>2. At(j) \in GpuPixels /\ At(j) # At(k) /\ (t.left > 1 => At(j) # At(k + 1))
    BY <1>8, <1>12, <2>1
  <2>3. new[At(j)] = g_vram[At(j)]  BY <1>10, <2>2
  <2>4. g_vram[At(j)] = old[j + 1]  BY <1>2 DEF GpuShown, At, k, old
  <2> QED  BY <2>3, <2>4
<1>14. new[At(k)] = v.x /\ (t.left > 1 => new[At(k + 1)] = v.y)
  <2>1. At(k) \in GpuPixels /\ (t.left > 1 => At(k + 1) \in GpuPixels /\ At(k) # At(k + 1))
    <3>1. k # k + 1  BY <1>2
    <3> QED  BY <1>8, <1>12, <3>1
  <2> QED  BY <1>10, <2>1
<1>15. \A j \in 0..(k + n - 1) : new[At(j)] = cat[j + 1]
  <2> SUFFICES ASSUME NEW j \in 0..(k + n - 1) PROVE new[At(j)] = cat[j + 1]
    OBVIOUS
  <2>1. CASE j < k
    <3>1. j \in 0..(k - 1) /\ j + 1 \in 1..k  BY <1>2, <2>1
    <3> QED  BY <1>9, <1>13, <3>1
  <2>2. CASE j = k
    <3>1. 1 \in 1..n  BY <1>6
    <3>2. cat[k + 1] = add[1]  BY <1>9, <3>1
    <3> QED  BY <1>6, <1>14, <2>2, <3>2
  <2>3. CASE j = k + 1
    <3>1. k \in Nat /\ n \in 1..2  BY <1>2, <1>6
    <3>2. n = 2  BY <2>3, <3>1
    <3>3. t.left > 1  BY <1>1, <1>6, <3>2
    <3>4. 2 \in 1..n  BY <3>2
    <3>5. cat[k + 2] = add[2]  BY <1>9, <3>4
    <3>6. j + 1 = k + 2  BY <2>3, <3>1
    <3> QED  BY <1>6, <1>14, <2>3, <3>3, <3>5, <3>6
  <2>4. k \in Nat /\ n \in 1..2  BY <1>2, <1>6
  <2>5. j < k \/ j = k \/ j = k + 1  BY <2>4
  <2> QED  BY <2>1, <2>2, <2>3, <2>5
<1>16. GpuShown'
  <2>1. Len(gpu_image'.pixels) = k + n  BY <1>5, <1>9 DEF cat
  <2>2. ASSUME NEW j \in 0..(k + n - 1)
        PROVE  g_vram'[GpuAt(gpu_image'.x, gpu_image'.y, gpu_image'.w, j)] =
                 gpu_image'.pixels[j + 1]
    <3>1. GpuAt(gpu_image'.x, gpu_image'.y, gpu_image'.w, j) = At(j)  BY <1>5 DEF At
    <3> QED  BY <1>3, <1>5, <1>15, <3>1 DEF cat
  <2> DEFINE top == Len(gpu_image'.pixels) - 1
  <2>5. k \in Nat /\ n \in 1..2  BY <1>2, <1>6
  <2>3. top = k + n - 1  BY <2>1, <2>5
  <2> HIDE DEF top
  <2>4. \A j \in 0..top :
          g_vram'[GpuAt(gpu_image'.x, gpu_image'.y, gpu_image'.w, j)] = gpu_image'.pixels[j + 1]
    BY <2>2, <2>3
  <2> QED  BY <2>4 DEF GpuShown, top
<1>17. t.left > 2 => k + n = size - (t.left - 2)
  <2>1. size \in Nat /\ t.left \in Nat /\ k = size - t.left  BY <1>1, <1>2 DEF size
  <2>2. t.left > 2 => n = 2  BY <1>6
  <2> QED  BY <2>1, <2>2
<1>18. gpu_image'.pixels \in Seq(Nat) /\ Len(gpu_image'.pixels) = k + n
  <2>1. gpu_image'.pixels = cat  BY <1>5, Zenon DEF cat
  <2> QED  BY <1>9, <2>1
<1>19. DOMAIN g_vram' = GpuPixels  BY <1>3, <1>10
<1>20. gpu_gp0.left > 2 =>
         Len(gpu_image'.pixels) = gpu_gp0.w * gpu_gp0.h - (gpu_gp0.left - 2)
  <2> HIDE DEF k, n
  <2>1. t.left > 2 => Len(gpu_image'.pixels) = size - (t.left - 2)  BY <1>17, <1>18
  <2> QED  BY <2>1, Zenon DEF t, size
<1> QED  BY <1>16, <1>18, <1>19, <1>20

LEMMA GpuPayloadKeepsImages ==
  ASSUME GpuSteps, GpuCap, GpuImages, GpuPayload
  PROVE  GpuImages'
<1>1. PICK top \in IF Head(gpu_todo) = "colour" THEN GpuTops ELSE {0},
           f \in GpuFields(Head(gpu_todo)) :
        /\ GpuWord([top |-> top, x |-> f[1], y |-> f[2], role |-> Head(gpu_todo)])
        /\ gpu_image' =
             GpuImageAfter([top |-> top, x |-> f[1], y |-> f[2], role |-> Head(gpu_todo)])
  BY DEF GpuPayload
<1> DEFINE v == [top |-> top, x |-> f[1], y |-> f[2], role |-> Head(gpu_todo)]
<1>2. gpu_todo \in Seq(GpuNames) /\ gpu_todo # << >> /\ Head(gpu_todo) \in GpuNames
  BY HeadTailProperties DEF GpuSteps, GpuPayload
<1>3. /\ v \in GpuWords /\ v.x = f[1] /\ v.y = f[2]
      /\ Head(gpu_todo) = "place" => v.x \in GpuXs /\ v.y \in GpuYs
      /\ Head(gpu_todo) = "size" => f \in GpuSizes
  BY <1>2, GpuPayloadWords
<1>4. GpuInterpret(v) /\ gpu_image' = GpuImageAfter(v)  BY <1>1 DEF GpuWord
<1> HIDE DEF v
<1>5. /\ gpu_gp0 \in GpuPorts /\ gpu_gp0.state # "idle" /\ g_cmd_buf \in Seq(GpuWords)
      /\ GpuCaptured(v) = IF gpu_gp0.state = "data" THEN GpuPaint(g_vram, gpu_gp0, v, FALSE)
                          ELSE g_vram
  BY <1>2, GpuCapturedWord DEF GpuSteps
<1>6. /\ gpu_image \in [whole : BOOLEAN, x : GpuXs, y : GpuYs, w : 0..GpuWidth, pixels : Seq(Nat)]
      /\ gpu_rd.done \in Nat /\ gpu_rd.left \in Nat /\ DOMAIN g_vram = GpuPixels
  BY DEF GpuImages
<1>7. CASE gpu_gp0.state = "header1"
  <2>1. gpu_todo = <<"place", "size">>  BY <1>7 DEF GpuSteps
  <2>2. v.x \in GpuXs /\ v.y \in GpuYs  BY <1>3, <2>1
  <2>3. /\ gpu_gp0' = [gpu_gp0 EXCEPT !.state = "header2", !.x = v.x, !.y = v.y]
        /\ g_vram' = g_vram /\ gpu_rd' = gpu_rd
    BY <1>4, <1>5, <1>7 DEF GpuInterpret, GpuTransfer, GpuHeader1
  <2>4. /\ gpu_gp0'.state = "header2" /\ gpu_gp0'.x = v.x /\ gpu_gp0'.y = v.y
    BY <1>5, <2>3 DEF GpuPorts
  <2>5. gpu_image' = [whole |-> FALSE, x |-> v.x, y |-> v.y, w |-> 0, pixels |-> << >>]
    BY <1>4, <1>7 DEF GpuImageAfter, GpuNoImage
  <2>6. 0 \in 0..GpuWidth /\ << >> \in Seq(Nat)  BY GpuAssumption
  <2>7. gpu_image' \in [whole : BOOLEAN, x : GpuXs, y : GpuYs, w : 0..GpuWidth, pixels : Seq(Nat)]
    BY <2>2, <2>5, <2>6
  <2> QED  BY <1>6, <2>3, <2>4, <2>5, <2>7 DEF GpuImages
<1>8. CASE gpu_gp0.state = "header2"
  <2>1. gpu_todo = <<"size">>  BY <1>8 DEF GpuSteps
  <2>2. f \in GpuSizes  BY <1>3, <2>1
  <2> DEFINE left == GpuW(v.x) * GpuH(v.y)
  <2>3. GpuW(v.x) \in 1..GpuWidth /\ GpuH(v.y) \in 1..GpuHeight /\ left \in Nat \ {0}
    BY <1>3, <2>2, GpuSizesCount
  <2>4. /\ gpu_gp0' = [gpu_gp0 EXCEPT !.state = "data", !.w = GpuW(v.x), !.h = GpuH(v.y),
                                      !.left = left]
        /\ g_vram' = g_vram /\ gpu_rd' = gpu_rd
    BY <1>4, <1>5, <1>8 DEF GpuInterpret, GpuTransfer, GpuHeader2
  <2>5. /\ gpu_gp0'.state = "data" /\ gpu_gp0'.x = gpu_gp0.x /\ gpu_gp0'.y = gpu_gp0.y
        /\ gpu_gp0'.w = GpuW(v.x) /\ gpu_gp0'.h = GpuH(v.y) /\ gpu_gp0'.left = left
    BY <1>5, <2>4 DEF GpuPorts
  <2>6. /\ gpu_image' = [gpu_image EXCEPT !.w = GpuW(v.x)]
        /\ gpu_image.pixels = << >> /\ ~gpu_image.whole
        /\ gpu_image.x = gpu_gp0.x /\ gpu_image.y = gpu_gp0.y
    BY <1>4, <1>8 DEF GpuImageAfter, GpuImages
  <2>7. GpuW(v.x) \in 0..GpuWidth  BY <2>3, GpuAssumption
  <2>8. /\ gpu_image' \in [whole : BOOLEAN, x : GpuXs, y : GpuYs, w : 0..GpuWidth, pixels : Seq(Nat)]
        /\ gpu_image'.pixels = << >> /\ ~gpu_image'.whole /\ gpu_image'.w = GpuW(v.x)
        /\ gpu_image'.x = gpu_gp0.x /\ gpu_image'.y = gpu_gp0.y
    BY <1>6, <2>6, <2>7
  <2>9. GpuShown' /\ Len(gpu_image'.pixels) = 0  BY <2>8 DEF GpuShown
  <2>10. gpu_gp0'.w * gpu_gp0'.h - gpu_gp0'.left = 0  BY <2>3, <2>5
  <2> QED  BY <1>6, <2>3, <2>4, <2>5, <2>8, <2>9, <2>10 DEF GpuImages
<1>9. CASE gpu_gp0.state = "data"
  <2>1. GpuTransfer(v) /\ gpu_rd' = gpu_rd /\ gpu_gp0' = GpuData(gpu_gp0)
    BY <1>4, <1>9 DEF GpuInterpret, GpuTransfer
  <2>2. /\ GpuShown' /\ DOMAIN g_vram' = GpuPixels /\ gpu_image'.pixels \in Seq(Nat)
        /\ gpu_gp0.left > 2 =>
             Len(gpu_image'.pixels) = gpu_gp0.w * gpu_gp0.h - (gpu_gp0.left - 2)
    BY <1>3, <1>4, <1>9, <2>1, GpuDataKeepsShown
  <2> DEFINE add == IF gpu_gp0.left = 1 THEN <<v.x>> ELSE <<v.x, v.y>>
  <2>3. gpu_image' = [gpu_image EXCEPT !.pixels = @ \o add, !.whole = gpu_gp0.left <= 2]
    BY <1>4, <1>9 DEF GpuImageAfter
  <2> HIDE DEF add
  <2>4. /\ gpu_image'.whole = (gpu_gp0.left <= 2)
        /\ gpu_image'.x = gpu_image.x /\ gpu_image'.y = gpu_image.y /\ gpu_image'.w = gpu_image.w
    BY <1>6, <2>3
  <2>5. gpu_image' \in [whole : BOOLEAN, x : GpuXs, y : GpuYs, w : 0..GpuWidth, pixels : Seq(Nat)]
    <3>1. gpu_image'.whole \in BOOLEAN  BY <2>4
    <3> QED  BY <1>6, <2>2, <2>3, <3>1
  <2>6. gpu_gp0.left \in Nat \ {0}  BY <1>5, <1>9 DEF GpuSteps, GpuPorts
  <2>7. CASE gpu_gp0.left <= 2
    <3>1. gpu_gp0'.state = "idle"  BY <1>5, <2>1, <2>7 DEF GpuData, GpuPorts
    <3> QED  BY <1>6, <2>1, <2>2, <2>5, <3>1 DEF GpuImages
  <2>8. CASE gpu_gp0.left > 2
    <3>1. gpu_gp0' = [gpu_gp0 EXCEPT !.left = gpu_gp0.left - 2]  BY <2>1, <2>6, <2>8 DEF GpuData
    <3>2. /\ gpu_gp0'.state = "data" /\ gpu_gp0'.x = gpu_gp0.x /\ gpu_gp0'.y = gpu_gp0.y
          /\ gpu_gp0'.w = gpu_gp0.w /\ gpu_gp0'.h = gpu_gp0.h
          /\ gpu_gp0'.left = gpu_gp0.left - 2
      BY <1>5, <1>9, <3>1 DEF GpuPorts
    <3>3. ~gpu_image'.whole
      <4>1. (gpu_gp0.left <= 2) = FALSE  BY <2>6, <2>8
      <4> QED  BY <2>4, <4>1
    <3>4. /\ gpu_gp0.w \in 1..GpuWidth /\ gpu_gp0.h \in 1..GpuHeight
          /\ gpu_image.x = gpu_gp0.x /\ gpu_image.y = gpu_gp0.y /\ gpu_image.w = gpu_gp0.w
      BY <1>9 DEF GpuImages
    <3> QED  BY <1>6, <2>1, <2>2, <2>4, <2>5, <2>8, <3>2, <3>3, <3>4 DEF GpuImages
  <2> QED  BY <2>6, <2>7, <2>8
<1>10. CASE gpu_gp0.state = "accumulate"
  <2>1. GpuCollect(v)  BY <1>4, <1>10 DEF GpuInterpret
  <2>2. gpu_image' = gpu_image  BY <1>4, <1>10 DEF GpuImageAfter
  <2> DEFINE buf == Append(g_cmd_buf, v)
             cmd == buf[1].top
  <2>3. g_cmd_buf # << >> /\ Len(g_cmd_buf) \in Nat \ {0}
    BY <1>5, <1>10, EmptySeq DEF GpuSteps
  <2>4. buf \in Seq(GpuWords) /\ Len(buf) = Len(g_cmd_buf) + 1 /\ buf[1] = g_cmd_buf[1]
    BY <1>3, <1>5, <2>3
  <2>5. gpu_image.whole => GpuShown /\ cmd = GpuStore
    BY <1>10, <2>4 DEF GpuImages
  <2>6. CASE Len(buf) >= GpuWordCount(cmd)
    <3>1. gpu_gp0' = [gpu_gp0 EXCEPT !.state = "idle"] /\ GpuExec(buf, g_vram)
      BY <1>5, <1>10, <2>1, <2>6 DEF GpuCollect
    <3>2. gpu_gp0'.state = "idle"  BY <1>5, <3>1 DEF GpuPorts
    <3>3. cmd = GpuStore => Len(buf) >= 3  BY <2>6 DEF GpuWordCount
    <3>4. /\ DOMAIN g_vram' = GpuPixels /\ gpu_rd'.done \in Nat /\ gpu_rd'.left \in Nat
          /\ cmd = GpuStore => g_vram' = g_vram
      <4>1. cmd = GpuStore => cmd \notin {GpuFill, GpuCopy} /\ ~GpuPoly(cmd) /\ ~GpuLine(cmd)
                              /\ ~GpuRect(cmd)
        BY DEF GpuStore, GpuFill, GpuCopy, GpuPoly, GpuLine, GpuRect
      <4> QED  BY <1>6, <2>4, <3>1, <3>3, <4>1, GpuExecPaints
    <3>5. gpu_image'.whole => GpuShown'  BY <2>2, <2>5, <3>4 DEF GpuShown
    <3> QED  BY <1>6, <2>2, <3>2, <3>4, <3>5 DEF GpuImages
  <2>7. CASE ~(Len(buf) >= GpuWordCount(cmd))
    <3>1. /\ gpu_gp0' = [gpu_gp0 EXCEPT !.state = "accumulate"] /\ g_cmd_buf' = buf
          /\ g_vram' = g_vram /\ gpu_rd' = gpu_rd
      BY <1>5, <1>10, <2>1, <2>7 DEF GpuCollect
    <3>2. gpu_gp0'.state = "accumulate"  BY <1>5, <3>1 DEF GpuPorts
    <3>3. gpu_image'.whole => GpuShown' /\ g_cmd_buf'[1].top = GpuStore
      BY <2>2, <2>5, <3>1 DEF GpuShown
    <3> QED  BY <1>6, <2>2, <3>1, <3>2, <3>3 DEF GpuImages
  <2> QED  BY <2>6, <2>7
<1> QED  BY <1>5, <1>7, <1>8, <1>9, <1>10 DEF GpuPorts

LEMMA GpuNextKeepsImages ==
  ASSUME ~GpuAborts, GpuSteps, GpuCap, GpuImages, [GpuNext]_gpu_vars
  PROVE  GpuImages'
<1>1. CASE GpuReset
  <2>1. /\ gpu_gp0' = [gpu_gp0 EXCEPT !.state = "idle"] /\ gpu_gp0 \in GpuPorts
        /\ UNCHANGED <<g_vram, gpu_rd, gpu_image>>
    BY <1>1 DEF GpuReset, GpuSteps
  <2>2. gpu_gp0'.state = "idle"  BY <2>1 DEF GpuPorts
  <2> QED  BY <2>1, <2>2 DEF GpuImages, GpuShown
<1>2. CASE GpuRead
  <2>1. /\ gpu_rd.left > 0 /\ gpu_rd' = [gpu_rd EXCEPT !.done = @ + Len(GpuReadWord),
                                                       !.left = @ - Len(GpuReadWord)]
        /\ UNCHANGED <<g_vram, gpu_gp0, g_cmd_buf, gpu_image>>
    BY <1>2 DEF GpuRead
  <2>2. Len(GpuReadWord) = IF gpu_rd.left = 1 THEN 1 ELSE 2
    BY DEF GpuReadWord
  <2>3. gpu_rd.done \in Nat /\ gpu_rd.left \in Nat  BY DEF GpuImages
  <2>4. gpu_rd'.done \in Nat /\ gpu_rd'.left \in Nat
    BY <2>1, <2>2, <2>3
  <2> QED  BY <2>1, <2>4 DEF GpuImages, GpuShown
<1>3. CASE UNCHANGED gpu_vars  BY <1>3 DEF gpu_vars, GpuImages, GpuShown
<1> QED
  BY <1>1, <1>2, <1>3, GpuHeadKeepsImages, GpuPayloadKeepsImages DEF GpuNext

LEMMA SubSeqOfPixels ==
  ASSUME NEW s \in Seq(Nat), NEW m \in 1..Len(s)
  PROVE  /\ SubSeq(s, m, m) = <<s[m]>>
         /\ m + 1 \in 1..Len(s) => SubSeq(s, m, m + 1) = <<s[m], s[m + 1]>>
<1>1. Len(s) \in Nat /\ \A i \in 1..Len(s) : s[i] \in Nat  BY ElementOfSeq, LenProperties
<1>2. ASSUME NEW n \in Nat, m <= n, n <= Len(s)
      PROVE  /\ SubSeq(s, m, n) \in Seq(Nat) /\ Len(SubSeq(s, m, n)) = n - m + 1
             /\ \A i \in 1..(n - m + 1) : SubSeq(s, m, n)[i] = s[m + i - 1]
  <2>1. m \in Int /\ n \in Int /\ \A i \in m..n : s[i] \in Nat  BY <1>1, <1>2
  <2> QED  BY <2>1, <1>2, SubSeqProperties, SMTT(30)
<1>3. SubSeq(s, m, m) = <<s[m]>>
  <2>1. m \in Nat /\ m - m + 1 = 1 /\ m + 1 - 1 = m  BY <1>1
  <2>2. /\ SubSeq(s, m, m) \in Seq(Nat) /\ Len(SubSeq(s, m, m)) = 1
        /\ SubSeq(s, m, m)[1] = s[m]
    BY <1>1, <1>2, <2>1
  <2>3. <<s[m]>> \in Seq(Nat) /\ Len(<<s[m]>>) = 1 /\ <<s[m]>>[1] = s[m]  BY <1>1
  <2>4. \A i \in 1..1 : SubSeq(s, m, m)[i] = <<s[m]>>[i]  BY <2>2, <2>3
  <2> QED  BY <2>2, <2>3, <2>4, SeqEqual
<1>4. ASSUME m + 1 \in 1..Len(s)
      PROVE  SubSeq(s, m, m + 1) = <<s[m], s[m + 1]>>
  <2> DEFINE pair == <<s[m], s[m + 1]>>
             piece == SubSeq(s, m, m + 1)
             n == m + 1
  <2>1. /\ n \in Nat /\ m <= n /\ n <= Len(s)
        /\ n - m + 1 = 2 /\ m + 1 - 1 = m /\ m + 2 - 1 = n
    BY <1>1, <1>4
  <2>2. /\ piece \in Seq(Nat) /\ Len(piece) = 2
        /\ \A i \in 1..2 : piece[i] = s[m + i - 1]
    <3> HIDE DEF n
    <3>1. n = m + 1  BY DEF n
    <3>2. /\ SubSeq(s, m, n) \in Seq(Nat) /\ Len(SubSeq(s, m, n)) = 2
          /\ \A i \in 1..2 : SubSeq(s, m, n)[i] = s[m + i - 1]
      BY <1>2, <2>1
    <3> QED  BY <3>1, <3>2
  <2>3. pair \in Seq(Nat) /\ Len(pair) = 2 /\ pair[1] = s[m] /\ pair[2] = s[m + 1]
    BY <1>1, <1>4
  <2> HIDE DEF pair, piece
  <2>4. piece[1] = s[m] /\ piece[2] = s[m + 1]
    <3>1. 1 \in 1..2 /\ 2 \in 1..2  OBVIOUS
    <3>2. piece[1] = s[m + 1 - 1] /\ piece[2] = s[m + 2 - 1]  BY <2>2, <3>1
    <3> QED  BY <2>1, <3>2
  <2>5. \A i \in 1..2 : i = 1 \/ i = 2  OBVIOUS
  <2>6. \A i \in 1..2 : piece[i] = pair[i]  BY <2>3, <2>4, <2>5
  <2>7. piece = pair  BY <2>2, <2>3, <2>6, SeqEqual
  <2> QED  BY <2>7 DEF piece, pair
<1> QED  BY <1>3, <1>4

LEMMA GpuImagesReadBack == GpuImages => GpuReadsBack
<1> SUFFICES ASSUME GpuImages, gpu_image.whole, gpu_rd.left > 0,
                    <<gpu_rd.x, gpu_rd.y, gpu_rd.w>> = <<gpu_image.x, gpu_image.y, gpu_image.w>>,
                    gpu_rd.done + gpu_rd.left <= Len(gpu_image.pixels)
             PROVE  GpuReadWord = SubSeq(gpu_image.pixels, gpu_rd.done + 1,
                                         gpu_rd.done + Len(GpuReadWord))
  BY DEF GpuReadsBack
<1> DEFINE pixels == gpu_image.pixels
           d == gpu_rd.done
           Pixel(k) == g_vram[GpuAt(gpu_rd.x, gpu_rd.y, gpu_rd.w, gpu_rd.done + k)]
<1>1. d \in Nat /\ gpu_rd.left \in Nat /\ pixels \in Seq(Nat) /\ Len(pixels) \in Nat
  BY DEF GpuImages
<1>2. GpuReadWord = IF gpu_rd.left = 1 THEN <<Pixel(0)>> ELSE <<Pixel(0), Pixel(1)>>
  BY DEF GpuReadWord
<1>3. Pixel(0) = pixels[d + 1]
  <2>1. d \in 0..(Len(pixels) - 1) /\ d + 0 = d  BY <1>1
  <2> QED  BY <2>1 DEF GpuImages, GpuShown
<1>4. gpu_rd.left > 1 => Pixel(1) = pixels[d + 2]
  <2> SUFFICES ASSUME gpu_rd.left > 1 PROVE Pixel(1) = pixels[d + 2]  OBVIOUS
  <2>1. d + gpu_rd.left <= Len(pixels)  OBVIOUS
  <2> HIDE DEF d, pixels
  <2>2. d + 1 \in 0..(Len(pixels) - 1) /\ d + 1 + 1 = d + 2  BY <1>1, <2>1
  <2> QED  BY <2>2 DEF GpuImages, GpuShown, d, pixels
<1> HIDE DEF Pixel, pixels, d
<1>5. CASE gpu_rd.left = 1
  <2>1. GpuReadWord = <<Pixel(0)>> /\ Len(GpuReadWord) = 1  BY <1>2, <1>5
  <2>2. SubSeq(pixels, d + 1, d + 1) = <<pixels[d + 1]>>
    <3>0. d + gpu_rd.left <= Len(pixels)  BY DEF pixels, d
    <3>1. d + 1 \in 1..Len(pixels)  BY <1>1, <1>5, <3>0
    <3> QED  BY <1>1, <3>1, SubSeqOfPixels
  <2> QED  BY <1>3, <2>1, <2>2 DEF pixels, d
<1>6. CASE gpu_rd.left > 1
  <2>1. GpuReadWord = <<Pixel(0), Pixel(1)>> /\ Len(GpuReadWord) = 2  BY <1>1, <1>2, <1>6
  <2>2. SubSeq(pixels, d + 1, d + 2) = <<pixels[d + 1], pixels[d + 2]>>
    <3>0. d + gpu_rd.left <= Len(pixels)  BY DEF pixels, d
    <3>1. d + 1 \in 1..Len(pixels) /\ d + 2 \in 1..Len(pixels)  BY <1>1, <1>6, <3>0
    <3> QED  BY <1>1, <3>1, SubSeqOfPixels
  <2> QED  BY <1>3, <1>4, <1>6, <2>1, <2>2 DEF pixels, d
<1> QED  BY <1>1, <1>5, <1>6

\* For every VRAM, and for images and rectangles of any size and place.
THEOREM ImagesReadBack ==
  ASSUME ~GpuAborts, GpuLoad \notin GpuTops
  PROVE  GpuSpec => []GpuReadsBack
<1>1. GpuInit => GpuCap /\ GpuImages
  <2> SUFFICES ASSUME GpuInit PROVE GpuCap /\ GpuImages  OBVIOUS
  <2>1. /\ gpu_gp0 = GpuIdle /\ gpu_cap = GpuIdle /\ gpu_image = GpuNoImage
        /\ DOMAIN g_vram = GpuPixels /\ gpu_rd.done = 0 /\ gpu_rd.left = 0
    BY DEF GpuInit
  <2>2. GpuNoImage \in [whole : BOOLEAN, x : GpuXs, y : GpuYs, w : 0..GpuWidth, pixels : Seq(Nat)]
        /\ ~GpuNoImage.whole
    BY GpuAssumption DEF GpuNoImage, GpuXs, GpuYs
  <2>3. GpuIdle.state = "idle"  BY DEF GpuIdle
  <2> QED  BY <2>1, <2>2, <2>3 DEF GpuCap, GpuImages
<1>2. GpuSteps /\ [GpuNext]_gpu_vars => GpuSteps'
  BY GpuHeadKeepsSteps, GpuPayloadKeepsSteps, GpuRestKeepsSteps DEF GpuNext
<1>3. GpuSteps /\ GpuCap /\ [GpuNext]_gpu_vars => GpuCap'  BY GpuNextKeepsCap
<1>4. GpuSteps /\ GpuCap /\ GpuImages /\ [GpuNext]_gpu_vars => GpuImages'
  BY GpuNextKeepsImages
<1> QED  BY <1>1, <1>2, <1>3, <1>4, GpuImagesReadBack, GpuInitSteps, PTL DEF GpuSpec

-----------------------------------------------------------------------------
(* The SPU.                                                                *)

LEMMA TopIsLevel == SpuTop \in Nat /\ 0 \in 0..SpuTop /\ SpuTop \in 0..SpuTop
  BY DEF SpuTop

\* Powers of two, as far as the envelope takes them.
LEMMA PowersAreNumbers ==
  ASSUME NEW n \in 0..20  PROVE 2^n \in Nat
<1>1. ASSUME n \in 0..6  PROVE 2^n \in Nat
  <2>1. n = 0 \/ n = 1 \/ n = 2 \/ n = 3 \/ n = 4 \/ n = 5 \/ n = 6
    BY <1>1
  <2>2. /\ 2^0 \in Nat /\ 2^1 \in Nat /\ 2^2 \in Nat /\ 2^3 \in Nat /\ 2^4 \in Nat
        /\ 2^5 \in Nat /\ 2^6 \in Nat
    BY SMT
  <2> QED BY <2>1, <2>2, Zenon
<1>2. ASSUME n \in 7..13  PROVE 2^n \in Nat
  <2>1. n = 7 \/ n = 8 \/ n = 9 \/ n = 10 \/ n = 11 \/ n = 12 \/ n = 13
    BY <1>2
  <2>2. /\ 2^7 \in Nat /\ 2^8 \in Nat /\ 2^9 \in Nat /\ 2^10 \in Nat /\ 2^11 \in Nat
        /\ 2^12 \in Nat /\ 2^13 \in Nat
    BY SMT
  <2> QED BY <2>1, <2>2, Zenon
<1>3. ASSUME n \in 14..20  PROVE 2^n \in Nat
  <2>1. n = 14 \/ n = 15 \/ n = 16 \/ n = 17 \/ n = 18 \/ n = 19 \/ n = 20
    BY <1>3
  <2>2. /\ 2^14 \in Nat /\ 2^15 \in Nat /\ 2^16 \in Nat /\ 2^17 \in Nat /\ 2^18 \in Nat
        /\ 2^19 \in Nat /\ 2^20 \in Nat
    BY SMT
  <2> QED BY <2>1, <2>2, Zenon
<1>4. n \in 0..6 \/ n \in 7..13 \/ n \in 14..20
  OBVIOUS
<1> QED BY <1>1, <1>2, <1>3, <1>4

LEMMA ScalesAreNumbers ==
  ASSUME NEW n \in 0..31
  PROVE  SpuCycles(n) \in Nat /\ SpuScale(n) \in Nat
<1>1. (IF n > 11 THEN n - 11 ELSE 0) \in 0..20
  BY SMT
<1>2. (IF n < 11 THEN 11 - n ELSE 0) \in 0..20
  BY SMT
<1>3. SpuCycles(n) \in Nat
  BY <1>1, PowersAreNumbers, Zenon DEF SpuCycles
<1>4. SpuScale(n) \in Nat
  BY <1>2, PowersAreNumbers, Zenon DEF SpuScale
<1> QED BY <1>3, <1>4

LEMMA ExponentialFalls ==
  ASSUME NEW s \in Int, NEW l \in Int
  PROVE  SpuExp(s, l) \in Int /\ SpuExp(s, l) < 0
<1>1. (s * l) \in Int
  OBVIOUS
<1>2. \A x \in Int : x \div 32768 \in Int
  OBVIOUS
<1> QED BY <1>1, <1>2 DEF SpuExp

SpuFlagSet == [start : BOOLEAN, end : BOOLEAN, repeat : BOOLEAN]
SpuVoiceWith(samples) ==
  [is_on : BOOLEAN, phase : SpuPhases, level : 0..SpuTop, cycle : Nat,
   adsr : SpuSettings, pitch : Nat, counter : 0..(SpuUnit - 1),
   sample : samples, pcm_block : -1..(SpuBlocks - 1),
   start : 0..(SpuBlocks - 1), repeat : 0..(SpuBlocks - 1),
   current : 0..(SpuBlocks - 1), end_hit : BOOLEAN]
SpuVoiceSet == SpuVoiceWith(0..SpuSamples)

SpuIInv ==
  /\ g_spu \in [SpuVoices -> SpuVoiceSet]
  /\ spu_ram \in [0..(SpuBlocks - 1) -> SpuFlagSet]
  /\ spu_endx \subseteq SpuVoices
  /\ spu_wr_pos \in Nat
  /\ SpuEndReported

LEMMA LevelsChange ==
  ASSUME NEW v \in SpuVoiceSet, NEW l \in 0..SpuTop, NEW p \in SpuPhases
  PROVE  /\ [v EXCEPT !.level = l] \in SpuVoiceSet
         /\ [v EXCEPT !.level = l].end_hit = v.end_hit
         /\ [v EXCEPT !.level = l, !.phase = p] \in SpuVoiceSet
         /\ [v EXCEPT !.level = l, !.phase = p].end_hit = v.end_hit
         /\ [v EXCEPT !.level = l, !.phase = p, !.is_on = FALSE] \in SpuVoiceSet
         /\ [v EXCEPT !.level = l, !.phase = p, !.is_on = FALSE].end_hit = v.end_hit
  BY DEF SpuVoiceSet, SpuVoiceWith

LEMMA SteppedIsVoice ==
  ASSUME NEW v \in SpuVoiceSet
  PROVE  SpuStepped(v) \in SpuVoiceSet /\ SpuStepped(v).end_hit = v.end_hit
<1> DEFINE
  e == v.adsr
  up == v.level + e.attack.step * SpuScale(e.attack.shift)
  floor == SpuMin((e.decay.level + 1) * 2048, SpuTop)
  down == v.level + SpuExp(-8 * SpuScale(e.decay.shift), v.level)
  rise == v.level + (7 - e.sustain.step) * SpuScale(e.sustain.shift)
  fall == (e.sustain.step - 8) * SpuScale(e.sustain.shift)
  sink == v.level + IF e.sustain.exp THEN SpuExp(fall, v.level) ELSE fall
  fade == -8 * SpuScale(e.release.shift)
  last == v.level + IF e.release.exp THEN SpuExp(fade, v.level) ELSE fade
<1>0. SpuTop \in Nat /\ 0 \in 0..SpuTop /\ SpuTop \in 0..SpuTop
  BY TopIsLevel
<1>1. /\ v.level \in 0..SpuTop /\ v.phase \in SpuPhases /\ e \in SpuSettings
      /\ v.level \in Nat /\ v.level \in Int
  BY <1>0 DEF SpuVoiceSet, SpuVoiceWith
<1>2. /\ e.attack.shift \in 0..31 /\ e.attack.step \in 4..7
      /\ e.decay.shift \in 0..31 /\ e.decay.level \in 0..15
      /\ e.sustain.shift \in 0..31 /\ e.sustain.step \in 0..3
      /\ e.release.shift \in 0..31
  BY <1>1 DEF SpuSettings
<1>3. /\ SpuScale(e.attack.shift) \in Nat /\ SpuScale(e.decay.shift) \in Nat
      /\ SpuScale(e.sustain.shift) \in Nat /\ SpuScale(e.release.shift) \in Nat
  BY <1>2, ScalesAreNumbers
<1>4. up \in Nat
  <2>1. \A a \in 4..7, b \in Nat : a * b \in Nat
    OBVIOUS
  <2> QED BY <2>1, <1>1, <1>2, <1>3
<1>5. floor \in 0..SpuTop
  <2>1. (e.decay.level + 1) * 2048 \in Nat
    BY <1>2
  <2> QED BY <2>1, <1>0 DEF SpuMin
<1>6. down \in Int /\ down < v.level
  <2>1. -8 * SpuScale(e.decay.shift) \in Int
    BY <1>3
  <2>2. v.level \in Int
    BY <1>1
  <2>3. SpuExp(-8 * SpuScale(e.decay.shift), v.level) \in Int
        /\ SpuExp(-8 * SpuScale(e.decay.shift), v.level) < 0
    BY <2>1, <2>2, ExponentialFalls
  <2> QED BY <2>2, <2>3
<1>7. rise \in Nat
  <2>1. \A a \in 4..7, b \in Nat : a * b \in Nat
    OBVIOUS
  <2>2. 7 - e.sustain.step \in 4..7
    BY <1>2
  <2> QED BY <2>1, <2>2, <1>1, <1>3
<1>8. sink \in Int /\ sink <= v.level
  <2>1. \A a \in -8..-5, b \in Nat : a * b \in Int /\ a * b <= 0
    OBVIOUS
  <2>2. e.sustain.step - 8 \in -8..-5
    BY <1>2
  <2>3. fall \in Int /\ fall <= 0
    BY <2>1, <2>2, <1>3
  <2>4. v.level \in Int
    BY <1>1
  <2>5. SpuExp(fall, v.level) \in Int /\ SpuExp(fall, v.level) < 0
    BY <2>3, <2>4, ExponentialFalls
  <2> HIDE DEF fall
  <2> QED BY <2>3, <2>4, <2>5
<1>9. last \in Int /\ last <= v.level
  <2>1. fade \in Int /\ fade <= 0
    BY <1>3
  <2>2. v.level \in Int
    BY <1>1
  <2>3. SpuExp(fade, v.level) \in Int /\ SpuExp(fade, v.level) < 0
    BY <2>1, <2>2, ExponentialFalls
  <2> HIDE DEF fade
  <2> QED BY <2>1, <2>2, <2>3
<1>11. {"off", "decay", "sustain"} \subseteq SpuPhases
  BY DEF SpuPhases
<1> HIDE DEF up, floor, down, rise, fall, sink, fade, last
<1> DEFINE Good(r) == r \in SpuVoiceSet /\ r.end_hit = v.end_hit
<1>12. \A l \in 0..SpuTop, p \in SpuPhases :
         /\ Good([v EXCEPT !.level = l])
         /\ Good([v EXCEPT !.level = l, !.phase = p])
         /\ Good([v EXCEPT !.level = l, !.phase = p, !.is_on = FALSE])
  <2> TAKE l \in 0..SpuTop, p \in SpuPhases
  <2>1. Good([v EXCEPT !.level = l])
    BY LevelsChange, ZenonT(30)
  <2>2. Good([v EXCEPT !.level = l, !.phase = p])
    BY LevelsChange, ZenonT(30)
  <2>3. Good([v EXCEPT !.level = l, !.phase = p, !.is_on = FALSE])
    BY LevelsChange, ZenonT(30)
  <2> QED  BY <2>1, <2>2, <2>3
<1>13. SUFFICES Good(SpuStepped(v))
  OBVIOUS
<1> HIDE DEF Good
<1>a. CASE v.phase = "attack"
  <2>1. ~ (up >= SpuTop) => up \in 0..SpuTop
    BY <1>4, <1>0
  <2>2. SpuStepped(v) = IF up >= SpuTop THEN [v EXCEPT !.level = SpuTop, !.phase = "decay"]
                        ELSE [v EXCEPT !.level = up]
    BY <1>a DEF SpuStepped, up
  <2> QED BY <2>1, <2>2, <1>0, <1>11, <1>12, Zenon
<1>b. CASE v.phase = "decay"
  <2>1. ~ (down <= floor) => down \in 0..SpuTop
    BY <1>1, <1>5, <1>6, <1>0
  <2>2. SpuStepped(v) = IF down <= floor THEN [v EXCEPT !.level = floor, !.phase = "sustain"]
                        ELSE [v EXCEPT !.level = down]
    BY <1>b DEF SpuStepped, down, floor
  <2> QED BY <2>1, <2>2, <1>5, <1>0, <1>11, <1>12, Zenon
<1>c. CASE v.phase = "sustain" /\ ~ e.sustain.falls
  <2>1. SpuMin(rise, SpuTop) \in 0..SpuTop
    BY <1>7, <1>0 DEF SpuMin
  <2>2. SpuStepped(v) = [v EXCEPT !.level = SpuMin(rise, SpuTop)]
    BY <1>c DEF SpuStepped, rise
  <2> QED BY <2>1, <2>2, <1>11, <1>12, Zenon
<1>d. CASE v.phase = "sustain" /\ e.sustain.falls
  <2>1. (IF sink <= 0 THEN 0 ELSE sink) \in 0..SpuTop
    BY <1>1, <1>8, <1>0
  <2>2. SpuStepped(v) = [v EXCEPT !.level = IF sink <= 0 THEN 0 ELSE sink]
    BY <1>d DEF SpuStepped, sink, fall
  <2> QED BY <2>1, <2>2, <1>11, <1>12, Zenon
<1>e. CASE v.phase \notin {"attack", "decay", "sustain"}
  <2>1. ~ (last <= 0) => last \in 0..SpuTop
    BY <1>1, <1>9, <1>0
  <2>2. SpuStepped(v) = IF last <= 0
            THEN [v EXCEPT !.level = 0, !.phase = "off", !.is_on = FALSE]
            ELSE [v EXCEPT !.level = last]
    BY <1>e DEF SpuStepped, last, fade
  <2> QED BY <2>1, <2>2, <1>0, <1>11, <1>12, Zenon
<1> QED BY <1>a, <1>b, <1>c, <1>d, <1>e

LEMMA TickIsVoice ==
  ASSUME NEW v \in SpuVoiceSet
  PROVE  SpuTick(v) \in SpuVoiceSet /\ SpuTick(v).end_hit = v.end_hit
<1>1. [v EXCEPT !.cycle = 0] \in SpuVoiceSet /\ [v EXCEPT !.cycle = 0].end_hit = v.end_hit
  BY DEF SpuVoiceSet, SpuVoiceWith
<1>2. [v EXCEPT !.cycle = @ + 1] \in SpuVoiceSet /\ [v EXCEPT !.cycle = @ + 1].end_hit = v.end_hit
  BY DEF SpuVoiceSet, SpuVoiceWith
<1> QED BY <1>1, <1>2, SteppedIsVoice DEF SpuTick

\* A step of the walk: a voice stays a voice, and has its end noted when
\* one was passed.
SpuNoted == [voice : SpuVoiceSet, ended : BOOLEAN]

\* A voice at the end of a block, with all that the block changes.
SpuLands(v, r, c, h, p, l) ==
  [v EXCEPT !.repeat = r, !.current = c, !.pcm_block = c, !.sample = 0,
            !.end_hit = h, !.phase = p, !.level = l]

LEMMA LandingIsVoice ==
  ASSUME NEW v \in SpuVoiceSet, NEW x, NEW r \in 0..(SpuBlocks - 1),
         NEW c \in 0..(SpuBlocks - 1), NEW p \in SpuPhases, NEW l \in 0..SpuTop,
         NEW h \in BOOLEAN, SpuSamples \in Nat, SpuBlocks \in Nat
  PROVE  /\ SpuLands([v EXCEPT !.sample = x], r, c, h, p, l) \in SpuVoiceSet
         /\ SpuLands([v EXCEPT !.sample = x], r, c, h, p, l).end_hit = h
<1>1. 0 \in 0..SpuSamples /\ c \in -1..(SpuBlocks - 1)
  OBVIOUS
<1> DEFINE v1 == [v EXCEPT !.sample = x]
           v2 == [v1 EXCEPT !.repeat = r, !.current = c, !.pcm_block = c]
           v3 == [v2 EXCEPT !.sample = 0, !.end_hit = h]
           v4 == [v3 EXCEPT !.phase = p, !.level = l]
<1>2. v1 \in SpuVoiceWith({x})
  BY DEF SpuVoiceSet, SpuVoiceWith
<1> HIDE DEF v1
<1>3. v2 \in SpuVoiceWith({x})
  BY <1>1, <1>2 DEF SpuVoiceWith
<1> HIDE DEF v2
<1>4. v3 \in SpuVoiceSet /\ v3.end_hit = h
  BY <1>1, <1>3 DEF SpuVoiceSet, SpuVoiceWith
<1> HIDE DEF v3
<1>5. v4 \in SpuVoiceSet /\ v4.end_hit = h
  BY <1>4 DEF SpuVoiceSet, SpuVoiceWith
<1>6. SpuLands(v1, r, c, h, p, l) = v4
  BY DEF SpuLands, v2, v3
<1> QED BY <1>5, <1>6 DEF v1

LEMMA OneOnNotes ==
  ASSUME SpuAssumption, SpuIInv, NEW s \in SpuNoted
  PROVE  /\ SpuOneOn(s) \in SpuNoted
         /\ s.voice.end_hit => SpuOneOn(s).voice.end_hit
         /\ (s.ended => s.voice.end_hit) => (SpuOneOn(s).ended => SpuOneOn(s).voice.end_hit)
<1> DEFINE on == [s.voice EXCEPT !.sample = @ + 1]
           b == on.current
<1>1. s.voice \in SpuVoiceSet /\ s.ended \in BOOLEAN
  BY DEF SpuNoted
<1>2. SpuBlocks \in Nat \ {0} /\ SpuSamples \in Nat \ {0}
  BY DEF SpuAssumption
<1>3. b \in 0..(SpuBlocks - 1) /\ b = s.voice.current /\ spu_ram[b] \in SpuFlagSet
  BY <1>1 DEF SpuVoiceSet, SpuVoiceWith, SpuIInv
<1>4. on.sample \in Nat /\ on.end_hit = s.voice.end_hit
  BY <1>1 DEF SpuVoiceSet, SpuVoiceWith
<1>5. CASE on.sample < SpuSamples
  <2>1. on \in SpuVoiceSet
    BY <1>1, <1>2, <1>4, <1>5 DEF SpuVoiceSet, SpuVoiceWith
  <2>2. SpuOneOn(s) = [s EXCEPT !.voice = on]
    BY <1>2, <1>4, <1>5 DEF SpuOneOn
  <2>3. [s EXCEPT !.voice = on] = [voice |-> on, ended |-> s.ended]
    BY DEF SpuNoted
  <2> QED BY <2>1, <2>2, <2>3, <1>1, <1>4 DEF SpuNoted
<1>6. CASE on.sample >= SpuSamples
  <2>1. SpuOneOn(s) = [voice |-> SpuBoundary(on), ended |-> s.ended \/ spu_ram[b].end]
    BY <1>6 DEF SpuOneOn
  <2>2. (b + 1) % SpuBlocks \in 0..(SpuBlocks - 1)
    BY <1>2, <1>3
  <2>3. /\ spu_ram[b].start \in BOOLEAN /\ spu_ram[b].end \in BOOLEAN
        /\ spu_ram[b].repeat \in BOOLEAN
    BY <1>3 DEF SpuFlagSet
  <2>4. 0 \in 0..SpuTop /\ "release" \in SpuPhases /\ 0 \in 0..SpuSamples
    <3>1. 0 \in 0..SpuSamples
      BY <1>2
    <3> QED  BY <3>1, TopIsLevel, Zenon DEF SpuPhases
  <2> DEFINE r == IF spu_ram[b].start THEN b ELSE s.voice.repeat
             c == IF spu_ram[b].end THEN r ELSE (b + 1) % SpuBlocks
             h == s.voice.end_hit \/ spu_ram[b].end
             p == IF spu_ram[b].end /\ ~ spu_ram[b].repeat THEN "release" ELSE s.voice.phase
             l == IF spu_ram[b].end /\ ~ spu_ram[b].repeat THEN 0 ELSE s.voice.level
             x == s.voice.sample + 1
  <2>5. /\ r \in 0..(SpuBlocks - 1) /\ c \in 0..(SpuBlocks - 1)
        /\ h \in BOOLEAN /\ p \in SpuPhases /\ l \in 0..SpuTop
    BY <1>1, <1>3, <2>2, <2>3, <2>4 DEF SpuVoiceSet, SpuVoiceWith
  <2>6. SpuBoundary(on) = SpuLands(on, r, c, h, p, l)
    <3>1. on.current = b /\ on.repeat = s.voice.repeat /\ on.phase = s.voice.phase
          /\ on.level = s.voice.level /\ on.end_hit = s.voice.end_hit
      BY <1>1 DEF SpuVoiceSet, SpuVoiceWith
    <3> HIDE DEF on, b
    <3> QED BY <3>1 DEF SpuBoundary, SpuLands
  <2>7. SpuBoundary(on) \in SpuVoiceSet /\ SpuBoundary(on).end_hit = h
    <3>1. SpuSamples \in Nat /\ SpuBlocks \in Nat /\ s.voice \in SpuVoiceSet
      BY <1>1, <1>2
    <3> HIDE DEF on, b, r, c, h, p, l, x
    <3>2. /\ SpuLands([s.voice EXCEPT !.sample = x], r, c, h, p, l) \in SpuVoiceSet
          /\ SpuLands([s.voice EXCEPT !.sample = x], r, c, h, p, l).end_hit = h
      BY <2>5, <3>1, LandingIsVoice
    <3> QED BY <2>6, <3>2, Zenon DEF on, x
  <2>8. SpuOneOn(s) \in SpuNoted /\ SpuOneOn(s).voice = SpuBoundary(on)
        /\ SpuOneOn(s).ended = (s.ended \/ spu_ram[b].end)
    <3> HIDE DEF on, b
    <3> QED BY <2>1, <2>3, <2>7, <1>1 DEF SpuNoted
  <2> QED BY <2>7, <2>8, <2>3, <1>1
<1> QED BY <1>2, <1>4, <1>5, <1>6

\* What SpuAdvance's walk starts from, and that it exists.
LEMMA AdvanceNotes ==
  ASSUME SpuAssumption, SpuIInv, NEW v \in SpuVoiceSet
  PROVE  /\ SpuAdvance(v) \in SpuNoted
         /\ v.end_hit => SpuAdvance(v).voice.end_hit
         /\ SpuAdvance(v).ended => SpuAdvance(v).voice.end_hit
<1> DEFINE total == v.counter + IF v.pitch = 0 THEN SpuUnit ELSE v.pitch
           K == total \div SpuUnit
           A == [voice |-> [v EXCEPT !.counter = total % SpuUnit], ended |-> FALSE]
           Walks(f) == f = [n \in 0..K |-> IF n = 0 THEN A ELSE SpuOneOn(f[n - 1])]
<1>1. /\ total \in Nat /\ K \in Nat /\ total % SpuUnit \in 0..(SpuUnit - 1)
  <2>1. SpuUnit \in Nat \ {0} /\ v.counter \in 0..(SpuUnit - 1) /\ v.pitch \in Nat
    BY DEF SpuAssumption, SpuVoiceSet, SpuVoiceWith
  <2>2. total \in Nat
    BY <2>1
  <2> HIDE DEF total
  <2> QED BY <2>1, <2>2
<1>2. A \in SpuNoted /\ (v.end_hit => A.voice.end_hit) /\ ~ A.ended
  <2> HIDE DEF total
  <2> QED BY <1>1 DEF SpuNoted, SpuVoiceSet, SpuVoiceWith
<1> HIDE DEF A
<1> DEFINE S == {s \in SpuNoted : /\ v.end_hit => s.voice.end_hit
                                  /\ s.ended => s.voice.end_hit}
           F == [n \in 1..K |-> [s \in S |-> SpuOneOn(s)]]
<1>3. A \in S /\ F \in [1..K -> [S -> S]]
  <2>1. \A s \in S : SpuOneOn(s) \in S
    BY OneOnNotes
  <2> QED  BY <1>2, <2>1
<1>4. PICK g \in [0..K -> S] : g[0] = A /\ \A n \in 1..K : g[n] = F[n][g[n - 1]]
  <2> HIDE DEF total, K, S, F, Walks
  <2>1. K \in Nat /\ A \in S /\ F \in [1..K -> [S -> S]]
    BY <1>1, <1>3
  <2>2. FromHere(A, F, S, K)
    BY <2>1, RecursionReaches
  <2> QED  BY <2>2 DEF FromHere
<1>5. \A n \in 1..K : n - 1 \in 0..K /\ g[n - 1] \in S /\ g[n] = SpuOneOn(g[n - 1])
  <2> TAKE n \in 1..K
  <2> HIDE DEF K, S
  <2>1. n - 1 \in 0..K
    BY <1>1
  <2>2. g[n - 1] \in S /\ g[n] = F[n][g[n - 1]]
    BY <1>4, <2>1
  <2>3. F[n] = [s \in S |-> SpuOneOn(s)]
    BY DEF F
  <2> QED  BY <2>1, <2>2, <2>3
<1> DEFINE walk == CHOOSE f : Walks(f)
<1>6. Walks(walk)
  <2> HIDE DEF K, S, F
  <2>1. g = [n \in 0..K |-> IF n = 0 THEN A ELSE SpuOneOn(g[n - 1])]
    BY <1>1, <1>4, <1>5
  <2>2. \E f : Walks(f)
    BY <2>1
  <2> HIDE DEF Walks
  <2> QED  BY <2>2, Zenon
<1>7. SpuAdvance(v) = walk[K]
  BY DEF SpuAdvance, A
<1>8. walk[K] = g[K]
  <2> HIDE DEF walk, K, S, F
  <2>1. /\ \A n \in 0..K : walk[n] = IF n = 0 THEN A ELSE SpuOneOn(walk[n - 1])
        /\ 0 \in 0..K /\ K \in 0..K
    BY <1>1, <1>6
  <2>2. Alike(walk, g, K)
    BY <1>1, <1>4, <1>5, <2>1 DEF Alike
  <2>3. K \in Nat
    BY <1>1
  <2> QED  BY <2>1, <2>2, <2>3, SameSteps
<1>9. g[K] \in S
  <2> HIDE DEF K, S, F
  <2> QED  BY <1>1, <1>4
<1> HIDE DEF walk
<1> QED  BY <1>7, <1>8, <1>9

LEMMA PlayedNotes ==
  ASSUME SpuAssumption, SpuIInv, NEW v \in SpuVoiceSet
  PROVE  /\ SpuPlayed(v).voice \in SpuVoiceSet
         /\ v.end_hit => SpuPlayed(v).voice.end_hit
         /\ SpuPlayed(v).ended => SpuPlayed(v).voice.end_hit
<1> DEFINE t == SpuTick(v)
<1>1. t \in SpuVoiceSet /\ t.end_hit = v.end_hit
  BY TickIsVoice
<1>2. CASE ~v.is_on \/ v.phase = "off"
  BY <1>2 DEF SpuPlayed
<1>3. CASE ~ (~v.is_on \/ v.phase = "off") /\ t.level = 0 /\ t.phase = "release"
  <2> DEFINE u == [t EXCEPT !.is_on = FALSE, !.phase = "off"]
  <2>1. u \in SpuVoiceSet /\ u.end_hit = v.end_hit
    <3> HIDE DEF t
    <3> QED BY <1>1 DEF SpuVoiceSet, SpuVoiceWith, SpuPhases
  <2>2. SpuPlayed(v) = [voice |-> u, ended |-> FALSE]
    BY <1>3 DEF SpuPlayed
  <2> HIDE DEF u
  <2> QED BY <2>1, <2>2
<1>4. CASE ~ (~v.is_on \/ v.phase = "off") /\ ~ (t.level = 0 /\ t.phase = "release")
  <2>1. SpuPlayed(v) = SpuAdvance(t)
    BY <1>4 DEF SpuPlayed
  <2>2. /\ SpuAdvance(t) \in SpuNoted
        /\ t.end_hit => SpuAdvance(t).voice.end_hit
        /\ SpuAdvance(t).ended => SpuAdvance(t).voice.end_hit
    <3> HIDE DEF t
    <3> QED BY <1>1, AdvanceNotes
  <2> QED BY <2>1, <2>2, <1>1 DEF SpuNoted
<1> QED BY <1>2, <1>3, <1>4

LEMMA SpuInitIInv == ASSUME SpuAssumption, SpuInit PROVE SpuIInv
<1> DEFINE e == [attack |-> [exp |-> FALSE, shift |-> 0, step |-> 7],
                  decay |-> [shift |-> 0, level |-> 0],
                  sustain |-> [exp |-> FALSE, falls |-> FALSE, shift |-> 0, step |-> 0],
                  release |-> [exp |-> FALSE, shift |-> 0]]
           v == [is_on |-> FALSE, phase |-> "off", level |-> 0, cycle |-> 0, adsr |-> e,
        pitch |-> SpuUnit, counter |-> 0, sample |-> 0, pcm_block |-> -1,
        start |-> 0, repeat |-> 0, current |-> 0, end_hit |-> FALSE]
<1>1. e \in SpuSettings
  BY DEF SpuSettings
<1>2. g_spu = [i \in SpuVoices |-> v]
  BY DEF SpuInit
<1> HIDE DEF e
<1>3. v \in SpuVoiceSet
  <2>1. SpuUnit \in Nat \ {0} /\ SpuBlocks \in Nat \ {0} /\ SpuSamples \in Nat \ {0}
    BY DEF SpuAssumption
  <2>2. 0 \in 0..(SpuUnit - 1) /\ 0 \in 0..(SpuBlocks - 1) /\ 0 \in 0..SpuSamples
    BY <2>1
  <2>3. SpuUnit \in Nat /\ -1 \in -1..(SpuBlocks - 1)
    BY <2>1
  <2>4. 0 \in 0..SpuTop
    BY TopIsLevel
  <2> QED BY <1>1, <2>2, <2>3, <2>4 DEF SpuVoiceSet, SpuVoiceWith, SpuPhases
<1>4. SpuQuiet \in SpuFlagSet /\ SpuBlank \in SpuFlagSet
  BY DEF SpuQuiet, SpuBlank, SpuFlagSet
<1> HIDE DEF v
<1> QED BY <1>2, <1>3, <1>4 DEF SpuInit, SpuIInv, SpuEndReported

\* One voice is set and no new end is reported.
LEMMA OneVoiceSet ==
  ASSUME SpuIInv, NEW i \in SpuVoices, NEW v \in SpuVoiceSet, spu_ram' = spu_ram,
         g_spu' = [g_spu EXCEPT ![i] = v], spu_endx' \subseteq spu_endx,
         i \in spu_endx' => v.end_hit,
         spu_wr_pos' = spu_wr_pos
  PROVE  SpuIInv'
  BY DEF SpuIInv, SpuEndReported


\* What the registers and the key change of a voice.
LEMMA FieldsChange ==
  ASSUME SpuAssumption, NEW v \in SpuVoiceSet, NEW b \in 0..(SpuBlocks - 1)
  PROVE  /\ \A x \in Nat : /\ [v EXCEPT !.pitch = x] \in SpuVoiceSet
                           /\ [v EXCEPT !.pitch = x].end_hit = v.end_hit
         /\ /\ [v EXCEPT !.start = b] \in SpuVoiceSet
            /\ [v EXCEPT !.start = b].end_hit = v.end_hit
         /\ /\ [v EXCEPT !.repeat = b] \in SpuVoiceSet
            /\ [v EXCEPT !.repeat = b].end_hit = v.end_hit
         /\ \A e \in SpuSettings : /\ [v EXCEPT !.adsr = e] \in SpuVoiceSet
                                   /\ [v EXCEPT !.adsr = e].end_hit = v.end_hit
         /\ \A l \in 0..SpuTop : /\ [v EXCEPT !.level = l] \in SpuVoiceSet
                                 /\ [v EXCEPT !.level = l].end_hit = v.end_hit
         /\ [v EXCEPT !.current = b, !.counter = 0, !.sample = SpuSamples] \in SpuVoiceSet
         /\ \A p \in SpuPhases :
              [v EXCEPT !.phase = p, !.level = 0, !.cycle = 0] \in SpuVoiceSet
         /\ \A p \in SpuPhases :
              /\ [v EXCEPT !.phase = p, !.cycle = 0] \in SpuVoiceSet
              /\ [v EXCEPT !.phase = p, !.cycle = 0].end_hit = v.end_hit
         /\ [v EXCEPT !.is_on = TRUE, !.end_hit = FALSE] \in SpuVoiceSet
<1>1. /\ 0 \in 0..(SpuUnit - 1) /\ SpuSamples \in 0..SpuSamples /\ 0 \in 0..SpuTop
  <2>1. SpuUnit \in Nat \ {0} /\ SpuSamples \in Nat \ {0}
    BY DEF SpuAssumption
  <2>2. 0 \in 0..SpuTop
    BY TopIsLevel
  <2> QED BY <2>1, <2>2
<1>2. \A x \in Nat : /\ [v EXCEPT !.pitch = x] \in SpuVoiceSet
                     /\ [v EXCEPT !.pitch = x].end_hit = v.end_hit
  BY DEF SpuVoiceSet, SpuVoiceWith
<1>3. /\ [v EXCEPT !.start = b] \in SpuVoiceSet
      /\ [v EXCEPT !.start = b].end_hit = v.end_hit
  BY DEF SpuVoiceSet, SpuVoiceWith
<1>4. /\ [v EXCEPT !.repeat = b] \in SpuVoiceSet
      /\ [v EXCEPT !.repeat = b].end_hit = v.end_hit
  BY DEF SpuVoiceSet, SpuVoiceWith
<1>5. \A e \in SpuSettings : /\ [v EXCEPT !.adsr = e] \in SpuVoiceSet
                             /\ [v EXCEPT !.adsr = e].end_hit = v.end_hit
  BY DEF SpuVoiceSet, SpuVoiceWith
<1>6. \A l \in 0..SpuTop : /\ [v EXCEPT !.level = l] \in SpuVoiceSet
                           /\ [v EXCEPT !.level = l].end_hit = v.end_hit
  BY DEF SpuVoiceSet, SpuVoiceWith
<1>7. [v EXCEPT !.current = b, !.counter = 0, !.sample = SpuSamples] \in SpuVoiceSet
  BY <1>1 DEF SpuVoiceSet, SpuVoiceWith
<1>8. \A p \in SpuPhases : [v EXCEPT !.phase = p, !.level = 0, !.cycle = 0] \in SpuVoiceSet
  BY <1>1 DEF SpuVoiceSet, SpuVoiceWith
<1>9. \A p \in SpuPhases : /\ [v EXCEPT !.phase = p, !.cycle = 0] \in SpuVoiceSet
                           /\ [v EXCEPT !.phase = p, !.cycle = 0].end_hit = v.end_hit
  BY DEF SpuVoiceSet, SpuVoiceWith
<1>10. [v EXCEPT !.is_on = TRUE, !.end_hit = FALSE] \in SpuVoiceSet
  BY DEF SpuVoiceSet, SpuVoiceWith
<1> QED BY <1>2, <1>3, <1>4, <1>5, <1>6, <1>7, <1>8, <1>9, <1>10, Zenon

LEMMA KeyOnIInv ==
  ASSUME SpuAssumption, SpuIInv, NEW i \in SpuVoices, SpuKeyOn(i)
  PROVE  SpuIInv'
<1> DEFINE b == g_spu[i].start
           u == [g_spu[i] EXCEPT !.current = b, !.counter = 0, !.sample = SpuSamples]
           v == [u EXCEPT !.phase = "attack", !.level = 0, !.cycle = 0]
           w == [v EXCEPT !.is_on = TRUE, !.end_hit = FALSE]
<1>1. g_spu[i] \in SpuVoiceSet /\ b \in 0..(SpuBlocks - 1) /\ "attack" \in SpuPhases
  BY DEF SpuIInv, SpuVoiceSet, SpuVoiceWith, SpuPhases
<1>2. g_spu' = [g_spu EXCEPT ![i] = w]
  BY DEF SpuKeyOn
<1> HIDE DEF b
<1>3. u \in SpuVoiceSet
  BY <1>1, FieldsChange, Zenon
<1> HIDE DEF u
<1>4. v \in SpuVoiceSet
  BY <1>1, <1>3, FieldsChange, Zenon
<1> HIDE DEF v
<1>5. w \in SpuVoiceSet
  BY <1>1, <1>4, FieldsChange, Zenon
<1> HIDE DEF w
<1>6. spu_endx' = spu_endx \ {i} /\ spu_ram' = spu_ram /\ spu_wr_pos' = spu_wr_pos
  BY DEF SpuKeyOn
<1> QED BY <1>2, <1>5, <1>6, OneVoiceSet

LEMMA KeyOffIInv ==
  ASSUME SpuAssumption, SpuIInv, NEW i \in SpuVoices, SpuKeyOff(i)
  PROVE  SpuIInv'
<1> DEFINE w == [g_spu[i] EXCEPT !.phase = "release", !.cycle = 0]
<1>1. /\ g_spu[i] \in SpuVoiceSet /\ (i \in spu_endx => g_spu[i].end_hit)
      /\ "release" \in SpuPhases /\ 0 \in 0..(SpuBlocks - 1)
  BY DEF SpuIInv, SpuEndReported, SpuPhases, SpuAssumption
<1>2. w \in SpuVoiceSet /\ w.end_hit = g_spu[i].end_hit
  BY <1>1, FieldsChange, Zenon
<1>3. g_spu' = [g_spu EXCEPT ![i] = w]
  BY DEF SpuKeyOff, SpuIInv
<1> HIDE DEF w
<1>4. spu_endx' = spu_endx /\ spu_ram' = spu_ram /\ spu_wr_pos' = spu_wr_pos
  BY DEF SpuKeyOff
<1> QED BY <1>1, <1>2, <1>3, <1>4, OneVoiceSet

LEMMA SetVoiceIInv ==
  ASSUME SpuAssumption, SpuIInv, NEW i \in SpuVoices, SpuSetVoice(i)
  PROVE  SpuIInv'
<1>1. /\ g_spu[i] \in SpuVoiceSet /\ (i \in spu_endx => g_spu[i].end_hit)
      /\ 0 \in 0..(SpuBlocks - 1)
  BY DEF SpuIInv, SpuEndReported, SpuAssumption
<1>2. /\ SpuPitches \subseteq Nat /\ SpuStarts \subseteq 0..(SpuBlocks - 1)
      /\ SpuEnvelopes \subseteq SpuSettings /\ SpuLevels \subseteq 0..SpuTop
  BY DEF SpuAssumption
<1>3. spu_endx' = spu_endx /\ spu_ram' = spu_ram /\ spu_wr_pos' = spu_wr_pos
  BY DEF SpuSetVoice
<1>4. SUFFICES \E w \in SpuVoiceSet : /\ w.end_hit = g_spu[i].end_hit
                                      /\ g_spu' = [g_spu EXCEPT ![i] = w]
  BY <1>1, <1>3, OneVoiceSet
<1>5. CASE \E x \in SpuPitches : g_spu' = [g_spu EXCEPT ![i].pitch = x]
  BY <1>1, <1>2, <1>5, FieldsChange
<1>6. CASE \E x \in SpuStarts : g_spu' = [g_spu EXCEPT ![i].start = x]
  BY <1>1, <1>2, <1>6, FieldsChange
<1>7. CASE \E x \in SpuStarts : g_spu' = [g_spu EXCEPT ![i].repeat = x]
  BY <1>1, <1>2, <1>7, FieldsChange
<1>8. CASE \E x \in SpuEnvelopes : g_spu' = [g_spu EXCEPT ![i].adsr = x]
  BY <1>1, <1>2, <1>8, FieldsChange
<1>9. CASE \E x \in SpuLevels : g_spu' = [g_spu EXCEPT ![i].level = x]
  BY <1>1, <1>2, <1>9, FieldsChange
<1> QED BY <1>5, <1>6, <1>7, <1>8, <1>9 DEF SpuSetVoice

LEMMA GenerateIInv == ASSUME SpuAssumption, SpuIInv, SpuGenerate PROVE SpuIInv'
<1>1. \A i \in SpuVoices :
        /\ SpuPlayed(g_spu[i]).voice \in SpuVoiceSet
        /\ g_spu[i].end_hit => SpuPlayed(g_spu[i]).voice.end_hit
        /\ SpuPlayed(g_spu[i]).ended => SpuPlayed(g_spu[i]).voice.end_hit
  <2> TAKE i \in SpuVoices
  <2>1. g_spu[i] \in SpuVoiceSet
    BY DEF SpuIInv
  <2> QED BY <2>1, PlayedNotes
<1>2. /\ g_spu' = [i \in SpuVoices |-> SpuPlayed(g_spu[i]).voice]
      /\ spu_endx' = spu_endx \cup {i \in SpuVoices : SpuPlayed(g_spu[i]).ended}
      /\ spu_ram' = spu_ram /\ spu_wr_pos' = spu_wr_pos
  BY DEF SpuGenerate
<1> QED BY <1>1, <1>2 DEF SpuIInv, SpuEndReported

LEMMA SpuStepIInv == ASSUME SpuAssumption, SpuIInv, [SpuNext]_spu_vars PROVE SpuIInv'
<1>1. CASE SpuGenerate
  BY <1>1, GenerateIInv
<1>2. ASSUME NEW i \in SpuVoices, SpuKeyOn(i)  PROVE SpuIInv'
  BY <1>2, KeyOnIInv
<1>3. ASSUME NEW i \in SpuVoices, SpuKeyOff(i)  PROVE SpuIInv'
  BY <1>3, KeyOffIInv
<1>4. ASSUME NEW i \in SpuVoices, SpuSetVoice(i)  PROVE SpuIInv'
  BY <1>4, SetVoiceIInv
<1>5. CASE SpuAcknowledge
  BY <1>5 DEF SpuAcknowledge, SpuIInv, SpuEndReported
<1>6. CASE SpuSetTransfer
  BY <1>6 DEF SpuSetTransfer, SpuIInv, SpuEndReported
<1>7. CASE SpuUpload
  <2>1. PICK size \in SpuChunks, flags \in SpuFlags :
          LET at == IF spu_wr_pos + size > SpuBlocks THEN 0 ELSE spu_wr_pos
              Chunk == {(at + n) % SpuBlocks : n \in 0..(size - 1)}
          IN /\ spu_ram' = [b \in DOMAIN spu_ram |-> IF b \in Chunk THEN flags ELSE spu_ram[b]]
             /\ spu_wr_pos' = at + size
    BY <1>7 DEF SpuUpload
  <2>2. size \in Nat /\ flags \in SpuFlagSet
    BY DEF SpuAssumption, SpuFlagSet
  <2>3. spu_ram' \in [0..(SpuBlocks - 1) -> SpuFlagSet] /\ spu_wr_pos' \in Nat
    BY <2>1, <2>2 DEF SpuIInv
  <2>4. g_spu' = g_spu /\ spu_endx' = spu_endx
    BY <1>7 DEF SpuUpload
  <2> QED BY <2>3, <2>4 DEF SpuIInv, SpuEndReported
<1>8. CASE UNCHANGED spu_vars
  BY <1>8 DEF spu_vars, SpuIInv, SpuEndReported
<1> QED BY <1>1, <1>2, <1>3, <1>4, <1>5, <1>6, <1>7, <1>8 DEF SpuNext

LEMMA SpuInvariant == ASSUME SpuAssumption PROVE SpuSpec => []SpuIInv
<1>1. SpuInit => SpuIInv
  BY SpuInitIInv
<1>2. SpuIInv /\ [SpuNext]_spu_vars => SpuIInv'
  BY SpuStepIInv
<1> QED BY <1>1, <1>2, PTL DEF SpuSpec

(* The sound unit's registers stay in their ranges: above all no sequence  *)
(* of envelope steps takes a level out of those the mixer multiplies with  *)
(* (spu_voice_adsr_tick, hle_spu.c).                                       *)
THEOREM LevelsStayInRange == ASSUME SpuAssumption PROVE SpuSpec => []SpuTypeOK
<1>1. SpuIInv => SpuTypeOK
  <2> SUFFICES ASSUME SpuIInv, NEW i \in SpuVoices
      PROVE  /\ g_spu[i].phase \in SpuPhases /\ g_spu[i].level \in 0..SpuTop
             /\ g_spu[i].counter \in 0..(SpuUnit - 1) /\ g_spu[i].sample \in 0..SpuSamples
             /\ g_spu[i].current \in DOMAIN spu_ram
             /\ g_spu[i].pcm_block \in DOMAIN spu_ram \cup {-1}
    BY DEF SpuTypeOK, SpuIInv
  <2>1. g_spu[i] \in SpuVoiceSet /\ DOMAIN spu_ram = 0..(SpuBlocks - 1)
    BY DEF SpuIInv
  <2>2. SpuBlocks \in Nat
    BY DEF SpuAssumption
  <2> QED BY <2>1, <2>2 DEF SpuVoiceSet, SpuVoiceWith
<1> QED BY <1>1, SpuInvariant, PTL

(* A reported end is of the note that plays and not of the one before it   *)
(* (spu_voice_key_on, hle_spu_generate).                                   *)
THEOREM EndsAreOfTheNote == ASSUME SpuAssumption PROVE SpuSpec => []SpuEndReported
<1>1. SpuIInv => SpuEndReported
  BY DEF SpuIInv
<1> QED BY <1>1, SpuInvariant, PTL

-----------------------------------------------------------------------------
(* The GTE's queues and registers.                                         *)

LEMMA GtePushed ==
  ASSUME NEW q, NEW n \in Nat \ {0}, GteQueue(q, n), NEW x
  PROVE  /\ GteQueue(GtePush(q, x), n)
         /\ \A i \in 1..n : GtePush(q, x)[i] = IF i = n THEN x ELSE q[i + 1]
<1> DEFINE S == {q[i] : i \in 1..n} \cup {x}
<1>1. q \in [1..n -> S] /\ x \in S
  BY DEF GteQueue
<1> HIDE DEF S
<1>2. q \in Seq(S) /\ Len(q) = n /\ q # << >>
  <2>1. q \in Seq(S) /\ Len(q) = n
    BY <1>1, FunctionIsSeq
  <2> QED  BY <2>1
<1>3. Tail(q) \in Seq(S) /\ Len(Tail(q)) = n - 1
      /\ \A i \in 1..(n - 1) : Tail(q)[i] = q[i + 1]
  BY <1>2
<1>4. GtePush(q, x) \in Seq(S) /\ Len(GtePush(q, x)) = n
      /\ \A i \in 1..n : GtePush(q, x)[i] = IF i = n THEN x ELSE Tail(q)[i]
  BY <1>1, <1>3 DEF GtePush
<1>5. GtePush(q, x) = [i \in 1..n |-> GtePush(q, x)[i]]
  <2>1. GtePush(q, x) \in [1..n -> S]
    BY <1>4
  <2> QED  BY <2>1
<1>6. \A i \in 1..n : GtePush(q, x)[i] = IF i = n THEN x ELSE q[i + 1]
  BY <1>3, <1>4
<1> QED  BY <1>5, <1>6 DEF GteQueue

\* What no arithmetic touches: all but the accumulators and the flags.
GteHeld == GteFields \ {"ir0", "ir", "mac0", "mac", "flag"}

\* h is what arithmetic has made of g.
GteFrom(g, h) ==
  DOMAIN g = GteFields /\ DOMAIN h = GteFields /\ \A f \in GteHeld : h[f] = g[f]

LEMMA GteFromChain ==
  ASSUME NEW a, NEW b, NEW c, GteFrom(a, b), GteFrom(b, c)
  PROVE  GteFrom(a, c)
BY DEF GteFrom

\* The flags that a store into MAC1..MAC3 raises.
GteOverflows(x) ==
  {<<"mac+", i>> : i \in {j \in 1..3 : x[j] >= GteMac}}
  \cup {<<"mac-", i>> : i \in {j \in 1..3 : x[j] < -GteMac}}

\* MAC1..MAC3 after such a store.
GteStored(x) == [i \in 1..3 |-> GteSigned(x[i])]

GteIf(raised, name) == IF raised THEN {name} ELSE {}

LEMMA GteRaised ==
  ASSUME NEW g, DOMAIN g = GteFields, NEW raised, NEW name
  PROVE  /\ GteFrom(g, GteRaise(g, raised, name))
         /\ \A f \in GteFields \ {"flag"} : GteRaise(g, raised, name)[f] = g[f]
         /\ GteRaise(g, raised, name).flag = g.flag \cup GteIf(raised, name)
BY DEF GteIf, GteRaise, GteFrom, GteFields, GteHeld

LEMMA GteMacSet ==
  ASSUME NEW g, DOMAIN g = GteFields, NEW x
  PROVE  /\ GteFrom(g, GteSetMac(g, x))
         /\ GteSetMac(g, x).mac = GteStored(x)
         /\ GteSetMac(g, x).ir0 = g.ir0
         /\ GteSetMac(g, x).flag = g.flag \cup GteOverflows(x)
<1> DEFINE m == [i \in 1..3 |-> GteSigned(x[i])]
<1>1. GteSetMac(g, x) = [g EXCEPT !.mac = m, !.flag = @ \cup GteOverflows(x)]
  BY DEF GteSetMac, GteOverflows
<1> HIDE DEF m
<1>2. /\ GteFrom(g, GteSetMac(g, x)) /\ GteSetMac(g, x).mac = m /\ GteSetMac(g, x).ir0 = g.ir0
      /\ GteSetMac(g, x).flag = g.flag \cup GteOverflows(x)
  BY <1>1 DEF GteFrom, GteFields, GteHeld
<1> QED  BY <1>2 DEF m, GteStored

LEMMA GteIrSet ==
  ASSUME NEW g, DOMAIN g = GteFields, NEW x, NEW lm
  PROVE  /\ GteFrom(g, GteSetIr(g, x, lm))
         /\ GteSetIr(g, x, lm).ir = GteLimits(x, GteLow(lm))
         /\ GteSetIr(g, x, lm).mac = g.mac /\ GteSetIr(g, x, lm).ir0 = g.ir0
         /\ GteSetIr(g, x, lm).flag = g.flag \cup GteLimited(x, GteLow(lm))
BY DEF GteSetIr, GteFrom, GteFields, GteHeld
LEMMA GteMac0Set ==
  ASSUME NEW g, DOMAIN g = GteFields, NEW x
  PROVE  /\ GteFrom(g, GteSetMac0(g, x))
         /\ \A f \in GteFields \ {"mac0", "flag"} : GteSetMac0(g, x)[f] = g[f]
         /\ GteSetMac0(g, x).flag =
              g.flag \cup GteIf(x >= GteWord, <<"mac+", 0>>) \cup GteIf(x < -GteWord, <<"mac-", 0>>)
<1> DEFINE a    == [g EXCEPT !.mac0 = GteSigned(x)]
           over == x >= GteWord
           b    == GteRaise(a, over, <<"mac+", 0>>)
           less == x < -GteWord
<1>1. /\ DOMAIN a = GteFields /\ GteFrom(g, a) /\ a.flag = g.flag
      /\ \A f \in GteFields \ {"mac0"} : a[f] = g[f]
  BY DEF GteFrom, GteFields, GteHeld
<1>2. GteSetMac0(g, x) = GteRaise(b, less, <<"mac-", 0>>)
  BY DEF GteSetMac0
<1> HIDE DEF a, over, less
<1>3. /\ GteFrom(a, b) /\ \A f \in GteFields \ {"flag"} : b[f] = a[f]
      /\ b.flag = a.flag \cup GteIf(over, <<"mac+", 0>>)
  BY <1>1, GteRaised
<1> HIDE DEF b
<1>4. DOMAIN b = GteFields
  BY <1>3 DEF GteFrom
<1>5. /\ GteFrom(b, GteSetMac0(g, x))
      /\ \A f \in GteFields \ {"flag"} : GteSetMac0(g, x)[f] = b[f]
      /\ GteSetMac0(g, x).flag = b.flag \cup GteIf(less, <<"mac-", 0>>)
  BY <1>2, <1>4, GteRaised
<1>6. GteFrom(g, GteSetMac0(g, x))
  BY <1>1, <1>3, <1>5, GteFromChain
<1> QED  BY <1>1, <1>3, <1>5, <1>6 DEF over, less, GteFields

LEMMA GteBothSet ==
  ASSUME NEW g, NEW h, DOMAIN g = GteFields, DOMAIN h = GteFields, NEW F,
         g.flag = F \cup h.flag, NEW x, NEW sf, NEW lm
  PROVE  /\ GteFrom(g, GteSetBoth(g, x, sf, lm))
         /\ GteSetBoth(g, x, sf, lm).mac = GteStored(x)
         /\ GteSetBoth(g, x, sf, lm).ir0 = g.ir0
         /\ GteSetBoth(g, x, sf, lm).ir = GteLimits(GteShifts(x, sf), GteLow(lm))
         /\ GteSetBoth(g, x, sf, lm).flag = F \cup GteSetBoth(h, x, sf, lm).flag
<1> DEFINE a == GteSetMac(g, x)
           b == GteSetMac(h, x)
           m == GteStored(x)
<1>1. /\ GteFrom(g, a) /\ a.mac = m /\ a.ir0 = g.ir0 /\ a.flag = F \cup b.flag /\ GteFrom(h, b)
  <2>1. GteFrom(g, a) /\ a.mac = m /\ a.ir0 = g.ir0 /\ a.flag = g.flag \cup GteOverflows(x)
    BY GteMacSet
  <2>2. GteFrom(h, b) /\ b.mac = m /\ b.flag = h.flag \cup GteOverflows(x)
    BY GteMacSet
  <2> HIDE DEF a, b, m
  <2> QED  BY <2>1, <2>2
<1> DEFINE y == GteShifts(x, sf)
<1>2. GteSetBoth(g, x, sf, lm) = GteSetIr(a, y, lm) /\ GteSetBoth(h, x, sf, lm) = GteSetIr(b, y, lm)
  BY DEF GteSetBoth
<1> HIDE DEF a, b, y, m
<1>3. DOMAIN a = GteFields /\ DOMAIN b = GteFields
  BY <1>1 DEF GteFrom
<1>4. /\ GteFrom(a, GteSetIr(a, y, lm)) /\ GteSetIr(a, y, lm).mac = m
      /\ GteSetIr(a, y, lm).ir = GteLimits(y, GteLow(lm)) /\ GteSetIr(a, y, lm).ir0 = a.ir0
      /\ GteSetIr(a, y, lm).flag = F \cup GteSetIr(b, y, lm).flag
  BY <1>1, <1>3, GteIrSet
<1>5. /\ GteFrom(g, GteSetBoth(g, x, sf, lm)) /\ GteSetBoth(g, x, sf, lm).mac = m
      /\ GteSetBoth(g, x, sf, lm).ir0 = g.ir0
      /\ GteSetBoth(g, x, sf, lm).ir = GteLimits(y, GteLow(lm))
      /\ GteSetBoth(g, x, sf, lm).flag = F \cup GteSetBoth(h, x, sf, lm).flag
  BY <1>1, <1>2, <1>4, GteFromChain
<1> QED  BY <1>5 DEF y, m

LEMMA GteOneBothSet ==
  ASSUME NEW g, DOMAIN g = GteFields, NEW x, NEW sf, NEW lm
  PROVE  /\ GteFrom(g, GteSetBoth(g, x, sf, lm)) /\ GteSetBoth(g, x, sf, lm).mac = GteStored(x)
         /\ GteSetBoth(g, x, sf, lm).ir0 = g.ir0
<1>1. g.flag = {} \cup g.flag
  OBVIOUS
<1> QED  BY <1>1, GteBothSet

-----------------------------------------------------------------------------
(* One vertex: what it pushes and raises depends on the guest's registers  *)
(* alone, and not on the vertices before it.                               *)

\* Two register files with the same flags, but for F.
GteTogether(s, t, F) ==
  DOMAIN s = GteFields /\ DOMAIN t = GteFields /\ s.flag = F \cup t.flag

LEMMA GteRaiseTogether ==
  ASSUME NEW s, NEW t, NEW F, GteTogether(s, t, F), NEW raised, NEW name
  PROVE  /\ GteTogether(GteRaise(s, raised, name), GteRaise(t, raised, name), F)
         /\ GteFrom(s, GteRaise(s, raised, name)) /\ GteRaise(s, raised, name).ir = s.ir
         /\ GteFrom(t, GteRaise(t, raised, name)) /\ GteRaise(t, raised, name).ir = t.ir
<1> DEFINE a == GteRaise(s, raised, name)
           b == GteRaise(t, raised, name)
<1>1. GteFrom(s, a) /\ a.ir = s.ir /\ a.flag = s.flag \cup GteIf(raised, name)
  BY GteRaised DEF GteFields, GteTogether
<1>2. GteFrom(t, b) /\ b.ir = t.ir /\ b.flag = t.flag \cup GteIf(raised, name)
  BY GteRaised DEF GteFields, GteTogether
<1> HIDE DEF a, b
<1>3. DOMAIN a = GteFields /\ DOMAIN b = GteFields
  BY <1>1, <1>2 DEF GteFrom
<1>4. a.flag = F \cup b.flag
  BY <1>1, <1>2 DEF GteTogether
<1>5. GteTogether(a, b, F)
  BY <1>3, <1>4 DEF GteTogether
<1> QED  BY <1>1, <1>2, <1>5 DEF a, b

LEMMA GteMac0Together ==
  ASSUME NEW s, NEW t, NEW F, GteTogether(s, t, F), NEW x
  PROVE  /\ GteTogether(GteSetMac0(s, x), GteSetMac0(t, x), F)
         /\ GteFrom(s, GteSetMac0(s, x)) /\ GteFrom(t, GteSetMac0(t, x))
<1> DEFINE a == GteSetMac0(s, x)
           b == GteSetMac0(t, x)
           over == GteIf(x >= GteWord, <<"mac+", 0>>)
           less == GteIf(x < -GteWord, <<"mac-", 0>>)
<1>1. GteFrom(s, a) /\ a.flag = s.flag \cup over \cup less
  BY GteMac0Set DEF GteTogether
<1>2. GteFrom(t, b) /\ b.flag = t.flag \cup over \cup less
  BY GteMac0Set DEF GteTogether
<1> HIDE DEF a, b, over, less
<1>3. DOMAIN a = GteFields /\ DOMAIN b = GteFields
  BY <1>1, <1>2 DEF GteFrom
<1>4. a.flag = F \cup b.flag
  BY <1>1, <1>2 DEF GteTogether
<1>5. GteTogether(a, b, F)
  BY <1>3, <1>4 DEF GteTogether
<1> QED  BY <1>1, <1>2, <1>5 DEF a, b

\* The third component is limited once more, with its flag set anew.
GteThird(s, a, x) == [a EXCEPT !.ir[3] = x, !.flag = (@ \ {<<"ir", 3>>}) \cup s.flag]

LEMMA GteThirdSet ==
  ASSUME NEW s, NEW a, GteFrom(s, a), NEW x
  PROVE  /\ GteFrom(s, GteThird(s, a, x))
         /\ GteThird(s, a, x).ir = [a.ir EXCEPT ![3] = x]
         /\ GteThird(s, a, x).flag = (a.flag \ {<<"ir", 3>>}) \cup s.flag
BY DEF GteThird, GteFrom, GteFields, GteHeld

\* g and h hold the same vertices, camera and scale.
GteSees(g, h) == \A f \in {"v", "rt", "tr", "h", "offset", "dqa", "dqb"} : g[f] = h[f]

LEMMA GteSeesOn ==
  ASSUME NEW g, NEW h, NEW a, NEW b, GteSees(g, h), GteFrom(g, a), GteFrom(h, b)
  PROVE  GteSees(a, b)
BY DEF GteSees, GteFrom, GteFields, GteHeld

LEMMA GteViewTogether ==
  ASSUME NEW g, NEW h, NEW F, GteTogether(g, h, F), GteSees(g, h), NEW k, NEW sf, NEW lm
  PROVE  LET a == GteView(g, k, sf, lm)
             b == GteView(h, k, sf, lm)
         IN  /\ GteTogether(a, b, F) /\ GteFrom(g, a) /\ GteFrom(h, b) /\ a.ir = b.ir
<1> DEFINE raw   == GteSeen(h, k)
           depth == GteShift(raw[3], sf)
           third == GteClamp(depth, -GteIr, GteIr - 1)
           deep  == GteOutside(depth, -GteIr, GteIr - 1)
           lims  == GteLimits(GteShifts(raw, sf), GteLow(lm))
           ga    == GteSetBoth(g, raw, sf, lm)
           ha    == GteSetBoth(h, raw, sf, lm)
           gb    == GteThird(g, ga, third)
           hb    == GteThird(h, ha, third)
<1>1. GteSeen(g, k) = raw
  BY DEF GteSees, GteSeen
<1>2. GteView(h, k, sf, lm) = GteRaise(hb, deep, <<"ir", 3>>)
  BY DEF GteView, GteThird
<1>3. GteView(g, k, sf, lm) = GteRaise(gb, deep, <<"ir", 3>>)
  BY <1>1 DEF GteView, GteThird
<1> HIDE DEF raw, depth, third, deep
<1>4. GteFrom(g, ga) /\ GteFrom(h, ha) /\ ga.ir = lims /\ ha.ir = lims /\ ga.flag = F \cup ha.flag
  <2>1. h.flag = {} \cup h.flag
    OBVIOUS
  <2>2. GteFrom(h, ha) /\ ha.ir = lims
    BY <2>1, GteBothSet DEF GteTogether
  <2>3. GteFrom(g, ga) /\ ga.ir = lims /\ ga.flag = F \cup ha.flag
    BY GteBothSet DEF GteTogether
  <2> QED  BY <2>2, <2>3
<1> HIDE DEF ga, ha, lims
<1>5. /\ GteFrom(g, gb) /\ gb.ir = [lims EXCEPT ![3] = third]
      /\ gb.flag = (ga.flag \ {<<"ir", 3>>}) \cup g.flag
  BY <1>4, GteThirdSet
<1>6. /\ GteFrom(h, hb) /\ hb.ir = [lims EXCEPT ![3] = third]
      /\ hb.flag = (ha.flag \ {<<"ir", 3>>}) \cup h.flag
  BY <1>4, GteThirdSet
<1> HIDE DEF gb, hb
<1>7. GteTogether(gb, hb, F)
  <2>1. DOMAIN gb = GteFields /\ DOMAIN hb = GteFields
    BY <1>5, <1>6 DEF GteFrom
  <2>2. gb.flag = F \cup hb.flag
    BY <1>4, <1>5, <1>6 DEF GteTogether
  <2> QED  BY <2>1, <2>2 DEF GteTogether
<1> QED  BY <1>2, <1>3, <1>5, <1>6, <1>7, GteRaiseTogether, GteFromChain

LEMMA GtePlaceTogether ==
  ASSUME NEW s, NEW t, NEW F, GteTogether(s, t, F), NEW at
  PROVE  /\ GteTogether(GtePlace(s, at), GtePlace(t, at), F)
         /\ GteFrom(s, GtePlace(s, at)) /\ GteFrom(t, GtePlace(t, at))
<1> DEFINE off == GteOffScreen(at)
           a  == [s EXCEPT !.flag = @ \cup off]
           b  == [t EXCEPT !.flag = @ \cup off]
<1>1. GteTogether(a, b, F) /\ GteFrom(s, a) /\ GteFrom(t, b)
  <2> HIDE DEF off
  <2> QED  BY DEF GteTogether, GteFrom, GteFields, GteHeld
<1>2. /\ GtePlace(s, at) = GteSetMac0(GteSetMac0(a, at[1]), at[2])
      /\ GtePlace(t, at) = GteSetMac0(GteSetMac0(b, at[1]), at[2])
  BY DEF GtePlace
<1> HIDE DEF a, b
<1>3. /\ GteTogether(GteSetMac0(a, at[1]), GteSetMac0(b, at[1]), F)
      /\ GteFrom(a, GteSetMac0(a, at[1])) /\ GteFrom(b, GteSetMac0(b, at[1]))
  BY <1>1, GteMac0Together
<1> QED  BY <1>1, <1>2, <1>3, GteMac0Together, GteFromChain

LEMMA GteCueTogether ==
  ASSUME NEW s, NEW t, NEW F, GteTogether(s, t, F), GteSees(s, t), NEW n
  PROVE  /\ GteTogether(GteDepthCue(s, n), GteDepthCue(t, n), F)
         /\ GteFrom(s, GteDepthCue(s, n)) /\ GteFrom(t, GteDepthCue(t, n))
<1> DEFINE cue  == n * t.dqa + t.dqb
           part == GteClamp(cue \div GteOne, 0, GteOne)
           wide == GteOutside(cue \div GteOne, 0, GteOne)
           a  == GteSetMac0(s, cue)
           b  == GteSetMac0(t, cue)
           a0 == [a EXCEPT !.ir0 = part]
           b0 == [b EXCEPT !.ir0 = part]
<1>1. s.dqa = t.dqa /\ s.dqb = t.dqb
  BY DEF GteSees
<1>2. /\ GteDepthCue(s, n) = GteRaise(a0, wide, <<"ir", 0>>)
      /\ GteDepthCue(t, n) = GteRaise(b0, wide, <<"ir", 0>>)
  BY <1>1 DEF GteDepthCue
<1> HIDE DEF cue, part, wide
<1>3. GteTogether(a, b, F) /\ GteFrom(s, a) /\ GteFrom(t, b)
  BY GteMac0Together
<1> HIDE DEF a, b
<1>4. GteTogether(a0, b0, F) /\ GteFrom(a, a0) /\ GteFrom(b, b0)
  BY <1>3 DEF GteTogether, GteFrom, GteFields, GteHeld
<1> HIDE DEF a0, b0
<1> QED  BY <1>2, <1>3, <1>4, GteRaiseTogether, GteFromChain

\* What a vertex pushes onto queues p and q of points and depths.
GteVertexPushed(g, a, point, z) ==
  /\ DOMAIN a = GteFields /\ GteSees(a, g) /\ a.rgb = g.rgb
  /\ a.sxy = GtePush(g.sxy, point) /\ a.sz = GtePush(g.sz, z)

LEMMA GteLimitedTogether ==
  ASSUME NEW g, NEW h, NEW F, GteTogether(g, h, F), GteSees(g, h), NEW k, NEW sf, NEW lm
  PROVE  LET a == GteLimitedView(g, k, sf, lm)
             b == GteLimitedView(h, k, sf, lm)
         IN  /\ GteTogether(a, b, F) /\ GteFrom(g, a) /\ GteFrom(h, b) /\ a.ir = b.ir
<1> DEFINE z    == GteLimitedDepth(h, k, sf)
           deep == GteDepth(h, k, sf) # z
           near == h.h >= 2 * z
           B(s) == GteView(s, k, sf, lm)
           C0(s) == GteRaise(B(s), deep, <<"sz", 3>>)
<1>1. GteLimitedView(h, k, sf, lm) = GteRaise(C0(h), near, <<"divide", 0>>)
  BY DEF GteLimitedView
<1>2. GteLimitedView(g, k, sf, lm) = GteRaise(C0(g), near, <<"divide", 0>>)
  <2>1. GteSeen(g, k) = GteSeen(h, k) /\ g.h = h.h
    BY DEF GteSees, GteSeen
  <2>2. GteDepth(g, k, sf) = GteDepth(h, k, sf)
    BY <2>1 DEF GteDepth
  <2>3. GteLimitedDepth(g, k, sf) = z
    BY <2>2 DEF GteLimitedDepth
  <2> QED  BY <2>1, <2>2, <2>3 DEF GteLimitedView
<1> HIDE DEF z, deep, near
<1>3. GteTogether(B(g), B(h), F) /\ GteFrom(g, B(g)) /\ GteFrom(h, B(h)) /\ B(g).ir = B(h).ir
  BY GteViewTogether
<1> HIDE DEF B
<1>4. GteTogether(C0(g), C0(h), F) /\ GteFrom(B(g), C0(g)) /\ GteFrom(B(h), C0(h)) /\ C0(g).ir = C0(h).ir
  BY <1>3, GteRaiseTogether
<1> HIDE DEF C0
<1> QED  BY <1>1, <1>2, <1>3, <1>4, GteRaiseTogether, GteFromChain

LEMMA GteProjectAlone ==
  ASSUME NEW g, NEW h, NEW F, GteTogether(g, h, F), GteSees(g, h),
         NEW k, NEW sf, NEW lm, NEW last
  PROVE  LET a == GteProject(g, k, sf, lm, last)
             b == GteProject(h, k, sf, lm, last)
         IN  /\ a.flag = F \cup b.flag
             /\ \E point, z : GteVertexPushed(g, a, point, z) /\ GteVertexPushed(h, b, point, z)
<1> DEFINE z    == GteLimitedDepth(h, k, sf)
           n    == GteDivide(h.h, z)
           C(s) == GteLimitedView(s, k, sf, lm)
           E(s) == GtePlace(C(s), GteAt(C(s), n))
           L(s) == IF last THEN GteDepthCue(E(s), n) ELSE E(s)
           P(s) == [L(s) EXCEPT !.sxy = GtePush(@, GtePoint(GteAt(C(s), n))), !.sz = GtePush(@, z)]
<1>1. GteProject(h, k, sf, lm, last) = P(h)
  BY DEF GteProject
<1>2. GteProject(g, k, sf, lm, last) = P(g)
  <2>1. GteLimitedDepth(g, k, sf) = z /\ g.h = h.h
    BY DEF GteSees, GteSeen, GteDepth, GteLimitedDepth
  <2> QED  BY <2>1 DEF GteProject
<1> HIDE DEF z, n
<1>3. GteTogether(C(g), C(h), F) /\ GteFrom(g, C(g)) /\ GteFrom(h, C(h)) /\ C(g).ir = C(h).ir
  BY GteLimitedTogether
<1> HIDE DEF C
<1>4. GteSees(C(g), C(h))
  BY <1>3, GteSeesOn
<1> DEFINE at == GteAt(C(h), n)
<1>5. GteAt(C(g), n) = at
  BY <1>3, <1>4 DEF GteAt, GteSees
<1> HIDE DEF at
<1>6. GteTogether(E(g), E(h), F) /\ GteFrom(C(g), E(g)) /\ GteFrom(C(h), E(h))
  <2>1. E(g) = GtePlace(C(g), at) /\ E(h) = GtePlace(C(h), at)
    BY <1>5 DEF at
  <2> HIDE DEF E
  <2> QED  BY <1>3, <2>1, GtePlaceTogether
<1>7. GteFrom(g, E(g)) /\ GteFrom(h, E(h))
  BY <1>3, <1>6, GteFromChain
<1> HIDE DEF E
<1>8. GteSees(E(g), E(h))
  BY <1>7, GteSeesOn
<1>9. /\ GteTogether(L(g), L(h), F) /\ GteFrom(g, L(g)) /\ GteFrom(h, L(h))
  BY <1>6, <1>7, <1>8, GteCueTogether, GteFromChain
<1> DEFINE point == GtePoint(at)
<1>10. /\ P(g) = [L(g) EXCEPT !.sxy = GtePush(@, point), !.sz = GtePush(@, z)]
       /\ P(h) = [L(h) EXCEPT !.sxy = GtePush(@, point), !.sz = GtePush(@, z)]
  BY <1>5 DEF at
<1> HIDE DEF L, P, point
<1> DEFINE Q(l) == [l EXCEPT !.sxy = GtePush(@, point), !.sz = GtePush(@, z)]
<1>11. \A s \in {g, h} : /\ DOMAIN P(s) = GteFields /\ P(s).flag = L(s).flag
                        /\ P(s).sxy = GtePush(L(s).sxy, point) /\ P(s).sz = GtePush(L(s).sz, z)
                        /\ \A f \in GteFields \ {"sxy", "sz"} : P(s)[f] = L(s)[f]
  <2>1. ASSUME NEW l, DOMAIN l = GteFields
        PROVE  /\ DOMAIN Q(l) = GteFields /\ Q(l).flag = l.flag
               /\ Q(l).sxy = GtePush(l.sxy, point) /\ Q(l).sz = GtePush(l.sz, z)
               /\ \A f \in GteFields \ {"sxy", "sz"} : Q(l)[f] = l[f]
    BY <2>1 DEF GteFields
  <2>2. DOMAIN L(g) = GteFields /\ DOMAIN L(h) = GteFields
    BY <1>9 DEF GteFrom
  <2>3. P(g) = Q(L(g)) /\ P(h) = Q(L(h))
    BY <1>10
  <2> HIDE DEF Q
  <2> QED  BY <2>1, <2>2, <2>3
<1>12. P(g).flag = F \cup P(h).flag
  BY <1>9, <1>11 DEF GteTogether
<1>13. \A s \in {g, h} : GteVertexPushed(s, P(s), point, z)
  BY <1>9, <1>11 DEF GteVertexPushed, GteSees, GteFrom, GteHeld, GteFields
<1> QED  BY <1>1, <1>2, <1>12, <1>13

-----------------------------------------------------------------------------
(* Whole queues.                                                           *)

\* No register is lost and every queue keeps its length.
GteWhole(g) ==
  DOMAIN g = GteFields /\ \A q \in DOMAIN GteLengths : GteQueue(g[q], GteLengths[q])

LEMMA GteLengthsAre ==
  /\ DOMAIN GteLengths = {"sxy", "sz", "rgb"} /\ DOMAIN GteLengths \subseteq GteHeld
  /\ GteLengths["sxy"] = 3 /\ GteLengths["sz"] = 4 /\ GteLengths["rgb"] = 3
BY DEF GteLengths, GteHeld, GteFields

LEMMA GteWholeIs ==
  ASSUME NEW g
  PROVE  GteWhole(g) <=> /\ DOMAIN g = GteFields
                         /\ GteQueue(g.sxy, 3) /\ GteQueue(g.sz, 4) /\ GteQueue(g.rgb, 3)
BY GteLengthsAre DEF GteWhole

LEMMA GteFromWhole ==
  ASSUME NEW g, NEW h, GteWhole(g), GteFrom(g, h)
  PROVE  GteWhole(h)
BY GteLengthsAre DEF GteWhole, GteFrom

LEMMA GteColourPushed ==
  ASSUME NEW g, DOMAIN g = GteFields
  PROVE  LET a == GtePushColour(g)
             c == [i \in 1..3 |-> GteClamp(g.mac[i] \div GtePart, 0, GteColours - 1)]
         IN  /\ DOMAIN a = GteFields /\ a.rgb = GtePush(g.rgb, c)
             /\ \A f \in GteFields \ {"rgb", "flag"} : a[f] = g[f]
<1> DEFINE c == [i \in 1..3 |-> GteClamp(g.mac[i] \div GtePart, 0, GteColours - 1)]
           over == {<<"colour", i>> : i \in {j \in 1..3 : GteOutside(g.mac[j] \div GtePart, 0, GteColours - 1)}}
<1>1. GtePushColour(g) = [g EXCEPT !.rgb = GtePush(@, c), !.flag = @ \cup over]
  BY DEF GtePushColour
<1> HIDE DEF c, over
<1>2. LET a == GtePushColour(g)
      IN  /\ DOMAIN a = GteFields /\ a.rgb = GtePush(g.rgb, c)
          /\ \A f \in GteFields \ {"rgb", "flag"} : a[f] = g[f]
  BY <1>1 DEF GteFields
<1> QED  BY <1>2 DEF c

LEMMA GteColourWhole ==
  ASSUME NEW g, GteWhole(g)
  PROVE  GteWhole(GtePushColour(g))
<1> DEFINE c == [i \in 1..3 |-> GteClamp(g.mac[i] \div GtePart, 0, GteColours - 1)]
           a == GtePushColour(g)
<1>1. /\ DOMAIN a = GteFields /\ a.rgb = GtePush(g.rgb, c)
      /\ a.sxy = g.sxy /\ a.sz = g.sz
  BY GteColourPushed, GteWholeIs DEF GteFields
<1> HIDE DEF a, c
<1>2. GteWhole(a)
  BY <1>1, GteWholeIs, GtePushed
<1> QED  BY <1>2 DEF a

LEMMA GteBothWhole ==
  ASSUME NEW g, GteWhole(g), NEW x, NEW sf, NEW lm
  PROVE  GteWhole(GteSetBoth(g, x, sf, lm))
<1>1. DOMAIN g = GteFields
  BY GteWholeIs
<1> QED  BY <1>1, GteOneBothSet, GteFromWhole

LEMMA GteIrWhole ==
  ASSUME NEW g, GteWhole(g), NEW x, NEW lm
  PROVE  GteWhole(GteSetIr(g, x, lm))
BY GteWholeIs, GteIrSet, GteFromWhole

LEMMA GteMacWhole ==
  ASSUME NEW g, GteWhole(g), NEW x
  PROVE  GteWhole(GteSetMac(g, x)) /\ GteWhole(GteSetMac0(g, x))
BY GteWholeIs, GteMacSet, GteMac0Set, GteFromWhole

LEMMA GteCueWhole ==
  ASSUME NEW g, GteWhole(g), NEW sf, NEW lm
  PROVE  GteWhole(GteCue(g, sf, lm))
<1> DEFINE diff == GteShifts([i \in 1..3 |-> g.fc[i] * GteOne - g.mac[i]], sf)
           way  == GteLimits(diff, -GteIr)
           x    == [i \in 1..3 |-> way[i] * g.ir0 + g.mac[i]]
           more == GteLimited(diff, -GteIr)
           a    == [g EXCEPT !.flag = @ \cup more]
<1>1. GteCue(g, sf, lm) = GteSetBoth(a, x, sf, lm)
  BY DEF GteCue
<1> HIDE DEF more, x
<1>2. GteFrom(g, a)
  BY GteWholeIs DEF GteFrom, GteFields, GteHeld
<1> HIDE DEF a
<1> QED  BY <1>1, <1>2, GteFromWhole, GteBothWhole

LEMMA GteProjectWhole ==
  ASSUME NEW g, GteWhole(g), NEW k, NEW sf, NEW lm, NEW last
  PROVE  GteWhole(GteProject(g, k, sf, lm, last))
<1> DEFINE a == GteProject(g, k, sf, lm, last)
<1>1. GteTogether(g, g, {}) /\ GteSees(g, g)
  BY GteWholeIs DEF GteTogether, GteSees
<1>2. PICK point, z : GteVertexPushed(g, a, point, z)
  BY <1>1, GteProjectAlone
<1>3. /\ DOMAIN a = GteFields /\ a.rgb = g.rgb
      /\ a.sxy = GtePush(g.sxy, point) /\ a.sz = GtePush(g.sz, z)
  BY <1>2 DEF GteVertexPushed
<1> HIDE DEF a
<1>4. GteWhole(a)
  BY <1>3, GteWholeIs, GtePushed
<1> QED  BY <1>4 DEF a

LEMMA GteAverageWhole ==
  ASSUME NEW g, GteWhole(g), NEW scale, NEW sum
  PROVE  GteWhole(GteAverage(g, scale, sum))
<1> DEFINE raw == (scale * sum) \div GteOne
           a   == GteSetMac0(g, scale * sum)
           mean == GteClamp(raw, 0, GteDepths - 1)
           wide == GteOutside(raw, 0, GteDepths - 1)
           b   == [a EXCEPT !.otz = mean]
<1>1. GteAverage(g, scale, sum) = GteRaise(b, wide, <<"sz", 3>>)
  BY DEF GteAverage
<1>2. GteWhole(a)
  BY GteMacWhole
<1> HIDE DEF a, mean, wide
<1>3. DOMAIN b = GteFields /\ b.sxy = a.sxy /\ b.sz = a.sz /\ b.rgb = a.rgb
  BY <1>2, GteWholeIs DEF GteFields
<1> HIDE DEF b
<1>4. GteWhole(b)
  BY <1>2, <1>3, GteWholeIs
<1> QED  BY <1>1, <1>3, <1>4, GteRaised, GteFromWhole

LEMMA GteLightWhole ==
  ASSUME NEW g, GteWhole(g), NEW sf, NEW lm
  PROVE  GteWhole(GteLight(g, sf, lm)) /\ GteWhole(GteTint(g))
BY GteBothWhole, GteMacWhole DEF GteLight, GteTint

LEMMA GteNormalWhole ==
  ASSUME NEW g, GteWhole(g), NEW k, NEW fn, NEW sf, NEW lm
  PROVE  GteWhole(GteNormal(g, k, fn, sf, lm))
<1> DEFINE a == GteSetBoth(g, GteProduct(g.l, g.v[k], <<0, 0, 0>>), sf, lm)
           b == GteLight(a, sf, lm)
           c == IF fn \in {"NCS", "NCT"} THEN b ELSE GteTint(b)
           d == IF fn \in {"NCDS", "NCDT"} THEN GteCue(c, sf, lm) ELSE c
<1>1. GteNormal(g, k, fn, sf, lm) = GtePushColour(d)
  BY DEF GteNormal
<1>2. GteWhole(a)
  BY GteBothWhole
<1> HIDE DEF a
<1>3. GteWhole(b)
  BY <1>2, GteLightWhole
<1> HIDE DEF b
<1>4. GteWhole(c)
  BY <1>3, GteLightWhole
<1> HIDE DEF c
<1>5. GteWhole(d)
  BY <1>4, GteCueWhole
<1> QED  BY <1>1, <1>5, GteColourWhole

LEMMA GteColoursWhole ==
  ASSUME NEW g, GteWhole(g), NEW fn, NEW sf, NEW lm
  PROVE  GteWhole(GteColour(g, fn, sf, lm)) /\ GteWhole(GteScale(g, fn, sf, lm))
<1>1. GteWhole(GteColour(g, fn, sf, lm))
  <2> DEFINE a == GteTint(GteLight(g, sf, lm))
             b == IF fn = "CDP" THEN GteCue(a, sf, lm) ELSE GteSetIr(a, GteShifts(a.mac, sf), lm)
  <2>1. GteColour(g, fn, sf, lm) = GtePushColour(b)
    BY DEF GteColour
  <2>2. GteWhole(a)
    BY GteLightWhole
  <2> HIDE DEF a
  <2>3. GteWhole(b)
    BY <2>2, GteCueWhole, GteIrWhole
  <2> QED  BY <2>1, <2>3, GteColourWhole
<1>2. GteWhole(GteScale(g, fn, sf, lm))
  <2> DEFINE x == GteShifts([i \in 1..3 |-> IF fn = "SQR" THEN g.ir[i] * g.ir[i]
                                           ELSE GteMixed(g, fn, i, sf)], sf)
             a == GteSetIr(GteSetMac(g, x), x, lm)
  <2>1. GteScale(g, fn, sf, lm) = IF fn = "SQR" THEN a ELSE GtePushColour(a)
    BY DEF GteScale
  <2> HIDE DEF x
  <2>2. GteWhole(a)
    BY GteIrWhole, GteMacWhole
  <2> QED  BY <2>1, <2>2, GteColourWhole
<1> QED  BY <1>1, <1>2

LEMMA GteBlendWhole ==
  ASSUME NEW g, GteWhole(g), NEW fn, NEW k, NEW sf, NEW lm
  PROVE  GteWhole(GteBlend(g, fn, k, sf, lm))
<1> DEFINE a == [g EXCEPT !.mac = GteSource(g, fn, k)]
<1>1. GteFrom(g, a)
  BY GteWholeIs DEF GteFrom, GteFields, GteHeld
<1>2. GteBlend(g, fn, k, sf, lm) = GtePushColour(GteCue(a, sf, lm))
  BY DEF GteBlend
<1> HIDE DEF a
<1> QED  BY <1>1, <1>2, GteFromWhole, GteCueWhole, GteColourWhole

LEMMA GteRunWhole ==
  ASSUME NEW g0, GteWhole(g0), NEW fn, NEW sf, NEW lm, NEW mx, NEW v, NEW cv
  PROVE  GteWhole(GteRun(g0, fn, sf, lm, mx, v, cv))
<1> DEFINE g == [g0 EXCEPT !.flag = {}]
           a == GteRun(g0, fn, sf, lm, mx, v, cv)
<1>1. GteWhole(g)
  <2>1. GteFrom(g0, g)
    BY GteWholeIs DEF GteFrom, GteFields, GteHeld
  <2> QED  BY <2>1, GteFromWhole
<1> DEFINE p == GteProject(GteProject(GteProject(g, 1, sf, lm, 1 = 3), 2, sf, lm, 2 = 3), 3, sf, lm, 3 = 3)
           n == GteNormal(GteNormal(GteNormal(g, 1, fn, sf, lm), 2, fn, sf, lm), 3, fn, sf, lm)
           b == GteBlend(GteBlend(GteBlend(g, fn, 1, sf, lm), fn, 2, sf, lm), fn, 3, sf, lm)
<1>2. a \in {GteProject(g, 1, sf, lm, TRUE), p, GteClip(g),
            GteAverage(g, g.zsf3, g.sz[2] + g.sz[3] + g.sz[4]),
            GteAverage(g, g.zsf4, g.sz[1] + g.sz[2] + g.sz[3] + g.sz[4]),
            GteTransform(g, mx, v, cv, sf, lm), GteScale(g, fn, sf, lm), GteOuter(g, sf, lm),
            GteNormal(g, 1, fn, sf, lm), n, GteColour(g, fn, sf, lm), b,
            GteBlend(g, fn, 1, sf, lm), g}
  <2> HIDE DEF g
  <2>1. a = CASE fn = "RTPS" -> GteProject(g, 1, sf, lm, TRUE)
              [] fn = "RTPT" -> p
              [] fn = "NCLIP" -> GteClip(g)
              [] fn = "AVSZ3" -> GteAverage(g, g.zsf3, g.sz[2] + g.sz[3] + g.sz[4])
              [] fn = "AVSZ4" -> GteAverage(g, g.zsf4, g.sz[1] + g.sz[2] + g.sz[3] + g.sz[4])
              [] fn = "MVMVA" -> GteTransform(g, mx, v, cv, sf, lm)
              [] fn \in {"SQR", "GPF", "GPL"} -> GteScale(g, fn, sf, lm)
              [] fn = "OP" -> GteOuter(g, sf, lm)
              [] fn \in GteSingle -> GteNormal(g, 1, fn, sf, lm)
              [] fn \in GteTriple -> n
              [] fn \in {"CC", "CDP"} -> GteColour(g, fn, sf, lm)
              [] fn = "DPCT" -> b
              [] fn \in {"DPCS", "DCPL", "INTPL"} -> GteBlend(g, fn, 1, sf, lm)
              [] OTHER -> g
    BY DEF GteRun, g
  <2> HIDE DEF a, p, n, b
  <2> QED  BY <2>1
<1> HIDE DEF g, a
<1>3. GteWhole(GteClip(g)) /\ GteWhole(GteTransform(g, mx, v, cv, sf, lm)) /\ GteWhole(GteOuter(g, sf, lm))
  <2>1. GteWhole(GteClip(g))
    BY <1>1, GteMacWhole DEF GteClip
  <2>2. GteWhole(GteTransform(g, mx, v, cv, sf, lm))
    BY <1>1, GteBothWhole DEF GteTransform
  <2>3. GteWhole(GteOuter(g, sf, lm))
    BY <1>1, GteMacWhole, GteIrWhole DEF GteOuter
  <2> QED  BY <2>1, <2>2, <2>3
<1>4. GteWhole(a)
  <2>1. GteWhole(p) /\ GteWhole(GteProject(g, 1, sf, lm, TRUE))
    BY <1>1, GteProjectWhole
  <2>2. GteWhole(n) /\ GteWhole(GteNormal(g, 1, fn, sf, lm))
    BY <1>1, GteNormalWhole
  <2>3. GteWhole(b) /\ GteWhole(GteBlend(g, fn, 1, sf, lm))
    BY <1>1, GteBlendWhole
  <2>4. GteWhole(GteColour(g, fn, sf, lm)) /\ GteWhole(GteScale(g, fn, sf, lm))
    BY <1>1, GteColoursWhole
  <2>5. /\ GteWhole(GteAverage(g, g.zsf3, g.sz[2] + g.sz[3] + g.sz[4]))
        /\ GteWhole(GteAverage(g, g.zsf4, g.sz[1] + g.sz[2] + g.sz[3] + g.sz[4]))
    BY <1>1, GteAverageWhole
  <2> HIDE DEF p, n, b
  <2> QED  BY <1>1, <1>2, <1>3, <2>1, <2>2, <2>3, <2>4, <2>5
<1> QED  BY <1>4 DEF a

-----------------------------------------------------------------------------
(* The triple commands.                                                    *)

\* What a blend pushes depends on its source, the far colour and IR0.
GteMixes(g, h) == g.fc = h.fc /\ g.ir0 = h.ir0

LEMMA GteCueAlone ==
  ASSUME NEW g, NEW h, DOMAIN g = GteFields, DOMAIN h = GteFields, GteMixes(g, h), g.mac = h.mac,
         NEW sf, NEW lm
  PROVE  LET a == GteCue(g, sf, lm)
             b == GteCue(h, sf, lm)
         IN  a.mac = b.mac /\ GteFrom(g, a) /\ GteFrom(h, b) /\ a.ir0 = g.ir0
<1> DEFINE diff == GteShifts([i \in 1..3 |-> h.fc[i] * GteOne - h.mac[i]], sf)
           way  == GteLimits(diff, -GteIr)
           x    == [i \in 1..3 |-> way[i] * h.ir0 + h.mac[i]]
           more == GteLimited(diff, -GteIr)
           ga   == [g EXCEPT !.flag = @ \cup more]
           ha   == [h EXCEPT !.flag = @ \cup more]
<1>1. GteCue(h, sf, lm) = GteSetBoth(ha, x, sf, lm)
  BY DEF GteCue
<1>2. GteCue(g, sf, lm) = GteSetBoth(ga, x, sf, lm)
  BY DEF GteCue, GteMixes
<1> HIDE DEF x, more
<1>3. GteFrom(g, ga) /\ GteFrom(h, ha) /\ ga.ir0 = g.ir0
  BY DEF GteFrom, GteFields, GteHeld
<1>4. DOMAIN ga = GteFields /\ DOMAIN ha = GteFields
  BY <1>3 DEF GteFrom
<1> DEFINE m == GteStored(x)
<1> HIDE DEF ga, ha
<1>5. /\ GteFrom(ga, GteSetBoth(ga, x, sf, lm)) /\ GteSetBoth(ga, x, sf, lm).mac = m
      /\ GteSetBoth(ga, x, sf, lm).ir0 = ga.ir0
  BY <1>4, GteOneBothSet
<1>6. /\ GteFrom(ha, GteSetBoth(ha, x, sf, lm)) /\ GteSetBoth(ha, x, sf, lm).mac = m
  BY <1>4, GteOneBothSet
<1> HIDE DEF m
<1> QED  BY <1>1, <1>2, <1>3, <1>5, <1>6, GteFromChain

LEMMA GteBlendAlone ==
  ASSUME NEW g, NEW h, DOMAIN g = GteFields, DOMAIN h = GteFields, GteMixes(g, h),
         NEW fn, NEW fm, NEW k, NEW l, GteSource(g, fn, k) = GteSource(h, fm, l), NEW sf, NEW lm
  PROVE  LET a == GteBlend(g, fn, k, sf, lm)
             b == GteBlend(h, fm, l, sf, lm)
         IN  /\ DOMAIN a = GteFields /\ GteMixes(a, g)
             /\ \E c : a.rgb = GtePush(g.rgb, c) /\ b.rgb = GtePush(h.rgb, c)
<1> DEFINE x  == GteSource(h, fm, l)
           ga == [g EXCEPT !.mac = x]
           ha == [h EXCEPT !.mac = x]
           gc == GteCue(ga, sf, lm)
           hc == GteCue(ha, sf, lm)
           a  == GtePushColour(gc)
           b  == GtePushColour(hc)
           c  == [i \in 1..3 |-> GteClamp(gc.mac[i] \div GtePart, 0, GteColours - 1)]
<1>1. GteBlend(g, fn, k, sf, lm) = a /\ GteBlend(h, fm, l, sf, lm) = b
  BY DEF GteBlend
<1> HIDE DEF x
<1>2. /\ GteFrom(g, ga) /\ GteFrom(h, ha) /\ ga.ir0 = g.ir0 /\ ha.ir0 = h.ir0
      /\ ga.mac = x /\ ha.mac = x
  BY DEF GteFrom, GteFields, GteHeld
<1> HIDE DEF ga, ha
<1>3. /\ DOMAIN ga = GteFields /\ DOMAIN ha = GteFields
      /\ GteMixes(ga, ha) /\ GteMixes(ga, g) /\ ga.rgb = g.rgb /\ ha.rgb = h.rgb
  BY <1>2 DEF GteFrom, GteMixes, GteFields, GteHeld
<1>4. gc.mac = hc.mac /\ GteFrom(ga, gc) /\ GteFrom(ha, hc) /\ gc.ir0 = ga.ir0
  BY <1>2, <1>3, GteCueAlone
<1> HIDE DEF gc, hc
<1>5. /\ DOMAIN gc = GteFields /\ DOMAIN hc = GteFields
      /\ GteMixes(gc, g) /\ gc.rgb = g.rgb /\ hc.rgb = h.rgb
  BY <1>3, <1>4 DEF GteFrom, GteMixes, GteFields, GteHeld
<1>6. /\ DOMAIN a = GteFields /\ a.rgb = GtePush(gc.rgb, c)
      /\ a.fc = gc.fc /\ a.ir0 = gc.ir0
  BY <1>5, GteColourPushed DEF GteFields
<1>7. b.rgb = GtePush(hc.rgb, c)
  BY <1>4, <1>5, GteColourPushed
<1> HIDE DEF a, b, c
<1>8. DOMAIN a = GteFields /\ GteMixes(a, g) /\ a.rgb = GtePush(g.rgb, c) /\ b.rgb = GtePush(h.rgb, c)
  BY <1>5, <1>6, <1>7 DEF GteMixes
<1> QED  BY <1>1, <1>8

LEMMA GteThreePushed ==
  ASSUME NEW q, GteQueue(q, 3), NEW x, NEW y, NEW z
  PROVE  /\ GtePush(GtePush(GtePush(q, x), y), z) = [k \in 1..3 |-> CASE k = 1 -> x [] k = 2 -> y [] k = 3 -> z]
         /\ GtePush(q, x)[1] = q[2] /\ GtePush(q, x)[3] = x
         /\ GtePush(GtePush(q, x), y)[1] = q[3]
<1> DEFINE r == GtePush(q, x)
           s == GtePush(r, y)
           t == GtePush(s, z)
<1>1. GteQueue(r, 3) /\ \A i \in 1..3 : r[i] = IF i = 3 THEN x ELSE q[i + 1]
  BY GtePushed
<1> HIDE DEF r
<1>2. GteQueue(s, 3) /\ \A i \in 1..3 : s[i] = IF i = 3 THEN y ELSE r[i + 1]
  BY <1>1, GtePushed
<1> HIDE DEF s
<1>3. GteQueue(t, 3) /\ \A i \in 1..3 : t[i] = IF i = 3 THEN z ELSE s[i + 1]
  BY <1>2, GtePushed
<1> HIDE DEF t
<1>4. r[1] = q[2] /\ r[3] = x /\ s[1] = q[3]
  BY <1>1, <1>2
<1>5. \A k \in 1..3 : t[k] = CASE k = 1 -> x [] k = 2 -> y [] k = 3 -> z
  BY <1>1, <1>2, <1>3
<1>6. t = [k \in 1..3 |-> CASE k = 1 -> x [] k = 2 -> y [] k = 3 -> z]
  BY <1>3, <1>5 DEF GteQueue
<1> QED  BY <1>4, <1>6 DEF r, s, t

\* The registers keep their shape, whatever the guest writes and executes.
GteIInv == GteWhole(g_gte)

LEMMA GteStepIInv ==
  ASSUME GteAssumption, GteIInv, [GteNext]_gte_vars
  PROVE  GteIInv'
<1>1. CASE GteExecute
  <2>1. PICK fn, sf, lm, op : g_gte' = GteRun(g_gte, fn, sf, lm, op[1], op[2], op[3])
    BY <1>1 DEF GteExecute
  <2> QED  BY <2>1, GteRunWhole DEF GteIInv
<1>2. CASE GteWrite
  <2>1. CASE \E reg \in DOMAIN GteWrites : \E x \in GteWrites[reg] : g_gte' = [g_gte EXCEPT ![reg] = x]
    <3>1. PICK reg \in DOMAIN GteWrites : \E x \in GteWrites[reg] : g_gte' = [g_gte EXCEPT ![reg] = x]
      BY <2>1
    <3>2. PICK x \in GteWrites[reg] : g_gte' = [g_gte EXCEPT ![reg] = x]
      BY <3>1
    <3>3. reg \in GteFields /\ (reg \in DOMAIN GteLengths => GteQueue(x, GteLengths[reg]))
      BY DEF GteAssumption
    <3>4. DOMAIN g_gte = GteFields /\ \A q \in DOMAIN GteLengths : GteQueue(g_gte[q], GteLengths[q])
      BY DEF GteIInv, GteWhole
    <3>5. DOMAIN g_gte' = GteFields
      BY <3>2, <3>4
    <3>6. ASSUME NEW q \in DOMAIN GteLengths  PROVE GteQueue(g_gte'[q], GteLengths[q])
      <4>1. q \in GteFields
        BY GteLengthsAre DEF GteHeld
      <4>2. g_gte'[q] = IF q = reg THEN x ELSE g_gte[q]
        BY <3>2, <3>4, <4>1
      <4> QED  BY <3>3, <3>4, <4>2
    <3> QED  BY <3>5, <3>6 DEF GteIInv, GteWhole
  <2>2. CASE \E at \in GteScreenWrites : g_gte' = [g_gte EXCEPT !.sxy = GtePush(@, at)]
    <3>1. PICK at : g_gte' = [g_gte EXCEPT !.sxy = GtePush(@, at)]
      BY <2>2
    <3>2. DOMAIN g_gte = GteFields /\ GteQueue(g_gte.sxy, 3) /\ GteQueue(g_gte.sz, 4) /\ GteQueue(g_gte.rgb, 3)
      BY GteWholeIs DEF GteIInv
    <3>3. /\ DOMAIN g_gte' = GteFields /\ g_gte'.sxy = GtePush(g_gte.sxy, at)
          /\ g_gte'.sz = g_gte.sz /\ g_gte'.rgb = g_gte.rgb
      BY <3>1, <3>2 DEF GteFields
    <3>4. GteQueue(g_gte'.sxy, 3)
      BY <3>2, <3>3, GtePushed
    <3> QED  BY <3>2, <3>3, <3>4, GteWholeIs DEF GteIInv
  <2>3. CASE \E c \in GteColourWrites : g_gte' = [g_gte EXCEPT !.ir = [i \in 1..3 |-> c[i] * GteFifth]]
    <3>1. PICK ir : g_gte' = [g_gte EXCEPT !.ir = ir]
      BY <2>3
    <3>2. DOMAIN g_gte = GteFields
      BY GteWholeIs DEF GteIInv
    <3>3. GteFrom(g_gte, g_gte')
      BY <3>1, <3>2 DEF GteFrom, GteFields, GteHeld
    <3> QED  BY <3>3, GteFromWhole DEF GteIInv
  <2> QED  BY <1>2, <2>1, <2>2, <2>3 DEF GteWrite
<1>3. CASE UNCHANGED gte_vars
  BY <1>3 DEF gte_vars, GteIInv
<1> QED  BY <1>1, <1>2, <1>3 DEF GteNext

\* a is what the three projections, each for itself, make of the registers.
GteOfThree(a, sf, lm) ==
  LET alone(k) == GteProject([g_gte EXCEPT !.flag = {}], k, sf, lm, k = 3)
  IN  /\ a.sxy = [k \in 1..3 |-> alone(k).sxy[3]]
      /\ a.sz = [k \in 1..4 |-> IF k = 1 THEN g_gte.sz[4] ELSE alone(k - 1).sz[4]]
      /\ a.flag = UNION {alone(k).flag : k \in 1..3}

LEMMA GteProjectsThree ==
  ASSUME GteIInv, NEW sf, NEW lm
  PROVE  GteOfThree(GteRun(g_gte, "RTPT", sf, lm, 0, 0, 0), sf, lm)
<1> DEFINE g == [g_gte EXCEPT !.flag = {}]
           alone(k) == GteProject(g, k, sf, lm, k = 3)
           x == alone(1)
           y == GteProject(x, 2, sf, lm, 2 = 3)
           z == GteProject(y, 3, sf, lm, 3 = 3)
<1>1. GteRun(g_gte, "RTPT", sf, lm, 0, 0, 0) = z
  BY DEF GteRun, GteSingle, GteTriple
<1>2. GteWhole(g) /\ g.flag = {} /\ g.sz = g_gte.sz
  <2>1. GteFrom(g_gte, g) /\ g.flag = {} /\ g.sz = g_gte.sz
    BY GteWholeIs DEF GteFrom, GteFields, GteHeld, GteIInv
  <2> QED  BY <2>1, GteFromWhole DEF GteIInv
<1> HIDE DEF g
<1>3. DOMAIN g = GteFields /\ GteQueue(g.sxy, 3) /\ GteQueue(g.sz, 4)
  BY <1>2, GteWholeIs
<1>4. x.flag = {} \cup x.flag /\ \E point, depth : GteVertexPushed(g, x, point, depth)
  <2>1. GteTogether(g, g, {}) /\ GteSees(g, g)
    BY <1>3 DEF GteTogether, GteSees
  <2> QED  BY <2>1, GteProjectAlone
<1>5. PICK p1, d1 : GteVertexPushed(g, x, p1, d1)
  BY <1>4
<1> HIDE DEF x
<1>6. GteTogether(x, g, x.flag) /\ GteSees(x, g)
  BY <1>2, <1>3, <1>5 DEF GteTogether, GteVertexPushed
<1>7. y.flag = x.flag \cup alone(2).flag
      /\ \E point, depth : GteVertexPushed(x, y, point, depth) /\ GteVertexPushed(g, alone(2), point, depth)
  BY <1>6, GteProjectAlone
<1>8. PICK p2, d2 : GteVertexPushed(x, y, p2, d2) /\ GteVertexPushed(g, alone(2), p2, d2)
  BY <1>7
<1> HIDE DEF y
<1>9. GteTogether(y, g, y.flag) /\ GteSees(y, g)
  BY <1>2, <1>3, <1>6, <1>8 DEF GteTogether, GteVertexPushed, GteSees
<1>10. z.flag = y.flag \cup alone(3).flag
       /\ \E point, depth : GteVertexPushed(y, z, point, depth) /\ GteVertexPushed(g, alone(3), point, depth)
  BY <1>9, GteProjectAlone
<1>11. PICK p3, d3 : GteVertexPushed(y, z, p3, d3) /\ GteVertexPushed(g, alone(3), p3, d3)
  BY <1>10
<1> HIDE DEF z
<1>12. GteVertexPushed(g, alone(1), p1, d1)
  BY <1>5 DEF x
<1> HIDE DEF alone
<1>13. /\ x.sxy = GtePush(g.sxy, p1) /\ y.sxy = GtePush(x.sxy, p2) /\ z.sxy = GtePush(y.sxy, p3)
       /\ x.sz = GtePush(g.sz, d1) /\ y.sz = GtePush(x.sz, d2) /\ z.sz = GtePush(y.sz, d3)
       /\ alone(1).sxy = GtePush(g.sxy, p1) /\ alone(1).sz = GtePush(g.sz, d1)
       /\ alone(2).sxy = GtePush(g.sxy, p2) /\ alone(2).sz = GtePush(g.sz, d2)
       /\ alone(3).sxy = GtePush(g.sxy, p3) /\ alone(3).sz = GtePush(g.sz, d3)
  BY <1>5, <1>8, <1>11, <1>12 DEF GteVertexPushed
<1>14. z.sxy = [k \in 1..3 |-> alone(k).sxy[3]]
  <2>1. alone(1).sxy[3] = p1 /\ alone(2).sxy[3] = p2 /\ alone(3).sxy[3] = p3
    BY <1>3, <1>13, GteThreePushed
  <2>2. z.sxy = [k \in 1..3 |-> CASE k = 1 -> p1 [] k = 2 -> p2 [] k = 3 -> p3]
    BY <1>3, <1>13, GteThreePushed
  <2> QED  BY <2>1, <2>2
<1>15. z.sz = [k \in 1..4 |-> IF k = 1 THEN g.sz[4] ELSE alone(k - 1).sz[4]]
  <2>1. alone(1).sz[4] = d1 /\ alone(2).sz[4] = d2 /\ alone(3).sz[4] = d3
    BY <1>3, <1>13, GtePushed
  <2>2. GteQueue(x.sz, 4) /\ x.sz[2] = g.sz[3] /\ x.sz[3] = g.sz[4] /\ x.sz[4] = d1
    BY <1>3, <1>13, GtePushed
  <2>3. GteQueue(y.sz, 4) /\ y.sz[2] = x.sz[3] /\ y.sz[3] = x.sz[4] /\ y.sz[4] = d2
    BY <1>13, <2>2, GtePushed
  <2>4. GteQueue(z.sz, 4) /\ z.sz[1] = y.sz[2] /\ z.sz[2] = y.sz[3] /\ z.sz[3] = y.sz[4] /\ z.sz[4] = d3
    BY <1>13, <2>3, GtePushed
  <2>5. \A k \in 1..4 : z.sz[k] = IF k = 1 THEN g.sz[4] ELSE alone(k - 1).sz[4]
    BY <2>1, <2>2, <2>3, <2>4
  <2> QED  BY <2>4, <2>5 DEF GteQueue
<1>16. z.flag = UNION {alone(k).flag : k \in 1..3}
  <2>1. z.flag = alone(1).flag \cup alone(2).flag \cup alone(3).flag
    BY <1>7, <1>10 DEF x, alone
  <2> QED  BY <2>1
<1>17. LET a == GteRun(g_gte, "RTPT", sf, lm, 0, 0, 0)
       IN  /\ a.sxy = [k \in 1..3 |-> alone(k).sxy[3]]
           /\ a.sz = [k \in 1..4 |-> IF k = 1 THEN g_gte.sz[4] ELSE alone(k - 1).sz[4]]
           /\ a.flag = UNION {alone(k).flag : k \in 1..3}
  BY <1>1, <1>2, <1>14, <1>15, <1>16
<1> QED  BY <1>17 DEF alone, g, GteOfThree

LEMMA GteBlendsThree ==
  ASSUME GteIInv, NEW sf, NEW lm, NEW k \in 1..3
  PROVE  GteRun(g_gte, "DPCT", sf, lm, 0, 0, 0).rgb[k] =
           GteRun([g_gte EXCEPT !.rgbc = g_gte.rgb[k]], "DPCS", sf, lm, 0, 0, 0).rgb[3]
<1> DEFINE g == [g_gte EXCEPT !.flag = {}]
           h(i) == [[g_gte EXCEPT !.rgbc = g_gte.rgb[i]] EXCEPT !.flag = {}]
           alone(i) == GteBlend(h(i), "DPCS", 1, sf, lm)
           x == GteBlend(g, "DPCT", 1, sf, lm)
           y == GteBlend(x, "DPCT", 2, sf, lm)
           z == GteBlend(y, "DPCT", 3, sf, lm)
<1>1. GteRun(g_gte, "DPCT", sf, lm, 0, 0, 0) = z
  BY DEF GteRun, GteSingle, GteTriple
<1>2. \A i \in 1..3 : GteRun([g_gte EXCEPT !.rgbc = g_gte.rgb[i]], "DPCS", sf, lm, 0, 0, 0) = alone(i)
  BY DEF GteRun, GteSingle, GteTriple
<1>3. DOMAIN g_gte = GteFields /\ GteQueue(g_gte.rgb, 3)
  BY GteWholeIs DEF GteIInv
<1>4. DOMAIN g = GteFields /\ g.rgb = g_gte.rgb /\ g.fc = g_gte.fc /\ g.ir0 = g_gte.ir0
  BY <1>3 DEF GteFields
<1>5. \A i \in 1..3 : /\ DOMAIN h(i) = GteFields /\ GteMixes(h(i), g_gte)
                     /\ h(i).rgb = g_gte.rgb /\ h(i).rgbc = g_gte.rgb[i]
  BY <1>3 DEF GteFields, GteMixes
<1> HIDE DEF g, h
\* A round reads the oldest colour, and takes it out.
<1>6. ASSUME NEW s, DOMAIN s = GteFields, GteMixes(s, g_gte), NEW i \in 1..3, s.rgb[1] = g_gte.rgb[i]
      PROVE  /\ DOMAIN GteBlend(s, "DPCT", i, sf, lm) = GteFields
             /\ GteMixes(GteBlend(s, "DPCT", i, sf, lm), g_gte)
             /\ \E c : /\ GteBlend(s, "DPCT", i, sf, lm).rgb = GtePush(s.rgb, c)
                      /\ alone(i).rgb = GtePush(g_gte.rgb, c)
  <2>1. GteSource(s, "DPCT", i) = GteSource(h(i), "DPCS", 1)
    <3>1. GteSource(s, "DPCT", i) = [j \in 1..3 |-> s.rgb[1][j] * GtePart * GteOne]
      BY DEF GteSource
    <3>2. GteSource(h(i), "DPCS", 1) = [j \in 1..3 |-> h(i).rgbc[j] * GtePart * GteOne]
      BY DEF GteSource
    <3>3. s.rgb[1] = h(i).rgbc
      BY <1>5, <1>6
    <3> QED  BY <3>1, <3>2, <3>3
  <2>2. DOMAIN h(i) = GteFields /\ GteMixes(s, h(i)) /\ h(i).rgb = g_gte.rgb
    BY <1>5, <1>6 DEF GteMixes
  <2>3. DOMAIN GteBlend(s, "DPCT", i, sf, lm) = GteFields /\ GteMixes(GteBlend(s, "DPCT", i, sf, lm), s)
        /\ \E c : /\ GteBlend(s, "DPCT", i, sf, lm).rgb = GtePush(s.rgb, c)
                 /\ alone(i).rgb = GtePush(h(i).rgb, c)
    BY <1>6, <2>1, <2>2, GteBlendAlone
  <2> QED  BY <1>6, <2>2, <2>3 DEF GteMixes
<1> HIDE DEF alone
<1>7. DOMAIN x = GteFields /\ GteMixes(x, g_gte)
      /\ \E c : x.rgb = GtePush(g_gte.rgb, c) /\ alone(1).rgb = GtePush(g_gte.rgb, c)
  <2>1. GteMixes(g, g_gte) /\ g.rgb[1] = g_gte.rgb[1]
    BY <1>4 DEF GteMixes
  <2> QED  BY <1>4, <1>6, <2>1
<1>8. PICK c1 : x.rgb = GtePush(g_gte.rgb, c1) /\ alone(1).rgb = GtePush(g_gte.rgb, c1)
  BY <1>7
<1> HIDE DEF x
<1>9. DOMAIN y = GteFields /\ GteMixes(y, g_gte)
      /\ \E c : y.rgb = GtePush(x.rgb, c) /\ alone(2).rgb = GtePush(g_gte.rgb, c)
  <2>1. x.rgb[1] = g_gte.rgb[2]
    BY <1>3, <1>8, GteThreePushed
  <2> QED  BY <1>6, <1>7, <2>1
<1>10. PICK c2 : y.rgb = GtePush(x.rgb, c2) /\ alone(2).rgb = GtePush(g_gte.rgb, c2)
  BY <1>9
<1> HIDE DEF y
<1>11. \E c : z.rgb = GtePush(y.rgb, c) /\ alone(3).rgb = GtePush(g_gte.rgb, c)
  <2>1. y.rgb[1] = g_gte.rgb[3]
    BY <1>3, <1>8, <1>10, GteThreePushed
  <2> QED  BY <1>6, <1>9, <2>1
<1>12. PICK c3 : z.rgb = GtePush(y.rgb, c3) /\ alone(3).rgb = GtePush(g_gte.rgb, c3)
  BY <1>11
<1> HIDE DEF z
<1>13. alone(1).rgb[3] = c1 /\ alone(2).rgb[3] = c2 /\ alone(3).rgb[3] = c3
  BY <1>3, <1>8, <1>10, <1>12, GteThreePushed
<1>14. z.rgb = [i \in 1..3 |-> CASE i = 1 -> c1 [] i = 2 -> c2 [] i = 3 -> c3]
  BY <1>3, <1>8, <1>10, <1>12, GteThreePushed
<1>15. z.rgb[k] = alone(k).rgb[3]
  BY <1>13, <1>14
<1> QED  BY <1>1, <1>2, <1>15

LEMMA GteInvariant == ASSUME GteAssumption PROVE GteSpec => []GteIInv
<1>1. GteInit => GteIInv
  <2> SUFFICES ASSUME GteInit PROVE GteIInv
    OBVIOUS
  <2>1. DOMAIN g_gte = GteFields
    BY DEF GteInit, GteFields
  <2>2. GteQueue(g_gte.sxy, 3) /\ GteQueue(g_gte.sz, 4) /\ GteQueue(g_gte.rgb, 3)
    BY DEF GteInit, GteQueue
  <2> QED  BY <2>1, <2>2, GteWholeIs DEF GteIInv
<1>2. GteIInv /\ [GteNext]_gte_vars => GteIInv'
  BY GteStepIInv
<1> QED  BY <1>1, <1>2, PTL DEF GteSpec

(* A triple command is the single one three times, in order, although each *)
(* round works on the registers the rounds before it have changed: RTPT    *)
(* projects the three vertices from the guest's registers and forgets none *)
(* of their flags; DPCT takes each colour out of the queue it fills        *)
(* (hle_gte_execute).                                                      *)
THEOREM TriplesAreSingles == ASSUME GteAssumption PROVE GteSpec => GteTriples
<1>1. ASSUME GteIInv, [GteNext]_gte_vars, gte_last' # gte_last
      PROVE  /\ gte_last'.fn = "RTPT" => GteOfThree(g_gte', gte_last'.sf, gte_last'.lm)
             /\ gte_last'.fn = "DPCT" =>
                  \A k \in 1..3 :
                    g_gte'.rgb[k] = GteRun([g_gte EXCEPT !.rgbc = g_gte.rgb[k]], "DPCS",
                                           gte_last'.sf, gte_last'.lm, 0, 0, 0).rgb[3]
  <2>1. GteExecute
    BY <1>1 DEF GteNext, GteWrite, gte_vars
  <2>2. PICK fn \in GteCommands, sf \in BOOLEAN, lm \in BOOLEAN :
          \E op \in IF fn = "MVMVA" THEN GteOperands ELSE {<<0, 0, 0>>} :
            /\ g_gte' = GteRun(g_gte, fn, sf, lm, op[1], op[2], op[3])
            /\ gte_last' = [turns |-> gte_last.turns + 1, fn |-> fn, sf |-> sf, lm |-> lm]
    BY <2>1 DEF GteExecute
  <2>3. gte_last'.fn = fn /\ gte_last'.sf = sf /\ gte_last'.lm = lm
    BY <2>2
  <2>4. fn # "MVMVA" => g_gte' = GteRun(g_gte, fn, sf, lm, 0, 0, 0)
    BY <2>2
  <2>5. CASE fn = "RTPT"
    <3>1. g_gte' = GteRun(g_gte, "RTPT", sf, lm, 0, 0, 0)
      BY <2>4, <2>5
    <3> QED  BY <1>1, <2>3, <2>5, <3>1, GteProjectsThree
  <2>6. CASE fn = "DPCT"
    <3>1. g_gte' = GteRun(g_gte, "DPCT", sf, lm, 0, 0, 0)
      BY <2>4, <2>6
    <3> QED  BY <1>1, <2>3, <2>6, <3>1, GteBlendsThree
  <2> QED  BY <2>3, <2>5, <2>6
<1>2. GteIInv /\ [GteNext]_gte_vars =>
        [gte_last' # gte_last =>
           /\ gte_last'.fn = "RTPT" => GteOfThree(g_gte', gte_last'.sf, gte_last'.lm)
           /\ gte_last'.fn = "DPCT" =>
                \A k \in 1..3 :
                  g_gte'.rgb[k] = GteRun([g_gte EXCEPT !.rgbc = g_gte.rgb[k]], "DPCS",
                                         gte_last'.sf, gte_last'.lm, 0, 0, 0).rgb[3]]_gte_vars
  BY <1>1
<1> QED  BY <1>2, GteInvariant, PTL DEF GteSpec, GteTriples, GteOfThree
================================================================================
