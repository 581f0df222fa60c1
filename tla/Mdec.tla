-------------------------------- MODULE Mdec --------------------------------
(***************************************************************************)
(* The movie decoder (source/hle/hle_mdec.c): a command register that      *)
(* takes a command word and then as many parameter words as the command    *)
(* declares, an input buffer of halfwords, the block decoder that runs     *)
(* when the last parameter word of a decode command arrives, an output     *)
(* queue, and the two DMA channels that feed and drain it                  *)
(* (source/runtime/runtime.c, io_special_write).                           *)
(*                                                                         *)
(* A halfword of the coded stream is its run, the number of coefficients   *)
(* it skips, or the padding code 0xFE00; levels, pixels and the transform  *)
(* are left out, so an output word is only counted.  A word of a table     *)
(* load is the name of the table the guest is loading.  in_read_pos lives  *)
(* only inside a decode.  The field declared is a ghost: the number of     *)
(* parameter words the active command asked for.                           *)
(***************************************************************************)
EXTENDS Integers, Sequences, FiniteSets

CONSTANTS
  MdecMaxWords,     \* the largest count a decode command declares, 0xFFFF
  MdecInHalfs,      \* MDEC_IN_HALFS
  MdecOutWords,     \* MDEC_OUT_WORDS
  MdecLastCoef,     \* the last coefficient of a block, 63
  MdecLuma,         \* luminance blocks of a colour macroblock, 4
  MdecTableWords,   \* words of one quantisation table, 16
  MdecWordsOut,     \* output words of a macroblock, by output depth
  MdecDeclares,     \* the counts the guest's decode commands declare
  MdecHalfs,        \* the halfwords of the coded streams the guest sends
  MdecTables,       \* the tables the guest loads
  MdecPad,          \* the halfword 0xFE00
  MdecDefault,      \* the content of a default table
  MdecMaxDma        \* bound: words of one DMA transfer

VARIABLES
  g_mdec,           \* the decoder's state
  mdec_dma          \* words the running DMA0 transfer still has to deliver

mdec_vars == <<g_mdec, mdec_dma>>

ASSUME MdecAssumption ==
  /\ MdecMaxWords \in Nat \ {0} /\ MdecInHalfs = 2 * (MdecMaxWords + 1)
  /\ MdecOutWords \in Nat /\ MdecLastCoef \in Nat /\ MdecLuma \in Nat
  /\ MdecTableWords \in Nat \ {0}
  /\ DOMAIN MdecWordsOut \subseteq 0..3 /\ 3 \in DOMAIN MdecWordsOut
  /\ \A depth \in DOMAIN MdecWordsOut : MdecWordsOut[depth] \in Nat
  /\ MdecDeclares \subseteq 0..MdecMaxWords
  /\ MdecPad \in MdecHalfs /\ MdecHalfs \ {MdecPad} \subseteq Nat
  /\ MdecMaxDma \in Nat

-----------------------------------------------------------------------------
(* The coded stream.  A position is the number of halfwords consumed.      *)

\* The padding code skips as many coefficients as a block has.
MdecRun(half) == IF half = MdecPad THEN MdecLastCoef ELSE half

\* The end of the block whose first halfword is in[first]: it runs until a
\* run leaves the block, or to the end of the input.
MdecBlockEnd(in, first) ==
  LET coef[i \in first..Len(in)] ==
        IF i = first THEN 0 ELSE coef[i - 1] + MdecRun(in[i]) + 1
      Ends == {i \in first..Len(in) : coef[i] > MdecLastCoef}
  IN IF Ends = {} THEN Len(in) ELSE CHOOSE i \in Ends : \A j \in Ends : i <= j

\* Mutant of MdecBlock: padding before a block is not skipped.
MdecBlockAtPadding(in, pos) ==
  IF pos >= Len(in) THEN -1 ELSE MdecBlockEnd(in, pos + 1)

\* rl_decode_block: padding before a block is skipped; the position after
\* the block, -1 when the input has none.
MdecBlock(in, pos) ==
  LET Starts == {i \in (pos + 1)..Len(in) : in[i] # MdecPad}
  IN IF Starts = {} THEN -1
     ELSE MdecBlockEnd(in, CHOOSE i \in Starts : \A j \in Starts : i <= j)

\* The blocks of a macroblock, as current_block names them.
MdecOrder(depth) ==
  IF depth <= 1 THEN <<4>> ELSE <<4, 5>> \o [i \in 1..MdecLuma |-> i - 1]

\* One turn of the decode loop: the position after the macroblock, -1 and
\* the block it stopped at when a block was missing.
MdecMacroblock(in, pos, depth) ==
  LET order == MdecOrder(depth)
      after[i \in 0..Len(order)] ==
        IF i = 0 THEN pos
        ELSE IF after[i - 1] = -1 THEN -1 ELSE MdecBlock(in, after[i - 1])
      tried == {i \in 1..Len(order) : after[i - 1] # -1}
  IN [pos |-> after[Len(order)], block |-> order[Cardinality(tried)]]

\* mdec_process_decode from pos, with out words in the output queue and
\* block in current_block.  A macroblock takes at least one halfword, so
\* the loop turns at most once for each.
MdecDecode(in, depth, block0) ==
  LET turn[i \in 0..Len(in)] ==
        IF i = 0 THEN [pos |-> 0, out |-> 0, block |-> block0]
        ELSE LET s == turn[i - 1]
                 mb == MdecMacroblock(in, s.pos, depth)
             IN IF s.pos = -1 \/ s.pos >= Len(in) THEN s
                ELSE IF mb.pos = -1
                     THEN [s EXCEPT !.pos = -1, !.block = mb.block]
                     ELSE [pos |-> mb.pos, block |-> mb.block,
                           out |-> IF s.out + MdecWordsOut[depth] > MdecOutWords
                                   THEN MdecOutWords
                                   ELSE s.out + MdecWordsOut[depth]]
  IN turn[Len(in)]

-----------------------------------------------------------------------------
MdecWhole(table) == [i \in 1..MdecTableWords |-> table]

\* hle_mdec_reset
MdecResetState ==
  [current_cmd |-> 0, output_depth |-> 3,
   remaining_words |-> MdecMaxWords, param_words |-> 0, declared |-> 0,
   data_in_enable |-> FALSE, data_out_enable |-> FALSE,
   busy |-> FALSE, current_block |-> 0,
   iq_y |-> MdecWhole(MdecDefault), iq_uv |-> MdecWhole(MdecDefault),
   scale_table |-> MdecWhole(MdecDefault) \o MdecWhole(MdecDefault),
   loading |-> MdecDefault,
   in_buf |-> << >>, out_count |-> 0, out_read_pos |-> 0]

MdecInit == g_mdec = MdecResetState /\ mdec_dma = 0

-----------------------------------------------------------------------------
(* A word of the command register, while no command is active.             *)

\* Mutant of MdecFresh: the previous input stays in the buffer.
MdecStale(cmd, depth) ==
  [g_mdec EXCEPT !.current_cmd = cmd, !.output_depth = depth, !.param_words = 0]

\* Every command forgets the previous input.
MdecFresh(cmd, depth) ==
  [g_mdec EXCEPT !.current_cmd = cmd, !.output_depth = depth,
                 !.param_words = 0, !.in_buf = << >>]

MdecDecodeCommand(depth, words) ==
  g_mdec' = [MdecFresh(1, depth) EXCEPT
               !.out_count = 0, !.out_read_pos = 0,
               !.remaining_words = words, !.declared = words,
               !.busy = words # 0]

MdecTableCommand(depth, table, colour) ==
  LET words == IF colour THEN 2 * MdecTableWords ELSE MdecTableWords
  IN g_mdec' = [MdecFresh(2, depth) EXCEPT
                  !.remaining_words = words, !.declared = words,
                  !.busy = TRUE, !.loading = table]

MdecScaleCommand(depth, table) ==
  g_mdec' = [MdecFresh(3, depth) EXCEPT
               !.remaining_words = 2 * MdecTableWords,
               !.declared = 2 * MdecTableWords,
               !.busy = TRUE, !.loading = table]

MdecNoCommand(depth) ==
  g_mdec' = [MdecFresh(0, depth) EXCEPT !.remaining_words = MdecMaxWords,
                                    !.busy = FALSE]

MdecCommand ==
  /\ ~g_mdec.busy
  /\ \E depth \in DOMAIN MdecWordsOut :
       \/ \E words \in MdecDeclares : MdecDecodeCommand(depth, words)
       \/ \E table \in MdecTables, colour \in BOOLEAN :
            MdecTableCommand(depth, table, colour)
       \/ \E table \in MdecTables : MdecScaleCommand(depth, table)
       \/ MdecNoCommand(depth)

-----------------------------------------------------------------------------
(* A word of the command register, while a command is active.              *)

\* Mutant of MdecStore: the first word of a table is skipped.
MdecStoreOffByOne(m, idx) ==
  IF m.current_cmd = 2 /\ idx + 1 < MdecTableWords
  THEN [m EXCEPT !.iq_y[idx + 2] = m.loading] ELSE m

\* Word idx, from 0, of a table load lands in the luminance table, then in
\* the colour table, then nowhere.
MdecStore(m, idx) ==
  IF m.current_cmd = 2 /\ idx < MdecTableWords
  THEN [m EXCEPT !.iq_y[idx + 1] = m.loading]
  ELSE IF m.current_cmd = 2 /\ idx < 2 * MdecTableWords
  THEN [m EXCEPT !.iq_uv[idx + 1 - MdecTableWords] = m.loading]
  ELSE IF m.current_cmd = 3 /\ idx < 2 * MdecTableWords
  THEN [m EXCEPT !.scale_table[idx + 1] = m.loading]
  ELSE m

\* A word of a coded stream is dropped when the input buffer is full.
MdecBuffer(m, lo, hi) ==
  IF m.current_cmd = 1 /\ Len(m.in_buf) + 1 < MdecInHalfs
  THEN [m EXCEPT !.in_buf = m.in_buf \o <<lo, hi>>]
  ELSE m

\* Mutant of MdecCount: parameters counted in halfwords.
MdecCountHalfs(m) ==
  IF m.remaining_words > 2
  THEN [m EXCEPT !.remaining_words = @ - 2]
  ELSE [m EXCEPT !.remaining_words = MdecMaxWords, !.busy = FALSE]

\* The last word of a command ends it, and starts the decode.
MdecCount(m) ==
  LET left == IF m.remaining_words > 0 THEN m.remaining_words - 1 ELSE 0
      done == [m EXCEPT !.remaining_words = MdecMaxWords, !.busy = FALSE]
      result == MdecDecode(m.in_buf, m.output_depth, m.current_block)
  IN IF left > 0 THEN [m EXCEPT !.remaining_words = left]
     ELSE IF m.current_cmd = 1
     THEN [done EXCEPT !.out_count = result.out, !.current_block = result.block]
     ELSE done

MdecParameter ==
  /\ g_mdec.busy
  /\ \E lo, hi \in IF g_mdec.current_cmd = 1 THEN MdecHalfs ELSE {MdecPad} :
       g_mdec' = MdecCount(MdecBuffer(
                   MdecStore([g_mdec EXCEPT !.param_words = @ + 1],
                             g_mdec.param_words), lo, hi))

\* hle_mdec_port_write of 0x1F801820
MdecWord == MdecCommand \/ MdecParameter

-----------------------------------------------------------------------------
(* The guest's other accesses.  A DMA0 transfer writes its words one after *)
(* the other, and nothing else happens meanwhile.                          *)

MdecWriteWord == mdec_dma = 0 /\ MdecWord /\ UNCHANGED mdec_dma

\* hle_mdec_dma0_in
MdecDma0Start ==
  /\ mdec_dma = 0
  /\ \E words \in 1..MdecMaxDma : mdec_dma' = words
  /\ UNCHANGED g_mdec

MdecDma0Word ==
  /\ mdec_dma > 0 /\ mdec_dma' = mdec_dma - 1
  /\ MdecWord

\* hle_mdec_port_write of 0x1F801824
MdecControl ==
  /\ mdec_dma = 0
  /\ \/ g_mdec' = MdecResetState
     \/ \E in, out \in BOOLEAN :
          g_mdec' = [g_mdec EXCEPT !.data_in_enable = in, !.data_out_enable = out]
  /\ UNCHANGED mdec_dma

\* Mutant of MdecRead: an empty queue goes on being read.
MdecReadPast ==
  /\ mdec_dma = 0
  /\ \E words \in 1..MdecMaxDma :
       g_mdec' = [g_mdec EXCEPT !.out_read_pos = @ + words]
  /\ UNCHANGED mdec_dma

\* hle_mdec_port_read of 0x1F801820, and hle_mdec_dma1_out, which repeats it:
\* an empty queue reads as 0.
MdecRead ==
  /\ mdec_dma = 0
  /\ \E words \in 1..MdecMaxDma :
       g_mdec' = [g_mdec EXCEPT !.out_read_pos =
                    IF g_mdec.out_count - @ < words THEN g_mdec.out_count
                    ELSE @ + words]
  /\ UNCHANGED mdec_dma

MdecNext ==
  MdecWriteWord \/ MdecDma0Start \/ MdecDma0Word \/ MdecControl \/ MdecRead

MdecSpec == MdecInit /\ [][MdecNext]_mdec_vars

-----------------------------------------------------------------------------
(* Type correctness: the queues stay inside their arrays and the counters  *)
(* inside the register fields that show them.                              *)
MdecTypeOK ==
  /\ mdec_dma \in 0..MdecMaxDma
  /\ g_mdec \in
       [current_cmd : 0..3, output_depth : 0..3,
        remaining_words : Nat, param_words : Nat, declared : Nat,
        data_in_enable : BOOLEAN, data_out_enable : BOOLEAN,
        busy : BOOLEAN, current_block : Nat,
        iq_y : [1..MdecTableWords -> MdecTables \cup {MdecDefault}],
        iq_uv : [1..MdecTableWords -> MdecTables \cup {MdecDefault}],
        scale_table : [1..(2 * MdecTableWords) -> MdecTables \cup {MdecDefault}],
        loading : MdecTables \cup {MdecDefault},
        in_buf : Seq(MdecHalfs), out_count : Nat, out_read_pos : Nat]
  /\ Len(g_mdec.in_buf) <= MdecInHalfs
  /\ g_mdec.out_count <= MdecOutWords
  /\ g_mdec.out_read_pos <= g_mdec.out_count

(* While a command is active, the words received and the words the status  *)
(* register says remain make up what the command declared: the next word   *)
(* is taken as a command exactly when the guest has sent the whole of the  *)
(* last one (the defect R1571 repaired: counting in halfwords ended every  *)
(* command halfway and the rest of its data was parsed as commands).       *)
MdecFraming ==
  g_mdec.busy => /\ g_mdec.remaining_words > 0
                 /\ g_mdec.param_words + g_mdec.remaining_words = g_mdec.declared

(* No word of a coded stream is lost, however long the stream a command    *)
(* declares: the buffer takes two halfwords for each parameter word, and   *)
(* the branch that drops a word is never taken.                            *)
MdecKeepsEveryWord ==
  g_mdec.current_cmd = 1 => Len(g_mdec.in_buf) = 2 * g_mdec.param_words

(* Outside a table load every table is whole: all its words come from the  *)
(* same load, or from the defaults.  A reset in the middle of a load takes *)
(* back the words already stored.                                          *)
MdecTablesWhole ==
  ~g_mdec.busy =>
    /\ \A i, j \in 1..MdecTableWords : g_mdec.iq_y[i] = g_mdec.iq_y[j]
    /\ \A i, j \in 1..MdecTableWords : g_mdec.iq_uv[i] = g_mdec.iq_uv[j]
    /\ \A i, j \in 1..(2 * MdecTableWords) :
         g_mdec.scale_table[i] = g_mdec.scale_table[j]

-----------------------------------------------------------------------------
(* The number of blocks a reader of the stream format would find: one pass *)
(* over the halfwords, knowing only whether it is inside a block and how   *)
(* far.  A block cut off by the end of the input counts.                   *)
MdecReads(s, half) ==
  IF s.coef = -1
  THEN IF half = MdecPad THEN s ELSE [coef |-> 0, blocks |-> s.blocks + 1]
  ELSE LET coef == s.coef + MdecRun(half) + 1
       IN [coef |-> IF coef > MdecLastCoef THEN -1 ELSE coef, blocks |-> s.blocks]

MdecStreamBlocks(in) ==
  LET read[n \in 0..Len(in)] ==
        IF n = 0 THEN [coef |-> -1, blocks |-> 0] ELSE MdecReads(read[n - 1], in[n])
  IN  read[Len(in)].blocks

\* What the format promises: the words of every whole macroblock.
MdecStreamWords(in, depth) ==
  LET whole == MdecStreamBlocks(in) \div Len(MdecOrder(depth))
      words == whole * MdecWordsOut[depth]
  IN IF words > MdecOutWords THEN MdecOutWords ELSE words

(* What a finished decode leaves in the output queue is what the format    *)
(* promises for its input: the words of every whole macroblock, up to the  *)
(* size of the queue, and nothing for an incomplete one.                   *)
MdecOutputIsStream ==
  (g_mdec.current_cmd = 1 /\ ~g_mdec.busy) =>
    g_mdec.out_count = MdecStreamWords(g_mdec.in_buf, g_mdec.output_depth)

=============================================================================
