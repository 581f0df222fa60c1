-------------------------------- MODULE Spu ---------------------------------
(***************************************************************************)
(* The sound unit (source/hle/hle_spu.c): voices that step through blocks  *)
(* of coded samples in sound memory at their own pitch, led by the flags   *)
(* in the blocks, each under an envelope with its real arithmetic; and the *)
(* upload channel that fills sound memory (io_special_write,               *)
(* source/runtime/runtime.c).                                              *)
(*                                                                         *)
(* A block is its three flags; its samples are left out, and pcm_block is  *)
(* the address of the block last decoded.  Addresses count blocks.  The    *)
(* address of the first decode after a reset, when nothing has been        *)
(* decoded, is -1.  Volumes, mixing and interpolation are left out.        *)
(***************************************************************************)
EXTENDS Integers, FiniteSets

CONSTANTS
  SpuVoices,        \* the voices
  SpuBlocks,        \* blocks of sound memory, 0x8000
  SpuSamples,       \* samples of a block, 28
  SpuUnit,          \* the pitch of one sample a tick, 0x1000
  SpuPitches,       \* the pitches the guest sets
  SpuFlags,         \* the block flags it uploads
  SpuStarts,        \* the start and repeat addresses it sets
  SpuEnvelopes,     \* the envelope settings it uses
  SpuLevels,        \* the levels it writes to the envelope itself
  SpuChunks         \* the sizes of its uploads, in blocks

VARIABLES
  g_spu,            \* the voices' state
  spu_ram,          \* sound memory
  spu_endx,         \* endx_flags
  spu_transfer,     \* transfer_addr
  spu_wr_pos        \* where the runtime puts the next upload

spu_vars == <<g_spu, spu_ram, spu_endx, spu_transfer, spu_wr_pos>>

SpuTop == 32767                 \* 0x7FFF

\* What the envelope registers can say.
SpuSettings ==
  [attack : [exp : BOOLEAN, shift : 0..31, step : 4..7],
   decay : [shift : 0..15, level : 0..15],
   sustain : [exp : BOOLEAN, falls : BOOLEAN, shift : 0..31, step : 0..3],
   release : [exp : BOOLEAN, shift : 0..31]]

ASSUME SpuAssumption ==
  /\ SpuBlocks \in Nat \ {0} /\ SpuSamples \in Nat \ {0} /\ SpuUnit \in Nat \ {0}
  /\ SpuPitches \subseteq Nat
  /\ SpuFlags \subseteq [start : BOOLEAN, end : BOOLEAN, repeat : BOOLEAN]
  /\ SpuStarts \subseteq 0..(SpuBlocks - 1)
  /\ SpuEnvelopes \subseteq SpuSettings
  /\ SpuLevels \subseteq 0..SpuTop
  /\ SpuChunks \subseteq Nat \ {0}

-----------------------------------------------------------------------------
(* The envelope, spu_voice_adsr_tick.                                      *)

SpuMin(a, b) == IF a < b THEN a ELSE b

\* The samples between two steps, and the size of a step.
SpuCycles(shift) == 2^(IF shift > 11 THEN shift - 11 ELSE 0)
SpuScale(shift) == 2^(IF shift < 11 THEN 11 - shift ELSE 0)

\* An exponential step is in proportion to the level, and never nothing.
SpuExp(step, level) ==
  LET scaled == (step * level) \div 32768
  IN IF scaled >= 0 THEN -1 ELSE scaled

SpuPhases == {"off", "attack", "decay", "sustain", "release"}

SpuSteps(v) ==
  LET e == v.adsr
      slow(exp) == IF exp /\ v.level > 24576 THEN 4 ELSE 1
  IN CASE v.phase = "attack" -> SpuCycles(e.attack.shift) * slow(e.attack.exp)
       [] v.phase = "decay" -> SpuCycles(e.decay.shift)
       [] v.phase = "sustain" ->
            SpuCycles(e.sustain.shift) * slow(e.sustain.exp /\ ~e.sustain.falls)
       [] OTHER -> SpuCycles(e.release.shift)

SpuStepped(v) ==
  LET e == v.adsr
      up == v.level + e.attack.step * SpuScale(e.attack.shift)
      floor == SpuMin((e.decay.level + 1) * 2048, SpuTop)
      down == v.level + SpuExp(-8 * SpuScale(e.decay.shift), v.level)
      rise == v.level + (7 - e.sustain.step) * SpuScale(e.sustain.shift)
      fall == (e.sustain.step - 8) * SpuScale(e.sustain.shift)
      sink == v.level + IF e.sustain.exp THEN SpuExp(fall, v.level) ELSE fall
      fade == -8 * SpuScale(e.release.shift)
      last == v.level + IF e.release.exp THEN SpuExp(fade, v.level) ELSE fade
  IN CASE v.phase = "attack" ->
            IF up >= SpuTop THEN [v EXCEPT !.level = SpuTop, !.phase = "decay"]
            ELSE [v EXCEPT !.level = up]
       [] v.phase = "decay" ->
            IF down <= floor THEN [v EXCEPT !.level = floor, !.phase = "sustain"]
            ELSE [v EXCEPT !.level = down]
       [] v.phase = "sustain" /\ ~e.sustain.falls ->
            [v EXCEPT !.level = SpuMin(rise, SpuTop)]
       [] v.phase = "sustain" /\ e.sustain.falls ->
            [v EXCEPT !.level = IF sink <= 0 THEN 0 ELSE sink]
       [] OTHER ->
            IF last <= 0
            THEN [v EXCEPT !.level = 0, !.phase = "off", !.is_on = FALSE]
            ELSE [v EXCEPT !.level = last]

SpuTick(v) ==
  IF v.cycle + 1 >= SpuSteps(v) THEN SpuStepped([v EXCEPT !.cycle = 0])
  ELSE [v EXCEPT !.cycle = @ + 1]

-----------------------------------------------------------------------------
(* The blocks, hle_spu_generate.                                           *)

\* The end of a block: the flags at the current address decide what is
\* decoded next.  A block that ends without repeating mutes the voice.
SpuBoundary(v) ==
  LET flags == spu_ram[v.current]
      repeat == IF flags.start THEN v.current ELSE v.repeat
      next == IF flags.end THEN repeat ELSE (v.current + 1) % SpuBlocks
      mute == flags.end /\ ~flags.repeat
  IN [v EXCEPT !.repeat = repeat, !.current = next, !.pcm_block = next,
               !.sample = 0, !.end_hit = @ \/ flags.end,
               !.phase = IF mute THEN "release" ELSE @,
               !.level = IF mute THEN 0 ELSE @]

\* One sample on.  The second field tells whether an end was passed.
SpuOneOn(s) ==
  LET on == [s.voice EXCEPT !.sample = @ + 1]
  IN IF on.sample >= SpuSamples
     THEN [voice |-> SpuBoundary(on),
           ended |-> s.ended \/ spu_ram[on.current].end]
     ELSE [s EXCEPT !.voice = on]

\* As many samples on as the pitch passes in one tick.
SpuAdvance(v) ==
  LET total == v.counter + IF v.pitch = 0 THEN SpuUnit ELSE v.pitch
      walk[n \in 0..(total \div SpuUnit)] ==
        IF n = 0 THEN [voice |-> [v EXCEPT !.counter = total % SpuUnit],
                       ended |-> FALSE]
        ELSE SpuOneOn(walk[n - 1])
  IN walk[total \div SpuUnit]

\* One sample of every voice.  A voice that is released and silent goes off
\* before it takes a step.
SpuPlayed(v) ==
  LET t == SpuTick(v)
  IN IF ~v.is_on \/ v.phase = "off" THEN [voice |-> v, ended |-> FALSE]
     ELSE IF t.level = 0 /\ t.phase = "release"
     THEN [voice |-> [t EXCEPT !.is_on = FALSE, !.phase = "off"], ended |-> FALSE]
     ELSE SpuAdvance(t)

SpuGenerate ==
  /\ g_spu' = [i \in SpuVoices |-> SpuPlayed(g_spu[i]).voice]
  /\ spu_endx' = spu_endx \cup {i \in SpuVoices : SpuPlayed(g_spu[i]).ended}
  /\ UNCHANGED <<spu_ram, spu_transfer, spu_wr_pos>>

-----------------------------------------------------------------------------
(* The registers, hle_spu_port_write.                                      *)

\* Mutant of SpuKeyOn: the report of the last end is left.
SpuKeyOnReported(i) ==
  /\ g_spu' = [g_spu EXCEPT ![i] =
       [@ EXCEPT !.current = g_spu[i].start, !.counter = 0, !.sample = SpuSamples,
                 !.phase = "attack", !.level = 0, !.cycle = 0,
                 !.is_on = TRUE, !.end_hit = FALSE]]
  /\ UNCHANGED <<spu_ram, spu_endx, spu_transfer, spu_wr_pos>>

\* spu_voice_key_on
SpuKeyOn(i) ==
  /\ g_spu' = [g_spu EXCEPT ![i] =
       [@ EXCEPT !.current = g_spu[i].start, !.counter = 0, !.sample = SpuSamples,
                 !.phase = "attack", !.level = 0, !.cycle = 0,
                 !.is_on = TRUE, !.end_hit = FALSE]]
  /\ spu_endx' = spu_endx \ {i}
  /\ UNCHANGED <<spu_ram, spu_transfer, spu_wr_pos>>

\* spu_voice_key_off
SpuKeyOff(i) ==
  /\ g_spu[i].is_on
  /\ g_spu' = [g_spu EXCEPT ![i].phase = "release", ![i].cycle = 0]
  /\ UNCHANGED <<spu_ram, spu_endx, spu_transfer, spu_wr_pos>>

SpuSetVoice(i) ==
  /\ \/ \E pitch \in SpuPitches : g_spu' = [g_spu EXCEPT ![i].pitch = pitch]
     \/ \E at \in SpuStarts : g_spu' = [g_spu EXCEPT ![i].start = at]
     \/ \E at \in SpuStarts : g_spu' = [g_spu EXCEPT ![i].repeat = at]
     \/ \E e \in SpuEnvelopes : g_spu' = [g_spu EXCEPT ![i].adsr = e]
     \/ \E level \in SpuLevels : g_spu' = [g_spu EXCEPT ![i].level = level]
  /\ UNCHANGED <<spu_ram, spu_endx, spu_transfer, spu_wr_pos>>

SpuAcknowledge ==
  /\ \E ends \in SUBSET SpuVoices : spu_endx' = spu_endx \ ends
  /\ UNCHANGED <<g_spu, spu_ram, spu_transfer, spu_wr_pos>>

SpuSetTransfer ==
  /\ \E at \in SpuStarts : spu_transfer' = at
  /\ UNCHANGED <<g_spu, spu_ram, spu_endx, spu_wr_pos>>

\* DMA channel 4: the chunk goes where the runtime's own position stands,
\* from the beginning again when it does not fit, and leaves the transfer
\* address behind it.
SpuUpload ==
  /\ \E size \in SpuChunks, flags \in SpuFlags :
       LET at == IF spu_wr_pos + size > SpuBlocks THEN 0 ELSE spu_wr_pos
           Chunk == {(at + n) % SpuBlocks : n \in 0..(size - 1)}
       IN /\ spu_ram' = [b \in DOMAIN spu_ram |->
                           IF b \in Chunk THEN flags ELSE spu_ram[b]]
          /\ spu_transfer' = (at + size) % SpuBlocks
          /\ spu_wr_pos' = at + size
  /\ UNCHANGED <<g_spu, spu_endx>>

-----------------------------------------------------------------------------
\* hle_spu_reset: the first block of memory is a silent loop.
SpuQuiet == [start |-> TRUE, end |-> TRUE, repeat |-> TRUE]
SpuBlank == [start |-> FALSE, end |-> FALSE, repeat |-> FALSE]

SpuInit ==
  /\ g_spu = [i \in SpuVoices |->
       [is_on |-> FALSE, phase |-> "off", level |-> 0, cycle |-> 0,
        adsr |-> [attack |-> [exp |-> FALSE, shift |-> 0, step |-> 7],
                  decay |-> [shift |-> 0, level |-> 0],
                  sustain |-> [exp |-> FALSE, falls |-> FALSE, shift |-> 0, step |-> 0],
                  release |-> [exp |-> FALSE, shift |-> 0]],
        pitch |-> SpuUnit, counter |-> 0, sample |-> 0, pcm_block |-> -1,
        start |-> 0, repeat |-> 0, current |-> 0, end_hit |-> FALSE]]
  /\ spu_ram = [b \in 0..(SpuBlocks - 1) |-> IF b = 0 THEN SpuQuiet ELSE SpuBlank]
  /\ spu_endx = {} /\ spu_transfer = 0 /\ spu_wr_pos = 0

SpuNext ==
  \/ SpuGenerate
  \/ \E i \in SpuVoices : SpuKeyOn(i) \/ SpuKeyOff(i) \/ SpuSetVoice(i)
  \/ SpuAcknowledge \/ SpuSetTransfer \/ SpuUpload

SpuSpec == SpuInit /\ [][SpuNext]_spu_vars

-----------------------------------------------------------------------------
(* Type correctness.  Every level is in the range the mixer multiplies     *)
(* with, after any sequence of steps under any envelope.                   *)
SpuTypeOK ==
  /\ \A i \in SpuVoices :
       /\ g_spu[i].phase \in SpuPhases
       /\ g_spu[i].level \in 0..SpuTop
       /\ g_spu[i].counter \in 0..(SpuUnit - 1)
       /\ g_spu[i].sample \in 0..SpuSamples
       /\ g_spu[i].current \in DOMAIN spu_ram
       /\ g_spu[i].pcm_block \in DOMAIN spu_ram \cup {-1}
  /\ spu_endx \subseteq SpuVoices
  /\ spu_wr_pos \in Nat

(* A voice whose end is reported has passed the end of a block since it    *)
(* was last keyed on: the report is of this note and not of the one before.*)
SpuEndReported == \A i \in spu_endx : g_spu[i].end_hit
=============================================================================
