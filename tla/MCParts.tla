------------------------------ MODULE MCParts -------------------------------
(***************************************************************************)
(* The parts of the runtime that share no state with each other, checked   *)
(* in one run: the devices of the console, the frames of the anchor,  *)
(* the doors through which a run starts again, the recompiled program with *)
(* its interpreter.  The run chooses a part at the start, drives it        *)
(* through its whole interface and leaves the others as they come out of   *)
(* reset.                                                                  *)
(***************************************************************************)
EXTENDS Mdec, Gpu, Spu, Gte, Dma, AnchorGuard, ShellRestart, GuestRun, TLC

CONSTANT Subjects            \* the parts that this run drives

VARIABLE part                \* the one that it drives

-----------------------------------------------------------------------------
(* Values of the constants.                                                *)

\* MDEC: a table takes its whole of words, a stream of pictures any.
MdecOut == (0 :> 1) @@ (3 :> 3)

\* GPU: two neighbouring pixels, on a screen of two by one.
GpuPair == {<<0, 0>>, <<1, 0>>}
GpuCorners == <<1, 2, 2>>

\* SPU: one shape of envelope that uses every phase, blocks that end the
\* voice.
Envelopes == {[attack  |-> [exp |-> TRUE, shift |-> 0, step |-> 7],
               decay   |-> [shift |-> 0, level |-> 15],
               sustain |-> [exp |-> TRUE, falls |-> TRUE, shift |-> 0, step |-> 0],
               release |-> [exp |-> TRUE, shift |-> 0]]}
EndBlocks == {[start |-> FALSE, end |-> TRUE, repeat |-> FALSE]}

\* GTE: one scene, and the operands of the general commands.
Identity == <<<<2, 0, 0>>, <<0, 2, 0>>, <<0, 0, 2>>>>
Turn     == <<<<0, 1, 0>>, <<2, 0, 1>>, <<0, 0, 2>>>>
Scene == ("v"   :> {<<<<1, 0, 5>>, <<3, -1, 1>>, <<-4, 2, 3>>>>}) @@
         ("rt"  :> {Turn}) @@ ("l" :> {Identity}) @@ ("lcm" :> {Turn}) @@
         ("h"   :> {2}) @@ ("fc" :> {<<1, -3, 6>>}) @@ ("ir0" :> {1}) @@
         ("rgb" :> {<<<<0, 1, 2>>, <<1, 0, 3>>, <<2, 2, 1>>>>})
Operands == {<<0, 0, 0>>, <<1, 3, 1>>, <<2, 1, 2>>, <<3, 2, 3>>}
Points   == {<<1, 2>>}
Packed   == {<<0, 1, 3>>}

\* DMA: the interrupt of channel 2.
Dicrs == {[master |-> TRUE, enabled |-> {2}, flags |-> {}, any |-> FALSE]}

\* The recompiled program: a kernel function from 1, one in the image's data
\* at 9 with branches into it and out of it, and the module at 13, as it was
\* translated (Module) or another one.
W(op, to) == [op |-> op, to |-> to]
Plain == W("plain", 0)
Save  == W("save", 0)
Load  == W("load", 0)
Ret   == W("jr", 0)
SetX(v) == W("set", v)

Kernels ==
  {a \o b \o c \o d \o e \o <<Ret, Plain>> :
     a \in {<<Save, SetX(0)>>, <<Save, SetX(9)>>, <<Save, SetX(13)>>,
            <<W("trap", 0), SetX(0)>>},
     b \in ({W("jalrx", 0), W("jal", 9), W("beq", 9), W("beq", 11), W("beq", 7),
             W("j", 11)} \X {Plain, SetX(0)}) \cup ({W("jalrx", 0)} \X {SetX(13)}),
     c \in {<<Load, Plain>>, <<W("beq", 1), Load>>, <<W("beq", 11), Load>>},
     d \in {<<Ret, Plain>>, <<W("jrx", 0), Plain>>},
     e \in {<<Plain, SetX(9)>>, <<W("beq", 3), SetX(9)>>, <<W("beq", 7), Plain>>,
            <<W("beq", 5), SetX(13)>>}}

Module == <<Save, W("jal", 9), Plain, Load, Ret, Plain>>

Modules ==
  {Module,
   <<Plain, W("j", 17), SetX(0), Plain, Ret, Plain>>,
   <<SetX(0), W("beq", 17), Plain, SetX(9), Ret, Plain>>,
   <<Plain, W("jal", 17), Plain, Load, Ret, Plain>>,
   <<Save, W("jalrx", 0), SetX(9), Load, Ret, Plain>>,
   <<SetX(9), W("bad", 0), Plain, Plain, Ret, Plain>>,
   <<SetX(9), W("jrx", 0), Plain, Plain, Ret, Plain>>}

Slotted(code) ==
  \A a \in DOMAIN code : code[a].op \in Cpu!CpuSlotted =>
    a < Len(code) /\ code[a + 1].op \in Cpu!CpuPlain

Builds ==
  {b \in {[code |-> k \o Module, live |-> k \o m] : k \in Kernels, m \in Modules} :
     Slotted(b.code) /\ Slotted(b.live)}
AnyBuild == CHOOSE b \in Builds : TRUE
Window == 13..18

(* What a guest leaves behind when it goes wrong: a request in flight and  *)
(* a phase committed; tainted cells; and a fault under VSync.  A budget    *)
(* leaves a life to a few of the doors.                                    *)
SaneCells ==
  [c \in RsCells \ {"key", "mirror"} |->
     IF c \in {"callback", "pick", "walk"} THEN "image" ELSE "live"]
Tainted == [c \in RsCells \ {"key", "mirror", "module", "wait", "callback"} |-> "taint"]
Scenes ==
  {[cells |-> [SaneCells EXCEPT !.pick = "asked", !.callback = "live"], vsync |-> FALSE],
   [cells |-> Tainted, vsync |-> FALSE],
   [cells |-> [SaneCells EXCEPT !.walk = "asked"], vsync |-> TRUE]}
OpenDoors ==
  {{"relay", "loop"}, {"again", "kit"}, {"nested", "unknown"}, {"signal", "abrt"},
   {"restart", "bypass"}, {"convert", "canary"}, {"handler", "poison"}, {"reforce"}}
Budgets == {[d \in RsDoors |-> IF d \in D THEN 1 ELSE 0] : D \in OpenDoors}

-----------------------------------------------------------------------------
mc_vars == <<part, mdec_vars, gpu_vars, spu_vars, gte_vars, dma_vars, vars, rs_vars,
             gr_vars>>

Chosen(name) == part = name /\ UNCHANGED part

MCInit ==
  /\ part \in Subjects
  /\ MdecInit /\ GpuInit /\ SpuInit /\ GteInit /\ DmaInit /\ Init /\ RsInit
  /\ part # "restart" => rs_caps["kit"] = 1
  /\ IF part = "guest" THEN GrInit ELSE GrInitOf(AnyBuild)

DriveMdec ==
  /\ Chosen("mdec") /\ MdecNext
  /\ UNCHANGED <<gpu_vars, spu_vars, gte_vars, dma_vars, vars, rs_vars, gr_vars>>

DriveGpu ==
  /\ Chosen("gpu") /\ GpuNext
  /\ UNCHANGED <<mdec_vars, spu_vars, gte_vars, dma_vars, vars, rs_vars, gr_vars>>

DriveSpu ==
  /\ Chosen("spu") /\ SpuNext
  /\ UNCHANGED <<mdec_vars, gpu_vars, gte_vars, dma_vars, vars, rs_vars, gr_vars>>

DriveGte ==
  /\ Chosen("gte") /\ GteNext
  /\ UNCHANGED <<mdec_vars, gpu_vars, spu_vars, dma_vars, vars, rs_vars, gr_vars>>

DriveDma ==
  /\ Chosen("dma") /\ DmaNext
  /\ UNCHANGED <<mdec_vars, gpu_vars, spu_vars, gte_vars, vars, rs_vars, gr_vars>>

DriveAnchor ==
  /\ Chosen("anchor") /\ Next
  /\ UNCHANGED <<mdec_vars, gpu_vars, spu_vars, gte_vars, dma_vars, rs_vars, gr_vars>>

DriveRestart ==
  /\ Chosen("restart") /\ RsNext
  /\ UNCHANGED <<mdec_vars, gpu_vars, spu_vars, gte_vars, dma_vars, vars, gr_vars>>

DriveGuest ==
  /\ Chosen("guest") /\ GrNext
  /\ UNCHANGED <<mdec_vars, gpu_vars, spu_vars, gte_vars, dma_vars, vars, rs_vars>>

MCNext ==
  \/ DriveMdec \/ DriveGpu \/ DriveSpu \/ DriveGte \/ DriveDma \/ DriveAnchor
  \/ DriveRestart \/ DriveGuest

MCSpec == MCInit /\ [][MCNext]_mc_vars

(* Type correctness of the part driven; the others are as they came out.   *)
PartsTypeOK ==
  CASE part = "mdec" -> MdecTypeOK [] part = "gpu" -> GpuTypeOK
    [] part = "spu" -> SpuTypeOK [] part = "gte" -> GteTypeOK
    [] part = "dma" -> DmaTypeOK
    [] part = "restart" -> RsTypeOK [] part = "guest" -> GrTypeOK
    [] part = "anchor" -> TRUE

\* R898 (runtime.c:32483-32485): guest handlers are never dispatched from
\* another thread while the anchor is inside a guest step.
WatcherStaysOut == visitor # "trespassing"
=============================================================================
