-------------------------------- MODULE Gpu ---------------------------------
(***************************************************************************)
(* The drawing port (source/hle/hle_gpu.c) and the capture machine that    *)
(* sees the same words first (gpu_gp0, source/runtime/runtime.c).  Every   *)
(* word the guest writes to GP0, itself or by DMA, is fed to both, and     *)
(* both write the one VRAM: the interpreter collects as many words as the  *)
(* first one calls for and executes them; the capture machine knows only   *)
(* image transfers and the drawing offset.                                 *)
(*                                                                         *)
(* A word is its top byte, which makes it a command when it is taken for   *)
(* one, and two fields, its halves: a position, a size, a corner, an       *)
(* offset or two pixels.  The top byte of a payload word is 0, but for the *)
(* colour of a shaded vertex, where it is padding and may be anything; of  *)
(* pixels nobody looks at it.  A colour is a small number; what a          *)
(* primitive paints is any part of the box around it inside the drawing    *)
(* area.  Textures, blending, the display registers and the status word    *)
(* are left out.                                                           *)
(*                                                                         *)
(* Two ghosts follow the guest.  gpu_todo is what the format of the        *)
(* command it is sending still calls for, by role; gpu_image the last      *)
(* image it uploaded, while nothing else has been drawn.                   *)
(***************************************************************************)
EXTENDS Integers, Sequences

CONSTANTS
  GpuWidth, GpuHeight,  \* VRAM, 1024 by 512
  GpuAlign,         \* a fill starts at a multiple of this column, 16
  GpuColours,       \* 0 and the colours the guest draws with
  GpuHeads,         \* the commands the guest sends
  GpuTops,          \* the top bytes of its colour words, which mean nothing
  GpuAborts,        \* whether it resets the port inside an image transfer
  GpuVertices,      \* the vertices and corners it sends, <<x, y>>
  GpuSizes,         \* the sizes it sends, 0 for all
  GpuOffsets,       \* the drawing offsets it sends
  GpuSide           \* the side of a fixed-size rectangle, by size code

VARIABLES
  g_vram,
  gpu_env,          \* the drawing area and the drawing offset
  gpu_gp0,          \* the interpreter: state, and its image transfer
  g_cmd_buf,        \* the words collected
  gpu_rd,           \* the pending read of a rectangle
  gpu_cap,          \* the capture machine: state, and its image transfer
  gpu_todo, gpu_image

gpu_vars == <<g_vram, gpu_env, gpu_gp0, g_cmd_buf, gpu_rd, gpu_cap,
              gpu_todo, gpu_image>>

GpuXs == 0..(GpuWidth - 1)
GpuYs == 0..(GpuHeight - 1)

-----------------------------------------------------------------------------
(* The commands, by the bits of their byte.                                *)
GpuBit(cmd, n) == (cmd \div 2^n) % 2 = 1

GpuPoly(cmd)  == cmd \in 32..63
GpuLine(cmd)  == cmd \in 64..95
GpuRect(cmd)  == cmd \in 96..127
GpuEnv(cmd)   == cmd \in 224..255
GpuFill  == 2
GpuCopy  == 128
GpuLoad  == 160
GpuStore == 192
GpuSizeCode(cmd) == (cmd \div 8) % 4

\* The guest sends no polylines, whose words the interpreter does not count.
ASSUME GpuAssumption ==
  /\ GpuWidth \in Nat \ {0} /\ GpuHeight \in Nat \ {0} /\ GpuAlign \in Nat \ {0}
  /\ 0 \in GpuColours /\ GpuColours \subseteq Nat
  /\ GpuHeads \subseteq {cmd \in 0..255 : ~(GpuLine(cmd) /\ GpuBit(cmd, 3))}
  /\ GpuTops \subseteq 0..255
  /\ GpuAborts \in BOOLEAN
  /\ GpuVertices \subseteq GpuXs \X GpuYs
  /\ GpuSizes \subseteq GpuXs \X GpuYs
  /\ GpuOffsets \subseteq Int \X Int
  /\ GpuSide \in [1..3 -> Nat]

\* Mutant of GpuWordCount: textured polygons by the wrong bit.
GpuWordCountSemi(cmd) ==
  LET one(bit) == IF GpuBit(cmd, bit) THEN 1 ELSE 0
      vertices == IF GpuBit(cmd, 3) THEN 4 ELSE 3
  IN IF cmd \in {GpuFill, GpuStore} THEN 3
     ELSE IF cmd = GpuCopy THEN 4
     ELSE IF GpuPoly(cmd)
     THEN 1 + vertices * (1 + one(1) + one(4)) - one(4)
     ELSE IF GpuLine(cmd) THEN 3 + one(4)
     ELSE IF GpuRect(cmd)
     THEN 2 + one(2) + IF GpuSizeCode(cmd) = 0 THEN 1 ELSE 0
     ELSE 1

\* get_cmd_word_count
GpuWordCount(cmd) ==
  LET one(bit) == IF GpuBit(cmd, bit) THEN 1 ELSE 0
      vertices == IF GpuBit(cmd, 3) THEN 4 ELSE 3
  IN IF cmd \in {GpuFill, GpuStore} THEN 3
     ELSE IF cmd = GpuCopy THEN 4
     ELSE IF GpuPoly(cmd)
     THEN 1 + vertices * (1 + one(2) + one(4)) - one(4)
     ELSE IF GpuLine(cmd) THEN 3 + one(4)
     ELSE IF GpuRect(cmd)
     THEN 2 + one(2) + IF GpuSizeCode(cmd) = 0 THEN 1 ELSE 0
     ELSE 1

\* The places where the handlers look for vertices: exec_poly's
\* walk over the buffer, exec_line and exec_rect.
GpuVertexPlaces(cmd) ==
  LET step == 1 + (IF GpuBit(cmd, 2) THEN 1 ELSE 0)
                + (IF GpuBit(cmd, 4) THEN 1 ELSE 0)
      count == IF GpuBit(cmd, 3) THEN 4 ELSE 3
  IN IF GpuPoly(cmd) THEN {2 + step * i : i \in 0..(count - 1)}
     ELSE IF GpuLine(cmd) THEN {2, 3}
     ELSE IF GpuRect(cmd) THEN {2} ELSE {}

\* The format of a command as the guest's library lays it out, after the
\* command word: a polygon has, for each vertex, its colour when it is
\* shaded (the first colour is in the command word), the vertex, and its
\* texture coordinates when it is textured.
GpuRoles(cmd) ==
  LET when(bit, role) == IF GpuBit(cmd, bit) THEN <<role>> ELSE << >>
      corner == when(4, "colour") \o <<"vertex">> \o when(2, "texel")
      first == <<"vertex">> \o when(2, "texel")
  IN IF cmd \in {GpuFill, GpuStore, GpuLoad} THEN <<"place", "size">>
     ELSE IF cmd = GpuCopy THEN <<"place", "place", "size">>
     ELSE IF GpuPoly(cmd)
     THEN first \o corner \o corner \o IF GpuBit(cmd, 3) THEN corner ELSE << >>
     ELSE IF GpuLine(cmd) THEN <<"vertex">> \o when(4, "colour") \o <<"vertex">>
     ELSE IF GpuRect(cmd)
     THEN first \o IF GpuSizeCode(cmd) = 0 THEN <<"size">> ELSE << >>
     ELSE << >>

-----------------------------------------------------------------------------
(* VRAM.                                                                   *)
GpuPixels == GpuXs \X GpuYs

\* Pixel k, from 0, of a rectangle that wraps at the edges of VRAM.
GpuAt(x, y, w, k) ==
  <<(x + (k % w)) % GpuWidth, (y + (k \div w)) % GpuHeight>>

\* A size of 0 is the whole of VRAM.
GpuW(x) == IF x = 0 THEN GpuWidth ELSE x
GpuH(y) == IF y = 0 THEN GpuHeight ELSE y

\* The pixels of the drawing area.
GpuArea(env) ==
  {p \in GpuPixels : /\ env.x1 <= p[1] /\ p[1] <= env.x2
                     /\ env.y1 <= p[2] /\ p[2] <= env.y2}

\* The drawing area and a box of coordinates.
GpuBox(env, left, top, right, bottom) ==
  {p \in GpuArea(env) : /\ left <= p[1] /\ p[1] <= right
                        /\ top <= p[2] /\ p[2] <= bottom}

\* exec_fill and exec_copy: the whole rectangle, drawing area or not; a copy
\* goes pixel by pixel.
GpuFilled(vram, buf) ==
  LET w == GpuW(buf[3].x)
      x == buf[2].x - (buf[2].x % GpuAlign)
      Rect == {GpuAt(x, buf[2].y, w, k) : k \in 0..(w * GpuH(buf[3].y) - 1)}
  IN [p \in GpuPixels |-> IF p \in Rect THEN buf[1].x ELSE vram[p]]

GpuCopied(vram, buf) ==
  LET w == GpuW(buf[4].x)
      copy[k \in 0..(w * GpuH(buf[4].y))] ==
        IF k = 0 THEN vram
        ELSE [copy[k - 1] EXCEPT ![GpuAt(buf[3].x, buf[3].y, w, k - 1)] =
                copy[k - 1][GpuAt(buf[2].x, buf[2].y, w, k - 1)]]
  IN [p \in GpuPixels |-> copy[w * GpuH(buf[4].y)][p]]

\* exec_rect: the sides come from the size word or from the size code.
GpuRectBox(env, buf) ==
  LET cmd == buf[1].top
      code == GpuSizeCode(cmd)
      size == buf[Len(buf)]
      x == buf[2].x + env.ox
      y == buf[2].y + env.oy
      w == IF code = 0 THEN size.x ELSE GpuSide[code]
      h == IF code = 0 THEN size.y ELSE GpuSide[code]
  IN GpuBox(env, x, y, x + w - 1, y + h - 1)

\* exec_poly, exec_line: the box around the vertices.
GpuVertexBox(env, buf) ==
  LET At == GpuVertexPlaces(buf[1].top)
      xs == {buf[i].x + env.ox : i \in At}
      ys == {buf[i].y + env.oy : i \in At}
      Least(s) == CHOOSE v \in s : \A u \in s : v <= u
      Most(s) == CHOOSE v \in s : \A u \in s : u <= v
  IN GpuBox(env, Least(xs), Least(ys), Most(xs), Most(ys))

\* The pixels of its box a command may paint: a plain rectangle paints all
\* of them, a triangle those that lie in it and that its texture does not
\* leave out, none if it has no area.
GpuParts(cmd, Box) ==
  IF GpuRect(cmd) /\ ~GpuBit(cmd, 2) THEN {Box} ELSE SUBSET Box

\* What a drawing command may leave.
GpuDrawn(vram, env, buf) ==
  LET cmd == buf[1].top
      Box == IF GpuRect(cmd) THEN GpuRectBox(env, buf) ELSE GpuVertexBox(env, buf)
  IN {[p \in GpuPixels |-> IF p \in Part THEN buf[1].x ELSE vram[p]] :
        Part \in GpuParts(cmd, Box)}

-----------------------------------------------------------------------------
GpuIdle == [state |-> "idle", x |-> 0, y |-> 0, w |-> 0, h |-> 0, left |-> 0]

GpuNoImage == [whole |-> FALSE, x |-> 0, y |-> 0, w |-> 0, pixels |-> << >>]

\* gpu_init, and the runtime's initial values.
GpuInit ==
  /\ g_vram = [p \in GpuPixels |-> 0]
  /\ gpu_env = [x1 |-> 0, y1 |-> 0, x2 |-> GpuWidth - 1, y2 |-> GpuHeight - 1,
                ox |-> 0, oy |-> 0]
  /\ gpu_gp0 = GpuIdle /\ gpu_cap = GpuIdle
  /\ g_cmd_buf = << >>
  /\ gpu_rd = [x |-> 0, y |-> 0, w |-> 0, done |-> 0, left |-> 0]
  /\ gpu_todo = << >> /\ gpu_image = GpuNoImage

-----------------------------------------------------------------------------
(* The words of an image transfer, the same in both machines: place, size, *)
(* and two pixels a word until none is left.                               *)

GpuHeader1(t, v) == [t EXCEPT !.state = "header2", !.x = v.x, !.y = v.y]

GpuHeader2(t, v) ==
  [t EXCEPT !.state = "data", !.w = GpuW(v.x), !.h = GpuH(v.y),
            !.left = GpuW(v.x) * GpuH(v.y)]

GpuData(t) ==
  IF t.left <= 2 THEN [t EXCEPT !.left = 0, !.state = "idle"]
  ELSE [t EXCEPT !.left = @ - 2]

\* The pixels a data word paints; the interpreter wraps at the edges, the
\* capture machine drops what lies beyond them.
GpuPaint(vram, t, v, wraps) ==
  LET k == t.w * t.h - t.left
      Here(n) == wraps \/ (t.x + (n % t.w) < GpuWidth /\ t.y + (n \div t.w) < GpuHeight)
      one == IF t.left > 0 /\ Here(k)
             THEN [vram EXCEPT ![GpuAt(t.x, t.y, t.w, k)] = v.x] ELSE vram
  IN IF t.left > 1 /\ Here(k + 1)
     THEN [one EXCEPT ![GpuAt(t.x, t.y, t.w, k + 1)] = v.y] ELSE one

-----------------------------------------------------------------------------
(* Mutant of GpuCapture: a size of 0 is not the whole of VRAM.             *)
GpuCaptureZero(v) ==
  CASE gpu_cap.state = "header1" -> GpuHeader1(gpu_cap, v)
    [] gpu_cap.state = "header2" ->
         [gpu_cap EXCEPT !.state = IF v.x * v.y = 0 THEN "idle" ELSE "data",
                         !.w = v.x, !.h = v.y, !.left = v.x * v.y]
    [] gpu_cap.state = "data" -> GpuData(gpu_cap)
    [] OTHER -> IF v.top = GpuLoad THEN [gpu_cap EXCEPT !.state = "header1"]
                ELSE gpu_cap

(* gpu_gp0: the capture machine.  It takes for a command every word that   *)
(* finds it idle.                                                          *)
GpuCapture(v) ==
  CASE gpu_cap.state = "header1" -> GpuHeader1(gpu_cap, v)
    [] gpu_cap.state = "header2" -> GpuHeader2(gpu_cap, v)
    [] gpu_cap.state = "data" -> GpuData(gpu_cap)
    [] OTHER -> IF v.top = GpuLoad THEN [gpu_cap EXCEPT !.state = "header1"]
                ELSE gpu_cap

GpuCaptured(v) ==
  IF gpu_cap.state = "data" THEN GpuPaint(g_vram, gpu_cap, v, FALSE) ELSE g_vram

-----------------------------------------------------------------------------
(* gpu_gp0_write: the interpreter.                                         *)

GpuExecEnv(v) ==
  /\ gpu_env' = CASE v.top = 227 -> [gpu_env EXCEPT !.x1 = v.x, !.y1 = v.y]
                  [] v.top = 228 -> [gpu_env EXCEPT !.x2 = v.x, !.y2 = v.y]
                  [] v.top = 229 -> [gpu_env EXCEPT !.ox = v.x, !.oy = v.y]
                  [] OTHER -> gpu_env
  /\ g_vram' = GpuCaptured(v)
  /\ UNCHANGED <<gpu_gp0, g_cmd_buf, gpu_rd>>

\* exec_cmd_buf
GpuExec(buf, vram) ==
  LET cmd == buf[1].top
  IN /\ IF cmd = GpuStore
        THEN LET w == GpuW(buf[3].x)
             IN gpu_rd' = [x |-> buf[2].x, y |-> buf[2].y, w |-> w, done |-> 0,
                           left |-> w * GpuH(buf[3].y)]
        ELSE gpu_rd' = gpu_rd
     /\ g_vram' \in IF cmd = GpuFill THEN {GpuFilled(vram, buf)}
                    ELSE IF cmd = GpuCopy THEN {GpuCopied(vram, buf)}
                    ELSE IF GpuPoly(cmd) \/ GpuLine(cmd) \/ GpuRect(cmd)
                    THEN GpuDrawn(vram, gpu_env, buf)
                    ELSE {vram}

GpuCollect(v) ==
  LET buf == Append(g_cmd_buf, v)
  IN IF Len(buf) >= GpuWordCount(buf[1].top)
     THEN /\ GpuExec(buf, GpuCaptured(v))
          /\ g_cmd_buf' = << >> /\ gpu_gp0' = [gpu_gp0 EXCEPT !.state = "idle"]
          /\ UNCHANGED gpu_env
     ELSE /\ g_cmd_buf' = buf /\ gpu_gp0' = [gpu_gp0 EXCEPT !.state = "accumulate"]
          /\ g_vram' = GpuCaptured(v)
          /\ UNCHANGED <<gpu_env, gpu_rd>>

GpuTransfer(v) ==
  /\ gpu_gp0' = CASE gpu_gp0.state = "header1" -> GpuHeader1(gpu_gp0, v)
                  [] gpu_gp0.state = "header2" -> GpuHeader2(gpu_gp0, v)
                  [] OTHER -> GpuData(gpu_gp0)
  /\ g_vram' = IF gpu_gp0.state = "data"
               THEN GpuPaint(GpuCaptured(v), gpu_gp0, v, TRUE)
               ELSE GpuCaptured(v)
  /\ UNCHANGED <<gpu_env, g_cmd_buf, gpu_rd>>

\* A command without payload: the load of an image begins; no operation,
\* the cache and the interrupt change nothing here.
GpuBegin(v) ==
  /\ gpu_gp0' = IF v.top = GpuLoad THEN [gpu_gp0 EXCEPT !.state = "header1"]
                ELSE gpu_gp0
  /\ g_vram' = GpuCaptured(v)
  /\ UNCHANGED <<gpu_env, g_cmd_buf, gpu_rd>>

GpuInterpret(v) ==
  IF gpu_gp0.state \in {"header1", "header2", "data"} THEN GpuTransfer(v)
  ELSE IF gpu_gp0.state = "accumulate" THEN GpuCollect(v)
  ELSE IF v.top \in {GpuLoad, 0, 1, 31} THEN GpuBegin(v)
  ELSE IF GpuEnv(v.top) THEN GpuExecEnv(v)
  ELSE GpuCollect(v)

\* A word written to GP0, by the guest or by DMA channel 2.
GpuWord(v) == gpu_cap' = GpuCapture(v) /\ GpuInterpret(v)

-----------------------------------------------------------------------------
(* What the guest sends.                                                   *)

GpuFields(role) ==
  CASE role = "vertex" -> GpuVertices
    [] role = "place" -> GpuPixels
    [] role = "size" -> GpuSizes
    [] role = "pixels" -> GpuColours \X GpuColours
    [] OTHER -> {<<0, 0>>}

GpuHeadFields(cmd) ==
  IF cmd \in {227, 228} THEN GpuVertices
  ELSE IF cmd = 229 THEN GpuOffsets
  ELSE {<<c, 0>> : c \in GpuColours}

GpuHead ==
  /\ gpu_todo = << >>
  /\ \E cmd \in GpuHeads : \E f \in GpuHeadFields(cmd) :
       LET v == [top |-> cmd, x |-> f[1], y |-> f[2], role |-> "command"]
       IN /\ GpuWord(v)
          /\ gpu_todo' = GpuRoles(cmd)
          /\ gpu_image' = IF GpuRoles(cmd) = << >> \/ cmd = GpuStore THEN gpu_image
                          ELSE GpuNoImage

\* The image transfer the ghost follows: from its place word to its last pixel.
GpuImageAfter(v) ==
  IF gpu_gp0.state = "header1" THEN [GpuNoImage EXCEPT !.x = v.x, !.y = v.y]
  ELSE IF gpu_gp0.state = "header2" THEN [gpu_image EXCEPT !.w = GpuW(v.x)]
  ELSE IF gpu_gp0.state = "data"
  THEN [gpu_image EXCEPT
          !.pixels = @ \o IF gpu_gp0.left = 1 THEN <<v.x>> ELSE <<v.x, v.y>>,
          !.whole = gpu_gp0.left <= 2]
  ELSE gpu_image

\* The payload of an image is known when its size is.
GpuPayload ==
  /\ gpu_todo # << >>
  /\ \E top \in IF Head(gpu_todo) = "colour" THEN GpuTops ELSE {0} :
     \E f \in GpuFields(Head(gpu_todo)) :
       LET v == [top |-> top, x |-> f[1], y |-> f[2], role |-> Head(gpu_todo)]
           words == (GpuW(f[1]) * GpuH(f[2]) + 1) \div 2
       IN /\ GpuWord(v)
          /\ gpu_todo' = IF gpu_gp0.state = "header2"
                         THEN [i \in 1..words |-> "pixels"] ELSE Tail(gpu_todo)
          /\ gpu_image' = GpuImageAfter(v)

\* gpu_gp1_write and gpu_gp1, 00h and 01h: the interpreter forgets what it
\* collected, the capture machine does not.
GpuReset ==
  /\ GpuAborts \/ gpu_gp0.state \in {"idle", "accumulate"}
  /\ gpu_gp0' = [gpu_gp0 EXCEPT !.state = "idle"] /\ g_cmd_buf' = << >>
  /\ gpu_todo' = << >>
  /\ UNCHANGED <<g_vram, gpu_env, gpu_rd, gpu_cap, gpu_image>>

\* Mutant of GpuReadWord: the read walks by columns.
GpuReadWordDown ==
  LET Pixel(k) == g_vram[<<(gpu_rd.x + ((gpu_rd.done + k) \div gpu_rd.w)) % GpuWidth,
                           (gpu_rd.y + ((gpu_rd.done + k) % gpu_rd.w)) % GpuHeight>>]
  IN IF gpu_rd.left = 1 THEN <<Pixel(0)>> ELSE <<Pixel(0), Pixel(1)>>

\* gpu_get_read_latch with a rectangle pending: two pixels, row by row.
GpuReadWord ==
  LET Pixel(k) == g_vram[GpuAt(gpu_rd.x, gpu_rd.y, gpu_rd.w, gpu_rd.done + k)]
  IN IF gpu_rd.left = 1 THEN <<Pixel(0)>> ELSE <<Pixel(0), Pixel(1)>>

GpuRead ==
  /\ gpu_rd.left > 0
  /\ LET taken == Len(GpuReadWord)
     IN gpu_rd' = [gpu_rd EXCEPT !.done = @ + taken, !.left = @ - taken]
  /\ UNCHANGED <<g_vram, gpu_env, gpu_gp0, g_cmd_buf, gpu_cap, gpu_todo, gpu_image>>

GpuNext == GpuHead \/ GpuPayload \/ GpuReset \/ GpuRead

GpuSpec == GpuInit /\ [][GpuNext]_gpu_vars

-----------------------------------------------------------------------------
GpuTransfers ==
  [state : {"idle", "header1", "header2", "data", "accumulate"},
   x : GpuXs, y : GpuYs, w : 0..GpuWidth, h : 0..GpuHeight,
   left : 0..(GpuWidth * GpuHeight)]

(* Type correctness; the sixteen words of g_cmd_buf are never exceeded.    *)
GpuTypeOK ==
  /\ g_vram \in [GpuPixels -> Nat]
  /\ gpu_env \in [x1 : Int, y1 : Int, x2 : Int, y2 : Int, ox : Int, oy : Int]
  /\ gpu_gp0 \in GpuTransfers /\ gpu_cap \in GpuTransfers
  /\ Len(g_cmd_buf) < 16
  /\ gpu_rd \in [x : GpuXs, y : GpuYs, w : 0..GpuWidth, done : Nat, left : Nat]

(* The interpreter is at the beginning of a command exactly when the guest *)
(* is, and has collected what the guest has sent of it: a word too few or  *)
(* too many for one command would make the payload of every later one be   *)
(* taken for commands (what R228 repaired, twice).                         *)
GpuInStep ==
  /\ gpu_gp0.state = "idle" <=> gpu_todo = << >>
  /\ gpu_gp0.state = "accumulate" =>
       GpuWordCount(g_cmd_buf[1].top) = Len(g_cmd_buf) + Len(gpu_todo)

(* An image is in VRAM as it was sent: reading back its rectangle gives    *)
(* its pixels, also when it wraps at an edge, has an odd number of pixels  *)
(* or was drawn by both machines.                                          *)
GpuReadsBack ==
  (/\ gpu_image.whole /\ gpu_rd.left > 0
   /\ <<gpu_rd.x, gpu_rd.y, gpu_rd.w>> = <<gpu_image.x, gpu_image.y, gpu_image.w>>
   /\ gpu_rd.done + gpu_rd.left <= Len(gpu_image.pixels)) =>
     GpuReadWord = SubSeq(gpu_image.pixels, gpu_rd.done + 1,
                          gpu_rd.done + Len(GpuReadWord))

(* The two machines agree on the image transfer under way.                 *)
GpuCaptureInStep ==
  /\ gpu_cap.state # "idle" => gpu_cap = gpu_gp0
  /\ gpu_gp0.state \in {"header1", "header2", "data"} => gpu_cap = gpu_gp0

=============================================================================
