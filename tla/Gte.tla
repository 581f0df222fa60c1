-------------------------------- MODULE Gte ---------------------------------
(***************************************************************************)
(* The geometry coprocessor (source/hle/hle_gte.c): a register file the    *)
(* guest writes, and commands over it that end in saturated results, first *)
(* in first out queues of screen points, depths and colours, and a flag    *)
(* register that says what was saturated.                                  *)
(*                                                                         *)
(* Every width is a parameter, so that TLC can take the whole range of a   *)
(* narrow machine: One is 1.0 in fixed point (4096), Part the unit of a    *)
(* colour (16), Pixel the unit of a screen coordinate (65536).  A group of *)
(* registers that holds one vector or matrix is written as one; the code   *)
(* byte of a colour, which rides along, and the leading-bit counter are    *)
(* left out.  The table-driven reciprocal of the division is the exact     *)
(* quotient, and the 32-bit product it ends in is kept.                    *)
(***************************************************************************)
EXTENDS Integers, Sequences, FiniteSets

CONSTANTS
  GteOne,           \* 1.0, 0x1000
  GtePart,          \* 1 << 4
  GteIr,            \* 0x8000: IR1..IR3 lie below it
  GteMac,           \* 1 << 43: MAC1..MAC3 overflow at it
  GteWord,          \* 1 << 31: what a MAC register holds lies below it
  GteColours,       \* 256
  GteDepths,        \* 0x10000
  GteScreen,        \* 0x400: screen coordinates lie below it
  GtePixel,         \* 0x10000
  GteFifth,         \* 0x80: a unit of the packed colour register IRGB
  GteWrites,        \* what the guest writes to each register group
  GteScreenWrites,  \* the points it pushes through SXYP
  GteColourWrites,  \* the colours it writes to IRGB
  GteCommands,      \* the commands it issues
  GteOperands,      \* the operand fields of its MVMVA commands
  GteMaxTurns       \* bound: the commands it issues after it has written

VARIABLES
  g_gte,            \* the register file
  gte_last          \* ghost: the commands issued so far, and the last one

gte_vars == <<g_gte, gte_last>>

GteSingle == {"NCS", "NCCS", "NCDS"}
GteTriple == {"NCT", "NCCT", "NCDT"}
GteAll == {"RTPS", "RTPT", "NCLIP", "AVSZ3", "AVSZ4", "MVMVA", "SQR", "OP",
           "CC", "CDP", "DPCS", "DPCT", "DCPL", "INTPL", "GPF", "GPL", "NOP"}
          \cup GteSingle \cup GteTriple

GteFields ==
  {"v", "rgbc", "otz", "ir0", "ir", "sxy", "sz", "rgb", "mac0", "mac", "rt", "tr",
   "l", "bk", "lcm", "fc", "offset", "h", "dqa", "dqb", "zsf3", "zsf4", "flag"}

\* The queues: points, depths, colours.
GteLengths == [sxy |-> 3, sz |-> 4, rgb |-> 3]
GteQueue(q, n) == q = [i \in 1..n |-> q[i]]

ASSUME GteAssumption ==
  /\ {GteOne, GtePart, GteIr, GteMac, GteWord, GteColours, GteDepths,
      GteScreen, GtePixel, GteFifth} \subseteq Nat \ {0}
  /\ GteCommands \subseteq GteAll
  /\ GteOperands \subseteq (0..3) \X (0..3) \X (0..3)
  /\ DOMAIN GteWrites \subseteq GteFields
  /\ \A reg \in DOMAIN GteWrites \cap DOMAIN GteLengths :
       \A x \in GteWrites[reg] : GteQueue(x, GteLengths[reg])
  /\ GteMaxTurns \in Nat

-----------------------------------------------------------------------------
(* Saturation.  g is the register file in the middle of a command.         *)

GteClamp(x, low, high) == IF x < low THEN low ELSE IF x > high THEN high ELSE x
GteOutside(x, low, high) == x < low \/ x > high
GteRaise(g, raised, name) == IF raised THEN [g EXCEPT !.flag = @ \cup {name}] ELSE g

\* What is left of x in a 32-bit register, and an arithmetic shift by 12
\* when the command asks for it.
GteSigned(x) == ((x + GteWord) % (2 * GteWord)) - GteWord
GteShift(x, sf) == IF sf THEN x \div GteOne ELSE x

\* check_mac_overflow_44 and the stores into MAC1..MAC3
GteSetMac(g, x) ==
  [g EXCEPT !.mac = [i \in 1..3 |-> GteSigned(x[i])],
            !.flag = @ \cup {<<"mac+", i>> : i \in {j \in 1..3 : x[j] >= GteMac}}
                       \cup {<<"mac-", i>> : i \in {j \in 1..3 : x[j] < -GteMac}}]

\* check_mac0_overflow and the store into MAC0
GteSetMac0(g, x) ==
  GteRaise(GteRaise([g EXCEPT !.mac0 = GteSigned(x)],
                    x >= GteWord, <<"mac+", 0>>), x < -GteWord, <<"mac-", 0>>)

\* clamp_ir and the stores into IR1..IR3; low is 0 for a command with lm.
GteLow(lm) == IF lm THEN 0 ELSE -GteIr

GteLimits(x, low) == [i \in 1..3 |-> GteClamp(x[i], low, GteIr - 1)]
GteLimited(x, low) ==
  {<<"ir", i>> : i \in {j \in 1..3 : GteOutside(x[j], low, GteIr - 1)}}
GteSetIr(g, x, lm) ==
  [g EXCEPT !.ir = GteLimits(x, GteLow(lm)), !.flag = @ \cup GteLimited(x, GteLow(lm))]

GteShifts(x, sf) == [i \in 1..3 |-> GteShift(x[i], sf)]

\* A product goes into MAC, and shifted into IR.
GteSetBoth(g, x, sf, lm) == GteSetIr(GteSetMac(g, x), GteShifts(x, sf), lm)

GteRow(m, v, i) == m[i][1] * v[1] + m[i][2] * v[2] + m[i][3] * v[3]
GteProduct(m, v, t) == [i \in 1..3 |-> t[i] * GteOne + GteRow(m, v, i)]

-----------------------------------------------------------------------------
(* The queues.                                                             *)

\* Mutant of GtePush: the new entry takes the oldest one's place.
GtePushFront(queue, x) == <<x>> \o Tail(queue)

\* push_sxy, push_sz, push_rgb
GtePush(queue, x) == Append(Tail(queue), x)

\* The colour in MAC1..MAC3, through clamp_color into the queue.
GtePushColour(g) ==
  LET raw(i) == g.mac[i] \div GtePart
      top == GteColours - 1
      Flags == {<<"colour", i>> : i \in {j \in 1..3 : GteOutside(raw(j), 0, top)}}
  IN [g EXCEPT !.rgb = GtePush(@, [i \in 1..3 |-> GteClamp(raw(i), 0, top)]),
               !.flag = @ \cup Flags]

-----------------------------------------------------------------------------
(* The perspective.                                                        *)

GteRange == 2 * GtePixel - 1             \* 0x1FFFF

\* gte_divide: H / SZ3, rounded.  The last product is kept in 32 bits, of
\* which the quotient is the upper half.
GteDivide(h, sz) ==
  IF h < 2 * sz THEN ((h * GtePixel + (sz \div 2)) \div sz) % GtePixel
  ELSE GteRange

\* The vertex seen from the camera.
GteSeen(g, k) == GteProduct(g.rt, g.v[k], g.tr)

\* Into MAC and IR; IR3 is limited once more, without lm, and its flag is
\* that of the whole depth.
GteView(g, k, sf, lm) ==
  LET raw == GteSeen(g, k)
      depth == GteShift(raw[3], sf)
      a == GteSetBoth(g, raw, sf, lm)
  IN GteRaise([a EXCEPT !.ir[3] = GteClamp(depth, -GteIr, GteIr - 1),
                        !.flag = (@ \ {<<"ir", 3>>}) \cup g.flag],
              GteOutside(depth, -GteIr, GteIr - 1), <<"ir", 3>>)

\* Where the quotient n puts it on the screen.
GteAt(g, n) == [i \in 1..2 |-> n * g.ir[i] + g.offset[i]]
GtePoint(at) ==
  [i \in 1..2 |-> GteClamp(at[i] \div GtePixel, -GteScreen, GteScreen - 1)]

GteOffScreen(at) ==
  {<<"screen", i>> : i \in {j \in 1..2 : GtePoint(at)[j] # at[j] \div GtePixel}}
GtePlace(g, at) ==
  GteSetMac0(GteSetMac0([g EXCEPT !.flag = @ \cup GteOffScreen(at)], at[1]), at[2])

\* The last vertex of a command gives IR0 its part of the far colour.
GteDepthCue(g, n) ==
  LET cue == n * g.dqa + g.dqb
  IN GteRaise([GteSetMac0(g, cue) EXCEPT !.ir0 = GteClamp(cue \div GteOne, 0, GteOne)],
              GteOutside(cue \div GteOne, 0, GteOne), <<"ir", 0>>)

\* The depth it has, and the depth that fits its queue.
GteDepth(g, k, sf) == GteShift(GteSeen(g, k)[3], sf)
GteLimitedDepth(g, k, sf) == GteClamp(GteDepth(g, k, sf), 0, GteDepths - 1)

\* It is limited when it does not fit, and again when it is too near.
GteLimitedView(g, k, sf, lm) ==
  LET z == GteLimitedDepth(g, k, sf)
  IN GteRaise(GteRaise(GteView(g, k, sf, lm), GteDepth(g, k, sf) # z, <<"sz", 3>>),
              g.h >= 2 * z, <<"divide", 0>>)

\* execute_rtps_vertex
GteProject(g, k, sf, lm, last) ==
  LET z == GteLimitedDepth(g, k, sf)
      n == GteDivide(g.h, z)
      c == GteLimitedView(g, k, sf, lm)
      e == GtePlace(c, GteAt(c, n))
      f == IF last THEN GteDepthCue(e, n) ELSE e
  IN [f EXCEPT !.sxy = GtePush(@, GtePoint(GteAt(c, n))), !.sz = GtePush(@, z)]

\* AVSZ3, AVSZ4
GteAverage(g, scale, sum) ==
  LET raw == (scale * sum) \div GteOne
  IN GteRaise([GteSetMac0(g, scale * sum) EXCEPT
                 !.otz = GteClamp(raw, 0, GteDepths - 1)],
              GteOutside(raw, 0, GteDepths - 1), <<"sz", 3>>)

GteClip(g) ==
  LET x(i) == g.sxy[i][1]
      y(i) == g.sxy[i][2]
  IN GteSetMac0(g, x(1) * (y(2) - y(3)) + x(2) * (y(3) - y(1)) + x(3) * (y(1) - y(2)))

-----------------------------------------------------------------------------
(* Vectors and colours.                                                    *)

\* MVMVA; the vector is copied before the loop.
GteTransform(g, mx, v, cv, sf, lm) ==
  LET m == CASE mx = 1 -> g.l [] mx = 2 -> g.lcm [] OTHER -> g.rt
      vec == IF v = 3 THEN g.ir ELSE g.v[v + 1]
      t == CASE cv = 0 -> g.tr [] cv = 1 -> g.bk [] cv = 2 -> g.fc
             [] OTHER -> <<0, 0, 0>>
  IN GteSetBoth(g, GteProduct(m, vec, t), sf, lm)

\* The background and the light colour matrix, applied to IR in place: a
\* row sees the components the rows before it have stored.
GteLight(g, sf, lm) ==
  LET row(ir, i) == g.bk[i] * GteOne + GteRow(g.lcm, ir, i)
      stored(ir, i) == [ir EXCEPT ![i] = GteClamp(GteShift(row(ir, i), sf),
                                                  GteLow(lm), GteIr - 1)]
      first == stored(g.ir, 1)
      second == stored(first, 2)
  IN GteSetBoth(g, <<row(g.ir, 1), row(first, 2), row(second, 3)>>, sf, lm)

GteTint(g) == GteSetMac(g, [i \in 1..3 |-> g.rgbc[i] * g.ir[i] * GtePart])

\* Depth cueing: MAC goes the part IR0 of the way to the far colour.
GteCue(g, sf, lm) ==
  LET diff == GteShifts([i \in 1..3 |-> g.fc[i] * GteOne - g.mac[i]], sf)
      way == GteLimits(diff, -GteIr)
  IN GteSetBoth([g EXCEPT !.flag = @ \cup GteLimited(diff, -GteIr)],
                [i \in 1..3 |-> way[i] * g.ir0 + g.mac[i]], sf, lm)

\* NCS, NCCS, NCDS and one round of NCT, NCCT, NCDT
GteNormal(g, k, fn, sf, lm) ==
  LET a == GteSetBoth(g, GteProduct(g.l, g.v[k], <<0, 0, 0>>), sf, lm)
      b == GteLight(a, sf, lm)
      c == IF fn \in {"NCS", "NCT"} THEN b ELSE GteTint(b)
  IN GtePushColour(IF fn \in {"NCDS", "NCDT"} THEN GteCue(c, sf, lm) ELSE c)

\* CC, CDP
GteColour(g, fn, sf, lm) ==
  LET a == GteTint(GteLight(g, sf, lm))
  IN GtePushColour(
       IF fn = "CDP" THEN GteCue(a, sf, lm)
       ELSE GteSetIr(a, GteShifts(a.mac, sf), lm))

\* What round k of DPCS, DPCT, DCPL and INTPL starts from.
GteSource(g, fn, k) ==
  [i \in 1..3 |-> CASE fn = "DCPL" -> g.rgbc[i] * g.ir[i] * GtePart
                    [] fn = "INTPL" -> g.ir[i] * GteOne
                    [] fn = "DPCT" -> g.rgb[1][i] * GtePart * GteOne
                    [] OTHER -> g.rgbc[i] * GtePart * GteOne]

GteBlend(g, fn, k, sf, lm) ==
  GtePushColour(GteCue([g EXCEPT !.mac = GteSource(g, fn, k)], sf, lm))

\* GPF, GPL: the product of IR i and IR0, GPL's on top of MAC i.
GteMixed(g, fn, i, sf) ==
  g.ir[i] * g.ir0
    + IF fn = "GPF" THEN 0 ELSE IF sf THEN g.mac[i] * GteOne ELSE g.mac[i]

\* SQR, GPF, GPL: the product of each IR with itself or with IR0.
GteScale(g, fn, sf, lm) ==
  LET x == GteShifts([i \in 1..3 |-> IF fn = "SQR" THEN g.ir[i] * g.ir[i]
                                     ELSE GteMixed(g, fn, i, sf)], sf)
      a == GteSetIr(GteSetMac(g, x), x, lm)
  IN IF fn = "SQR" THEN a ELSE GtePushColour(a)

\* OP: the products are taken before any IR is set.
GteOuter(g, sf, lm) ==
  LET d == [i \in 1..3 |-> g.rt[i][i]]
      p == GteShifts(<<g.ir[3] * d[2] - g.ir[2] * d[3],
                       g.ir[1] * d[3] - g.ir[3] * d[1],
                       g.ir[2] * d[1] - g.ir[1] * d[2]>>, sf)
  IN GteSetIr(GteSetMac(g, p), p, lm)

-----------------------------------------------------------------------------
\* hle_gte_execute: every command begins with a clear flag register.
GteRun(g0, fn, sf, lm, mx, v, cv) ==
  LET g == [g0 EXCEPT !.flag = {}]
      rounds(Op(_, _)) == Op(Op(Op(g, 1), 2), 3)
  IN CASE fn = "RTPS" -> GteProject(g, 1, sf, lm, TRUE)
       [] fn = "RTPT" -> rounds(LAMBDA s, k : GteProject(s, k, sf, lm, k = 3))
       [] fn = "NCLIP" -> GteClip(g)
       [] fn = "AVSZ3" -> GteAverage(g, g.zsf3, g.sz[2] + g.sz[3] + g.sz[4])
       [] fn = "AVSZ4" -> GteAverage(g, g.zsf4, g.sz[1] + g.sz[2] + g.sz[3] + g.sz[4])
       [] fn = "MVMVA" -> GteTransform(g, mx, v, cv, sf, lm)
       [] fn \in {"SQR", "GPF", "GPL"} -> GteScale(g, fn, sf, lm)
       [] fn = "OP" -> GteOuter(g, sf, lm)
       [] fn \in GteSingle -> GteNormal(g, 1, fn, sf, lm)
       [] fn \in GteTriple -> rounds(LAMBDA s, k : GteNormal(s, k, fn, sf, lm))
       [] fn \in {"CC", "CDP"} -> GteColour(g, fn, sf, lm)
       [] fn = "DPCT" -> rounds(LAMBDA s, k : GteBlend(s, fn, k, sf, lm))
       [] fn \in {"DPCS", "DCPL", "INTPL"} -> GteBlend(g, fn, 1, sf, lm)
       [] OTHER -> g

\* Only MVMVA looks at its operand fields.
GteExecute ==
  /\ gte_last.turns < GteMaxTurns
  /\ \E fn \in GteCommands, sf, lm \in BOOLEAN :
       \E op \in IF fn = "MVMVA" THEN GteOperands ELSE {<<0, 0, 0>>} :
         /\ g_gte' = GteRun(g_gte, fn, sf, lm, op[1], op[2], op[3])
         /\ gte_last' = [turns |-> gte_last.turns + 1, fn |-> fn, sf |-> sf, lm |-> lm]

\* hle_gte_write_data, hle_gte_write_ctrl: the guest writes its registers,
\* then issues its commands.
GteWrite ==
  /\ gte_last.turns = 0
  /\ \/ \E reg \in DOMAIN GteWrites : \E x \in GteWrites[reg] :
          g_gte' = [g_gte EXCEPT ![reg] = x]
     \/ \E at \in GteScreenWrites : g_gte' = [g_gte EXCEPT !.sxy = GtePush(@, at)]
     \/ \E c \in GteColourWrites :
          g_gte' = [g_gte EXCEPT !.ir = [i \in 1..3 |-> c[i] * GteFifth]]
  /\ UNCHANGED gte_last

\* hle_gte_reset
GteInit ==
  LET zero == <<0, 0, 0>>
      none == <<zero, zero, zero>>
  IN /\ gte_last = [turns |-> 0, fn |-> "NOP", sf |-> FALSE, lm |-> FALSE]
     /\ g_gte = [v |-> none, rgbc |-> zero, otz |-> 0, ir0 |-> 0, ir |-> zero,
                sxy |-> <<<<0, 0>>, <<0, 0>>, <<0, 0>>>>, sz |-> <<0, 0, 0, 0>>,
                rgb |-> none, mac0 |-> 0, mac |-> zero,
                rt |-> none, tr |-> zero, l |-> none, bk |-> zero,
                lcm |-> none, fc |-> zero, offset |-> <<0, 0>>, h |-> 0,
                dqa |-> 0, dqb |-> 0, zsf3 |-> 0, zsf4 |-> 0, flag |-> {}]

GteNext == GteExecute \/ GteWrite

GteSpec == GteInit /\ [][GteNext]_gte_vars

-----------------------------------------------------------------------------
(* Type correctness: after any sequence of commands every result register  *)
(* is inside the width the guest reads it with, and the queues have their  *)
(* length.                                                                 *)
GteTypeOK ==
  /\ \A i \in 1..3 : /\ g_gte.ir[i] \in (-GteIr)..(GteIr - 1)
                     /\ g_gte.mac[i] \in (-GteWord)..(GteWord - 1)
  /\ g_gte.mac0 \in (-GteWord)..(GteWord - 1)
  /\ g_gte.otz \in 0..(GteDepths - 1)
  /\ g_gte.sz \in [1..4 -> 0..(GteDepths - 1)]
  /\ g_gte.sxy \in [1..3 -> Seq(Int)] /\ g_gte.rgb \in [1..3 -> Seq(0..(GteColours - 1))]

(* The triple commands are the single one three times, in order: RTPT      *)
(* projects V0, V1 and V2 into the queues of points and depths, and what   *)
(* any of the three saturated is in the flag register; DPCT cues the three *)
(* colours of the queue, reading the oldest in each round because each     *)
(* round takes it out.                                                     *)
GteTriples ==
  [][gte_last' # gte_last =>
       /\ gte_last'.fn = "RTPT" =>
            LET alone(k) == GteProject([g_gte EXCEPT !.flag = {}], k,
                                       gte_last'.sf, gte_last'.lm, k = 3)
            IN /\ g_gte'.sxy = [k \in 1..3 |-> alone(k).sxy[3]]
               /\ g_gte'.sz = [k \in 1..4 |-> IF k = 1 THEN g_gte.sz[4]
                                              ELSE alone(k - 1).sz[4]]
               /\ g_gte'.flag = UNION {alone(k).flag : k \in 1..3}
       /\ gte_last'.fn = "DPCT" =>
            \A k \in 1..3 :
              g_gte'.rgb[k] = GteRun([g_gte EXCEPT !.rgbc = g_gte.rgb[k]], "DPCS",
                                     gte_last'.sf, gte_last'.lm, 0, 0, 0).rgb[3]]_gte_vars
=============================================================================
