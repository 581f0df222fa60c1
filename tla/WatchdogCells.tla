--------------------------- MODULE WatchdogCells ---------------------------
(***************************************************************************)
(* What the watchdogs of the drive have in common: the drive and the cells *)
(* the guest's file layer asks through, the postures a watchdog takes for  *)
(* a hang, what it does about it, and how it counts                        *)
(* (source/runtime/runtime.c).                                             *)
(***************************************************************************)
EXTENDS Integers, Sequences, FiniteSets

CONSTANTS
  WdSteps,      \* the four thresholds of polls: 4 to 256,
  WdShort,      \*   65536,
  WdMiddle,     \*   100000 and 131072,
  WdLong        \*   500000 to 2000000

ASSUME WdAssumption ==
  /\ {WdSteps, WdShort, WdMiddle, WdLong} \subseteq Nat \ {0}
  /\ WdSteps <= WdShort /\ WdShort <= WdMiddle /\ WdMiddle <= WdLong

WdHold == 2     \* seconds: 2 to 30

\* The drive: its needle, last command, read, interrupt and FIFOs; the cells
\* of the guest's file layer; what the watchdogs remember of what they did.
WdCells ==
  [seek : Nat, cmd : 0..31, act : BOOLEAN, arm1 : BOOLEAN, sched : BOOLEAN, pend : 0..3,
   resp_n : 0..16, resp_pos : 0..16, full : 0..16,
   data : {"none", "whole", "drained"}, loaded : BOOLEAN, forced : BOOLEAN,
   fe04 : Nat, fdf8 : Nat, fe1c : 0..31, fe20 : 0..31, fdfc : 0..1,
   dest : {"none", "ram", "one"}, era : {"boot", "movie", "field"}, overlay : BOOLEAN,
   fed : BOOLEAN, pass : 0..3, pumping : BOOLEAN, kicks : SUBSET {"request", "lost"},
   noted : [lba : Nat, len : Nat], handed : Nat, windowed : Nat, direct : BOOLEAN,
   new : BOOLEAN, due : BOOLEAN, served : BOOLEAN, rung : BOOLEAN, asked : BOOLEAN,
   told : BOOLEAN, sought : BOOLEAN, returned : Nat, aimed : SUBSET Nat]

-----------------------------------------------------------------------------
(* Postures.                                                               *)

TocBand   == 0..149
FileBand  == 100000..299999
FieldBand == 108700..109400
MovieBand == 239317..239599
Beyond(lba) == lba >= 100000

Armed(c)   == c.fdf8 \in 2048..125304
Owed(c)    == c.fdf8 \in 1..299999
Stamped(c) == c.fe04 = c.seek
WalkedOver(c) == Beyond(c.fe04) /\ c.seek > c.fe04
Unread(c)  == c.resp_n >= 1 /\ c.resp_pos = 0
NoneDue(c) == c.pend = 0 /\ ~c.arm1
Dead(c)    == ~c.act /\ NoneDue(c)
Emptied(c) == c.resp_n = 0 /\ c.data = "none"
\* A read that was taken up and waits for its first sector.
Unstaged(c) == c.act /\ ~c.loaded /\ NoneDue(c) /\ c.fdf8 # 0 /\ c.era # "movie"

-----------------------------------------------------------------------------
(* What a watchdog does.  A served sector is noted with its address.       *)

\* cd_data_load: the needle is set back on the request, except one sector
\* past it; under GetTN nothing is loaded.
Load(c) ==
  LET at == IF c.fe04 \in {0, c.seek, c.seek - 1} THEN c.seek ELSE c.fe04
  IN  IF c.cmd = 19 THEN [c EXCEPT !.seek = at]
      ELSE [c EXCEPT !.seek = at, !.data = "whole", !.loaded = TRUE, !.new = TRUE,
                     !.served = TRUE]

Stamp(c) == [c EXCEPT !.fe04 = c.seek]
Aim(c)   == [c EXCEPT !.seek = c.fe04]
Arm(c)   == [c EXCEPT !.fdf8 = 2048]
Ring(c)  == [c EXCEPT !.rung = TRUE]
Bell(c)  == Ring([c EXCEPT !.pend = 1])
\* Mutant of Start: the read is not taken up.
StartPaused(c) == Bell(Load([c EXCEPT !.loaded = FALSE]))
Start(c) == Bell(Load([c EXCEPT !.act = TRUE, !.loaded = FALSE]))
Engage(c) == [Load(c) EXCEPT !.act = TRUE]
NoWait(c) == [c EXCEPT !.fe1c = 0]
Empty(c) == [c EXCEPT !.data = "none", !.loaded = FALSE]
Rest(c)  == [Empty(c) EXCEPT !.act = FALSE]
Drop(c)  == [c EXCEPT !.resp_n = 0, !.resp_pos = 0]

Rewait(c, phase) == [c EXCEPT !.fe1c = phase]
Answer(c, n) == [c EXCEPT !.resp_n = n, !.resp_pos = 0]
Fill(c)  == IF c.loaded THEN c ELSE Load(c)
\* The drive's flag for the guest's next look at the interrupt register.
Force(c) == [c EXCEPT !.forced = TRUE]
\* A release of what the drive has scheduled is asked for (R918).
Ask(c)   == [c EXCEPT !.asked = TRUE]
\* The file layer is told of a sector: its counter (8006A22C), the slot bits
\* and the flag its collector looks at.
Tell(c)  == [c EXCEPT !.told = TRUE]

\* How it counts.  "watch": the polls in the posture since what it watches
\* changed; "tally": all polls in the posture; "strict": polls in the posture
\* without a break, "single" the same but it acts once; "hold": seconds since
\* what it watches changed, "overdue" the same, and it goes on acting;
\* "confirm": the same, once for what it watches, and looking only in the
\* posture; "look": it looks in the posture every WdHold seconds, and acts when
\* what it watches is as at the last look; "rest": seconds since it acted, none
\* of them when what it watches is new; "ask": a tally with no budget; "once":
\* at once; "free": at once, with no budget.
Dog(kind, limit, watched, posture, after) ==
  [kind |-> kind, limit |-> limit, watched |-> watched, posture |-> posture,
   after |-> IF posture THEN after ELSE << >>]

\* Seconds without a break in the posture.
Held(posture, after) == Dog("hold", WdHold, <<posture>>, posture, after)
=============================================================================
