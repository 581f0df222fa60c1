--------------------------- MODULE WaitWatchdogs ---------------------------
(***************************************************************************)
(* The watchdogs in what a waiting guest reads besides the drive's status  *)
(* port: the cells of its file layer, 8006A22C (the sector counter),       *)
(* 8004FE1C (the wait) and 8004FDFC (the door), whose reads the runtime    *)
(* sees in xenolift_mem_read32, and timer 2 (io_special_read, case 1110).  *)
(* The readers' own delivery of kicks is in module AnchorGuard.            *)
(***************************************************************************)
EXTENDS WatchdogCells

-----------------------------------------------------------------------------
(* The sector counter.                                                     *)

\* Every 64 reads; the release itself waits for the sync door (R918).
R1381(c) ==
  Dog("ask", WdSteps, << >>, TRUE,
      IF c.sched /\ ~c.act /\ NoneDue(c) THEN Ask(c) ELSE c)

\* The file layer waits for an answer that is there.
R1209(c) ==
  Dog("once", 0, << >>,
      c.fe1c = 9 /\ c.fdf8 = 0 /\ c.fe04 = 0 /\ c.pend # 0 /\ ~c.arm1,
      Ring(c))

\* One read arms it and the next one acts; a longer wait does not disarm it.
R1280(c) ==
  Dog("tally", 1, << >>,
      /\ c.seek \in TocBand /\ c.fdf8 = 0 /\ c.pend = 0 /\ c.cmd = 9
      /\ c.fe1c \in {0, 1, 6, 7, 10, 11},
      Start([Stamp(Arm(c)) EXCEPT !.sched = FALSE]))

R1290(c) ==
  Dog("strict", WdShort, << >>,
      /\ Beyond(c.seek) /\ Stamped(c) /\ Owed(c) /\ c.data = "none"
      /\ ~c.act /\ c.pend = 0 /\ c.cmd \in {1, 2},
      Engage(c))

-----------------------------------------------------------------------------
(* The wait cell.                                                          *)

R402(c) == Dog("free", 0, << >>, c.sched, Ask(c))

\* GetStat's answer is given in full.
R1267(c) ==
  Dog("strict", WdSteps, << >>,
      /\ c.cmd = 1 /\ c.fe1c \in {7, 10} /\ c.pend = 0 /\ c.resp_n < 3
      /\ c.fe04 = 0 /\ c.fdf8 = 0,
      [Answer(c, 3) EXCEPT !.full = 3, !.pend = 3])

R411(c) ==
  Dog("once", 0, << >>,
      /\ c.seek \in 108900..109149 /\ Stamped(c) /\ c.fdf8 \in 1..125303
      /\ c.act /\ c.loaded /\ c.pend = 0 /\ ~c.sched /\ c.cmd \in {6, 9},
      Force([c EXCEPT !.pend = 1]))

-----------------------------------------------------------------------------
(* The door cell.                                                          *)

R1491(c) ==
  Dog("strict", WdMiddle, << >>,
      c.fdfc = 1 /\ c.fe1c = 0 /\ c.fdf8 = 0 /\ c.fe04 = 0 /\ NoneDue(c) /\ ~c.sched,
      [c EXCEPT !.fdfc = 0])

-----------------------------------------------------------------------------
(* Timer 2, in the movie and field programs.                               *)

\* The sector that was read is taken for consumed.
Rdcomp(c) ==
  Dog("single", WdLong, << >>,
      c.era \in {"movie", "field"} /\ c.act /\ c.loaded /\ c.data = "whole" /\ c.fe1c = 6,
      Bell(Rewait(c, 1)))

InStream(c) == c.era = "movie" /\ c.fe20 \in {3, 4} /\ ~c.act

Seek7(c) ==
  Dog("single", WdLong, << >>, InStream(c) /\ c.fe1c = 7 /\ ~c.sought,
      Bell([Rewait(c, 6) EXCEPT !.sought = TRUE]))

\* A request of the batch is taken for read, the same one not twice running;
\* the first time the next file is asked for.
Fldret(c) ==
  LET back == [Rewait(c, 1) EXCEPT !.pend = 1, !.returned = c.fe04]
  IN  Dog("strict", WdMiddle, << >>,
          /\ c.era = "field" /\ c.fe1c \in {6, 7, 10, 11} /\ ~c.act /\ c.fdf8 = 0
          /\ c.fe04 \in 108593..108606 /\ c.fe04 # c.returned,
          IF c.returned # 0 THEN back
          ELSE [back EXCEPT !.fe04 = 108933, !.fdf8 = 125304, !.act = TRUE,
                            !.loaded = FALSE])

\* Once Seek7 has acted: the needle is put past the request.
Seek7x(c) ==
  Dog("single", WdMiddle, << >>, InStream(c) /\ c.sought /\ c.fe1c \in {7, 10, 11},
      Bell([c EXCEPT !.fe04 = @ + 1, !.seek = c.fe04 + 1]))

-----------------------------------------------------------------------------
WaitChain ==
  [a22c  |-> <<"R1381", "R1209", "R1280", "R1290">>,
   fe1c  |-> <<"R402", "R1267", "R411">>,
   fdfc  |-> <<"R1491">>,
   timer |-> <<"rdcomp", "seek7", "fldret", "seek7x">>]

WaitDog(w, c) ==
  CASE w = "R1381"  -> R1381(c)  [] w = "R1209"  -> R1209(c)
    [] w = "R1280"  -> R1280(c)  [] w = "R1290"  -> R1290(c)
    [] w = "R402"   -> R402(c)   [] w = "R1267"  -> R1267(c)
    [] w = "R411"   -> R411(c)   [] w = "R1491"  -> R1491(c)
    [] w = "rdcomp" -> Rdcomp(c) [] w = "seek7"  -> Seek7(c)
    [] w = "fldret" -> Fldret(c) [] w = "seek7x" -> Seek7x(c)
=============================================================================
