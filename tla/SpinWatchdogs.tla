--------------------------- MODULE SpinWatchdogs ---------------------------
(***************************************************************************)
(* The watchdogs in the reads of the drive's registers themselves          *)
(* (xenolift_mem_read8 and xenolift_mem_read16, source/runtime/runtime.c). *)
(* A guest that spins on a register enters no function, so nothing else    *)
(* runs.  They look at every read of 1F801800, 1802 and 1803, before the   *)
(* port's own chain (PortWatchdogs); reads of bytes and of halfwords count *)
(* apart.                                                                  *)
(***************************************************************************)
EXTENDS WatchdogCells

SpinSoon == WdSteps         \* 256 reads
SpinLate == WdSteps + 1     \* 512 and 4096

\* What the guest's collector and its callbacks are called for.
Undrained(c) == c.data = "whole"
Flushed(c) == [Empty(c) EXCEPT !.arm1 = FALSE, !.pend = 0]

\* One of the four below has the read to itself.
Turned(c) == [c EXCEPT !.pumping = TRUE]
Spin(kind, limit, c, posture, after) ==
  Dog(kind, limit, << >>, ~c.pumping /\ posture, Turned(after))

-----------------------------------------------------------------------------
\* A sector that was armed for the movie and never announced.
R645MV(c) ==
  Dog("tally", SpinLate, << >>,
      /\ c.seek >= 239000 /\ c.pend = 0 /\ c.arm1 /\ Undrained(c)
      /\ c.fdf8 > 0 /\ c.fe1c # 0,
      Ring(c))

\* The answer is put back, and the guest's handlers take the interrupt.
SpinConv(c) ==
  Spin("tally", SpinLate, c, c.pend # 0 /\ ~c.arm1 /\ c.fe1c # 0,
       Ring(Answer(c, c.full)))

\* An interrupt with nothing behind it, while nothing is read.
Orphan(c) == c.pend # 0 /\ ~c.arm1 /\ ~Undrained(c) /\ ~c.act

\* Mutant of SpinClear: a read under way is no reason to wait.
SpinClearReading(c) ==
  Spin("ask", SpinSoon, c, c.pend # 0 /\ ~c.arm1 /\ ~Undrained(c), [c EXCEPT !.pend = 0])

SpinClear(c) == Spin("ask", SpinSoon, c, Orphan(c), [c EXCEPT !.pend = 0])

\* A sector nobody asks for.
Leftover(c) == c.pend # 0 /\ ~c.arm1 /\ Undrained(c) /\ c.fdf8 = 0

SpinDiscard(c) == Spin("ask", SpinSoon, c, Leftover(c), Flushed(c))

\* A request that waits at a quiet drive, or a sector that lies there in the
\* middle of a read.  The sector is thrown away, and the guest's callbacks are
\* run for it.
Midstream(c) == c.act /\ Undrained(c) /\ c.fdf8 > 2048

SpinKick(c) ==
  Spin("ask", SpinSoon, c,
       /\ ~Orphan(c) /\ ~Leftover(c)
       /\ c.fe04 \notin {0, c.seek} \/ c.fdfc = 1
       /\ c.fe1c = 0 \/ Midstream(c)
       /\ c.pend <= 1 /\ ~c.sched /\ ~c.arm1,
       Ring(IF Undrained(c) THEN Flushed(c) ELSE c))

SpinLeave(c) == Dog("free", 0, << >>, c.pumping, [c EXCEPT !.pumping = FALSE])

-----------------------------------------------------------------------------
\* xenolift_mem_read8 and xenolift_mem_read16.
ByteChain ==
  <<"R645MV", "spin conv", "spin clear", "spin discard", "spin kick", "spin leave">>
HalfChain ==
  <<"R645MV half", "spin conv half", "spin clear half", "spin discard half",
    "spin kick half", "spin leave">>

SpinDog(w, c) ==
  CASE w \in {"R645MV", "R645MV half"}             -> R645MV(c)
    [] w \in {"spin conv", "spin conv half"}       -> SpinConv(c)
    [] w \in {"spin clear", "spin clear half"}     -> SpinClear(c)
    [] w \in {"spin discard", "spin discard half"} -> SpinDiscard(c)
    [] w \in {"spin kick", "spin kick half"}       -> SpinKick(c)
    [] w = "spin leave"                            -> SpinLeave(c)
=============================================================================
