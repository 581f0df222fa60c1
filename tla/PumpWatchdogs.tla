--------------------------- MODULE PumpWatchdogs ---------------------------
(***************************************************************************)
(* The pump of the file layer (xenolift_trace, runtime.c:27461-28805): when *)
(* the guest looks for the drive's events (80041410, 800415B4, 80042A54)   *)
(* and an interrupt or a request has been left lying, the runtime runs the *)
(* guest's handlers and its collector, and on the way it serves what has   *)
(* been seen in the same posture twice.  Its lock is in module AnchorGuard;*)
(* the entry for a scheduled answer (R1351), the collector's spin kick     *)
(* (kick3) and first-fault mode are left out.                              *)
(***************************************************************************)
EXTENDS WatchdogCells

\* What is found on entry is acted upon at the end, whatever happens between.
AtRequest(c) == c.fe04 \in {0, c.seek}
Kicks(c)     == ~AtRequest(c) /\ NoneDue(c) /\ ~c.sched

\* A request that was noted when it was made, and overwritten before it began.
Lost(c) ==
  /\ c.noted.lba \notin {0, c.fe04} /\ c.fe1c = 0 /\ c.fdf8 >= c.noted.len
  /\ c.pend <= 1 /\ ~c.sched /\ ~c.arm1

LostRequest(c) ==
  Dog("ask", WdSteps, << >>, Lost(c), [c EXCEPT !.kicks = {"lost"}])

Stale(c) == c.fe1c = 6 /\ c.fdf8 = 0 /\ ~c.act /\ ~c.sched /\ c.pend = 0

PumpEntry(c) ==
  LET kicks == c.kicks \cup (IF Kicks(c) THEN {"request"} ELSE {})
  IN  Dog("free", 0, << >>, TRUE,
          [c EXCEPT !.kicks = kicks, !.pumping = c.pend # 0 \/ kicks # {} \/ Stale(c)])

\* A step of the pump.
Pump(kind, limit, watched, posture, c, after) ==
  Dog(kind, limit, watched, c.pumping /\ posture, after)

Idle(c)    == c.fe1c \in {0, 6, 7, 10, 11}
Filled(c)  == c.data # "none"
Forced(c)  == Force([c EXCEPT !.pend = 1])

-----------------------------------------------------------------------------
(* A sector of the field stream, or of the file behind it, that lies there. *)

ZrfD2S(c) ==
  Pump("once", 0, << >>,
       /\ c.seek \in 250000..252000 /\ c.fdf8 \in 1..399999 /\ Filled(c)
       /\ c.fe1c \in {0, 1, 2, 6, 7, 10, 11},
       c, Bell(c))

Fld2a(c) ==
  Pump("free", 0, << >>,
       /\ c.sched /\ NoneDue(c) /\ c.loaded /\ c.data = "whole" /\ c.cmd = 2
       /\ c.seek >= 108900 /\ c.fdf8 = 0,
       c, Forced(c))

Fld2b(c) ==
  Pump("free", 0, << >>,
       /\ c.sched \/ c.act
       /\ NoneDue(c) /\ c.cmd = 2 /\ c.seek >= 108995 /\ c.fdf8 = 0 /\ Filled(c),
       c, Forced(c))

\* The guest's handlers are run for an interrupt that is up.
Convert(c) == Pump("free", 0, << >>, c.pend # 0 /\ ~c.arm1, c, Ring(c))

\* A wait with nothing to read is given up, the second time it is seen.
Retire(c) ==
  Pump("strict", 2, << >>, c.fe1c # 0 /\ c.fdf8 = 0 /\ c.era # "movie",
       c, [NoWait(c) EXCEPT !.fe04 = 0])

-----------------------------------------------------------------------------
(* Requests of no length.  The first look at one arms it, the second serves *)
(* it; it is disarmed when the request, or the needle's band, changes.      *)

\* A read of file 14 is served at once; when the guest has not taken the
\* step to the next sector itself, the pump takes it for the guest.
File14(c) == c.sched /\ c.fe04 \in 108933..108994

Stepped(c) ==
  IF c.seek >= 108933 /\ File14(c)
  THEN [c EXCEPT !.fe04 = IF @ = c.handed THEN @ + 1 ELSE @, !.handed = c.fe04]
  ELSE c

ZrfServed(c) == Bell(Load(IF File14(c) THEN [c EXCEPT !.windowed = c.fe04] ELSE c))

Zrf(c) ==
  Pump("watch", IF File14(c) /\ c.windowed # c.fe04 THEN 0 ELSE 1, <<c.fe04>>,
       /\ c.era = "movie" \/ c.seek >= 108900
       /\ c.fe04 # 0 /\ c.fdf8 = 0 /\ c.fe1c \in {6, 7, 10, 11} /\ c.dest # "ram",
       c, Stepped(ZrfServed(c)))

\* (era # "boot" is the main loop, g_r1517_inloop.)
Zrf0(c) ==
  Pump("watch", 1, <<c.seek \in TocBand>>,
       c.era # "boot" /\ c.seek \in TocBand /\ c.fdf8 = 0 /\ Filled(c) /\ Idle(c),
       c, Bell(Arm(c)))

ZrfF2(c) ==
  Pump("watch", 1, <<c.seek \in 120000..121000>>,
       c.seek \in 120000..121000 /\ c.fdf8 \in 1..299999 /\ Filled(c) /\ Idle(c),
       c, Bell(c))

\* The read is taken up; its sector is left to the port.
TakeUp(c) == Bell([Stamp(Arm(c)) EXCEPT !.act = TRUE, !.loaded = FALSE, !.sched = FALSE])

ZrfS(c) ==
  Pump("watch", 1, <<c.seek \in 239317..239600>>,
       /\ c.seek \in 239317..239600 /\ c.fdf8 = 0 /\ Idle(c)
       /\ ~c.act /\ c.pend = 0 /\ c.cmd = 9,
       c, TakeUp(c))

\* The same for a transfer past the file layer (cd_x_live).
ZrfY(c) ==
  Pump("watch", 1, <<c.seek \in TocBand>>,
       /\ c.seek \in TocBand /\ c.fdf8 = 0 /\ Idle(c) /\ c.direct /\ ~Filled(c)
       /\ ~c.act /\ c.pend = 0,
       c, TakeUp(c))

-----------------------------------------------------------------------------
(* The kicks decided on entry, and the collector.  A kick throws the unread *)
(* sector away, and the guest's own callback starts the request.            *)

Flush(c) ==
  IF c.data = "whole" THEN [Empty(c) EXCEPT !.arm1 = FALSE] ELSE c

Kick(c) == Pump("free", 0, << >>, "request" \in c.kicks, c, Ring(Flush(c)))

Restore(c) ==
  Pump("free", 0, << >>, "lost" \in c.kicks, c,
       Ring([Flush(c) EXCEPT !.fe04 = c.noted.lba, !.fdf8 = c.noted.len,
                             !.noted = [lba |-> 0, len |-> 0]]))

Collect(c) == Pump("free", 0, << >>, TRUE, c, Ring(c))

\* What was forced in this pump, or before it, runs the handlers once more.
IrqForced(c) ==
  Pump("free", 0, << >>, c.forced, c, Bell([c EXCEPT !.forced = FALSE]))

PumpLeave(c) ==
  LET out == [c EXCEPT !.pumping = FALSE, !.kicks = {}]
  IN  Pump("free", 0, << >>, TRUE, c,
           IF c.fe1c = 5 /\ c.fdf8 = 0 THEN NoWait(out) ELSE out)

-----------------------------------------------------------------------------
PumpChain ==
  <<"kick2", "pump", "zrfD2S", "fld2a", "fld2b", "conv", "retire", "zrf", "zrf0", "zrfF2",
    "zrfS", "zrfY", "kick", "kick2 restore", "collect", "irq force", "pump leave">>

PumpDog(w, c) ==
  CASE w = "kick2"  -> LostRequest(c) [] w = "pump"  -> PumpEntry(c)
    [] w = "zrfD2S" -> ZrfD2S(c)  [] w = "fld2a"  -> Fld2a(c)
    [] w = "fld2b"  -> Fld2b(c)   [] w = "conv"   -> Convert(c)
    [] w = "retire" -> Retire(c)  [] w = "zrf"    -> Zrf(c)
    [] w = "zrf0"   -> Zrf0(c)    [] w = "zrfF2"  -> ZrfF2(c)
    [] w = "zrfS"   -> ZrfS(c)    [] w = "zrfY"   -> ZrfY(c)
    [] w = "kick"   -> Kick(c)    [] w = "kick2 restore" -> Restore(c)
    [] w = "collect" -> Collect(c) [] w = "irq force" -> IrqForced(c)
    [] w = "pump leave" -> PumpLeave(c)
=============================================================================
