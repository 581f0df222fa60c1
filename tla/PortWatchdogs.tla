--------------------------- MODULE PortWatchdogs ---------------------------
(***************************************************************************)
(* The watchdogs in the status port of the drive (cd_read_impl, case 1800, *)
(* source/runtime/runtime.c).  Every read of the port runs the chain from  *)
(* its top.  Not in the chain: the doors that ask for a special            *)
(* destination (FE08), R1422A's and R1423A's one-shot copies, the chains   *)
(* of GetTN and of the live stream, and the cameras.                       *)
(***************************************************************************)
EXTENDS WatchdogCells

-----------------------------------------------------------------------------
(* The chain, from its top.                                                *)

R1451(c) == Dog("tally", WdMiddle, << >>, Unread(c) /\ Dead(c) /\ c.fdf8 = 0, Drop(c))

R1459V(c) ==
  Dog("watch", WdLong, <<c.seek, c.cmd, c.resp_n, c.sched>>,
      /\ c.seek \in TocBand /\ c.fe04 = 0 /\ c.fdf8 = 0
      /\ Dead(c) /\ c.sched /\ c.cmd = 1 /\ Unread(c),
      Start(Stamp(c)))

R1459X(c) ==
  Dog("watch", WdLong, <<c.seek, c.resp_n, c.resp_pos, c.fdf8>>,
      /\ c.seek \in FileBand /\ c.fe04 = 0 /\ c.fdf8 = 0
      /\ ~c.act /\ ~c.arm1 /\ c.sched /\ Unread(c),
      Start(Stamp(c)))

R1467A(c) ==
  Dog("watch", WdLong, <<c.seek, c.cmd, c.fdf8>>,
      /\ c.seek \in FileBand /\ Stamped(c) /\ Armed(c)
      /\ Dead(c) /\ ~c.sched /\ c.cmd = 9 /\ c.fe1c \in {0, 6},
      Start(c))

R1464C(c) ==
  Dog("watch", WdLong, <<c.seek, c.cmd, c.resp_n, c.fdf8, c.sched>>,
      /\ c.seek \in FileBand /\ Stamped(c) /\ Armed(c)
      /\ Dead(c) /\ c.sched /\ c.cmd = 9 /\ c.fe1c = 6,
      Start(c))

\* The posture of the pause that never starts, with a response still due.
PausePending(c) ==
  /\ c.seek \in FileBand /\ Stamped(c) /\ Armed(c)
  /\ ~c.act /\ ~c.arm1 /\ c.pend >= 1 /\ c.cmd = 9 /\ c.fe1c = 6

R1473(c) ==
  LET match == PausePending(c) /\ c.sched
  IN  Dog("hold", WdHold, IF match THEN <<c.seek, c.fdf8>> ELSE << >>, match, Start(c))

R1475(c) ==
  Dog("hold", WdHold, IF PausePending(c) THEN <<c.seek, c.fdf8>> ELSE << >>,
      PausePending(c) /\ c.sched, Start(c))

R1452(c) ==
  Dog("watch", WdLong, <<c.fe1c = 1>>,
      Beyond(c.seek) /\ c.fe1c = 1 /\ c.fdf8 = 0 /\ Dead(c) /\ ~c.sched /\ Emptied(c),
      NoWait(c))

R1464I(c) ==
  Dog("watch", WdMiddle, <<c.seek, c.fdf8, c.fe1c>>,
      /\ c.seek \in MovieBand /\ Stamped(c) /\ Armed(c)
      /\ ~c.act /\ c.pend = 0 /\ c.sched /\ c.cmd = 9 /\ c.fe1c = 6,
      Start(c))

R1464J(c) ==
  Dog("rest", 1, <<c.seek>>,
      /\ c.seek \in FileBand /\ c.fdf8 = 0 /\ NoneDue(c)
      /\ Stamped(c) \/ (Beyond(c.fe04) /\ c.seek - c.fe04 \in 1..64)
      /\ c.cmd \in {2, 6, 9} /\ c.fe1c \in {0, 1, 6},
      Start(Stamp(Arm(c))))

R1467M(c) ==
  Dog("strict", WdMiddle, << >>,
      /\ c.seek \in 100000..199999 /\ c.fdf8 = 2048
      /\ Dead(c) /\ ~c.sched /\ c.cmd = 9 /\ c.fe1c = 6,
      Start(c))

R1467N2(c) ==
  Dog("hold", WdHold, <<c.seek, c.cmd, c.fdf8>>,
      /\ c.seek \in FileBand /\ Stamped(c) /\ Armed(c)
      /\ NoneDue(c) /\ c.sched /\ c.cmd = 9 /\ c.fe1c = 6,
      IF c.act THEN Bell(c) ELSE Start(c))

R1453(c) ==
  Dog("watch", WdLong, <<c.seek, c.fdf8>>,
      c.seek \in FieldBand /\ Stamped(c) /\ Armed(c) /\ NoneDue(c) /\ ~c.sched,
      Start(c))

R1454(c) ==
  Dog("watch", WdLong, <<c.seek, c.fdf8>>,
      c.seek \in FieldBand /\ c.fdf8 = 0 /\ Dead(c) /\ ~c.sched,
      Start(Stamp(Arm(c))))

R1455(c) ==
  Dog("watch", WdLong, <<c.seek, c.fdf8>>,
      /\ c.seek \in TocBand /\ Stamped(c) /\ c.fdf8 = 2048
      /\ NoneDue(c) /\ ~c.sched /\ c.cmd = 6,
      Start(c))

\* The owed answer is started again when a response is scheduled.
R1458(c) ==
  LET owed == [Stamp(Drop(c)) EXCEPT !.act = TRUE, !.loaded = FALSE]
  IN  Dog("watch", WdMiddle, <<c.seek, c.cmd, c.resp_n, c.resp_pos, c.fdf8, c.fe1c>>,
          Unread(c),
          IF ~c.sched THEN Drop(c) ELSE Bell(IF c.fdf8 = 0 THEN Load(owed) ELSE owed))

R1459T(c) ==
  Dog("watch", WdLong, <<c.seek, c.cmd, c.resp_n, c.resp_pos, c.fdf8>>,
      /\ c.seek \in TocBand /\ c.fe04 = 0 /\ Armed(c)
      /\ c.act /\ c.pend = 0 /\ c.fe1c \in 10..12,
      NoWait(Bell(Load(Stamp(c)))))

R1459U(c) ==
  Dog("watch", WdLong, <<c.seek, c.fdf8, c.fe04, c.cmd>>,
      /\ c.fe04 \in TocBand /\ ~Stamped(c) /\ c.fdf8 \in 1..499999
      /\ c.act /\ NoneDue(c) /\ ~c.sched /\ c.fe1c = 1,
      NoWait(Bell(Load(Aim(c)))))

R1465A(c) ==
  Dog("watch", WdLong, <<c.seek, c.cmd, c.resp_n, c.resp_pos, c.fdf8, c.fe04>>,
      /\ c.seek \in FileBand /\ ~Stamped(c) /\ c.fdf8 \in 2048..500000
      /\ c.act /\ c.pend = 0 /\ c.cmd \in {1, 2} /\ c.fe1c \in {1, 10, 11, 12},
      NoWait(Bell(Load(Stamp(c)))))

R1466A(c) ==
  Dog("rest", WdHold, << >>,
      /\ c.seek \in FileBand /\ Stamped(c) /\ c.fdf8 = 0
      /\ NoneDue(c) /\ c.cmd \in {2, 6} /\ c.fe1c \in {0, 1},
      Start(Arm(c)))

\* "Serve on demand".
OnDemand(c) == Dog("free", 0, << >>, c.act /\ ~c.loaded, Load(c))

\* Under SetLoc: leftovers that no read owns are thrown away ...
R1341(c) ==
  Dog("free", 0, << >>,
      c.cmd = 2 /\ c.fe1c = 1 /\ ~c.act /\ (c.pend # 0 \/ c.data # "none"),
      Empty([c EXCEPT !.pend = 0]))

\* ... and its answer is given again.
Fassist(c) ==
  Dog("once", 0, << >>,
      /\ c.cmd = 2 /\ c.fe1c = 1 /\ c.fe04 # 0 /\ Stamped(c)
      /\ c.pend = 0 /\ c.data = "none" /\ c.resp_n < 3,
      [c EXCEPT !.resp_n = 3, !.resp_pos = 0, !.full = 3, !.pend = 3])

\* FLDBELL: a read that owes nothing is taken for done.
Fldbell(c) ==
  Dog("once", 0, << >>,
      /\ c.act /\ c.fe1c \in {0, 10} /\ c.cmd = 1 /\ c.resp_n = 0
      /\ NoneDue(c) /\ c.fdf8 = 0,
      IF c.data = "whole" THEN Rest(c) ELSE [c EXCEPT !.act = FALSE])

\* A drained answer is given again; in the field band GetStat's has three
\* bytes while a response is scheduled.
Reprime(c) ==
  LET whole == c.full > 1 /\ c.cmd # 1
      acks  == c.cmd = 1 /\ c.sched /\ c.seek \in 108933..108995
  IN  Dog("once", 0, << >>,
          c.resp_pos >= c.resp_n /\ ~c.act /\ (c.pend # 0 \/ c.cmd # 0),
          [c EXCEPT !.resp_pos = 0,
                    !.resp_n = CASE acks -> 3 [] whole -> c.full [] OTHER -> 1])

R1282(c) ==
  Dog("strict", WdShort, << >>,
      /\ c.seek \in TocBand /\ c.fe04 \in {0, c.seek} /\ c.fdf8 = 2048
      /\ ~c.act /\ c.pend = 0 /\ c.cmd \in {1, 2},
      Engage(c))

R1285(c) ==
  Dog("strict", WdShort, << >>,
      /\ Beyond(c.seek) /\ Stamped(c) /\ Owed(c)
      /\ ~c.act /\ c.pend = 0 /\ c.cmd \in {1, 2, 6, 9},
      Engage(c))

R702W(c) ==
  Dog("strict", WdShort, << >>,
      WalkedOver(c) /\ Owed(c) /\ ~c.act /\ c.pend = 0 /\ c.fe1c # 0,
      Engage(Aim(c)))

R1436A(c) ==
  Dog("strict", WdShort, << >>,
      /\ c.seek \in FileBand /\ c.fdf8 = 0
      /\ c.act /\ c.pend = 0 /\ c.cmd = 2 /\ c.fe1c # 0,
      Rest(c))

R735A(c) ==
  Dog("strict", WdShort, << >>,
      /\ Beyond(c.fe04) /\ Stamped(c) /\ Owed(c) /\ c.loaded /\ c.data = "whole"
      /\ ~c.act /\ (c.pend # 0 \/ c.sched) /\ c.cmd = 9 /\ c.fe1c = 6,
      Engage(c))

R791A(c) ==
  Dog("strict", WdShort, << >>,
      /\ Beyond(c.seek) /\ Stamped(c) /\ Owed(c)
      /\ c.act /\ c.pend = 0 /\ ~c.sched /\ c.cmd \in {2, 6} /\ c.fe1c <= 1,
      Load(c))

R1421A(c) ==
  Dog("once", 0, << >>,
      /\ c.seek \in 100000..300000 /\ Stamped(c) /\ c.fdf8 = 0 /\ ~c.loaded
      /\ ~c.act /\ c.cmd = 2 /\ c.fe1c = 1 /\ c.resp_n \in 1..4,
      Ring(c))

\* A sector was loaded since its last look; if nothing was loaded up to the
\* next look the guest does not count it, and R1426A does.  Nothing in the
\* table band asks again, so its four times are not reached.
R1426A(c) ==
  Dog("free", 0, << >>,
      /\ c.seek \in TocBand /\ c.fe04 \in {0, c.seek} /\ c.fdf8 = 2048 /\ c.pend = 0
      /\ c.new \/ c.due,
      IF c.new THEN [c EXCEPT !.new = FALSE, !.due = TRUE]
      ELSE [c EXCEPT !.due = FALSE, !.fdf8 = 0])

R1427A(c) ==
  Dog("strict", WdSteps, << >>,
      Stamped(c) /\ c.fdf8 > 0 /\ c.data = "none" /\ c.pend = 0 /\ c.cmd = 6,
      Engage(c))

R1428A(c) ==
  Dog("strict", WdSteps, << >>,
      c.seek \in 239300..252000 /\ c.fdf8 = 0 /\ c.fe1c \in 1..31 /\ c.pend = 0,
      NoWait(c))

R1460F(c) ==
  Dog("strict", WdShort, << >>,
      c.seek \in FileBand /\ c.fe1c = 1 /\ c.fdf8 = 0 /\ NoneDue(c) /\ ~c.sched /\ Emptied(c),
      NoWait(Rest(c)))

R1461S(c) ==
  Dog("strict", WdShort, << >>,
      /\ c.seek \in FieldBand /\ Stamped(c) /\ Armed(c)
      /\ c.act /\ NoneDue(c) /\ ~c.sched /\ c.cmd \in {6, 13},
      Bell(Load([c EXCEPT !.data = "none"])))

R1430A(c) ==
  Dog("strict", WdSteps, << >>,
      /\ Stamped(c) /\ c.fdf8 > 0 /\ c.data # "none"
      /\ c.pend = 0 /\ c.fe1c = 0 /\ c.cmd = 6,
      Ring(c))

R702G(c) ==
  Dog("strict", WdShort, << >>,
      WalkedOver(c) /\ Owed(c) /\ ~c.act /\ c.pend = 0 /\ c.cmd = 9 /\ c.fe1c = 6,
      Engage(Aim(c)))

PortChain ==
  <<"R1451", "R1459V", "R1459X", "R1467A", "R1464C", "R1473", "R1475", "R1452",
    "R1464I", "R1464J", "R1467M", "R1467N2", "R1453", "R1454", "R1455", "R1458",
    "R1459T", "R1459U", "R1465A", "R1466A", "on demand", "R1341", "fassist",
    "fldbell", "re-prime", "R1282", "R1285", "R702W", "R1436A", "R735A", "R791A",
    "R1421A", "R1426A", "R1427A", "R1428A", "R1460F", "R1461S", "R1430A", "R702G">>

PortDog(w, c) ==
  CASE w = "R1451"   -> R1451(c)   [] w = "R1459V" -> R1459V(c)
    [] w = "R1459X"  -> R1459X(c)  [] w = "R1467A" -> R1467A(c)
    [] w = "R1464C"  -> R1464C(c)  [] w = "R1473"  -> R1473(c)
    [] w = "R1475"   -> R1475(c)   [] w = "R1452"  -> R1452(c)
    [] w = "R1464I"  -> R1464I(c)  [] w = "R1464J" -> R1464J(c)
    [] w = "R1467M"  -> R1467M(c)  [] w = "R1467N2" -> R1467N2(c)
    [] w = "R1453"   -> R1453(c)   [] w = "R1454"  -> R1454(c)
    [] w = "R1455"   -> R1455(c)   [] w = "R1458"  -> R1458(c)
    [] w = "R1459T"  -> R1459T(c)  [] w = "R1459U" -> R1459U(c)
    [] w = "R1465A"  -> R1465A(c)  [] w = "R1466A" -> R1466A(c)
    [] w = "on demand" -> OnDemand(c) [] w = "R1341" -> R1341(c)
    [] w = "fassist" -> Fassist(c) [] w = "fldbell" -> Fldbell(c)
    [] w = "re-prime" -> Reprime(c) [] w = "R1426A" -> R1426A(c)
    [] w = "R1282"   -> R1282(c)   [] w = "R1285"  -> R1285(c)
    [] w = "R702W"   -> R702W(c)   [] w = "R1436A" -> R1436A(c)
    [] w = "R735A"   -> R735A(c)   [] w = "R791A"  -> R791A(c)
    [] w = "R1421A"  -> R1421A(c)  [] w = "R1427A" -> R1427A(c)
    [] w = "R1428A"  -> R1428A(c)  [] w = "R1460F" -> R1460F(c)
    [] w = "R1461S"  -> R1461S(c)  [] w = "R1430A" -> R1430A(c)
    [] w = "R702G"   -> R702G(c)
=============================================================================
