--------------------------- MODULE SeamWatchdogs ---------------------------
(***************************************************************************)
(* The watchdogs that the runtime runs when the guest calls a function     *)
(* (xenolift_trace): any function, the wait for data (8004293C), the file  *)
(* layer's sync (800286CC), the movie loop (8007670C, 800767DC) and the    *)
(* reader of file 18 (80019BD0).  A burst of deliveries goes on only while *)
(* the request shrinks, so for a guest that hangs it is one ring.          *)
(***************************************************************************)
EXTENDS WatchdogCells

-----------------------------------------------------------------------------
(* Any function.                                                           *)

\* A sector of the field stream that nobody was told of is announced ...
R466(c) ==
  Dog("overdue", WdHold, << >>,
      c.seek >= 108900 /\ c.fed /\ c.data # "none" /\ NoneDue(c) /\ c.fdf8 > 0,
      [c EXCEPT !.arm1 = TRUE])

\* ... the announcement becomes an interrupt ...
R468(c) ==
  Dog("overdue", WdHold, << >>,
      /\ c.seek >= 108900 /\ c.fed /\ c.data # "none" /\ c.fdf8 > 0
      /\ c.arm1 /\ c.pend = 0,
      Force(Fill([Answer(c, 1) EXCEPT !.arm1 = FALSE, !.pend = 1])))

\* ... and a stream with no sector gets one.
R465(c) ==
  Dog("overdue", WdHold, << >>,
      /\ c.seek >= 108900 \/ c.seek <= 1000
      /\ c.fed /\ c.data = "none" /\ NoneDue(c) /\ c.fdf8 > 0 /\ (c.sched \/ c.act),
      [c EXCEPT !.pend = 1])

R470(c) ==
  Dog("overdue", WdHold, <<c.pend, c.resp_n, c.cmd, c.fe1c>>,
      /\ c.seek >= 108900 /\ c.data # "none" /\ c.fdf8 > 0
      /\ c.pend # 0 /\ c.resp_n = 0 /\ c.cmd = 9 /\ c.fe1c = 10,
      [Rewait(Answer(c, 3), 6) EXCEPT !.full = 3])

Staging(c) == Bell(Answer(Load(c), 1))

R1432A(c) ==
  Dog("look", WdHold, <<c.fdf8>>,
      Unstaged(c) /\ c.seek \in FileBand /\ c.cmd \in {2, 6, 14},
      Staging(c))

\* The same for the field program, at any sector.
Sgarm(c) ==
  Dog("look", WdHold, <<c.fdf8>>,
      Unstaged(c) /\ c.overlay /\ c.cmd \in {2, 6, 14},
      Staging(c))

R1467B(c) ==
  Dog("confirm", WdHold, <<c.seek, c.cmd, c.fdf8>>,
      /\ c.seek \in FileBand /\ Stamped(c) /\ Armed(c)
      /\ Dead(c) /\ c.loaded /\ ~c.sched /\ c.cmd \in {2, 6},
      Tell(Start(c)))

R1467C(c) ==
  Dog("confirm", WdHold, <<c.seek, c.cmd, c.fdf8>>,
      /\ c.seek \in FileBand /\ Stamped(c) /\ Armed(c)
      /\ c.act /\ c.loaded /\ NoneDue(c) /\ ~c.sched /\ c.cmd \in {2, 6} /\ c.fe1c = 1,
      Tell(Bell(c)))

R1467E(c) ==
  Held(/\ c.seek \in 110000..119999 /\ Stamped(c) /\ c.fdf8 \in 1..262144
       /\ c.act /\ NoneDue(c) /\ ~c.sched /\ c.cmd = 2 /\ c.fe1c = 12,
       Tell(Start(c)))

R1466B(c) ==
  Dog("rest", 1, <<c.seek>>,
      /\ c.seek \in FileBand /\ c.fdf8 = 0 /\ NoneDue(c)
      /\ Stamped(c) \/ (Beyond(c.fe04) /\ c.seek - c.fe04 \in 1..64)
      /\ c.cmd \in {2, 6, 9} /\ c.fe1c \in {0, 1, 6},
      Tell(Start(Stamp(Arm(c)))))

R1466W(c) ==
  Held(/\ c.seek \in FileBand /\ c.fdf8 = 0 /\ c.act /\ ~c.loaded
       /\ NoneDue(c) /\ ~c.sched /\ c.cmd = 2 /\ c.fe1c = 6,
       Start(Stamp(Arm(c))))

Dscv(c) ==
  Dog("tally", WdSteps, << >>,
      /\ c.seek \in 250000..252000 /\ c.fdf8 > 0 /\ c.fe1c # 0
      /\ c.pend # 0 /\ ~c.arm1 /\ c.data # "none",
      Force(Fill([Answer(c, 1) EXCEPT !.pend = 1])))

\* The needle is aimed at the request, at every request once.
R1298(c) ==
  Dog("hold", WdHold, <<c.fdf8, c.fe04>>,
      /\ c.fe04 \in FileBand /\ c.fe04 \notin c.aimed /\ ~Stamped(c) /\ Armed(c)
      /\ ~c.act /\ ~c.loaded /\ c.data = "none" /\ ~c.sched /\ c.pend = 0
      /\ c.cmd \in {2, 6},
      Start(Aim([c EXCEPT !.aimed = @ \cup {c.fe04}])))

MoviePause(c) == c.seek \in MovieBand /\ Stamped(c) /\ Armed(c) /\ ~c.act /\ c.pend = 0

R1464D(c) ==
  Dog("watch", WdLong, <<c.seek, c.fdf8, c.fe1c>>,
      MoviePause(c) /\ ~c.arm1 /\ ~c.sched /\ c.cmd = 9 /\ c.fe1c = 6, Start(c))

R1464E(c) ==
  Dog("watch", WdMiddle, <<c.seek, c.fdf8, c.fe1c>>,
      MoviePause(c) /\ c.sched /\ c.cmd = 9 /\ c.fe1c = 6, Start(c))

R1464F(c) ==
  Dog("watch", WdMiddle, <<c.seek, c.fdf8, c.fe1c>>,
      MoviePause(c) /\ ~c.arm1 /\ ~c.sched /\ c.dest = "ram", Start(c))

-----------------------------------------------------------------------------
(* The wait for data.                                                      *)

\* Of the calls whose answer is as the last one's every 65536th counts.
R1429A(c) ==
  Dog("strict", WdSteps, << >>,
      /\ c.seek \in 239300..252000 \/ c.seek \in 120000..121000
      /\ c.fdf8 = 0 /\ c.fe1c \in 1..31 /\ c.pend = 0,
      NoWait(c))

R1432C(c) ==
  Dog("look", WdHold, <<c.fdf8>>,
      Unstaged(c) /\ c.seek \in FileBand /\ c.cmd \in {2, 6, 14},
      Staging(c))

R1464B(c) ==
  Dog("look", WdHold, <<c.fdf8>>,
      /\ c.seek \in FileBand /\ Stamped(c) /\ Armed(c)
      /\ Dead(c) /\ ~c.sched /\ c.fe1c = 1 /\ c.cmd \in {2, 6, 13},
      Start(c))

R1468(c) ==
  Dog("once", 0, << >>, c.fe1c = 6 /\ c.fdf8 = 2048 /\ c.fe04 \in 100000..200000,
      Tell(Start(c)))

\* What is scheduled is answered; the wait under Setmode is over with it.
VirtualInt3(c) ==
  Dog("free", 0, << >>, c.sched /\ c.pend = 0,
      [Answer(IF c.cmd = 14 THEN NoWait(c) ELSE c, c.full)
         EXCEPT !.sched = FALSE, !.pend = 3])

-----------------------------------------------------------------------------
(* The sync of the file layer.                                             *)

TakenUp(c) ==
  /\ Beyond(c.seek) /\ Stamped(c) /\ c.data = "whole"
  /\ c.act /\ c.loaded /\ c.pend = 0 /\ ~c.sched /\ c.cmd \in {6, 9}

R722A(c) ==
  Dog("strict", WdShort, << >>,
      TakenUp(c) /\ Owed(c) /\ (c.fdfc # 0 \/ c.seek \in 120000..120999),
      Tell(c))

R722C(c) ==
  Dog("strict", WdShort, << >>,
      TakenUp(c) /\ c.seek \in 120000..120999 /\ c.fdf8 = 0 /\ c.fe1c = 0,
      Tell(c))

R1459W(c) ==
  Dog("watch", WdLong, <<c.fe1c, c.seek, c.cmd>>,
      Dead(c) /\ ~c.sched /\ c.fdf8 = 0 /\ c.fe04 = 0 /\ c.fdfc = 0 /\ c.fe1c # 0,
      NoWait(c))

\* The release that was asked for, as far as a hung guest gets it
\* (cd_sched_poll_release; its other postures are in module CdController).
R918(c) ==
  LET over   == /\ c.cmd \in {2, 6, 9} /\ c.fe1c = 0 /\ c.fdf8 = 0 /\ c.seek # 0
                /\ Stamped(c) \/ (c.fe04 = 0 /\ c.seek \in FileBand)
      aimed  == c.cmd \in {2, 6} /\ c.seek # 0 /\ Stamped(c) /\ c.fdf8 # 0
      spent  == c.resp_pos >= c.resp_n
      waited == \/ aimed /\ (c.fe1c \in {1, 2} \/ (c.fe1c = 10 /\ spent))
                \/ c.cmd = 1 /\ c.fe1c \in {10, 11} /\ (spent \/ (c.resp_n = 1 /\ c.resp_pos = 0))
                \/ c.cmd = 19 /\ c.fe1c = 11
      asked  == [c EXCEPT !.asked = FALSE]
  IN  Dog("free", 0, << >>, c.asked,
          IF c.sched /\ c.pend = 0 /\ (over \/ waited)
          THEN [Answer(asked, c.full) EXCEPT !.sched = FALSE, !.pend = 3]
          ELSE asked)

\* A batch of sectors, told one by one.
R1461SSync(c) ==
  Dog("strict", WdShort, << >>,
      /\ c.seek \in FieldBand \/ c.seek \in 120000..121000 \/ c.seek \in 250000..251000
      /\ Stamped(c) /\ c.fdf8 \in 64..500000 /\ c.dest \in {"ram", "one"}
      /\ c.act /\ NoneDue(c) /\ ~c.sched /\ c.cmd \in {1, 2, 6, 13},
      Bell(Load([c EXCEPT !.loaded = FALSE])))

R1464A(c) ==
  Dog("strict", WdShort, << >>,
      /\ c.seek \in FileBand /\ Stamped(c) /\ Armed(c)
      /\ Dead(c) /\ ~c.sched /\ c.fe1c = 1 /\ c.cmd \in {2, 6, 13},
      Start(c))

R1462D(c) ==
  Dog("strict", WdShort, << >>,
      /\ c.seek \in FileBand /\ c.fe1c = 1 /\ c.fdf8 = 0
      /\ NoneDue(c) /\ ~c.sched /\ c.resp_n = 0,
      NoWait(Rest(c)))

\* Four postures ask for the release; R1412A and R1407C do so with nothing
\* scheduled, R1407D and R1407B with an answer pending, when it does nothing.
Aimed(c) == c.seek # 0 /\ Stamped(c) /\ c.fdf8 # 0

R1412A(c) ==
  Dog("ask", WdSteps, << >>,
      /\ c.seek \in 239000..240000 /\ Aimed(c) /\ ~c.sched /\ c.pend = 3 /\ c.act
      /\ c.cmd \in {2, 6} /\ c.fe1c = 2,
      Ask(c))

R1407(c) ==
  Dog("ask", WdSteps, << >>,
      Aimed(c) /\ c.sched /\ NoneDue(c) /\ c.act /\ c.cmd \in {2, 6} /\ c.fe1c \in {1, 2},
      Ask(c))

R1407C(c) ==
  Dog("ask", WdSteps, << >>,
      /\ c.seek \in 200000..299999 /\ Stamped(c) /\ c.fdf8 = 0
      /\ ~c.sched /\ c.pend = 3 /\ ~c.arm1 /\ c.cmd = 14 /\ c.fe1c = 9,
      Ask(c))

R1407D(c) ==
  Dog("ask", WdSteps, << >>,
      /\ c.seek \in FileBand /\ c.fe04 = 0 /\ c.fdf8 = 0 /\ c.resp_n >= 1
      /\ c.sched /\ c.pend = 3 /\ ~c.arm1 /\ ~c.act,
      Ask(c))

R1407B(c) ==
  Dog("ask", WdSteps, << >>,
      Aimed(c) /\ c.sched /\ c.pend = 3 /\ ~c.arm1 /\ ~c.act /\ c.cmd = 2 /\ c.fe1c = 1,
      Ask(c))

DoorRelease(c) ==
  Dog("free", 0, << >>,
      c.sched /\ c.pend = 0 /\ ~(c.act /\ c.fdf8 # 0 /\ c.cmd # 2) /\ c.fdfc # 0,
      [c EXCEPT !.sched = FALSE, !.pend = 3, !.fdfc = 0])

-----------------------------------------------------------------------------
(* The movie loop.  Of its passes four in 512 are told apart: the numbers    *)
(* 0, 80h, 100h and 180h modulo 200h.                                      *)

LoopPass(c) == Dog("free", 0, << >>, TRUE, [c EXCEPT !.pass = (@ + 1) % 4])

Mvloop(c) ==
  Dog("free", 0, << >>,
      /\ c.pass \in {0, 2} /\ c.era = "movie" /\ c.act /\ ~c.arm1
      /\ c.pend # 0 \/ (c.loaded /\ c.data = "whole" /\ c.fdf8 # 0),
      Ring(c))

MvloopSched(c) ==
  Dog("free", 0, << >>,
      c.pass \in {1, 3} /\ c.era = "movie" /\ c.sched /\ c.pend = 0,
      Ring([Answer(c, c.full) EXCEPT !.sched = FALSE, !.pend = 3]))

\* The next four want their posture at two boundaries running, but each pass
\* in between sets the count back: they never act.
AtBoundaries(c, posture, after) ==
  Dog("strict", 2, << >>, c.pass = 2 /\ posture, after)

R1419R(c) ==
  AtBoundaries(c,
    c.era # "movie" /\ c.seek \in 250000..252000 /\ c.pend = 0 /\ c.fdf8 = 0 /\ c.fe1c = 12,
    NoWait(c))

R1419S(c) ==
  AtBoundaries(c,
    /\ c.era # "movie" /\ c.seek \in 109100..109200 /\ Stamped(c) /\ c.fdf8 = 0
    /\ c.fe1c = 1 /\ c.pend = 0 /\ Unread(c),
    Bell(c))

R1419U(c) ==
  AtBoundaries(c,
    /\ c.era # "movie" /\ c.seek \in 250000..252000 /\ c.fdf8 \in 1..399999
    /\ c.cmd \in {1, 14} /\ c.fe1c = 10 /\ c.resp_n = 0 /\ c.pend = 0,
    Bell(Answer(c, 1)))

R1419W(c) ==
  AtBoundaries(c,
    /\ c.seek \in 250000..252000 /\ Stamped(c) /\ c.fdf8 \in 1..399999
    /\ c.fe1c = 12 /\ c.pend = 0,
    NoWait(c))

Mvkick(c) ==
  Dog("once", 0, << >>,
      c.pass = 0 /\ Unstaged(c) /\ ~c.sched /\ c.cmd \in {2, 6, 14},
      Staging(c))

MvConv(c) == Dog("once", 0, << >>, c.pass = 0 /\ c.pend # 0 /\ ~c.arm1, Ring(c))

-----------------------------------------------------------------------------
(* The reader of file 18, in its first 120 calls; R1440A, which waits for  *)
(* 65536 of them, cannot act.                                              *)

R1420A(c) ==
  LET stale == c.data = "none" /\ ~c.loaded
  IN  Dog("once", 0, << >>,
          /\ c.seek = 109158 /\ Stamped(c) /\ c.fdf8 \in 1..14360 /\ c.fe1c <= 2
          /\ stale \/ c.data # "none",
          IF stale THEN Engage(c) ELSE Ring(c))

-----------------------------------------------------------------------------
AnyChain ==
  <<"R466", "R1432A", "R1467B", "R1467C", "R1467E", "R1466B", "R1466W", "dscv",
    "R470", "R1298", "R1464D", "R1464E", "R1464F", "sgarm", "R468", "R465">>

SeamChain ==
  [any  |-> AnyChain,
   data |-> <<"R1429A", "R1432C", "R1464B", "R1468">> \o AnyChain \o <<"virtual INT3">>,
   sync |-> AnyChain \o
            <<"R722A", "R722C", "R1459W", "R918", "R1461S sync", "R1464A", "R1462D",
              "R1412A", "R1407", "R1407C", "R1407D", "R1407B", "door">>,
   loop |-> AnyChain \o
            <<"loop pass", "mvloop", "mvloop-sched", "R1419R", "R1419S", "R1419U", "R1419W",
              "mvkick", "mv_conv">>,
   file |-> AnyChain \o <<"R1420A">>]

SeamDog(w, c) ==
  CASE w = "R466"   -> R466(c)   [] w = "R468"   -> R468(c)
    [] w = "R465"   -> R465(c)   [] w = "R470"   -> R470(c)
    [] w = "R1432A" -> R1432A(c) [] w = "sgarm"  -> Sgarm(c)
    [] w = "R1467B" -> R1467B(c) [] w = "R1467C" -> R1467C(c)
    [] w = "R1467E" -> R1467E(c) [] w = "R1466B" -> R1466B(c)
    [] w = "R1466W" -> R1466W(c) [] w = "dscv"   -> Dscv(c)
    [] w = "R1298"  -> R1298(c)  [] w = "R1464D" -> R1464D(c)
    [] w = "R1464E" -> R1464E(c) [] w = "R1464F" -> R1464F(c)
    [] w = "R1429A" -> R1429A(c) [] w = "R1432C" -> R1432C(c)
    [] w = "R1464B" -> R1464B(c) [] w = "R1468"  -> R1468(c)
    [] w = "virtual INT3" -> VirtualInt3(c) [] w = "door" -> DoorRelease(c)
    [] w = "R722A"  -> R722A(c)  [] w = "R722C"  -> R722C(c)
    [] w = "R1459W" -> R1459W(c) [] w = "R918"   -> R918(c)
    [] w = "R1461S sync" -> R1461SSync(c) [] w = "R1464A" -> R1464A(c)
    [] w = "R1462D" -> R1462D(c) [] w = "R1412A" -> R1412A(c)
    [] w = "R1407"  -> R1407(c)  [] w = "R1407C" -> R1407C(c)
    [] w = "R1407D" -> R1407D(c) [] w = "R1407B" -> R1407B(c)
    [] w = "mvloop" -> Mvloop(c) [] w = "mvloop-sched" -> MvloopSched(c)
    [] w = "R1419R" -> R1419R(c) [] w = "R1419S" -> R1419S(c)
    [] w = "R1419U" -> R1419U(c) [] w = "R1419W" -> R1419W(c)
    [] w = "mvkick" -> Mvkick(c) [] w = "mv_conv" -> MvConv(c)
    [] w = "R1420A" -> R1420A(c) [] w = "loop pass" -> LoopPass(c)
=============================================================================
