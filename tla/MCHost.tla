------------------------------- MODULE MCHost -------------------------------
(***************************************************************************)
(* The host side of the console's kernel, checked in one run: the events   *)
(* and their pulse, the files of the disc, the decompressor, the watchdogs *)
(* of the drive, and the disc stage of the recompiler, whose decoders must *)
(* agree with the decompressor.  They share no state; the run chooses a    *)
(* part at the start and drives it, as in MCParts.                         *)
(***************************************************************************)
EXTENDS Kernel, DiscFiles, Watchdogs, Unpacking, BuildScan, TLC

CONSTANT Subjects            \* the parts that this run drives

VARIABLE part                \* the one that it drives

-----------------------------------------------------------------------------
(* The disc: a root with a directory D and a file A, in sectors of two     *)
(* bytes; two bytes of A are the value the guard keeps out.                *)

Name(stem, version) == [stem |-> stem, version |-> version]
Record(stem, lba, size) ==
  [name |-> Name(stem, TRUE), extent |-> [lba |-> lba, size |-> size]]

Root == [lba |-> 2, size |-> 2]
Records == (2 :> <<Record("D", 3, 4), Record("A", 7, 5)>>) @@
           (3 :> <<Record("B", 10, 3)>>) @@ (4 :> <<Record("A", 11, 2)>>)
Upper == [stem \in {"A", "B", "D", "a"} |-> IF stem = "a" THEN "A" ELSE stem]
Paths == {<< >>, <<Name("a", FALSE)>>, <<Name("D", FALSE), Name("A", FALSE)>>,
          <<Name("D", FALSE), Name("B", FALSE)>>, <<Name("A", TRUE)>>}
Sectors == {2, 3, 4, 7, 8, 9, 10, 11}
Threes == {<<8, 1>>, <<8, 0>>}
Offsets == {-1, 1, 2, 3}

(* Streams: literals, overlapping and long matches, one from before the    *)
(* output, one that repeats a byte onto itself.                            *)

Literal(b) == [match |-> FALSE, byte |-> b]
Match(off, len) == [match |-> TRUE, off |-> off, len |-> len]
Tokens == {Literal(1), Literal(3), Match(1, 3), Match(2, 4)}
Streams == {<<Literal(3), b, c>> : b, c \in Tokens}
           \cup {<<Literal(1), b, Match(0, 3)>> : b \in Tokens} \cup {<<Match(1, 3)>>}

(* Executables of four words for the driver, all of those that build       *)
(* addresses, and two with captures behind them; the image ends at 52.     *)
Zero == "zero"
Sp   == "sp"
Lui(rt, imm) == [op |-> "lui", rt |-> rt, imm |-> imm]
Part(op, rt, rs, imm) == [op |-> op, rt |-> rt, rs |-> rs, imm |-> imm]
Points(op, to) == [op |-> op, to |-> to]
BuildWords ==
  {Lui("a", 1), Lui("b", 2), Part("addiu", "a", "a", 4), Part("addiu", "b", "a", -4),
   Part("ori", "a", "b", 8), Part("addiu", Sp, "b", -4), Part("addiu", Sp, Sp, -4),
   [op |-> "other"]}
Linked == <<Points("word", 44), Points("left", 20), Points("right", 20), Lui("a", 2)>>
Capture(long, full, coord) ==
  [there |-> TRUE, long |-> long, full |-> full, coord |-> coord,
   words |-> <<Part("addiu", "a", "a", 12), Points("word", IF coord = "code" THEN 36 ELSE 40)>>]
NoCapture == [there |-> FALSE, long |-> FALSE, full |-> FALSE, coord |-> "zero", words |-> << >>]
Captures ==
  {NoCapture, Capture(FALSE, TRUE, "code"), Capture(TRUE, FALSE, "code")}
  \cup {Capture(TRUE, TRUE, coord) : coord \in {"text", "zero", "code"}}
Overlay == [from |-> 4, end |-> 6]
Stage2  == [from |-> 7, end |-> 9]
NameFiles == {<< >>, 24 :> "main" @@ 18 :> "data", 24 :> "boot" @@ 48 :> "late"}
Inputs ==
  [exe : [1..4 -> BuildWords], over : {NoCapture}, fault : {NoCapture},
   stage2 : {NoCapture}, notes : {<< >>}, decomp : {<< >>}]
  \cup [exe : {Linked}, over : Captures, fault : Captures, stage2 : Captures,
        notes : NameFiles, decomp : NameFiles]

(* Discs for the stage, in sectors of four bytes: a file of six bytes that *)
(* is a header, a control byte and what follows, or lies behind a header   *)
(* of its own; a table with a poisoned row, and one with an empty file     *)
(* behind the end.                                                         *)
Row(lba, size, tail) == [lba |-> lba, size |-> size, tail |-> tail]
Discs ==
  {<<9, 9, 9, 9, h, 0, 0, 0, c>> \o b \o <<0, 0, 0>> :
     h \in {3, 5}, c \in {0, 1, 2, 3, 6}, b \in [1..4 -> {0, 1, 2}]}
  \cup {<<9, 9, 9, 9, 9, 9, 9, 9, 2, 0, 0, 0, 0, 1, b, 0>> : b \in {0, 1}}
Tables == {<<Row(1, 6, 0), Row(1, 6, 250), Row(0, 0, 0), Row(3, 8, 0)>>,
           <<Row(1, 12, 0), Row(9, 0, 0), Row(1, 6, 0)>>}

-----------------------------------------------------------------------------
(* The hangs the watchdogs were written for, as their comments record them *)
(* (runtime.c:3647-5396, 6132-6346, 7686-8444, 18676-20830, 25245-29117).  *)

Quiet == [seek |-> 0, fe04 |-> 0, fdf8 |-> 0, fe1c |-> 0, cmd |-> 1, act |-> FALSE,
          arm1 |-> FALSE, sched |-> FALSE, pend |-> 0, resp_n |-> 0, resp_pos |-> 0,
          full |-> 1, data |-> "none", loaded |-> FALSE, forced |-> FALSE,
          fe20 |-> 0, fdfc |-> 0, dest |-> "none", era |-> "boot", overlay |-> FALSE,
          fed |-> FALSE, pass |-> 0, new |-> FALSE, due |-> FALSE, served |-> FALSE,
          rung |-> FALSE, asked |-> FALSE, told |-> FALSE, sought |-> FALSE,
          returned |-> 0, aimed |-> {}, pumping |-> FALSE, kicks |-> {},
          noted |-> [lba |-> 0, len |-> 0], handed |-> 0, windowed |-> 0, direct |-> FALSE]

HangAt(places, c, wants) ==
  [at |-> places, cells |-> c, cmds |-> {c.cmd}, fe1cs |-> {c.fe1c},
   scheds |-> {c.sched}, wants |-> wants]
Hang(c, wants) == HangAt({"port"}, c, wants)

At(lba) == [Quiet EXCEPT !.seek = lba, !.fe04 = lba]
Pause(lba) == [At(lba) EXCEPT !.cmd = 9, !.fe1c = 6, !.fdf8 = 2048, !.resp_n = 3,
                              !.full = 3]
Reads(c) == [c EXCEPT !.act = TRUE, !.data = "drained", !.loaded = TRUE]
Staged(c) == [c EXCEPT !.data = "whole", !.loaded = TRUE, !.new = TRUE]

\* Never started: R1459V, R1458, R1459X, R1454, R1466A, R1282, R1285, R1427A.
NeverStarted ==
  {Hang([Quiet EXCEPT !.seek = 31, !.sched = TRUE, !.resp_n = 1], {"sector"}),
   Hang([At(13) EXCEPT !.sched = TRUE, !.resp_n = 1, !.fe1c = 7], {"sector"}),
   [Hang([Quiet EXCEPT !.seek = 108934, !.sched = TRUE, !.pend = 3, !.resp_n = 3,
                       !.full = 3], {"sector"}) EXCEPT !.cmds = {1, 2, 9}],
   Hang(At(108754), {"sector"}),
   Hang([At(108995) EXCEPT !.cmd = 2, !.fe1c = 1, !.resp_n = 3, !.full = 3], {"sector"}),
   Hang([Quiet EXCEPT !.seek = 4, !.fdf8 = 2048], {"sector"}),
   Hang([At(108997) EXCEPT !.fdf8 = 125304], {"sector"}),
   Hang([At(108886) EXCEPT !.cmd = 6, !.fdf8 = 13768], {"sector"}),
   Hang([At(108886) EXCEPT !.fdf8 = 13768], {"sector"})}

\* Paused: R1467A, R1464C, R1473, R1475, R1464I, R1464J, R1467M, R1467N2,
\* R735A, and the request the needle has walked over, R702W and R702G.
Paused ==
  {Hang(Pause(109159), {"sector"}),
   Hang([Pause(108933) EXCEPT !.sched = TRUE], {"sector"}),
   Hang([Pause(108905) EXCEPT !.sched = TRUE, !.pend = 3], {"sector"}),
   [Hang([Pause(109005) EXCEPT !.sched = TRUE, !.pend = 3], {"sector"})
      EXCEPT !.scheds = BOOLEAN],
   Hang([Pause(239381) EXCEPT !.sched = TRUE], {"sector"}),
   Hang([Pause(239390) EXCEPT !.sched = TRUE, !.fdf8 = 0, !.fe1c = 0], {"sector"}),
   Hang([Pause(108900) EXCEPT !.fe04 = 108864], {"sector"}),
   Hang([Pause(108900) EXCEPT !.sched = TRUE], {"bell"}),
   Hang(Staged([Pause(239317) EXCEPT !.fdf8 = 9048, !.pend = 1, !.sched = TRUE]),
        {"sector"}),
   Hang([At(109166) EXCEPT !.fe04 = 109158, !.fdf8 = 14360, !.cmd = 9, !.fe1c = 6],
        {"sector"})}

\* Reading, and not told: R1455, R1459T, R1459U, R1465A, R791A, R1461S, R1430A.
NotTold ==
  {Hang(Staged([At(1) EXCEPT !.act = TRUE, !.cmd = 6, !.fdf8 = 2048]), {"bell", "count"}),
   [Hang([Quiet EXCEPT !.act = TRUE, !.fdf8 = 2048, !.cmd = 14, !.fe1c = 10],
         {"bell", "count"}) EXCEPT !.fe1cs = {10, 12}],
   Hang(Reads([At(117040) EXCEPT !.fe04 = 40, !.fdf8 = 122, !.fe1c = 1]), {"bell"}),
   Hang(Reads([At(108785) EXCEPT !.fe04 = 108754, !.fdf8 = 155120, !.fe1c = 10]),
        {"bell"}),
   Hang(Reads([At(109158) EXCEPT !.cmd = 2, !.fdf8 = 14360, !.fe1c = 1]), {"sector"}),
   Hang(Reads([At(108887) EXCEPT !.cmd = 13, !.fdf8 = 11720, !.fe1c = 11]), {"bell"}),
   Hang(Staged([At(108861) EXCEPT !.cmd = 6, !.fdf8 = 4096]), {"bell"})}

\* Done, and still waiting: R1436A, R1460F, R1428A.  The never-started
\* watchdogs know two of these postures as well, and serve a sector.
NotOver ==
  {Hang(Reads([At(109160) EXCEPT !.cmd = 2, !.fe1c = 1]), {"rest", "sector"}),
   Hang([At(109160) EXCEPT !.fe1c = 1], {"clear", "sector"}),
   Hang([At(250369) EXCEPT !.fe1c = 12], {"clear"})}

\* Waiting on the cells of the file layer: R1209, R1280, R1290, R1381 and
\* R402 (with the sync that releases), R1267, R411, R1491.
OnCells ==
  {HangAt({"a22c"}, [Quiet EXCEPT !.fe1c = 9, !.pend = 3], {"bell"}),
   HangAt({"a22c"}, [Quiet EXCEPT !.seek = 31, !.cmd = 9, !.fe1c = 6], {"sector"}),
   HangAt({"a22c"}, [At(108886) EXCEPT !.fdf8 = 122], {"sector"}),
   HangAt({"a22c", "sync"}, [Quiet EXCEPT !.sched = TRUE, !.fe1c = 10], {"answer"}),
   HangAt({"fe1c", "sync"}, [Quiet EXCEPT !.sched = TRUE, !.fe1c = 11, !.cmd = 19],
          {"answer"}),
   HangAt({"fe1c"}, [Quiet EXCEPT !.fe1c = 7], {"answer"}),
   HangAt({"fe1c"}, Reads([At(108905) EXCEPT !.fdf8 = 122, !.cmd = 6]), {"bell"}),
   HangAt({"fdfc"}, [Quiet EXCEPT !.fdfc = 1], {"door"})}

\* In the movie or the field program: rdcomp, seek7, seek7x, fldret; mvloop,
\* mvloop-sched, mvkick, mv_conv.
InProgram(c, program) == [c EXCEPT !.era = program]
OnTimer ==
  {HangAt({"timer"}, InProgram(Staged([At(9) EXCEPT !.act = TRUE, !.fe1c = 6]), "movie"),
          {"bell"}),
   HangAt({"timer"}, InProgram([At(9) EXCEPT !.fe1c = 7, !.fe20 = 3], "movie"), {"bell"}),
   HangAt({"timer"}, InProgram([At(9) EXCEPT !.fe1c = 10, !.fe20 = 4, !.sought = TRUE],
                               "movie"), {"bell"}),
   HangAt({"timer"}, InProgram([At(108600) EXCEPT !.fe1c = 7], "field"), {"interrupt"})}

InLoop ==
  {HangAt({"loop"}, InProgram([At(9) EXCEPT !.act = TRUE, !.pend = 1], "movie"), {"bell"}),
   HangAt({"loop"}, InProgram([At(9) EXCEPT !.sched = TRUE], "movie"), {"answer"}),
   HangAt({"loop"}, [At(9) EXCEPT !.act = TRUE, !.cmd = 14, !.fdf8 = 122], {"sector"}),
   HangAt({"loop"}, [At(9) EXCEPT !.pend = 2], {"bell"})}

\* Calling functions: R466 with R468, R465, R470, R1432A, sgarm, R1467B,
\* R1467C, R1467E, R1466B, R1466W, dscv, R1298, R1464D, R1464E, R1464F.
Fed(c) == [c EXCEPT !.fed = TRUE, !.act = TRUE]
Calling ==
  {HangAt({"any"}, c[1], c[2]) :
     c \in {<<Fed(Staged([At(108905) EXCEPT !.fdf8 = 122])), {"bell"}>>,
            <<Fed([At(9) EXCEPT !.fdf8 = 122]), {"interrupt"}>>,
            <<Staged([At(108905) EXCEPT !.fdf8 = 122, !.pend = 1, !.cmd = 9,
                                        !.fe1c = 10]), {"answer"}>>,
            <<[At(108886) EXCEPT !.act = TRUE, !.cmd = 6, !.fdf8 = 122], {"sector"}>>,
            <<[At(9) EXCEPT !.act = TRUE, !.cmd = 6, !.fdf8 = 122, !.overlay = TRUE],
              {"sector"}>>,
            <<[At(108886) EXCEPT !.loaded = TRUE, !.cmd = 6, !.fdf8 = 2048], {"told"}>>,
            <<Reads([At(108886) EXCEPT !.cmd = 2, !.fdf8 = 2048, !.fe1c = 1]), {"told"}>>,
            <<Reads([At(110033) EXCEPT !.cmd = 2, !.fdf8 = 122, !.fe1c = 12]), {"told"}>>,
            <<[At(108886) EXCEPT !.cmd = 9, !.fe1c = 6, !.fe04 = 108880], {"told"}>>,
            <<[At(108886) EXCEPT !.cmd = 2, !.fe1c = 6, !.fe04 = 0, !.act = TRUE],
              {"sector"}>>,
            <<Staged([At(250369) EXCEPT !.pend = 1, !.fdf8 = 122, !.fe1c = 10]), {"bell"}>>,
            <<[At(239381) EXCEPT !.seek = 9, !.cmd = 2, !.fdf8 = 2048], {"sector"}>>,
            <<Pause(239381), {"sector"}>>,
            <<[Pause(239381) EXCEPT !.sched = TRUE], {"sector"}>>,
            <<[Pause(239381) EXCEPT !.cmd = 1, !.dest = "ram"], {"sector"}>>}}

\* Waiting for data: R1429A, R1432C, R1464B, R1468, virtual INT3; in the sync:
\* R722A, R722C, R1459W, R1407, R1461S, R1464A, R1462D, the door; reading
\* file 18: R1420A.
AtSeams ==
  {HangAt({"data"}, c[1], c[2]) :
     c \in {<<[At(250369) EXCEPT !.fe1c = 12], {"clear"}>>,
            <<[At(108886) EXCEPT !.act = TRUE, !.cmd = 6, !.fdf8 = 122], {"sector"}>>,
            <<[At(109160) EXCEPT !.cmd = 13, !.fdf8 = 2048, !.fe1c = 1], {"sector"}>>,
            <<[At(108886) EXCEPT !.fe1c = 6, !.fdf8 = 2048, !.seek = 9], {"told"}>>,
            <<[Quiet EXCEPT !.sched = TRUE, !.full = 3], {"answer"}>>}}
  \cup
  {HangAt({"sync"}, c[1], c[2]) :
     c \in {<<Staged([At(108886) EXCEPT !.act = TRUE, !.cmd = 6, !.fdf8 = 122,
                                        !.fdfc = 1]), {"told"}>>,
            <<Staged([At(120500) EXCEPT !.act = TRUE, !.cmd = 6]), {"told"}>>,
            <<[Quiet EXCEPT !.fe1c = 7], {"clear"}>>,
            <<[At(9) EXCEPT !.act = TRUE, !.cmd = 2, !.fe1c = 1, !.fdf8 = 122,
                            !.sched = TRUE], {"answer"}>>,
            <<Reads([At(108886) EXCEPT !.fdf8 = 122, !.dest = "one"]), {"sector"}>>,
            <<[At(109160) EXCEPT !.cmd = 13, !.fdf8 = 2048, !.fe1c = 1], {"sector"}>>,
            <<[At(108886) EXCEPT !.fe1c = 1, !.fe04 = 0], {"clear"}>>,
            <<[Quiet EXCEPT !.sched = TRUE, !.fdfc = 1], {"door"}>>}}
  \cup
  {HangAt({"file"}, [At(109158) EXCEPT !.fdf8 = 14360, !.fe1c = 1], {"sector"}),
   HangAt({"file"}, Reads([At(109158) EXCEPT !.fdf8 = 14360, !.fe1c = 1]), {"bell"})}

\* Calling functions, and looking at the port in between.
InTurn == {[h EXCEPT !.at = @ \cup {"port"}, !.wants = @ \cup {"sector", "bell"}] :
             h \in Calling}

\* Collecting: retire, zrf (of a movie, of file 14), zrf0, zrfS, zrfY, zrfF2,
\* kick, kick2.
Collecting ==
  {HangAt({"collect"}, c[1], c[2]) :
     c \in {<<[Quiet EXCEPT !.fe1c = 6], {"clear"}>>,
            <<InProgram([At(108905) EXCEPT !.fe1c = 6], "movie"), {"sector"}>>,
            <<[At(108940) EXCEPT !.fe1c = 10, !.pend = 1, !.sched = TRUE], {"sector"}>>,
            <<InProgram([Quiet EXCEPT !.seek = 9, !.data = "drained", !.fe1c = 6], "field"),
              {"count", "clear"}>>,
            <<[Quiet EXCEPT !.seek = 239381, !.fe1c = 6, !.cmd = 9], {"read"}>>,
            <<[Quiet EXCEPT !.seek = 9, !.fe1c = 6, !.direct = TRUE], {"read"}>>,
            <<Staged([At(9) EXCEPT !.fe04 = 108886, !.fdf8 = 2048]), {"bell"}>>,
            <<[At(9) EXCEPT !.noted = [lba |-> 108886, len |-> 2048], !.fdf8 = 2048],
              {"bell"}>>}}

\* Spinning on a register of the drive: R645MV, conv, clear, discard, kick.
Spinning ==
  {HangAt({place}, c[1], c[2]) : place \in {"flag", "half"},
     c \in {<<Staged([At(239317) EXCEPT !.arm1 = TRUE, !.cmd = 14, !.fdf8 = 9048,
                                         !.fe1c = 6]), {"bell"}>>,
            <<Reads([At(108905) EXCEPT !.pend = 1, !.cmd = 6, !.fdf8 = 122, !.fe1c = 6]),
              {"bell"}>>,
            <<[At(9) EXCEPT !.pend = 1, !.fe1c = 6, !.resp_n = 1], {"silence"}>>,
            <<Staged([At(239321) EXCEPT !.pend = 1]), {"silence"}>>,
            <<[At(9) EXCEPT !.fe04 = 108886, !.fdf8 = 2048], {"bell"}>>,
            <<[At(250369) EXCEPT !.fdfc = 1, !.fdf8 = 24], {"bell"}>>,
            <<Staged([At(108905) EXCEPT !.act = TRUE, !.cmd = 6, !.fe04 = 108904,
                                        !.fdf8 = 93680, !.fe1c = 6]), {"bell"}>>}}

\* A guest that does not hang.
NoHang == Hang(Quiet, {"rest"})

AtPort == NeverStarted \cup Paused \cup NotTold \cup NotOver
Elsewhere == OnCells \cup OnTimer \cup InLoop \cup Calling \cup AtSeams \cup InTurn
             \cup Collecting \cup Spinning

Hangs == AtPort \cup Elsewhere \cup {NoHang}

-----------------------------------------------------------------------------
mc_vars == <<part, ker_vars, fs_vars, lz_vars, wd_vars, st_vars, bu_vars>>

Chosen(name) == part = name /\ UNCHANGED part

MCInit ==
  /\ part \in Subjects
  /\ KerInit /\ FsInit /\ LzInit
  /\ IF part = "watchdogs" THEN WdInit ELSE WdInitOf(NoHang)
  /\ StInit
  /\ part # "stage" => st_disc = <<9, 9, 9, 9, 9, 9, 9, 9, 2, 0, 0, 0, 0, 1, 0, 0>>
                      /\ st_table[1].size = 6
  /\ BuInit
  /\ part # "build" => bu_in.exe = Linked /\ bu_in.over = NoCapture /\ bu_in.fault = NoCapture
                      /\ bu_in.stage2 = NoCapture /\ bu_in.notes = << >> /\ bu_in.decomp = << >>

DriveKernel ==
  /\ Chosen("kernel") /\ KerNext /\ UNCHANGED <<fs_vars, lz_vars, wd_vars, st_vars, bu_vars>>

DriveFiles ==
  /\ Chosen("files") /\ FsNext /\ UNCHANGED <<ker_vars, lz_vars, wd_vars, st_vars, bu_vars>>

DriveLzss ==
  /\ Chosen("lzss") /\ LzNext /\ UNCHANGED <<ker_vars, fs_vars, wd_vars, st_vars, bu_vars>>

DriveWatchdogs ==
  /\ Chosen("watchdogs") /\ WdNext /\ UNCHANGED <<ker_vars, fs_vars, lz_vars, st_vars, bu_vars>>

DriveStage ==
  /\ Chosen("stage") /\ StNext /\ UNCHANGED <<ker_vars, fs_vars, lz_vars, wd_vars, bu_vars>>

DriveBuild ==
  /\ Chosen("build") /\ BuNext /\ UNCHANGED <<ker_vars, fs_vars, lz_vars, wd_vars, st_vars>>

MCNext == DriveKernel \/ DriveFiles \/ DriveLzss \/ DriveWatchdogs \/ DriveStage \/ DriveBuild

MCSpec == MCInit /\ [][MCNext]_mc_vars /\ WdFairness

(* Type correctness of the parts.                                          *)
HostTypeOK == KerTypeOK /\ FsTypeOK /\ LzTypeOK /\ WdTypeOK /\ StTypeOK /\ BuTypeOK
=============================================================================
