---------------------------- MODULE CdController ----------------------------
(***************************************************************************)
(* The CD-ROM controller of the runtime (source/runtime/runtime.c): the    *)
(* register port the guest sees at 1F801800..1F801803, the command         *)
(* processor cd_cmd, the sector FIFO, the DMA channel that drains it, and  *)
(* every place where a scheduled response becomes a pending interrupt.     *)
(*                                                                         *)
(* Two records hold the state.  cd is the controller's own state (the      *)
(* fields keep the C names without the cd_ prefix); mem is the part of the *)
(* guest's memory the controller reads and writes: FE04 the LBA the file   *)
(* layer expects, FDF8 the bytes it is still owed, FE1C its state, FDFC    *)
(* the release door and flag the operation flag word at 800578A6.  The     *)
(* guest is external code: it may store any of these cells and access any  *)
(* register at any time.                                                   *)
(*                                                                         *)
(* Abstractions.  An answer is the command it answers and its length.  The *)
(* index register and the parameter bytes are folded into the access that  *)
(* uses them.  A sector is the address in its header and the address its   *)
(* payload was read from.  Poll counts, wall-clock waits and fire budgets  *)
(* of the stall heals are left out: a heal whose posture holds may fire.   *)
(* The movie loop (g_r1517_inloop) is off.                                 *)
(***************************************************************************)
EXTENDS Naturals

CONSTANTS
  Lba,         \* seek targets: Setloc arguments and guest requests
  Sectors,     \* bound: the sector addresses a run lets the needle reach
  Cmds,        \* command bytes the guest issues
  Sizes,       \* byte counts the guest may be owed (FDF8)
  Ladder,      \* states the guest may put its file layer in (FE1C)
  HeaderLen,   \* units of a sector header (12 bytes)
  SectorLen,   \* units of a sector in the FIFO (2060 bytes)
  StallHeals   \* TRUE when the stall heals of the status poll may fire

ASSUME CdAssumption ==
  /\ 0 \in Lba /\ Lba \subseteq Sectors /\ Sectors \subseteq Nat
  /\ Cmds \subseteq 1..31
  /\ Sizes \subseteq Nat
  /\ Ladder \subseteq Nat
  /\ HeaderLen \in Nat /\ SectorLen \in Nat
  /\ 0 < HeaderLen /\ HeaderLen < SectorLen
  /\ StallHeals \in BOOLEAN

VARIABLES cd, mem

vars == <<cd, mem>>

-----------------------------------------------------------------------------
(* Command bytes, LBA windows and answers.                                 *)

GetStat   == 1
Setloc    == 2
ReadN     == 6
MotorOn   == 7
Stop      == 8
Pause     == 9
InitDrive == 10
Setmode   == 14
GetLocL   == 16
GetLocP   == 17
GetTN     == 19
GetTD     == 20
GetID     == 26
ReadS     == 27

StreamFile  == 108995..109040      \* the batch-read file
StreamTail  == 108997..109040      \* where the stream pointer is enforced
PauseStops  == 108933              \* from here on a Pause ends the read
FieldFile   == 108933..108995
SyncFile    == 239328..239335      \* its sectors served to a waiting reader
SyncServed  == {108884, 108886}    \* files delivered at their Setloc

(* The bytes a command answers with.  Every one-byte answer is the status  *)
(* byte, whichever command it is for; NoAnswer is an empty response FIFO.  *)
Answer(cmd, n) == [of |-> cmd, n |-> n]
Status         == Answer(GetStat, 1)
NoAnswer       == Answer(0, 0)

AnswerTo(cmd) == CASE cmd \in {GetTN, GetTD}      -> Answer(cmd, 3)
                   [] cmd \in {GetLocL, GetLocP}  -> Answer(cmd, 8)
                   [] OTHER                       -> Status

TwoPhase == {InitDrive, MotorOn, Stop, GetID, Pause}   \* INT3, then INT2

(* The bytes of a two-phase command's completion.                          *)
Completion(cmd) == IF cmd = GetID THEN Answer(GetID, 8) ELSE Status

Drained(c)   == c.resp_pos >= c.resp.n
Untouched(c) == c.resp_pos = 0 /\ c.resp.n >= 1
HasBytes(c)  == c.pos < c.n
Quiet(c)     == c.pending = 0 /\ ~c.arm

-----------------------------------------------------------------------------
Answers == [of : Cmds \cup {0, GetStat, Setloc}, n : 0..8]

Controller ==
  [ resp : Answers, resp_pos : 0..8, last_full : Answers, pend_ans : Answers,
    pending : 0..3, scheduled : BOOLEAN, arm : BOOLEAN,
    last_cmd : Cmds \cup {0},
    seek : Nat, active : BOOLEAN,
    loaded : BOOLEAN, pos : 0..SectorLen, n : {0, SectorLen},
    sector : [header : Nat, body : Nat],
    streak : BOOLEAN, live : BOOLEAN, next : Nat ]

Cells == [ fe04 : Nat, fdf8 : Nat, fe1c : Nat,
           fdfc : BOOLEAN, flag : BOOLEAN ]

TypeOK == cd \in Controller /\ mem \in Cells

Init ==
  /\ cd = [ resp |-> NoAnswer, resp_pos |-> 0, last_full |-> NoAnswer,
            pend_ans |-> NoAnswer, pending |-> 0, scheduled |-> FALSE,
            arm |-> FALSE, last_cmd |-> 0, seek |-> 0, active |-> FALSE,
            loaded |-> FALSE, pos |-> 0, n |-> 0,
            sector |-> [header |-> 0, body |-> 0],
            streak |-> FALSE, live |-> FALSE, next |-> 0 ]
  /\ mem = [fe04 |-> 0, fdf8 |-> 0, fe1c |-> 0, fdfc |-> FALSE, flag |-> FALSE]

(* Bound: a run follows the needle over the addresses in Sectors only.     *)
Bounded == {cd.seek, cd.next} \subseteq Sectors

-----------------------------------------------------------------------------
(* Loading a sector.                                                       *)

(* The file layer's expected address wins over the needle, unless a stream *)
(* is live or the needle is one sector past it.                            *)
Anchor(c, g) ==
  IF g.fe04 \in {0, c.seek} \/ c.live \/ c.seek = g.fe04 + 1
  THEN c.seek
  ELSE g.fe04

(* While a stream is live its pointer is enforced just before the payload  *)
(* is read; the header has already been written for the anchored address.  *)
Snap(c, l) == IF c.live /\ c.next \in StreamTail THEN c.next ELSE l

DataLoad(c, g) ==
  LET l == Anchor(c, g)
      s == Snap(c, l)
  IN  IF c.last_cmd = GetTN
      THEN [c EXCEPT !.seek = l]
      ELSE [c EXCEPT !.seek = s, !.loaded = TRUE, !.pos = 0, !.n = SectorLen,
                     !.sector = [header |-> l, body |-> s]]

(* Mutant of Consumed: the drained sector stays marked as loaded.          *)
ConsumedStillLoaded(c) == [c EXCEPT !.pos = c.n, !.seek = @ + 1]

(* The last unit of a sector left the FIFO: the needle moves on.           *)
Consumed(c) == [c EXCEPT !.pos = c.n, !.loaded = FALSE, !.seek = @ + 1]

(* Mutant of Take: the request is not clamped to what the FIFO holds.      *)
TakeUnclamped(c, k) ==
  IF c.pos + k = c.n THEN Consumed(c) ELSE [c EXCEPT !.pos = @ + k]

(* Taking up to k units out of the FIFO.                                   *)
Take(c, k) == IF c.pos + k >= c.n THEN Consumed(c) ELSE [c EXCEPT !.pos = @ + k]

-----------------------------------------------------------------------------
(* Delivering a scheduled response.                                        *)

(* The saved multi-byte answer replaces whatever is in the response FIFO.  *)
RestorePend(c) ==
  IF c.pend_ans.n > 0
  THEN [c EXCEPT !.resp = c.pend_ans, !.resp_pos = 0, !.last_full = c.pend_ans]
  ELSE c

Deliver(c) == [c EXCEPT !.scheduled = FALSE, !.pending = 3]

(* Mutant of Releasable: a release does not look at the pending interrupt. *)
ReleasableAlways == cd.scheduled

Releasable == cd.scheduled /\ cd.pending = 0

(* The kernel's event-flag check is entered (8004B894, 8004293C).          *)
VirtualInt3 ==
  /\ Releasable
  /\ cd'  = Deliver(RestorePend(cd))
  /\ mem' = [mem EXCEPT !.flag = TRUE,
                        !.fe1c = IF cd.last_cmd = Setmode THEN 0 ELSE @]

(* The file layer's wait is entered with its door cell FDFC set (800286CC).*)
DoorRelease ==
  /\ Releasable
  /\ ~ (cd.active /\ mem.fdf8 # 0 /\ cd.last_cmd # Setloc)
  /\ mem.fdfc
  /\ cd'  = Deliver(cd)
  /\ mem' = [mem EXCEPT !.flag = TRUE, !.fdfc = FALSE]

(* A response stranded over a full movie-loop window is delivered; the     *)
(* saved answer is restored only when it belongs to the last command.      *)
StrandedRelease ==
  /\ Releasable
  /\ ~ (cd.last_cmd = ReadN /\ cd.seek >= 100000)
  /\ cd'  = Deliver(IF cd.pend_ans.of = cd.last_cmd THEN RestorePend(cd) ELSE cd)
  /\ mem' = [mem EXCEPT !.flag = TRUE]

(* The postures in which the poll release answers the guest's wait.        *)
StreamEnd(c, g) ==
  c.last_cmd = GetStat /\ g.fe1c = 7 /\ c.seek \in StreamFile /\ g.fdf8 = 0

Concluded(c, g) ==
  /\ c.last_cmd \in {Setloc, ReadN, Pause} /\ g.fe1c = 0 /\ g.fdf8 = 0
  /\ c.seek # 0
  /\ g.fe04 = c.seek \/ (g.fe04 = 0 /\ c.seek \in 100000..299999)

Awaited(c, g) ==
  LET aimed == g.fe04 = c.seek /\ g.fdf8 # 0
  IN  \/ StreamEnd(c, g)
      \/ c.last_cmd \in {Setloc, ReadN} /\ g.fe1c \in {1, 2} /\ c.seek # 0 /\ aimed
      \/ c.last_cmd \in {Setloc, ReadN} /\ g.fe1c = 10 /\ aimed /\ Drained(c)
      \/ c.last_cmd \in {Setloc, ReadN} /\ g.fe1c \in {1, 2} /\ c.seek = 0
                                        /\ g.fe04 \in 1..149
      \/ c.last_cmd = GetStat /\ g.fe1c \in {10, 11}
                              /\ (Drained(c) \/ (c.resp.n = 1 /\ c.resp_pos = 0))
      \/ c.last_cmd = GetTN /\ g.fe1c = 11
      \/ /\ c.last_cmd = Setloc /\ g.fe1c = 0 /\ g.fdf8 = 0 /\ c.active
         /\ {c.seek, g.fe04} \subseteq 108900..109199 /\ c.seek # g.fe04

(* GetStat's live status byte takes the place of the restored answer.      *)
AwaitedAnswer(c, g) ==
  IF c.last_cmd = GetStat /\ (StreamEnd(c, g) \/ g.fe1c = 10)
  THEN [c EXCEPT !.resp = Status, !.resp_pos = 0]
  ELSE RestorePend(c)

(* Bands whose release is followed at once by a forced sector event, the   *)
(* condition grouped as the C operators group it.                          *)
ForcedBand(c, g) ==
  \/ c.seek \in 239300..240000
  \/ /\ c.seek \in 250000..252000 /\ g.fe04 = c.seek
     /\ g.fdf8 \in 1..399999 /\ c.n = SectorLen

ForcedSector(c, g) == IF ForcedBand(c, g) THEN [c EXCEPT !.pending = 1] ELSE c

(* Bands where a delivery is announced to the movie's wait as well, while  *)
(* that announcement's budget lasts.                                       *)
WinPosted(c) ==
  c.seek \in (239300..239400) \cup (250000..252000) \cup (120000..121000)

(* The register-poll delivery: at most one of its two ladders releases.    *)
PollRelease ==
  /\ Releasable
  /\ \/ /\ Concluded(cd, mem)
        /\ cd'  = ForcedSector(Deliver(RestorePend(cd)), mem)
        /\ mem' \in {mem, [mem EXCEPT !.flag = @ \/ WinPosted(cd)]}
     \/ /\ ~Concluded(cd, mem) /\ Awaited(cd, mem)
        /\ cd'  = ForcedSector(Deliver(AwaitedAnswer(cd, mem)), mem)
        /\ mem' = [mem EXCEPT !.flag = TRUE]

-----------------------------------------------------------------------------
(* Commands.                                                               *)

(* The stream pointer rides read commands inside the batch file: the first *)
(* read of a streak seeds it past the needle, each further read pulls the  *)
(* needle to it.                                                           *)
Needle(c, cmd) ==
  LET reading == cmd \in {ReadN, ReadS}
      nxt == IF c.streak THEN c.next ELSE c.seek + 1
      at  == IF nxt \in StreamTail THEN nxt ELSE c.seek
  IN  IF reading /\ c.seek \in StreamFile
      THEN [c EXCEPT !.seek = at, !.next = nxt + 1, !.streak = TRUE, !.live = TRUE]
      ELSE [c EXCEPT !.streak = reading, !.live = @ /\ cmd \notin {Setloc, Pause}]

(* The request is served in place: every cell of it reads completed.       *)
DirectDelivery(g) ==
  [fe04 |-> 0, fdf8 |-> 0, fe1c |-> 0, fdfc |-> FALSE, flag |-> TRUE]

(* A request the file layer keeps waiting for in the field bands.          *)
Starved(c, g) == /\ g.fe04 \in (239300..239400) \cup (109100..109200)
                 /\ g.fdf8 = 0 /\ c.pending = 0 /\ c.resp.n = 0

(* Where the command leaves the needle and the read.  A Setloc with too    *)
(* few parameter bytes leaves the needle alone.                            *)
Targets(c, cmd) == IF cmd = Setloc THEN Lba \cup {c.seek} ELSE {c.seek}

Expected(c, g) == IF g.fe04 < 150 /\ c.seek >= 100000 THEN c.seek ELSE g.fe04

(* Mutant of Position: a read keeps what an earlier seek had staged.       *)
PositionKeepsStaged(c, g, cmd, target) ==
  CASE cmd = Setloc -> [c EXCEPT !.seek = target]
    [] cmd \in {ReadN, Pause} -> [c EXCEPT !.seek = Expected(c, g), !.active = TRUE]
    [] cmd = Stop -> [c EXCEPT !.active = FALSE]
    [] OTHER -> c

Position(c, g, cmd, target) ==
  CASE cmd = Setloc -> [c EXCEPT !.seek = target]
    [] cmd \in {ReadN, Pause} ->
         LET at == Expected(c, g)
         IN  [c EXCEPT !.seek = at, !.loaded = FALSE,
                       !.active = ~(cmd = Pause /\ at >= PauseStops)]
    [] cmd = Stop -> [c EXCEPT !.active = FALSE]
    [] OTHER -> c

(* The answer is built, an interrupt still pending is dropped, and the     *)
(* response waits for one of the releases above.                           *)
Schedule(c, cmd) ==
  LET ans == AnswerTo(cmd)
  IN  [c EXCEPT !.last_cmd = cmd, !.resp = ans, !.resp_pos = 0, !.last_full = ans,
                !.pend_ans = IF ans.n > 1 THEN ans ELSE @,
                !.pending = 0, !.scheduled = TRUE]

IssueCommand(cmd) ==
  /\ \E target \in Targets(Needle(cd, cmd), cmd),
        starved, sync \in BOOLEAN :
       LET g == IF starved THEN DirectDelivery(mem) ELSE mem
       IN  /\ starved => Starved(cd, mem)
           /\ sync => cmd = Setloc /\ target \in SyncServed
           /\ cd'  = Schedule(Position(Needle(cd, cmd), g, cmd, target), cmd)
           /\ mem' = IF sync THEN DirectDelivery(g) ELSE g
  /\ Bounded'

-----------------------------------------------------------------------------
(* Acknowledging interrupts.                                               *)

(* 1F801802 bank 1, with a sector announced for after the INT3 ack.        *)
AckArmed ==
  /\ cd.arm
  /\ LET c == [cd EXCEPT !.arm = FALSE, !.resp = Status, !.resp_pos = 0,
                         !.pending = 1]
     IN  cd' = IF c.loaded THEN c ELSE DataLoad(c, mem)
  /\ UNCHANGED mem /\ Bounded'

(* 1F801803 bank 1 (and 1F801802 bank 1, which falls through to it).       *)
Ack ==
  LET completes == cd.pending = 3 /\ cd.last_cmd \in TwoPhase
  IN  /\ cd' = [cd EXCEPT
                  !.pending = IF completes THEN 2 ELSE 0,
                  !.resp = IF completes THEN Completion(cd.last_cmd) ELSE NoAnswer,
                  !.resp_pos = 0,
                  !.arm = @ \/ (cd.pending = 3 /\ cd.active /\ cd.last_cmd = ReadN)]
      /\ mem' = IF cd.pending # 0 THEN [mem EXCEPT !.flag = FALSE] ELSE mem

-----------------------------------------------------------------------------
(* Reading the port.                                                       *)

(* The state a ladder command leaves the file layer in once its answer is  *)
(* consumed.                                                               *)
LadderTarget(cmd, fe1c) == CASE cmd = GetTN   -> 11
                             [] cmd = Pause   -> 6
                             [] cmd = Stop    -> 7
                             [] cmd = InitDrive -> 9
                             [] cmd = Setmode -> 12
                             [] OTHER         -> fe1c

(* The last byte of an answer to a read command announces a sector that is *)
(* staged already.                                                         *)
SectorReady(c) ==
  /\ c.last_cmd \in {ReadN, Pause} /\ c.active
  /\ c.loaded /\ HasBytes(c) /\ c.pending = 0

(* 1F801801 bank 1: one response byte.  The last one clears the operation  *)
(* flag and, under an active read with a sector staged, announces it.      *)
PopResponse ==
  /\ cd.resp_pos < cd.resp.n
  /\ LET last == cd.resp_pos + 1 = cd.resp.n
     IN  /\ cd' = [cd EXCEPT !.resp_pos = @ + 1,
                             !.pending = IF last /\ SectorReady(cd) THEN 1 ELSE @]
         /\ mem' = IF last
                   THEN [mem EXCEPT !.flag = FALSE,
                                    !.fe1c = LadderTarget(cd.last_cmd, @)]
                   ELSE mem

(* 1F801802 bank 0: one data byte, the sector loaded on demand.            *)
PopData ==
  /\ cd.active
  /\ LET c == IF cd.loaded /\ HasBytes(cd) THEN cd ELSE DataLoad(cd, mem)
         d == Take(c, 1)
     IN  cd' = IF ~HasBytes(c) THEN c
               ELSE IF d.loaded THEN d ELSE [d EXCEPT !.pending = 1]
  /\ UNCHANGED mem /\ Bounded'

(* Mutant of MidPair: the header/payload pair is not recognised.           *)
MidPairNever(c) == FALSE

(* Between the header and the payload of a sector nothing is re-anchored.  *)
MidPair(c) == c.pos # 0 /\ HasBytes(c)

(* A transfer of an expected sector (re)loads it first.                    *)
ReAnchored(c, g) ==
  IF /\ g.fe04 # 0 /\ ~MidPair(c)
     /\ c.seek # g.fe04 \/ ~HasBytes(c) \/ ~c.loaded
  THEN DataLoad([c EXCEPT !.seek = g.fe04], g)
  ELSE c

(* A transfer that empties the FIFO raises the event of the next sector    *)
(* while the read runs, one that leaves a rest when it was no header.      *)
NextSector(c, k) == IF c.pos + k >= c.n THEN c.active ELSE k > HeaderLen

(* DMA channel 3 takes up to k units.  A payload transfer that leaves a    *)
(* remainder announces the sector again; one that empties the FIFO         *)
(* announces the next if the read runs.  The transfers the channel         *)
(* declines (a repeated payload, a duplicate header) change nothing here.  *)
DmaTransfer(k) ==
  /\ LET c == ReAnchored(cd, mem)
     IN  /\ cd'  = IF NextSector(c, k) THEN [Take(c, k) EXCEPT !.pending = 1]
                   ELSE Take(c, k)
         /\ mem' = IF NextSector(c, k) THEN [mem EXCEPT !.flag = TRUE] ELSE mem
  /\ Bounded'

(* 1F801803 bank 1: the interrupt flag is polled.  A staged sector nobody  *)
(* announced is announced; after enough polls without any status byte too. *)
FieldSector(c, g) ==
  /\ c.pending = 0 /\ c.loaded /\ c.seek >= 108900
  /\ \/ /\ c.scheduled /\ ~c.arm /\ HasBytes(c) /\ c.last_cmd = Setloc /\ g.fdf8 = 0
     \/ /\ ~c.scheduled /\ c.active /\ c.last_cmd \in {ReadN, Pause}
        /\ g.fe04 = c.seek /\ g.fdf8 > 100000

PolledSector(c) == c.pending = 0 /\ c.active /\ c.loaded

FlagPoll ==
  /\ \/ FieldSector(cd, mem) /\ cd' = [cd EXCEPT !.pending = 1]
     \/ ~FieldSector(cd, mem) /\ UNCHANGED cd
     \/ /\ PolledSector(cd) /\ ~cd.arm /\ ~cd.scheduled /\ HasBytes(cd)
        /\ cd' = [cd EXCEPT !.pending = 1, !.resp = Status, !.resp_pos = 0]
     \/ /\ PolledSector(cd) /\ cd.last_cmd \in {ReadN, Pause}
        /\ cd' = [cd EXCEPT !.pending = 1]
  /\ mem' = IF mem.fe1c = 5 /\ mem.fdf8 = 0 THEN [mem EXCEPT !.fe1c = 0] ELSE mem

-----------------------------------------------------------------------------
(* The status poll, 1F801800.                                              *)

LoadOnDemand(c, g) == IF c.active /\ ~c.loaded THEN DataLoad(c, g) ELSE c

(* A Setloc the file layer waits on in state 1: what the previous request  *)
(* left behind is dropped, and the three-byte answer is made up and        *)
(* delivered without waiting for the scheduled one.                        *)
DropStale(c, g) ==
  IF /\ c.last_cmd = Setloc /\ g.fe1c = 1 /\ ~c.active
     /\ c.pending # 0 \/ c.n # 0
  THEN [c EXCEPT !.pending = 0, !.pos = 0, !.n = 0, !.loaded = FALSE]
  ELSE c

AssistSetloc(c, g) ==
  IF /\ c.last_cmd = Setloc /\ g.fe1c = 1 /\ g.fe04 # 0 /\ g.fe04 = c.seek
     /\ c.pending = 0 /\ c.n = 0 /\ c.resp.n < 3
  THEN [c EXCEPT !.resp = Answer(Setloc, 3), !.resp_pos = 0,
                 !.last_full = Answer(Setloc, 3), !.pending = 3]
  ELSE c

(* An empty response FIFO of an idle drive is filled again, with the last  *)
(* full answer when it had several bytes.                                  *)
RePrimed(c) ==
  CASE c.last_full.n > 1 /\ c.last_cmd # GetStat -> c.last_full
    [] c.last_cmd = GetStat /\ c.scheduled /\ c.seek \in FieldFile -> Answer(GetStat, 3)
    [] OTHER -> Status

(* Mutant of RePrime: a FIFO with bytes left is refilled as well.          *)
RePrimeEarly(c) ==
  IF ~c.active /\ (c.pending # 0 \/ c.last_cmd # 0)
  THEN [c EXCEPT !.resp = RePrimed(c), !.resp_pos = 0]
  ELSE c

RePrime(c) ==
  IF Drained(c) /\ ~c.active /\ (c.pending # 0 \/ c.last_cmd # 0)
  THEN [c EXCEPT !.resp = RePrimed(c), !.resp_pos = 0]
  ELSE c

PollTail(s) ==
  [s EXCEPT !.c = RePrime(AssistSetloc(DropStale(LoadOnDemand(@, s.g), s.g), s.g))]

(* The stall heals, each the family of the posture watchdogs with its      *)
(* effect.  A stalled request is restarted: the needle is put on it, its   *)
(* sector reloaded, and it may be announced.                               *)
Restart(s) ==
  LET at(l) == [s.c EXCEPT !.seek = l, !.active = TRUE, !.loaded = FALSE]
      cells(l) == [s.g EXCEPT !.fe04 = l]
  IN  IF s.c.pending = 0 \/ s.c.scheduled \/ s.c.last_cmd = Pause
      THEN { [c |-> [DataLoad(at(l), cells(l)) EXCEPT !.pending = p],
              g |-> [cells(l) EXCEPT !.fe1c = e]] :
             l \in {s.c.seek, s.g.fe04}, p \in {s.c.pending, 1}, e \in {s.g.fe1c, 0} }
      ELSE {}

(* A read nobody waits for is abandoned with what it had staged.           *)
Abandon(s) ==
  IF s.c.pending = 0
  THEN { [s EXCEPT !.c.active = FALSE, !.c.loaded = FALSE, !.c.pos = 0, !.c.n = 0] }
  ELSE {}

(* A read nobody asked the drive for is started at l: the file layer is    *)
(* told the address, and bytes an earlier read has left are flushed.       *)
Flushed(c) == IF HasBytes(c) THEN [c EXCEPT !.pos = 0, !.n = 0] ELSE c

Started(c, l) == Flushed([c EXCEPT !.seek = l, !.active = TRUE, !.loaded = FALSE])

Serve(s, l) == [c |-> Started(s.c, l), g |-> [s.g EXCEPT !.fe04 = l]]

Owed(s) == ~s.c.active /\ s.c.pending = 0 /\ s.g.fdf8 = 2048

(* The file layer waits for the next sector of the sync file, which sector *)
(* by the place of its buffer (a cell that is not modelled).               *)
SectorServe(s) ==
  IF Owed(s) /\ ~s.c.scheduled THEN { Serve(s, l) : l \in SyncFile } ELSE {}

(* A directory read starts over from the head of the disc; the response    *)
(* still scheduled is discarded.                                           *)
DirectoryStart(s) ==
  IF Owed(s) /\ s.g.fe04 = 0
  THEN { [Serve(s, 0) EXCEPT !.c.scheduled = FALSE] }
  ELSE {}

(* An answer nobody reads is thrown away.                                  *)
ClearAnswer(s) ==
  IF Untouched(s.c) /\ Quiet(s.c) /\ ~s.c.active /\ s.g.fdf8 = 0
  THEN { [s EXCEPT !.c.resp = NoAnswer, !.c.resp_pos = 0] }
  ELSE {}

Healed(s) ==
  {s} \cup IF StallHeals
           THEN Restart(s) \cup Abandon(s) \cup SectorServe(s) \cup DirectoryStart(s)
                \cup ClearAnswer(s)
           ELSE {}

(* The heals stand before and after the part every poll runs.              *)
StatusPoll ==
  \E before \in Healed([c |-> cd, g |-> mem]) :
    \E after \in Healed(PollTail(before)) :
      cd' = after.c /\ mem' = after.g /\ Bounded'

-----------------------------------------------------------------------------
(* Services of the trace hook and the frame wait.                          *)

(* A Pause completion that was never seen is raised again.                 *)
LostPause ==
  /\ cd.last_cmd = Pause /\ cd.pending = 0 /\ ~cd.scheduled /\ mem.fe1c = 6
  /\ cd' = [cd EXCEPT !.resp = Status, !.resp_pos = 0, !.pending = 2]
  /\ UNCHANGED mem

(* The same after 300 ms of wall clock, whatever the last command was.     *)
FramePause ==
  /\ mem.fe1c = 6 /\ cd.pending = 0
  /\ cd' = [cd EXCEPT !.resp = Status, !.resp_pos = 0, !.pending = 2]
  /\ UNCHANGED mem

(* A sector loaded, owed and unread with nothing pending is announced.     *)
LostSector ==
  /\ cd.active /\ cd.loaded /\ cd.pending = 0 /\ mem.fdf8 # 0
  /\ \/ ~cd.scheduled /\ cd.last_cmd = ReadN /\ cd.pos = 0 /\ mem.fe04 = cd.seek
     \/ cd.last_cmd \in {ReadN, ReadS}      \* the frame wait's 200 ms service
  /\ cd'  = [cd EXCEPT !.pending = 1]
  /\ mem' = [mem EXCEPT !.flag = TRUE]

-----------------------------------------------------------------------------
(* The guest's own stores to the cells it shares with the controller.      *)
GuestStore ==
  /\ \/ \E l \in Lba    : mem' = [mem EXCEPT !.fe04 = l]
     \/ \E b \in Sizes  : mem' = [mem EXCEPT !.fdf8 = b]
     \/ \E e \in Ladder : mem' = [mem EXCEPT !.fe1c = e]
     \/ mem' = [mem EXCEPT !.fdfc = TRUE]
     \/ mem' = [mem EXCEPT !.flag = FALSE]
  /\ UNCHANGED cd

Port == \/ \E cmd \in Cmds : IssueCommand(cmd)
        \/ AckArmed \/ Ack
        \/ PopResponse \/ PopData
        \/ \E k \in 1..SectorLen : DmaTransfer(k)
        \/ FlagPoll \/ StatusPoll

Releases == VirtualInt3 \/ DoorRelease \/ StrandedRelease \/ PollRelease

Services == LostPause \/ FramePause \/ LostSector

Next == Port \/ Releases \/ Services \/ GuestStore

Spec == Init /\ [][Next]_vars

-----------------------------------------------------------------------------
(* Properties.                                                             *)

(* A sector is marked loaded only while it has unread bytes: the CPU port, *)
(* the DMA channel, the heals and every new load agree on when a sector is *)
(* retired, so nobody announces an empty FIFO as a waiting sector.         *)
LoadedHasBytes == cd.loaded => HasBytes(cd)

(* Under a read command the staged payload is the sector at the needle:    *)
(* whatever was staged for an earlier seek never reaches the file layer as *)
(* the sector it now asks for, although Setloc, the stream pointer, the    *)
(* DMA re-anchor and the heals all move the needle without the FIFO.       *)
StagedIsNeedle ==
  cd.loaded /\ cd.last_cmd \in {ReadN, Pause} => cd.sector.body = cd.seek

(* While the read runs, the event of a sector the guest has not            *)
(* acknowledged is replaced by no other interrupt, whichever release,      *)
(* assist or service delivers it.                                          *)
SectorEventKept ==
  [][cd.pending = 1 /\ cd.active => cd'.pending \in {0, 1}]_vars

(* An answer delivered with INT3 stays in the response FIFO, byte for      *)
(* byte, while the interrupt is pending and bytes of it are unread: no     *)
(* release, refill, heal or service writes over it.  (Setloc is apart: the *)
(* status poll may answer it a second time.)                               *)
AnswerIntact ==
  [][cd.pending = 3 /\ cd'.pending = 3 /\ ~Drained(cd) /\ cd.last_cmd # Setloc
       => cd'.resp = cd.resp]_vars

(* A sector the guest has begun to take is never swapped under it: the     *)
(* header and every part of the payload come from one load, across DMA     *)
(* and CPU reads, re-anchors and on-demand loads.  (The stall heals do     *)
(* swap it; they are off where this is checked.)                           *)
NoTornSector ==
  [][cd.loaded /\ cd.pos # 0 => cd'.sector = cd.sector]_vars
=============================================================================
