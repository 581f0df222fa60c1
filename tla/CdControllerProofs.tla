------------------------- MODULE CdControllerProofs -------------------------
(***************************************************************************)
(* Proofs about CdController, for every value of its constants: typing,    *)
(* the two state invariants of the sector FIFO, and what no step may do to *)
(* a sector event, to a delivered answer and to a partly read sector (the  *)
(* last one for a controller whose stall heals are off).                   *)
(*                                                                         *)
(* The handlers are compositions of a few transformers of the controller   *)
(* record, so the argument is one lemma per transformer: it maps a good    *)
(* record to a good one.  The inductive invariant is IInv.                 *)
(***************************************************************************)
EXTENDS CdController, TLAPS

LoadedIn(c) == c.loaded => HasBytes(c)
StagedIn(c) == c.loaded /\ c.last_cmd \in {ReadN, Pause} => c.sector.body = c.seek
Good(c)     == c \in Controller /\ LoadedIn(c) /\ StagedIn(c)

IInv == Good(cd) /\ mem \in Cells

Pairs == [c : Controller, g : Cells]

-----------------------------------------------------------------------------
(* The transformers preserve Good.                                         *)

(* The literals the handlers store lie in the ranges of their fields.      *)
LEMMA Literals ==
  /\ 0 \in 0..3 /\ 1 \in 0..3 /\ 2 \in 0..3 /\ 3 \in 0..3
  /\ 0 \in 0..8
  /\ 0 \in 0..SectorLen /\ 0 \in {0, SectorLen} /\ SectorLen \in {0, SectorLen}
  /\ 0 < SectorLen
BY CdAssumption

LEMMA AnswersTyped ==
  /\ Status \in Answers /\ NoAnswer \in Answers
  /\ \A c \in Cmds \cup {0, GetStat, Setloc}, n \in 0..8 : Answer(c, n) \in Answers
BY DEF Status, NoAnswer, Answer, Answers

(* A load needs no more than a typed record with an honest loaded flag:    *)
(* it puts needle and payload together again.                              *)
LEMMA DataLoadGood ==
  ASSUME NEW c \in Controller, NEW g \in Cells, LoadedIn(c)
  PROVE  Good(DataLoad(c, g))
<1> DEFINE l == Anchor(c, g)
           s == Snap(c, l)
           d == [c EXCEPT !.seek = s, !.loaded = TRUE, !.pos = 0, !.n = SectorLen,
                          !.sector = [header |-> l, body |-> s]]
<1>1. l \in Nat
  BY DEF Anchor, Controller, Cells
<1>2. s \in Nat
  BY <1>1 DEF Snap, Controller
<1>3. CASE c.last_cmd = GetTN
  <2>1. DataLoad(c, g) = [c EXCEPT !.seek = l]
    BY <1>3 DEF DataLoad
  <2>2. [c EXCEPT !.seek = l] \in Controller
    BY <1>1 DEF Controller
  <2>3. QED
    BY <1>3, <2>1, <2>2
       DEF Good, LoadedIn, StagedIn, HasBytes, Controller, GetTN, ReadN, Pause
<1>4. CASE c.last_cmd # GetTN
  <2>1. DataLoad(c, g) = d
    BY <1>4 DEF DataLoad
  <2>2. [header |-> l, body |-> s] \in [header : Nat, body : Nat]
    BY <1>1, <1>2
  <2>3. d \in Controller
    BY <1>2, <2>2, Literals DEF Controller
  <2>4. d.pos < d.n /\ d.sector.body = d.seek
    BY Literals DEF Controller
  <2>5. QED
    BY <2>1, <2>3, <2>4 DEF Good, LoadedIn, StagedIn, HasBytes
<1>5. QED
  BY <1>3, <1>4

LEMMA TakeGood ==
  ASSUME NEW c, Good(c), NEW k \in Nat
  PROVE  Good(Take(c, k))
<1>1. c \in Controller
  BY DEF Good
<1>2. CASE c.pos + k >= c.n
  <2>1. c.n \in 0..SectorLen /\ c.seek + 1 \in Nat
    BY <1>1, CdAssumption DEF Controller
  <2>2. Consumed(c) \in Controller /\ ~Consumed(c).loaded
    BY <1>1, <2>1 DEF Consumed, Controller
  <2>3. QED
    BY <1>2, <2>2 DEF Take, Good, LoadedIn, StagedIn
<1>3. CASE ~(c.pos + k >= c.n)
  <2> DEFINE d == [c EXCEPT !.pos = @ + k]
  <2>1. c.pos + k \in 0..SectorLen /\ c.pos + k < c.n
    BY <1>1, <1>3, CdAssumption DEF Controller
  <2>2. d \in Controller
    BY <1>1, <2>1 DEF Controller
  <2>3. LoadedIn(d) /\ StagedIn(d)
    BY <1>1, <2>1 DEF LoadedIn, StagedIn, HasBytes, Controller, Good
  <2>4. QED
    BY <1>3, <2>2, <2>3 DEF Take, Good
<1>4. QED
  BY <1>2, <1>3

LEMMA ReAnchoredGood ==
  ASSUME NEW c, Good(c), NEW g \in Cells
  PROVE  Good(ReAnchored(c, g))
<1>1. /\ [c EXCEPT !.seek = g.fe04] \in Controller
      /\ LoadedIn([c EXCEPT !.seek = g.fe04])
  BY DEF Good, LoadedIn, HasBytes, Controller, Cells
<1>2. Good(DataLoad([c EXCEPT !.seek = g.fe04], g))
  BY <1>1, DataLoadGood
<1>3. QED
  BY <1>2 DEF ReAnchored

(* A change that leaves the sector FIFO, the needle and the last command   *)
(* alone keeps a record good as long as it is typed.                       *)
SameFifo(c, d) ==
  /\ d.loaded = c.loaded /\ d.pos = c.pos /\ d.n = c.n
  /\ d.sector = c.sector /\ d.seek = c.seek /\ d.last_cmd = c.last_cmd

LEMMA SameFifoGood ==
  ASSUME NEW c, Good(c), NEW d \in Controller, SameFifo(c, d)
  PROVE  Good(d)
BY DEF SameFifo, Good, LoadedIn, StagedIn, HasBytes

LEMMA RestorePendGood ==
  ASSUME NEW c, Good(c)
  PROVE  Good(RestorePend(c)) /\ SameFifo(c, RestorePend(c))
<1>1. RestorePend(c) \in Controller
  BY Literals DEF RestorePend, Good, Controller
<1>2. SameFifo(c, RestorePend(c))
  BY DEF RestorePend, SameFifo, Good, Controller
<1>3. QED
  BY <1>1, <1>2, SameFifoGood

LEMMA PendingGood ==
  ASSUME NEW c, Good(c), NEW p \in 0..3
  PROVE  Good([c EXCEPT !.pending = p])
<1> DEFINE d == [c EXCEPT !.pending = p]
<1>1. d \in Controller /\ SameFifo(c, d)
  BY DEF Good, Controller, SameFifo
<1>2. QED
  BY <1>1, SameFifoGood

LEMMA ResponseGood ==
  ASSUME NEW c, Good(c), NEW a \in Answers
  PROVE  Good([c EXCEPT !.resp = a, !.resp_pos = 0])
<1> DEFINE d == [c EXCEPT !.resp = a, !.resp_pos = 0]
<1>1. d \in Controller /\ SameFifo(c, d)
  BY Literals DEF Good, Controller, SameFifo
<1>2. QED
  BY <1>1, SameFifoGood

LEMMA DeliverGood ==
  ASSUME NEW c, Good(c)
  PROVE  Good(Deliver(c))
<1>1. Deliver(c) \in Controller /\ SameFifo(c, Deliver(c))
  BY Literals DEF Deliver, Good, Controller, SameFifo
<1>2. QED
  BY <1>1, SameFifoGood

LEMMA AwaitedAnswerGood ==
  ASSUME NEW c, Good(c), NEW g \in Cells
  PROVE  Good(AwaitedAnswer(c, g))
BY AnswersTyped, ResponseGood, RestorePendGood DEF AwaitedAnswer

LEMMA ForcedSectorGood ==
  ASSUME NEW c, Good(c), NEW g \in Cells
  PROVE  Good(ForcedSector(c, g))
BY Literals, PendingGood DEF ForcedSector

-----------------------------------------------------------------------------
(* A command.                                                              *)

LEMMA NeedleTyped ==
  ASSUME NEW c, Good(c), NEW cmd \in Cmds
  PROVE  /\ Needle(c, cmd) \in Controller
         /\ LoadedIn(Needle(c, cmd))
<1> DEFINE nxt == IF c.streak THEN c.next ELSE c.seek + 1
           at  == IF nxt \in StreamTail THEN nxt ELSE c.seek
           reading == cmd \in {ReadN, ReadS}
           keeps   == c.live /\ cmd \notin {Setloc, Pause}
           moved == [c EXCEPT !.seek = at, !.next = nxt + 1,
                              !.streak = TRUE, !.live = TRUE]
           kept  == [c EXCEPT !.streak = reading, !.live = keeps]
<1>1. c \in Controller
  BY DEF Good
<1>2. nxt \in Nat /\ nxt + 1 \in Nat /\ at \in Nat
  BY <1>1 DEF Controller
<1>3. reading \in BOOLEAN /\ keeps \in BOOLEAN
  BY <1>1, SMT DEF Controller
<1>4. Needle(c, cmd) = moved \/ Needle(c, cmd) = kept
  BY Zenon DEF Needle
<1> HIDE DEF nxt, at, reading, keeps
<1>5. moved \in Controller /\ kept \in Controller
  BY <1>1, <1>2, <1>3 DEF Controller
<1>6. /\ moved.loaded = c.loaded /\ moved.pos = c.pos /\ moved.n = c.n
      /\ kept.loaded = c.loaded /\ kept.pos = c.pos /\ kept.n = c.n
  BY <1>1 DEF Controller
<1>7. LoadedIn(moved) /\ LoadedIn(kept)
  BY <1>6 DEF Good, LoadedIn, HasBytes
<1>8. QED
  BY <1>4, <1>5, <1>7

LEMMA PositionTyped ==
  ASSUME NEW c \in Controller, LoadedIn(c), NEW g \in Cells, NEW cmd \in Cmds,
         NEW target \in Nat
  PROVE  /\ Position(c, g, cmd, target) \in Controller
         /\ LoadedIn(Position(c, g, cmd, target))
         /\ cmd \in {ReadN, Pause} => ~Position(c, g, cmd, target).loaded
<1> DEFINE at == Expected(c, g)
           p  == Position(c, g, cmd, target)
<1>1. CASE cmd = Setloc
  <2>1. p = [c EXCEPT !.seek = target]
    BY <1>1 DEF Position, Setloc, ReadN, Pause, Stop
  <2>2. p \in Controller /\ p.loaded = c.loaded /\ p.pos = c.pos /\ p.n = c.n
    BY <2>1 DEF Controller
  <2>3. QED
    BY <1>1, <2>2 DEF LoadedIn, HasBytes, Setloc, ReadN, Pause
<1>2. CASE cmd \in {ReadN, Pause}
  <2> DEFINE runs == ~(cmd = Pause /\ at >= PauseStops)
  <2>1. at \in Nat
    BY DEF Expected, Controller, Cells
  <2>2. runs \in BOOLEAN
    BY SMT
  <2>3. p = [c EXCEPT !.seek = at, !.loaded = FALSE, !.active = runs]
    BY <1>2 DEF Position, Setloc, ReadN, Pause, Stop
  <2> HIDE DEF p, at, runs
  <2>4. p \in Controller /\ ~p.loaded
    BY <2>1, <2>2, <2>3 DEF Controller
  <2>5. LoadedIn(p)
    BY <2>4 DEF LoadedIn
  <2>6. QED
    BY <2>4, <2>5 DEF p
<1>3. CASE cmd = Stop
  <2>1. p = [c EXCEPT !.active = FALSE]
    BY <1>3 DEF Position, Setloc, ReadN, Pause, Stop
  <2>2. p \in Controller /\ p.loaded = c.loaded /\ p.pos = c.pos /\ p.n = c.n
    BY <2>1 DEF Controller
  <2>3. QED
    BY <1>3, <2>2 DEF LoadedIn, HasBytes, Stop, ReadN, Pause
<1>4. CASE cmd \notin {Setloc, ReadN, Pause, Stop}
  BY <1>4 DEF Position
<1>5. QED
  BY <1>1, <1>2, <1>3, <1>4

LEMMA AnswerToTyped ==
  ASSUME NEW cmd \in Cmds
  PROVE  AnswerTo(cmd) \in Answers
<1>1. {3, 8} \subseteq 0..8
  OBVIOUS
<1>2. QED
  BY <1>1, AnswersTyped DEF AnswerTo

LEMMA ScheduleGood ==
  ASSUME NEW c \in Controller, LoadedIn(c), NEW cmd \in Cmds,
         cmd \in {ReadN, Pause} => ~c.loaded
  PROVE  Good(Schedule(c, cmd))
<1> DEFINE d == Schedule(c, cmd)
<1>1. d \in Controller
  BY Literals, AnswerToTyped DEF Schedule, Controller
<1>2. /\ d.loaded = c.loaded /\ d.pos = c.pos /\ d.n = c.n
      /\ d.last_cmd = cmd
  BY DEF Schedule, Controller
<1>3. QED
  BY <1>1, <1>2 DEF Good, LoadedIn, StagedIn, HasBytes

LEMMA DirectDeliveryTyped ==
  ASSUME NEW g \in Cells
  PROVE  DirectDelivery(g) \in Cells
BY DEF DirectDelivery, Cells

LEMMA IssueCommandGood ==
  ASSUME IInv, NEW cmd \in Cmds, IssueCommand(cmd)
  PROVE  IInv'
<1>1. PICK target \in Targets(Needle(cd, cmd), cmd), starved \in BOOLEAN, sync \in BOOLEAN :
        LET g == IF starved THEN DirectDelivery(mem) ELSE mem
        IN  /\ cd'  = Schedule(Position(Needle(cd, cmd), g, cmd, target), cmd)
            /\ mem' = IF sync THEN DirectDelivery(g) ELSE g
  BY DEF IssueCommand
<1> DEFINE g == IF starved THEN DirectDelivery(mem) ELSE mem
<1>2. g \in Cells /\ mem' \in Cells
  BY <1>1, DirectDeliveryTyped DEF IInv
<1>3. Needle(cd, cmd) \in Controller /\ LoadedIn(Needle(cd, cmd))
  BY NeedleTyped DEF IInv
<1>4. target \in Nat
  BY <1>3, CdAssumption DEF Targets, Controller
<1>5. Good(Schedule(Position(Needle(cd, cmd), g, cmd, target), cmd))
  <2> HIDE DEF g
  <2>1. QED
    BY <1>2, <1>3, <1>4, PositionTyped, ScheduleGood
<1>6. QED
  BY <1>1, <1>2, <1>5 DEF IInv

-----------------------------------------------------------------------------
(* The status poll: its common part and the stall heals.                   *)

LEMMA LoadOnDemandGood ==
  ASSUME NEW c, Good(c), NEW g \in Cells
  PROVE  Good(LoadOnDemand(c, g))
BY DataLoadGood DEF LoadOnDemand, Good

LEMMA DropStaleGood ==
  ASSUME NEW c, Good(c), NEW g \in Cells
  PROVE  Good(DropStale(c, g))
<1> DEFINE d == [c EXCEPT !.pending = 0, !.pos = 0, !.n = 0, !.loaded = FALSE]
<1>1. d \in Controller /\ ~d.loaded
  BY Literals DEF Good, Controller
<1>2. Good(d)
  BY <1>1 DEF Good, LoadedIn, StagedIn
<1>3. QED
  BY <1>2 DEF DropStale

LEMMA AssistSetlocGood ==
  ASSUME NEW c, Good(c), NEW g \in Cells
  PROVE  Good(AssistSetloc(c, g))
<1> DEFINE a == Answer(Setloc, 3)
           d == [c EXCEPT !.resp = a, !.resp_pos = 0, !.last_full = a, !.pending = 3]
<1>1. a \in Answers
  BY AnswersTyped
<1> HIDE DEF a
<1>2. d \in Controller /\ SameFifo(c, d)
  BY <1>1, Literals DEF Good, Controller, SameFifo
<1>3. Good(d)
  BY <1>2, SameFifoGood
<1>4. QED
  BY <1>3 DEF AssistSetloc, a

LEMMA RePrimeGood ==
  ASSUME NEW c, Good(c)
  PROVE  Good(RePrime(c))
<1>1. RePrimed(c) \in Answers
  BY AnswersTyped DEF RePrimed, Good, Controller
<1>2. QED
  BY <1>1, ResponseGood DEF RePrime

LEMMA PollTailGood ==
  ASSUME NEW s \in Pairs, Good(s.c)
  PROVE  /\ PollTail(s) \in Pairs
         /\ Good(PollTail(s).c)
<1> DEFINE d == RePrime(AssistSetloc(DropStale(LoadOnDemand(s.c, s.g), s.g), s.g))
<1>1. s.g \in Cells
  BY DEF Pairs
<1>2. Good(d)
  BY <1>1, LoadOnDemandGood, DropStaleGood, AssistSetlocGood, RePrimeGood
<1>3. PollTail(s) = [s EXCEPT !.c = d]
  BY DEF PollTail
<1> HIDE DEF d
<1>4. QED
  BY <1>2, <1>3 DEF Pairs, Good

LEMMA RestartGood ==
  ASSUME NEW s \in Pairs, Good(s.c), NEW t \in Restart(s)
  PROVE  t \in Pairs /\ Good(t.c)
<1> DEFINE at(l)    == [s.c EXCEPT !.seek = l, !.active = TRUE, !.loaded = FALSE]
           cells(l) == [s.g EXCEPT !.fe04 = l]
<1>1. PICK l \in {s.c.seek, s.g.fe04}, p \in {s.c.pending, 1}, e \in {s.g.fe1c, 0} :
        t = [c |-> [DataLoad(at(l), cells(l)) EXCEPT !.pending = p],
             g |-> [cells(l) EXCEPT !.fe1c = e]]
  BY DEF Restart
<1>2. s.c \in Controller /\ s.g \in Cells
  BY DEF Pairs
<1>3. l \in Nat /\ p \in 0..3 /\ e \in Nat
  BY <1>2, Literals DEF Controller, Cells
<1>4. at(l) \in Controller /\ ~at(l).loaded
  BY <1>2, <1>3 DEF Controller
<1>5. cells(l) \in Cells /\ [cells(l) EXCEPT !.fe1c = e] \in Cells
  BY <1>2, <1>3 DEF Cells
<1>6. LoadedIn(at(l))
  BY <1>4 DEF LoadedIn
<1> HIDE DEF at, cells
<1>7. Good([DataLoad(at(l), cells(l)) EXCEPT !.pending = p])
  BY <1>3, <1>4, <1>5, <1>6, DataLoadGood, PendingGood
<1>8. QED
  BY <1>1, <1>5, <1>7 DEF Pairs, Good

LEMMA AbandonGood ==
  ASSUME NEW s \in Pairs, Good(s.c), NEW t \in Abandon(s)
  PROVE  t \in Pairs /\ Good(t.c)
<1>1. t = [s EXCEPT !.c.active = FALSE, !.c.loaded = FALSE, !.c.pos = 0, !.c.n = 0]
  BY DEF Abandon
<1>2. t \in Pairs /\ ~t.c.loaded
  BY <1>1, Literals DEF Pairs, Controller
<1>3. QED
  BY <1>2 DEF Pairs, Good, LoadedIn, StagedIn

(* A read started by hand stages nothing yet, and leaves the protocol of   *)
(* commands and answers as it was.                                         *)
LEMMA ServeGood ==
  ASSUME NEW s \in Pairs, NEW l \in Nat
  PROVE  /\ Serve(s, l) \in Pairs /\ Good(Serve(s, l).c)
         /\ Serve(s, l).c.resp = s.c.resp /\ Serve(s, l).c.resp_pos = s.c.resp_pos
         /\ Serve(s, l).c.last_cmd = s.c.last_cmd /\ Serve(s, l).c.pending = s.c.pending
         /\ ~Serve(s, l).c.loaded
<1> DEFINE d == [s.c EXCEPT !.seek = l, !.active = TRUE, !.loaded = FALSE]
           f == [d EXCEPT !.pos = 0, !.n = 0]
<1>1. s.c \in Controller /\ s.g \in Cells
  BY DEF Pairs
<1>2. /\ d \in Controller /\ ~d.loaded /\ d.resp = s.c.resp /\ d.resp_pos = s.c.resp_pos
      /\ d.last_cmd = s.c.last_cmd /\ d.pending = s.c.pending
  BY <1>1 DEF Controller
<1> HIDE DEF d
<1>3. /\ f \in Controller /\ ~f.loaded /\ f.resp = d.resp /\ f.resp_pos = d.resp_pos
      /\ f.last_cmd = d.last_cmd /\ f.pending = d.pending
  BY <1>2, Literals DEF Controller
<1>4. Started(s.c, l) = d \/ Started(s.c, l) = f
  BY DEF Started, Flushed, d
<1> HIDE DEF f
<1>5. /\ Started(s.c, l) \in Controller /\ ~Started(s.c, l).loaded
      /\ Started(s.c, l).resp = s.c.resp /\ Started(s.c, l).resp_pos = s.c.resp_pos
      /\ Started(s.c, l).last_cmd = s.c.last_cmd /\ Started(s.c, l).pending = s.c.pending
  BY <1>2, <1>3, <1>4
<1>6. [s.g EXCEPT !.fe04 = l] \in Cells
  BY <1>1 DEF Cells
<1>7. QED
  BY <1>5, <1>6 DEF Serve, Pairs, Good, LoadedIn, StagedIn

LEMMA UnscheduledGood ==
  ASSUME NEW s \in Pairs, Good(s.c), NEW t, t = [s EXCEPT !.c.scheduled = FALSE]
  PROVE  /\ t \in Pairs /\ Good(t.c)
         /\ t.c.resp = s.c.resp /\ t.c.resp_pos = s.c.resp_pos
         /\ t.c.last_cmd = s.c.last_cmd /\ t.c.pending = s.c.pending
<1> DEFINE d == [s.c EXCEPT !.scheduled = FALSE]
<1>1. t.c = d /\ t = [c |-> d, g |-> s.g]
  BY DEF Pairs
<1>2. /\ d \in Controller /\ SameFifo(s.c, d)
      /\ d.resp = s.c.resp /\ d.resp_pos = s.c.resp_pos /\ d.pending = s.c.pending
  BY DEF Pairs, Controller, SameFifo
<1> HIDE DEF d
<1>3. Good(d)
  BY <1>2, SameFifoGood
<1>4. QED
  BY <1>1, <1>2, <1>3 DEF Pairs, SameFifo

(* What the two serves make of a record.                                   *)
LEMMA ServedGood ==
  ASSUME NEW s \in Pairs, NEW t \in SectorServe(s) \cup DirectoryStart(s)
  PROVE  /\ t \in Pairs /\ Good(t.c) /\ ~s.c.active
         /\ t.c.resp = s.c.resp /\ t.c.resp_pos = s.c.resp_pos
         /\ t.c.last_cmd = s.c.last_cmd /\ t.c.pending = s.c.pending
<1>1. CASE t \in SectorServe(s)
  <2>1. PICK l \in SyncFile : t = Serve(s, l)
    BY <1>1 DEF SectorServe
  <2>2. l \in Nat
    BY DEF SyncFile
  <2>3. ~s.c.active
    BY <1>1 DEF SectorServe, Owed
  <2>4. QED
    BY <2>1, <2>2, <2>3, ServeGood
<1>2. CASE t \in DirectoryStart(s)
  <2>1. t = [Serve(s, 0) EXCEPT !.c.scheduled = FALSE] /\ ~s.c.active
    BY <1>2 DEF DirectoryStart, Owed
  <2>2. PICK r : r = Serve(s, 0)
    OBVIOUS
  <2>3. /\ r \in Pairs /\ Good(r.c) /\ r.c.resp = s.c.resp /\ r.c.resp_pos = s.c.resp_pos
        /\ r.c.last_cmd = s.c.last_cmd /\ r.c.pending = s.c.pending
    BY <2>2, ServeGood
  <2>4. t = [r EXCEPT !.c.scheduled = FALSE]
    BY <2>1, <2>2
  <2>5. QED
    BY <2>1, <2>3, <2>4, UnscheduledGood
<1>3. QED
  BY <1>1, <1>2

LEMMA ClearAnswerGood ==
  ASSUME NEW s \in Pairs, Good(s.c), NEW t \in ClearAnswer(s)
  PROVE  t \in Pairs /\ Good(t.c)
<1>1. t = [s EXCEPT !.c.resp = NoAnswer, !.c.resp_pos = 0]
  BY DEF ClearAnswer
<1>2. t \in Pairs /\ t.c = [s.c EXCEPT !.resp = NoAnswer, !.resp_pos = 0]
  BY <1>1, Literals, AnswersTyped DEF Pairs, Controller
<1>3. NoAnswer \in Answers
  BY AnswersTyped
<1>4. Good([s.c EXCEPT !.resp = NoAnswer, !.resp_pos = 0])
  BY <1>3, ResponseGood
<1>5. QED
  BY <1>2, <1>4

LEMMA HealedGood ==
  ASSUME NEW s \in Pairs, Good(s.c), NEW t \in Healed(s)
  PROVE  t \in Pairs /\ Good(t.c)
BY RestartGood, AbandonGood, ServedGood, ClearAnswerGood DEF Healed

LEMMA StatusPollGood ==
  ASSUME IInv, StatusPoll
  PROVE  IInv'
<1> DEFINE s == [c |-> cd, g |-> mem]
<1>0. PICK before \in Healed(s) :
        \E after \in Healed(PollTail(before)) : cd' = after.c /\ mem' = after.g
  BY DEF StatusPoll
<1>1. PICK after \in Healed(PollTail(before)) : cd' = after.c /\ mem' = after.g
  BY <1>0
<1>2. s \in Pairs /\ Good(s.c)
  BY DEF IInv, Good, Pairs
<1>3. before \in Pairs /\ Good(before.c)
  BY <1>2, HealedGood
<1>4. PollTail(before) \in Pairs /\ Good(PollTail(before).c)
  BY <1>3, PollTailGood
<1>5. after \in Pairs /\ Good(after.c)
  BY <1>4, HealedGood
<1>6. QED
  BY <1>1, <1>5 DEF IInv, Pairs

-----------------------------------------------------------------------------
(* The remaining actions.                                                  *)

LEMMA AckArmedGood ==
  ASSUME IInv, AckArmed
  PROVE  IInv'
<1> DEFINE c == [cd EXCEPT !.arm = FALSE, !.resp = Status, !.resp_pos = 0, !.pending = 1]
<1>1. cd' = (IF c.loaded THEN c ELSE DataLoad(c, mem)) /\ mem' = mem
  BY DEF AckArmed
<1>2. c \in Controller /\ SameFifo(cd, c)
  BY Literals, AnswersTyped DEF IInv, Good, Controller, SameFifo
<1> HIDE DEF c
<1>3. Good(c)
  BY <1>2, SameFifoGood DEF IInv
<1>4. Good(DataLoad(c, mem))
  BY <1>3, DataLoadGood DEF IInv, Good
<1>5. QED
  BY <1>1, <1>3, <1>4 DEF IInv

LEMMA AckGood ==
  ASSUME IInv, Ack
  PROVE  IInv'
<1> DEFINE completes == cd.pending = 3 /\ cd.last_cmd \in TwoPhase
           pend == IF completes THEN 2 ELSE 0
           resp == IF completes THEN Completion(cd.last_cmd) ELSE NoAnswer
           arm  == cd.arm \/ (cd.pending = 3 /\ cd.active /\ cd.last_cmd = ReadN)
           c    == [cd EXCEPT !.pending = pend, !.resp = resp, !.resp_pos = 0, !.arm = arm]
<1>1. cd' = c
  BY DEF Ack
<1>2. mem' \in Cells
  BY DEF Ack, IInv, Cells
<1>3. cd \in Controller
  BY DEF IInv, Good
<1>4. pend \in 0..3 /\ arm \in BOOLEAN
  BY <1>3, Literals, SMT DEF Controller
<1>5. resp \in Answers
  <2>1. 8 \in 0..8
    OBVIOUS
  <2>2. QED
    BY <1>3, <2>1, AnswersTyped DEF Completion, Controller
<1> HIDE DEF pend, resp, arm
<1>6. c \in Controller /\ SameFifo(cd, c)
  BY <1>3, <1>4, <1>5, Literals DEF Controller, SameFifo
<1>7. QED
  BY <1>1, <1>2, <1>6, SameFifoGood DEF IInv

LEMMA PopResponseGood ==
  ASSUME IInv, PopResponse
  PROVE  IInv'
<1>1. cd \in Controller
  BY DEF IInv, Good
<1>2. PICK announce \in BOOLEAN :
        cd' = [cd EXCEPT !.resp_pos = @ + 1, !.pending = IF announce THEN 1 ELSE @]
  <2>1. ( /\ cd.resp_pos + 1 = cd.resp.n /\ cd.last_cmd \in {ReadN, Pause} /\ cd.active
          /\ cd.loaded /\ HasBytes(cd) /\ cd.pending = 0 ) \in BOOLEAN
    BY SMT, <1>1 DEF Controller
  <2>2. QED
    BY <2>1, Zenon DEF PopResponse
<1>3. cd.resp_pos + 1 \in 0..8
  BY <1>1 DEF PopResponse, Controller, Answers
<1>4. cd' \in Controller /\ SameFifo(cd, cd')
  BY <1>1, <1>2, <1>3, Literals DEF Controller, SameFifo
<1>5. Good(cd')
  BY <1>4, SameFifoGood DEF IInv
<1>6. mem' \in Cells
  BY DEF PopResponse, LadderTarget, IInv, Cells
<1>7. QED
  BY <1>5, <1>6 DEF IInv

LEMMA PopDataGood ==
  ASSUME IInv, PopData
  PROVE  IInv'
<1> DEFINE c == IF cd.loaded /\ HasBytes(cd) THEN cd ELSE DataLoad(cd, mem)
           d == Take(c, 1)
<1>1. Good(c)
  BY DataLoadGood DEF IInv, Good
<1>2. Good(d)
  BY <1>1, TakeGood
<1>3. Good([d EXCEPT !.pending = 1])
  BY <1>2, PendingGood, Literals
<1>4. cd' = c \/ cd' = d \/ cd' = [d EXCEPT !.pending = 1]
  BY DEF PopData
<1> HIDE DEF c, d
<1>5. QED
  BY <1>1, <1>2, <1>3, <1>4 DEF PopData, IInv

LEMMA DmaTransferGood ==
  ASSUME IInv, NEW k \in 1..SectorLen, DmaTransfer(k)
  PROVE  IInv'
<1> DEFINE d == Take(ReAnchored(cd, mem), k)
<1>1. Good(d)
  BY ReAnchoredGood, TakeGood, CdAssumption DEF IInv
<1>2. Good([d EXCEPT !.pending = 1])
  BY <1>1, PendingGood, Literals
<1>3. cd' = d \/ cd' = [d EXCEPT !.pending = 1]
  BY DEF DmaTransfer
<1>4. mem' \in Cells
  BY DEF DmaTransfer, IInv, Cells
<1> HIDE DEF d
<1>5. QED
  BY <1>1, <1>2, <1>3, <1>4 DEF IInv

LEMMA FlagPollGood ==
  ASSUME IInv, FlagPoll
  PROVE  IInv'
<1>1. Good([cd EXCEPT !.pending = 1])
  BY PendingGood, Literals DEF IInv
<1>2. Good([cd EXCEPT !.pending = 1, !.resp = Status, !.resp_pos = 0])
  <2>1. Good([[cd EXCEPT !.pending = 1] EXCEPT !.resp = Status, !.resp_pos = 0])
    BY <1>1, ResponseGood, AnswersTyped
  <2>2. QED
    BY <2>1
<1>3. mem' \in Cells
  BY DEF FlagPoll, IInv, Cells
<1>4. QED
  BY <1>1, <1>2, <1>3 DEF FlagPoll, IInv

LEMMA ReleasesGood ==
  ASSUME IInv, Releases
  PROVE  IInv'
<1>1. Good(cd) /\ mem \in Cells
  BY DEF IInv
<1>2. CASE VirtualInt3
  <2>1. mem' \in Cells
    BY <1>1, <1>2 DEF VirtualInt3, Cells
  <2>2. QED
    BY <1>1, <1>2, <2>1, RestorePendGood, DeliverGood DEF VirtualInt3, IInv
<1>3. CASE DoorRelease
  <2>1. mem' \in Cells
    BY <1>1, <1>3 DEF DoorRelease, Cells
  <2>2. QED
    BY <1>1, <1>3, <2>1, DeliverGood DEF DoorRelease, IInv
<1>4. CASE StrandedRelease
  <2> DEFINE c == IF cd.pend_ans.of = cd.last_cmd THEN RestorePend(cd) ELSE cd
  <2>1. Good(Deliver(c))
    BY <1>1, RestorePendGood, DeliverGood
  <2>2. cd' = Deliver(c) /\ mem' = [mem EXCEPT !.flag = TRUE]
    BY <1>4 DEF StrandedRelease
  <2>3. mem' \in Cells
    BY <1>1, <2>2 DEF Cells
  <2>4. QED
    BY <2>1, <2>2, <2>3 DEF IInv
<1>5. CASE PollRelease
  <2> DEFINE b == mem.flag \/ WinPosted(cd)
             c == Deliver(RestorePend(cd))
             d == Deliver(AwaitedAnswer(cd, mem))
  <2>1. b \in BOOLEAN
    BY <1>1, SMT DEF Cells, WinPosted
  <2>2. mem' = mem \/ mem' = [mem EXCEPT !.flag = b] \/ mem' = [mem EXCEPT !.flag = TRUE]
    BY <1>5 DEF PollRelease
  <2>3. cd' = ForcedSector(c, mem) \/ cd' = ForcedSector(d, mem)
    BY <1>5 DEF PollRelease
  <2>4. Good(c) /\ Good(d)
    BY <1>1, RestorePendGood, AwaitedAnswerGood, DeliverGood
  <2> HIDE DEF b, c, d
  <2>5. mem' \in Cells
    BY <1>1, <2>1, <2>2 DEF Cells
  <2>6. Good(cd')
    BY <1>1, <2>3, <2>4, ForcedSectorGood
  <2>7. QED
    BY <2>5, <2>6 DEF IInv
<1>6. QED
  BY <1>2, <1>3, <1>4, <1>5 DEF Releases

LEMMA ServicesGood ==
  ASSUME IInv, Services
  PROVE  IInv'
<1> DEFINE int2 == [cd EXCEPT !.resp = Status, !.resp_pos = 0, !.pending = 2]
<1>1. Good(int2)
  <2>1. Good([[cd EXCEPT !.pending = 2] EXCEPT !.resp = Status, !.resp_pos = 0])
    BY PendingGood, ResponseGood, AnswersTyped, Literals DEF IInv
  <2>2. QED
    BY <2>1
<1>2. Good([cd EXCEPT !.pending = 1])
  BY PendingGood, Literals DEF IInv
<1>3. mem' \in Cells
  BY DEF Services, LostPause, FramePause, LostSector, IInv, Cells
<1>4. QED
  BY <1>1, <1>2, <1>3 DEF Services, LostPause, FramePause, LostSector, IInv

LEMMA GuestStoreGood ==
  ASSUME IInv, GuestStore
  PROVE  IInv'
BY CdAssumption DEF GuestStore, IInv, Cells

-----------------------------------------------------------------------------
(* The invariant.                                                          *)

LEMMA InitIInv == Init => IInv
<1> SUFFICES ASSUME Init PROVE IInv
  OBVIOUS
<1>1. cd \in Controller
  BY Literals, AnswersTyped DEF Init, Controller
<1>2. ~cd.loaded /\ mem \in Cells
  BY DEF Init, Cells
<1>3. QED
  BY <1>1, <1>2 DEF IInv, Good, LoadedIn, StagedIn

LEMMA NextIInv == IInv /\ [Next]_vars => IInv'
<1> SUFFICES ASSUME IInv, [Next]_vars PROVE IInv'
  OBVIOUS
<1>1. CASE Port
  BY <1>1, IssueCommandGood, AckArmedGood, AckGood, PopResponseGood, PopDataGood,
     DmaTransferGood, FlagPollGood, StatusPollGood DEF Port
<1>2. CASE Releases
  BY <1>2, ReleasesGood
<1>3. CASE Services
  BY <1>3, ServicesGood
<1>4. CASE GuestStore
  BY <1>4, GuestStoreGood
<1>5. CASE UNCHANGED vars
  BY <1>5 DEF vars, IInv
<1>6. QED
  BY <1>1, <1>2, <1>3, <1>4, <1>5 DEF Next

THEOREM Inductive == Spec => []IInv
<1>1. QED
  BY InitIInv, NextIInv, PTL DEF Spec

(* Every reachable state is typed.                                         *)
THEOREM Typing == Spec => []TypeOK
<1>1. IInv => TypeOK
  BY DEF IInv, Good, TypeOK
<1>2. QED
  BY <1>1, Inductive, PTL

(* A sector marked loaded has unread bytes, whatever the order in which    *)
(* commands, CPU reads, DMA transfers and heals hit the FIFO.              *)
THEOREM LoadedSectorsHaveBytes == Spec => []LoadedHasBytes
<1>1. IInv => LoadedHasBytes
  BY DEF IInv, Good, LoadedIn, LoadedHasBytes
<1>2. QED
  BY <1>1, Inductive, PTL

(* Under a read command the staged payload is the sector at the needle.    *)
THEOREM StagedSectorIsAtNeedle == Spec => []StagedIsNeedle
<1>1. IInv => StagedIsNeedle
  BY DEF IInv, Good, StagedIn, StagedIsNeedle
<1>2. QED
  BY <1>1, Inductive, PTL

-----------------------------------------------------------------------------
(* What the transformers leave alone.                                      *)

SameProtocol(c, d) ==
  /\ d.pending = c.pending /\ d.active = c.active /\ d.last_cmd = c.last_cmd
  /\ d.resp = c.resp /\ d.resp_pos = c.resp_pos

LEMMA DataLoadKeeps ==
  ASSUME NEW c \in Controller, NEW g
  PROVE  SameProtocol(c, DataLoad(c, g))
BY DEF DataLoad, Controller, SameProtocol

LEMMA TakeKeeps ==
  ASSUME NEW c \in Controller, NEW k
  PROVE  /\ SameProtocol(c, Take(c, k))
         /\ Take(c, k).sector = c.sector
BY DEF Take, Consumed, Controller, SameProtocol

LEMMA ReAnchoredKeeps ==
  ASSUME NEW c, Good(c), NEW g \in Cells
  PROVE  SameProtocol(c, ReAnchored(c, g))
<1> DEFINE d == [c EXCEPT !.seek = g.fe04]
<1>1. c \in Controller /\ d \in Controller /\ SameProtocol(c, d)
  BY DEF Good, Controller, Cells, SameProtocol
<1>2. SameProtocol(d, DataLoad(d, g))
  BY <1>1, DataLoadKeeps
<1>3. ReAnchored(c, g) \in {c, DataLoad(d, g)}
  BY DEF ReAnchored
<1>4. QED
  BY <1>1, <1>2, <1>3 DEF SameProtocol

LEMMA CommandKeeps ==
  ASSUME NEW c, Good(c), NEW g \in Cells, NEW cmd \in Cmds, NEW target \in Nat
  PROVE  LET d == Schedule(Position(Needle(c, cmd), g, cmd, target), cmd)
         IN  d.sector = c.sector /\ d.pending = 0
<1> DEFINE n == Needle(c, cmd)
           p == Position(n, g, cmd, target)
<1>1. n \in Controller /\ LoadedIn(n) /\ p \in Controller
  BY NeedleTyped, PositionTyped
<1>2. n.sector = c.sector
  BY DEF Needle, Good, Controller
<1> HIDE DEF n
<1>3. p.sector = n.sector
  BY <1>1 DEF Position, Controller
<1> HIDE DEF p
<1>4. Schedule(p, cmd).sector = p.sector /\ Schedule(p, cmd).pending = 0
  BY <1>1 DEF Schedule, Controller
<1>5. QED
  BY <1>2, <1>3, <1>4 DEF n, p

LEMMA IssueCommandKeeps ==
  ASSUME IInv, NEW cmd \in Cmds, IssueCommand(cmd)
  PROVE  cd'.sector = cd.sector /\ cd'.pending = 0
<1>1. PICK target \in Targets(Needle(cd, cmd), cmd), g \in Cells :
        cd' = Schedule(Position(Needle(cd, cmd), g, cmd, target), cmd)
  BY DirectDeliveryTyped DEF IssueCommand, IInv
<1>2. target \in Nat
  BY NeedleTyped, CdAssumption DEF Targets, Controller, IInv
<1>3. QED
  BY <1>1, <1>2, CommandKeeps DEF IInv

-----------------------------------------------------------------------------
(* The event of a sector survives the status poll.                         *)

Announced(s) == s \in Pairs /\ Good(s.c) /\ s.c.pending = 1 /\ s.c.active

LEMMA HealedAnnounced ==
  ASSUME NEW s, Announced(s), NEW t \in Healed(s)
  PROVE  Announced(t)
<1>1. t \in Pairs /\ Good(t.c)
  BY HealedGood DEF Announced
<1>2. CASE t = s
  BY <1>2
<1>3. CASE t \in Restart(s)
  <2> DEFINE at(l)    == [s.c EXCEPT !.seek = l, !.active = TRUE, !.loaded = FALSE]
             cells(l) == [s.g EXCEPT !.fe04 = l]
  <2>1. PICK l \in {s.c.seek, s.g.fe04}, p \in {s.c.pending, 1}, e \in {s.g.fe1c, 0} :
          t = [c |-> [DataLoad(at(l), cells(l)) EXCEPT !.pending = p],
               g |-> [cells(l) EXCEPT !.fe1c = e]]
    BY <1>3 DEF Restart
  <2>2. l \in Nat /\ at(l) \in Controller /\ at(l).active /\ cells(l) \in Cells
    BY ZenonT(30) DEF Announced, Pairs, Controller, Cells
  <2>3. ~at(l).loaded
    BY DEF Announced, Pairs, Controller
  <2>4. p = 1
    BY DEF Announced
  <2> HIDE DEF at, cells
  <2>5. /\ DataLoad(at(l), cells(l)) \in Controller
        /\ DataLoad(at(l), cells(l)).active
    BY <2>2, <2>3, DataLoadGood, DataLoadKeeps DEF Good, LoadedIn, SameProtocol
  <2>6. t.c.pending = 1 /\ t.c.active
    BY <2>1, <2>4, <2>5 DEF Controller
  <2>7. QED
    BY <1>1, <2>6 DEF Announced
<1>4. CASE t \in SectorServe(s) \cup DirectoryStart(s)
  BY <1>4, ServedGood DEF Announced
<1>5. QED
  BY <1>2, <1>3, <1>4 DEF Healed, Abandon, ClearAnswer, Quiet, Announced

LEMMA PollTailAnnounced ==
  ASSUME NEW s, Announced(s)
  PROVE  Announced(PollTail(s))
<1> DEFINE a == LoadOnDemand(s.c, s.g)
<1>1. s.c \in Controller /\ s.g \in Cells
  BY DEF Announced, Pairs
<1>2. Good(a) /\ a.pending = 1 /\ a.active
  BY <1>1, LoadOnDemandGood, DataLoadKeeps DEF Announced, LoadOnDemand, SameProtocol
<1> HIDE DEF a
<1>3. DropStale(a, s.g) = a
  BY <1>2 DEF DropStale
<1>4. AssistSetloc(a, s.g) = a
  BY <1>2 DEF AssistSetloc
<1>5. RePrime(a) = a
  BY <1>2 DEF RePrime
<1>6. PollTail(s) = [s EXCEPT !.c = a]
  BY <1>3, <1>4, <1>5 DEF PollTail, a
<1>7. QED
  BY <1>2, <1>6 DEF Announced, Pairs, Good

LEMMA StatusPollAnnounced ==
  ASSUME IInv, StatusPoll, cd.pending = 1, cd.active
  PROVE  cd'.pending = 1
<1> DEFINE s == [c |-> cd, g |-> mem]
<1>1. PICK before \in Healed(s) :
        \E after \in Healed(PollTail(before)) : cd' = after.c
  BY DEF StatusPoll
<1>2. PICK after \in Healed(PollTail(before)) : cd' = after.c
  BY <1>1
<1>3. Announced(s)
  BY DEF Announced, IInv, Good, Pairs
<1>4. Announced(after)
  BY <1>2, <1>3, HealedAnnounced, PollTailAnnounced
<1>5. QED
  BY <1>2, <1>4 DEF Announced

LEMMA AckArmedKeeps ==
  ASSUME IInv, AckArmed
  PROVE  cd'.pending = 1 /\ (cd.loaded => cd'.sector = cd.sector)
<1> DEFINE c == [cd EXCEPT !.arm = FALSE, !.resp = Status, !.resp_pos = 0, !.pending = 1]
<1>1. cd' = IF c.loaded THEN c ELSE DataLoad(c, mem)
  BY DEF AckArmed
<1>2. c \in Controller
  BY Literals, AnswersTyped DEF IInv, Good, Controller
<1>3. c.pending = 1 /\ c.loaded = cd.loaded /\ c.sector = cd.sector
  BY DEF IInv, Good, Controller
<1> HIDE DEF c
<1>4. DataLoad(c, mem).pending = 1
  BY <1>2, <1>3, DataLoadKeeps DEF SameProtocol
<1>5. QED
  BY <1>1, <1>3, <1>4

LEMMA PopDataKeeps ==
  ASSUME IInv, PopData
  PROVE  /\ cd'.pending \in {cd.pending, 1} /\ cd'.resp = cd.resp
         /\ cd.loaded => cd'.sector = cd.sector
<1> DEFINE c == IF cd.loaded /\ HasBytes(cd) THEN cd ELSE DataLoad(cd, mem)
           d == Take(c, 1)
<1>1. Good(c) /\ c.pending = cd.pending /\ c.resp = cd.resp
  BY DataLoadGood, DataLoadKeeps DEF IInv, Good, SameProtocol
<1>2. cd.loaded => c.sector = cd.sector
  BY DEF IInv, Good, LoadedIn
<1>3. cd' = c \/ cd' = d \/ cd' = [d EXCEPT !.pending = 1]
  BY DEF PopData
<1> HIDE DEF c
<1>4. d \in Controller /\ d.pending = c.pending /\ d.resp = c.resp /\ d.sector = c.sector
  BY <1>1, TakeGood, TakeKeeps DEF Good, SameProtocol
<1> HIDE DEF d
<1>5. QED
  BY <1>1, <1>2, <1>3, <1>4 DEF Controller

LEMMA DmaTransferKeeps ==
  ASSUME IInv, NEW k \in 1..SectorLen, DmaTransfer(k)
  PROVE  /\ cd'.pending \in {cd.pending, 1} /\ cd'.resp = cd.resp
         /\ cd.loaded /\ cd.pos # 0 => cd'.sector = cd.sector
<1> DEFINE c == ReAnchored(cd, mem)
           d == Take(c, k)
<1>1. Good(c) /\ c.pending = cd.pending /\ c.resp = cd.resp
  BY ReAnchoredGood, ReAnchoredKeeps DEF IInv, SameProtocol
<1>2. cd.loaded /\ cd.pos # 0 => c.sector = cd.sector
  BY DEF ReAnchored, MidPair, IInv, Good, LoadedIn
<1>3. cd' = d \/ cd' = [d EXCEPT !.pending = 1]
  BY DEF DmaTransfer
<1> HIDE DEF c
<1>4. d \in Controller /\ d.pending = c.pending /\ d.resp = c.resp /\ d.sector = c.sector
  BY <1>1, TakeGood, TakeKeeps, CdAssumption DEF Good, SameProtocol
<1> HIDE DEF d
<1>5. QED
  BY <1>1, <1>2, <1>3, <1>4 DEF Controller

(* While the read runs, an unacknowledged sector event is replaced by no   *)
(* other interrupt.                                                        *)
THEOREM SectorEventsAreKept == Spec => SectorEventKept
<1>1. IInv /\ [Next]_vars => [cd.pending = 1 /\ cd.active => cd'.pending \in {0, 1}]_vars
  <2> SUFFICES ASSUME IInv, Next, cd.pending = 1, cd.active
               PROVE  cd'.pending \in {0, 1}
    OBVIOUS
  <2>1. ASSUME NEW cmd \in Cmds, IssueCommand(cmd) PROVE cd'.pending \in {0, 1}
    BY <2>1, IssueCommandKeeps
  <2>2. CASE AckArmed
    BY <2>2, AckArmedKeeps
  <2>3. CASE Ack
    BY <2>3 DEF Ack, IInv, Good, Controller
  <2>4. CASE PopResponse
    BY <2>4 DEF PopResponse, IInv, Good, Controller
  <2>5. CASE PopData
    BY <2>5, PopDataKeeps
  <2>6. ASSUME NEW k \in 1..SectorLen, DmaTransfer(k) PROVE cd'.pending \in {0, 1}
    BY <2>6, DmaTransferKeeps
  <2>7. CASE FlagPoll
    BY <2>7 DEF FlagPoll, IInv, Good, Controller
  <2>8. CASE StatusPoll
    BY <2>8, StatusPollAnnounced
  <2>9. CASE Releases \/ Services
    BY <2>9 DEF Releases, VirtualInt3, DoorRelease, StrandedRelease, PollRelease,
                Releasable, Services, LostPause, FramePause, LostSector
  <2>10. CASE GuestStore
    BY <2>10 DEF GuestStore
  <2>11. QED
    BY <2>1, <2>2, <2>3, <2>4, <2>5, <2>6, <2>7, <2>8, <2>9, <2>10 DEF Next, Port
<1>2. QED
  BY <1>1, Inductive, PTL DEF Spec, SectorEventKept

-----------------------------------------------------------------------------
(* An answer survives the status poll, Setloc's apart.                     *)

Untaken(s, r) ==
  /\ s \in Pairs /\ Good(s.c) /\ s.c.last_cmd # Setloc
  /\ s.c.pending = 3 => s.c.resp = r /\ ~Drained(s.c)

LEMMA HealedUntaken ==
  ASSUME NEW r, NEW s, Untaken(s, r), NEW t \in Healed(s)
  PROVE  Untaken(t, r)
<1>1. t \in Pairs /\ Good(t.c) /\ s.c \in Controller
  BY HealedGood DEF Untaken, Pairs
<1>2. CASE t = s
  BY <1>2
<1>3. CASE t \in Restart(s)
  <2> DEFINE at(l)    == [s.c EXCEPT !.seek = l, !.active = TRUE, !.loaded = FALSE]
             cells(l) == [s.g EXCEPT !.fe04 = l]
  <2>1. PICK l \in {s.c.seek, s.g.fe04}, p \in {s.c.pending, 1}, e \in {s.g.fe1c, 0} :
          t = [c |-> [DataLoad(at(l), cells(l)) EXCEPT !.pending = p],
               g |-> [cells(l) EXCEPT !.fe1c = e]]
    BY <1>3 DEF Restart
  <2>2. l \in Nat /\ at(l) \in Controller /\ cells(l) \in Cells
    BY DEF Untaken, Pairs, Controller, Cells
  <2>3. /\ at(l).resp = s.c.resp /\ at(l).resp_pos = s.c.resp_pos
        /\ at(l).last_cmd = s.c.last_cmd /\ ~at(l).loaded
    BY <1>1 DEF Controller
  <2> HIDE DEF at, cells
  <2>4. /\ DataLoad(at(l), cells(l)) \in Controller
        /\ DataLoad(at(l), cells(l)).resp = s.c.resp
        /\ DataLoad(at(l), cells(l)).resp_pos = s.c.resp_pos
        /\ DataLoad(at(l), cells(l)).last_cmd = s.c.last_cmd
    BY <2>2, <2>3, DataLoadGood, DataLoadKeeps DEF Good, LoadedIn, SameProtocol
  <2>5. /\ t.c.resp = s.c.resp /\ t.c.resp_pos = s.c.resp_pos
        /\ t.c.last_cmd = s.c.last_cmd /\ t.c.pending = p
    BY <2>1, <2>4 DEF Controller
  <2>6. QED
    BY <1>1, <2>5 DEF Untaken, Drained
<1>4. CASE t \in Abandon(s)
  <2>1. t = [s EXCEPT !.c.active = FALSE, !.c.loaded = FALSE, !.c.pos = 0, !.c.n = 0]
    BY <1>4 DEF Abandon
  <2>2. /\ t.c.resp = s.c.resp /\ t.c.resp_pos = s.c.resp_pos
        /\ t.c.last_cmd = s.c.last_cmd /\ t.c.pending = s.c.pending
    BY <1>1, <2>1, ZenonT(30) DEF Untaken, Pairs, Controller
  <2>3. QED
    BY <1>1, <2>2 DEF Untaken, Drained
<1>5. CASE t \in ClearAnswer(s)
  <2>1. t = [s EXCEPT !.c.resp = NoAnswer, !.c.resp_pos = 0] /\ s.c.pending = 0
    BY <1>5 DEF ClearAnswer, Quiet
  <2>2. t.c.pending = s.c.pending /\ t.c.last_cmd = s.c.last_cmd
    BY <2>1 DEF Untaken, Pairs, Controller
  <2>3. QED
    BY <1>1, <2>1, <2>2 DEF Untaken
<1>6. CASE t \in SectorServe(s) \cup DirectoryStart(s)
  BY <1>1, <1>6, ServedGood DEF Untaken, Drained
<1>7. QED
  BY <1>2, <1>3, <1>4, <1>5, <1>6 DEF Healed

LEMMA PollTailUntaken ==
  ASSUME NEW r, NEW s, Untaken(s, r)
  PROVE  Untaken(PollTail(s), r)
<1> DEFINE a == LoadOnDemand(s.c, s.g)
           b == RePrime(a)
<1>1. s.c \in Controller /\ s.g \in Cells
  BY DEF Untaken, Pairs
<1>2. Good(a) /\ SameProtocol(s.c, a)
  BY <1>1, LoadOnDemandGood, DataLoadKeeps DEF Untaken, LoadOnDemand, SameProtocol
<1>3. a.last_cmd # Setloc /\ (a.pending = 3 => a.resp = r /\ ~Drained(a))
  BY <1>2 DEF SameProtocol, Untaken, Drained
<1> HIDE DEF a
<1>4. DropStale(a, s.g) = a /\ AssistSetloc(a, s.g) = a
  BY <1>3 DEF DropStale, AssistSetloc
<1>5. PollTail(s) = [s EXCEPT !.c = b]
  BY <1>4 DEF PollTail, a
<1>6. Good(b) /\ b.pending = a.pending /\ b.last_cmd = a.last_cmd
  BY <1>2, RePrimeGood DEF RePrime, Good, Controller
<1>7. b.pending = 3 => b = a
  BY <1>3, <1>6 DEF RePrime
<1> HIDE DEF b
<1>8. QED
  BY <1>3, <1>5, <1>6, <1>7 DEF Untaken, Pairs, Good

LEMMA StatusPollUntaken ==
  ASSUME IInv, StatusPoll, cd.pending = 3, cd'.pending = 3, ~Drained(cd),
         cd.last_cmd # Setloc
  PROVE  cd'.resp = cd.resp
<1> DEFINE s == [c |-> cd, g |-> mem]
<1>1. PICK before \in Healed(s) :
        \E after \in Healed(PollTail(before)) : cd' = after.c
  BY DEF StatusPoll
<1>2. PICK after \in Healed(PollTail(before)) : cd' = after.c
  BY <1>1
<1>3. Untaken(s, cd.resp)
  BY DEF Untaken, IInv, Good, Pairs
<1>4. Untaken(after, cd.resp)
  BY <1>2, <1>3, HealedUntaken, PollTailUntaken
<1>5. QED
  BY <1>2, <1>4 DEF Untaken

(* A delivered answer is not written over while its interrupt is pending   *)
(* and bytes of it are unread.                                             *)
THEOREM AnswersStayIntact == Spec => AnswerIntact
<1>1. IInv /\ [Next]_vars =>
        [cd.pending = 3 /\ cd'.pending = 3 /\ ~Drained(cd) /\ cd.last_cmd # Setloc
           => cd'.resp = cd.resp]_vars
  <2> SUFFICES ASSUME IInv, Next, cd.pending = 3, cd'.pending = 3, ~Drained(cd),
                      cd.last_cmd # Setloc
               PROVE  cd'.resp = cd.resp
    OBVIOUS
  <2>1. ASSUME NEW cmd \in Cmds, IssueCommand(cmd) PROVE FALSE
    BY <2>1, IssueCommandKeeps
  <2>2. CASE AckArmed
    BY <2>2, AckArmedKeeps
  <2>3. CASE Ack
    BY <2>3 DEF Ack, IInv, Good, Controller
  <2>4. CASE PopResponse
    BY <2>4 DEF PopResponse, IInv, Good, Controller
  <2>5. CASE PopData
    BY <2>5, PopDataKeeps
  <2>6. ASSUME NEW k \in 1..SectorLen, DmaTransfer(k) PROVE cd'.resp = cd.resp
    BY <2>6, DmaTransferKeeps
  <2>7. CASE FlagPoll
    BY <2>7 DEF FlagPoll, FieldSector, PolledSector
  <2>8. CASE StatusPoll
    BY <2>8, StatusPollUntaken
  <2>9. CASE Releases \/ Services
    BY <2>9 DEF Releases, VirtualInt3, DoorRelease, StrandedRelease, PollRelease,
                Releasable, Services, LostPause, FramePause, LostSector
  <2>10. CASE GuestStore
    BY <2>10 DEF GuestStore
  <2>11. QED
    BY <2>1, <2>2, <2>3, <2>4, <2>5, <2>6, <2>7, <2>8, <2>9, <2>10 DEF Next, Port
<1>2. QED
  BY <1>1, Inductive, PTL DEF Spec, AnswerIntact

-----------------------------------------------------------------------------
(* A partly read sector.                                                   *)

LEMMA StatusPollSector ==
  ASSUME IInv, StatusPoll, ~StallHeals, cd.loaded
  PROVE  cd'.sector = cd.sector
<1> DEFINE s == [c |-> cd, g |-> mem]
           b == DropStale(cd, mem)
           a == AssistSetloc(b, mem)
           d == RePrime(a)
<1>1. cd' = PollTail(s).c
  BY DEF StatusPoll, Healed
<1>2. LoadOnDemand(cd, mem) = cd
  BY DEF LoadOnDemand
<1>3. PollTail(s) = [s EXCEPT !.c = d]
  BY <1>2 DEF PollTail
<1>4. Good(b) /\ Good(a)
  BY DropStaleGood, AssistSetlocGood DEF IInv
<1>5. b.sector = cd.sector
  BY DEF DropStale, IInv, Good, Controller
<1> HIDE DEF b
<1>6. a.sector = b.sector
  BY <1>4 DEF AssistSetloc, Good, Controller
<1> HIDE DEF a
<1>7. d.sector = a.sector
  BY <1>4 DEF RePrime, Good, Controller
<1> HIDE DEF d
<1>8. QED
  BY <1>1, <1>3, <1>5, <1>6, <1>7

LEMMA ReleasesSector ==
  ASSUME IInv, Releases
  PROVE  cd'.sector = cd.sector
<1> DEFINE r == RestorePend(cd)
           w == AwaitedAnswer(cd, mem)
<1>1. Good(cd) /\ Good(r) /\ Good(w) /\ Good(Deliver(r)) /\ Good(Deliver(w))
  BY RestorePendGood, AwaitedAnswerGood, DeliverGood DEF IInv
<1>2. r.sector = cd.sector /\ w.sector = cd.sector
  BY <1>1 DEF RestorePend, AwaitedAnswer, Good, Controller
<1> HIDE DEF r, w
<1>3. /\ Deliver(cd).sector = cd.sector
      /\ Deliver(r).sector = cd.sector /\ Deliver(w).sector = cd.sector
  BY <1>1, <1>2 DEF Deliver, Good, Controller
<1>4. /\ ForcedSector(Deliver(r), mem).sector = cd.sector
      /\ ForcedSector(Deliver(w), mem).sector = cd.sector
  BY <1>1, <1>3 DEF ForcedSector, Good, Controller
<1>5. CASE VirtualInt3
  BY <1>3, <1>5 DEF VirtualInt3, r
<1>6. CASE DoorRelease
  BY <1>3, <1>6 DEF DoorRelease
<1>7. CASE StrandedRelease
  <2>1. cd' = Deliver(r) \/ cd' = Deliver(cd)
    BY <1>7 DEF StrandedRelease, r
  <2>2. QED
    BY <1>3, <2>1
<1>8. CASE PollRelease
  <2>1. cd' = ForcedSector(Deliver(r), mem) \/ cd' = ForcedSector(Deliver(w), mem)
    BY <1>8 DEF PollRelease, r, w
  <2>2. QED
    BY <1>4, <2>1
<1>9. QED
  BY <1>5, <1>6, <1>7, <1>8 DEF Releases

LEMMA PendingSector ==
  ASSUME NEW c \in Controller, NEW p, NEW a
  PROVE  /\ [c EXCEPT !.pending = p].sector = c.sector
         /\ [c EXCEPT !.pending = p, !.resp = a, !.resp_pos = 0].sector = c.sector
         /\ [c EXCEPT !.resp = a, !.resp_pos = 0, !.pending = p].sector = c.sector
BY DEF Controller

(* With the stall heals off, the sector the guest has begun to take is     *)
(* never swapped under it.                                                 *)
THEOREM NoSectorIsTorn ==
  ASSUME ~StallHeals
  PROVE  Spec => NoTornSector
<1>1. IInv /\ [Next]_vars =>
        [cd.loaded /\ cd.pos # 0 => cd'.sector = cd.sector]_vars
  <2> SUFFICES ASSUME IInv, Next, cd.loaded, cd.pos # 0
               PROVE  cd'.sector = cd.sector
    OBVIOUS
  <2>1. ASSUME NEW cmd \in Cmds, IssueCommand(cmd) PROVE cd'.sector = cd.sector
    BY <2>1, IssueCommandKeeps
  <2>2. CASE AckArmed
    BY <2>2, AckArmedKeeps
  <2> cd \in Controller
    BY DEF IInv, Good
  <2>3. CASE Ack
    <3>1. PICK p, a, m :
            cd' = [cd EXCEPT !.pending = p, !.resp = a, !.resp_pos = 0, !.arm = m]
      BY <2>3, Zenon DEF Ack
    <3>2. QED
      BY <3>1 DEF Controller
  <2>4. CASE PopResponse
    <3>1. PICK i, p : cd' = [cd EXCEPT !.resp_pos = i, !.pending = p]
      BY <2>4, Zenon DEF PopResponse
    <3>2. QED
      BY <3>1 DEF Controller
  <2>5. CASE PopData
    BY <2>5, PopDataKeeps
  <2>6. ASSUME NEW k \in 1..SectorLen, DmaTransfer(k) PROVE cd'.sector = cd.sector
    BY <2>6, DmaTransferKeeps
  <2>7. CASE StatusPoll
    BY <2>7, StatusPollSector
  <2>8. CASE Releases
    BY <2>8, ReleasesSector
  <2>9. CASE FlagPoll \/ Services
    <3> DEFINE d1 == [cd EXCEPT !.pending = 1]
               d2 == [cd EXCEPT !.pending = 1, !.resp = Status, !.resp_pos = 0]
               d3 == [cd EXCEPT !.resp = Status, !.resp_pos = 0, !.pending = 2]
    <3>1. d1.sector = cd.sector /\ d2.sector = cd.sector /\ d3.sector = cd.sector
      BY PendingSector
    <3>2. cd' = cd \/ cd' = d1 \/ cd' = d2 \/ cd' = d3
      BY <2>9 DEF FlagPoll, Services, LostPause, FramePause, LostSector
    <3> HIDE DEF d1, d2, d3
    <3>3. QED
      BY <3>1, <3>2
  <2>10. CASE GuestStore
    BY <2>10 DEF GuestStore
  <2>11. QED
    BY <2>1, <2>2, <2>3, <2>4, <2>5, <2>6, <2>7, <2>8, <2>9, <2>10 DEF Next, Port
<1>2. QED
  BY <1>1, Inductive, PTL DEF Spec, NoTornSector
=============================================================================
