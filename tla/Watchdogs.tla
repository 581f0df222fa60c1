----------------------------- MODULE Watchdogs -----------------------------
(***************************************************************************)
(* The watchdogs of the drive (source/runtime/runtime.c).  A guest that    *)
(* hangs does nothing but look: at the drive's status port, at the cells   *)
(* of its file layer, at a timer, or by calling the same functions again.  *)
(* Every look runs a chain of watchdogs: each knows one posture of the     *)
(* drive and of the guest's request cells, and when it has seen that       *)
(* posture for long enough it serves the sector, rings the interrupt,      *)
(* drops an unread answer or clears the wait cell.                         *)
(*                                                                         *)
(* A watchdog is what it watches, the posture it takes for the hang, how   *)
(* it counts, and what it does (PortWatchdogs, WaitWatchdogs,              *)
(* SeamWatchdogs, PumpWatchdogs).  One of them can undo the posture of     *)
(* another or set its count back; the question of this module is whether   *)
(* the chains as a whole still end the hangs they were written for.        *)
(*                                                                         *)
(* The stream is not live and the disc can be read.  In a forced delivery  *)
(* the guest's handlers do nothing or acknowledge; when they take a sector *)
(* the hang is over.                                                       *)
(***************************************************************************)
EXTENDS PortWatchdogs, SpinWatchdogs, WaitWatchdogs, SeamWatchdogs, PumpWatchdogs, TLC

CONSTANTS
  WdHangs,      \* the hangs: [cells, at, cmds, fe1cs, scheds, wants], see
                \* WdPoll, WdFlutter and WdEnded
  WdBudget      \* bound: what every watchdog may do in a run (4 to 2048)

ASSUME WdBudgetAssumption == WdBudget \in Nat \ {0}

VARIABLES
  wd_hang,      \* the hang the guest is in
  wd_c,         \* the drive and the request cells
  wd_count,     \* what each watchdog has counted: polls, or seconds up to WdHold
  wd_seen,      \* what it watched last
  wd_fires,     \* how often it has acted
  wd_served,    \* who served a sector in the last poll
  wd_reply,     \* what the handlers did in it
  wd_polled     \* a poll has run since the guest's cells last changed

wd_vars == <<wd_hang, wd_c, wd_count, wd_seen, wd_fires, wd_served, wd_reply,
             wd_polled>>

\* Where a guest looks, and whom it meets there.
WdChains ==
  [port |-> ByteChain \o PortChain, half |-> HalfChain \o PortChain, flag |-> ByteChain,
   collect |-> AnyChain \o PumpChain] @@ WaitChain @@ SeamChain
WdSites  == DOMAIN WdChains
Members(chain) == {chain[i] : i \in DOMAIN chain}
WdDogsAt(sites) == UNION {Members(WdChains[site]) : site \in sites}
PortDogs == Members(PortChain)
SpinDogs == WdDogsAt({"port", "half"}) \ PortDogs
WaitDogs == WdDogsAt(DOMAIN WaitChain)

WdDog(w, c) ==
  IF w \in PortDogs THEN PortDog(w, c)
  ELSE IF w \in SpinDogs THEN SpinDog(w, c)
  ELSE IF w \in WaitDogs THEN WaitDog(w, c)
  ELSE IF w \in Members(PumpChain) THEN PumpDog(w, c) ELSE SeamDog(w, c)

-----------------------------------------------------------------------------
(* A poll: the chain, on the drive and the request cells as each watchdog  *)
(* leaves them.                                                            *)

Waits(d, n) == d.kind \in {"hold", "overdue", "look"} /\ n >= d.limit

\* Mutant of WdDue: one poll late.
WdDueLate(d, n, fresh) ==
  CASE d.kind \in {"watch", "tally", "ask"} -> n > d.limit
    [] d.kind \in {"strict", "single"} -> n >= d.limit
    [] d.kind = "rest"                 -> fresh \/ n >= d.limit
    [] d.kind = "confirm"              -> ~fresh /\ n = d.limit
    [] d.kind \in {"once", "free"}     -> TRUE
    [] OTHER                           -> ~fresh /\ Waits(d, n)

WdDue(d, n, fresh) ==
  CASE d.kind \in {"watch", "tally", "ask"} -> n + 1 > d.limit
    [] d.kind \in {"strict", "single"} -> n + 1 >= d.limit
    [] d.kind = "rest"                 -> fresh \/ n >= d.limit
    [] d.kind = "confirm"              -> ~fresh /\ n = d.limit
    [] d.kind \in {"once", "free"}     -> TRUE
    [] OTHER                           -> ~fresh /\ Waits(d, n)

WdCounted(d, may, n) ==
  CASE d.kind \in {"watch", "tally", "ask"} /\ may -> n + 1
    [] d.kind \in {"strict", "single"} -> IF may THEN n + 1 ELSE 0
    [] d.kind = "look" /\ d.posture /\ n >= d.limit -> 0
    [] OTHER                           -> n

\* What it counts from when it has acted: a confirmed posture is past its time,
\* an overdue one still is at it.
WdRecount(d) ==
  CASE d.kind = "confirm" -> WdHold + 1 [] d.kind = "overdue" -> WdHold [] OTHER -> 0

\* Whether it notes what it watches though it does not act.
WdNotes(d, n) ==
  CASE d.kind = "rest"    -> FALSE
    [] d.kind = "confirm" -> d.posture
    [] d.kind = "look"    -> d.posture /\ n >= d.limit
    [] OTHER              -> TRUE

WdMay(d, fires) ==
  d.posture /\ (d.kind \in {"free", "ask"} \/ fires < (IF d.kind = "single" THEN 1 ELSE WdBudget))

\* The handlers that a forced delivery runs may acknowledge the interrupt.
WdReplied(c, reply) ==
  IF c.rung /\ reply = "acks" THEN [c EXCEPT !.pend = 0, !.arm1 = FALSE] ELSE c

\* The turn of watchdog w, which is d on the drive as it finds it.
WdTurnOf(w, d, s, reply) ==
  LET fresh == s.seen[w] # d.watched
      back  == fresh /\ (d.kind \in {"watch", "hold", "overdue"}
                          \/ (d.kind = "confirm" /\ d.posture))
      n     == IF back THEN 0 ELSE s.count[w]
      may   == WdMay(d, s.fires[w])
      fires == may /\ WdDue(d, n, fresh)
      after == WdReplied([d.after EXCEPT !.served = FALSE], reply)
  IN  IF ~fires
      THEN [s EXCEPT !.count[w] = WdCounted(d, may, n),
                     !.seen[w] = IF WdNotes(d, n) THEN d.watched ELSE @]
      ELSE [c      |-> after,
            count  |-> [s.count EXCEPT ![w] = WdRecount(d)],
            seen   |-> [s.seen EXCEPT ![w] = d.watched],
            fires  |-> IF d.kind \in {"free", "ask"} THEN s.fires
                       ELSE [s.fires EXCEPT ![w] = @ + 1],
            served |-> IF d.after.served THEN s.served \cup {w} ELSE s.served]

WdTurn(w, s, reply) == WdTurnOf(w, WdDog(w, s.c), s, reply)

\* (The singletons have TLC evaluate one watchdog after the other.)
WdPolled(chain, s, reply) ==
  LET run[i \in 0..Len(chain)] ==
        IF i = 0 THEN s
        ELSE CHOOSE t \in {WdTurn(chain[i], u, reply) : u \in {run[i - 1]}} : TRUE
  IN  run[Len(chain)]

\* What the guest waits for: a sector, a ring, the request counted out, the
\* wait cell cleared, the drive at rest or reading, to be told of a sector, an
\* answer, an interrupt, the door opened.
WdGiven(what) ==
  CASE what = "sector" -> wd_served # {}
    [] what = "bell"   -> wd_c.rung \/ wd_c.forced
    [] what = "count"  -> wd_c.fdf8 = 0
    [] what = "clear"  -> wd_c.fe1c = 0
    [] what = "rest"   -> ~wd_c.act
    [] what = "read"   -> wd_c.act
    [] what = "told"   -> wd_c.told
    [] what = "answer" -> wd_c.resp_n > wd_c.resp_pos
    [] what = "interrupt" -> wd_c.pend # 0
    [] what = "door"   -> wd_c.fdfc = 0
    [] what = "silence" -> wd_c.pend = 0

WdEnded == \E what \in wd_hang.wants : WdGiven(what)

-----------------------------------------------------------------------------
\* Seconds since the clock's start, long ago, are enough for these kinds.
WdTimely == {"rest", "look"}
WdTimed  == WdTimely \cup {"hold", "overdue", "confirm"}

WdInitOf(hang) ==
  LET dogs == WdDogsAt(hang.at)
  IN  /\ wd_hang = hang
      /\ wd_c = hang.cells
      /\ wd_count = [w \in dogs |-> IF WdDog(w, hang.cells).kind \in WdTimely
                                    THEN WdHold ELSE 0]
      /\ wd_seen = [w \in dogs |-> << >>]
      /\ wd_fires = [w \in dogs |-> 0]
      /\ wd_served = {}
      /\ wd_reply = "deaf"
      /\ wd_polled = FALSE

WdInit == \E hang \in WdHangs : WdInitOf(hang)

\* The guest looks at one of the places it waits at.
WdPoll(site, reply) ==
  /\ ~WdEnded
  /\ site \in wd_hang.at
  /\ \E s \in {WdPolled(WdChains[site],
                        [c |-> [wd_c EXCEPT !.rung = FALSE], count |-> wd_count,
                         seen |-> wd_seen, fires |-> wd_fires, served |-> {}], reply)} :
       /\ wd_c' = s.c /\ wd_count' = s.count /\ wd_seen' = s.seen
       /\ wd_fires' = s.fires /\ wd_served' = s.served
       /\ wd_reply' = IF s.c.rung THEN reply ELSE "deaf"
  /\ wd_polled' = TRUE
  /\ UNCHANGED wd_hang

WdLook(site) == \E reply \in {"deaf", "acks"} : WdPoll(site, reply)

\* A second passes.
WdTick ==
  LET behind == {w \in DOMAIN wd_count : /\ wd_count[w] < WdHold
                                         /\ WdDog(w, wd_c).kind \in WdTimed}
  IN  /\ ~WdEnded
      /\ behind # {}
      /\ wd_count' = [w \in DOMAIN wd_count |->
                        IF w \in behind THEN wd_count[w] + 1 ELSE wd_count[w]]
      /\ UNCHANGED <<wd_hang, wd_c, wd_seen, wd_fires, wd_served, wd_reply, wd_polled>>

\* The hung guest still issues commands and moves its wait cell, and the
\* drive's schedule goes on and off.
WdFlutter ==
  /\ ~WdEnded /\ wd_polled
  /\ \E cmd \in wd_hang.cmds, fe1c \in wd_hang.fe1cs, sched \in wd_hang.scheds :
       /\ wd_c' = [wd_c EXCEPT !.cmd = cmd, !.fe1c = fe1c, !.sched = sched]
       /\ wd_c' # wd_c
  /\ wd_polled' = FALSE
  /\ UNCHANGED <<wd_hang, wd_count, wd_seen, wd_fires, wd_served, wd_reply>>

\* The guest goes on with its game.
WdPlaysOn == WdEnded /\ UNCHANGED wd_vars

WdNext ==
  \/ \E site \in WdSites : WdLook(site)
  \/ WdTick
  \/ WdFlutter
  \/ WdPlaysOn

\* The guest goes on looking at all the places it waits at.
WdFairness ==
  /\ \A site \in WdSites : WF_wd_vars(WdLook(site))
  /\ WF_wd_vars(WdTick)
  /\ WF_wd_vars(WdFlutter)

WdSpec == WdInit /\ [][WdNext]_wd_vars /\ WdFairness

-----------------------------------------------------------------------------
(* Properties.                                                             *)

WdTypeOK ==
  /\ wd_hang \in WdHangs
  /\ wd_c \in WdCells
  /\ DOMAIN wd_count = WdDogsAt(wd_hang.at)
  /\ wd_count \in [DOMAIN wd_count -> 0..WdLong]
  /\ DOMAIN wd_seen = DOMAIN wd_count
  /\ wd_fires \in [DOMAIN wd_count -> 0..WdBudget]
  /\ wd_served \subseteq DOMAIN wd_count
  /\ wd_polled \in BOOLEAN

\* Every hang the watchdogs were written for ends: however the watchdogs
\* undo each other's postures and counts, and whatever the guest's handlers
\* make of a ring, the guest gets the sector, the ring or the cleared cell it
\* waits for (runtime.c:3647-5396, 6132-6346, 7686-8444, 18676-20830 and
\* 25245-29117).
WdHangsEnd == <>WdEnded

\* Two watchdogs do not serve the same hang in one poll: what one of them
\* does takes the posture of all others, as long as the handlers leave the
\* interrupt it rings (runtime.c:3647-5396).  Only an owed answer that
\* R1458 starts again makes the port load the sector once more.
WdOneStart ==
  wd_reply = "deaf" =>
    \A v, w \in wd_served \ {"R1458", "on demand"} : v = w
=============================================================================
