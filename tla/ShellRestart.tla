---------------------------- MODULE ShellRestart ----------------------------
(***************************************************************************)
(* The doors through which a run of the guest that has gone wrong starts   *)
(* again (source/runtime/runtime.c).  The host keeps the program's image   *)
(* as it was when the program was first entered.  A fault, a halt, an      *)
(* abort, a signal or an exit ends in one of a dozen places; most put the  *)
(* image back, write back cells the guest would miss, and longjmp to the   *)
(* anchor, which dispatches a pending function.  Others run the program    *)
(* in a loop of their own.  Each place counts its lives.                   *)
(*                                                                         *)
(* rs_mem is the guest's memory: the cells that a door treats on their     *)
(* own, the rest of the image ("body") and the window of modules behind    *)
(* it.  A word is the image's, live (a sane one of the guest's), tainted   *)
(* (outside of the domain its cell is checked against) or one of the marks *)
(* the doors leave.  rs_stack holds what code runs inside of, oldest       *)
(* first.  Left out: the reports (and the kit's bail out of a second one), *)
(* the patches of single heap words, the disc's state (see CdController),  *)
(* the alarm's exit, first-fault mode.                                     *)
(***************************************************************************)
EXTENDS Integers, Sequences

CONSTANTS
  RsScenes,   \* what a guest has made of its memory when it leaves
  RsBudgets,  \* bound: lives of the doors, fewer than the code's
  RsFew,      \* restarts after which the anchor takes the field's way (2)
  RsLate      \* boots after which the fault walk stamps the field (2)

VARIABLES
  rs_mem,
  rs_img,     \* g_r722_img, or nothing
  rs_stack,
  rs_phase,   \* "runs", "lands" at the anchor, "asks" if to loop, or the end
  rs_vsync,   \* r31 is VSync's return address
  rs_used,    \* lives used up
  rs_caps,
  rs_kit,     \* SIGSEGV goes to the crash kit
  rs_armed,   \* g_r720_armed
  rs_exiting, \* r719_in
  rs_reboot,  \* g_r720_reboot
  rs_late,    \* the loop's time is over
  rs_pend,    \* xenolift_churn_pend
  rs_door,    \* history: the door that is being gone through
  rs_was      \* history: the request that the crash kit has found

rs_past  == <<rs_door, rs_was>>
rs_relay == <<rs_armed, rs_exiting, rs_reboot, rs_late>>
rs_fixed == <<rs_img, rs_caps, rs_kit>>
rs_vars  == <<rs_mem, rs_stack, rs_phase, rs_vsync, rs_used, rs_pend, rs_past, rs_relay,
              rs_fixed>>

-----------------------------------------------------------------------------
RsRequest == {"index", "file", "place"}   \* 80018088, 80059F0C-10, 8004FE04
RsCells ==
  RsRequest \cup
  {"key",       \* 80010000, the resume key
   "mirror",    \* 80028088, the row of the index
   "pick",      \* 800592C0, and "walk", 8005FAEC: the phase committed
   "walk", "table",      \* 8004FDF0
   "alarm", "alarm2",    \* 80056788 with 8005A228, and 8005A22C-30
   "wait", "callback",   \* 8006A228, and 800564A8-AC
   "heap",               \* 80059410
   "body", "module"}
RsWords == {"image", "live", "taint", "zero", "asked", "shell", "field"}
RsDoors == {"restart", "poison", "canary", "kit", "signal", "abrt", "nested", "unknown",
            "convert", "relay", "loop", "again", "handler", "bypass", "reforce"}
RsNone == "none"

\* A guest writes the row of the index through the index; a budget is a count
\* for each door.
ASSUME RsAssumption ==
  /\ \A scene \in RsScenes :
       /\ scene.vsync \in BOOLEAN
       /\ DOMAIN scene.cells \subseteq RsCells \ {"mirror"}
       /\ \A c \in DOMAIN scene.cells : scene.cells[c] \in RsWords
  /\ RsBudgets \subseteq [RsDoors -> Nat]

\* The caps of abort() are higher than those of the other two that share its
\* counter.
RsSpare == 1

RsLeft(door)  == rs_used[door] < rs_caps[door]
RsSpent(door) == [rs_used EXCEPT ![door] = @ + 1]
RsEpoch    == rs_used["loop"] + rs_used["nested"] + rs_used["again"]
RsOnAnchor == rs_stack = << >> \/ Head(rs_stack) # "atexit"
RsAsked(m) == m.pick = "asked" \/ m.walk \in {"asked", "taint"}
RsRuns     == rs_phase = "runs"

\* Stores pass the hook: under VSync's address they are dropped, and one to
\* the index sets its row.
RsStored(m) == IF rs_vsync THEN rs_mem ELSE m
RsWrite(m, cells) ==
  [c \in RsCells |-> CASE c \in DOMAIN cells -> cells[c]
                       [] c = "mirror" /\ "index" \in DOMAIN cells -> cells.index
                       [] OTHER -> m[c]]

-----------------------------------------------------------------------------
(* What a door keeps across a restore, by the domains of its cells.        *)

RsSane(cells) == {c \in cells : rs_mem[c] # "taint"}

RsLibcd  == IF rs_mem.alarm = "taint" THEN {} ELSE {"alarm", "alarm2"}
RsArch   == RsSane({"table"})
RsCdWait == IF rs_mem.wait = "taint" \/ rs_mem.callback # "image" THEN {}
            ELSE {"wait", "callback"}
RsWalk   == RsSane({"walk", "index", "file"})
            \cup {c \in {"pick"} : rs_mem[c] \in {"image", "field"}}
RsKeeps  == RsLibcd \cup RsArch \cup RsCdWait

\* Mutant: what was saved is written back raw, behind the hook's back.
RsRestoredRaw(keeps) ==
  IF rs_img = << >> THEN rs_mem
  ELSE [c \in RsCells |-> IF c \in keeps \cup {"module"} THEN rs_mem[c] ELSE rs_img[c]]

RsRestored(keeps) ==
  IF rs_img = << >> THEN rs_mem
  ELSE RsWrite([rs_img EXCEPT !.module = rs_mem.module], [c \in keeps |-> rs_mem[c]])

RsShell(m) == [m EXCEPT !.key = "shell"]

-----------------------------------------------------------------------------
(* The longjmp to the anchor.  Nothing disarms it, and the code that may   *)
(* run after the anchor's thread has ended jumps into a stack that is      *)
(* gone.                                                                   *)
RsThrough(door, m, pend, used) ==
  /\ rs_used' = used
  /\ rs_mem' = m /\ rs_pend' = pend
  /\ rs_door' = door
  /\ rs_was' = IF door = "kit" THEN [c \in RsRequest |-> rs_mem[c]] ELSE << >>
  /\ IF RsOnAnchor THEN rs_phase' = "lands" /\ rs_stack' = << >>
                   ELSE rs_phase' = "undefined" /\ UNCHANGED rs_stack
  /\ UNCHANGED <<rs_vsync, rs_relay, rs_fixed>>

RsDies ==
  /\ rs_phase' = "gone"
  /\ UNCHANGED <<rs_mem, rs_stack, rs_vsync, rs_used, rs_pend, rs_past, rs_relay, rs_fixed>>

\* exit(), and the exit handler it runs by hand the first time.  Entered
\* again it relays the guest's wish to reboot to the loop below, through a
\* jmp_buf whose frame may be gone, or goes back to the anchor.
RsRelayed ==
  RsStored(RsWrite(RsShell(RsRestored({"pick", "walk"})), [index |-> "zero", place |-> "zero"]))

RsLoopsBelow == {i \in 1..Len(rs_stack) : rs_stack[i] \in {"loop", "atexit"}}

RsRelay ==
  IF RsLoopsBelow = {}
  THEN /\ rs_phase' = "undefined"
       /\ UNCHANGED <<rs_mem, rs_stack, rs_vsync, rs_used, rs_pend, rs_past, rs_relay, rs_fixed>>
  ELSE /\ rs_used' = RsSpent("relay")
       /\ rs_mem' = RsRelayed /\ rs_reboot' = TRUE
       /\ rs_armed' = FALSE /\ rs_phase' = "asks"
       /\ rs_stack' = SubSeq(rs_stack, 1,
                             CHOOSE i \in RsLoopsBelow : \A j \in RsLoopsBelow : j <= i)
       /\ UNCHANGED <<rs_vsync, rs_pend, rs_past, rs_exiting, rs_late, rs_fixed>>

RsExits ==
  \/ /\ ~rs_exiting
     /\ rs_exiting' = TRUE /\ rs_phase' = "asks" /\ rs_stack' = Append(rs_stack, "loop")
     /\ UNCHANGED <<rs_mem, rs_vsync, rs_used, rs_pend, rs_past, rs_armed, rs_reboot, rs_late,
                    rs_fixed>>
  \/ rs_exiting /\ rs_armed /\ RsLeft("relay") /\ RsRelay
  \/ rs_exiting /\ ~rs_armed /\ RsLeft("convert")
     /\ RsThrough("convert", RsStored(RsShell(RsRestored({}))), "main", RsSpent("convert"))
  \/ rs_exiting /\ ~RsLeft(IF rs_armed THEN "relay" ELSE "convert") /\ RsDies

-----------------------------------------------------------------------------
(* The guest at work.                                                      *)

\* Its next mess.
RsWorks ==
  /\ RsRuns
  /\ \E scene \in RsScenes :
       rs_mem' = RsWrite(rs_mem, scene.cells) /\ rs_vsync' = scene.vsync
  /\ UNCHANGED <<rs_stack, rs_phase, rs_used, rs_pend, rs_past, rs_relay, rs_fixed>>

\* The program is entered (80019524): its image is taken, once.
RsEntersMain ==
  /\ RsRuns /\ rs_img = << >> /\ RsEpoch = 0
  /\ rs_img' = rs_mem
  /\ UNCHANGED <<rs_mem, rs_stack, rs_phase, rs_vsync, rs_used, rs_pend, rs_past, rs_relay,
                 rs_caps, rs_kit>>

\* The host thread installs its own handler for SIGSEGV each second.
RsReinstalls ==
  /\ RsRuns /\ rs_kit
  /\ rs_kit' = FALSE
  /\ UNCHANGED <<rs_mem, rs_stack, rs_phase, rs_vsync, rs_used, rs_pend, rs_past, rs_relay,
                 rs_img, rs_caps>>

-----------------------------------------------------------------------------
(* The doors that do not count: a decode that runs over its input, and a   *)
(* stack of the state machine's functions that grows too deep.             *)

RsOverrun ==
  RsRuns /\ IF RsOnAnchor THEN RsThrough("overrun", rs_mem, rs_pend, rs_used) ELSE RsDies

RsBounce == RsRuns /\ RsOnAnchor /\ RsThrough("bounce", rs_mem, "other", rs_used)

RsUncounted == RsOverrun \/ RsBounce

\* A canary of the host's stack, on the anchor or off it.
RsCanary ==
  /\ RsRuns
  /\ IF RsOnAnchor /\ RsLeft("canary")
     THEN RsThrough("canary", rs_mem, rs_pend, RsSpent("canary")) ELSE RsDies

RsPlain == RsStored(RsShell(RsRestored(RsKeeps)))

RsAbort ==
  /\ RsRuns
  /\ IF rs_used["restart"] < rs_caps["restart"] + RsSpare
     THEN RsThrough("restart", RsPlain, "main", RsSpent("restart")) ELSE RsDies

\* halt_report.
RsHalts ==
  IF RsLeft("restart") THEN RsThrough("restart", RsPlain, "main", RsSpent("restart"))
                       ELSE RsExits
RsHalt == RsRuns /\ RsHalts

\* The end of xenolift_io_fault: the fault walk's door clears what is behind
\* the image, hook or no hook, and after some boots leaves the field's stamps.
RsStamped(m) ==
  IF RsEpoch >= RsLate THEN [m EXCEPT !.key = "field", !.pick = "field"] ELSE RsShell(m)
RsCleared(m) == IF rs_img = << >> THEN m ELSE [m EXCEPT !.module = "zero"]

RsFault ==
  /\ RsRuns
  /\ \/ RsLeft("restart")
        /\ RsThrough("restart", RsCleared(RsStored(RsStamped(RsRestored(RsKeeps)))), "main",
                     RsSpent("restart"))
     \/ ~RsLeft("restart") /\ RsLeft("poison")
        /\ RsThrough("poison", RsStored(RsShell(RsRestored({}))), "main", RsSpent("poison"))
     \/ ~RsLeft("restart") /\ ~RsLeft("poison") /\ RsExits

\* xenolift_unknown, of a word that is no code: with a phase committed the
\* program is run in place, and what follows happens when it comes back.
RsGivesUp ==
  IF RsLeft("unknown") THEN RsThrough("unknown", rs_mem, rs_pend, RsSpent("unknown"))
                       ELSE RsHalts

RsUnknown ==
  /\ RsRuns
  /\ IF RsLeft("nested") /\ RsAsked(rs_mem)
     THEN /\ rs_used' = RsSpent("nested")
          /\ rs_vsync' = FALSE
          /\ rs_mem' = RsShell(RsRestored({}))
          /\ rs_stack' = Append(rs_stack, "nested")
          /\ UNCHANGED <<rs_phase, rs_pend, rs_past, rs_relay, rs_fixed>>
     ELSE RsGivesUp

-----------------------------------------------------------------------------
(* The signals.                                                            *)

\* What the restore zeroed and no later code sets up again.
RsSeeded(m) ==
  [m EXCEPT !.heap  = IF @ = "image" THEN "live" ELSE @,
            !.table = IF @ = "image" THEN "live" ELSE @]

RsKitKeeps == RsKeeps \cup RsWalk

\* The crash kit.
RsKitDoor ==
  IF RsLeft("kit")
  THEN RsThrough("kit", RsStored(RsShell(RsSeeded(RsRestored(RsKitKeeps)))), "main",
                 RsSpent("kit"))
  ELSE RsDies

\* The other handler.  A count above its cap is taken for damage.
\* Mutant: and so is one that has reached it.
RsHealedAtCap(n) == IF n >= rs_caps["signal"] THEN 0 ELSE n
RsHealed(n)      == IF n > rs_caps["signal"] THEN 0 ELSE n

RsSignalled ==
  LET n == RsHealed(rs_used["signal"])
  IN  IF n < rs_caps["signal"]
      THEN RsThrough("signal", rs_mem, rs_pend, [rs_used EXCEPT !["signal"] = n + 1])
      ELSE RsDies

\* It may fault itself while it prints.

RsInHandler ==
  IF RsLeft("handler") THEN RsThrough("handler", rs_mem, rs_pend, RsSpent("handler")) ELSE RsDies

RsAborted ==
  IF RsLeft("signal") /\ RsLeft("abrt")
  THEN RsThrough("abrt", rs_mem, rs_pend, RsSpent("abrt")) ELSE RsDies

RsCrash ==
  /\ RsRuns
  /\ IF rs_kit THEN RsKitDoor ELSE RsSignalled \/ RsInHandler
RsAbortSignal == RsRuns /\ (RsAborted \/ RsInHandler)

-----------------------------------------------------------------------------
(* The movie poll that waits for ever is sent to the field's coordinator.  *)
RsReforce ==
  /\ RsRuns /\ RsLeft("reforce") /\ rs_mem.module = "live"
  /\ RsThrough("reforce", rs_mem, "coordinator", RsSpent("reforce"))

RsExit == RsRuns /\ RsExits

-----------------------------------------------------------------------------
(* The anchor.                                                             *)

\* The executable is loaded and called, as at the start; with nothing
\* pending the dispatch comes back at once.
RsBooted == [c \in RsCells |-> IF c = "module" THEN rs_mem[c] ELSE "image"]

RsBoot ==
  /\ rs_mem' = RsBooted /\ rs_vsync' = FALSE /\ rs_kit' = TRUE
  /\ rs_stack' = <<"boot">> /\ rs_phase' = "runs" /\ rs_door' = RsNone /\ rs_was' = << >>
  /\ UNCHANGED <<rs_used, rs_pend, rs_relay, rs_img, rs_caps>>

RsBypasses ==
  rs_pend = "main" /\ rs_used["restart"] >= RsFew /\ RsLeft("bypass") /\ rs_mem.module # "zero"

RsDispatches(m, used) ==
  /\ rs_mem' = m /\ rs_used' = used
  /\ rs_stack' = <<"life">> /\ rs_phase' = "runs" /\ rs_door' = RsNone /\ rs_was' = << >>
  /\ UNCHANGED <<rs_vsync, rs_pend, rs_relay, rs_fixed>>

\* With the splash on screen the anchor does not take the field's way.
RsLands ==
  /\ rs_phase = "lands"
  /\ \/ rs_pend = RsNone /\ RsBoot
     \/ RsBypasses /\ RsDispatches(RsStored([rs_mem EXCEPT !.pick = "field"]), RsSpent("bypass"))
     \/ rs_pend # RsNone /\ RsDispatches(rs_mem, rs_used)

-----------------------------------------------------------------------------
(* Returns.                                                                *)

\* Out of the anchor's dispatch: the program boots.
RsReturnsFromLife == RsRuns /\ rs_stack = <<"life">> /\ RsBoot

\* Out of the program: with a phase committed it is called again; or main
\* returns, and the exit handler runs on the main thread.
RsReturnsFromBoot ==
  /\ RsRuns /\ rs_stack = <<"boot">>
  /\ IF RsLeft("again") /\ RsAsked(rs_mem)
     THEN /\ rs_used' = RsSpent("again") /\ rs_vsync' = FALSE
          /\ UNCHANGED <<rs_mem, rs_stack, rs_phase, rs_pend, rs_past, rs_relay, rs_fixed>>
     ELSE /\ rs_stack' = <<"atexit">> /\ rs_phase' = "asks"
          /\ UNCHANGED <<rs_mem, rs_vsync, rs_used, rs_pend, rs_past, rs_relay, rs_fixed>>

RsTop(kinds) == rs_stack # << >> /\ rs_stack[Len(rs_stack)] \in kinds

RsReturnsFromNested == RsRuns /\ RsTop({"nested"}) /\ RsGivesUp

\* Out of the loop's call, which disarms the relay.
RsReturnsFromLoop ==
  /\ RsRuns /\ RsTop({"loop", "atexit"})
  /\ rs_armed' = FALSE /\ rs_phase' = "asks"
  /\ UNCHANGED <<rs_mem, rs_stack, rs_vsync, rs_used, rs_pend, rs_past, rs_exiting, rs_reboot,
                 rs_late, rs_fixed>>

\* The exit handler's loop: a phase committed, or a relay, and it is called
\* on a restored image.
RsLoops ==
  /\ rs_phase = "asks" /\ ~rs_late
  /\ RsLeft("loop") /\ (RsAsked(rs_mem) \/ rs_reboot)
  /\ rs_used' = RsSpent("loop") /\ rs_vsync' = FALSE
  /\ rs_mem' = [RsShell(RsRestored({"pick", "walk"})) EXCEPT
                  !.heap = IF @ = "image" THEN "live" ELSE @]
  /\ rs_reboot' = FALSE /\ rs_armed' = TRUE /\ rs_phase' = "runs"
  /\ UNCHANGED <<rs_stack, rs_pend, rs_past, rs_exiting, rs_late, rs_fixed>>

RsStops ==
  /\ rs_phase = "asks"
  /\ rs_late \/ ~RsLeft("loop") \/ ~(RsAsked(rs_mem) \/ rs_reboot)
  /\ RsDies

RsTimePasses ==
  /\ rs_phase = "asks" /\ ~rs_late /\ rs_late' = TRUE
  /\ UNCHANGED <<rs_mem, rs_stack, rs_phase, rs_vsync, rs_used, rs_pend, rs_past, rs_armed,
                 rs_exiting, rs_reboot, rs_fixed>>

-----------------------------------------------------------------------------
RsInit ==
  /\ rs_mem = [c \in RsCells |-> IF c = "module" THEN "zero" ELSE "image"]
  /\ rs_img = << >> /\ rs_pend = RsNone
  /\ rs_stack = <<"boot">> /\ rs_phase = "runs" /\ rs_vsync = FALSE
  /\ rs_used = [d \in RsDoors |-> 0] /\ rs_caps \in RsBudgets
  /\ rs_kit = TRUE
  /\ rs_armed = FALSE /\ rs_exiting = FALSE /\ rs_reboot = FALSE /\ rs_late = FALSE
  /\ rs_door = RsNone /\ rs_was = << >>

RsDoorsTaken ==
  \/ RsUncounted \/ RsCanary \/ RsAbort \/ RsHalt \/ RsFault \/ RsUnknown \/ RsCrash
  \/ RsAbortSignal \/ RsReforce \/ RsExit
RsReturns ==
  RsReturnsFromLife \/ RsReturnsFromBoot \/ RsReturnsFromNested \/ RsReturnsFromLoop

RsNext ==
  \/ RsWorks \/ RsEntersMain \/ RsReinstalls \/ RsDoorsTaken \/ RsReturns
  \/ RsLands \/ RsLoops \/ RsStops \/ RsTimePasses

RsSpec == RsInit /\ [][RsNext]_rs_vars

-----------------------------------------------------------------------------
RsTypeOK ==
  /\ rs_mem \in [RsCells -> RsWords]
  /\ rs_img # << >> => rs_img \in [RsCells -> RsWords]
  /\ rs_stack \in Seq({"boot", "life", "nested", "loop", "atexit"})
  /\ rs_phase \in {"runs", "lands", "asks", "gone", "undefined"}
  /\ \A d \in RsDoors : rs_used[d] \in 0..(rs_caps[d] + RsSpare)
  /\ rs_pend \in {RsNone, "main", "coordinator", "other"}
  /\ {rs_vsync, rs_kit, rs_armed, rs_exiting, rs_reboot, rs_late} \subseteq BOOLEAN
  /\ rs_door \in RsDoors \cup {RsNone, "overrun", "bounce"}
  /\ rs_was # << >> => rs_was \in [RsRequest -> RsWords]

\* Whatever door a life began through and whatever it restored, the row that
\* the dispatcher reads is that of the state requested (runtime.c:11936-11950,
\* 32386-32391).
RsRowFollows == rs_mem.mirror = rs_mem.index

\* A run that starts again for ever does so through the doors that do not
\* count: every other way from the guest's code to the anchor, from the exit
\* handler into the guest and out of it by the relay uses up a life, and none
\* is ever given back (runtime.c:31366-31380, and the caps of the doors).
RsEnters ==
  \/ rs_phase = "runs" /\ rs_phase' = "lands" /\ rs_door' \notin {"overrun", "bounce"}
  \/ rs_phase = "asks" /\ rs_phase' = "runs"
  \/ rs_phase = "runs" /\ rs_phase' = "asks" /\ rs_reboot' # rs_reboot
RsRunsOut ==
  [][/\ \A d \in RsDoors : rs_used'[d] >= rs_used[d]
     /\ RsEnters => rs_used' # rs_used]_rs_vars

\* The crash kit keeps the request in flight: the file, its place on the disc
\* and the state asked for, each if it is sane (runtime.c:8712-8728).
RsRequestKept ==
  rs_phase = "lands" =>
    \A c \in DOMAIN rs_was : rs_was[c] # "taint" => rs_mem[c] = rs_was[c]
=============================================================================
