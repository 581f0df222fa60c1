---------------------------- MODULE AnchorGuard -----------------------------
(***************************************************************************)
(* Who may run guest code, and when (source/runtime/runtime.c).  The guest *)
(* runs on one big-stack thread, the anchor.  Its memory and dispatch      *)
(* hooks call back into host routines, which dispatch guest handlers in    *)
(* turn, so host and guest frames alternate on one stack.  Three re-entry  *)
(* latches keep a routine from nesting in itself: hb_active (the kick, the *)
(* pulse of the vertical blank), busy (cd_force_deliver_int1) and          *)
(* cd_tick_busy (the fd-tick, the collector of disc interrupts).           *)
(* g_guest_depth counts the dispatches under way; the alarm handler on the *)
(* main thread and the freeze watcher on a third one look at it before     *)
(* they touch what the guest touches.  A fault, a halt or a runaway loop   *)
(* longjmps back to the anchor's setjmp, whatever the stack holds, and the *)
(* guest is dispatched anew.                                               *)
(*                                                                         *)
(* frames is the anchor's stack, oldest first.  A frame is guest code -    *)
(* "guest" when its dispatch was counted, "bare" when it was not - or a    *)
(* host routine.  What makes the guest's hooks fire (addresses, poll       *)
(* counts, disc state) is left to chance, as is what a delivery does to    *)
(* the disc state, which is CdController's subject.  The alarm is taken by *)
(* the main thread, parked in pthread_join.  Once two threads are in the   *)
(* guest at a time anything may happen; the model stops there.             *)
(***************************************************************************)
EXTENDS Integers, Sequences, FiniteSets

CONSTANTS
  MaxFrames,    \* bound: frames on the anchor's stack
  MaxRestarts   \* bound: longjmps to the anchor's setjmp

VARIABLES
  frames,       \* the anchor's stack
  next,         \* what the anchor runs once its stack is empty
  g_guest_depth,
  hb_active, busy, cd_tick_busy,
  kick_due,     \* a kick was asked for and waits for a park boundary
  g_cdf_defer,  \* a delivery was deferred to the anchor
  g_r918_poll_requested,
  alarm,        \* the alarm handler: armed, past the depth guard, or exited
  visitor,      \* another thread in cd_force_deliver_int1
  restarts

latches == <<hb_active, busy, cd_tick_busy>>
requests == <<kick_due, g_cdf_defer, g_r918_poll_requested>>
outside == <<alarm, visitor>>
vars == <<frames, next, g_guest_depth, latches, requests, outside, restarts>>

-----------------------------------------------------------------------------
(* A kick is serviced by the register hooks ("hook"), by the frame wait    *)
(* because one is due ("due") or as its own pulse ("pulse").               *)
Guests == {"guest", "bare"}
Kicks  == {"hook", "due", "pulse"}
Hosts  == Kicks \cup {"deliver", "tick"}
Frames == Guests \cup Hosts

ASSUME BoundsAssumption == MaxFrames \in Nat /\ MaxRestarts \in Nat

Top(kinds) == frames # << >> /\ frames[Len(frames)] \in kinds

Positions(kinds) == {i \in 1..Len(frames) : frames[i] \in kinds}

GuestRuns == Positions(Guests) # {}

\* At most one of the frames is of these kinds.
Alone(kinds) == \A i, j \in Positions(kinds) : i = j

Push(frame) == Len(frames) < MaxFrames /\ frames' = Append(frames, frame)

Pop == frames' = SubSeq(frames, 1, Len(frames) - 1)

-----------------------------------------------------------------------------
Init ==
  /\ frames = << >> /\ next = "boot"
  /\ g_guest_depth = 0
  /\ hb_active = FALSE /\ busy = FALSE /\ cd_tick_busy = FALSE
  /\ kick_due = FALSE /\ g_cdf_defer = FALSE /\ g_r918_poll_requested = FALSE
  /\ alarm = "armed" /\ visitor = "away"
  /\ restarts = 0

-----------------------------------------------------------------------------
(* The bottom of the anchor's stack, xenolift_real_main.                   *)

\* The emitted program is called, not dispatched: the depth stays 0.
Boot ==
  /\ frames = << >> /\ next = "boot"
  /\ Push("bare")
  /\ next' = "over"
  /\ UNCHANGED <<g_guest_depth, latches, requests, outside, restarts>>

\* The program returned with the field committed: it is entered again.
Reboot ==
  /\ frames = << >> /\ next = "over"
  /\ next' = "boot"
  /\ UNCHANGED <<frames, g_guest_depth, latches, requests, outside, restarts>>

\* After a restart the pending function is dispatched; when it returns the
\* anchor falls through to the boot.
Redispatch ==
  /\ frames = << >> /\ next = "redispatch"
  /\ Push("guest")
  /\ g_guest_depth' = g_guest_depth + 1
  /\ next' = "boot"
  /\ UNCHANGED <<latches, requests, outside, restarts>>

-----------------------------------------------------------------------------
(* Dispatches and returns.                                                 *)

Dispatch ==
  /\ frames # << >>
  /\ Push("guest")
  /\ g_guest_depth' = g_guest_depth + 1
  /\ UNCHANGED <<next, latches, requests, outside, restarts>>

\* The pulse's last dispatch is not counted.
BareDispatch ==
  /\ Top({"pulse"})
  /\ Push("bare")
  /\ UNCHANGED <<next, g_guest_depth, latches, requests, outside, restarts>>

Return ==
  /\ Top(Guests)
  /\ g_guest_depth' = IF Top({"guest"}) THEN g_guest_depth - 1 ELSE g_guest_depth
  /\ Pop
  /\ UNCHANGED <<next, latches, requests, outside, restarts>>

-----------------------------------------------------------------------------
(* Kicks.                                                                  *)

\* Too many polls without a frame: a kick falls due.
Heartbeat ==
  /\ Top(Guests) /\ ~hb_active
  /\ kick_due' = TRUE
  /\ UNCHANGED <<frames, next, g_guest_depth, latches, g_cdf_defer,
                 g_r918_poll_requested, outside, restarts>>

\* Mutant: the hooks do not look at the latch.
HookKickNested ==
  /\ Top(Guests)
  /\ Push("hook")
  /\ hb_active' = TRUE
  /\ UNCHANGED <<next, g_guest_depth, busy, cd_tick_busy, requests, outside,
                 restarts>>

HookKick ==
  /\ Top(Guests) /\ ~hb_active
  /\ Push("hook")
  /\ hb_active' = TRUE
  /\ UNCHANGED <<next, g_guest_depth, busy, cd_tick_busy, requests, outside,
                 restarts>>

\* The frame wait: the kick that is due, then the pulse.
ParkTick ==
  /\ Top(Guests) /\ ~hb_active
  /\ Push(IF kick_due THEN "due" ELSE "pulse")
  /\ hb_active' = TRUE
  /\ kick_due' = FALSE
  /\ UNCHANGED <<next, g_guest_depth, busy, cd_tick_busy, g_cdf_defer,
                 g_r918_poll_requested, outside, restarts>>

LeaveDueKick ==
  /\ Top({"due"})
  /\ frames' = [frames EXCEPT ![Len(frames)] = "pulse"]
  /\ UNCHANGED <<next, g_guest_depth, latches, requests, outside, restarts>>

LeaveKick ==
  /\ Top({"hook", "pulse"})
  /\ Pop
  /\ hb_active' = FALSE
  /\ UNCHANGED <<next, g_guest_depth, busy, cd_tick_busy, requests, outside,
                 restarts>>

-----------------------------------------------------------------------------
(* Deliveries of the disc's interrupts.                                    *)

\* cd_force_deliver_int1 on the anchor.
Deliver ==
  /\ frames # << >> /\ ~busy
  /\ Push("deliver")
  /\ busy' = TRUE
  /\ UNCHANGED <<next, g_guest_depth, hb_active, cd_tick_busy, requests, outside,
                 restarts>>

LeaveDeliver ==
  /\ Top({"deliver"})
  /\ Pop
  /\ busy' = FALSE
  /\ UNCHANGED <<next, g_guest_depth, hb_active, cd_tick_busy, requests, outside,
                 restarts>>

Tick ==
  /\ Top(Guests) /\ ~cd_tick_busy
  /\ Push("tick")
  /\ cd_tick_busy' = TRUE
  /\ UNCHANGED <<next, g_guest_depth, hb_active, busy, requests, outside, restarts>>

LeaveTick ==
  /\ Top({"tick"})
  /\ Pop
  /\ cd_tick_busy' = FALSE
  /\ UNCHANGED <<next, g_guest_depth, hb_active, busy, requests, outside, restarts>>

\* The guest polls the disc: the release of a scheduled response is asked
\* for, not run.
RequestRelease ==
  /\ Top(Guests)
  /\ g_r918_poll_requested' = TRUE
  /\ UNCHANGED <<frames, next, g_guest_depth, latches, kick_due, g_cdf_defer,
                 outside, restarts>>

\* The release at the file layer's wait loop.
SeamRelease ==
  /\ Top(Guests) /\ g_r918_poll_requested /\ ~cd_tick_busy
  /\ g_r918_poll_requested' = FALSE
  /\ UNCHANGED <<frames, next, g_guest_depth, latches, kick_due, g_cdf_defer,
                 outside, restarts>>

-----------------------------------------------------------------------------
(* The other threads.                                                      *)

\* on_alarm: while the anchor is in a counted dispatch it re-arms at once.
AlarmGuard ==
  /\ alarm = "armed" /\ g_guest_depth = 0
  /\ alarm' = "seam"
  /\ UNCHANGED <<frames, next, g_guest_depth, latches, requests, visitor, restarts>>

\* Past the guard the asked-for release is run; then the handler re-arms,
\* or finds the run stuck or over its budget and exits.
AlarmSeam ==
  /\ alarm = "seam"
  /\ g_r918_poll_requested' = FALSE
  /\ alarm' \in {"armed", "exited"}
  /\ UNCHANGED <<frames, next, g_guest_depth, latches, kick_due, g_cdf_defer,
                 visitor, restarts>>

\* A door of the watcher, or the release in the alarm handler, delivers by
\* force from outside the anchor: first what it checks ...
ForceCheck ==
  /\ visitor = "away" /\ ~busy
  /\ IF g_guest_depth > 0
     THEN g_cdf_defer' = TRUE /\ UNCHANGED visitor
     ELSE visitor' = "passed" /\ UNCHANGED g_cdf_defer
  /\ UNCHANGED <<frames, next, g_guest_depth, latches, kick_due,
                 g_r918_poll_requested, alarm, restarts>>

\* ... then the delivery, which must find the guest at rest.  It ends with
\* the latch free, even one that a restart had left set.
ForceDeliver ==
  /\ visitor = "passed"
  /\ IF GuestRuns \/ Positions({"deliver"}) # {}
     THEN visitor' = "trespassing" /\ UNCHANGED busy
     ELSE visitor' = "away" /\ busy' = FALSE
  /\ UNCHANGED <<frames, next, g_guest_depth, hb_active, cd_tick_busy, requests,
                 alarm, restarts>>

-----------------------------------------------------------------------------
(* Restarts.                                                               *)

\* Mutant: a door jumps without resetting the depth.
RestartKeepsDepth ==
  /\ frames # << >> /\ restarts < MaxRestarts
  /\ restarts' = restarts + 1
  /\ next' = "redispatch"
  /\ cd_tick_busy' = FALSE
  /\ g_cdf_defer' = FALSE
  /\ frames' = IF g_cdf_defer /\ ~busy THEN <<"deliver">> ELSE << >>
  /\ busy' = (busy \/ g_cdf_defer)
  /\ UNCHANGED <<g_guest_depth, hb_active, kick_due, g_r918_poll_requested, outside>>

\* Mutant: the anchor leaves the guard of the fd-tick as it finds it.
RestartKeepsTick ==
  /\ frames # << >> /\ restarts < MaxRestarts
  /\ restarts' = restarts + 1
  /\ next' = "redispatch"
  /\ g_guest_depth' = 0
  /\ g_cdf_defer' = FALSE
  /\ frames' = IF g_cdf_defer /\ ~busy THEN <<"deliver">> ELSE << >>
  /\ busy' = (busy \/ g_cdf_defer)
  /\ UNCHANGED <<hb_active, cd_tick_busy, kick_due, g_r918_poll_requested, outside>>

\* A door resets the depth and longjmps, from any depth of the stack.  The
\* anchor clears the guard of the fd-tick - not the other two latches - and
\* drains the deferred delivery, which the held delivery latch drops.
Restart ==
  /\ frames # << >> /\ restarts < MaxRestarts
  /\ restarts' = restarts + 1
  /\ next' = "redispatch"
  /\ g_guest_depth' = 0
  /\ cd_tick_busy' = FALSE
  /\ g_cdf_defer' = FALSE
  /\ frames' = IF g_cdf_defer /\ ~busy THEN <<"deliver">> ELSE << >>
  /\ busy' = (busy \/ g_cdf_defer)
  /\ UNCHANGED <<hb_active, kick_due, g_r918_poll_requested, outside>>

-----------------------------------------------------------------------------
Anchor ==
  \/ Boot \/ Reboot \/ Redispatch \/ Dispatch \/ BareDispatch \/ Return
  \/ Heartbeat \/ HookKick \/ ParkTick \/ LeaveDueKick \/ LeaveKick
  \/ Deliver \/ LeaveDeliver \/ Tick \/ LeaveTick
  \/ RequestRelease \/ SeamRelease \/ Restart

Others == AlarmGuard \/ AlarmSeam \/ ForceCheck \/ ForceDeliver

Next ==
  /\ alarm # "exited" /\ visitor # "trespassing"
  /\ Anchor \/ Others

Spec == Init /\ [][Next]_vars

-----------------------------------------------------------------------------
(* Properties.                                                             *)

\* The depth is the number of counted dispatches on the anchor's stack,
\* through every return, nested routine and longjmp: what the guards of the
\* other threads read is never stale, too high or negative.
DepthCountsDispatches == g_guest_depth = Cardinality(Positions({"guest"}))

\* No kick runs inside a kick, no delivery inside a delivery, no tick inside
\* a tick, although the guest code each of them dispatches passes the very
\* hooks that start them and a restart may cut any of them short.
NoReentry ==
  \A kinds \in {Kicks, {"deliver"}, {"tick"}} : Cardinality(Positions(kinds)) <= 1

\* The guard of the fd-tick is set exactly while a tick is on the stack: a
\* restart that cuts a tick short does not disable the ones after it.
TickGuardFollowsTick == cd_tick_busy <=> Positions({"tick"}) # {}
=============================================================================
