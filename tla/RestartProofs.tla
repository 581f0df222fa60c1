----------------------------- MODULE RestartProofs -----------------------------
(***************************************************************************)
(* Proofs about the anchor, about the doors through which a run starts     *)
(* again, and about the guest program that runs.                           *)
(*                                                                         *)
(* The three safety properties of AnchorGuard, for stacks of any height    *)
(* and any number of restarts: the inductive invariant adds to them that   *)
(* every latched routine on the stack holds its latch.  Only the tick's    *)
(* latch is free whenever no tick is on the stack: a restart leaves the    *)
(* other two as they are.                                                  *)
(*                                                                         *)
(* Of ShellRestart, that every memory a door hands to the next life has    *)
(* the row of its index in place, and that every door but the two that do  *)
(* not count uses up a life.  Neither is inductive alone.  A restore takes *)
(* the row from the image of the program, so the image must have its row   *)
(* in place as well; and the signal handler takes back a count above its   *)
(* cap, so no count may ever pass it.                                      *)
(*                                                                         *)
(* Of GuestRun, that the translated program, the guard and the interpreter *)
(* together implement the CPU, for images and windows of any size and any  *)
(* depth of calls.  The invariant relates the C stack to the calls of the  *)
(* guest: each frame serves a run of them, translated code exactly one and *)
(* the interpreter one from outside and those made inside the window, and  *)
(* waits where the next one returns to; no frame of translated code stands *)
(* in a slot or in a stale window.                                         *)
(***************************************************************************)
EXTENDS AnchorGuard, ShellRestart, GuestRun, Recursion, FiniteSetTheorems,
        SequenceTheorems, TLAPS

(***************************************************************************)
(* The anchor.                                                             *)
(***************************************************************************)

Stack == frames \in Seq(Frames)

LatchesHeld ==
  /\ Positions(Kicks) # {} => hb_active
  /\ Positions({"deliver"}) # {} => busy

NoneTwice == Alone(Kicks) /\ Alone({"deliver"}) /\ Alone({"tick"})

IInv ==
  /\ Stack
  /\ g_guest_depth \in Int
  /\ DepthCountsDispatches
  /\ LatchesHeld
  /\ NoneTwice
  /\ TickGuardFollowsTick

-----------------------------------------------------------------------------
(* Stacks.                                                                 *)

\* Where a pushed frame appears: one position up, nothing else moves.
LEMMA Pushed ==
  ASSUME Stack, NEW frame \in Frames, Push(frame), NEW kinds
  PROVE  /\ Stack'
         /\ Positions(kinds)' = IF frame \in kinds
                                THEN Positions(kinds) \cup {Len(frames) + 1}
                                ELSE Positions(kinds)
         /\ Len(frames) + 1 \notin Positions(kinds)
  <1>1. frames' \in Seq(Frames) /\ Len(frames') = Len(frames) + 1
    BY DEF Push, Stack
  <1>2. \A i \in 1..Len(frames) : frames'[i] = frames[i]
    BY DEF Push, Stack
  <1>3. frames'[Len(frames) + 1] = frame
    BY DEF Push, Stack
  <1>4. Len(frames) \in Nat
    BY DEF Stack
  <1>5. 1..(Len(frames) + 1) = (1..Len(frames)) \cup {Len(frames) + 1}
    BY <1>4
  <1> QED BY <1>1, <1>2, <1>3, <1>4, <1>5 DEF Stack, Positions

\* Where the top frame disappears when it is popped.
LEMMA Popped ==
  ASSUME Stack, frames # << >>, Pop, NEW kinds
  PROVE  /\ Stack'
         /\ Positions(kinds)' = Positions(kinds) \ {Len(frames)}
  <1>1. Len(frames) \in Nat /\ Len(frames) >= 1
    BY DEF Stack
  <1> DEFINE n == Len(frames) - 1
  <1>a. n \in Nat /\ \A i \in 1..n : frames[i] \in Frames
    BY <1>1 DEF Stack
  <1>b. frames' = SubSeq(frames, 1, n)
    BY DEF Pop
  <1>c. /\ SubSeq(frames, 1, n) \in Seq(Frames)
        /\ Len(SubSeq(frames, 1, n)) = IF 1 <= n THEN n - 1 + 1 ELSE 0
        /\ \A i \in 1..(n - 1 + 1) : SubSeq(frames, 1, n)[i] = frames[1 + i - 1]
    <2>1. 1 \in Int /\ n \in Int
      BY <1>a
    <2>2. \A i \in 1..n : frames[i] \in Frames
      BY <1>a
    <2> HIDE DEF n
    <2> QED BY <2>1, <2>2, SubSeqProperties
  <1> HIDE DEF n
  <1>2. frames' \in Seq(Frames) /\ Len(frames') = n
    BY <1>a, <1>b, <1>c
  <1>3. \A i \in 1..n : frames'[i] = frames[i]
    <2>1. TAKE i \in 1..n
    <2>2. n - 1 + 1 = n /\ 1 + i - 1 = i
      BY <1>a
    <2> QED BY <1>b, <1>c, <2>2
  <1> USE DEF n
  <1>4. 1..(Len(frames) - 1) = (1..Len(frames)) \ {Len(frames)}
    BY <1>1
  <1> QED BY <1>1, <1>2, <1>3, <1>4 DEF Stack, Positions

\* Positions are finitely many, so that they can be counted.
LEMMA Finite ==
  ASSUME Stack, NEW kinds
  PROVE  IsFiniteSet(Positions(kinds))
  <1>1. IsFiniteSet(1..Len(frames))
    BY FS_Interval DEF Stack
  <1> QED BY <1>1, FS_Subset DEF Positions

\* A frame on top is at the last position.
LEMMA OnTop ==
  ASSUME Stack, NEW kinds, Top(kinds)
  PROVE  frames # << >> /\ Len(frames) \in Positions(kinds)
  BY DEF Stack, Top, Positions

\* The kinds are told apart by their strings.
LEMMA Kinds ==
  /\ Kicks \cap {"guest", "bare", "deliver", "tick"} = {}
  /\ {"hook", "due", "pulse"} = Kicks
  /\ Frames = Kicks \cup {"guest", "bare", "deliver", "tick"}
  BY DEF Kicks, Guests, Hosts, Frames
-----------------------------------------------------------------------------
(* What a push and a pop do to the invariant, latches aside.               *)

\* A counted dispatch raises depth and count together; any other frame
\* leaves both alone.
LEMMA PushKeepsDepth ==
  ASSUME IInv, NEW frame \in Frames, Push(frame),
         g_guest_depth' = IF frame = "guest" THEN g_guest_depth + 1 ELSE g_guest_depth
  PROVE  Stack' /\ g_guest_depth' \in Int /\ DepthCountsDispatches'
  <1>1. Stack /\ g_guest_depth = Cardinality(Positions({"guest"})) /\ g_guest_depth \in Int
    BY DEF IInv, DepthCountsDispatches
  <1>2. /\ Stack'
        /\ Positions({"guest"})' = IF frame \in {"guest"}
                                   THEN Positions({"guest"}) \cup {Len(frames) + 1}
                                   ELSE Positions({"guest"})
        /\ Len(frames) + 1 \notin Positions({"guest"})
    BY <1>1, Pushed
  <1>3. IsFiniteSet(Positions({"guest"}))
    BY <1>1, Finite
  <1>4. g_guest_depth' = Cardinality(Positions({"guest"})')
    BY <1>1, <1>2, <1>3, FS_AddElement
  <1> QED BY <1>1, <1>2, <1>4 DEF DepthCountsDispatches

\* The return of a counted dispatch lowers both.
LEMMA PopKeepsDepth ==
  ASSUME IInv, frames # << >>, Pop,
         g_guest_depth' = IF Top({"guest"}) THEN g_guest_depth - 1 ELSE g_guest_depth
  PROVE  Stack' /\ g_guest_depth' \in Int /\ DepthCountsDispatches'
  <1>1. Stack /\ g_guest_depth = Cardinality(Positions({"guest"})) /\ g_guest_depth \in Int
    BY DEF IInv, DepthCountsDispatches
  <1>2. Stack' /\ Positions({"guest"})' = Positions({"guest"}) \ {Len(frames)}
    BY <1>1, Popped
  <1>3. IsFiniteSet(Positions({"guest"}))
    BY <1>1, Finite
  <1>4. Top({"guest"}) <=> Len(frames) \in Positions({"guest"})
    BY <1>1 DEF Stack, Top, Positions
  <1>5. g_guest_depth' = Cardinality(Positions({"guest"})')
    BY <1>1, <1>2, <1>3, <1>4, FS_RemoveElement
  <1> QED BY <1>1, <1>2, <1>5 DEF DepthCountsDispatches

\* A routine pushed when none of its kinds was on the stack is alone on it.
LEMMA PushKeepsAlone ==
  ASSUME Stack, NEW frame \in Frames, Push(frame), NEW kinds,
         Alone(kinds), frame \in kinds => Positions(kinds) = {}
  PROVE  Alone(kinds)'
  BY Pushed DEF Alone

\* A pop leaves a latched routine alone, and takes the last one with it.
LEMMA PopKeepsAlone ==
  ASSUME Stack, frames # << >>, Pop, NEW kinds, Alone(kinds)
  PROVE  /\ Alone(kinds)'
         /\ Positions(kinds)' = IF Top(kinds) THEN {} ELSE Positions(kinds)
  <1>1. Positions(kinds)' = Positions(kinds) \ {Len(frames)}
    BY Popped
  <1>2. Top(kinds) <=> Len(frames) \in Positions(kinds)
    BY DEF Stack, Top, Positions
  <1> QED BY <1>1, <1>2 DEF Alone

\* Guest frames come and go without any latch.
LEMMA GuestFrames ==
  ASSUME IInv, NEW frame \in {"guest", "bare"}, Push(frame),
         g_guest_depth' = IF frame = "guest" THEN g_guest_depth + 1 ELSE g_guest_depth,
         UNCHANGED latches
  PROVE  IInv'
  <1>1. Stack /\ frame \in Frames
    BY Kinds DEF IInv
  <1>2. Stack' /\ g_guest_depth' \in Int /\ DepthCountsDispatches'
    BY <1>1, PushKeepsDepth
  <1>3. NoneTwice'
    BY <1>1, PushKeepsAlone, Kinds DEF IInv, NoneTwice
  <1>4. \A kinds \in {Kicks, {"deliver"}, {"tick"}} : Positions(kinds)' = Positions(kinds)
    BY <1>1, Pushed, Kinds
  <1>5. LatchesHeld' /\ TickGuardFollowsTick'
    BY <1>4 DEF IInv, LatchesHeld, TickGuardFollowsTick, latches
  <1> QED BY <1>2, <1>3, <1>5 DEF IInv

\* A step that leaves stack, depth and latches alone.
LEMMA Aside ==
  ASSUME IInv, UNCHANGED <<frames, g_guest_depth, latches>>
  PROVE  IInv'
  BY DEF IInv, Stack, DepthCountsDispatches, LatchesHeld, NoneTwice, Alone,
         TickGuardFollowsTick, Positions, latches

\* A latched routine is pushed only when its latch is free, and takes it.
LEMMA HostPush ==
  ASSUME IInv, NEW frame \in Hosts, Push(frame), UNCHANGED g_guest_depth,
         IF frame \in Kicks THEN ~hb_active /\ hb_active' ELSE UNCHANGED hb_active,
         IF frame = "deliver" THEN ~busy /\ busy' ELSE UNCHANGED busy,
         IF frame = "tick" THEN ~cd_tick_busy /\ cd_tick_busy'
                           ELSE UNCHANGED cd_tick_busy
  PROVE  IInv'
  <1>1. Stack /\ frame \in Frames /\ frame # "guest"
    BY Kinds DEF IInv, Hosts, Frames
  <1>2. Stack' /\ g_guest_depth' \in Int /\ DepthCountsDispatches'
    BY <1>1, PushKeepsDepth
  <1>3. NoneTwice'
    <2>1. Alone(Kicks)'
      BY <1>1, PushKeepsAlone DEF IInv, NoneTwice, LatchesHeld
    <2>2. Alone({"deliver"})'
      BY <1>1, PushKeepsAlone DEF IInv, NoneTwice, LatchesHeld
    <2>3. Alone({"tick"})'
      BY <1>1, PushKeepsAlone DEF IInv, NoneTwice, TickGuardFollowsTick
    <2> QED BY <2>1, <2>2, <2>3 DEF NoneTwice
  <1>4. LatchesHeld'
    <2>1. Positions(Kicks)' # {} => hb_active'
      BY <1>1, Pushed DEF IInv, LatchesHeld
    <2>2. Positions({"deliver"})' # {} => busy'
      BY <1>1, Pushed DEF IInv, LatchesHeld
    <2> QED BY <2>1, <2>2 DEF LatchesHeld
  <1>5. TickGuardFollowsTick'
    BY <1>1, Pushed DEF IInv, TickGuardFollowsTick
  <1> QED BY <1>2, <1>3, <1>4, <1>5 DEF IInv

\* A frame that leaves the stack frees no latch but its own, and the tick's
\* frees it always.
LEMMA AnyPop ==
  ASSUME IInv, frames # << >>, Pop,
         g_guest_depth' = IF Top({"guest"}) THEN g_guest_depth - 1 ELSE g_guest_depth,
         Top(Kicks) \/ UNCHANGED hb_active,
         Top({"deliver"}) \/ UNCHANGED busy,
         IF Top({"tick"}) THEN ~cd_tick_busy' ELSE UNCHANGED cd_tick_busy
  PROVE  IInv'
  <1>1. Stack /\ Stack' /\ g_guest_depth' \in Int /\ DepthCountsDispatches'
    BY PopKeepsDepth DEF IInv
  <1>2. NoneTwice'
    BY <1>1, PopKeepsAlone DEF IInv, NoneTwice
  <1>3. LatchesHeld'
    <2>1. Positions(Kicks)' # {} => hb_active'
      BY <1>1, PopKeepsAlone DEF IInv, LatchesHeld, NoneTwice
    <2>2. Positions({"deliver"})' # {} => busy'
      BY <1>1, PopKeepsAlone DEF IInv, LatchesHeld, NoneTwice
    <2> QED BY <2>1, <2>2 DEF LatchesHeld
  <1>4. TickGuardFollowsTick'
    BY <1>1, PopKeepsAlone DEF IInv, NoneTwice, TickGuardFollowsTick
  <1> QED BY <1>1, <1>2, <1>3, <1>4 DEF IInv

\* The kick that was due becomes the pulse: a kick in its place.
LEMMA DueBecomesPulse ==
  ASSUME IInv, LeaveDueKick
  PROVE  IInv'
  <1>1. Stack /\ frames # << >> /\ frames[Len(frames)] = "due"
    BY DEF IInv, LeaveDueKick, Top
  <1>2. frames' = [frames EXCEPT ![Len(frames)] = "pulse"] /\ "pulse" \in Frames
    BY Kinds DEF LeaveDueKick
  <1>3. Stack' /\ Len(frames') = Len(frames)
    BY <1>1, <1>2 DEF Stack
  <1>4. \A i \in 1..Len(frames) : frames'[i] = IF i = Len(frames) THEN "pulse" ELSE frames[i]
    BY <1>1, <1>2 DEF Stack
  <1>5. \A kinds \in {Kicks, {"deliver"}, {"tick"}, {"guest"}} :
          Positions(kinds)' = Positions(kinds)
    BY <1>1, <1>3, <1>4, Kinds DEF Positions
  <1>6. UNCHANGED <<g_guest_depth, hb_active, busy, cd_tick_busy>>
    BY DEF LeaveDueKick, latches
  <1>7. g_guest_depth' \in Int /\ DepthCountsDispatches'
    BY <1>5, <1>6 DEF IInv, DepthCountsDispatches
  <1>8. LatchesHeld' /\ TickGuardFollowsTick'
    BY <1>5, <1>6 DEF IInv, LatchesHeld, TickGuardFollowsTick
  <1>9. NoneTwice'
    BY <1>5 DEF IInv, NoneTwice, Alone
  <1> QED BY <1>3, <1>7, <1>8, <1>9 DEF IInv

\* A restart leaves the drained delivery on the stack, or nothing.
LEMMA RestartKeepsInvariant ==
  ASSUME IInv, Restart
  PROVE  IInv'
  <1>1. CASE g_cdf_defer /\ ~busy
    <2>1. frames' = <<"deliver">> /\ "deliver" \in Frames
      BY <1>1, Kinds DEF Restart
    <2>2. frames' \in Seq(Frames) /\ Len(frames') = 1 /\ frames'[1] = "deliver"
      BY <2>1
    <2>3. /\ Positions({"deliver"})' = {1}
          /\ \A kinds \in {Kicks, {"tick"}, {"guest"}} : Positions(kinds)' = {}
      BY <2>2, Kinds DEF Positions
    <2>4. busy' /\ ~cd_tick_busy' /\ g_guest_depth' = 0
      BY <1>1 DEF Restart
    <2>5. g_guest_depth' \in Int /\ DepthCountsDispatches'
      BY <2>3, <2>4, FS_EmptySet DEF DepthCountsDispatches
    <2>6. NoneTwice'
      BY <2>3 DEF NoneTwice, Alone
    <2>7. LatchesHeld' /\ TickGuardFollowsTick'
      BY <2>3, <2>4 DEF LatchesHeld, TickGuardFollowsTick
    <2> QED BY <2>2, <2>5, <2>6, <2>7 DEF IInv, Stack
  <1>2. CASE ~(g_cdf_defer /\ ~busy)
    <2>1. frames' = << >>
      BY <1>2 DEF Restart
    <2>2. frames' \in Seq(Frames) /\ Len(frames') = 0
      BY <2>1
    <2>3. \A kinds \in {Kicks, {"deliver"}, {"tick"}, {"guest"}} : Positions(kinds)' = {}
      BY <2>2 DEF Positions
    <2>4. ~cd_tick_busy' /\ g_guest_depth' = 0
      BY DEF Restart
    <2>5. g_guest_depth' \in Int /\ DepthCountsDispatches'
      BY <2>3, <2>4, FS_EmptySet DEF DepthCountsDispatches
    <2>6. NoneTwice'
      BY <2>3 DEF NoneTwice, Alone
    <2>7. LatchesHeld' /\ TickGuardFollowsTick'
      BY <2>3, <2>4 DEF LatchesHeld, TickGuardFollowsTick
    <2> QED BY <2>2, <2>5, <2>6, <2>7 DEF IInv, Stack
  <1> QED BY <1>1, <1>2

-----------------------------------------------------------------------------
\* The empty stack of a fresh process.
LEMMA Starts == Init => IInv
  <1> SUFFICES ASSUME Init PROVE IInv
    OBVIOUS
  <1>1. frames \in Seq(Frames) /\ Len(frames) = 0
    BY DEF Init
  <1>2. \A kinds \in {Kicks, {"deliver"}, {"tick"}, {"guest"}} : Positions(kinds) = {}
    BY <1>1 DEF Positions
  <1>3. g_guest_depth \in Int /\ DepthCountsDispatches
    BY <1>2, FS_EmptySet DEF Init, DepthCountsDispatches
  <1>4. NoneTwice
    BY <1>2 DEF NoneTwice, Alone
  <1>5. LatchesHeld /\ TickGuardFollowsTick
    BY <1>2 DEF Init, LatchesHeld, TickGuardFollowsTick
  <1> QED BY <1>1, <1>3, <1>4, <1>5 DEF IInv, Stack

\* Every step of the anchor and of the other threads keeps the invariant.
LEMMA Steps == IInv /\ [Next]_vars => IInv'
  <1> SUFFICES ASSUME IInv, [Next]_vars PROVE IInv'
    OBVIOUS
  <1>1. CASE Boot \/ Redispatch \/ Dispatch \/ BareDispatch
    BY <1>1, GuestFrames DEF Boot, Redispatch, Dispatch, BareDispatch
  <1>2. CASE Reboot \/ Heartbeat \/ RequestRelease \/ SeamRelease
    BY <1>2, Aside DEF Reboot, Heartbeat, RequestRelease, SeamRelease, latches
  <1>3. CASE Return
    <2>1. frames # << >> /\ ~Top({"tick"})
      BY <1>3, Kinds DEF Return, Top, Guests
    <2> QED BY <1>3, <2>1, AnyPop DEF Return, latches
  <1>4. CASE HookKick \/ ParkTick
    <2>1. \A frame \in Kicks : frame \in Hosts /\ frame # "deliver" /\ frame # "tick"
      BY Kinds DEF Hosts
    <2>2. PICK frame \in Kicks : Push(frame)
      BY <1>4, Kinds DEF HookKick, ParkTick
    <2> QED BY <1>4, <2>1, <2>2, HostPush DEF HookKick, ParkTick
  <1>5. CASE LeaveDueKick
    BY <1>5, DueBecomesPulse
  <1>6. CASE LeaveKick
    <2>1. frames # << >> /\ Top(Kicks) /\ ~Top({"tick"}) /\ ~Top({"guest"})
      BY <1>6, Kinds DEF LeaveKick, Top
    <2> QED BY <1>6, <2>1, AnyPop DEF LeaveKick
  <1>7. CASE Deliver
    BY <1>7, HostPush, Kinds DEF Deliver, Hosts
  <1>8. CASE LeaveDeliver
    <2>1. frames # << >> /\ ~Top({"tick"}) /\ ~Top({"guest"})
      BY <1>8 DEF LeaveDeliver, Top
    <2> QED BY <1>8, <2>1, AnyPop DEF LeaveDeliver
  <1>9. CASE Tick
    BY <1>9, HostPush, Kinds DEF Tick, Hosts
  <1>10. CASE LeaveTick
    <2>1. frames # << >> /\ ~Top({"guest"})
      BY <1>10 DEF LeaveTick, Top
    <2> QED BY <1>10, <2>1, AnyPop DEF LeaveTick
  <1>11. CASE Restart
    BY <1>11, RestartKeepsInvariant
  <1>12. CASE AlarmGuard \/ AlarmSeam \/ ForceCheck
    BY <1>12, Aside DEF AlarmGuard, AlarmSeam, ForceCheck, latches
  <1>13. CASE ForceDeliver
    <2>1. UNCHANGED <<frames, g_guest_depth, hb_active, cd_tick_busy>>
      BY <1>13 DEF ForceDeliver
    <2>2. Positions({"deliver"}) # {} => busy'
      BY <1>13 DEF ForceDeliver, IInv, LatchesHeld
    <2> QED BY <2>1, <2>2
        DEF IInv, Stack, DepthCountsDispatches, LatchesHeld, NoneTwice, Alone,
            TickGuardFollowsTick, Positions
  <1>14. CASE UNCHANGED vars
    BY <1>14, Aside DEF vars
  <1> QED
    BY <1>1, <1>2, <1>3, <1>4, <1>5, <1>6, <1>7, <1>8, <1>9, <1>10, <1>11, <1>12,
       <1>13, <1>14
    DEF Next, Anchor, Others

\* The invariant holds throughout every run of the program.
THEOREM InvariantHolds == Spec => []IInv
  BY Starts, Steps, PTL DEF Spec

\* What the guards of the other threads read, g_guest_depth, is the number of
\* counted dispatches on the anchor's stack.
THEOREM DepthIsExact == Spec => []DepthCountsDispatches
  <1>1. IInv => DepthCountsDispatches
    BY DEF IInv
  <1> QED BY <1>1, InvariantHolds, PTL

\* No kick, delivery or tick is ever re-entered on the anchor.
THEOREM NothingIsReentered == Spec => []NoReentry
  <1>1. ASSUME IInv, NEW kinds, Alone(kinds)
        PROVE  Cardinality(Positions(kinds)) <= 1
    <2>1. CASE Positions(kinds) = {}
      BY <2>1, FS_EmptySet
    <2>2. CASE Positions(kinds) # {}
      <3>1. PICK i : Positions(kinds) = {i}
        BY <1>1, <2>2 DEF Alone
      <3>2. Cardinality({i}) = 1
        BY FS_Singleton
      <3> QED BY <3>1, <3>2
    <2> QED BY <2>1, <2>2
  <1>2. IInv => NoReentry
    BY <1>1 DEF IInv, NoneTwice, NoReentry
  <1> QED BY <1>2, InvariantHolds, PTL

\* A restart never leaves the guard of the fd-tick set behind it.
THEOREM TickGuardIsFreed == Spec => []TickGuardFollowsTick
  <1>1. IInv => TickGuardFollowsTick
    BY DEF IInv
  <1> QED BY <1>1, InvariantHolds, PTL

(***************************************************************************)
(* The restarts.                                                           *)
(***************************************************************************)

Memories == [RsCells -> RsWords]
Whole == {m \in Memories : m.mirror = m.index}
Counts ==
  {u \in [RsDoors -> Nat] : u["signal"] <= rs_caps["signal"]}

RsIInv ==
  /\ rs_mem \in Whole
  /\ rs_img = << >> \/ rs_img \in Whole
  /\ rs_caps \in [RsDoors -> Nat]
  /\ rs_used \in Counts

-----------------------------------------------------------------------------
(* Memories.                                                               *)

(* A write that leaves the row alone keeps it in place: the row is set     *)
(* with the index or not at all.                                           *)
LEMMA WritesKeepTheRow ==
  ASSUME NEW m \in Whole, NEW cells,
         DOMAIN cells \subseteq RsCells \ {"mirror"},
         \A c \in DOMAIN cells : cells[c] \in RsWords
  PROVE  RsWrite(m, cells) \in Whole
<1>1. \A c \in RsCells : m[c] \in RsWords /\ m["mirror"] = m["index"]
  BY DEF Whole, Memories
<1>2. {"mirror", "index"} \subseteq RsCells  BY DEF RsCells, RsRequest
<1>3. RsWrite(m, cells) \in Memories
  BY <1>1, <1>2 DEF RsWrite, Memories
<1>4. RsWrite(m, cells).mirror = RsWrite(m, cells).index
  BY <1>1, <1>2 DEF RsWrite
<1> QED  BY <1>3, <1>4 DEF Whole

(* So does the key's mark.                                                 *)
LEMMA ShellKeepsTheRow ==
  ASSUME NEW m \in Whole
  PROVE  RsShell(m) \in Whole
BY DEF RsShell, Whole, Memories, RsCells, RsRequest, RsWords

(* Whatever a door keeps, the image it puts back has its row in place.     *)
LEMMA RestoresKeepTheRow ==
  ASSUME RsIInv, NEW keeps, keeps \subseteq RsCells \ {"mirror"}
  PROVE  RsRestored(keeps) \in Whole
<1>1. CASE rs_img = << >>
  BY <1>1 DEF RsRestored, RsIInv
<1>2. CASE rs_img # << >>
  <2> DEFINE base == [rs_img EXCEPT !.module = rs_mem.module]
             kept == [c \in keeps |-> rs_mem[c]]
  <2>1. rs_img \in Whole /\ rs_mem \in Whole  BY <1>2 DEF RsIInv
  <2>2. base \in Whole
    BY <2>1 DEF Whole, Memories, RsCells, RsRequest
  <2>3. DOMAIN kept \subseteq RsCells \ {"mirror"} /\ \A c \in DOMAIN kept : kept[c] \in RsWords
    BY <2>1 DEF Whole, Memories
  <2>4. RsWrite(base, kept) \in Whole
    <3> HIDE DEF base, kept
    <3> QED  BY <2>2, <2>3, WritesKeepTheRow
  <2> QED  BY <1>2, <2>4 DEF RsRestored
<1> QED  BY <1>1, <1>2

(* A store that the hook drops leaves the memory as it is.                 *)
LEMMA StoresKeepTheRow ==
  ASSUME RsIInv, NEW m \in Whole
  PROVE  RsStored(m) \in Whole
BY DEF RsStored, RsIInv

(* What the doors keep never names the row.                                *)
LEMMA KeepsAreCells ==
  /\ RsKeeps \subseteq RsCells \ {"mirror"}
  /\ RsKitKeeps \subseteq RsCells \ {"mirror"}
  /\ {} \subseteq RsCells \ {"mirror"}
  /\ {"pick", "walk"} \subseteq RsCells \ {"mirror"}
BY DEF RsKitKeeps, RsKeeps, RsLibcd, RsArch, RsCdWait, RsWalk, RsSane, RsCells, RsRequest

LEMMA MemoriesOfDoors ==
  ASSUME RsIInv
  PROVE  /\ RsStored(RsShell(RsRestored({}))) \in Whole
         /\ RsPlain \in Whole
         /\ RsRelayed \in Whole
         /\ RsCleared(RsStored(RsStamped(RsRestored(RsKeeps)))) \in Whole
         /\ RsStored(RsShell(RsSeeded(RsRestored(RsKitKeeps)))) \in Whole
<1>1. RsStored(RsShell(RsRestored({}))) \in Whole
  BY KeepsAreCells, RestoresKeepTheRow, ShellKeepsTheRow, StoresKeepTheRow
<1>2. RsPlain \in Whole
  BY KeepsAreCells, RestoresKeepTheRow, ShellKeepsTheRow, StoresKeepTheRow DEF RsPlain
<1>3. RsRelayed \in Whole
  <2> DEFINE m == RsShell(RsRestored({"pick", "walk"}))
             cells == [index |-> "zero", place |-> "zero"]
  <2>1. m \in Whole  BY KeepsAreCells, RestoresKeepTheRow, ShellKeepsTheRow
  <2>2. DOMAIN cells \subseteq RsCells \ {"mirror"} /\ \A c \in DOMAIN cells : cells[c] \in RsWords
    BY DEF RsCells, RsRequest, RsWords
  <2>3. RsWrite(m, cells) \in Whole
    <3> HIDE DEF m, cells
    <3> QED  BY <2>1, <2>2, WritesKeepTheRow
  <2> QED  BY <2>3, StoresKeepTheRow DEF RsRelayed
<1>4. RsCleared(RsStored(RsStamped(RsRestored(RsKeeps)))) \in Whole
  <2>1. RsRestored(RsKeeps) \in Whole  BY KeepsAreCells, RestoresKeepTheRow
  <2>2. RsStamped(RsRestored(RsKeeps)) \in Whole
    BY <2>1, ShellKeepsTheRow DEF RsStamped, Whole, Memories, RsCells, RsRequest, RsWords
  <2>3. RsStored(RsStamped(RsRestored(RsKeeps))) \in Whole
    BY <2>2, StoresKeepTheRow
  <2> QED
    BY <2>3 DEF RsCleared, Whole, Memories, RsCells, RsRequest, RsWords
<1>5. RsStored(RsShell(RsSeeded(RsRestored(RsKitKeeps)))) \in Whole
  <2>1. RsRestored(RsKitKeeps) \in Whole  BY KeepsAreCells, RestoresKeepTheRow
  <2>2. RsSeeded(RsRestored(RsKitKeeps)) \in Whole
    BY <2>1 DEF RsSeeded, Whole, Memories, RsCells, RsRequest, RsWords
  <2> QED  BY <2>2, ShellKeepsTheRow, StoresKeepTheRow
<1> QED  BY <1>1, <1>2, <1>3, <1>4, <1>5

-----------------------------------------------------------------------------
(* Lives.                                                                  *)

\* What RsRunsOut says of a step.
Runs ==
  /\ \A d \in RsDoors : rs_used'[d] >= rs_used[d]
  /\ RsEnters => rs_used' # rs_used

(* A life used up within the cap is one more, and leaves the signal        *)
(* handler's count at its cap at most.                                     *)
LEMMA LivesAreCounted ==
  ASSUME RsIInv, NEW d \in RsDoors, RsLeft(d) \/ d # "signal"
  PROVE  /\ RsSpent(d) \in Counts
         /\ \A e \in RsDoors : RsSpent(d)[e] >= rs_used[e]
         /\ RsSpent(d) # rs_used
<1>1. rs_used \in [RsDoors -> Nat] /\ rs_caps \in [RsDoors -> Nat]
  BY DEF RsIInv, Counts
<1>2. rs_used["signal"] <= rs_caps["signal"]  BY DEF RsIInv, Counts
<1>3. "signal" \in RsDoors  BY DEF RsDoors
<1>4. RsSpent(d) \in [RsDoors -> Nat]  BY <1>1 DEF RsSpent
<1>5. \A e \in RsDoors : RsSpent(d)[e] = IF e = d THEN rs_used[e] + 1 ELSE rs_used[e]
  BY <1>1 DEF RsSpent
<1>6. RsSpent(d)["signal"] <= rs_caps["signal"]
  BY <1>1, <1>2, <1>3, <1>5 DEF RsLeft
<1>7. RsSpent(d)[d] # rs_used[d]  BY <1>1, <1>5
<1> QED  BY <1>1, <1>4, <1>5, <1>6, <1>7 DEF Counts

(* A longjmp to the anchor that brings a whole memory, and that uses up a  *)
(* life or is one of the two that do not count.                            *)
LEMMA ThroughIsSafe ==
  ASSUME RsIInv, NEW door, NEW m \in Whole, NEW pend, NEW used \in Counts,
         \A d \in RsDoors : used[d] >= rs_used[d],
         used # rs_used \/ door \in {"overrun", "bounce"},
         RsThrough(door, m, pend, used)
  PROVE  RsIInv' /\ Runs
<1>1. rs_used' = used /\ rs_mem' = m /\ rs_door' = door /\ UNCHANGED <<rs_img, rs_caps>>
  BY DEF RsThrough, rs_fixed
<1>2. rs_phase' \in {"lands", "undefined"}  BY DEF RsThrough
<1>3. RsIInv'  BY <1>1 DEF RsIInv, Whole, Counts
<1>4. Runs  BY <1>1, <1>2 DEF Runs, RsEnters
<1> QED  BY <1>3, <1>4

LEMMA DoorIsSafe ==
  ASSUME RsIInv, NEW door \in RsDoors, RsLeft(door) \/ door # "signal",
         NEW m \in Whole, NEW pend,
         RsThrough(door, m, pend, RsSpent(door))
  PROVE  RsIInv' /\ Runs
BY LivesAreCounted, ThroughIsSafe

(* A step that neither opens a door nor touches the memory.                *)
LEMMA RestIsSafe ==
  ASSUME RsIInv, UNCHANGED <<rs_mem, rs_used, rs_img, rs_caps>>,
         ~RsEnters
  PROVE  RsIInv' /\ Runs
<1>1. rs_used \in [RsDoors -> Nat]  BY DEF RsIInv, Counts
<1> QED  BY <1>1 DEF RsIInv, Whole, Counts, Runs

LEMMA DyingIsSafe ==
  ASSUME RsIInv, RsDies
  PROVE  RsIInv' /\ Runs
BY RestIsSafe DEF RsDies, RsEnters, rs_fixed

LEMMA RelayIsSafe ==
  ASSUME RsIInv, RsLeft("relay"), RsRelay
  PROVE  RsIInv' /\ Runs
<1>1. CASE RsLoopsBelow = {}
  BY <1>1, RestIsSafe DEF RsRelay, RsEnters, rs_fixed, rs_relay
<1>2. CASE RsLoopsBelow # {}
  <2>1. /\ rs_used' = RsSpent("relay") /\ rs_mem' = RsRelayed
        /\ UNCHANGED <<rs_img, rs_caps>>
    BY <1>2 DEF RsRelay, rs_fixed
  <2>2. RsSpent("relay") \in Counts /\ RsSpent("relay") # rs_used
        /\ \A e \in RsDoors : RsSpent("relay")[e] >= rs_used[e]
    BY LivesAreCounted DEF RsDoors
  <2> QED  BY <2>1, <2>2, MemoriesOfDoors DEF RsIInv, Whole, Counts, Runs
<1> QED  BY <1>1, <1>2

LEMMA ExitsAreSafe ==
  ASSUME RsIInv, RsRuns, RsExits
  PROVE  RsIInv' /\ Runs
<1>1. CASE UNCHANGED <<rs_mem, rs_used, rs_reboot, rs_fixed>> /\ rs_phase' = "asks"
  BY <1>1, RestIsSafe DEF RsEnters, RsRuns, rs_fixed
<1>2. CASE RsLeft("relay") /\ RsRelay  BY <1>2, RelayIsSafe
<1>3. CASE /\ RsLeft("convert")
           /\ RsThrough("convert", RsStored(RsShell(RsRestored({}))), "main",
                        RsSpent("convert"))
  BY <1>3, DoorIsSafe, MemoriesOfDoors DEF RsDoors
<1>4. CASE RsDies  BY <1>4, DyingIsSafe
<1> QED  BY <1>1, <1>2, <1>3, <1>4 DEF RsExits

LEMMA HaltsAreSafe ==
  ASSUME RsIInv, RsRuns, RsHalts
  PROVE  RsIInv' /\ Runs
<1>1. CASE RsThrough("restart", RsPlain, "main", RsSpent("restart"))
  BY <1>1, DoorIsSafe, MemoriesOfDoors DEF RsDoors
<1>2. CASE RsExits  BY <1>2, ExitsAreSafe
<1> QED  BY <1>1, <1>2 DEF RsHalts

LEMMA GivingUpIsSafe ==
  ASSUME RsIInv, RsRuns, RsGivesUp
  PROVE  RsIInv' /\ Runs
<1>1. CASE RsThrough("unknown", rs_mem, rs_pend, RsSpent("unknown"))
  BY <1>1, DoorIsSafe DEF RsDoors, RsIInv
<1>2. CASE RsHalts  BY <1>2, HaltsAreSafe
<1> QED  BY <1>1, <1>2 DEF RsGivesUp

-----------------------------------------------------------------------------
(* The doors and the loops, one by one.                                    *)

(* The guest writes the row of the index with the index.                   *)
LEMMA WorkIsSafe ==
  ASSUME RsIInv, RsWorks
  PROVE  RsIInv' /\ Runs
<1>1. PICK scene \in RsScenes : rs_mem' = RsWrite(rs_mem, scene.cells)
  BY DEF RsWorks
<1>2. /\ DOMAIN scene.cells \subseteq RsCells \ {"mirror"}
      /\ \A c \in DOMAIN scene.cells : scene.cells[c] \in RsWords
  BY RsAssumption
<1>3. rs_mem' \in Whole  BY <1>1, <1>2, WritesKeepTheRow DEF RsIInv
<1>4. UNCHANGED <<rs_used, rs_img, rs_caps>> /\ ~RsEnters
  BY DEF RsWorks, rs_fixed, RsEnters, RsRuns, rs_relay
<1>5. rs_used \in [RsDoors -> Nat]  BY DEF RsIInv, Counts
<1> QED  BY <1>3, <1>4, <1>5 DEF RsIInv, Whole, Counts, Runs

(* The image is taken of a memory whose row is in place.                   *)
LEMMA EntryIsSafe ==
  ASSUME RsIInv, RsEntersMain
  PROVE  RsIInv' /\ Runs
<1>1. rs_img' = rs_mem /\ UNCHANGED <<rs_mem, rs_used, rs_caps>> /\ ~RsEnters
  BY DEF RsEntersMain, RsEnters, RsRuns
<1>2. rs_used \in [RsDoors -> Nat]  BY DEF RsIInv, Counts
<1> QED  BY <1>1, <1>2 DEF RsIInv, Whole, Counts, Runs

LEMMA UncountedDoorsAreSafe ==
  ASSUME RsIInv, RsUncounted
  PROVE  RsIInv' /\ Runs
<1>1. rs_mem \in Whole /\ rs_used \in Counts /\ \A d \in RsDoors : rs_used[d] >= rs_used[d]
  BY DEF RsIInv, Counts
<1>2. CASE RsThrough("overrun", rs_mem, rs_pend, rs_used)  BY <1>1, <1>2, ThroughIsSafe
<1>3. CASE RsThrough("bounce", rs_mem, "other", rs_used)  BY <1>1, <1>3, ThroughIsSafe
<1>4. CASE RsDies  BY <1>4, DyingIsSafe
<1> QED  BY <1>2, <1>3, <1>4 DEF RsUncounted, RsOverrun, RsBounce

LEMMA CountedDoorsAreSafe ==
  ASSUME RsIInv,
         RsCanary \/ RsAbort \/ RsHalt \/ RsFault \/ RsAbortSignal \/ RsReforce \/ RsExit
  PROVE  RsIInv' /\ Runs
<1>1. rs_mem \in Whole /\ RsRuns
  BY DEF RsIInv, RsCanary, RsAbort, RsHalt, RsFault, RsAbortSignal, RsReforce, RsExit
<1>2. CASE RsCanary
  BY <1>1, <1>2, DoorIsSafe, DyingIsSafe DEF RsCanary, RsDoors
<1>3. CASE RsAbort
  BY <1>3, DoorIsSafe, DyingIsSafe, MemoriesOfDoors DEF RsAbort, RsDoors
<1>4. CASE RsHalt
  BY <1>4, HaltsAreSafe DEF RsHalt
<1>5. CASE RsFault
  BY <1>1, <1>5, DoorIsSafe, ExitsAreSafe, MemoriesOfDoors DEF RsFault, RsDoors
<1>6. CASE RsAbortSignal
  BY <1>1, <1>6, DoorIsSafe, DyingIsSafe DEF RsAbortSignal, RsAborted, RsInHandler, RsDoors
<1>7. CASE RsReforce
  BY <1>1, <1>7, DoorIsSafe DEF RsReforce, RsDoors
<1>8. CASE RsExit
  BY <1>8, ExitsAreSafe DEF RsExit
<1> QED  BY <1>2, <1>3, <1>4, <1>5, <1>6, <1>7, <1>8

(* A count is never above its cap, so none is taken for damage.            *)
LEMMA CrashesAreSafe ==
  ASSUME RsIInv, RsCrash
  PROVE  RsIInv' /\ Runs
<1>1. rs_mem \in Whole  BY DEF RsIInv
<1>2. CASE RsKitDoor
  BY <1>2, DoorIsSafe, DyingIsSafe, MemoriesOfDoors DEF RsKitDoor, RsDoors
<1>3. CASE RsSignalled
  <2> DEFINE n == rs_used["signal"]
  <2>1. n \in Nat /\ rs_caps["signal"] \in Nat /\ n <= rs_caps["signal"]
    BY DEF RsIInv, Counts, RsDoors
  <2>2. RsHealed(n) = n  BY <2>1 DEF RsHealed
  <2>3. [rs_used EXCEPT !["signal"] = n + 1] = RsSpent("signal")  BY DEF RsSpent
  <2>4. CASE n < rs_caps["signal"]
    <3>1. RsLeft("signal")  BY <2>4 DEF RsLeft
    <3>2. RsThrough("signal", rs_mem, rs_pend, RsSpent("signal"))
      BY <1>3, <2>2, <2>3, <2>4 DEF RsSignalled
    <3> QED  BY <1>1, <3>1, <3>2, DoorIsSafe DEF RsDoors
  <2>5. CASE ~(n < rs_caps["signal"])
    BY <1>3, <2>2, <2>5, DyingIsSafe DEF RsSignalled
  <2> QED  BY <2>4, <2>5
<1>4. CASE RsInHandler
  BY <1>1, <1>4, DoorIsSafe, DyingIsSafe DEF RsInHandler, RsDoors
<1> QED  BY <1>2, <1>3, <1>4 DEF RsCrash

(* The program run in place of an unknown word runs on a restored image.   *)
LEMMA UnknownWordsAreSafe ==
  ASSUME RsIInv, RsUnknown
  PROVE  RsIInv' /\ Runs
<1>1. CASE RsGivesUp  BY <1>1, GivingUpIsSafe DEF RsUnknown
<1>2. CASE RsLeft("nested") /\ ~RsGivesUp
  <2>1. /\ rs_used' = RsSpent("nested") /\ rs_mem' = RsShell(RsRestored({}))
        /\ UNCHANGED <<rs_img, rs_caps>>
    BY <1>2 DEF RsUnknown, rs_fixed
  <2>2. RsSpent("nested") \in Counts /\ RsSpent("nested") # rs_used
        /\ \A e \in RsDoors : RsSpent("nested")[e] >= rs_used[e]
    BY LivesAreCounted DEF RsDoors
  <2>3. RsShell(RsRestored({})) \in Whole
    BY KeepsAreCells, RestoresKeepTheRow, ShellKeepsTheRow
  <2> QED  BY <2>1, <2>2, <2>3 DEF RsIInv, Whole, Counts, Runs
<1> QED  BY <1>1, <1>2 DEF RsUnknown

LEMMA BootIsSafe ==
  ASSUME RsIInv, RsBoot, rs_phase \in {"lands", "runs"}
  PROVE  RsIInv' /\ Runs
<1>1. RsBooted \in Whole
  BY DEF RsBooted, RsIInv, Whole, Memories, RsCells, RsRequest, RsWords
<1>2. rs_mem' = RsBooted /\ UNCHANGED <<rs_used, rs_img, rs_caps>> /\ ~RsEnters
  BY DEF RsBoot, RsEnters
<1>3. rs_used \in [RsDoors -> Nat]  BY DEF RsIInv, Counts
<1> QED  BY <1>1, <1>2, <1>3 DEF RsIInv, Whole, Counts, Runs

LEMMA LandingIsSafe ==
  ASSUME RsIInv, RsLands
  PROVE  RsIInv' /\ Runs
<1>1. rs_phase = "lands"  BY DEF RsLands
<1>2. ~RsEnters  BY <1>1 DEF RsEnters
<1>3. CASE RsBoot  BY <1>1, <1>3, BootIsSafe
<1>4. CASE /\ RsBypasses
           /\ RsDispatches(RsStored([rs_mem EXCEPT !.pick = "field"]), RsSpent("bypass"))
  <2>1. [rs_mem EXCEPT !.pick = "field"] \in Whole
    BY DEF RsIInv, Whole, Memories, RsCells, RsRequest, RsWords
  <2>2. RsStored([rs_mem EXCEPT !.pick = "field"]) \in Whole
    BY <2>1, StoresKeepTheRow
  <2>3. RsSpent("bypass") \in Counts
        /\ \A e \in RsDoors : RsSpent("bypass")[e] >= rs_used[e]
    BY LivesAreCounted DEF RsDoors
  <2> QED  BY <1>2, <1>4, <2>2, <2>3 DEF RsDispatches, rs_fixed, RsIInv, Whole, Counts, Runs
<1>5. CASE RsDispatches(rs_mem, rs_used)
  BY <1>2, <1>5, RestIsSafe DEF RsDispatches, rs_fixed
<1> QED  BY <1>3, <1>4, <1>5 DEF RsLands

LEMMA ReturnsAreSafe ==
  ASSUME RsIInv, RsReturns
  PROVE  RsIInv' /\ Runs
<1>1. CASE RsReturnsFromLife
  BY <1>1, BootIsSafe DEF RsReturnsFromLife, RsRuns
<1>2. CASE RsReturnsFromBoot
  <2>1. CASE /\ RsLeft("again") /\ rs_used' = RsSpent("again")
             /\ UNCHANGED <<rs_mem, rs_img, rs_caps>>
    <3>1. RsSpent("again") \in Counts /\ RsSpent("again") # rs_used
          /\ \A e \in RsDoors : RsSpent("again")[e] >= rs_used[e]
      BY LivesAreCounted DEF RsDoors
    <3> QED  BY <2>1, <3>1 DEF RsIInv, Whole, Counts, Runs
  <2>2. CASE /\ rs_phase' = "asks"
             /\ UNCHANGED <<rs_mem, rs_used, rs_img, rs_caps, rs_reboot>>
    BY <1>2, <2>2, RestIsSafe DEF RsReturnsFromBoot, RsRuns, RsEnters
  <2> QED  BY <1>2, <2>1, <2>2 DEF RsReturnsFromBoot, rs_fixed, rs_relay
<1>3. CASE RsReturnsFromNested
  BY <1>3, GivingUpIsSafe DEF RsReturnsFromNested
<1>4. CASE RsReturnsFromLoop
  BY <1>4, RestIsSafe DEF RsReturnsFromLoop, RsEnters, RsRuns, rs_fixed
<1> QED  BY <1>1, <1>2, <1>3, <1>4 DEF RsReturns

(* The loop calls the program again on a restored image.                   *)
LEMMA LoopsAreSafe ==
  ASSUME RsIInv, RsLoops
  PROVE  RsIInv' /\ Runs
<1> DEFINE m == RsShell(RsRestored({"pick", "walk"}))
<1>1. m \in Whole  BY KeepsAreCells, RestoresKeepTheRow, ShellKeepsTheRow
<1>2. [m EXCEPT !.heap = IF @ = "image" THEN "live" ELSE @] \in Whole
  <2> HIDE DEF m
  <2> QED  BY <1>1 DEF Whole, Memories, RsCells, RsRequest, RsWords
<1>3. RsSpent("loop") \in Counts /\ RsSpent("loop") # rs_used
      /\ \A e \in RsDoors : RsSpent("loop")[e] >= rs_used[e]
  BY LivesAreCounted DEF RsDoors
<1>4. /\ rs_used' = RsSpent("loop") /\ UNCHANGED <<rs_img, rs_caps>>
      /\ rs_mem' = [m EXCEPT !.heap = IF @ = "image" THEN "live" ELSE @]
  BY DEF RsLoops, rs_fixed
<1> HIDE DEF m
<1> QED  BY <1>2, <1>3, <1>4 DEF RsIInv, Whole, Counts, Runs

-----------------------------------------------------------------------------
LEMMA IInvStarts == RsInit => RsIInv
<1> SUFFICES ASSUME RsInit PROVE RsIInv  OBVIOUS
<1>1. rs_mem \in Whole
  BY DEF RsInit, Whole, Memories, RsCells, RsRequest, RsWords
<1>2. rs_caps \in [RsDoors -> Nat]  BY RsAssumption DEF RsInit
<1>3. rs_used \in Counts
  BY <1>2 DEF RsInit, Counts, RsDoors
<1> QED  BY <1>1, <1>2, <1>3 DEF RsInit, RsIInv

LEMMA StepsAreSafe ==
  ASSUME RsIInv, [RsNext]_rs_vars
  PROVE  RsIInv' /\ Runs
<1>1. CASE RsWorks  BY <1>1, WorkIsSafe
<1>2. CASE RsEntersMain  BY <1>2, EntryIsSafe
<1>3. CASE RsReinstalls
  BY <1>3, RestIsSafe DEF RsReinstalls, RsEnters, RsRuns
<1>4. CASE RsDoorsTaken
  BY <1>4, UncountedDoorsAreSafe, CountedDoorsAreSafe, CrashesAreSafe, UnknownWordsAreSafe
     DEF RsDoorsTaken
<1>5. CASE RsReturns  BY <1>5, ReturnsAreSafe
<1>6. CASE RsLands  BY <1>6, LandingIsSafe
<1>7. CASE RsLoops  BY <1>7, LoopsAreSafe
<1>8. CASE RsStops  BY <1>8, DyingIsSafe DEF RsStops
<1>9. CASE RsTimePasses
  BY <1>9, RestIsSafe DEF RsTimePasses, RsEnters, rs_fixed
<1>10. CASE UNCHANGED rs_vars
  BY <1>10, RestIsSafe DEF rs_vars, rs_fixed, RsEnters, rs_relay
<1> QED
  BY <1>1, <1>2, <1>3, <1>4, <1>5, <1>6, <1>7, <1>8, <1>9, <1>10 DEF RsNext

(* Whatever door a life begins through and whatever was restored for it,   *)
(* the row that the dispatcher reads is that of the state requested.       *)
THEOREM RowsFollowTheIndex == RsSpec => []RsRowFollows
<1>1. RsInit => RsIInv  BY IInvStarts
<1>2. RsIInv /\ [RsNext]_rs_vars => RsIInv'  BY StepsAreSafe
<1>3. RsIInv => RsRowFollows  BY DEF RsIInv, Whole, RsRowFollows
<1> QED  BY <1>1, <1>2, <1>3, PTL DEF RsSpec

(* No life of any door is given back, and every way from the guest to the  *)
(* anchor, from the exit handler into the guest and out of it by the relay *)
(* uses one up, the two doors without a count excepted: the lives of the   *)
(* doors bound the restarts whatever the caps are.                         *)
THEOREM LivesRunOut == RsSpec => RsRunsOut
<1>1. RsInit => RsIInv  BY IInvStarts
<1>2. RsIInv /\ [RsNext]_rs_vars => RsIInv'  BY StepsAreSafe
<1>3. RsIInv /\ [RsNext]_rs_vars =>
        [/\ \A d \in RsDoors : rs_used'[d] >= rs_used[d]
         /\ RsEnters => rs_used' # rs_used]_rs_vars
  BY StepsAreSafe DEF Runs
<1> QED  BY <1>1, <1>2, <1>3, PTL DEF RsSpec, RsRunsOut

-----------------------------------------------------------------------------
(* The emitter's chunks.                                                   *)

LEMMA OwnerIs ==
  ASSUME NEW S \in SUBSET GrWords, 1 \in S, NEW a \in GrWords
  PROVE  /\ GrOwner(S, a) \in S /\ GrOwner(S, a) <= a
         /\ \A t \in S : t <= a => t <= GrOwner(S, a)
<1> DEFINE T == {a - s : s \in {s \in S : s <= a}}
<1>1. /\ GrLast \in Nat \ {0} /\ a \in 1..GrLast /\ \A s \in S : s \in 1..GrLast
  BY GrAssumption DEF GrWords
<1>2. T \in SUBSET Nat /\ T # {}
  <2>1. 1 <= a  BY <1>1
  <2> QED  BY <1>1, <2>1
<1>3. PICK d \in T : \A e \in T : d <= e
  <2> HIDE DEF T
  <2> QED  BY <1>2, LeastNumber
<1>4. PICK s \in S : s <= a /\ d = a - s
  BY <1>3
<1>5. ASSUME NEW t \in S, t <= a  PROVE t <= s
  <2>1. a - t \in T  BY <1>5
  <2> QED  BY <1>1, <1>3, <1>4, <2>1
<1>6. \E o \in S : o <= a /\ \A t \in S : t <= a => t <= o
  BY <1>4, <1>5
<1> QED  BY <1>6 DEF GrOwner

LEMMA OwnsItself ==
  ASSUME NEW S \in SUBSET GrWords, 1 \in S, NEW a \in S
  PROVE  GrOwner(S, a) = a
<1>1. a \in 1..GrLast /\ GrOwner(S, a) \in 1..GrLast /\ GrLast \in Nat
  BY GrAssumption, OwnerIs DEF GrWords
<1> QED  BY <1>1, OwnerIs DEF GrWords

LEMMA OwnedByOne ==
  ASSUME NEW S \in SUBSET GrWords, 1 \in S,
         NEW a \in GrWords, a + 1 \in GrWords, a + 1 \notin S
  PROVE  GrOwner(S, a) = GrOwner(S, a + 1)
<1> DEFINE o == GrOwner(S, a)
           p == GrOwner(S, a + 1)
<1>1. /\ a \in Int /\ o \in S /\ p \in S /\ o \in Int /\ p \in Int
      /\ o <= a /\ p <= a + 1
      /\ \A t \in S : t <= a => t <= o
      /\ \A t \in S : t <= a + 1 => t <= p
  <2>1. /\ o \in S /\ o <= a /\ \A t \in S : t <= a => t <= o
    BY OwnerIs
  <2>2. /\ p \in S /\ p <= a + 1 /\ \A t \in S : t <= a + 1 => t <= p
    BY OwnerIs
  <2>3. \A t \in GrWords : t \in Int
    BY DEF GrWords
  <2> QED  BY <2>1, <2>2, <2>3
<1> HIDE DEF o, p
<1>2. p # a + 1
  BY <1>1
<1>3. p <= a
  BY <1>1, <1>2
<1>4. p <= o /\ o <= p
  BY <1>1, <1>3
<1>5. o = p
  BY <1>1, <1>4
<1> QED  BY <1>5 DEF o, p

\* What the loop of the emitter ends with: nothing is left to split.
GrSplit(code, S) ==
  /\ S \subseteq GrWords /\ GrFunctions(code) \subseteq S
  /\ GrSplits(code, S) = {}

LEMMA SplitsAreNew ==
  ASSUME NEW code, NEW S
  PROVE  GrSplits(code, S) \subseteq GrWords /\ GrSplits(code, S) \cap S = {}
BY DEF GrSplits

GrLine(code, S, f) ==
  /\ f \in [0..GrLast -> SUBSET GrWords] /\ f[0] = S
  /\ \A n \in 1..GrLast : f[n] = f[n - 1] \cup GrSplits(code, f[n - 1])

LEMMA LineExists ==
  ASSUME NEW code, NEW S \in SUBSET GrWords
  PROVE  \E f : GrLine(code, S, f)
<1> DEFINE G == [X \in SUBSET GrWords |-> X \cup GrSplits(code, X)]
           F == [n \in 1..GrLast |-> G]
<1>1. GrLast \in Nat
  BY GrAssumption
<1>2. G \in [SUBSET GrWords -> SUBSET GrWords]
  BY SplitsAreNew
<1>3. F \in [1..GrLast -> [SUBSET GrWords -> SUBSET GrWords]]
  <2> HIDE DEF G
  <2> QED  BY <1>2
<1>4. FromHere(S, F, SUBSET GrWords, GrLast)
  <2> HIDE DEF F
  <2> QED  BY <1>1, <1>3, RecursionReaches
<1>5. PICK f \in [0..GrLast -> SUBSET GrWords] :
        f[0] = S /\ \A n \in 1..GrLast : f[n] = F[n][f[n - 1]]
  <2> HIDE DEF F
  <2> QED  BY <1>4 DEF FromHere
<1>6. ASSUME NEW n \in 1..GrLast  PROVE f[n] = f[n - 1] \cup GrSplits(code, f[n - 1])
  <2>1. n - 1 \in 0..GrLast
    BY <1>1
  <2>2. f[n - 1] \in SUBSET GrWords /\ f[n] = F[n][f[n - 1]]
    BY <1>5, <2>1
  <2>3. F[n] = G
    OBVIOUS
  <2> HIDE DEF F
  <2> QED  BY <2>2, <2>3
<1> QED  BY <1>5, <1>6 DEF GrLine

LEMMA LineEnds ==
  ASSUME NEW code, NEW S \in SUBSET GrWords, NEW f, GrLine(code, S, f)
  PROVE  /\ S \subseteq f[GrLast] /\ f[GrLast] \subseteq GrWords
         /\ GrSplits(code, f[GrLast]) = {}
<1> DEFINE K == GrLast
           T == {n \in 0..K : /\ S \subseteq f[n]
                              /\ GrSplits(code, f[n]) = {} \/ Cardinality(f[n]) >= n}
<1>1. K \in Nat /\ IsFiniteSet(GrWords) /\ Cardinality(GrWords) = K
  BY GrAssumption, FS_Interval DEF GrWords
<1>2. \A n \in 0..K : f[n] \subseteq GrWords /\ IsFiniteSet(f[n]) /\ Cardinality(f[n]) \in Nat
  BY <1>1, FS_Subset, FS_CardinalityType DEF GrLine
<1>3. 0 \in T
  <2>1. f[0] = S /\ 0 \in 0..K
    BY <1>1 DEF GrLine
  <2>2. Cardinality(f[0]) >= 0
    BY <1>2, <2>1
  <2> QED  BY <2>1, <2>2
<1>4. ASSUME NEW n \in 1..K, n - 1 \in T  PROVE n \in T
  <2> DEFINE X == f[n - 1]
             Y == f[n]
  <2>1. /\ n - 1 \in 0..K /\ n \in 0..K /\ Y = X \cup GrSplits(code, X) /\ S \subseteq X
        /\ GrSplits(code, X) = {} \/ Cardinality(X) >= n - 1
    BY <1>1, <1>4 DEF GrLine
  <2>2. /\ IsFiniteSet(X) /\ Cardinality(X) \in Nat /\ IsFiniteSet(Y) /\ Cardinality(Y) \in Nat
    BY <1>2, <2>1
  <2> HIDE DEF X, Y
  <2>3. CASE GrSplits(code, X) = {}
    <3>1. Y = X
      BY <2>1, <2>3
    <3> QED  BY <2>1, <2>3, <3>1 DEF X, Y
  <2>4. CASE GrSplits(code, X) # {}
    <3>1. PICK t \in GrSplits(code, X) : t \notin X
      BY <2>4, SplitsAreNew
    <3>2. IsFiniteSet(X \cup {t}) /\ Cardinality(X \cup {t}) = Cardinality(X) + 1
      BY <2>2, <3>1, FS_AddElement
    <3>3. Cardinality(X \cup {t}) <= Cardinality(Y)
      <4>1. X \cup {t} \subseteq Y
        BY <2>1, <3>1
      <4> QED  BY <2>2, <4>1, FS_Subset
    <3>4. Cardinality(Y) >= n
      BY <2>1, <2>2, <2>4, <3>2, <3>3
    <3> QED  BY <2>1, <3>4 DEF Y
  <2> QED  BY <2>3, <2>4
<1>5. K \in T
  <2> HIDE DEF T
  <2>1. Inductive(T, K) /\ K \in 0..K
    BY <1>1, <1>3, <1>4 DEF Inductive
  <2> QED  BY <1>1, <2>1, StepsReach
<1>6. CASE Cardinality(f[K]) >= K
  <2>1. f[K] \subseteq GrWords /\ Cardinality(f[K]) \in Nat
    BY <1>2, <1>5
  <2>2. Cardinality(f[K]) <= Cardinality(GrWords)
    BY <1>1, <2>1, FS_Subset
  <2>3. f[K] = GrWords
    BY <1>1, <1>6, <2>1, <2>2, FS_Subset
  <2> QED  BY <1>5, <2>3, SplitsAreNew
<1> QED  BY <1>2, <1>5, <1>6

LEMMA LinesMeet ==
  ASSUME NEW code, NEW S \in SUBSET GrWords, NEW f, GrLine(code, S, f),
         NEW g, GrLine(code, S \cup GrSplits(code, S), g)
  PROVE  f[GrLast] = g[GrLast]
<1> DEFINE K == GrLast
           T == {n \in 0..K : n > 0 => g[n - 1] = f[n]}
<1>1. K \in Nat /\ K > 0
  BY GrAssumption
<1>2. 0 \in T
  BY <1>1
<1>3. ASSUME NEW n \in 1..K, n - 1 \in T  PROVE n \in T
  <2>1. n \in 0..K /\ f[n] = f[n - 1] \cup GrSplits(code, f[n - 1])
    BY <1>1 DEF GrLine
  <2>2. CASE n = 1
    <3>1. f[0] = S /\ g[0] = S \cup GrSplits(code, S) /\ n - 1 = 0
      BY <2>2 DEF GrLine
    <3> QED  BY <2>1, <2>2, <3>1
  <2>3. CASE n # 1
    <3>1. n - 1 \in 1..K /\ n - 1 > 0 /\ g[n - 2] = f[n - 1] /\ (n - 1) - 1 = n - 2
      <4>1. n - 1 \in 1..K /\ n - 1 > 0 /\ (n - 1) - 1 = n - 2
        BY <1>1, <2>3
      <4>2. g[(n - 1) - 1] = f[n - 1]
        BY <1>3, <4>1
      <4> QED  BY <4>1, <4>2
    <3>2. g[n - 1] = g[n - 2] \cup GrSplits(code, g[n - 2])
      BY <3>1 DEF GrLine
    <3> QED  BY <2>1, <3>1, <3>2
  <2> QED  BY <2>2, <2>3
<1>4. K \in T
  <2> HIDE DEF T
  <2>1. Inductive(T, K) /\ K \in 0..K
    BY <1>1, <1>2, <1>3 DEF Inductive
  <2> QED  BY <1>1, <2>1, StepsReach
<1>5. g[K - 1] = f[K] /\ GrSplits(code, f[K]) = {}
  BY <1>1, <1>4, LineEnds
<1>6. g[K] = g[K - 1] \cup GrSplits(code, g[K - 1])
  BY <1>1 DEF GrLine
<1> QED  BY <1>5, <1>6

LEMMA LineRests ==
  ASSUME NEW code, NEW S \in SUBSET GrWords, NEW f, GrLine(code, S, f), GrSplits(code, S) = {}
  PROVE  f[GrLast] = S
<1> DEFINE T == {n \in 0..GrLast : f[n] = S}
<1>1. GrLast \in Nat
  BY GrAssumption
<1>2. 0 \in T
  BY <1>1 DEF GrLine
<1>3. ASSUME NEW n \in 1..GrLast, n - 1 \in T  PROVE n \in T
  <2>1. n \in 0..GrLast /\ f[n] = f[n - 1] \cup GrSplits(code, f[n - 1])
    BY <1>1 DEF GrLine
  <2> QED  BY <1>3, <2>1
<1>4. GrLast \in T
  <2> HIDE DEF T
  <2>1. Inductive(T, GrLast) /\ GrLast \in 0..GrLast
    BY <1>1, <1>2, <1>3 DEF Inductive
  <2> QED  BY <1>1, <2>1, StepsReach
<1> QED  BY <1>4

GrRound(code, r) ==
  r = [S \in SUBSET GrWords |->
         LET splits == GrSplits(code, S)
         IN IF splits = {} THEN S ELSE r[S \cup splits]]

LEMMA RoundExists ==
  ASSUME NEW code
  PROVE  \E r : GrRound(code, r)
<1> DEFINE Line(S) == CHOOSE f : GrLine(code, S, f)
           r == [S \in SUBSET GrWords |-> Line(S)[GrLast]]
<1>1. ASSUME NEW S \in SUBSET GrWords  PROVE GrLine(code, S, Line(S))
  BY LineExists
<1>2. ASSUME NEW S \in SUBSET GrWords
      PROVE  r[S] = IF GrSplits(code, S) = {} THEN S ELSE r[S \cup GrSplits(code, S)]
  <2> DEFINE X == S \cup GrSplits(code, S)
  <2>1. X \in SUBSET GrWords
    BY SplitsAreNew
  <2>2. r[S] = Line(S)[GrLast] /\ r[X] = Line(X)[GrLast]
    BY <2>1
  <2>3. GrLine(code, S, Line(S)) /\ GrLine(code, X, Line(X))
    BY <1>1, <2>1
  <2> HIDE DEF Line, r
  <2>4. Line(S)[GrLast] = Line(X)[GrLast]
    BY <2>3, LinesMeet
  <2>5. GrSplits(code, S) = {} => Line(S)[GrLast] = S
    BY <2>3, LineRests
  <2> HIDE DEF X
  <2> QED  BY <2>2, <2>4, <2>5 DEF X
<1>3. r = [S \in SUBSET GrWords |->
             LET splits == GrSplits(code, S)
             IN IF splits = {} THEN S ELSE r[S \cup splits]]
  <2>1. r = [S \in SUBSET GrWords |-> r[S]]
    OBVIOUS
  <2> HIDE DEF r
  <2> QED  BY <1>2, <2>1
<1> QED  BY <1>3 DEF GrRound

LEMMA RoundEnds ==
  ASSUME NEW code, NEW r, GrRound(code, r), NEW S \in SUBSET GrWords
  PROVE  /\ S \subseteq r[S] /\ r[S] \subseteq GrWords
         /\ GrSplits(code, r[S]) = {}
<1>1. PICK f : GrLine(code, S, f)
  BY LineExists
<1> DEFINE K == GrLast
           T == {n \in 0..K : r[f[n]] = r[S]}
<1>2. K \in Nat
  BY GrAssumption
<1>3. 0 \in T
  BY <1>1, <1>2 DEF GrLine
<1>4. ASSUME NEW n \in 1..K, n - 1 \in T  PROVE n \in T
  <2> DEFINE X == f[n - 1]
  <2>1. n \in 0..K /\ n - 1 \in 0..K /\ f[n] = X \cup GrSplits(code, X) /\ X \in SUBSET GrWords
    BY <1>1, <1>2 DEF GrLine
  <2>2. r[X] = r[S]
    BY <1>4
  <2> HIDE DEF X
  <2>3. r[X] = IF GrSplits(code, X) = {} THEN X ELSE r[X \cup GrSplits(code, X)]
    BY <2>1 DEF GrRound
  <2>4. r[f[n]] = r[X]
    <3>1. CASE GrSplits(code, X) = {}
      <4>1. f[n] = X
        BY <2>1, <3>1
      <4> QED  BY <4>1
    <3>2. CASE GrSplits(code, X) # {}
      BY <2>1, <2>3, <3>2
    <3> QED  BY <3>1, <3>2
  <2> QED  BY <2>1, <2>2, <2>4
<1>5. K \in T
  <2> HIDE DEF T
  <2>1. Inductive(T, K) /\ K \in 0..K
    BY <1>2, <1>3, <1>4 DEF Inductive
  <2> QED  BY <1>2, <2>1, StepsReach
<1>6. S \subseteq f[K] /\ f[K] \subseteq GrWords /\ GrSplits(code, f[K]) = {}
  BY <1>1, LineEnds
<1>7. r[f[K]] = f[K]
  BY <1>6 DEF GrRound
<1> QED  BY <1>5, <1>6, <1>7

(* The loop of emit that splits chunks ends, whatever the program is, and  *)
(* leaves no word inside a chunk that flow from another chunk reaches: a   *)
(* goto never needs a label of another C function.                         *)
THEOREM StartsSplit ==
  ASSUME NEW code, GrFunctions(code) \subseteq GrWords
  PROVE  GrSplit(code, GrStarts(code))
<1> DEFINE round == CHOOSE r : GrRound(code, r)
<1>1. GrRound(code, round)
  BY RoundExists
<1>2. GrStarts(code) = round[GrFunctions(code)]
  BY DEF GrStarts, GrRound
<1> HIDE DEF round
<1> QED  BY <1>1, <1>2, RoundEnds DEF GrSplit

LEMMA FlowStays ==
  ASSUME NEW code, NEW S, GrSplit(code, S), NEW a \in GrWords,
         NEW t \in GrWords, t \in GrFlow(code, a), t \notin S
  PROVE  GrOwner(S, a) = GrOwner(S, t)
<1> DEFINE owner == [x \in GrWords |-> GrOwner(S, x)]
<1>1. ASSUME owner[t] # owner[a]  PROVE FALSE
  <2>1. t \in UNION {GrFlow(code, x) : x \in GrWords}
    OBVIOUS
  <2>2. t \in GrSplits(code, S)
    BY <1>1, <2>1 DEF GrSplits
  <2> QED  BY <2>2 DEF GrSplit
<1> QED  BY <1>1

-----------------------------------------------------------------------------
(* The C stack and the calls of the guest: each frame but the top one      *)
(* stands where the call that the next one serves returns to; a frame of   *)
(* the interpreter may hold calls of its own, all inside the window.       *)

GrFrames == [how : {"code", "interp"}, at : Int, ra : Int]

GrTaken(b, a) ==
  /\ a > 1 /\ a - 1 \in GrWords /\ b.code[a - 1].op \in Cpu!CpuSlotted
  /\ GrOwner(b.starts, a) = GrOwner(b.starts, a - 1)

\* The frame f serves the call lo and those up to hi.
GrServes(b, f, ca, lo, hi) ==
  \/ /\ f.how = "code" /\ hi = lo + 1
     /\ ~GrTaken(b, f.at) /\ (GrStale(b) => f.at \notin GrWindow)
  \/ /\ f.how = "interp" /\ GrStale(b)
     /\ f.ra = ca[lo] /\ ca[lo] \notin GrWindow
     /\ \A j \in (lo + 1)..(hi - 1) : ca[j] \in GrWindow

GrFits(b, fr, ca, base) ==
  /\ fr \in Seq(GrFrames) /\ ca \in Seq(Int)
  /\ base \in [1..(Len(fr) + 1) -> Nat]
  /\ base[1] = 1 /\ base[Len(fr) + 1] = Len(ca) + 1
  /\ \A i, j \in 1..(Len(fr) + 1) : i < j => base[i] < base[j]
  /\ Len(fr) > 0 => ca[1] = GrLast + 1
  /\ \A i \in 2..Len(fr) : fr[i - 1].at = ca[base[i]]
  /\ \A i \in 1..Len(fr) : GrServes(b, fr[i], ca, base[i], base[i + 1])

GrStacked(b, fr, ca) == \E base : GrFits(b, fr, ca, base)

LEMMA ServesOn ==
  ASSUME NEW b, NEW f, NEW lo \in Nat, NEW hi \in Nat, lo < hi, NEW ca, NEW cb,
         GrServes(b, f, ca, lo, hi), \A j \in lo..(hi - 1) : cb[j] = ca[j]
  PROVE  GrServes(b, f, cb, lo, hi)
<1>1. lo \in lo..(hi - 1) /\ \A j \in (lo + 1)..(hi - 1) : j \in lo..(hi - 1)
  OBVIOUS
<1> QED  BY <1>1 DEF GrServes

LEMMA Bases ==
  ASSUME NEW b, NEW fr, NEW ca, NEW base, GrFits(b, fr, ca, base), NEW i \in 1..Len(fr)
  PROVE  /\ Len(fr) \in Nat /\ Len(ca) \in Nat /\ i + 1 \in 1..(Len(fr) + 1)
         /\ base[i] \in 1..Len(ca) /\ base[i + 1] \in Nat
         /\ base[i] < base[i + 1] /\ base[i + 1] <= Len(ca) + 1
<1>1. Len(fr) \in Nat /\ Len(ca) \in Nat
  BY DEF GrFits
<1>2. /\ i \in 1..(Len(fr) + 1) /\ i + 1 \in 1..(Len(fr) + 1)
      /\ 1 \in 1..(Len(fr) + 1) /\ Len(fr) + 1 \in 1..(Len(fr) + 1)
      /\ i < i + 1 /\ i < Len(fr) + 1 /\ (i = 1 \/ 1 < i) /\ (i + 1 = Len(fr) + 1 \/ i + 1 < Len(fr) + 1)
  BY <1>1
<1>3. /\ base[i] \in Nat /\ base[i + 1] \in Nat /\ base[1] = 1 /\ base[Len(fr) + 1] = Len(ca) + 1
  BY <1>2 DEF GrFits
<1>4. base[i] < base[i + 1] /\ base[i] < base[Len(fr) + 1]
  BY <1>2 DEF GrFits
<1>5. base[i] >= 1
  BY <1>2, <1>3 DEF GrFits
<1>6. base[i + 1] <= base[Len(fr) + 1]
  <2>1. i + 1 < Len(fr) + 1 => base[i + 1] < base[Len(fr) + 1]
    BY <1>2 DEF GrFits
  <2>2. base[Len(fr) + 1] \in Nat
    BY <1>1, <1>3
  <2> QED  BY <1>2, <1>3, <2>1, <2>2
<1> QED  BY <1>1, <1>2, <1>3, <1>4, <1>5, <1>6

\* Another frame at the top, for the same call.
LEMMA TopReplaced ==
  ASSUME NEW b, NEW fr, NEW ca, NEW base, GrFits(b, fr, ca, base), Len(fr) > 0,
         NEW h \in Seq(GrFrames), Len(h) = Len(fr),
         \A i \in 1..(Len(fr) - 1) : h[i] = fr[i],
         GrServes(b, h[Len(fr)], ca, base[Len(fr)], base[Len(fr) + 1])
  PROVE  GrStacked(b, h, ca)
<1> DEFINE n == Len(fr)
<1>1. n \in Nat /\ Len(h) = n
  BY DEF GrFits
<1>2. ASSUME NEW i \in 1..n  PROVE GrServes(b, h[i], ca, base[i], base[i + 1])
  <2>1. i = n \/ i \in 1..(n - 1)
    BY <1>1
  <2>2. CASE i \in 1..(n - 1)
    BY <2>2 DEF GrFits
  <2> QED  BY <2>1, <2>2
<1>3. ASSUME NEW i \in 2..n  PROVE h[i - 1].at = ca[base[i]]
  <2>1. i - 1 \in 1..(n - 1)
    BY <1>1
  <2> QED  BY <2>1 DEF GrFits
<1>4. GrFits(b, h, ca, base)
  BY <1>1, <1>2, <1>3 DEF GrFits
<1> QED  BY <1>4 DEF GrStacked

\* A call that has a frame of its own.
LEMMA TopCalled ==
  ASSUME NEW b, NEW fr, NEW ca, NEW base, GrFits(b, fr, ca, base), Len(fr) > 0,
         NEW r \in Int, NEW cb \in Seq(Int), Len(cb) = Len(ca) + 1,
         cb[Len(ca) + 1] = r, \A j \in 1..Len(ca) : cb[j] = ca[j],
         NEW h \in Seq(GrFrames), Len(h) = Len(fr) + 1,
         \A i \in 1..(Len(fr) - 1) : h[i] = fr[i],
         GrServes(b, h[Len(fr)], ca, base[Len(fr)], base[Len(fr) + 1]),
         h[Len(fr)].at = r,
         GrServes(b, h[Len(fr) + 1], cb, Len(ca) + 1, Len(ca) + 2)
  PROVE  GrStacked(b, h, cb)
<1> DEFINE n == Len(fr)
           m == Len(ca)
           based == [i \in 1..(n + 2) |-> IF i = n + 2 THEN m + 2 ELSE base[i]]
<1>1. n \in Nat /\ m \in Nat /\ ca \in Seq(Int) /\ base \in [1..(n + 1) -> Nat] /\ base[n + 1] = m + 1
  BY DEF GrFits
<1>2. /\ cb \in Seq(Int) /\ Len(cb) = m + 1 /\ cb[m + 1] = r
      /\ \A j \in 1..m : cb[j] = ca[j]
  OBVIOUS
<1>3. /\ based[n + 2] = m + 2 /\ \A i \in 1..(n + 1) : based[i] = base[i]
      /\ \A i \in 1..(n + 2) : i = n + 2 \/ i \in 1..(n + 1)
      /\ based \in [1..(n + 2) -> Nat]
  BY <1>1
<1> HIDE DEF based
<1>4. ASSUME NEW i \in 1..(n + 2), NEW j \in 1..(n + 2), i < j
      PROVE  based[i] < based[j]
  <2>1. i \in 1..(n + 1)
    <3>1. n + 2 \in Nat
      BY <1>1
    <3> QED  BY <1>1, <1>4, <3>1
  <2>2. CASE j \in 1..(n + 1)
    <3>1. base[i] < base[j]
      BY <1>4, <2>1, <2>2 DEF GrFits
    <3> QED  BY <1>3, <2>1, <2>2, <3>1
  <2>3. CASE j = n + 2
    <3>1. base[i] \in Nat /\ base[i] <= m + 1
      <4>1. i = n + 1 \/ i \in 1..n
        BY <1>1, <2>1
      <4>2. i \in 1..n => base[i] \in 1..m
        BY Bases
      <4> HIDE DEF m
      <4> QED  BY <1>1, <4>1, <4>2
    <3> QED  BY <1>1, <1>3, <2>1, <2>3, <3>1
  <2> QED  BY <1>3, <2>2, <2>3
<1>5. ASSUME NEW i \in 1..(n + 1)  PROVE GrServes(b, h[i], cb, based[i], based[i + 1])
  <2>1. CASE i = n + 1
    <3>1. based[i] = m + 1 /\ based[i + 1] = m + 2
      <4>1. i \in 1..(n + 1) /\ i + 1 = n + 2
        BY <1>1, <2>1
      <4> HIDE DEF n, m
      <4> QED  BY <1>1, <1>3, <2>1, <4>1
    <3> QED  BY <2>1, <3>1
  <2>2. CASE i \in 1..n
    <3>1. /\ based[i] = base[i] /\ based[i + 1] = base[i + 1] /\ base[i] \in 1..m
          /\ base[i + 1] \in Nat /\ base[i] < base[i + 1] /\ base[i + 1] <= m + 1
      BY <1>1, <1>3, <2>2, Bases
    <3>2. GrServes(b, h[i], ca, base[i], base[i + 1])
      <4>1. i = n \/ i \in 1..(n - 1)
        BY <1>1, <2>2
      <4>2. CASE i \in 1..(n - 1)
        BY <4>2 DEF GrFits
      <4> QED  BY <4>1, <4>2
    <3>3. \A j \in base[i]..(base[i + 1] - 1) : cb[j] = ca[j]
      BY <1>1, <1>2, <3>1
    <3>4. GrServes(b, h[i], cb, base[i], base[i + 1])
      <4>1. base[i] \in Nat
        BY <3>1
      <4> QED  BY <3>1, <3>2, <3>3, <4>1, ServesOn
    <3> QED  BY <3>1, <3>4
  <2>3. i = n + 1 \/ i \in 1..n
    BY <1>1
  <2> QED  BY <2>1, <2>2, <2>3
<1>6. ASSUME NEW i \in 2..(n + 1)  PROVE h[i - 1].at = cb[based[i]]
  <2>1. CASE i = n + 1
    <3>1. based[i] = m + 1 /\ i - 1 = n
      BY <1>1, <1>3, <2>1
    <3> QED  BY <1>2, <3>1
  <2>2. CASE i # n + 1
    <3>1. i \in 2..n /\ i \in 1..n /\ i - 1 \in 1..(n - 1) /\ i \in 1..(n + 1)
      BY <1>1, <2>2
    <3>2. h[i - 1] = fr[i - 1] /\ fr[i - 1].at = ca[base[i]] /\ based[i] = base[i]
      BY <1>3, <3>1 DEF GrFits
    <3>3. base[i] \in 1..m
      BY <3>1, Bases
    <3> QED  BY <1>2, <3>2, <3>3
  <2> QED  BY <2>1, <2>2
<1>7. based[1] = 1 /\ based[Len(h) + 1] = Len(cb) + 1 /\ cb[1] = GrLast + 1
  <2>1. 1 \in 1..(n + 1) /\ 1 \in 1..n
    BY <1>1
  <2>2. base[1] = 1 /\ ca[1] = GrLast + 1
    BY DEF GrFits
  <2>3. 1 \in 1..m
    BY <2>1, <2>2, Bases
  <2>4. based[1] = 1 /\ cb[1] = GrLast + 1
    BY <1>2, <1>3, <2>1, <2>2, <2>3
  <2>5. based[Len(h) + 1] = Len(cb) + 1
    BY <1>1, <1>2, <1>3
  <2> QED  BY <2>4, <2>5
<1>8. GrFits(b, h, cb, based)
  <2>1. Len(h) = n + 1 /\ Len(h) + 1 = n + 2
    BY <1>1
  <2> QED  BY <1>2, <1>3, <1>4, <1>5, <1>6, <1>7, <2>1 DEF GrFits
<1> QED  BY <1>8 DEF GrStacked

\* The return of the call that the top frame serves.
LEMMA TopReturned ==
  ASSUME NEW b, NEW fr, NEW ca, NEW base, GrFits(b, fr, ca, base), Len(fr) > 0,
         base[Len(fr)] = Len(ca),
         NEW h \in Seq(GrFrames), Len(h) = Len(fr) - 1,
         \A i \in 1..(Len(fr) - 1) : h[i] = fr[i],
         NEW cb \in Seq(Int), Len(cb) = Len(ca) - 1,
         \A j \in 1..(Len(ca) - 1) : cb[j] = ca[j]
  PROVE  /\ GrStacked(b, h, cb)
         /\ h = << >> => ca[Len(ca)] = GrLast + 1
         /\ h # << >> => h[Len(h)].at = ca[Len(ca)]
<1> DEFINE n == Len(fr)
           m == Len(ca)
           based == [i \in 1..n |-> base[i]]
<1>1. /\ n \in Nat /\ m \in Nat /\ ca \in Seq(Int) /\ base \in [1..(n + 1) -> Nat]
      /\ fr \in Seq(GrFrames) /\ base[n] = m /\ base[1] = 1 /\ n > 0
  BY DEF GrFits
<1>2. n \in 1..n /\ m > 0
  <2>1. n \in 1..n
    BY <1>1
  <2>2. base[n] \in 1..m
    BY <2>1, Bases
  <2> QED  BY <1>1, <2>1, <2>2
<1>3. /\ cb \in Seq(Int) /\ Len(cb) = m - 1 /\ \A j \in 1..(m - 1) : cb[j] = ca[j]
  OBVIOUS
<1>4. /\ h \in Seq(GrFrames) /\ Len(h) = n - 1 /\ \A i \in 1..(n - 1) : h[i] = fr[i]
  OBVIOUS
<1>5. based \in [1..n -> Nat] /\ \A i \in 1..n : based[i] = base[i]
  BY <1>1
<1> HIDE DEF based
<1>6. ASSUME NEW i \in 1..n, NEW j \in 1..n, i < j  PROVE based[i] < based[j]
  <2>1. i \in 1..(n + 1) /\ j \in 1..(n + 1)
    BY <1>1
  <2> QED  BY <1>5, <1>6, <2>1 DEF GrFits
<1>7. ASSUME NEW i \in 1..(n - 1)  PROVE GrServes(b, h[i], cb, based[i], based[i + 1])
  <2>1. i \in 1..n /\ i + 1 \in 1..n /\ i + 1 \in 1..(n + 1) /\ n \in 1..(n + 1)
    BY <1>1
  <2>2. /\ base[i] \in 1..m /\ base[i + 1] \in Nat /\ base[i] < base[i + 1]
    BY <2>1, Bases
  <2>3. base[i + 1] <= m
    <3>1. i + 1 = n \/ i + 1 < n
      BY <1>1
    <3>2. i + 1 < n => base[i + 1] < base[n]
      BY <2>1 DEF GrFits
    <3> QED  BY <1>1, <2>2, <3>1, <3>2
  <2>4. \A j \in base[i]..(base[i + 1] - 1) : cb[j] = ca[j]
    <3> DEFINE lo == base[i]
               hi == base[i + 1]
    <3>1. lo \in 1..m /\ hi \in Nat /\ hi <= m
      BY <2>2, <2>3
    <3> HIDE DEF lo, hi, m
    <3>2. \A j \in lo..(hi - 1) : j \in 1..(m - 1)
      BY <1>1, <3>1
    <3>3. \A j \in lo..(hi - 1) : cb[j] = ca[j]
      BY <1>3, <3>2
    <3> QED  BY <3>3 DEF lo, hi
  <2>5. GrServes(b, fr[i], ca, base[i], base[i + 1]) /\ base[i] \in Nat
    BY <2>1, <2>2 DEF GrFits
  <2>6. GrServes(b, fr[i], cb, base[i], base[i + 1])
    <3> DEFINE lo == base[i]
               hi == base[i + 1]
    <3>1. /\ lo \in Nat /\ hi \in Nat /\ lo < hi /\ GrServes(b, fr[i], ca, lo, hi)
          /\ \A j \in lo..(hi - 1) : cb[j] = ca[j]
      BY <2>2, <2>4, <2>5
    <3> HIDE DEF lo, hi
    <3>2. GrServes(b, fr[i], cb, lo, hi)
      BY <3>1, ServesOn
    <3> QED  BY <3>2 DEF lo, hi
  <2> QED  BY <1>4, <1>5, <2>1, <2>6
<1>8. ASSUME NEW i \in 2..(n - 1)  PROVE h[i - 1].at = cb[based[i]]
  <2>1. i \in 1..n /\ i \in 2..n /\ i - 1 \in 1..(n - 1) /\ i < n /\ i \in 1..(n + 1) /\ n \in 1..(n + 1)
    BY <1>1
  <2>2. fr[i - 1].at = ca[base[i]] /\ base[i] < base[n]
    BY <2>1 DEF GrFits
  <2>3. base[i] \in 1..m
    BY <2>1, Bases
  <2>4. base[i] \in 1..(m - 1)
    BY <1>1, <2>2, <2>3
  <2> QED  BY <1>3, <1>4, <1>5, <2>1, <2>2, <2>4
<1>9. based[1] = 1 /\ based[Len(h) + 1] = Len(cb) + 1
  <2>1. 1 \in 1..n /\ Len(h) + 1 = n /\ Len(cb) + 1 = m
    BY <1>1, <1>3, <1>4
  <2> QED  BY <1>1, <1>2, <1>5, <2>1
<1>10. Len(h) > 0 => cb[1] = GrLast + 1
  <2> SUFFICES ASSUME Len(h) > 0  PROVE cb[1] = GrLast + 1
    OBVIOUS
  <2>1. 1 < n /\ 1 \in 1..(n + 1) /\ n \in 1..(n + 1)
    BY <1>1, <1>4
  <2>2. base[1] < base[n]
    BY <2>1 DEF GrFits
  <2>3. 1 \in 1..(m - 1) /\ ca[1] = GrLast + 1
    <3>1. ca[1] = GrLast + 1
      BY DEF GrFits
    <3> QED  BY <1>1, <2>2, <3>1
  <2> QED  BY <1>3, <2>3
<1>11. GrFits(b, h, cb, based)
  <2>1. Len(h) = n - 1 /\ Len(h) + 1 = n
    BY <1>1, <1>4
  <2> QED  BY <1>3, <1>4, <1>5, <1>6, <1>7, <1>8, <1>9, <1>10, <2>1 DEF GrFits
<1>12. h = << >> => ca[m] = GrLast + 1
  <2> SUFFICES ASSUME h = << >>  PROVE ca[m] = GrLast + 1
    OBVIOUS
  <2>1. n = 1
    BY <1>1, <1>4
  <2>2. m = 1 /\ ca[1] = GrLast + 1
    BY <1>1, <2>1 DEF GrFits
  <2> QED  BY <2>2
<1>13. h # << >> => h[Len(h)].at = ca[m]
  <2> SUFFICES ASSUME h # << >>  PROVE h[Len(h)].at = ca[m]
    OBVIOUS
  <2>1. n \in 2..n /\ n - 1 \in 1..(n - 1) /\ Len(h) = n - 1
    BY <1>1, <1>4
  <2>2. fr[n - 1].at = ca[base[n]]
    BY <2>1 DEF GrFits
  <2> QED  BY <1>1, <1>4, <2>1, <2>2
<1> QED  BY <1>4, <1>11, <1>12, <1>13 DEF GrStacked

\* A call inside the window, and its return.
LEMMA InnerCalled ==
  ASSUME NEW b, NEW fr, NEW ca, NEW base, GrFits(b, fr, ca, base), Len(fr) > 0,
         NEW cb \in Seq(Int), Len(cb) = Len(ca) + 1,
         cb[Len(ca) + 1] \in GrWindow, \A j \in 1..Len(ca) : cb[j] = ca[j],
         NEW h \in Seq(GrFrames), Len(h) = Len(fr),
         \A i \in 1..(Len(fr) - 1) : h[i] = fr[i],
         fr[Len(fr)].how = "interp", h[Len(fr)].how = "interp", h[Len(fr)].ra = fr[Len(fr)].ra
  PROVE  GrStacked(b, h, cb)
<1> DEFINE n == Len(fr)
           m == Len(ca)
           based == [i \in 1..(n + 1) |-> IF i = n + 1 THEN m + 2 ELSE base[i]]
<1>1. n \in Nat /\ m \in Nat /\ ca \in Seq(Int) /\ base \in [1..(n + 1) -> Nat] /\ base[n + 1] = m + 1
  BY DEF GrFits
<1>2. /\ cb \in Seq(Int) /\ Len(cb) = m + 1 /\ cb[m + 1] \in GrWindow
      /\ \A j \in 1..m : cb[j] = ca[j]
  OBVIOUS
<1>3. /\ based[n + 1] = m + 2 /\ \A i \in 1..n : based[i] = base[i]
      /\ \A i \in 1..(n + 1) : i = n + 1 \/ i \in 1..n
      /\ based \in [1..(n + 1) -> Nat]
  BY <1>1
<1> HIDE DEF based
<1>4. ASSUME NEW i \in 1..(n + 1), NEW j \in 1..(n + 1), i < j
      PROVE  based[i] < based[j]
  <2>1. i \in 1..n
    BY <1>1, <1>4
  <2>2. CASE j \in 1..n
    BY <1>3, <1>4, <2>1, <2>2 DEF GrFits
  <2>3. CASE j = n + 1
    <3>1. base[i] \in 1..m
      BY <2>1, Bases
    <3> QED  BY <1>1, <1>3, <2>1, <2>3, <3>1
  <2> QED  BY <1>3, <2>2, <2>3
<1>5. ASSUME NEW i \in 1..n  PROVE GrServes(b, h[i], cb, based[i], based[i + 1])
  <2>1. /\ based[i] = base[i] /\ base[i] \in 1..m
        /\ base[i + 1] \in Nat /\ base[i] < base[i + 1] /\ base[i + 1] <= m + 1
    BY <1>3, Bases
  <2>2. CASE i \in 1..(n - 1)
    <3>1. i + 1 \in 1..n /\ based[i + 1] = base[i + 1]
      BY <1>1, <1>3, <2>2
    <3>2. \A j \in base[i]..(base[i + 1] - 1) : cb[j] = ca[j]
      <4> DEFINE lo == base[i]
                 hi == base[i + 1]
      <4>1. lo \in 1..m /\ hi \in Nat /\ hi <= m + 1
        BY <2>1
      <4> HIDE DEF lo, hi, m
      <4>2. \A j \in lo..(hi - 1) : j \in 1..m
        BY <1>1, <4>1
      <4>3. \A j \in lo..(hi - 1) : cb[j] = ca[j]
        BY <1>2, <4>2
      <4> QED  BY <4>3 DEF lo, hi
    <3>3. GrServes(b, h[i], ca, base[i], base[i + 1]) /\ base[i] \in Nat
      BY <2>1, <2>2 DEF GrFits
    <3>4. GrServes(b, h[i], cb, base[i], base[i + 1])
      BY <2>1, <3>2, <3>3, ServesOn
    <3> QED  BY <2>1, <3>1, <3>4
  <2>3. CASE i = n
    <3>1. GrServes(b, fr[n], ca, base[n], m + 1)
      BY <1>1, <2>3 DEF GrFits
    <3>2. /\ GrStale(b) /\ fr[n].ra = ca[base[n]] /\ ca[base[n]] \notin GrWindow
          /\ \A j \in (base[n] + 1)..m : ca[j] \in GrWindow
      BY <1>1, <3>1 DEF GrServes
    <3>3. cb[base[n]] = ca[base[n]] /\ based[n] = base[n] /\ based[n + 1] = m + 2
      BY <1>2, <1>3, <2>1, <2>3
    <3>4. \A j \in (base[n] + 1)..(m + 1) : cb[j] \in GrWindow
      <4>1. base[n] \in 1..m
        BY <2>1, <2>3
      <4>2. \A j \in (base[n] + 1)..(m + 1) : j = m + 1 \/ (j \in (base[n] + 1)..m /\ j \in 1..m)
        BY <1>1, <4>1
      <4> QED  BY <1>2, <3>2, <4>2
    <3>5. m + 2 - 1 = m + 1
      BY <1>1
    <3>6. /\ h[n].how = "interp" /\ h[n].ra = cb[base[n]] /\ cb[base[n]] \notin GrWindow
      BY <3>2, <3>3
    <3>7. \A j \in (base[n] + 1)..(m + 2 - 1) : cb[j] \in GrWindow
      BY <3>4, <3>5
    <3>8. GrServes(b, h[n], cb, base[n], m + 2)
      <4> DEFINE lo == base[n]
                 hi == m + 2
                 f  == h[n]
      <4>1. \A j \in (lo + 1)..(hi - 1) : cb[j] \in GrWindow
        BY <3>7
      <4>2. f.how = "interp" /\ f.ra = cb[lo] /\ cb[lo] \notin GrWindow
        BY <3>6
      <4> HIDE DEF lo, hi, f
      <4>3. GrServes(b, f, cb, lo, hi)
        BY <3>2, <4>1, <4>2 DEF GrServes
      <4> QED  BY <4>3 DEF lo, hi, f
    <3>9. based[i] = base[n] /\ based[i + 1] = m + 2
      BY <2>3, <3>3
    <3> QED  BY <2>3, <3>8, <3>9
  <2>4. i = n \/ i \in 1..(n - 1)
    BY <1>1
  <2> QED  BY <2>2, <2>3, <2>4
<1>6. ASSUME NEW i \in 2..n  PROVE h[i - 1].at = cb[based[i]]
  <2>1. i \in 1..n /\ i - 1 \in 1..(n - 1)
    BY <1>1
  <2>2. h[i - 1] = fr[i - 1] /\ fr[i - 1].at = ca[base[i]] /\ based[i] = base[i]
    BY <1>3, <2>1 DEF GrFits
  <2>3. base[i] \in 1..m
    BY <2>1, Bases
  <2> QED  BY <1>2, <2>2, <2>3
<1>7. based[1] = 1 /\ based[Len(h) + 1] = Len(cb) + 1 /\ cb[1] = GrLast + 1
  <2>1. 1 \in 1..n
    BY <1>1
  <2>2. base[1] = 1 /\ ca[1] = GrLast + 1
    BY DEF GrFits
  <2>3. 1 \in 1..m
    BY <2>1, <2>2, Bases
  <2>4. based[Len(h) + 1] = Len(cb) + 1
    BY <1>1, <1>2, <1>3
  <2> QED  BY <1>2, <1>3, <2>1, <2>2, <2>3, <2>4
<1>8. GrFits(b, h, cb, based)
  BY <1>1, <1>2, <1>3, <1>4, <1>5, <1>6, <1>7 DEF GrFits
<1> QED  BY <1>8 DEF GrStacked

LEMMA InnerReturned ==
  ASSUME NEW b, NEW fr, NEW ca, NEW base, GrFits(b, fr, ca, base), Len(fr) > 0,
         NEW cb \in Seq(Int), Len(cb) = Len(ca) - 1, base[Len(fr)] < Len(ca),
         \A j \in 1..(Len(ca) - 1) : cb[j] = ca[j],
         NEW h \in Seq(GrFrames), Len(h) = Len(fr),
         \A i \in 1..(Len(fr) - 1) : h[i] = fr[i],
         fr[Len(fr)].how = "interp", h[Len(fr)].how = "interp", h[Len(fr)].ra = fr[Len(fr)].ra
  PROVE  GrStacked(b, h, cb)
<1> DEFINE n == Len(fr)
           m == Len(ca)
           based == [i \in 1..(n + 1) |-> IF i = n + 1 THEN m ELSE base[i]]
<1>1. n \in Nat /\ m \in Nat /\ ca \in Seq(Int) /\ base \in [1..(n + 1) -> Nat] /\ base[n + 1] = m + 1
  BY DEF GrFits
<1>2. n \in 1..n /\ base[n] \in 1..m /\ base[n] < m /\ m > 0
  <2>1. n \in 1..n
    BY <1>1
  <2>2. base[n] \in 1..m
    BY <2>1, Bases
  <2> QED  BY <1>1, <2>1, <2>2
<1>3. /\ cb \in Seq(Int) /\ Len(cb) = m - 1 /\ \A j \in 1..(m - 1) : cb[j] = ca[j]
  OBVIOUS
<1>4. /\ based[n + 1] = m /\ \A i \in 1..n : based[i] = base[i]
      /\ \A i \in 1..(n + 1) : i = n + 1 \/ i \in 1..n
      /\ based \in [1..(n + 1) -> Nat]
  BY <1>1
<1> HIDE DEF based
<1>5. ASSUME NEW i \in 1..n  PROVE base[i] \in 1..(m - 1) /\ base[i] <= base[n]
  <2>1. base[i] \in 1..m
    BY Bases
  <2>2. i = n \/ i < n
    BY <1>1
  <2>3. i < n => base[i] < base[n]
    <3>1. i \in 1..(n + 1) /\ n \in 1..(n + 1)
      BY <1>1
    <3> QED  BY <3>1 DEF GrFits
  <2> QED  BY <1>1, <1>2, <2>1, <2>2, <2>3
<1>6. ASSUME NEW i \in 1..(n + 1), NEW j \in 1..(n + 1), i < j
      PROVE  based[i] < based[j]
  <2>1. i \in 1..n
    BY <1>1, <1>6
  <2>2. CASE j \in 1..n
    BY <1>4, <1>6, <2>1, <2>2 DEF GrFits
  <2>3. CASE j = n + 1
    <3>1. based[j] = m /\ based[i] = base[i]
      BY <1>4, <2>1, <2>3
    <3>2. base[i] \in 1..(m - 1)
      BY <1>5, <2>1
    <3> HIDE DEF m
    <3> QED  BY <1>1, <3>1, <3>2
  <2> QED  BY <1>4, <2>2, <2>3
<1>7. ASSUME NEW i \in 1..n  PROVE GrServes(b, h[i], cb, based[i], based[i + 1])
  <2>1. /\ based[i] = base[i] /\ base[i] \in 1..(m - 1)
        /\ base[i + 1] \in Nat /\ base[i] < base[i + 1]
    BY <1>4, <1>5, Bases
  <2>2. CASE i \in 1..(n - 1)
    <3>1. i + 1 \in 1..n /\ based[i + 1] = base[i + 1]
      BY <1>1, <1>4, <2>2
    <3>2. base[i + 1] \in 1..(m - 1)
      BY <1>5, <3>1
    <3>3. \A j \in base[i]..(base[i + 1] - 1) : cb[j] = ca[j]
      <4> DEFINE lo == base[i]
                 hi == base[i + 1]
      <4>1. lo \in 1..(m - 1) /\ hi \in 1..(m - 1)
        BY <2>1, <3>2
      <4> HIDE DEF lo, hi, m
      <4>2. \A j \in lo..(hi - 1) : j \in 1..(m - 1)
        BY <1>1, <4>1
      <4>3. \A j \in lo..(hi - 1) : cb[j] = ca[j]
        BY <1>3, <4>2
      <4> QED  BY <4>3 DEF lo, hi
    <3>4. GrServes(b, h[i], ca, base[i], base[i + 1]) /\ base[i] \in Nat
      BY <2>1, <2>2 DEF GrFits
    <3>5. GrServes(b, h[i], cb, base[i], base[i + 1])
      <4> DEFINE lo == base[i]
                 hi == base[i + 1]
      <4>1. /\ lo \in Nat /\ hi \in Nat /\ lo < hi /\ GrServes(b, h[i], ca, lo, hi)
            /\ \A j \in lo..(hi - 1) : cb[j] = ca[j]
        BY <2>1, <3>3, <3>4
      <4> HIDE DEF lo, hi
      <4>2. GrServes(b, h[i], cb, lo, hi)
        BY <4>1, ServesOn
      <4> QED  BY <4>2 DEF lo, hi
    <3> QED  BY <2>1, <3>1, <3>5
  <2>3. CASE i = n
    <3>1. GrServes(b, fr[n], ca, base[n], m + 1)
      BY <1>1, <2>3 DEF GrFits
    <3>2. /\ GrStale(b) /\ fr[n].ra = ca[base[n]] /\ ca[base[n]] \notin GrWindow
          /\ \A j \in (base[n] + 1)..m : ca[j] \in GrWindow
      BY <1>1, <3>1 DEF GrServes
    <3>3. cb[base[n]] = ca[base[n]] /\ based[n] = base[n] /\ based[n + 1] = m
      BY <1>3, <1>4, <2>1, <2>3
    <3>4. \A j \in (base[n] + 1)..(m - 1) : cb[j] \in GrWindow
      <4>1. \A j \in (base[n] + 1)..(m - 1) : j \in (base[n] + 1)..m /\ j \in 1..(m - 1)
        BY <1>1, <1>2
      <4> QED  BY <1>3, <3>2, <4>1
    <3> QED  BY <2>3, <3>2, <3>3, <3>4 DEF GrServes
  <2>4. i = n \/ i \in 1..(n - 1)
    BY <1>1
  <2> QED  BY <2>2, <2>3, <2>4
<1>8. ASSUME NEW i \in 2..n  PROVE h[i - 1].at = cb[based[i]]
  <2>1. i \in 1..n /\ i - 1 \in 1..(n - 1)
    BY <1>1
  <2>2. h[i - 1] = fr[i - 1] /\ fr[i - 1].at = ca[base[i]] /\ based[i] = base[i]
    BY <1>4, <2>1 DEF GrFits
  <2>3. base[i] \in 1..(m - 1)
    BY <1>5, <2>1
  <2> QED  BY <1>3, <2>2, <2>3
<1>9. based[1] = 1 /\ based[Len(h) + 1] = Len(cb) + 1 /\ cb[1] = GrLast + 1
  <2>1. 1 \in 1..n
    BY <1>1
  <2>2. base[1] = 1 /\ ca[1] = GrLast + 1
    BY DEF GrFits
  <2>3. 1 \in 1..(m - 1)
    BY <1>5, <2>1, <2>2
  <2>4. based[Len(h) + 1] = Len(cb) + 1
    BY <1>1, <1>3, <1>4
  <2> QED  BY <1>3, <1>4, <2>1, <2>2, <2>3, <2>4
<1>10. GrFits(b, h, cb, based)
  BY <1>1, <1>3, <1>4, <1>6, <1>7, <1>8, <1>9 DEF GrFits
<1> QED  BY <1>10 DEF GrStacked

-----------------------------------------------------------------------------
(* What a step does to the C stack.                                        *)

\* The C stack h stands at pc.
GrStands(h, pc) ==
  /\ h \in Seq(GrFrames)
  /\ pc = IF h = << >> THEN GrLast + 1 ELSE h[Len(h)].at

LEMMA AtIs ==
  ASSUME NEW fr \in Seq(GrFrames), Len(fr) > 0, NEW t \in Int,
         NEW h, h = [fr EXCEPT ![Len(fr)].at = t]
  PROVE  /\ h \in Seq(GrFrames) /\ Len(h) = Len(fr) /\ h # << >>
         /\ \A i \in 1..(Len(fr) - 1) : h[i] = fr[i]
         /\ h[Len(fr)] = [fr[Len(fr)] EXCEPT !.at = t]
<1>1. Len(fr) \in 1..Len(fr) /\ DOMAIN fr = 1..Len(fr)
  OBVIOUS
<1>2. fr[Len(fr)] \in GrFrames
  BY <1>1
<1>3. [fr[Len(fr)] EXCEPT !.at = t] \in GrFrames
  BY <1>2 DEF GrFrames
<1>4. h = [fr EXCEPT ![Len(fr)] = [fr[Len(fr)] EXCEPT !.at = t]]
  OBVIOUS
<1> QED  BY <1>1, <1>3, <1>4

LEMMA ShortIs ==
  ASSUME NEW X, NEW s \in Seq(X), Len(s) > 0
  PROVE  /\ SubSeq(s, 1, Len(s) - 1) \in Seq(X)
         /\ Len(SubSeq(s, 1, Len(s) - 1)) = Len(s) - 1
         /\ \A i \in 1..(Len(s) - 1) : SubSeq(s, 1, Len(s) - 1)[i] = s[i]
<1> DEFINE n == Len(s) - 1
<1>1. n \in Int /\ 1 \in Int /\ n >= 0 /\ \A i \in 1..n : s[i] \in X
  OBVIOUS
<1>2. n - 1 + 1 = n /\ (1 <= n \/ n = 0) /\ \A i \in 1..n : 1 + i - 1 = i
  <2> HIDE DEF n
  <2> QED  BY <1>1
<1> HIDE DEF n
<1>3. /\ SubSeq(s, 1, n) \in Seq(X)
      /\ Len(SubSeq(s, 1, n)) = IF 1 <= n THEN n - 1 + 1 ELSE 0
      /\ \A i \in 1..(n - 1 + 1) : SubSeq(s, 1, n)[i] = s[1 + i - 1]
  BY <1>1, SubSeqProperties
<1>4. /\ SubSeq(s, 1, n) \in Seq(X) /\ Len(SubSeq(s, 1, n)) = n
      /\ \A i \in 1..n : SubSeq(s, 1, n)[i] = s[i]
  BY <1>2, <1>3
<1> QED  BY <1>4 DEF n

LEMMA FrontIs ==
  ASSUME NEW fr \in Seq(GrFrames), Len(fr) > 0
  PROVE  /\ Front(fr) \in Seq(GrFrames) /\ Len(Front(fr)) = Len(fr) - 1
         /\ \A i \in 1..(Len(fr) - 1) : Front(fr)[i] = fr[i]
BY ShortIs DEF Front

LEMMA AppendIs ==
  ASSUME NEW X, NEW s \in Seq(X), NEW x \in X
  PROVE  /\ Append(s, x) \in Seq(X) /\ Len(Append(s, x)) = Len(s) + 1
         /\ Append(s, x) # << >>
         /\ \A i \in 1..Len(s) : Append(s, x)[i] = s[i]
         /\ Append(s, x)[Len(s) + 1] = x
OBVIOUS

\* The top frame goes on at another place.
LEMMA GoesOn ==
  ASSUME NEW b, NEW fr, NEW ca, NEW base, GrFits(b, fr, ca, base), Len(fr) > 0,
         NEW t \in Int, NEW h, h = [fr EXCEPT ![Len(fr)].at = t],
         fr[Len(fr)].how = "code" => ~GrTaken(b, t) /\ (GrStale(b) => t \notin GrWindow)
  PROVE  /\ GrServes(b, h[Len(fr)], ca, base[Len(fr)], base[Len(fr) + 1])
         /\ GrStacked(b, h, ca) /\ GrStands(h, t)
<1> DEFINE n == Len(fr)
           f == fr[n]
           g == [f EXCEPT !.at = t]
<1>1. fr \in Seq(GrFrames) /\ n \in Nat /\ n \in 1..n
  BY DEF GrFits
<1>2. /\ h \in Seq(GrFrames) /\ Len(h) = n /\ \A i \in 1..(n - 1) : h[i] = fr[i]
      /\ h[n] = g /\ h # << >>
  BY <1>1, AtIs
<1>3. f \in GrFrames
  BY <1>1
<1>4. g.how = f.how /\ g.at = t /\ g.ra = f.ra
  BY <1>3 DEF GrFrames
<1>5. GrServes(b, f, ca, base[n], base[n + 1])
  BY <1>1 DEF GrFits
<1> HIDE DEF g
<1>6. GrServes(b, g, ca, base[n], base[n + 1])
  <2>1. CASE f.how = "code"
    BY <1>4, <1>5, <2>1 DEF GrServes
  <2>2. CASE f.how # "code"
    BY <1>4, <1>5, <2>2 DEF GrServes
  <2> QED  BY <2>1, <2>2
<1>7. GrStacked(b, h, ca)
  BY <1>2, <1>6, TopReplaced
<1> QED  BY <1>2, <1>4, <1>6, <1>7 DEF GrStands

\* A frame that begins at t to serve a call which returns to r.
GrBegins(b, f, t, r) ==
  /\ f \in GrFrames /\ f.at = t
  /\ \/ f.how = "code" /\ ~GrTaken(b, t) /\ (GrStale(b) => t \notin GrWindow)
     \/ f.how = "interp" /\ GrStale(b) /\ f.ra = r /\ r \notin GrWindow

LEMMA BegunServes ==
  ASSUME NEW b, NEW f, NEW t, NEW ca, NEW m \in Nat, GrBegins(b, f, t, ca[m])
  PROVE  GrServes(b, f, ca, m, m + 1)
<1>1. \A j \in (m + 1)..(m + 1 - 1) : FALSE
  OBVIOUS
<1> QED  BY <1>1 DEF GrBegins, GrServes

LEMMA CallsOut ==
  ASSUME NEW b, NEW fr, NEW ca, NEW base, GrFits(b, fr, ca, base), Len(fr) > 0,
         NEW r \in Int, NEW f, NEW t, GrBegins(b, f, t, r),
         fr[Len(fr)].how = "code" => ~GrTaken(b, r) /\ (GrStale(b) => r \notin GrWindow)
  PROVE  LET h == Append([fr EXCEPT ![Len(fr)].at = r], f)
         IN  GrStacked(b, h, Append(ca, r)) /\ GrStands(h, t)
<1> DEFINE n == Len(fr)
           k == [fr EXCEPT ![n].at = r]
           h == Append(k, f)
           cb == Append(ca, r)
           m == Len(ca)
<1>1. fr \in Seq(GrFrames) /\ ca \in Seq(Int) /\ n \in Nat /\ m \in Nat /\ n \in 1..n
  BY DEF GrFits
<1>0. k = [fr EXCEPT ![Len(fr)].at = r]
  OBVIOUS
<1> HIDE DEF k, h, cb
<1>a. fr \in Seq(GrFrames)
  BY <1>1
<1>2. /\ k \in Seq(GrFrames) /\ Len(k) = n /\ \A i \in 1..(n - 1) : k[i] = fr[i]
      /\ k[n] = [fr[n] EXCEPT !.at = r]
  BY <1>0, <1>a, AtIs
<1>3. GrServes(b, k[n], ca, base[n], base[n + 1])
  BY <1>0, GoesOn
<1>4. k[n].at = r
  <2>1. fr[n] \in GrFrames
    BY <1>1
  <2> QED  BY <1>2, <2>1 DEF GrFrames
<1>5. f \in GrFrames /\ f.at = t
  BY DEF GrBegins
<1>6. /\ cb \in Seq(Int) /\ Len(cb) = m + 1 /\ cb[m + 1] = r /\ \A j \in 1..m : cb[j] = ca[j]
  BY <1>1, AppendIs DEF cb
<1>7. /\ h \in Seq(GrFrames) /\ Len(h) = n + 1 /\ h # << >> /\ h[n + 1] = f
      /\ \A i \in 1..n : h[i] = k[i]
  BY <1>2, <1>5, AppendIs DEF h
<1>8. GrServes(b, f, cb, m + 1, m + 2)
  <2>1. GrBegins(b, f, t, cb[m + 1]) /\ m + 1 \in Nat /\ (m + 1) + 1 = m + 2
    BY <1>1, <1>6
  <2>2. GrServes(b, f, cb, m + 1, (m + 1) + 1)
    BY <2>1, BegunServes
  <2> QED  BY <2>1, <2>2
<1>9. \A i \in 1..(n - 1) : h[i] = fr[i]
  <2>1. \A i \in 1..(n - 1) : i \in 1..n
    BY <1>1
  <2> QED  BY <1>2, <1>7, <2>1
<1>10. h[n] = k[n]
  BY <1>1, <1>7
<1>11. GrStacked(b, h, cb)
  BY <1>3, <1>4, <1>6, <1>7, <1>8, <1>9, <1>10, TopCalled
<1>12. GrStands(h, t)
  <2>1. h[Len(h)] = f
    BY <1>7
  <2> QED  BY <1>5, <1>7, <2>1 DEF GrStands
<1> QED  BY <1>11, <1>12 DEF h, k, cb

LEMMA ReturnsOut ==
  ASSUME NEW b, NEW fr, NEW ca, NEW base, GrFits(b, fr, ca, base), Len(fr) > 0,
         base[Len(fr)] = Len(ca)
  PROVE  /\ GrStacked(b, Front(fr), SubSeq(ca, 1, Len(ca) - 1))
         /\ GrStands(Front(fr), ca[Len(ca)])
<1> DEFINE n == Len(fr)
           m == Len(ca)
           h == Front(fr)
           cb == SubSeq(ca, 1, m - 1)
<1>1. fr \in Seq(GrFrames) /\ ca \in Seq(Int) /\ n \in 1..n /\ m \in Nat
  BY DEF GrFits
<1>2. m > 0
  <2>1. base[n] \in 1..m
    BY <1>1, Bases
  <2> QED  BY <1>1, <2>1
<1>3. h \in Seq(GrFrames) /\ Len(h) = n - 1 /\ \A i \in 1..(n - 1) : h[i] = fr[i]
  BY <1>1, FrontIs
<1>4. cb \in Seq(Int) /\ Len(cb) = m - 1 /\ \A i \in 1..(m - 1) : cb[i] = ca[i]
  BY <1>1, <1>2, ShortIs
<1> HIDE DEF h, cb
<1>5. /\ GrStacked(b, h, cb)
      /\ h = << >> => ca[m] = GrLast + 1
      /\ h # << >> => h[Len(h)].at = ca[m]
  BY <1>3, <1>4, TopReturned
<1>6. GrStands(h, ca[m])
  BY <1>3, <1>5 DEF GrStands
<1> QED  BY <1>5, <1>6 DEF h, cb

\* The top frame gives way to another one that serves the same call.
LEMMA GivesWay ==
  ASSUME NEW b, NEW fr, NEW ca, NEW base, GrFits(b, fr, ca, base), Len(fr) > 0,
         base[Len(fr)] = Len(ca), NEW f, NEW t, GrBegins(b, f, t, ca[Len(ca)])
  PROVE  /\ GrStacked(b, Append(Front(fr), f), ca)
         /\ GrStands(Append(Front(fr), f), t)
<1> DEFINE n == Len(fr)
           m == Len(ca)
           k == Front(fr)
           h == Append(k, f)
<1>1. /\ fr \in Seq(GrFrames) /\ ca \in Seq(Int) /\ n \in 1..n /\ n \in Nat /\ m \in Nat
      /\ base[n + 1] = m + 1 /\ base[n] = m
  BY DEF GrFits
<1>2. k \in Seq(GrFrames) /\ Len(k) = n - 1 /\ \A i \in 1..(n - 1) : k[i] = fr[i]
  BY <1>1, FrontIs
<1>3. f \in GrFrames /\ f.at = t
  BY DEF GrBegins
<1> HIDE DEF k
<1>4. /\ h \in Seq(GrFrames) /\ Len(h) = n /\ h # << >> /\ h[n] = f
      /\ \A i \in 1..(n - 1) : h[i] = k[i]
  <2>1. (n - 1) + 1 = n
    BY <1>1
  <2> QED  BY <1>2, <1>3, <2>1, AppendIs
<1> HIDE DEF h
<1>5. GrServes(b, f, ca, m, m + 1)
  BY <1>1, BegunServes
<1>6. GrServes(b, h[n], ca, base[n], base[n + 1])
  BY <1>1, <1>4, <1>5
<1>7. GrStacked(b, h, ca)
  BY <1>2, <1>4, <1>6, TopReplaced
<1>8. GrStands(h, t)
  BY <1>3, <1>4 DEF GrStands
<1> QED  BY <1>7, <1>8 DEF h, k

\* A call inside the window keeps the frame of the interpreter.
LEMMA CallsIn ==
  ASSUME NEW b, NEW fr, NEW ca, NEW base, GrFits(b, fr, ca, base), Len(fr) > 0,
         fr[Len(fr)].how = "interp", NEW r \in Int, r \in GrWindow,
         NEW t \in Int, NEW h, h = [fr EXCEPT ![Len(fr)].at = t]
  PROVE  GrStacked(b, h, Append(ca, r)) /\ GrStands(h, t)
<1> DEFINE n == Len(fr)
           m == Len(ca)
           cb == Append(ca, r)
<1>1. fr \in Seq(GrFrames) /\ ca \in Seq(Int) /\ n \in 1..n
  BY DEF GrFits
<1> HIDE DEF cb
<1>a. fr \in Seq(GrFrames)
  BY <1>1
<1>2. /\ h \in Seq(GrFrames) /\ Len(h) = n /\ \A i \in 1..(n - 1) : h[i] = fr[i]
      /\ h[n] = [fr[n] EXCEPT !.at = t] /\ h # << >>
  BY <1>a, AtIs
<1>3. fr[n] \in GrFrames
  BY <1>1
<1>4. h[n].how = "interp" /\ h[n].ra = fr[n].ra /\ h[n].at = t
  BY <1>2, <1>3 DEF GrFrames
<1>5. /\ cb \in Seq(Int) /\ Len(cb) = m + 1 /\ cb[m + 1] \in GrWindow /\ \A j \in 1..m : cb[j] = ca[j]
  BY <1>1, AppendIs DEF cb
<1> HIDE DEF n, m
<1>6. GrStacked(b, h, cb)
  <2>1. /\ Len(fr) > 0 /\ Len(h) = Len(fr) /\ \A i \in 1..(Len(fr) - 1) : h[i] = fr[i]
        /\ fr[Len(fr)].how = "interp" /\ h[Len(fr)].how = "interp" /\ h[Len(fr)].ra = fr[Len(fr)].ra
    BY <1>2, <1>4 DEF n
  <2>2. Len(cb) = Len(ca) + 1 /\ cb[Len(ca) + 1] \in GrWindow /\ \A j \in 1..Len(ca) : cb[j] = ca[j]
    BY <1>5 DEF m
  <2>3. h \in Seq(GrFrames) /\ cb \in Seq(Int)
    BY <1>2, <1>5
  <2> QED  BY <2>1, <2>2, <2>3, InnerCalled
<1>7. GrStands(h, t)
  BY <1>2, <1>4 DEF GrStands, n
<1> QED  BY <1>6, <1>7 DEF cb

LEMMA ReturnsIn ==
  ASSUME NEW b, NEW fr, NEW ca, NEW base, GrFits(b, fr, ca, base), Len(fr) > 0,
         fr[Len(fr)].how = "interp", base[Len(fr)] < Len(ca),
         NEW t \in Int, NEW h, h = [fr EXCEPT ![Len(fr)].at = t]
  PROVE  GrStacked(b, h, SubSeq(ca, 1, Len(ca) - 1)) /\ GrStands(h, t)
<1> DEFINE n == Len(fr)
           m == Len(ca)
           cb == SubSeq(ca, 1, m - 1)
<1>1. fr \in Seq(GrFrames) /\ ca \in Seq(Int) /\ n \in 1..n /\ m > 0
  <2>1. fr \in Seq(GrFrames) /\ ca \in Seq(Int) /\ n \in 1..n
    BY DEF GrFits
  <2>2. base[n] \in 1..m
    BY <2>1, Bases
  <2> QED  BY <2>1, <2>2
<1> HIDE DEF cb
<1>a. fr \in Seq(GrFrames)
  BY <1>1
<1>2. /\ h \in Seq(GrFrames) /\ Len(h) = n /\ \A i \in 1..(n - 1) : h[i] = fr[i]
      /\ h[n] = [fr[n] EXCEPT !.at = t] /\ h # << >>
  BY <1>a, AtIs
<1>3. fr[n] \in GrFrames
  BY <1>1
<1>4. h[n].how = "interp" /\ h[n].ra = fr[n].ra /\ h[n].at = t
  BY <1>2, <1>3 DEF GrFrames
<1>5. cb \in Seq(Int) /\ Len(cb) = m - 1 /\ \A j \in 1..(m - 1) : cb[j] = ca[j]
  BY <1>1, ShortIs DEF cb
<1>6. GrStacked(b, h, cb)
  BY <1>2, <1>4, <1>5, InnerReturned
<1>7. GrStands(h, t)
  BY <1>2, <1>4 DEF GrStands
<1> QED  BY <1>6, <1>7 DEF cb

-----------------------------------------------------------------------------
(* Where the flow of a program that keeps the conventions goes.            *)

GrGood(b) == GrKeeps(b) /\ GrSplit(b.code, b.starts)

LEMMA GoodHas ==
  ASSUME NEW b, GrGood(b)
  PROVE  /\ b.code \in [GrWords -> [op : Cpu!CpuOps, to : Int]]
         /\ b.live \in [GrWords -> [op : Cpu!CpuOps, to : Int]]
         /\ b.starts \in SUBSET GrWords /\ 1 \in b.starts
         /\ GrFunctions(b.code) \subseteq b.starts
         /\ \A a \in GrWords : b.code[a].op = "jal" => b.code[a].to \in GrFunctions(b.code)
BY DEF GrGood, GrKeeps, GrSplit, GrFunctions

LEMMA BuildsGood ==
  ASSUME NEW b, GrKeeps(GrBuilt(b))
  PROVE  GrGood(GrBuilt(b))
<1>1. GrFunctions(b.code) \subseteq GrWords
  <2>1. 1 \in GrWords /\ GrSeeds \subseteq GrWords
    BY GrAssumption DEF GrWords
  <2>2. \A a \in GrWords : b.code[a].op = "jal" => b.code[a].to \in GrWords
    BY DEF GrKeeps, GrCompiled, GrBuilt
  <2> QED  BY <2>1, <2>2 DEF GrFunctions
<1>2. GrSplit(b.code, GrStarts(b.code))
  BY <1>1, StartsSplit
<1> QED  BY <1>2 DEF GrGood, GrBuilt

LEMMA StartsNotTaken ==
  ASSUME NEW b, GrGood(b), NEW t \in b.starts
  PROVE  ~GrTaken(b, t)
<1>1. b.starts \in SUBSET GrWords /\ 1 \in b.starts /\ t \in GrWords
  BY GoodHas
<1>2. GrOwner(b.starts, t) = t
  BY <1>1, OwnsItself
<1>3. t - 1 \in GrWords => GrOwner(b.starts, t - 1) <= t - 1
  BY <1>1, OwnerIs
<1>4. t \in Int
  BY <1>1 DEF GrWords
<1> QED  BY <1>2, <1>3, <1>4 DEF GrTaken

LEMMA NotTakenIs ==
  ASSUME NEW b, GrGood(b), NEW a \in GrWords, ~GrTaken(b, a)
  PROVE  a = 1 \/ a \in b.starts \/ b.code[a - 1].op \notin Cpu!CpuSlotted
<1> SUFFICES ASSUME a # 1, a \notin b.starts  PROVE b.code[a - 1].op \notin Cpu!CpuSlotted
  OBVIOUS
<1>1. a - 1 \in GrWords /\ (a - 1) + 1 = a /\ a > 1
  BY GrAssumption DEF GrWords
<1>2. GrOwner(b.starts, a - 1) = GrOwner(b.starts, a)
  <2>1. b.starts \in SUBSET GrWords /\ 1 \in b.starts
    BY GoodHas
  <2> QED  BY <1>1, <2>1, OwnedByOne
<1> QED  BY <1>1, <1>2 DEF GrTaken

\* Flow that the emitter knows of stays out of slots and of the window.
LEMMA FlowLands ==
  ASSUME NEW b, GrGood(b), NEW a \in GrWords, ~GrTaken(b, a), GrStale(b) => a \notin GrWindow,
         NEW t \in GrFlow(b.code, a), t \in GrWords \/ t = a + 2 \/ t = a + 1
  PROVE  /\ ~GrTaken(b, t) /\ (GrStale(b) => t \notin GrWindow)
         /\ t \in GrWords => t \in b.starts \/ GrOwner(b.starts, a) = GrOwner(b.starts, t)
<1> DEFINE w == b.code[a]
<1>1. /\ b.code \in [GrWords -> [op : Cpu!CpuOps, to : Int]] /\ b.starts \in SUBSET GrWords
      /\ 1 \in b.starts /\ w \in [op : Cpu!CpuOps, to : Int] /\ GrFunctions(b.code) \subseteq b.starts
      /\ w.op = "jal" => w.to \in GrFunctions(b.code)
  BY GoodHas
<1>2. /\ w.op # "bal"
      /\ w.op \in Cpu!CpuSlotted => a < GrLast /\ b.code[a + 1].op \in Cpu!CpuPlain
      /\ (w.op \in {"beq", "j"} /\ w.to \in GrWords \ b.starts /\ w.to > 1)
             => b.code[w.to - 1].op \notin Cpu!CpuSlotted
  BY DEF GrGood, GrKeeps, GrCompiled
<1>3. a \in Int /\ a + 1 - 1 = a /\ a + 2 - 1 = a + 1
  BY DEF GrWords
<1>4. Cpu!CpuPlain \cap Cpu!CpuSlotted = {}
  BY DEF Cpu!CpuPlain, Cpu!CpuSlotted, Cpu!CpuBranches, Cpu!CpuJumps
<1>5. t \in GrWords => t \in b.starts \/ GrOwner(b.starts, a) = GrOwner(b.starts, t)
  BY FlowStays DEF GrGood
<1>6. \/ w.op \in Cpu!CpuPlain /\ t = a + 1
      \/ w.op \in Cpu!CpuSlotted /\ t = a + 2
      \/ w.op \in {"beq", "j"} /\ t = w.to
      \/ t \in b.starts
  BY <1>1, <1>2 DEF GrFlow, Cpu!CpuSlotted, Cpu!CpuBranches, Cpu!CpuJumps, Cpu!CpuPlain
<1>7. ~GrTaken(b, t)
  <2>1. CASE w.op \in Cpu!CpuPlain /\ t = a + 1
    BY <1>3, <1>4, <2>1 DEF GrTaken
  <2>2. CASE w.op \in Cpu!CpuSlotted /\ t = a + 2
    BY <1>2, <1>3, <1>4, <2>2 DEF GrTaken
  <2>3. CASE w.op \in {"beq", "j"} /\ t = w.to /\ t \notin b.starts /\ t \in GrWords
    BY <1>2, <2>3 DEF GrTaken
  <2>4. CASE t \in b.starts
    BY <2>4, StartsNotTaken
  <2>5. CASE w.op \in {"beq", "j"} /\ t = w.to /\ t = a + 1
    <3>1. w.op \in Cpu!CpuSlotted
      BY <2>5 DEF Cpu!CpuSlotted, Cpu!CpuBranches, Cpu!CpuJumps
    <3>2. a + 1 \in GrWords
      BY <1>2, <1>3, <3>1, GrAssumption DEF GrWords
    <3> QED  BY <2>3, <2>4, <2>5, <3>2
  <2>6. CASE w.op \in {"beq", "j"} /\ t = w.to /\ t = a + 2
    <3>1. w.op \in Cpu!CpuSlotted
      BY <2>6 DEF Cpu!CpuSlotted, Cpu!CpuBranches, Cpu!CpuJumps
    <3> QED  BY <2>2, <2>6, <3>1
  <2> QED  BY <1>6, <2>1, <2>2, <2>3, <2>4, <2>5, <2>6
<1>8. GrStale(b) => t \notin GrWindow
  <2> SUFFICES ASSUME GrStale(b)  PROVE t \notin GrWindow
    OBVIOUS
  <2>1. a = 1 \/ a \in b.starts \/ b.code[a - 1].op \notin Cpu!CpuSlotted
    BY NotTakenIs
  <2>2. a \in GrWords \ GrWindow /\ GrApart(b)
    BY DEF GrGood, GrKeeps
  <2>3. GrFlow(b.code, a) \cap GrWindow = {}
    BY <2>1, <2>2 DEF GrApart
  <2> QED  BY <2>3
<1> QED  BY <1>5, <1>7, <1>8

-----------------------------------------------------------------------------
(* The registers.                                                          *)

GrRegs == [ra : Int, x : Int, stk : Seq(Int)]

LEMMA EffectTyped ==
  ASSUME NEW reg \in GrRegs, NEW w, w.to \in Int
  PROVE  /\ Cpu!CpuEffect(reg, w) \in GrRegs
         /\ w.op # "set" => Cpu!CpuEffect(reg, w).x = reg.x
         /\ w.op # "load" => Cpu!CpuEffect(reg, w).ra = reg.ra
<1>1. reg.ra \in Int /\ reg.x \in Int /\ reg.stk \in Seq(Int)
  BY DEF GrRegs
<1>2. CASE w.op = "set"
  <2>1. Cpu!CpuEffect(reg, w) = [reg EXCEPT !.x = w.to]
    BY <1>2 DEF Cpu!CpuEffect
  <2> QED  BY <1>2, <2>1 DEF GrRegs
<1>3. CASE w.op = "save"
  <2>1. Cpu!CpuEffect(reg, w) = [reg EXCEPT !.stk = Append(reg.stk, reg.ra)]
    BY <1>3 DEF Cpu!CpuEffect
  <2>2. Append(reg.stk, reg.ra) \in Seq(Int)
    BY <1>1
  <2> QED  BY <1>3, <2>1, <2>2 DEF GrRegs
<1>4. CASE w.op = "load" /\ reg.stk # << >>
  <2>1. Cpu!CpuEffect(reg, w) =
          [reg EXCEPT !.ra = reg.stk[Len(reg.stk)],
                      !.stk = SubSeq(reg.stk, 1, Len(reg.stk) - 1)]
    BY <1>4 DEF Cpu!CpuEffect
  <2>2. Len(reg.stk) > 0 /\ reg.stk[Len(reg.stk)] \in Int
    BY <1>1, <1>4
  <2>3. SubSeq(reg.stk, 1, Len(reg.stk) - 1) \in Seq(Int)
    BY <1>1, <2>2, ShortIs
  <2> QED  BY <1>4, <2>1, <2>2, <2>3 DEF GrRegs
<1>5. CASE w.op \notin {"set", "save"} /\ ~(w.op = "load" /\ reg.stk # << >>)
  <2>1. Cpu!CpuEffect(reg, w) = reg
    BY <1>5 DEF Cpu!CpuEffect
  <2> QED  BY <1>5, <2>1
<1> QED  BY <1>2, <1>3, <1>4, <1>5

LEMMA LinkTyped ==
  ASSUME NEW reg \in GrRegs, NEW w, NEW a \in Int
  PROVE  /\ Cpu!CpuLink(reg, w, a) \in GrRegs
         /\ Cpu!CpuLink(reg, w, a).x = reg.x
         /\ w.op \in Cpu!CpuLinking => Cpu!CpuLink(reg, w, a).ra = a + 2
         /\ w.op \notin Cpu!CpuLinking => Cpu!CpuLink(reg, w, a) = reg
<1>1. CASE w.op \in Cpu!CpuLinking
  <2>1. Cpu!CpuLink(reg, w, a) = [reg EXCEPT !.ra = a + 2]
    BY <1>1 DEF Cpu!CpuLink
  <2> QED  BY <1>1, <2>1 DEF GrRegs
<1>2. CASE w.op \notin Cpu!CpuLinking
  <2>1. Cpu!CpuLink(reg, w, a) = reg
    BY <1>2 DEF Cpu!CpuLink
  <2> QED  BY <1>2, <2>1
<1> QED  BY <1>1, <1>2

-----------------------------------------------------------------------------
(* One step.                                                               *)

\* The frame that a call or jump to t through the dispatcher and the guard begins.
GrEntry(t, ra) ==
  IF t \in GrWindow /\ ~GrMatches(t) THEN GrFrame("interp", t, ra) ELSE GrFrame("code", t, ra)

LEMMA EntryBegins ==
  ASSUME GrGood(gr_build), NEW t \in GrFunctions(gr_build.code), NEW ra \in Int, NEW r,
         (GrStale(gr_build) /\ t \in GrWindow) => ra = r /\ r \notin GrWindow
  PROVE  GrBegins(gr_build, GrEntry(t, ra), t, r)
<1>1. t \in gr_build.starts /\ t \in GrWords /\ t \in Int
  BY GoodHas DEF GrWords
<1>2. ~GrTaken(gr_build, t)
  BY <1>1, StartsNotTaken
<1> DEFINE f == GrEntry(t, ra)
<1>3. f \in GrFrames /\ f.at = t /\ f.ra = ra
  BY <1>1 DEF GrEntry, GrFrame, GrFrames
<1>4. CASE t \in GrWindow /\ ~GrMatches(t)
  <2>1. GrStale(gr_build)
    BY <1>4 DEF GrMatches, GrStale
  <2>2. f.how = "interp"
    BY <1>4 DEF GrEntry, GrFrame
  <2> HIDE DEF f
  <2>3. GrBegins(gr_build, f, t, r)
    BY <1>3, <1>4, <2>1, <2>2 DEF GrBegins
  <2> QED  BY <2>3 DEF f
<1>5. CASE ~(t \in GrWindow /\ ~GrMatches(t))
  <2>1. GrStale(gr_build) => t \notin GrWindow
    <3> SUFFICES ASSUME GrStale(gr_build), t \in GrWindow  PROVE FALSE
      OBVIOUS
    <3>1. GrTold(gr_build)
      BY DEF GrGood, GrKeeps
    <3>2. \E a \in t..(t + GrGuard - 1) : a \in GrWords /\ gr_build.live[a] # gr_build.code[a]
      BY <3>1 DEF GrTold
    <3> QED  BY <1>5, <3>2 DEF GrMatches
  <2>2. f.how = "code"
    BY <1>5 DEF GrEntry, GrFrame
  <2> HIDE DEF f
  <2>3. GrBegins(gr_build, f, t, r)
    BY <1>2, <1>3, <2>1, <2>2 DEF GrBegins
  <2> QED  BY <2>3 DEF f
<1> QED  BY <1>4, <1>5

\* The C stack after the step, for the calls after it, stands at pc.
GrMoved(pc, calls) == GrStands(gr_frames', pc) /\ GrStacked(gr_build, gr_frames', calls)

\* A frame on top is at the instruction w of the address a.
GrAtWord(base, a, w) ==
  /\ GrGood(gr_build) /\ gr_reg \in GrRegs
  /\ GrFits(gr_build, gr_frames, gr_calls, base) /\ Len(gr_frames) > 0
  /\ GrTop.at = a /\ a \in GrWords /\ w = gr_build.live[a]
  /\ ~Cpu!CpuBreaks(gr_calls, gr_reg, w, a)

GrAtCode(base, a, w) ==
  /\ GrAtWord(base, a, w) /\ w = gr_build.code[a] /\ GrTop.how = "code"
  /\ ~GrTaken(gr_build, a) /\ (GrStale(gr_build) => a \notin GrWindow)
  /\ base[Len(gr_frames)] = Len(gr_calls)

GrAtLive(base, a, w) ==
  /\ GrAtWord(base, a, w) /\ GrTop.how = "interp" /\ a \in GrWindow
  /\ GrStale(gr_build) /\ GrWindow \subseteq GrWords
  /\ GrTop.ra = gr_calls[base[Len(gr_frames)]] /\ GrTop.ra \notin GrWindow
  /\ \A j \in (base[Len(gr_frames)] + 1)..Len(gr_calls) : gr_calls[j] \in GrWindow

LEMMA AtWordHas ==
  ASSUME NEW base, NEW a, NEW w, GrAtWord(base, a, w)
  PROVE  /\ GrFits(gr_build, gr_frames, gr_calls, base) /\ gr_reg \in GrRegs
         /\ GrGood(gr_build) /\ Len(gr_frames) > 0 /\ Len(gr_frames) \in Nat
         /\ gr_frames[Len(gr_frames)] = GrTop
         /\ a \in Int /\ a >= 1 /\ a <= GrLast /\ GrLast \in Nat
         /\ base[Len(gr_frames)] \in 1..Len(gr_calls) /\ Len(gr_calls) \in Nat
         /\ gr_calls # << >> /\ gr_calls[Len(gr_calls)] \in Int
         /\ w \in [op : Cpu!CpuOps, to : Int]
         /\ gr_reg.x \in Int
<1>1. GrFits(gr_build, gr_frames, gr_calls, base) /\ GrGood(gr_build) /\ Len(gr_frames) > 0 /\ a \in GrWords
  BY DEF GrAtWord
<1>2. Len(gr_frames) \in Nat /\ gr_calls \in Seq(Int) /\ Len(gr_frames) \in 1..Len(gr_frames)
  BY <1>1 DEF GrFits
<1>3. base[Len(gr_frames)] \in 1..Len(gr_calls) /\ Len(gr_calls) \in Nat
  BY <1>1, <1>2, Bases
<1>4. gr_calls # << >> /\ gr_calls[Len(gr_calls)] \in Int
  BY <1>2, <1>3
<1>5. a \in Int /\ a >= 1 /\ a <= GrLast /\ GrLast \in Nat
  BY <1>1, GrAssumption DEF GrWords
<1>6. w \in [op : Cpu!CpuOps, to : Int]
  BY <1>1, GoodHas DEF GrAtWord
<1>7. gr_reg \in GrRegs /\ gr_reg.x \in Int
  BY DEF GrAtWord, GrRegs
<1> QED  BY <1>1, <1>2, <1>3, <1>4, <1>5, <1>6, <1>7 DEF GrTop

\* Control goes on in the same frame, without a call or a return.
LEMMA MovesOn ==
  ASSUME NEW base, NEW a, NEW w, GrAtWord(base, a, w), NEW t \in Int, gr_frames' = GrAt(t),
         GrTop.how = "code" => ~GrTaken(gr_build, t) /\ (GrStale(gr_build) => t \notin GrWindow)
  PROVE  GrMoved(t, gr_calls)
BY AtWordHas, GoesOn DEF GrAt, GrMoved

\* A jump that hands its call on to another function.
LEMMA HandsOn ==
  ASSUME NEW base, NEW a, NEW w, GrAtWord(base, a, w), base[Len(gr_frames)] = Len(gr_calls),
         NEW t \in GrFunctions(gr_build.code), NEW ra \in Int,
         gr_frames' = GrDispatch(GrPop, t, ra),
         (GrStale(gr_build) /\ t \in GrWindow) =>
            ra = gr_calls[Len(gr_calls)] /\ gr_calls[Len(gr_calls)] \notin GrWindow
  PROVE  GrMoved(t, gr_calls)
<1>1. /\ GrFits(gr_build, gr_frames, gr_calls, base) /\ GrGood(gr_build) /\ Len(gr_frames) > 0
  BY AtWordHas
<1> DEFINE f == GrEntry(t, ra)
<1>2. GrBegins(gr_build, f, t, gr_calls[Len(gr_calls)])
  BY <1>1, EntryBegins
<1>3. gr_frames' = Append(Front(gr_frames), f)
  <2>1. t \in gr_build.starts
    BY <1>1, GoodHas
  <2> QED  BY <2>1 DEF GrDispatch, GrEntry, GrPop
<1> HIDE DEF f
<1> QED  BY <1>1, <1>2, <1>3, GivesWay DEF GrMoved

\* A call through the dispatcher, to come back at r.
LEMMA CallsThrough ==
  ASSUME NEW base, NEW a, NEW w, GrAtWord(base, a, w), NEW r \in Int,
         NEW t \in GrFunctions(gr_build.code), NEW ra \in Int,
         gr_frames' = GrDispatch(GrAt(r), t, ra),
         (GrStale(gr_build) /\ t \in GrWindow) => ra = r /\ r \notin GrWindow,
         GrTop.how = "code" => ~GrTaken(gr_build, r) /\ (GrStale(gr_build) => r \notin GrWindow)
  PROVE  GrMoved(t, Append(gr_calls, r))
<1>1. /\ GrFits(gr_build, gr_frames, gr_calls, base) /\ GrGood(gr_build) /\ Len(gr_frames) > 0
      /\ gr_frames[Len(gr_frames)] = GrTop
  BY AtWordHas
<1> DEFINE f == GrEntry(t, ra)
<1>2. GrBegins(gr_build, f, t, r)
  BY <1>1, EntryBegins
<1>3. gr_frames' = Append(GrAt(r), f)
  <2>1. t \in gr_build.starts
    BY <1>1, GoodHas
  <2> QED  BY <2>1 DEF GrDispatch, GrEntry
<1> HIDE DEF f
<1>4. gr_frames[Len(gr_frames)].how = "code" =>
        ~GrTaken(gr_build, r) /\ (GrStale(gr_build) => r \notin GrWindow)
  BY <1>1
<1>5. /\ GrStacked(gr_build, Append(GrAt(r), f), Append(gr_calls, r))
      /\ GrStands(Append(GrAt(r), f), t)
  BY <1>1, <1>2, <1>4, CallsOut DEF GrAt
<1> QED  BY <1>3, <1>5 DEF GrMoved

\* The classes of instructions do not meet.
LEMMA Classes ==
  /\ Cpu!CpuOps = Cpu!CpuPlain \cup {"trap", "bad", "bal", "beq", "j", "jal", "jr", "jrx", "jalrx"}
  /\ Cpu!CpuSlotted = {"bal", "beq", "j", "jal", "jr", "jrx", "jalrx"}
  /\ Cpu!CpuPlain \cap {"trap", "bad", "bal", "beq", "j", "jal", "jr", "jrx", "jalrx"} = {}
BY DEF Cpu!CpuOps, Cpu!CpuPlain, Cpu!CpuSlotted, Cpu!CpuBranches, Cpu!CpuJumps

\* What a unit of the emitted code does to the C stack.
LEMMA UnitIs ==
  ASSUME NEW a, NEW w, NEW reg, NEW taken \in BOOLEAN, NEW temp,
         GrUnit(a, w, reg, taken, temp)
  PROVE  /\ gr_reg' = Cpu!CpuEffect(reg, gr_build.code[a + 1])
         /\ w.op = "j" \/ (w.op = "beq" /\ taken) => gr_frames' = GrTransfer(a, w.to, gr_reg'.ra)
         /\ w.op = "beq" /\ ~taken => gr_frames' = GrAt(a + 2)
         /\ w.op = "jal" /\ w.to \in gr_build.starts =>
              gr_frames' = Append(GrAt(a + 2), GrFrame("code", w.to, gr_reg'.ra))
         /\ w.op = "jr" => gr_frames' = GrPop
         /\ w.op = "jrx" => gr_frames' = GrDispatch(GrPop, gr_reg'.x, gr_reg'.ra)
         /\ w.op = "jalrx" => gr_frames' = GrDispatch(GrAt(a + 2), temp, gr_reg'.ra)
<1>1. gr_reg' = Cpu!CpuEffect(reg, gr_build.code[a + 1])
  BY DEF GrUnit
<1>2. w.op = "j" \/ (w.op = "beq" /\ taken) => gr_frames' = GrTransfer(a, w.to, gr_reg'.ra)
  BY DEF GrUnit, Cpu!CpuBranches
<1>3. w.op = "beq" /\ ~taken => gr_frames' = GrAt(a + 2)
  BY DEF GrUnit, Cpu!CpuBranches
<1>4. w.op = "jal" /\ w.to \in gr_build.starts =>
        gr_frames' = Append(GrAt(a + 2), GrFrame("code", w.to, gr_reg'.ra))
  BY DEF GrUnit, Cpu!CpuBranches
<1>5. w.op = "jr" => gr_frames' = GrPop
  BY DEF GrUnit, Cpu!CpuBranches
<1>6. w.op = "jrx" => gr_frames' = GrDispatch(GrPop, gr_reg'.x, gr_reg'.ra)
  BY DEF GrUnit, Cpu!CpuBranches
<1>7. w.op = "jalrx" => gr_frames' = GrDispatch(GrAt(a + 2), temp, gr_reg'.ra)
  BY DEF GrUnit, Cpu!CpuBranches
<1> QED  BY <1>1, <1>2, <1>3, <1>4, <1>5, <1>6, <1>7

\* What the step lemmas have in common: the step of the CPU.
GrDone(w, a) ==
  LET t == IF w.op \in Cpu!CpuSlotted THEN Cpu!CpuTarget(gr_reg, w, a) ELSE a + 1
  IN  /\ GrMoved(t, Cpu!CpuCallsAfter(gr_calls, gr_reg, w, a))
      /\ gr_reg' \in GrRegs
      /\ gr_reg' = IF w.op \in Cpu!CpuSlotted
                   THEN Cpu!CpuEffect(Cpu!CpuLink(gr_reg, w, a), gr_build.live[a + 1])
                   ELSE Cpu!CpuEffect(gr_reg, w)

LEMMA CodePlainDone ==
  ASSUME NEW base, NEW a, NEW w, GrAtCode(base, a, w), GrCodePlain(a, w)
  PROVE  GrDone(w, a)
<1>1. GrAtWord(base, a, w) /\ w = gr_build.code[a] /\ a \in GrWords /\ GrTop.how = "code"
  BY DEF GrAtCode, GrAtWord
<1>2. /\ w.op \in Cpu!CpuPlain /\ gr_reg' = Cpu!CpuEffect(gr_reg, w) /\ gr_frames' = GrAt(a + 1)
  BY DEF GrCodePlain
<1>3. w.op \notin Cpu!CpuSlotted /\ w.op \notin {"jal", "jalrx", "bal", "jr"}
  BY <1>2, Classes
<1>4. Cpu!CpuCallsAfter(gr_calls, gr_reg, w, a) = gr_calls
  BY <1>3 DEF Cpu!CpuCallsAfter
<1>5. /\ a \in Int /\ gr_reg \in GrRegs /\ w.to \in Int /\ GrGood(gr_build)
  BY <1>1, AtWordHas
<1>6. a + 1 \in GrFlow(gr_build.code, a)
  BY <1>1, <1>2 DEF GrFlow, Cpu!CpuPlain, Cpu!CpuBranches
<1>7. ~GrTaken(gr_build, a + 1) /\ (GrStale(gr_build) => a + 1 \notin GrWindow)
  BY <1>1, <1>5, <1>6, FlowLands DEF GrAtCode
<1>8. GrMoved(a + 1, gr_calls)
  <2>1. a + 1 \in Int
    BY <1>5
  <2> QED  BY <1>1, <1>2, <1>7, <2>1, MovesOn
<1>9. gr_reg' \in GrRegs
  BY <1>2, <1>5, EffectTyped
<1> QED  BY <1>2, <1>3, <1>4, <1>8, <1>9 DEF GrDone

LEMMA CodeTrapDone ==
  ASSUME NEW base, NEW a, NEW w, GrAtCode(base, a, w), GrCodeTrap(a, w)
  PROVE  GrDone(w, a)
<1>1. GrAtWord(base, a, w) /\ w = gr_build.code[a] /\ a \in GrWords
  BY DEF GrAtCode, GrAtWord
<1>2. /\ w.op = "trap" /\ gr_reg' = gr_reg
      /\ gr_frames' = IF GrOwn(a, a + 1) THEN GrAt(a + 1) ELSE GrPop
  BY DEF GrCodeTrap
<1>3. w.op \notin Cpu!CpuSlotted
  BY <1>2, Classes
<1>4. /\ Cpu!CpuCallsAfter(gr_calls, gr_reg, w, a) = gr_calls
      /\ Cpu!CpuEffect(gr_reg, w) = gr_reg
  BY <1>2 DEF Cpu!CpuCallsAfter, Cpu!CpuEffect
<1>5. /\ a \in Int /\ gr_reg \in GrRegs /\ GrGood(gr_build) /\ a >= 1 /\ a <= GrLast /\ GrLast \in Nat
  BY <1>1, AtWordHas
<1>6. a + 1 \in GrWords
  <2>1. a # GrLast
    BY <1>1, <1>3 DEF GrAtWord, Cpu!CpuBreaks
  <2> QED  BY <1>5, <2>1 DEF GrWords
<1>7. a + 1 \notin gr_build.starts /\ (GrStale(gr_build) => a + 1 \notin GrWindow)
  <2>1. a + 1 \notin gr_build.starts
    BY <1>1, <1>2, <1>5 DEF GrGood, GrKeeps, GrCompiled
  <2>2. ASSUME GrStale(gr_build)  PROVE a + 1 \notin GrWindow
    <3>1. a \in GrWords \ GrWindow /\ GrApart(gr_build)
      BY <1>1, <1>5, <2>2 DEF GrAtCode, GrGood, GrKeeps
    <3> QED  BY <1>1, <1>2, <3>1 DEF GrApart
  <2> QED  BY <2>1, <2>2
<1>8. ~GrTaken(gr_build, a + 1)
  <2>1. a + 1 - 1 = a
    BY <1>5
  <2> QED  BY <1>1, <1>3, <1>5, <2>1 DEF GrTaken
<1>9. gr_frames' = GrAt(a + 1)
  <2>1. gr_build.starts \in SUBSET GrWords /\ 1 \in gr_build.starts
    BY <1>5, GoodHas
  <2>2. GrOwner(gr_build.starts, a) = GrOwner(gr_build.starts, a + 1)
    BY <1>1, <1>6, <1>7, <2>1, OwnedByOne
  <2> QED  BY <1>2, <1>6, <2>2 DEF GrOwn
<1>10. GrMoved(a + 1, gr_calls)
  <2>1. a + 1 \in Int
    BY <1>5
  <2> QED  BY <1>1, <1>7, <1>8, <1>9, <2>1, MovesOn
<1> QED  BY <1>2, <1>3, <1>4, <1>5, <1>10 DEF GrDone

\* The registers after a jump and its slot, in translated code.
LEMMA CodeJumpRegs ==
  ASSUME NEW base, NEW a, NEW w, GrAtCode(base, a, w), GrCodeJump(a, w)
  PROVE  /\ GrUnit(a, w, Cpu!CpuLink(gr_reg, w, a), gr_reg.x = 0, gr_reg.x)
         /\ w.op \in {"beq", "j", "jal", "jr", "jrx", "jalrx"}
         /\ gr_build.live[a + 1] = gr_build.code[a + 1]
         /\ gr_build.code[a + 1].op \in Cpu!CpuPlain /\ gr_build.code[a + 1].to \in Int
         /\ Cpu!CpuLink(gr_reg, w, a) \in GrRegs
         /\ gr_reg' = Cpu!CpuEffect(Cpu!CpuLink(gr_reg, w, a), gr_build.live[a + 1])
         /\ gr_reg' \in GrRegs /\ gr_reg'.x \in Int /\ gr_reg'.ra \in Int
<1>1. GrAtWord(base, a, w) /\ w = gr_build.code[a] /\ a \in GrWords
  BY DEF GrAtCode, GrAtWord
<1>2. w.op \in Cpu!CpuSlotted /\ GrUnit(a, w, Cpu!CpuLink(gr_reg, w, a), gr_reg.x = 0, gr_reg.x)
  BY DEF GrCodeJump
<1>3. /\ a \in Int /\ gr_reg \in GrRegs /\ GrGood(gr_build) /\ a >= 1 /\ a <= GrLast /\ GrLast \in Nat
  BY <1>1, AtWordHas
<1>4. /\ w.op # "bal" /\ a < GrLast /\ gr_build.code[a + 1].op \in Cpu!CpuPlain
  BY <1>1, <1>2, <1>3 DEF GrGood, GrKeeps, GrCompiled
<1>5. w.op \in {"beq", "j", "jal", "jr", "jrx", "jalrx"}
  BY <1>2, <1>4, Classes
<1>6. a + 1 \in GrWords
  BY <1>3, <1>4 DEF GrWords
<1>7. gr_build.live[a + 1] = gr_build.code[a + 1] /\ gr_build.code[a + 1].to \in Int
  <2>1. CASE GrStale(gr_build)
    <3>1. a \in GrWords \ GrWindow /\ GrApart(gr_build)
      BY <1>1, <1>3, <2>1 DEF GrAtCode, GrGood, GrKeeps
    <3>2. a + 1 \in GrWords \ GrWindow
      BY <1>1, <1>2, <1>6, <3>1 DEF GrApart
    <3> QED  BY <1>3, <1>6, <3>1, <3>2, GoodHas DEF GrApart
  <2>2. CASE ~GrStale(gr_build)
    BY <1>3, <1>6, <2>2, GoodHas DEF GrStale
  <2> QED  BY <2>1, <2>2
<1>8. Cpu!CpuLink(gr_reg, w, a) \in GrRegs
  BY <1>3, LinkTyped
<1>9. gr_reg' = Cpu!CpuEffect(Cpu!CpuLink(gr_reg, w, a), gr_build.code[a + 1])
  BY <1>2 DEF GrUnit
<1>10. gr_reg' \in GrRegs
  BY <1>7, <1>8, <1>9, EffectTyped
<1>11. gr_reg'.x \in Int /\ gr_reg'.ra \in Int
  BY <1>10 DEF GrRegs
<1> QED  BY <1>2, <1>4, <1>5, <1>7, <1>8, <1>9, <1>10, <1>11

\* A branch or jump in translated code.
LEMMA CodeGoes ==
  ASSUME NEW base, NEW a, NEW w, GrAtCode(base, a, w), GrCodeJump(a, w), w.op \in {"beq", "j"}
  PROVE  GrMoved(Cpu!CpuTarget(gr_reg, w, a), gr_calls)
<1> DEFINE t == Cpu!CpuTarget(gr_reg, w, a)
<1>1. /\ GrAtWord(base, a, w) /\ w = gr_build.code[a] /\ a \in GrWords /\ ~GrTaken(gr_build, a)
      /\ GrStale(gr_build) => a \notin GrWindow
      /\ ~Cpu!CpuBreaks(gr_calls, gr_reg, w, a)
  BY DEF GrAtCode, GrAtWord
<1>2. /\ a \in Int /\ GrGood(gr_build) /\ w.to \in Int /\ gr_reg.x \in Int
  BY <1>1, AtWordHas
<1>3. t \in GrWords
  BY <1>1, Classes DEF Cpu!CpuBreaks, GrWords
<1>4. t \in Int
  BY <1>3 DEF GrWords
<1>5. /\ w.op = "j" \/ (w.op = "beq" /\ gr_reg.x = 0) => gr_frames' = GrTransfer(a, w.to, gr_reg'.ra)
      /\ w.op = "beq" /\ gr_reg.x # 0 => gr_frames' = GrAt(a + 2)
  <2>1. GrUnit(a, w, Cpu!CpuLink(gr_reg, w, a), gr_reg.x = 0, gr_reg.x) /\ (gr_reg.x = 0) \in BOOLEAN
    BY CodeJumpRegs
  <2> QED  BY <2>1, UnitIs
<1>6. t = IF w.op = "j" \/ gr_reg.x = 0 THEN w.to ELSE a + 2
  BY DEF Cpu!CpuTarget, Cpu!CpuBranches
<1>7. t \in GrFlow(gr_build.code, a)
  BY <1>1, <1>6 DEF GrFlow, Cpu!CpuBranches, Cpu!CpuPlain
<1> HIDE DEF t
<1>8. /\ ~GrTaken(gr_build, t) /\ (GrStale(gr_build) => t \notin GrWindow)
      /\ t \in gr_build.starts \/ GrOwner(gr_build.starts, a) = GrOwner(gr_build.starts, t)
  BY <1>1, <1>2, <1>3, <1>7, FlowLands
<1>9. gr_frames' = GrAt(t)
  <2>1. CASE w.op = "j" \/ gr_reg.x = 0
    <3>1. gr_frames' = GrTransfer(a, t, gr_reg'.ra)
      BY <1>5, <1>6, <2>1
    <3> QED  BY <1>3, <1>8, <3>1 DEF GrTransfer, GrOwn
  <2>2. CASE ~(w.op = "j" \/ gr_reg.x = 0)
    BY <1>5, <1>6, <2>2
  <2> QED  BY <2>1, <2>2
<1>10. GrMoved(t, gr_calls)
  BY <1>1, <1>4, <1>8, <1>9, MovesOn
<1> QED  BY <1>10 DEF t

\* A direct call in translated code: past the guard.
LEMMA CodeCalls ==
  ASSUME NEW base, NEW a, NEW w, GrAtCode(base, a, w), GrCodeJump(a, w), w.op = "jal"
  PROVE  GrMoved(w.to, Append(gr_calls, a + 2))
<1>1. /\ GrAtWord(base, a, w) /\ w = gr_build.code[a] /\ a \in GrWords /\ ~GrTaken(gr_build, a)
      /\ GrStale(gr_build) => a \notin GrWindow
  BY DEF GrAtCode, GrAtWord
<1>2. /\ a \in Int /\ GrGood(gr_build) /\ w.to \in Int
      /\ GrFits(gr_build, gr_frames, gr_calls, base) /\ Len(gr_frames) > 0
      /\ gr_reg'.ra \in Int
  BY <1>1, AtWordHas, CodeJumpRegs
<1>3. w.to \in gr_build.starts /\ w.to \in GrWords
  BY <1>1, <1>2, GoodHas
<1>4. w.to \in GrFlow(gr_build.code, a) /\ a + 2 \in GrFlow(gr_build.code, a)
  BY <1>1 DEF GrFlow, Cpu!CpuBranches, Cpu!CpuPlain
<1>5. ~GrTaken(gr_build, w.to) /\ (GrStale(gr_build) => w.to \notin GrWindow)
  BY <1>1, <1>2, <1>3, <1>4, FlowLands
<1>6. ~GrTaken(gr_build, a + 2) /\ (GrStale(gr_build) => a + 2 \notin GrWindow)
  BY <1>1, <1>2, <1>4, FlowLands
<1> DEFINE f == GrFrame("code", w.to, gr_reg'.ra)
<1>7. gr_frames' = Append(GrAt(a + 2), f)
  <2>1. GrUnit(a, w, Cpu!CpuLink(gr_reg, w, a), gr_reg.x = 0, gr_reg.x) /\ (gr_reg.x = 0) \in BOOLEAN
    BY CodeJumpRegs
  <2> QED  BY <1>3, <2>1, UnitIs
<1>8. f \in GrFrames /\ f.at = w.to /\ f.how = "code"
  BY <1>2 DEF GrFrame, GrFrames
<1> HIDE DEF f
<1>9. GrBegins(gr_build, f, w.to, a + 2) /\ a + 2 \in Int
  BY <1>2, <1>5, <1>8 DEF GrBegins
<1> QED  BY <1>2, <1>6, <1>7, <1>9, CallsOut DEF GrMoved, GrAt

\* A return in translated code.
LEMMA CodeReturns ==
  ASSUME NEW base, NEW a, NEW w, GrAtCode(base, a, w), GrCodeJump(a, w), w.op = "jr"
  PROVE  GrMoved(gr_reg.ra, SubSeq(gr_calls, 1, Len(gr_calls) - 1))
<1>1. /\ GrAtWord(base, a, w) /\ base[Len(gr_frames)] = Len(gr_calls)
      /\ ~Cpu!CpuBreaks(gr_calls, gr_reg, w, a)
  BY DEF GrAtCode, GrAtWord
<1>2. GrFits(gr_build, gr_frames, gr_calls, base) /\ Len(gr_frames) > 0
  BY <1>1, AtWordHas
<1>3. gr_reg.ra = gr_calls[Len(gr_calls)]
  BY <1>1 DEF Cpu!CpuBreaks
<1>4. gr_frames' = Front(gr_frames)
  <2>1. GrUnit(a, w, Cpu!CpuLink(gr_reg, w, a), gr_reg.x = 0, gr_reg.x) /\ (gr_reg.x = 0) \in BOOLEAN
    BY CodeJumpRegs
  <2> QED  BY <2>1, UnitIs DEF GrPop
<1> QED  BY <1>1, <1>2, <1>3, <1>4, ReturnsOut DEF GrMoved

\* A jump through a register in translated code.
LEMMA CodeHandsOn ==
  ASSUME NEW base, NEW a, NEW w, GrAtCode(base, a, w), GrCodeJump(a, w), w.op = "jrx",
         GrTailsKeep, ~gr_wild
  PROVE  GrMoved(gr_reg.x, gr_calls)
<1>1. /\ GrAtWord(base, a, w) /\ w = gr_build.code[a] /\ w = gr_build.live[a] /\ a \in GrWords
      /\ base[Len(gr_frames)] = Len(gr_calls) /\ GrTop.at = a /\ GrTop.how = "code"
      /\ ~Cpu!CpuBreaks(gr_calls, gr_reg, w, a)
  BY DEF GrAtCode, GrAtWord
<1>2. GrGood(gr_build) /\ a \in Int /\ gr_reg \in GrRegs /\ Len(gr_frames) > 0 /\ gr_reg.x \in Int
  BY <1>1, AtWordHas
<1>3. gr_reg.x \in GrFunctions(gr_build.code)
  BY <1>1 DEF Cpu!CpuBreaks
<1>4. gr_build.code[a + 1].op # "set"
  BY <1>1, <1>2 DEF GrGood, GrKeeps, GrCompiled
<1>5. /\ GrUnit(a, w, Cpu!CpuLink(gr_reg, w, a), gr_reg.x = 0, gr_reg.x) /\ (gr_reg.x = 0) \in BOOLEAN
      /\ gr_build.live[a + 1] = gr_build.code[a + 1] /\ gr_build.code[a + 1].to \in Int
      /\ gr_reg' = Cpu!CpuEffect(Cpu!CpuLink(gr_reg, w, a), gr_build.live[a + 1])
      /\ gr_reg'.ra \in Int
  BY CodeJumpRegs
<1>6. Cpu!CpuLink(gr_reg, w, a) = gr_reg
  BY DEF Cpu!CpuLink, Cpu!CpuLinking
<1>7. gr_reg'.x = gr_reg.x
  BY <1>2, <1>4, <1>5, <1>6, EffectTyped
<1>8. gr_frames' = GrDispatch(GrPop, gr_reg.x, gr_reg'.ra)
  BY <1>5, <1>7, UnitIs
<1>9. (GrStale(gr_build) /\ gr_reg.x \in GrWindow) =>
         gr_reg'.ra = gr_calls[Len(gr_calls)] /\ gr_calls[Len(gr_calls)] \notin GrWindow
  <2> SUFFICES ASSUME GrStale(gr_build), gr_reg.x \in GrWindow
               PROVE  gr_reg'.ra = gr_calls[Len(gr_calls)] /\ gr_calls[Len(gr_calls)] \notin GrWindow
    OBVIOUS
  <2>1. Cpu!CpuTarget(gr_reg, w, a) = gr_reg.x
    BY DEF Cpu!CpuTarget, Cpu!CpuBranches
  <2>2. gr_frames # << >>
    BY <1>2
  <2> QED  BY <1>1, <1>5, <1>6, <2>1, <2>2 DEF GrTailsKeep
<1> QED  BY <1>1, <1>3, <1>5, <1>8, <1>9, HandsOn

\* A call through a register in translated code.
LEMMA CodeCallsThrough ==
  ASSUME NEW base, NEW a, NEW w, GrAtCode(base, a, w), GrCodeJump(a, w), w.op = "jalrx"
  PROVE  GrMoved(gr_reg.x, Append(gr_calls, a + 2))
<1>1. /\ GrAtWord(base, a, w) /\ w = gr_build.code[a] /\ a \in GrWords /\ ~GrTaken(gr_build, a)
      /\ GrStale(gr_build) => a \notin GrWindow
      /\ ~Cpu!CpuBreaks(gr_calls, gr_reg, w, a)
  BY DEF GrAtCode, GrAtWord
<1>2. GrGood(gr_build) /\ a \in Int /\ gr_reg \in GrRegs
  BY <1>1, AtWordHas
<1>3. gr_reg.x \in GrFunctions(gr_build.code)
  BY <1>1 DEF Cpu!CpuBreaks
<1>4. /\ GrUnit(a, w, Cpu!CpuLink(gr_reg, w, a), gr_reg.x = 0, gr_reg.x) /\ (gr_reg.x = 0) \in BOOLEAN
      /\ gr_build.live[a + 1] = gr_build.code[a + 1] /\ gr_build.code[a + 1].to \in Int
      /\ gr_reg' = Cpu!CpuEffect(Cpu!CpuLink(gr_reg, w, a), gr_build.live[a + 1])
      /\ gr_reg'.ra \in Int
  BY CodeJumpRegs
<1>5. a + 2 \in GrFlow(gr_build.code, a)
  BY <1>1 DEF GrFlow, Cpu!CpuBranches, Cpu!CpuPlain
<1>6. ~GrTaken(gr_build, a + 2) /\ (GrStale(gr_build) => a + 2 \notin GrWindow)
  BY <1>1, <1>2, <1>5, FlowLands
<1>7. GrStale(gr_build) => gr_reg'.ra = a + 2
  <2> SUFFICES ASSUME GrStale(gr_build)  PROVE gr_reg'.ra = a + 2
    OBVIOUS
  <2>1. a \in GrWords \ GrWindow /\ GrApart(gr_build)
    BY <1>1, <1>2 DEF GrGood, GrKeeps
  <2>2. gr_build.code[a + 1].op # "load"
    BY <1>1, <2>1 DEF GrApart
  <2>3. Cpu!CpuLink(gr_reg, w, a).ra = a + 2 /\ Cpu!CpuLink(gr_reg, w, a) \in GrRegs
    <3>1. w.op \in Cpu!CpuLinking
      BY DEF Cpu!CpuLinking
    <3> QED  BY <1>2, <3>1, LinkTyped
  <2> QED  BY <1>4, <2>2, <2>3, EffectTyped
<1>8. gr_frames' = GrDispatch(GrAt(a + 2), gr_reg.x, gr_reg'.ra)
  BY <1>4 DEF GrUnit, Cpu!CpuBranches
<1>9. a + 2 \in Int
  BY <1>2
<1> QED  BY <1>1, <1>3, <1>4, <1>6, <1>7, <1>8, <1>9, CallsThrough

\* Every unit of the emitted code does what its instructions do.
LEMMA CodeDone ==
  ASSUME NEW base, NEW a, NEW w, GrAtCode(base, a, w), GrTailsKeep, ~gr_wild,
         GrCodePlain(a, w) \/ GrCodeTrap(a, w) \/ GrCodeJump(a, w)
  PROVE  GrDone(w, a)
<1>1. CASE GrCodePlain(a, w)
  BY <1>1, CodePlainDone
<1>2. CASE GrCodeTrap(a, w)
  BY <1>2, CodeTrapDone
<1>3. CASE GrCodeJump(a, w)
  <2> DEFINE t == Cpu!CpuTarget(gr_reg, w, a)
             c == Cpu!CpuCallsAfter(gr_calls, gr_reg, w, a)
  <2>1. /\ w.op \in {"beq", "j", "jal", "jr", "jrx", "jalrx"} /\ gr_reg' \in GrRegs
        /\ gr_reg' = Cpu!CpuEffect(Cpu!CpuLink(gr_reg, w, a), gr_build.live[a + 1])
    BY <1>3, CodeJumpRegs
  <2>2. gr_calls # << >>
    BY AtWordHas DEF GrAtCode
  <2>3. GrMoved(t, c)
    <3>1. CASE w.op \in {"beq", "j"}
      <4>1. c = gr_calls
        BY <3>1 DEF Cpu!CpuCallsAfter
      <4> QED  BY <1>3, <3>1, <4>1, CodeGoes
    <3>2. CASE w.op = "jal"
      <4>1. c = Append(gr_calls, a + 2) /\ t = w.to
        BY <3>2 DEF Cpu!CpuCallsAfter, Cpu!CpuTarget, Cpu!CpuBranches
      <4> QED  BY <1>3, <3>2, <4>1, CodeCalls
    <3>3. CASE w.op = "jr"
      <4>1. c = SubSeq(gr_calls, 1, Len(gr_calls) - 1) /\ t = gr_reg.ra
        BY <2>2, <3>3 DEF Cpu!CpuCallsAfter, Cpu!CpuTarget, Cpu!CpuBranches
      <4> QED  BY <1>3, <3>3, <4>1, CodeReturns
    <3>4. CASE w.op = "jrx"
      <4>1. c = gr_calls /\ t = gr_reg.x
        BY <3>4 DEF Cpu!CpuCallsAfter, Cpu!CpuTarget, Cpu!CpuBranches
      <4> QED  BY <1>3, <3>4, <4>1, CodeHandsOn
    <3>5. CASE w.op = "jalrx"
      <4>1. c = Append(gr_calls, a + 2) /\ t = gr_reg.x
        BY <3>5 DEF Cpu!CpuCallsAfter, Cpu!CpuTarget, Cpu!CpuBranches
      <4> QED  BY <1>3, <3>5, <4>1, CodeCallsThrough
    <3> QED  BY <2>1, <3>1, <3>2, <3>3, <3>4, <3>5
  <2>4. w.op \in Cpu!CpuSlotted
    BY <2>1, Classes
  <2> HIDE DEF t, c
  <2> QED  BY <2>1, <2>3, <2>4 DEF GrDone, t, c
<1> QED  BY <1>1, <1>2, <1>3

\* What the interpreter finds inside the window.
LEMMA AtLiveHas ==
  ASSUME NEW base, NEW a, NEW w, GrAtLive(base, a, w)
  PROVE  /\ GrAtWord(base, a, w) /\ GrTop.how = "interp" /\ w.op \notin {"bal", "trap", "bad"}
         /\ GrFits(gr_build, gr_frames, gr_calls, base) /\ Len(gr_frames) > 0
         /\ GrGood(gr_build) /\ gr_reg \in GrRegs /\ a \in Int /\ w.to \in Int
         /\ gr_frames[Len(gr_frames)] = GrTop /\ gr_calls # << >>
         /\ w.op \in Cpu!CpuSlotted => gr_build.live[a + 1].op \in Cpu!CpuPlain
                                    /\ gr_build.live[a + 1].to \in Int
         /\ w.op \in {"beq", "jal", "jalrx"} => a + 2 \in GrWindow
         /\ (w.op \in {"beq", "j", "jal"} /\ w.to \in GrWords) =>
               w.to \in GrWindow \cup GrFunctions(gr_build.code)
         /\ gr_calls[Len(gr_calls)] \in GrWindow => base[Len(gr_frames)] < Len(gr_calls)
         /\ gr_calls[Len(gr_calls)] \notin GrWindow =>
              /\ base[Len(gr_frames)] = Len(gr_calls)
              /\ gr_calls[Len(gr_calls)] = GrTop.ra
<1>1. /\ GrAtWord(base, a, w) /\ GrTop.how = "interp" /\ a \in GrWindow /\ GrStale(gr_build)
      /\ w = gr_build.live[a] /\ GrWindow \subseteq GrWords
      /\ ~Cpu!CpuBreaks(gr_calls, gr_reg, w, a)
  BY DEF GrAtLive, GrAtWord
<1>2. /\ GrFits(gr_build, gr_frames, gr_calls, base) /\ Len(gr_frames) > 0
      /\ GrGood(gr_build) /\ gr_reg \in GrRegs /\ a \in Int /\ w.to \in Int
      /\ gr_frames[Len(gr_frames)] = GrTop /\ gr_calls # << >>
      /\ base[Len(gr_frames)] \in 1..Len(gr_calls) /\ Len(gr_calls) \in Nat
  BY <1>1, AtWordHas
<1>3. GrInside(gr_build)
  BY <1>1, <1>2 DEF GrGood, GrKeeps
<1>4. /\ w.op \notin {"bal", "trap"}
      /\ w.op \in Cpu!CpuSlotted => a + 1 \in GrWindow /\ gr_build.live[a + 1].op \in Cpu!CpuPlain
      /\ w.op \in {"beq", "jal", "jalrx"} => a + 2 \in GrWindow
      /\ (w.op \in {"beq", "j", "jal"} /\ w.to \in GrWords)
             => w.to \in GrWindow \cup GrFunctions(gr_build.code)
  BY <1>1, <1>3 DEF GrInside
<1>5. w.op # "bad"
  BY <1>1 DEF Cpu!CpuBreaks
<1>6. w.op \in Cpu!CpuSlotted => gr_build.live[a + 1].to \in Int
  BY <1>1, <1>2, <1>4, GoodHas
<1>7. /\ gr_calls[Len(gr_calls)] \in GrWindow => base[Len(gr_frames)] < Len(gr_calls)
      /\ gr_calls[Len(gr_calls)] \notin GrWindow =>
           base[Len(gr_frames)] = Len(gr_calls) /\ gr_calls[Len(gr_calls)] = GrTop.ra
  <2> DEFINE lo == base[Len(gr_frames)]
             m == Len(gr_calls)
  <2>1. /\ GrTop.ra = gr_calls[lo] /\ GrTop.ra \notin GrWindow
        /\ \A j \in (lo + 1)..m : gr_calls[j] \in GrWindow
    BY DEF GrAtLive
  <2>2. lo \in 1..m /\ m \in Nat
    BY <1>2
  <2> HIDE DEF lo, m
  <2>3. gr_calls[m] \in GrWindow => lo < m
    BY <2>1, <2>2
  <2>4. gr_calls[m] \notin GrWindow => lo = m
    <3>1. lo # m => m \in (lo + 1)..m
      BY <2>2
    <3> QED  BY <2>1, <3>1
  <2>5. gr_calls[m] \notin GrWindow => gr_calls[m] = GrTop.ra
    BY <2>1, <2>4
  <2> QED  BY <2>3, <2>4, <2>5 DEF lo, m
<1> QED  BY <1>1, <1>2, <1>4, <1>5, <1>6, <1>7

LEMMA LivePlainDone ==
  ASSUME NEW base, NEW a, NEW w, GrAtLive(base, a, w), GrInterpPlain(a, w)
  PROVE  GrDone(w, a)
<1>1. /\ GrAtWord(base, a, w) /\ GrTop.how # "code" /\ a \in Int /\ gr_reg \in GrRegs /\ w.to \in Int
  BY AtLiveHas
<1>2. /\ w.op \in Cpu!CpuPlain /\ gr_reg' = Cpu!CpuEffect(gr_reg, w) /\ gr_frames' = GrAt(a + 1)
  BY DEF GrInterpPlain
<1>3. w.op \notin Cpu!CpuSlotted /\ w.op \notin {"jal", "jalrx", "bal", "jr"}
  BY <1>2, Classes
<1>4. Cpu!CpuCallsAfter(gr_calls, gr_reg, w, a) = gr_calls
  BY <1>3 DEF Cpu!CpuCallsAfter
<1>5. GrMoved(a + 1, gr_calls)
  <2>1. a + 1 \in Int
    BY <1>1
  <2> QED  BY <1>1, <1>2, <2>1, MovesOn
<1>6. gr_reg' \in GrRegs
  BY <1>1, <1>2, EffectTyped
<1> QED  BY <1>2, <1>3, <1>4, <1>5, <1>6 DEF GrDone

\* The registers after a jump and its slot, in the interpreter.
LEMMA LiveJumpRegs ==
  ASSUME NEW base, NEW a, NEW w, GrAtLive(base, a, w), w.op \in Cpu!CpuSlotted,
         gr_reg' = Cpu!CpuEffect(Cpu!CpuLink(gr_reg, w, a), gr_build.live[a + 1])
  PROVE  gr_reg' \in GrRegs /\ gr_reg'.ra \in Int
<1>1. a \in Int /\ gr_reg \in GrRegs /\ gr_build.live[a + 1].to \in Int
  BY AtLiveHas
<1>2. Cpu!CpuLink(gr_reg, w, a) \in GrRegs
  BY <1>1, LinkTyped
<1>3. gr_reg' \in GrRegs
  BY <1>1, <1>2, EffectTyped
<1> QED  BY <1>3 DEF GrRegs

\* A branch or a jump that is not a return.
LEMMA LiveGoes ==
  ASSUME NEW base, NEW a, NEW w, GrAtLive(base, a, w), GrInterpJump(a, w),
         w.op \in {"beq", "j", "jrx"}, GrTailsKeep, ~gr_wild
  PROVE  GrMoved(Cpu!CpuTarget(gr_reg, w, a), gr_calls)
<1> DEFINE t == Cpu!CpuTarget(gr_reg, w, a)
<1>1. /\ GrAtWord(base, a, w) /\ GrTop.how = "interp" /\ a \in Int /\ Len(gr_frames) > 0
      /\ gr_reg \in GrRegs /\ w.to \in Int
      /\ GrFits(gr_build, gr_frames, gr_calls, base)
      /\ w.op = "beq" => a + 2 \in GrWindow
      /\ (w.op \in {"beq", "j"} /\ w.to \in GrWords) =>
            w.to \in GrWindow \cup GrFunctions(gr_build.code)
      /\ gr_calls[Len(gr_calls)] \notin GrWindow => base[Len(gr_frames)] = Len(gr_calls)
  BY AtLiveHas
<1>2. /\ w = gr_build.live[a] /\ a \in GrWords /\ GrTop.at = a /\ GrStale(gr_build)
      /\ ~Cpu!CpuBreaks(gr_calls, gr_reg, w, a)
  BY DEF GrAtLive, GrAtWord
<1>3. t \in GrWords
  BY <1>2, Classes DEF Cpu!CpuBreaks, GrWords
<1>4. t \in Int
  BY <1>3 DEF GrWords
<1>5. t \in GrWindow \cup GrFunctions(gr_build.code)
  <2>1. CASE w.op = "beq"
    <3>1. t = w.to \/ t = a + 2
      BY <2>1 DEF Cpu!CpuTarget, Cpu!CpuBranches
    <3> QED  BY <1>1, <1>3, <2>1, <3>1
  <2>2. CASE w.op = "j"
    <3>1. t = w.to
      BY <2>2 DEF Cpu!CpuTarget, Cpu!CpuBranches
    <3> QED  BY <1>1, <1>3, <2>2, <3>1
  <2>3. CASE w.op = "jrx"
    <3>1. t = gr_reg.x
      BY <2>3 DEF Cpu!CpuTarget, Cpu!CpuBranches
    <3> QED  BY <1>2, <2>3, <3>1 DEF Cpu!CpuBreaks
  <2> QED  BY <2>1, <2>2, <2>3
<1>6. /\ gr_reg' = Cpu!CpuEffect(Cpu!CpuLink(gr_reg, w, a), gr_build.live[a + 1])
      /\ gr_frames' = IF t \in GrWindow THEN GrAt(t) ELSE GrLeave(t, gr_reg'.ra)
  BY DEF GrInterpJump
<1>7. gr_reg'.ra \in Int
  BY <1>6, Classes, LiveJumpRegs
<1>8. t \notin GrWindow => t # GrTop.ra /\ gr_calls[Len(gr_calls)] \notin GrWindow
  <2>1. gr_frames # << >>
    BY <1>1
  <2> QED  BY <1>1, <1>2, <2>1 DEF GrTailsKeep
<1> HIDE DEF t
<1>9. CASE t \in GrWindow
  <2>1. gr_frames' = GrAt(t) /\ GrTop.how # "code"
    BY <1>1, <1>6, <1>9
  <2>2. GrMoved(t, gr_calls)
    BY <1>1, <1>4, <2>1, MovesOn
  <2> QED  BY <2>2 DEF t
<1>10. CASE t \notin GrWindow
  <2>1. gr_frames' = GrDispatch(GrPop, t, gr_reg'.ra)
    BY <1>6, <1>8, <1>10 DEF GrLeave
  <2>2. t \in GrFunctions(gr_build.code) /\ base[Len(gr_frames)] = Len(gr_calls)
    BY <1>1, <1>5, <1>8, <1>10
  <2>3. GrMoved(t, gr_calls)
    BY <1>1, <1>7, <1>10, <2>1, <2>2, HandsOn
  <2> QED  BY <2>3 DEF t
<1> QED  BY <1>9, <1>10

\* A return: of a call inside the window, or of the interpreted function.
LEMMA LiveReturns ==
  ASSUME NEW base, NEW a, NEW w, GrAtLive(base, a, w), GrInterpJump(a, w), w.op = "jr"
  PROVE  GrMoved(gr_reg.ra, SubSeq(gr_calls, 1, Len(gr_calls) - 1))
<1> DEFINE t == gr_reg.ra
<1>1. /\ GrFits(gr_build, gr_frames, gr_calls, base) /\ Len(gr_frames) > 0
      /\ GrTop.how = "interp" /\ gr_frames[Len(gr_frames)] = GrTop /\ gr_reg \in GrRegs
      /\ gr_calls[Len(gr_calls)] \in GrWindow => base[Len(gr_frames)] < Len(gr_calls)
      /\ gr_calls[Len(gr_calls)] \notin GrWindow =>
           base[Len(gr_frames)] = Len(gr_calls) /\ gr_calls[Len(gr_calls)] = GrTop.ra
  BY AtLiveHas
<1>2. t = gr_calls[Len(gr_calls)]
  BY DEF GrAtLive, GrAtWord, Cpu!CpuBreaks
<1>3. gr_frames' = IF t \in GrWindow THEN GrAt(t) ELSE GrLeave(t, gr_reg'.ra)
  BY DEF GrInterpJump, Cpu!CpuTarget, Cpu!CpuBranches
<1>4. t \in Int
  BY <1>1 DEF GrRegs
<1> HIDE DEF t
<1>5. CASE t \in GrWindow
  <2>1. gr_frames' = [gr_frames EXCEPT ![Len(gr_frames)].at = t]
    BY <1>3, <1>5 DEF GrAt
  <2>2. base[Len(gr_frames)] < Len(gr_calls)
    BY <1>1, <1>2, <1>5
  <2>3. GrMoved(t, SubSeq(gr_calls, 1, Len(gr_calls) - 1))
    BY <1>1, <1>4, <2>1, <2>2, ReturnsIn DEF GrMoved
  <2> QED  BY <2>3 DEF t
<1>6. CASE t \notin GrWindow
  <2>1. gr_frames' = Front(gr_frames)
    BY <1>1, <1>2, <1>3, <1>6 DEF GrLeave, GrPop
  <2>2. base[Len(gr_frames)] = Len(gr_calls)
    BY <1>1, <1>2, <1>6
  <2>3. GrMoved(t, SubSeq(gr_calls, 1, Len(gr_calls) - 1))
    BY <1>1, <1>2, <2>1, <2>2, ReturnsOut DEF GrMoved
  <2> QED  BY <2>3 DEF t
<1> QED  BY <1>5, <1>6

\* A call, inside the window or out of it.
LEMMA LiveCalls ==
  ASSUME NEW base, NEW a, NEW w, GrAtLive(base, a, w), GrInterpCall(a, w)
  PROVE  GrMoved(Cpu!CpuTarget(gr_reg, w, a), Append(gr_calls, a + 2))
<1> DEFINE t == Cpu!CpuTarget(gr_reg, w, a)
<1>1. /\ w.op \in {"jal", "jalrx"}
      /\ gr_reg' = Cpu!CpuEffect(Cpu!CpuLink(gr_reg, w, a), gr_build.live[a + 1])
      /\ gr_frames' = IF t \in GrWindow THEN GrAt(t) ELSE GrDispatch(GrAt(a + 2), t, gr_reg'.ra)
  BY DEF GrInterpCall
<1>2. /\ GrAtWord(base, a, w) /\ GrTop.how = "interp" /\ a \in Int /\ Len(gr_frames) > 0
      /\ GrFits(gr_build, gr_frames, gr_calls, base) /\ gr_frames[Len(gr_frames)] = GrTop
      /\ a + 2 \in GrWindow
      /\ (w.op = "jal" /\ w.to \in GrWords) => w.to \in GrWindow \cup GrFunctions(gr_build.code)
  BY <1>1, AtLiveHas
<1>3. ~Cpu!CpuBreaks(gr_calls, gr_reg, w, a)
  BY DEF GrAtLive, GrAtWord
<1>4. t \in GrWords
  BY <1>1, <1>3, Classes DEF Cpu!CpuBreaks, GrWords
<1>5. t \in Int /\ a + 2 \in Int
  BY <1>2, <1>4 DEF GrWords
<1>6. t \in GrWindow \cup GrFunctions(gr_build.code)
  <2>1. CASE w.op = "jal"
    <3>1. t = w.to
      BY <2>1 DEF Cpu!CpuTarget, Cpu!CpuBranches
    <3> QED  BY <1>2, <1>4, <2>1, <3>1
  <2>2. CASE w.op = "jalrx"
    <3>1. t = gr_reg.x
      BY <2>2 DEF Cpu!CpuTarget, Cpu!CpuBranches
    <3> QED  BY <1>3, <2>2, <3>1 DEF Cpu!CpuBreaks
  <2> QED  BY <1>1, <2>1, <2>2
<1>7. gr_reg'.ra \in Int
  BY <1>1, Classes, LiveJumpRegs
<1> HIDE DEF t
<1>8. CASE t \in GrWindow
  <2>1. gr_frames' = [gr_frames EXCEPT ![Len(gr_frames)].at = t]
    BY <1>1, <1>8 DEF GrAt
  <2>2. GrMoved(t, Append(gr_calls, a + 2))
    BY <1>2, <1>5, <2>1, CallsIn DEF GrMoved
  <2> QED  BY <2>2 DEF t
<1>9. CASE t \notin GrWindow
  <2>1. gr_frames' = GrDispatch(GrAt(a + 2), t, gr_reg'.ra) /\ GrTop.how # "code"
    BY <1>1, <1>2, <1>9
  <2>2. t \in GrFunctions(gr_build.code)
    BY <1>6, <1>9
  <2>3. GrMoved(t, Append(gr_calls, a + 2))
    BY <1>2, <1>5, <1>7, <1>9, <2>1, <2>2, CallsThrough
  <2> QED  BY <2>3 DEF t
<1> QED  BY <1>8, <1>9

\* Every step of the interpreter does what its instruction does.
LEMMA LiveDone ==
  ASSUME NEW base, NEW a, NEW w, GrAtLive(base, a, w), GrTailsKeep, ~gr_wild,
         \/ GrInterpPlain(a, w) \/ GrInterpJump(a, w) \/ GrInterpCall(a, w)
         \/ GrInterpStop(a, w)
  PROVE  GrDone(w, a)
<1> DEFINE t == Cpu!CpuTarget(gr_reg, w, a)
           c == Cpu!CpuCallsAfter(gr_calls, gr_reg, w, a)
<1>1. w.op \notin {"bal", "trap", "bad"} /\ gr_calls # << >>
  BY AtLiveHas
<1>2. CASE GrInterpPlain(a, w)
  BY <1>2, LivePlainDone
<1>3. CASE GrInterpJump(a, w)
  <2>1. w.op \in {"beq", "j", "jr", "jrx"}
        /\ gr_reg' = Cpu!CpuEffect(Cpu!CpuLink(gr_reg, w, a), gr_build.live[a + 1])
    BY <1>1, <1>3 DEF GrInterpJump
  <2>2. w.op \in Cpu!CpuSlotted
    BY <2>1, Classes
  <2>3. gr_reg' \in GrRegs
    BY <2>1, <2>2, LiveJumpRegs
  <2>4. CASE w.op \in {"beq", "j", "jrx"}
    <3>1. c = gr_calls
      BY <2>4 DEF Cpu!CpuCallsAfter
    <3>2. GrMoved(t, c)
      BY <1>3, <2>4, <3>1, LiveGoes
    <3> HIDE DEF t, c
    <3> QED  BY <2>1, <2>2, <2>3, <3>2 DEF GrDone, t, c
  <2>5. CASE w.op = "jr"
    <3>1. c = SubSeq(gr_calls, 1, Len(gr_calls) - 1) /\ t = gr_reg.ra
      BY <1>1, <2>5 DEF Cpu!CpuCallsAfter, Cpu!CpuTarget, Cpu!CpuBranches
    <3>2. GrMoved(t, c)
      BY <1>3, <2>5, <3>1, LiveReturns
    <3> HIDE DEF t, c
    <3> QED  BY <2>1, <2>2, <2>3, <3>2 DEF GrDone, t, c
  <2> QED  BY <2>1, <2>4, <2>5
<1>4. CASE GrInterpCall(a, w)
  <2>1. w.op \in {"jal", "jalrx"}
        /\ gr_reg' = Cpu!CpuEffect(Cpu!CpuLink(gr_reg, w, a), gr_build.live[a + 1])
    BY <1>4 DEF GrInterpCall
  <2>2. w.op \in Cpu!CpuSlotted
    BY <2>1, Classes
  <2>3. gr_reg' \in GrRegs
    BY <2>1, <2>2, LiveJumpRegs
  <2>4. c = Append(gr_calls, a + 2)
    BY <2>1 DEF Cpu!CpuCallsAfter
  <2>5. GrMoved(t, c)
    BY <1>4, <2>4, LiveCalls
  <2> HIDE DEF t, c
  <2> QED  BY <2>1, <2>2, <2>3, <2>5 DEF GrDone, t, c
<1>5. CASE GrInterpStop(a, w)
  BY <1>1, <1>5 DEF GrInterpStop
<1> QED  BY <1>2, <1>3, <1>4, <1>5

-----------------------------------------------------------------------------
(* The inductive invariant: until the guest breaks a convention the C      *)
(* stack serves the calls under way.                                       *)

GrIInv ==
  /\ \E b \in GrBuilds : gr_build = GrBuilt(b)
  /\ gr_wild \in BOOLEAN
  /\ ~gr_wild => gr_reg \in GrRegs /\ GrStacked(gr_build, gr_frames, gr_calls)

LEMMA StandsAt ==
  ASSUME NEW t, GrStands(gr_frames, t)
  PROVE  GrPc = t
<1>1. CASE gr_frames = << >>
  BY <1>1 DEF GrStands, GrPc
<1>2. CASE gr_frames # << >>
  <2>1. GrTop \in GrFrames /\ GrTop.at = t
    <3>1. gr_frames \in Seq(GrFrames) /\ Len(gr_frames) \in 1..Len(gr_frames)
      BY <1>2 DEF GrStands
    <3> QED  BY <1>2, <3>1 DEF GrTop, GrStands
  <2>2. GrTop.how # "lost"
    BY <2>1 DEF GrFrames
  <2> QED  BY <1>2, <2>1, <2>2 DEF GrPc
<1> QED  BY <1>1, <1>2

LEMMA GrStarted ==
  ASSUME NEW b \in GrBuilds, GrKeeps(GrBuilt(b)), GrInitOf(b)
  PROVE  GrIInv /\ Cpu!CpuInit
<1>1. /\ gr_build = GrBuilt(b) /\ gr_frames = <<GrFrame("code", 1, GrLast + 1)>>
      /\ gr_calls = <<GrLast + 1>> /\ gr_wild = FALSE
  BY DEF GrInitOf
<1>2. PICK x \in GrFirst : gr_reg = [ra |-> GrLast + 1, x |-> x, stk |-> << >>]
  BY DEF GrInitOf
<1>3. GrLast \in Nat /\ x \in Int /\ GrLast + 1 \in Int
  BY GrAssumption
<1>4. gr_reg \in GrRegs /\ gr_reg.ra = GrLast + 1 /\ gr_reg.stk = << >>
  BY <1>2, <1>3 DEF GrRegs
<1> DEFINE f == GrFrame("code", 1, GrLast + 1)
           base == [i \in 1..2 |-> i]
<1>5. f \in GrFrames /\ f.how = "code" /\ f.at = 1
  BY <1>3 DEF GrFrame, GrFrames
<1>6. GrGood(gr_build)
  BY <1>1, BuildsGood
<1>7. ~GrTaken(gr_build, 1) /\ (GrStale(gr_build) => 1 \notin GrWindow)
  <2>1. 1 \in gr_build.starts
    BY <1>6, GoodHas
  <2>2. ~GrTaken(gr_build, 1)
    BY <1>6, <2>1, StartsNotTaken
  <2>3. GrStale(gr_build) => 1 \notin GrWindow
    BY <1>6 DEF GrGood, GrKeeps
  <2> QED  BY <2>2, <2>3
<1>8. base[1] = 1 /\ base[2] = 2 /\ base \in [1..2 -> Nat]
  OBVIOUS
<1> HIDE DEF f, base
<1>9. gr_frames = <<f>>
  BY <1>1 DEF f
<1>10. /\ gr_frames \in Seq(GrFrames) /\ Len(gr_frames) = 1 /\ gr_frames[1] = f
       /\ gr_calls \in Seq(Int) /\ Len(gr_calls) = 1 /\ gr_calls[1] = GrLast + 1
  BY <1>1, <1>3, <1>5, <1>9
<1>11. GrServes(gr_build, f, gr_calls, 1, 2)
  BY <1>5, <1>7 DEF GrServes
<1>12. GrFits(gr_build, gr_frames, gr_calls, base)
  <2>1. \A i, j \in 1..2 : i < j => base[i] < base[j]
    BY <1>8
  <2>2. \A i \in 1..1 : i = 1
    OBVIOUS
  <2>3. \A i \in 2..1 : FALSE
    OBVIOUS
  <2> QED  BY <1>8, <1>10, <1>11, <2>1, <2>2, <2>3 DEF GrFits
<1>13. GrIInv
  BY <1>1, <1>4, <1>12 DEF GrIInv, GrStacked
<1>14. GrPc = 1
  <2>1. gr_frames # << >>
    BY <1>10
  <2>2. GrStands(gr_frames, 1)
    BY <1>5, <1>10, <2>1 DEF GrStands
  <2> QED  BY <2>2, StandsAt
<1> QED  BY <1>1, <1>4, <1>13, <1>14 DEF Cpu!CpuInit

LEMMA WhereItIs ==
  ASSUME GrIInv, ~gr_wild, GrGood(gr_build), gr_frames # << >>, GrTop.at \in GrWords,
         ~Cpu!CpuBreaks(gr_calls, gr_reg, gr_build.live[GrTop.at], GrTop.at)
  PROVE  \E base :
           LET a == GrTop.at
               w == gr_build.live[a]
           IN  /\ GrTop.how = "code" => GrAtCode(base, a, w)
               /\ (GrTop.how = "interp" /\ a \in GrWindow) => GrAtLive(base, a, w)
<1>1. PICK base : GrFits(gr_build, gr_frames, gr_calls, base)
  BY DEF GrIInv, GrStacked
<1> DEFINE n == Len(gr_frames)
           m == Len(gr_calls)
           a == GrTop.at
           w == gr_build.live[a]
<1>2. n > 0 /\ n \in Nat /\ m \in Nat /\ n \in 1..n
  BY <1>1 DEF GrFits
<1>3. GrServes(gr_build, GrTop, gr_calls, base[n], m + 1) /\ base[n] \in 1..m
  <2>1. base[n + 1] = m + 1 /\ GrServes(gr_build, gr_frames[n], gr_calls, base[n], base[n + 1])
    BY <1>1, <1>2 DEF GrFits
  <2> QED  BY <1>1, <1>2, <2>1, Bases DEF GrTop
<1>4. GrAtWord(base, a, w)
  BY <1>1, <1>2 DEF GrAtWord, GrIInv
<1>5. ASSUME GrTop.how = "code"  PROVE GrAtCode(base, a, w)
  <2>1. /\ m + 1 = base[n] + 1 /\ ~GrTaken(gr_build, a)
        /\ GrStale(gr_build) => a \notin GrWindow
    BY <1>3, <1>5 DEF GrServes
  <2>2. w = gr_build.code[a]
    <3>1. CASE GrStale(gr_build)
      BY <2>1, <3>1 DEF GrGood, GrKeeps, GrApart
    <3> QED  BY <3>1 DEF GrStale
  <2>3. base[n] = m
    BY <1>2, <1>3, <2>1
  <2> QED  BY <1>4, <1>5, <2>1, <2>2, <2>3 DEF GrAtCode
<1>6. ASSUME GrTop.how = "interp", a \in GrWindow  PROVE GrAtLive(base, a, w)
  <2>1. /\ GrStale(gr_build) /\ GrTop.ra = gr_calls[base[n]] /\ gr_calls[base[n]] \notin GrWindow
        /\ \A j \in (base[n] + 1)..(m + 1 - 1) : gr_calls[j] \in GrWindow
    BY <1>3, <1>6 DEF GrServes
  <2>2. GrWindow \subseteq GrWords
    BY <2>1 DEF GrGood, GrKeeps
  <2>3. m + 1 - 1 = m
    BY <1>2
  <2> QED  BY <1>4, <1>6, <2>1, <2>2, <2>3 DEF GrAtLive
<1> QED  BY <1>5, <1>6

LEMMA GrStepped ==
  ASSUME GrIInv, GrTailsKeep, GrNext
  PROVE  GrIInv' /\ Cpu!CpuStep
<1> DEFINE a == GrTop.at
           w == gr_build.live[a]
           c == Cpu!CpuCallsAfter(gr_calls, gr_reg, w, a)
<1>1. /\ ~gr_wild /\ gr_frames # << >> /\ gr_build' = gr_build /\ GrGhosts(a)
      /\ GrTop.how \in {"code", "interp"}
  BY DEF GrNext, GrCode, GrInterp
<1>2. GrGood(gr_build)
  BY GrBuildsAssumption, BuildsGood DEF GrIInv
<1>3. a \in GrWords
  <2>1. CASE GrCode
    BY <2>1 DEF GrCode
  <2>2. CASE GrInterp
    <3>1. PICK base : GrFits(gr_build, gr_frames, gr_calls, base)
      BY <1>1 DEF GrIInv, GrStacked
    <3>2. Len(gr_frames) \in 1..Len(gr_frames) /\ GrTop.how = "interp" /\ a \in GrWindow
      BY <1>1, <2>2, <3>1 DEF GrFits, GrInterp
    <3>3. GrServes(gr_build, GrTop, gr_calls, base[Len(gr_frames)], base[Len(gr_frames) + 1])
      BY <3>1, <3>2 DEF GrFits, GrTop
    <3>4. GrStale(gr_build)
      BY <3>2, <3>3 DEF GrServes
    <3> QED  BY <1>2, <3>2, <3>4 DEF GrGood, GrKeeps
  <2> QED  BY <2>1, <2>2 DEF GrNext
<1>4. GrPc = a /\ a \in 1..GrLast
  <2>1. GrTop.how # "lost"
    BY <1>1
  <2> QED  BY <1>1, <1>3, <2>1 DEF GrPc, GrWords
<1>5. /\ gr_wild' = (gr_wild \/ Cpu!CpuBreaks(gr_calls, gr_reg, w, a))
      /\ gr_calls' = c
  BY <1>1 DEF GrGhosts
<1>6. CASE Cpu!CpuBreaks(gr_calls, gr_reg, w, a)
  <2>1. gr_wild' = TRUE
    BY <1>5, <1>6
  <2>2. GrIInv'
    BY <1>1, <2>1 DEF GrIInv
  <2>3. Cpu!CpuStep
    BY <1>1, <1>4, <1>6, <2>1 DEF Cpu!CpuStep
  <2> QED  BY <2>2, <2>3
<1>7. CASE ~Cpu!CpuBreaks(gr_calls, gr_reg, w, a)
  <2>1. gr_wild' = FALSE
    BY <1>1, <1>5, <1>7
  <2>2. PICK base : /\ GrTop.how = "code" => GrAtCode(base, a, w)
                    /\ (GrTop.how = "interp" /\ a \in GrWindow) => GrAtLive(base, a, w)
    BY <1>1, <1>2, <1>3, <1>7, WhereItIs
  <2>3. GrDone(w, a)
    <3>1. CASE GrCode
      <4>1. GrTop.how = "code"
        BY <3>1 DEF GrCode
      <4>2. GrAtCode(base, a, w)
        BY <2>2, <4>1
      <4>3. w = gr_build.code[a] /\ ~GrTaken(gr_build, a)
        BY <4>2 DEF GrAtCode
      <4>4. ~GrConsumed(a)
        <5>1. a > 1 => a - 1 \in GrWords
          BY GrAssumption, <1>4 DEF GrWords
        <5> QED  BY <4>3, <5>1 DEF GrConsumed, GrOwn, GrTaken
      <4>5. GrCodePlain(a, w) \/ GrCodeTrap(a, w) \/ GrCodeJump(a, w)
        BY <3>1, <4>3, <4>4 DEF GrCode
      <4> QED  BY <1>1, <4>2, <4>5, CodeDone
    <3>2. CASE GrInterp
      <4>1. /\ GrTop.how = "interp" /\ a \in GrWindow
            /\ \/ GrInterpPlain(a, w) \/ GrInterpJump(a, w) \/ GrInterpCall(a, w)
               \/ GrInterpStop(a, w)
        BY <3>2 DEF GrInterp
      <4>2. GrAtLive(base, a, w)
        BY <2>2, <4>1
      <4> QED  BY <1>1, <4>1, <4>2, LiveDone
    <3> QED  BY <3>1, <3>2 DEF GrNext
  <2> DEFINE t == IF w.op \in Cpu!CpuSlotted THEN Cpu!CpuTarget(gr_reg, w, a) ELSE a + 1
  <2>4. /\ GrStands(gr_frames', t) /\ GrStacked(gr_build, gr_frames', gr_calls')
        /\ gr_reg' \in GrRegs
        /\ gr_reg' = IF w.op \in Cpu!CpuSlotted
                     THEN Cpu!CpuEffect(Cpu!CpuLink(gr_reg, w, a), gr_build.live[a + 1])
                     ELSE Cpu!CpuEffect(gr_reg, w)
    BY <1>5, <2>3 DEF GrDone, GrMoved
  <2>5. GrPc' = t
    <3> HIDE DEF t
    <3>1. CASE gr_frames' = << >>
      BY <2>4, <3>1 DEF GrStands, GrPc
    <3>2. CASE gr_frames' # << >>
      <4>1. gr_frames' \in Seq(GrFrames) /\ Len(gr_frames') \in 1..Len(gr_frames')
        BY <2>4, <3>2 DEF GrStands
      <4>2. gr_frames'[Len(gr_frames')] \in GrFrames /\ gr_frames'[Len(gr_frames')].at = t
        BY <2>4, <3>2, <4>1 DEF GrStands
      <4>3. gr_frames'[Len(gr_frames')].how # "lost"
        BY <4>2 DEF GrFrames
      <4> QED  BY <3>2, <4>2, <4>3 DEF GrPc, GrTop
    <3> QED  BY <3>1, <3>2
  <2>6. GrIInv'
    BY <1>1, <2>1, <2>4 DEF GrIInv
  <2>7. Cpu!CpuPlainStep(w) \/ Cpu!CpuJumpStep(w)
    BY <1>4, <2>4, <2>5 DEF Cpu!CpuPlainStep, Cpu!CpuJumpStep
  <2>8. Cpu!CpuStep
    BY <1>1, <1>4, <1>5, <1>7, <2>1, <2>7 DEF Cpu!CpuStep
  <2> QED  BY <2>6, <2>8
<1> QED  BY <1>6, <1>7

(* The translated program, run through the dispatcher, the guard and the   *)
(* interpreter, does what the CPU does with the program in memory until    *)
(* the guest breaks a convention, for every build that keeps them: each    *)
(* instruction once, in order, with the registers the CPU would have, and  *)
(* control is never lost.  GrTailsKeep is about the guest alone: how it    *)
(* jumps, other than by calls and returns, into and out of a module that   *)
(* is not the one translated.                                              *)
THEOREM GuestImplementsCpu ==
  GrSpec /\ []GrTailsKeep => GrImplementsCpu
<1>1. GrInit => GrIInv /\ Cpu!CpuInit
  BY GrBuildsAssumption, GrStarted DEF GrInit
<1>2. GrIInv /\ GrTailsKeep /\ [GrNext]_gr_vars
        => GrIInv' /\ [Cpu!CpuStep \/ Cpu!CpuWild]_(Cpu!cpu_vars)
  <2> SUFFICES ASSUME GrIInv, GrTailsKeep, [GrNext]_gr_vars
               PROVE  GrIInv' /\ [Cpu!CpuStep \/ Cpu!CpuWild]_(Cpu!cpu_vars)
    OBVIOUS
  <2>1. CASE GrNext
    BY <2>1, GrStepped
  <2>2. CASE UNCHANGED gr_vars
    <3>1. GrIInv'
      BY <2>2 DEF gr_vars, GrIInv
    <3>2. UNCHANGED Cpu!cpu_vars
      BY <2>2 DEF gr_vars, Cpu!cpu_vars, GrPc, GrTop
    <3> QED  BY <3>1, <3>2
  <2> QED  BY <2>1, <2>2
<1> QED  BY <1>1, <1>2, PTL DEF GrSpec, GrImplementsCpu, Cpu!CpuSpec
=============================================================================
