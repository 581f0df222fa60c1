---------------------------- MODULE KernelProofs ----------------------------
(***************************************************************************)
(* Proofs about the console's kernel as the runtime plays it.              *)
(*                                                                         *)
(* Kernel.  Its properties for event tables of any size and stacks of any  *)
(* height: the types, that interrupted code finds its registers as it left *)
(* them, and that a delivery passes over no event it owes.                 *)
(*                                                                         *)
(* The registers of a code frame are either the current ones, when it is   *)
(* on top or only a delivery that has called nobody yet is above it, or    *)
(* those its kick saved, or those the delivery above it saved for the      *)
(* handler it has called.  That is the inductive invariant: it relates     *)
(* each frame to the one above it.  A delivery owes only events that are   *)
(* still enabled in its class, so that the walk finds them.                *)
(*                                                                         *)
(* DiscFiles.  A read goes through sectors in a row, and no sector behind  *)
(* the one a byte lies in begins before the byte; so what the last sector  *)
(* brings is never written over (FsIInv).                                  *)
(*                                                                         *)
(* Lzss.  The decoder has, after every token, written each byte as the     *)
(* token that covers it says, and every byte but a literal repeats an      *)
(* earlier one; so what it has written is the only output the stream can   *)
(* mean (LzSoFar, MeaningIs).                                              *)
(*                                                                         *)
(* Unpacking.  The disc stage decodes bytes, the game's decompressor takes *)
(* the tokens that lie in them.  At every turn of the stage there is a     *)
(* number of whole tokens after which the game has written the same bytes  *)
(* and the stage is at the control byte or the token that follows          *)
(* (StRunning), or else the stage has ended and the game ends the same way *)
(* (StSettled).  A turn uses up a byte at least, so a stage that has made  *)
(* as many turns as there are bytes has ended.                             *)
(***************************************************************************)
EXTENDS Kernel, DiscFiles, Unpacking, Recursion, SequenceTheorems, FiniteSetTheorems, TLAPS

Intact(frame, i, regs) ==
  frame.kind = "code" /\ frame.ran =>
    /\ ~frame.parked
    /\ regs.args = i /\ regs.rest = i
    /\ frame.kicked \/ regs.hilo = i

\* What may stand on what.
Stands(frame, below) ==
  /\ frame.kind = "code" => below.kind \in {"walk", "kick"}
  /\ frame.kind = "walk" => below.kind \in {"code", "kick"}
  /\ frame.kind = "kick" => /\ below.kind = "code"
                            /\ frame.stage \in {9, 10} => ~frame.hook

\* Where the registers of the i-th frame are, when regs are the current ones
\* and the frame above it is the top one or not.
Kept(frame, i, above, top, regs) ==
  frame.kind = "code" /\ frame.ran =>
    \/ /\ above.kind = "walk"
       /\ Intact(frame, i, IF top THEN regs ELSE above.regs)
    \/ /\ above.kind = "kick" /\ above.hook /\ frame.kicked
       /\ Intact(frame, i, above.regs)

Sound(stack, regs) ==
  /\ stack \in Seq(KerFrames) /\ stack # << >>
  /\ stack[1].kind = "code" /\ stack[1].main
  /\ \A i \in 1..(Len(stack) - 1) :
       /\ Stands(stack[i + 1], stack[i])
       /\ Kept(stack[i], i, stack[i + 1], i + 1 = Len(stack), regs)
  /\ Intact(stack[Len(stack)], Len(stack), regs)

\* What a delivery owes: events that hear it, fired once it is past them.
Owing(frame, events) ==
  frame.kind = "walk" =>
    \A e \in frame.owed :
      /\ events[e].in_use /\ events[e].enabled /\ events[e].cls = frame.cls
      /\ e < frame.at => events[e].fired

Owed(stack, events) == \A i \in 1..Len(stack) : Owing(stack[i], events)

KerIInv ==
  /\ evt_tab \in [KerHandles -> KerEvents]
  /\ ker_regs \in KerRegs
  /\ hb_active \in BOOLEAN
  /\ Sound(ker_stack, ker_regs)
  /\ Owed(ker_stack, evt_tab)

-----------------------------------------------------------------------------
(* Frames and stacks.                                                      *)

\* The kind of a frame tells which set it is of.
LEMMA Kinds ==
  ASSUME NEW frame \in KerFrames
  PROVE  /\ frame.kind \in {"code", "walk", "kick"}
         /\ frame.kind = "code" => frame \in KerCodes
         /\ frame.kind = "walk" => frame \in KerWalks
         /\ frame.kind = "kick" => frame \in KerKicks
  BY DEF KerFrames, KerCodes, KerWalks, KerKicks

\* A stack that is not empty has a top.
LEMMA Tops ==
  ASSUME NEW stack \in Seq(KerFrames), stack # << >>
  PROVE  /\ Len(stack) \in Nat /\ Len(stack) >= 1
         /\ \A i \in 1..Len(stack) : stack[i] \in KerFrames
         /\ stack[Len(stack)] \in KerFrames
  OBVIOUS

\* The stack with another top.
LEMMA Replaced ==
  ASSUME NEW stack \in Seq(KerFrames), stack # << >>, NEW frame \in KerFrames
  PROVE  LET s == [stack EXCEPT ![Len(stack)] = frame]
         IN  /\ s \in Seq(KerFrames) /\ s # << >> /\ Len(s) = Len(stack)
             /\ \A i \in 1..(Len(stack) - 1) : s[i] = stack[i]
             /\ s[Len(stack)] = frame
  OBVIOUS

\* The stack with one more frame.
LEMMA Pushed ==
  ASSUME NEW stack \in Seq(KerFrames), NEW frame \in KerFrames
  PROVE  LET s == Append(stack, frame)
         IN  /\ s \in Seq(KerFrames) /\ s # << >> /\ Len(s) = Len(stack) + 1
             /\ \A i \in 1..Len(stack) : s[i] = stack[i]
             /\ s[Len(stack) + 1] = frame
  OBVIOUS

\* The stack without its top.
LEMMA Popped ==
  ASSUME NEW stack \in Seq(KerFrames), Len(stack) >= 2
  PROVE  LET s == SubSeq(stack, 1, Len(stack) - 1)
         IN  /\ s \in Seq(KerFrames) /\ s # << >> /\ Len(s) = Len(stack) - 1
             /\ \A i \in 1..(Len(stack) - 1) : s[i] = stack[i]
  <1> DEFINE n == Len(stack) - 1
  <1>1. n \in Nat /\ n >= 1 /\ \A i \in 1..n : stack[i] \in KerFrames
    OBVIOUS
  <1>2. /\ SubSeq(stack, 1, n) \in Seq(KerFrames)
        /\ Len(SubSeq(stack, 1, n)) = IF 1 <= n THEN n - 1 + 1 ELSE 0
        /\ \A i \in 1..(n - 1 + 1) : SubSeq(stack, 1, n)[i] = stack[1 + i - 1]
    <2>1. 1 \in Int /\ n \in Int
      BY <1>1
    <2>2. \A i \in 1..n : stack[i] \in KerFrames
      BY <1>1
    <2> HIDE DEF n
    <2> QED BY <2>1, <2>2, SubSeqProperties
  <1> HIDE DEF n
  <1>3. \A i \in 1..n : SubSeq(stack, 1, n)[i] = stack[i]
    <2> TAKE i \in 1..n
    <2>1. n - 1 + 1 = n /\ 1 + i - 1 = i
      BY <1>1
    <2> QED BY <1>2, <2>1
  <1>4. Len(SubSeq(stack, 1, n)) = n
    BY <1>1, <1>2
  <1>5. SubSeq(stack, 1, n) # << >>
    BY <1>1, <1>2, <1>4
  <1> QED BY <1>2, <1>3, <1>4, <1>5 DEF n

-----------------------------------------------------------------------------
(* What the changes of the stack do to the registers' places.              *)

\* The new top stands where the old one stood and keeps what it had saved.
Takes(frame, old) ==
  /\ frame.kind = old.kind
  /\ frame.kind = "code" => frame.main = old.main
  /\ frame.kind = "kick" => /\ frame.hook = old.hook /\ frame.regs = old.regs
                            /\ frame.stage \in {9, 10} => ~frame.hook

LEMMA SoundReplace ==
  ASSUME NEW stack, NEW regs, Sound(stack, regs), NEW frame \in KerFrames,
         Takes(frame, stack[Len(stack)]), NEW regs2,
         frame.kind = "walk" => regs2 = regs,
         Intact(frame, Len(stack), regs2)
  PROVE  Sound([stack EXCEPT ![Len(stack)] = frame], regs2)
  <1> DEFINE n == Len(stack)
             s == [stack EXCEPT ![n] = frame]
  <1>1. stack \in Seq(KerFrames) /\ stack # << >> /\ n \in Nat /\ n >= 1
    BY DEF Sound
  <1>2. /\ s \in Seq(KerFrames) /\ s # << >> /\ Len(s) = n
        /\ \A i \in 1..(n - 1) : s[i] = stack[i]
        /\ s[n] = frame
    BY <1>1, Replaced
  <1> HIDE DEF s
  <1>3. s[1].kind = "code" /\ s[1].main
    BY <1>1, <1>2 DEF Sound, Takes
  <1>4. ASSUME NEW i \in 1..(n - 1)
        PROVE  Stands(s[i + 1], s[i]) /\ Kept(s[i], i, s[i + 1], i + 1 = n, regs2)
    <2>1. /\ Stands(stack[i + 1], stack[i])
          /\ Kept(stack[i], i, stack[i + 1], i + 1 = n, regs)
          /\ s[i] = stack[i]
      BY <1>1, <1>2 DEF Sound
    <2>2. CASE i + 1 < n
      <3>1. s[i + 1] = stack[i + 1]
        BY <1>1, <1>2, <2>2
      <3> QED BY <1>1, <2>1, <2>2, <3>1 DEF Kept
    <2>3. CASE i + 1 = n
      <3>1. s[i + 1] = frame /\ stack[n].kind = frame.kind
        BY <1>1, <1>2, <2>3 DEF Takes
      <3>2. Stands(frame, stack[i])
        BY <2>1, <2>3, <3>1 DEF Stands, Takes
      <3>3. Kept(stack[i], i, frame, TRUE, regs2)
        BY <2>1, <2>3, <3>1 DEF Kept, Stands, Takes
      <3> QED BY <2>1, <2>3, <3>1, <3>2, <3>3
    <2> QED BY <1>1, <2>2, <2>3
  <1> QED BY <1>1, <1>2, <1>3, <1>4 DEF Sound, s

LEMMA SoundPush ==
  ASSUME NEW stack, NEW regs, Sound(stack, regs), NEW frame \in KerFrames, NEW regs2,
         LET n == Len(stack)
             top == stack[n]
         IN  /\ Stands(frame, top)
             /\ Kept(top, n, frame, TRUE, regs2)
             /\ top.kind = "walk" => top.regs = regs
             /\ Intact(frame, n + 1, regs2)
  PROVE  Sound(Append(stack, frame), regs2)
  <1> DEFINE n == Len(stack)
             s == Append(stack, frame)
  <1>1. stack \in Seq(KerFrames) /\ stack # << >> /\ n \in Nat /\ n >= 1
    BY DEF Sound
  <1>2. /\ s \in Seq(KerFrames) /\ s # << >> /\ Len(s) = n + 1
        /\ \A i \in 1..n : s[i] = stack[i]
        /\ s[n + 1] = frame
    BY <1>1, Pushed
  <1> HIDE DEF s
  <1>3. s[1].kind = "code" /\ s[1].main
    BY <1>1, <1>2 DEF Sound
  <1>4. ASSUME NEW i \in 1..n
        PROVE  Stands(s[i + 1], s[i]) /\ Kept(s[i], i, s[i + 1], i + 1 = n + 1, regs2)
    <2>1. CASE i < n
      <3>1. /\ Stands(stack[i + 1], stack[i])
            /\ Kept(stack[i], i, stack[i + 1], i + 1 = n, regs)
            /\ s[i] = stack[i] /\ s[i + 1] = stack[i + 1]
        BY <1>1, <1>2, <2>1 DEF Sound
      <3>2. i + 1 = n /\ stack[i + 1].kind = "walk" => stack[i + 1].regs = regs
        BY <1>1
      <3>3. Kept(stack[i], i, stack[i + 1], FALSE, regs2)
        BY <3>1, <3>2 DEF Kept
      <3>4. (i + 1 = n + 1) = FALSE
        BY <1>1, <2>1
      <3> QED BY <3>1, <3>3, <3>4
    <2>2. CASE i = n
      <3>1. s[i] = stack[n] /\ s[i + 1] = frame /\ (i + 1 = n + 1) = TRUE
        BY <1>1, <1>2, <2>2
      <3> QED BY <2>2, <3>1
    <2> QED BY <1>1, <2>1, <2>2
  <1>5. n + 1 - 1 = n
    BY <1>1
  <1>6. Intact(s[n + 1], n + 1, regs2)
    BY <1>2
  <1>7. Len(s) - 1 = n
    BY <1>2, <1>5
  <1>8. Sound(s, regs2)
    BY <1>2, <1>3, <1>4, <1>6, <1>7 DEF Sound
  <1> QED BY <1>8 DEF s

LEMMA SoundPop ==
  ASSUME NEW stack, NEW regs, Sound(stack, regs), Len(stack) >= 2, NEW regs2,
         LET n == Len(stack)
             top == stack[n]
         IN  /\ top.kind = "walk" => regs2 = regs
             /\ top.kind = "kick" /\ top.hook => /\ regs2.args = top.regs.args
                                                 /\ regs2.rest = top.regs.rest
             /\ top.kind = "code" /\ stack[n - 1].kind = "walk" =>
                  regs2 = stack[n - 1].regs
  PROVE  Sound(SubSeq(stack, 1, Len(stack) - 1), regs2)
  <1> DEFINE n == Len(stack)
             s == SubSeq(stack, 1, n - 1)
  <1>1. stack \in Seq(KerFrames) /\ stack # << >> /\ n \in Nat /\ n >= 2
    BY DEF Sound
  <1>2. /\ s \in Seq(KerFrames) /\ s # << >> /\ Len(s) = n - 1
        /\ \A i \in 1..(n - 1) : s[i] = stack[i]
    BY <1>1, Popped
  <1> HIDE DEF s
  <1>3. s[1].kind = "code" /\ s[1].main
    BY <1>1, <1>2 DEF Sound
  <1>a. /\ Stands(stack[n], stack[n - 1])
        /\ Kept(stack[n - 1], n - 1, stack[n], TRUE, regs)
    <2>1. n - 1 \in 1..(n - 1) /\ (n - 1) + 1 = n
      BY <1>1
    <2>2. /\ Stands(stack[(n - 1) + 1], stack[n - 1])
          /\ Kept(stack[n - 1], n - 1, stack[(n - 1) + 1], (n - 1) + 1 = n, regs)
      BY <2>1 DEF Sound
    <2> QED BY <2>1, <2>2
  <1>4. ASSUME NEW i \in 1..(n - 2)
        PROVE  Stands(s[i + 1], s[i]) /\ Kept(s[i], i, s[i + 1], i + 1 = n - 1, regs2)
    <2>1. /\ Stands(stack[i + 1], stack[i])
          /\ Kept(stack[i], i, stack[i + 1], i + 1 = n, regs)
          /\ s[i] = stack[i] /\ s[i + 1] = stack[i + 1] /\ i + 1 # n
      BY <1>1, <1>2 DEF Sound
    <2>2. i + 1 = n - 1 /\ stack[i + 1].kind = "walk" =>
            stack[n].kind = "code" /\ regs2 = stack[i + 1].regs
      <3>1. stack[n] \in KerFrames
        BY <1>1
      <3> QED BY <1>a, <3>1, Kinds DEF Stands
    <2> QED BY <2>1, <2>2 DEF Kept
  <1>5. Intact(stack[n - 1], n - 1, regs2)
    BY <1>a DEF Kept, Intact
  <1>6. (n - 1) - 1 = n - 2
    BY <1>1
  <1>7. Len(s) - 1 = n - 2
    BY <1>1, <1>2, <1>6
  <1>8. s[n - 1] = stack[n - 1]
    BY <1>1, <1>2
  <1>9. Sound(s, regs2)
    BY <1>2, <1>3, <1>4, <1>5, <1>7, <1>8 DEF Sound
  <1> QED BY <1>9 DEF s

-----------------------------------------------------------------------------
(* What they do to the events that are owed.                               *)

LEMMA OwedReplace ==
  ASSUME NEW stack \in Seq(KerFrames), stack # << >>, NEW events, Owed(stack, events),
         NEW frame \in KerFrames, Owing(frame, events)
  PROVE  Owed([stack EXCEPT ![Len(stack)] = frame], events)
  BY DEF Owed

LEMMA OwedPush ==
  ASSUME NEW stack \in Seq(KerFrames), NEW events, Owed(stack, events),
         NEW frame \in KerFrames, Owing(frame, events)
  PROVE  Owed(Append(stack, frame), events)
  BY DEF Owed

LEMMA OwedPop ==
  ASSUME NEW stack \in Seq(KerFrames), Len(stack) >= 2, NEW events, Owed(stack, events)
  PROVE  Owed(SubSeq(stack, 1, Len(stack) - 1), events)
  BY Popped DEF Owed

-----------------------------------------------------------------------------
(* The calls that take an event from what is owed.                         *)

\* The stack afterwards: only the deliveries' debts are smaller.
LEMMA Excused ==
  ASSUME KerIInv, NEW x \in KerHandles
  PROVE  /\ Sound(KerExcused(x), ker_regs)
         /\ \A events : /\ Owed(ker_stack, evt_tab)
                        /\ \A e \in KerHandles \ {x} : events[e] = evt_tab[e]
                        => Owed(KerExcused(x), events)
  <1> DEFINE n == Len(ker_stack)
             s == KerExcused(x)
  <1>1. /\ ker_stack \in Seq(KerFrames) /\ ker_stack # << >> /\ n \in Nat /\ n >= 1
        /\ \A i \in 1..n : ker_stack[i] \in KerFrames
    BY DEF KerIInv, Sound
  <1>2. s = [i \in 1..n |-> IF ker_stack[i].kind = "walk"
                            THEN [ker_stack[i] EXCEPT !.owed = @ \ {x}] ELSE ker_stack[i]]
    BY DEF KerExcused, KerDepth
  <1>3. ASSUME NEW i \in 1..n
        PROVE  /\ s[i] \in KerFrames
               /\ s[i].kind = ker_stack[i].kind
               /\ s[i].kind # "walk" => s[i] = ker_stack[i]
               /\ s[i].kind = "walk" =>
                    /\ s[i].regs = ker_stack[i].regs /\ s[i].cls = ker_stack[i].cls
                    /\ s[i].at = ker_stack[i].at
                    /\ s[i].owed = ker_stack[i].owed \ {x}
                    /\ s[i].owed \subseteq KerHandles
    <2>1. CASE ker_stack[i].kind = "walk"
      <3>1. ker_stack[i] \in KerWalks
        BY <1>1, <2>1, Kinds
      <3>2. s[i] = [ker_stack[i] EXCEPT !.owed = @ \ {x}]
        BY <1>2, <2>1
      <3>3. s[i] \in KerWalks
        BY <3>1, <3>2 DEF KerWalks
      <3> QED BY <2>1, <3>1, <3>2, <3>3 DEF KerWalks, KerFrames
    <2>2. CASE ker_stack[i].kind # "walk"
      BY <1>1, <1>2, <2>2
    <2> QED BY <2>1, <2>2
  <1>4. s \in Seq(KerFrames) /\ Len(s) = n /\ s # << >>
    BY <1>1, <1>2, <1>3
  <1> HIDE DEF s
  <1>5. Sound(s, ker_regs)
    <2>1. s[1].kind = "code" /\ s[1].main
      BY <1>1, <1>3 DEF KerIInv, Sound
    <2>2. ASSUME NEW i \in 1..(n - 1)
          PROVE  Stands(s[i + 1], s[i]) /\ Kept(s[i], i, s[i + 1], i + 1 = n, ker_regs)
      <3>1. i \in 1..n /\ i + 1 \in 1..n
        BY <1>1
      <3>2. /\ Stands(ker_stack[i + 1], ker_stack[i])
            /\ Kept(ker_stack[i], i, ker_stack[i + 1], i + 1 = n, ker_regs)
        BY DEF KerIInv, Sound
      <3>3. Stands(s[i + 1], s[i])
        BY <1>3, <3>1, <3>2 DEF Stands
      <3>4. Kept(s[i], i, s[i + 1], i + 1 = n, ker_regs)
        BY <1>3, <3>1, <3>2 DEF Kept, Intact
      <3> QED BY <3>3, <3>4
    <2>3. Intact(s[n], n, ker_regs)
      BY <1>1, <1>3 DEF KerIInv, Sound, Intact
    <2> QED BY <1>4, <2>1, <2>2, <2>3 DEF Sound
  <1>6. ASSUME NEW events, Owed(ker_stack, evt_tab),
               \A e \in KerHandles \ {x} : events[e] = evt_tab[e]
        PROVE  Owed(s, events)
    <2>1. ASSUME NEW i \in 1..n
          PROVE  Owing(s[i], events)
      BY <1>3, <1>6, <2>1 DEF Owed, Owing
    <2> QED BY <1>4, <2>1 DEF Owed
  <1> QED BY <1>5, <1>6 DEF s

\* A call that changes one event and takes it from what is owed.
LEMMA EventStep ==
  ASSUME KerIInv, NEW x \in KerHandles, NEW event \in KerEvents,
         evt_tab' = [evt_tab EXCEPT ![x] = event], ker_stack' = KerExcused(x),
         UNCHANGED <<ker_regs, hb_active>>
  PROVE  KerIInv'
  <1>1. evt_tab' \in [KerHandles -> KerEvents]
    BY DEF KerIInv
  <1>2. \A e \in KerHandles \ {x} : evt_tab'[e] = evt_tab[e]
    BY DEF KerIInv
  <1>3. Sound(ker_stack', ker_regs') /\ Owed(ker_stack', evt_tab')
    BY <1>2, Excused DEF KerIInv
  <1> QED BY <1>1, <1>3 DEF KerIInv

-----------------------------------------------------------------------------
(* The steps.                                                              *)

\* The guest's calls to the event gates.
LEMMA EventCalls ==
  ASSUME KerIInv,
         \/ \E cls \in KerClasses, handler \in KerHandlers : KerOpenEvent(cls, handler)
         \/ \E e \in KerHandles : KerCloseEvent(e) \/ KerWaitEvent(e) \/ KerDisableEvent(e)
  PROVE  KerIInv'
  <1>1. CASE \E cls \in KerClasses, handler \in KerHandlers : KerOpenEvent(cls, handler)
    <2>1. PICK cls \in KerClasses, handler \in KerHandlers : KerOpenEvent(cls, handler)
      BY <1>1
    <2> DEFINE event == [cls |-> cls, handler |-> handler, in_use |-> TRUE,
                         enabled |-> FALSE, fired |-> FALSE]
    <2>2. event \in KerEvents
      BY DEF KerEvents
    <2>3. \E e \in KerHandles : /\ evt_tab' = [evt_tab EXCEPT ![e] = event]
                                /\ ker_stack' = KerExcused(e)
      BY <2>1 DEF KerOpenEvent
    <2> QED BY <2>1, <2>2, <2>3, EventStep DEF KerOpenEvent
  <1>2. CASE \E e \in KerHandles : KerCloseEvent(e) \/ KerWaitEvent(e) \/ KerDisableEvent(e)
    <2>1. PICK e \in KerHandles : KerCloseEvent(e) \/ KerWaitEvent(e) \/ KerDisableEvent(e)
      BY <1>2
    <2>2. evt_tab \in [KerHandles -> KerEvents]
      BY DEF KerIInv
    <2>3. \E event \in KerEvents : evt_tab' = [evt_tab EXCEPT ![e] = event]
      <3>1. CASE KerCloseEvent(e)
        <4>1. [evt_tab[e] EXCEPT !.in_use = FALSE] \in KerEvents
          BY <2>2 DEF KerEvents
        <4> QED BY <3>1, <4>1, <2>2 DEF KerCloseEvent
      <3>2. CASE KerWaitEvent(e)
        <4>1. [evt_tab[e] EXCEPT !.fired = FALSE] \in KerEvents
          BY <2>2 DEF KerEvents
        <4> QED BY <3>2, <4>1, <2>2 DEF KerWaitEvent
      <3>3. CASE KerDisableEvent(e)
        <4>1. [evt_tab[e] EXCEPT !.enabled = FALSE] \in KerEvents
          BY <2>2 DEF KerEvents
        <4> QED BY <3>3, <4>1, <2>2 DEF KerDisableEvent
      <3> QED BY <2>1, <3>1, <3>2, <3>3
    <2>4. ker_stack' = KerExcused(e) /\ UNCHANGED <<ker_regs, hb_active>>
      BY <2>1 DEF KerCloseEvent, KerWaitEvent, KerDisableEvent
    <2> QED BY <2>3, <2>4, EventStep
  <1> QED BY <1>1, <1>2

\* Enabling an event takes nothing from what is owed.
LEMMA EnableStep ==
  ASSUME KerIInv, NEW e \in KerHandles, KerEnableEvent(e)
  PROVE  KerIInv'
  <1>1. /\ evt_tab \in [KerHandles -> KerEvents] /\ ker_stack \in Seq(KerFrames)
        /\ evt_tab' = [evt_tab EXCEPT ![e].enabled = TRUE]
        /\ UNCHANGED <<ker_stack, ker_regs, hb_active>>
    BY DEF KerIInv, Sound, KerEnableEvent
  <1>2. evt_tab' \in [KerHandles -> KerEvents]
    <2>1. [evt_tab[e] EXCEPT !.enabled = TRUE] \in KerEvents
      BY <1>1 DEF KerEvents
    <2> QED BY <1>1, <2>1
  <1>3. \A f \in KerHandles : /\ evt_tab'[f].in_use = evt_tab[f].in_use
                              /\ evt_tab[f].enabled => evt_tab'[f].enabled
                              /\ evt_tab'[f].cls = evt_tab[f].cls
                              /\ evt_tab'[f].fired = evt_tab[f].fired
    BY <1>1 DEF KerEvents
  <1>4. ASSUME NEW i \in 1..Len(ker_stack)
        PROVE  Owing(ker_stack[i], evt_tab')
    <2>1. ker_stack[i] \in KerFrames
      BY <1>1
    <2>2. ker_stack[i].kind = "walk" => ker_stack[i].owed \subseteq KerHandles
      BY <2>1, Kinds DEF KerWalks
    <2> QED BY <1>3, <2>2 DEF KerIInv, Owed, Owing
  <1>5. Owed(ker_stack', evt_tab')
    BY <1>1, <1>4 DEF Owed
  <1> QED BY <1>1, <1>2, <1>5 DEF KerIInv

\* What is true of the top of a stack, whatever step is taken.
LEMMA OnTop ==
  ASSUME KerIInv
  PROVE  /\ ker_stack \in Seq(KerFrames) /\ ker_stack # << >>
         /\ KerDepth = Len(ker_stack) /\ KerDepth \in Nat /\ KerDepth >= 1
         /\ KerTop = ker_stack[Len(ker_stack)] /\ KerTop \in KerFrames
         /\ KerTop.kind = "code" => KerTop \in KerCodes
         /\ KerTop.kind = "walk" => KerTop \in KerWalks
         /\ KerTop.kind = "kick" => KerTop \in KerKicks
         /\ Sound(ker_stack, ker_regs) /\ Owed(ker_stack, evt_tab)
         /\ Intact(KerTop, Len(ker_stack), ker_regs) /\ Owing(KerTop, evt_tab)
         /\ KerCalled \in KerRegs
  <1>1. /\ ker_stack \in Seq(KerFrames) /\ ker_stack # << >>
        /\ Sound(ker_stack, ker_regs) /\ Owed(ker_stack, evt_tab)
        /\ Intact(ker_stack[Len(ker_stack)], Len(ker_stack), ker_regs)
    BY DEF KerIInv, Sound
  <1>2. /\ KerDepth = Len(ker_stack) /\ KerDepth \in Nat /\ KerDepth >= 1
        /\ KerTop = ker_stack[Len(ker_stack)] /\ KerTop \in KerFrames
    BY <1>1 DEF KerDepth, KerTop
  <1>3. Owing(KerTop, evt_tab)
    BY <1>1, <1>2 DEF Owed
  <1>4. KerCalled \in KerRegs
    BY DEF KerCalled, KerIInv, KerRegs, KerHost, KerOwners
  <1> QED BY <1>1, <1>2, <1>3, <1>4, Kinds

\* Code pushed by the host: it has written nothing yet.
LEMMA FreshCode ==
  /\ KerCode \in KerFrames /\ KerCode.kind = "code"
  /\ \A i, regs : Intact(KerCode, i, regs)
  /\ \A events : Owing(KerCode, events)
  BY DEF KerCode, KerFrames, KerCodes, Intact, Owing

\* Guest code computes, or main code parks.
LEMMA CodeSteps ==
  ASSUME KerIInv, KerCompute \/ KerPark
  PROVE  KerIInv'
  <1>1. KerTop.kind = "code"
    BY DEF KerCompute, KerPark, KerRuns, KerOnTop
  <1>2. CASE KerCompute
    <2> DEFINE frame == [KerTop EXCEPT !.ran = TRUE, !.kicked = FALSE]
    <2>1. frame \in KerFrames /\ Takes(frame, KerTop) /\ Owing(frame, evt_tab)
          /\ frame.kind = "code"
      BY <1>1, OnTop DEF KerCodes, KerFrames, Takes, Owing
    <2>2. ker_regs' = [args |-> KerDepth, rest |-> KerDepth, hilo |-> KerDepth]
      BY <1>2 DEF KerCompute
    <2>3. ~frame.parked
      BY <1>1, <1>2, OnTop DEF KerCompute, KerRuns, KerCodes
    <2>4. Intact(frame, Len(ker_stack), ker_regs') /\ ker_regs' \in KerRegs
      BY <2>2, <2>3, OnTop DEF Intact, KerRegs, KerOwners
    <2>5. ker_stack' = [ker_stack EXCEPT ![Len(ker_stack)] = frame]
      BY <1>2 DEF KerCompute, KerWith, KerDepth
    <2> HIDE DEF frame
    <2>6. Sound(ker_stack', ker_regs')
      BY <2>1, <2>4, <2>5, OnTop, SoundReplace
    <2>7. Owed(ker_stack', evt_tab)
      BY <2>1, <2>5, OnTop, OwedReplace
    <2> QED BY <1>2, <2>4, <2>6, <2>7 DEF KerIInv, KerCompute
  <1>3. CASE KerPark
    <2> DEFINE frame == [KerTop EXCEPT !.parked = TRUE, !.ran = FALSE]
    <2>1. frame \in KerFrames /\ Takes(frame, KerTop) /\ Owing(frame, evt_tab)
          /\ Intact(frame, Len(ker_stack), ker_regs) /\ frame.kind = "code"
      BY <1>1, OnTop DEF KerCodes, KerFrames, Takes, Owing, Intact
    <2>2. ker_stack' = [ker_stack EXCEPT ![Len(ker_stack)] = frame]
      BY <1>3 DEF KerPark, KerWith, KerDepth
    <2> HIDE DEF frame
    <2>3. Sound(ker_stack', ker_regs)
      BY <2>1, <2>2, OnTop, SoundReplace
    <2>4. Owed(ker_stack', evt_tab)
      BY <2>1, <2>2, OnTop, OwedReplace
    <2> QED BY <1>3, <2>3, <2>4 DEF KerIInv, KerPark
  <1> QED BY <1>2, <1>3

\* A new delivery owes what hears it, and has the registers of the code that
\* calls it.
LEMMA FreshWalk ==
  ASSUME KerIInv, NEW cls \in KerClasses \cup {"vblank", "timer", "disc"},
         NEW regs \in KerRegs
  PROVE  LET frame == KerWalkOf(cls, regs)
         IN  /\ frame \in KerFrames /\ frame.kind = "walk" /\ frame.regs = regs
             /\ Owing(frame, evt_tab)
             /\ \A i, r : Intact(frame, i, r)
  <1> DEFINE frame == KerWalkOf(cls, regs)
  <1>1. frame = [kind |-> "walk", cls |-> cls, at |-> 1,
                 owed |-> {e \in KerHandles : KerHears(e, cls)}, regs |-> regs]
    BY DEF KerWalkOf
  <1>2. 1 \in 1..(KerSlots + 1)
    BY KerAssumption
  <1>3. frame \in KerWalks
    BY <1>1, <1>2 DEF KerWalks
  <1>4. Owing(frame, evt_tab)
    BY <1>1 DEF Owing, KerHears, KerHandles
  <1> QED BY <1>1, <1>3, <1>4 DEF KerFrames, Intact

LEMMA DeliverSteps ==
  ASSUME KerIInv, (\E cls \in KerClasses : KerDeliverEvent(cls)) \/ KerSoundEnds
  PROVE  KerIInv'
  <1>1. PICK cls \in KerClasses \cup {"vblank", "timer", "disc"} :
               KerRuns /\ KerDeliver(cls)
    BY DEF KerDeliverEvent, KerSoundEnds
  <1> DEFINE frame == KerWalkOf(cls, ker_regs)
  <1>3. /\ frame \in KerFrames /\ frame.kind = "walk"
        /\ Owing(frame, evt_tab)
        /\ \A i, r : Intact(frame, i, r)
    BY FreshWalk DEF KerIInv
  <1>4. KerTop.kind = "code" /\ ker_stack' = Append(ker_stack, frame)
        /\ UNCHANGED <<evt_tab, ker_regs, hb_active>>
    BY <1>1 DEF KerRuns, KerOnTop, KerDeliver, KerPush
  <1> HIDE DEF frame
  <1>5. Stands(frame, KerTop) /\ Kept(KerTop, Len(ker_stack), frame, TRUE, ker_regs)
    BY <1>3, <1>4, OnTop DEF Stands, Kept
  <1>6. Sound(ker_stack', ker_regs)
    BY <1>3, <1>4, <1>5, OnTop, SoundPush
  <1>7. Owed(ker_stack', evt_tab)
    BY <1>3, <1>4, OnTop, OwedPush
  <1> QED BY <1>4, <1>6, <1>7 DEF KerIInv

\* The steps of a delivery: it fires events, calls a handler or comes to the
\* end of the table.
LEMMA WalkSteps ==
  ASSUME KerIInv, KerWalkOn \/ KerWalkOut
  PROVE  KerIInv'
  <1>1. KerTop.kind = "walk" /\ KerTop \in KerWalks
    BY OnTop DEF KerWalkOn, KerWalkOut, KerOnTop
  <1>2. /\ evt_tab \in [KerHandles -> KerEvents] /\ ker_regs \in KerRegs
        /\ \A i \in 1..Len(ker_stack) : ker_stack[i].kind = "walk" =>
             ker_stack[i].owed \subseteq KerHandles
    <2>1. ASSUME NEW i \in 1..Len(ker_stack), ker_stack[i].kind = "walk"
          PROVE  ker_stack[i].owed \subseteq KerHandles
      <3>1. ker_stack[i] \in KerFrames
        BY OnTop
      <3> QED BY <2>1, <3>1, Kinds DEF KerWalks
    <2> QED BY <2>1 DEF KerIInv
  <1>3. ASSUME NEW some, KerFire(some)
        PROVE  /\ evt_tab' \in [KerHandles -> KerEvents]
               /\ Owed(ker_stack, evt_tab') /\ Owing(KerTop, evt_tab')
               /\ \A e \in some \cap KerHandles : evt_tab'[e].fired
    <2>1. evt_tab' = [e \in KerHandles |->
                        IF e \in some THEN [evt_tab[e] EXCEPT !.fired = TRUE]
                        ELSE evt_tab[e]]
      BY <1>3 DEF KerFire
    <2>2. evt_tab' \in [KerHandles -> KerEvents]
      BY <1>2, <2>1 DEF KerEvents
    <2>3. \A e \in KerHandles : /\ evt_tab'[e].in_use = evt_tab[e].in_use
                                /\ evt_tab'[e].enabled = evt_tab[e].enabled
                                /\ evt_tab'[e].cls = evt_tab[e].cls
                                /\ evt_tab[e].fired => evt_tab'[e].fired
      BY <1>2, <2>1 DEF KerEvents
    <2>4. ASSUME NEW i \in 1..Len(ker_stack)
          PROVE  Owing(ker_stack[i], evt_tab')
      <3>1. Owing(ker_stack[i], evt_tab)
        BY OnTop DEF Owed
      <3> QED BY <1>2, <2>3, <3>1 DEF Owing
    <2>5. evt_tab' \in [KerHandles -> KerEvents] /\ Owed(ker_stack, evt_tab')
      BY <2>2, <2>4 DEF Owed
    <2>6. Owing(KerTop, evt_tab')
      BY <2>5, OnTop DEF Owed
    <2>7. \A e \in some \cap KerHandles : evt_tab'[e].fired
      BY <1>2, <2>1 DEF KerEvents
    <2> QED BY <2>5, <2>6, <2>7
  \* An event that is owed and not yet passed is among the hits.
  <1>4. \A e \in KerTop.owed : e >= KerTop.at => e \in KerHits
    BY <1>1, OnTop DEF KerHits, KerHears, KerWalks, KerHandles, Owing
  <1>5. CASE KerWalkOn
    <2>1. PICK e \in KerCalls :
            /\ KerFire({f \in KerHits : f <= e})
            /\ ker_stack' = Append(KerWith([KerTop EXCEPT !.at = e + 1,
                                                          !.regs = ker_regs]), KerCode)
      BY <1>5 DEF KerWalkOn
    <2>2. e \in KerHandles /\ KerHits \subseteq KerHandles
      BY <1>1 DEF KerCalls, KerHits, KerHandles, KerWalks
    <2> DEFINE frame == [KerTop EXCEPT !.at = e + 1, !.regs = ker_regs]
               mid == [ker_stack EXCEPT ![Len(ker_stack)] = frame]
    <2>3. /\ frame \in KerWalks /\ frame.kind = "walk" /\ frame.regs = ker_regs
          /\ frame.owed = KerTop.owed /\ frame.at = e + 1 /\ frame.cls = KerTop.cls
      <3>1. e + 1 \in 1..(KerSlots + 1)
        BY <2>2, KerAssumption DEF KerHandles
      <3>2. KerTop \in KerWalks /\ ker_regs \in KerRegs
        BY <1>1, <1>2
      <3> QED BY ONLY <3>1, <3>2 DEF KerWalks
    <2>4. ker_stack' = Append(mid, KerCode)
      BY <2>1 DEF KerWith, KerDepth
    <2>5. ker_regs' = KerCalled /\ UNCHANGED hb_active
      BY <1>5 DEF KerWalkOn
    <2> HIDE DEF frame
    <2>6. frame \in KerFrames /\ Takes(frame, KerTop)
          /\ Intact(frame, Len(ker_stack), ker_regs)
      BY <1>1, <2>3 DEF KerFrames, Takes, Intact
    <2>7. Owing(frame, evt_tab')
      <3>1. Owing(KerTop, evt_tab')
        BY <1>3, <2>1
      <3>2. ASSUME NEW f \in KerTop.owed, f < e + 1
            PROVE  evt_tab'[f].fired
        <4>1. f \in KerHandles /\ KerTop.at \in Int /\ f \in Int /\ e \in Int
          BY <1>1, <2>2 DEF KerWalks, KerHandles
        <4>2. CASE f < KerTop.at
          BY <3>1, <1>1, <4>2 DEF Owing
        <4>3. CASE f >= KerTop.at
          <5>1. f \in {g \in KerHits : g <= e} \cap KerHandles
            BY <1>4, <3>2, <4>1, <4>3
          <5> QED BY <1>3, <2>1, <5>1
        <4> QED BY <4>1, <4>2, <4>3
      <3> QED BY <1>1, <2>3, <3>1, <3>2 DEF Owing
    <2>8. mid \in Seq(KerFrames) /\ mid # << >> /\ Len(mid) = Len(ker_stack)
          /\ mid[Len(mid)] = frame
      BY <2>6, OnTop, Replaced
    <2>9. Sound(mid, ker_regs) /\ Owed(mid, evt_tab')
      <3>1. Sound(mid, ker_regs)
        BY <2>6, OnTop, SoundReplace
      <3>2. Owed(ker_stack, evt_tab')
        BY <1>3, <2>1
      <3> QED BY <2>6, <2>7, <3>1, <3>2, OnTop, OwedReplace
    <2> HIDE DEF mid
    <2>10. Sound(ker_stack', ker_regs')
      <3>1. /\ Stands(KerCode, frame)
            /\ Kept(frame, Len(mid), KerCode, TRUE, ker_regs')
            /\ Intact(KerCode, Len(mid) + 1, ker_regs')
        BY <2>3, FreshCode DEF Stands, Kept
      <3> QED BY <2>3, <2>4, <2>8, <2>9, <3>1, FreshCode, SoundPush
    <2>11. Owed(ker_stack', evt_tab')
      BY <2>4, <2>8, <2>9, FreshCode, OwedPush
    <2>12. evt_tab' \in [KerHandles -> KerEvents]
      BY <1>3, <2>1
    <2>13. ker_regs' \in KerRegs
      BY <2>5, OnTop
    <2> QED BY <2>5, <2>10, <2>11, <2>12, <2>13 DEF KerIInv
  <1>6. CASE KerWalkOut
    <2> DEFINE frame == [KerTop EXCEPT !.at = KerSlots + 1]
    <2>1. /\ frame \in KerWalks /\ frame.kind = "walk" /\ frame.cls = KerTop.cls
          /\ frame.owed = KerTop.owed /\ frame.at = KerSlots + 1
      BY <1>1, KerAssumption DEF KerWalks
    <2>2. /\ KerFire(KerHits)
          /\ ker_stack' = [ker_stack EXCEPT ![Len(ker_stack)] = frame]
          /\ UNCHANGED <<ker_regs, hb_active>>
      BY <1>6 DEF KerWalkOut, KerWith, KerDepth
    <2> HIDE DEF frame
    <2>3. frame \in KerFrames /\ Takes(frame, KerTop)
          /\ Intact(frame, Len(ker_stack), ker_regs)
      BY <1>1, <2>1 DEF KerFrames, Takes, Intact
    <2>4. Owing(frame, evt_tab')
      <3>1. Owing(KerTop, evt_tab')
        BY <1>3, <2>2
      <3>2. ASSUME NEW f \in KerTop.owed
            PROVE  evt_tab'[f].fired
        <4>1. f \in KerHandles /\ KerTop.at \in Int /\ f \in Int
          BY <1>1 DEF KerWalks, KerHandles
        <4>2. CASE f < KerTop.at
          BY <3>1, <1>1, <4>2 DEF Owing
        <4>3. CASE f >= KerTop.at
          <5>1. f \in KerHits \cap KerHandles
            BY <1>4, <4>1, <4>3
          <5> QED BY <1>3, <2>2, <5>1
        <4> QED BY <4>1, <4>2, <4>3
      <3> QED BY <1>1, <2>1, <3>1, <3>2 DEF Owing
    <2>5. Sound(ker_stack', ker_regs)
      BY <2>2, <2>3, OnTop, SoundReplace
    <2>6. Owed(ker_stack', evt_tab')
      <3>1. Owed(ker_stack, evt_tab')
        BY <1>3, <2>2
      <3> QED BY <2>2, <2>3, <2>4, <3>1, OnTop, OwedReplace
    <2>7. evt_tab' \in [KerHandles -> KerEvents]
      BY <1>3, <2>2
    <2> QED BY <1>2, <2>2, <2>5, <2>6, <2>7 DEF KerIInv
  <1> QED BY <1>5, <1>6

\* A frame goes when it is not main code: there is one below it.
LEMMA NotLast ==
  ASSUME KerIInv, KerTop.kind # "code" \/ ~KerTop.main
  PROVE  /\ Len(ker_stack) >= 2
         /\ Stands(KerTop, ker_stack[Len(ker_stack) - 1])
  <1> DEFINE n == Len(ker_stack)
  <1>1. n \in Nat /\ n >= 1 /\ KerTop = ker_stack[n]
    BY OnTop
  <1>2. ker_stack[1].kind = "code" /\ ker_stack[1].main
    BY DEF KerIInv, Sound
  <1>3. n >= 2
    BY <1>1, <1>2
  <1>4. n - 1 \in 1..(n - 1) /\ (n - 1) + 1 = n
    BY <1>1, <1>3
  <1>5. Stands(ker_stack[(n - 1) + 1], ker_stack[n - 1])
    BY <1>4 DEF KerIInv, Sound
  <1> QED BY <1>1, <1>3, <1>4, <1>5

\* A delivery ends, dispatched code returns, a kick ends.
LEMMA PopSteps ==
  ASSUME KerIInv, KerWalkEnds \/ KerReturn \/ KerKickEnds \/ KerParkEnds
  PROVE  KerIInv'
  <1> DEFINE n == Len(ker_stack)
             below == ker_stack[n - 1]
  <1>1. KerTop.kind # "code" \/ ~KerTop.main
    BY DEF KerWalkEnds, KerReturn, KerKickEnds, KerParkEnds, KerOnTop
  <1>2. n \in Nat /\ n >= 2 /\ Stands(KerTop, below) /\ KerTop = ker_stack[n]
        /\ below \in KerFrames
    <2>1. n \in Nat /\ n >= 2 /\ Stands(KerTop, below) /\ KerTop = ker_stack[n]
      BY <1>1, OnTop, NotLast
    <2> QED BY <2>1, OnTop
  <1>3. ker_stack' = SubSeq(ker_stack, 1, n - 1) /\ UNCHANGED evt_tab
    BY DEF KerWalkEnds, KerReturn, KerKickEnds, KerParkEnds, KerPop, KerDepth
  <1>4. /\ ker_regs' \in KerRegs
        /\ KerTop.kind = "walk" => ker_regs' = ker_regs
        /\ KerTop.kind = "kick" /\ KerTop.hook => /\ ker_regs'.args = KerTop.regs.args
                                                  /\ ker_regs'.rest = KerTop.regs.rest
        /\ KerTop.kind = "code" /\ below.kind = "walk" => ker_regs' = below.regs
    <2>1. CASE KerWalkEnds
      BY <2>1 DEF KerWalkEnds, KerOnTop, KerIInv
    <2>2. CASE KerReturn
      <3>1. KerTop.kind = "code" /\ ker_regs' = KerRestored(below)
        BY <2>2 DEF KerReturn, KerRuns, KerOnTop, KerDepth
      <3>2. below.kind = "walk" => below.regs \in KerRegs
        BY <1>2, Kinds DEF KerWalks
      <3> QED BY <3>1, <3>2 DEF KerRestored, KerIInv
    <2>3. CASE KerKickEnds
      <3>1. KerTop.kind = "kick" /\ KerTop \in KerKicks
            /\ ker_regs' = [KerTop.regs EXCEPT !.hilo = ker_regs.hilo]
        BY <2>3, OnTop DEF KerKickEnds, KerOnTop
      <3>2. KerTop.regs \in KerRegs /\ ker_regs \in KerRegs
        BY <3>1 DEF KerKicks, KerIInv
      <3> QED BY <3>1, <3>2 DEF KerRegs
    <2>4. CASE KerParkEnds
      <3>1. KerTop.kind = "kick" /\ KerTop.stage = 10 /\ ker_regs' = ker_regs
        BY <2>4 DEF KerParkEnds, KerOnTop
      <3>2. ~KerTop.hook
        BY <1>2, <3>1 DEF Stands
      <3> QED BY <3>1, <3>2 DEF KerIInv
    <2> QED BY <2>1, <2>2, <2>3, <2>4
  <1>5. Sound(ker_stack', ker_regs')
    BY <1>2, <1>3, <1>4, OnTop, SoundPop
  <1>6. Owed(ker_stack', evt_tab')
    BY <1>2, <1>3, OnTop, OwedPop
  <1>7. hb_active' \in BOOLEAN
    BY DEF KerWalkEnds, KerReturn, KerKickEnds, KerParkEnds, KerIInv
  <1> QED BY <1>3, <1>4, <1>5, <1>6, <1>7 DEF KerIInv

\* A kick starts, under code that polls or under parked main code.
LEMMA KickStarts ==
  ASSUME KerIInv, KerHookKick \/ KerParkKick
  PROVE  KerIInv'
  <1>1. KerTop.kind = "code" /\ KerTop \in KerCodes
    BY OnTop DEF KerHookKick, KerParkKick, KerRuns, KerOnTop
  <1>2. ker_regs' = KerCalled /\ hb_active' = TRUE /\ UNCHANGED evt_tab
    BY DEF KerHookKick, KerParkKick
  <1>3. \A hook \in BOOLEAN :
          LET kick == KerKick(hook)
          IN  /\ kick \in KerFrames /\ kick.kind = "kick" /\ kick.stage = 1
              /\ kick.hook = hook /\ kick.regs = ker_regs
              /\ Owing(kick, evt_tab)
              /\ \A i, r : Intact(kick, i, r)
    BY DEF KerKick, KerFrames, KerKicks, KerHost, KerOwners, Owing, Intact, KerIInv
  <1>4. CASE KerHookKick
    <2> DEFINE frame == [KerTop EXCEPT !.kicked = TRUE]
               mid == [ker_stack EXCEPT ![Len(ker_stack)] = frame]
               kick == KerKick(TRUE)
    <2>1. /\ frame \in KerFrames /\ frame.kind = "code" /\ frame.kicked
          /\ Takes(frame, KerTop) /\ Owing(frame, evt_tab)
          /\ Intact(frame, Len(ker_stack), ker_regs)
      BY <1>1, OnTop DEF KerCodes, KerFrames, Takes, Owing, Intact
    <2>2. ker_stack' = Append(mid, kick)
      BY <1>4 DEF KerHookKick, KerWith, KerDepth
    <2>3. /\ kick \in KerFrames /\ kick.kind = "kick" /\ kick.stage = 1
          /\ kick.hook /\ kick.regs = ker_regs /\ Owing(kick, evt_tab)
          /\ \A i, r : Intact(kick, i, r)
      BY <1>3
    <2> HIDE DEF frame, kick
    <2>4. mid \in Seq(KerFrames) /\ mid # << >> /\ Len(mid) = Len(ker_stack)
          /\ mid[Len(mid)] = frame
      BY <2>1, OnTop, Replaced
    <2>5. Sound(mid, ker_regs)
      BY <2>1, OnTop, SoundReplace
    <2>6. Owed(mid, evt_tab)
      BY <2>1, OnTop, OwedReplace
    <2> HIDE DEF mid
    <2>7. Stands(kick, frame) /\ Kept(frame, Len(mid), kick, TRUE, ker_regs')
      <3>1. Intact(frame, Len(mid), ker_regs)
        BY <2>1, <2>4
      <3> QED BY <2>1, <2>3, <3>1 DEF Stands, Kept
    <2>8. Sound(ker_stack', ker_regs')
      BY <2>1, <2>2, <2>3, <2>4, <2>5, <2>7, SoundPush
    <2>9. Owed(ker_stack', evt_tab)
      BY <2>2, <2>3, <2>4, <2>6, OwedPush
    <2> QED BY <1>2, <2>8, <2>9, OnTop DEF KerIInv
  <1>5. CASE KerParkKick
    <2> DEFINE kick == KerKick(FALSE)
    <2>1. ker_stack' = Append(ker_stack, kick) /\ KerTop.parked
      BY <1>5 DEF KerParkKick, KerPush
    <2>2. /\ kick \in KerFrames /\ kick.kind = "kick" /\ kick.stage = 1
          /\ Owing(kick, evt_tab)
          /\ \A i, r : Intact(kick, i, r)
      BY <1>3
    <2> HIDE DEF kick
    <2>3. ~KerTop.ran
      BY <2>1, <1>1, OnTop DEF Intact
    <2>4. Stands(kick, KerTop) /\ Kept(KerTop, Len(ker_stack), kick, TRUE, ker_regs')
      BY <1>1, <2>2, <2>3 DEF Stands, Kept
    <2>5. Sound(ker_stack', ker_regs')
      BY <1>1, <2>1, <2>2, <2>4, OnTop, SoundPush
    <2>6. Owed(ker_stack', evt_tab)
      BY <2>1, <2>2, OnTop, OwedPush
    <2> QED BY <1>2, <2>5, <2>6, OnTop DEF KerIInv
  <1> QED BY <1>4, <1>5

\* A kick goes on by itself.
LEMMA KickPasses ==
  ASSUME KerIInv, KerNoNotifier \/ KerParkWalks
  PROVE  KerIInv'
  <1>1. KerTop.kind = "kick" /\ KerTop \in KerKicks
    BY OnTop DEF KerNoNotifier, KerParkWalks, KerOnTop
  <1>2. PICK stage \in {8, 9} :
          /\ ker_stack' = KerWith([KerTop EXCEPT !.stage = stage])
          /\ stage = 9 => ~KerTop.hook
    BY DEF KerNoNotifier, KerParkWalks
  <1> DEFINE frame == [KerTop EXCEPT !.stage = stage]
  <1>3. /\ frame \in KerFrames /\ frame.kind = "kick"
        /\ Takes(frame, KerTop) /\ Owing(frame, evt_tab)
        /\ \A i, r : Intact(frame, i, r)
    BY <1>1, <1>2 DEF KerKicks, KerFrames, Takes, Owing, Intact
  <1>4. ker_stack' = [ker_stack EXCEPT ![Len(ker_stack)] = frame]
    BY <1>2 DEF KerWith, KerDepth
  <1> HIDE DEF frame
  <1>5. Sound(ker_stack', ker_regs')
    BY <1>3, <1>4, OnTop, SoundReplace
  <1>6. Owed(ker_stack', evt_tab)
    BY <1>3, <1>4, OnTop, OwedReplace
  <1>7. UNCHANGED <<evt_tab, hb_active>> /\ ker_regs' \in KerRegs
    BY DEF KerNoNotifier, KerParkWalks, KerIInv, KerRegs, KerHost, KerOwners
  <1> QED BY <1>5, <1>6, <1>7 DEF KerIInv

\* A kick dispatches code or starts a delivery.
LEMMA KickCalls ==
  ASSUME KerIInv, KerKickCalls \/ KerKickDelivers
  PROVE  KerIInv'
  <1>1. KerTop.kind = "kick" /\ KerTop \in KerKicks
    BY OnTop DEF KerKickCalls, KerKickDelivers, KerOnTop
  <1>2. PICK args \in KerOwners, above \in KerFrames :
          /\ ker_stack' = Append(KerWith([KerTop EXCEPT !.stage = @ + 1, !.args = args]),
                                 above)
          /\ KerTop.stage \in {1, 2, 3, 4, 5, 6, 7, 9}
          /\ above.kind \in {"code", "walk"} /\ Owing(above, evt_tab)
          /\ \A i, r : Intact(above, i, r)
    <2>1. CASE KerKickCalls
      <3>1. KerTop.args \in KerOwners /\ ker_regs.args \in KerOwners
        BY <1>1 DEF KerKicks, KerRegs, KerIInv
      <3> DEFINE args == IF KerTop.stage \in {1, 5} THEN ker_regs.args ELSE KerTop.args
      <3>2. args \in KerOwners
        BY <3>1
      <3>3. /\ ker_stack' = Append(KerWith([KerTop EXCEPT !.stage = @ + 1, !.args = args]),
                                   KerCode)
            /\ KerTop.stage \in {1, 5, 6, 7, 9}
        BY <2>1 DEF KerKickCalls
      <3> HIDE DEF args
      <3> QED BY <3>2, <3>3, FreshCode
    <2>2. CASE KerKickDelivers
      <3>1. PICK cls \in {"vblank", "timer", "disc"} :
              ker_stack' = Append(KerWith([KerTop EXCEPT !.stage = @ + 1]),
                                  KerWalkOf(cls, ker_regs'))
        BY <2>2 DEF KerKickDelivers
      <3>2. ker_regs' \in KerRegs
        BY <2>2, <1>1 DEF KerKickDelivers, KerKicks, KerRegs, KerIInv
      <3> DEFINE above == KerWalkOf(cls, ker_regs')
      <3>3. /\ above \in KerFrames /\ above.kind = "walk" /\ Owing(above, evt_tab)
            /\ \A i, r : Intact(above, i, r)
        BY <3>2, FreshWalk
      <3>4. KerTop.args \in KerOwners
            /\ [KerTop EXCEPT !.stage = @ + 1] =
               [KerTop EXCEPT !.stage = @ + 1, !.args = KerTop.args]
        BY <1>1 DEF KerKicks
      <3>5. KerTop.stage \in {2, 3, 4}
        BY <2>2 DEF KerKickDelivers
      <3> HIDE DEF above
      <3>6. ker_stack' = Append(KerWith([KerTop EXCEPT !.stage = @ + 1,
                                                       !.args = KerTop.args]), above)
        BY <3>1, <3>4 DEF above
      <3> QED BY <3>3, <3>4, <3>5, <3>6
    <2> QED BY <2>1, <2>2
  <1> DEFINE frame == [KerTop EXCEPT !.stage = @ + 1, !.args = args]
             mid == [ker_stack EXCEPT ![Len(ker_stack)] = frame]
  <1>3. KerTop.stage = 9 => ~KerTop.hook
    <2>1. Stands(KerTop, ker_stack[Len(ker_stack) - 1])
      BY <1>1, NotLast
    <2> QED BY <1>1, <2>1 DEF Stands
  <1>4. /\ frame \in KerFrames /\ frame.kind = "kick"
        /\ Takes(frame, KerTop) /\ Owing(frame, evt_tab)
        /\ \A i, r : Intact(frame, i, r)
    <2>1. KerTop.stage + 1 \in 1..10 /\ args \in KerOwners
      BY <1>2
    <2>2. /\ frame \in KerKicks /\ frame.kind = "kick" /\ frame.hook = KerTop.hook
          /\ frame.regs = KerTop.regs /\ frame.stage = KerTop.stage + 1
      BY <1>1, <2>1 DEF KerKicks
    <2>3. frame.stage \in {9, 10} => ~frame.hook
      BY <1>2, <1>3, <2>2
    <2> HIDE DEF frame
    <2> QED BY <1>1, <2>2, <2>3 DEF KerFrames, Takes, Owing, Intact
  <1>5. ker_stack' = Append(mid, above)
    BY <1>2 DEF KerWith, KerDepth
  <1> HIDE DEF frame
  <1>6. mid \in Seq(KerFrames) /\ mid # << >> /\ Len(mid) = Len(ker_stack)
        /\ mid[Len(mid)] = frame
    BY <1>4, OnTop, Replaced
  <1>7. Sound(mid, ker_regs) /\ Owed(mid, evt_tab)
    BY <1>4, OnTop, SoundReplace, OwedReplace
  <1> HIDE DEF mid
  <1>8. Stands(above, frame) /\ Kept(frame, Len(mid), above, TRUE, ker_regs')
    BY <1>2, <1>4 DEF Stands, Kept
  <1>9. Sound(ker_stack', ker_regs')
    BY <1>2, <1>4, <1>5, <1>6, <1>7, <1>8, SoundPush
  <1>10. Owed(ker_stack', evt_tab)
    BY <1>2, <1>5, <1>6, <1>7, OwedPush
  <1>11. UNCHANGED <<evt_tab, hb_active>> /\ ker_regs' \in KerRegs
    <2>1. CASE KerKickCalls
      BY <2>1, OnTop DEF KerKickCalls
    <2>2. CASE KerKickDelivers
      BY <2>2, <1>1 DEF KerKickDelivers, KerKicks, KerRegs, KerIInv
    <2> QED BY <2>1, <2>2
  <1> QED BY <1>9, <1>10, <1>11 DEF KerIInv

-----------------------------------------------------------------------------
LEMMA KerStepIInv == KerIInv /\ [KerNext]_ker_vars => KerIInv'
  <1> SUFFICES ASSUME KerIInv, [KerNext]_ker_vars
               PROVE  KerIInv'
    OBVIOUS
  <1>1. CASE KerNext
    BY <1>1, CodeSteps, EventCalls, EnableStep, DeliverSteps, WalkSteps, PopSteps,
       KickStarts, KickPasses, KickCalls DEF KerNext
  <1>2. CASE UNCHANGED ker_vars
    BY <1>2 DEF KerIInv, ker_vars
  <1> QED BY <1>1, <1>2

LEMMA KerInitIInv == KerInit => KerIInv
  <1> SUFFICES ASSUME KerInit
               PROVE  KerIInv
    OBVIOUS
  <1>1. evt_tab \in [KerHandles -> KerEvents]
    BY KerAssumption DEF KerInit, KerEvents
  <1>2. ker_regs \in KerRegs /\ hb_active \in BOOLEAN
    BY DEF KerInit, KerRegs, KerHost, KerOwners
  <1> DEFINE main == [KerCode EXCEPT !.main = TRUE]
  <1>3. main \in KerFrames /\ main.kind = "code" /\ main.main /\ ~main.ran
    BY DEF KerCode, KerFrames, KerCodes
  <1>4. ker_stack = <<main>>
    BY DEF KerInit
  <1> HIDE DEF main
  <1>5. ker_stack \in Seq(KerFrames) /\ ker_stack # << >> /\ Len(ker_stack) = 1
        /\ ker_stack[1] = main
    BY <1>3, <1>4
  <1>6. Sound(ker_stack, ker_regs)
    BY <1>3, <1>5 DEF Sound, Intact
  <1>7. Owed(ker_stack, evt_tab)
    BY <1>3, <1>5 DEF Owed, Owing
  <1> QED BY <1>1, <1>2, <1>6, <1>7 DEF KerIInv

\* Table, frames, registers and the kick's latch keep their types.
THEOREM KernelTypes == KerSpec => []KerTypeOK
  <1>1. KerIInv => KerTypeOK
    BY DEF KerIInv, Sound, KerTypeOK
  <1> QED BY <1>1, KerInitIInv, KerStepIInv, PTL DEF KerSpec

\* Whatever handlers, deliveries and kicks nest above it, code goes on with
\* the registers it had (R196, R1189).
THEOREM InterruptedCodeIsWhole == KerSpec => []KerContextKept
  <1>1. KerIInv => KerContextKept
    BY DEF KerIInv, Sound, Intact, KerContextKept, KerOnTop, KerTop, KerDepth
  <1> QED BY <1>1, KerInitIInv, KerStepIInv, PTL DEF KerSpec

\* A delivery fires every event it owes, whatever its handlers do to the
\* table.
THEOREM DeliveriesMissNothing == KerSpec => []KerDeliveredToAll
  <1>1. KerIInv => KerDeliveredToAll
    BY DEF KerIInv, Owed, Owing, KerDeliveredToAll
  <1> QED BY <1>1, KerInitIInv, KerStepIInv, PTL DEF KerSpec

-----------------------------------------------------------------------------
(* The files of the disc.                                                  *)

FsFileSet == [lba : Nat, size : Nat, pos : Nat, in_use : BOOLEAN]

\* Which sectors a read goes through: those the bytes lie in, up to the
\* first that cannot be read.
LEMMA ChunksAreInARow ==
  ASSUME FsAssumption, NEW file \in FsFileSet, NEW n \in Nat,
         NEW j \in FsChunks(file, n), NEW k \in Nat, k <= j,
         (k + 1) * FsSector > file.pos
  PROVE  k \in FsChunks(file, n)
<1> DEFINE all == {i \in 0..FsWord : FsChunkAt(file, i) < n /\ (i + 1) * FsSector > file.pos}
<1>1. FsSector \in Nat \ {0} /\ file.pos \in Nat /\ FsWord \in Nat
  BY DEF FsAssumption, FsFileSet
<1>2. j \in all /\ \A i \in all : i <= j => file.lba + i \in FsSectors
  BY DEF FsChunks
<1>3. j \in 0..FsWord /\ FsChunkAt(file, j) < n
  BY <1>2
<1>4. k * FsSector \in Nat /\ j * FsSector \in Nat /\ k * FsSector <= j * FsSector
  <2>1. k = j \/ k < j
    BY <1>3
  <2>2. k * FsSector \in Nat /\ j * FsSector \in Nat
    BY <1>1, <1>3, Products
  <2>3. k < j => (k + 1) * FsSector <= j * FsSector /\ (k + 1) * FsSector = k * FsSector + FsSector
    BY <1>1, <1>3, Products
  <2> QED  BY <2>1, <2>2, <2>3, <1>1
<1>5. FsChunkAt(file, k) < n
  BY <1>1, <1>3, <1>4 DEF FsChunkAt
<1>6. k \in all
  BY <1>1, <1>3, <1>5
<1>7. \A i \in all : i <= k => file.lba + i \in FsSectors
  BY <1>2, <1>3
<1> HIDE DEF all
<1> QED  BY <1>6, <1>7 DEF FsChunks, all

\* What the read says it has read ends with the last of them.
LEMMA CopiedIsInChunks ==
  ASSUME FsAssumption, NEW file \in FsFileSet, NEW n \in Nat,
         NEW i \in 0..(FsCopied(file, n) - 1)
  PROVE  /\ i \in Nat /\ i < n
         /\ (file.pos + i) \div FsSector \in FsChunks(file, n)
<1> DEFINE C == FsChunks(file, n)
           last == {k \in C : k + 1 \notin C}
           place == file.pos + i
           q == place \div FsSector
           k == CHOOSE k \in last : TRUE
<1>1. FsSector \in Nat \ {0} /\ file.pos \in Nat /\ FsWord \in Nat
  BY DEF FsAssumption, FsFileSet
<1>2. last # {}
  <2> SUFFICES ASSUME last = {} PROVE FALSE
    OBVIOUS
  <2>1. FsCopied(file, n) = 0
    BY DEF FsCopied
  <2> QED  BY <2>1
<1>3. k \in C /\ k + 1 \notin C
  <2> HIDE DEF C
  <2> QED  BY <1>2
<1>4. FsCopied(file, n) = FsLeast(n, ((k + 1) * FsSector) - file.pos)
  BY <1>2 DEF FsCopied
<1>5. k \in Nat
  BY <1>3, <1>1 DEF FsChunks
<1> HIDE DEF k
<1>6. (k + 1) * FsSector \in Nat
  BY <1>1, <1>5, Products
<1>7. i \in Nat /\ i < n /\ place \in Nat /\ place < (k + 1) * FsSector
  BY <1>1, <1>4, <1>6 DEF FsLeast
<1> HIDE DEF place
<1>8. q \in Nat /\ q * FsSector <= place /\ place < (q + 1) * FsSector
  <2>1. q \in Nat /\ q * FsSector \in Nat /\ place % FsSector = place - q * FsSector
        /\ place % FsSector \in 0..(FsSector - 1)
    BY <1>1, <1>7, Quotients
  <2>2. (q + 1) * FsSector = q * FsSector + FsSector
    BY <1>1, <2>1, Products
  <2> HIDE DEF q
  <2> QED  BY <1>1, <1>7, <2>1, <2>2
<1> HIDE DEF q
<1>9. q <= k
  <2> SUFFICES ASSUME k < q PROVE FALSE
    BY <1>5, <1>8
  <2>1. (k + 1) * FsSector <= q * FsSector
    BY <1>1, <1>5, <1>8, Products
  <2>2. q * FsSector \in Nat
    BY <1>1, <1>8, Products
  <2> QED  BY <1>6, <1>7, <1>8, <2>1, <2>2
<1>10. (q + 1) * FsSector > file.pos
  <2>1. (q + 1) * FsSector \in Nat
    BY <1>1, <1>8, Products
  <2> QED  BY <1>1, <1>7, <1>8, <2>1 DEF place
<1>11. q \in C
  <2> HIDE DEF C
  <2> QED  BY <1>3, <1>5, <1>8, <1>9, <1>10, ChunksAreInARow DEF C
<1> QED  BY <1>7, <1>11 DEF q, place

\* The bytes a read delivers, and why no later chunk takes them back: the
\* chunks behind the one a byte lies in begin behind the byte.
LEMMA CopyDelivers ==
  ASSUME FsAssumption, NEW file \in FsFileSet, NEW n \in Nat, NEW dst \in Nat,
         NEW i \in 0..(FsCopied(file, n) - 1), dst + i \in DOMAIN fs_ram
  PROVE  LET place == file.pos + i
             byte  == <<file.lba + (place \div FsSector), place % FsSector>>
         IN  FsCopy(file, dst, n)[dst + i] = byte \/ FsDropped(dst + i, byte)
<1> DEFINE place == file.pos + i
           q == place \div FsSector
           byte == <<file.lba + q, place % FsSector>>
           a == dst + i
           Over == {k \in FsChunks(file, n) :
                      LET at == dst + FsChunkAt(file, k)
                      IN  /\ at <= a /\ a < at + FsSpan
                          /\ ~FsDropped(a, FsBrings(file, dst, k, a))}
<1>1. FsSector \in Nat \ {0} /\ file.pos \in Nat /\ file.lba \in Nat
  BY DEF FsAssumption, FsFileSet
<1>2. i \in Nat /\ i < n /\ q \in FsChunks(file, n)
  BY CopiedIsInChunks
<1>3. place \in Nat /\ a \in Nat
  BY <1>1, <1>2
<1>4. /\ q \in Nat /\ q * FsSector \in Nat /\ place % FsSector = place - q * FsSector
      /\ place % FsSector \in 0..(FsSector - 1)
  <2> HIDE DEF place
  <2> QED  BY <1>1, <1>3, Quotients
<1>5. /\ dst + FsChunkAt(file, q) <= a /\ a < dst + FsChunkAt(file, q) + FsSpan
      /\ FsChunkFrom(file, q) + (a - (dst + FsChunkAt(file, q))) = place % FsSector
  <2> DEFINE w == q * FsSector
             r == place % FsSector
  <2>1. /\ w \in Nat /\ r \in 0..(FsSector - 1) /\ r = place - w
        /\ place = file.pos + i /\ a = dst + i /\ place \in Nat
    BY <1>3, <1>4
  <2>2. CASE w <= file.pos
    <3>1. FsChunkAt(file, q) = 0 /\ FsChunkFrom(file, q) = file.pos % FsSector
      BY <2>2 DEF FsChunkAt, FsChunkFrom
    <3> HIDE DEF q, place, a, r
    <3>2. file.pos < w + FsSector
      <4> HIDE DEF w
      <4> QED  BY <1>1, <1>2, <2>1
    <3>3. q = file.pos \div FsSector
      BY <1>1, <1>4, <2>2, <3>2, QuotientIs
    <3>4. file.pos % FsSector = file.pos - w
      BY <1>1, <3>3, Quotients
    <3> HIDE DEF w
    <3>5. dst <= a /\ a - dst = i /\ (file.pos - w) + i = r /\ a < dst + FsSector
      BY <1>1, <1>2, <2>1, <2>2
    <3>6. dst + FsChunkAt(file, q) = dst /\ dst + FsChunkAt(file, q) + FsSpan = dst + FsSector
      BY <1>1, <3>1 DEF FsSpan
    <3> QED  BY <3>1, <3>4, <3>5, <3>6 DEF r
  <2>3. CASE w > file.pos
    <3>0. ~ (w <= file.pos)
      <4> HIDE DEF w
      <4> QED  BY <1>1, <2>1, <2>3
    <3>1. FsChunkAt(file, q) = w - file.pos /\ FsChunkFrom(file, q) = 0
      BY <3>0 DEF FsChunkAt, FsChunkFrom
    <3> HIDE DEF q, place, a, r, w
    <3>2. a = dst + i /\ r = (file.pos + i) - w /\ 0 <= r /\ r < FsSector
          /\ i \in Nat /\ w \in Nat /\ file.pos \in Nat /\ FsSector \in Nat
      BY <1>1, <1>2, <2>1
    <3>3. dst + (w - file.pos) <= a /\ a < dst + (w - file.pos) + FsSector
      BY <3>2
    <3>4. 0 + (a - (dst + (w - file.pos))) = r
      BY <3>2
    <3> QED  BY <3>1, <3>3, <3>4 DEF FsSpan, r
  <2> QED  BY <1>1, <2>1, <2>2, <2>3
<1>6. FsBrings(file, dst, q, a) = byte
  <2> HIDE DEF q, a
  <2> QED  BY <1>4, <1>5 DEF FsBrings, FsByte
<1>7. CASE FsDropped(a, byte)
  BY <1>7
<1>8. CASE ~ FsDropped(a, byte)
  <2>1. q \in Over
    <3> HIDE DEF q, a, byte
    <3> QED  BY <1>2, <1>5, <1>6, <1>8
  <2>2. \A k \in Over : k <= q
    <3> SUFFICES ASSUME NEW k \in Over, q < k PROVE FALSE
      BY <1>4 DEF FsChunks
    <3>1. k \in Nat /\ dst + FsChunkAt(file, k) <= a
      BY DEF FsChunks
    <3> HIDE DEF q, Over
    <3>2. (q + 1) * FsSector <= k * FsSector /\ (q + 1) * FsSector = q * FsSector + FsSector
          /\ k * FsSector \in Nat
      BY <1>1, <1>4, <3>1, Products
    <3>3. file.pos + i < k * FsSector
      BY <1>1, <1>2, <1>4, <3>2
    <3>4. FsChunkAt(file, k) = k * FsSector - file.pos
      BY <1>1, <1>2, <3>2, <3>3 DEF FsChunkAt
    <3> QED  BY <1>1, <1>2, <3>1, <3>2, <3>3, <3>4
  <2>3. (CHOOSE k \in Over : \A j \in Over : j <= k) = q
    <3>1. \A k \in Over : k \in Nat
      BY DEF FsChunks
    <3> DEFINE c == CHOOSE k \in Over : \A j \in Over : j <= k
    <3> HIDE DEF Over, q
    <3>2. c \in Over /\ \A j \in Over : j <= c
      BY <2>1, <2>2
    <3> HIDE DEF c
    <3>3. c = q
      BY <1>4, <2>1, <2>2, <3>1, <3>2
    <3> QED  BY <3>3 DEF c
  <2>4. FsCopy(file, dst, n)[a] =
          IF Over = {} THEN fs_ram[a]
          ELSE FsBrings(file, dst, CHOOSE k \in Over : \A j \in Over : j <= k, a)
    BY DEF FsCopy
  <2>5. FsCopy(file, dst, n)[a] = byte
    <3> HIDE DEF Over, q, a, byte
    <3> QED  BY <1>6, <2>1, <2>3, <2>4
  <2> QED  BY <2>5
<1> QED  BY <1>7, <1>8

-----------------------------------------------------------------------------
\* The first record of a name has an extent, the least number of a set
\* having been chosen twice, of the sector and of the place in it.
LEMMA FirstIsExtent ==
  ASSUME FsAssumption, NEW sectors \in SUBSET Nat, NEW name
  PROVE  FsFirstOf(sectors, name) \in FsExtents
<1> DEFINE hits == {h \in sectors \X (1..20) :
                      /\ h[1] \in DOMAIN FsRecords
                      /\ h[2] \in DOMAIN FsRecords[h[1]]
                      /\ FsSameName(FsRecords[h[1]][h[2]].name, name)}
           First(h) == \A o \in hits : h[1] < o[1] \/ (h[1] = o[1] /\ h[2] <= o[2])
           first == CHOOSE h \in hits : First(h)
<1>1. FsNowhere \in FsExtents
  BY DEF FsAssumption, FsNowhere, FsExtents
<1>2. CASE hits = {}
  BY <1>1, <1>2 DEF FsFirstOf
<1>3. CASE hits # {}
  <2>1. \A h \in hits : h[1] \in Nat /\ h[2] \in Nat
    OBVIOUS
  <2> HIDE DEF hits
  <2> DEFINE Ls == {h[1] : h \in hits}
  <2>2. PICK l \in Ls : \A x \in Ls : l <= x
    <3>1. Ls \in SUBSET Nat /\ Ls # {}
      BY <1>3, <2>1
    <3> HIDE DEF Ls
    <3> QED  BY <3>1, LeastNumber
  <2> DEFINE Is == {h[2] : h \in {h \in hits : h[1] = l}}
  <2>3. PICK i \in Is : \A x \in Is : i <= x
    <3>1. Is \in SUBSET Nat /\ Is # {}
      BY <2>1, <2>2
    <3> HIDE DEF Is
    <3> QED  BY <3>1, LeastNumber
  <2>4. PICK h \in hits : h[1] = l /\ h[2] = i
    BY <2>3
  <2>5. First(h)
    <3> TAKE o \in hits
    <3>1. l <= o[1] /\ l \in Nat /\ o[1] \in Nat
      BY <2>1, <2>2, <2>4
    <3>2. o[1] = l => i <= o[2]
      BY <2>3
    <3> QED  BY <2>4, <3>1, <3>2
  <2>6. first \in hits
    <3> HIDE DEF First
    <3> QED  BY <2>4, <2>5
  <2>7. FsFirstOf(sectors, name) = FsRecords[first[1]][first[2]].extent
    BY <1>3 DEF FsFirstOf, hits
  <2> HIDE DEF first
  <2>8. first[1] \in DOMAIN FsRecords /\ first[2] \in DOMAIN FsRecords[first[1]]
    BY <2>6 DEF hits
  <2> QED  BY <2>7, <2>8 DEF FsAssumption
<1> QED  BY <1>2, <1>3

LEMMA LookupIsExtents ==
  ASSUME FsAssumption, NEW dir \in FsExtents, NEW name
  PROVE  FsLookup(dir, name) \in SUBSET FsExtents
<1>1. \A d \in FsExtents : FsSectorsOf(d) \in SUBSET Nat
  BY DEF FsSectorsOf, FsExtents
<1>2. FsNowhere \in FsExtents
  BY DEF FsAssumption, FsNowhere, FsExtents
<1> DEFINE wanted == FsSectorsOf(dir)
           read   == {lba \in wanted : \A below \in wanted : below <= lba => below \in FsSectors}
           dirs   == {r.extent : r \in UNION {{FsRecords[l][i] : i \in DOMAIN FsRecords[l]} :
                                                    l \in DOMAIN FsRecords}}
           stale  == {FsFirstOf(FsSectorsOf(d), name) : d \in dirs}
<1>3. read \in SUBSET Nat
  BY <1>1
<1>4. dirs \in SUBSET FsExtents
  BY DEF FsAssumption
<1>5. stale \in SUBSET FsExtents
  <2> HIDE DEF dirs
  <2> QED  BY <1>1, <1>4, FirstIsExtent
<1>6. FsFirstOf(read, name) \in FsExtents
  <2> HIDE DEF read
  <2> QED  BY <1>3, FirstIsExtent
<1>7. FsLookup(dir, name) \in {{FsNowhere}, {FsFirstOf(read, name)}, stale \cup {FsNowhere}}
  BY DEF FsLookup
<1> HIDE DEF read, stale
<1> QED  BY <1>2, <1>5, <1>6, <1>7

LEMMA ResolveIsExtents ==
  ASSUME FsAssumption, NEW path \in Seq(FsNames)
  PROVE  FsResolve(path) \in SUBSET FsExtents
<1> DEFINE On(n, dirs) == UNION {IF dir = FsNowhere THEN {FsNowhere} ELSE FsLookup(dir, path[n]) :
                                   dir \in dirs}
           K == Len(path)
           S == SUBSET FsExtents
           A == {FsRoot}
           F == [n \in 1..K |-> [s \in S |-> On(n, s)]]
           Walks(f) == f = [n \in 0..K |-> IF n = 0 THEN A ELSE On(n, f[n - 1])]
           walk == CHOOSE f : Walks(f)
<1>1. K \in Nat /\ A \in S /\ FsNowhere \in FsExtents
  BY DEF FsAssumption, FsNowhere, FsExtents
<1>2. \A n \in 1..K, s \in S : On(n, s) \in S
  BY <1>1, LookupIsExtents
<1>3. F \in [1..K -> [S -> S]]
  <2> HIDE DEF On, K, S
  <2> QED  BY <1>2
<1>4. PICK g \in [0..K -> S] : g[0] = A /\ \A n \in 1..K : g[n] = F[n][g[n - 1]]
  <2> HIDE DEF K, S, F, A, On
  <2>1. FromHere(A, F, S, K)
    BY <1>1, <1>3, RecursionReaches
  <2> QED  BY <2>1 DEF FromHere
<1> HIDE DEF On, K, S, A
<1>5. \A n \in 1..K : g[n - 1] \in S /\ g[n] = On(n, g[n - 1])
  <2> TAKE n \in 1..K
  <2>1. n - 1 \in 0..K
    BY <1>1
  <2>2. g[n - 1] \in S /\ g[n] = F[n][g[n - 1]]
    BY <1>4, <2>1
  <2>3. F[n] = [s \in S |-> On(n, s)]
    BY DEF F
  <2> QED  BY <2>2, <2>3
<1>6. Walks(walk)
  <2>1. g = [n \in 0..K |-> IF n = 0 THEN A ELSE On(n, g[n - 1])]
    BY <1>1, <1>4, <1>5
  <2>2. \E f : Walks(f)
    BY <2>1
  <2> HIDE DEF Walks
  <2> QED  BY <2>2, Zenon
<1>7. walk[K] \in S
  <2> HIDE DEF walk, F
  <2>1. /\ \A n \in 0..K : walk[n] = IF n = 0 THEN A ELSE On(n, walk[n - 1])
        /\ 0 \in 0..K /\ K \in 0..K
    BY <1>1, <1>6
  <2>2. Alike(walk, g, K)
    BY <1>1, <1>4, <1>5, <2>1 DEF Alike
  <2>3. walk[K] = g[K]
    BY <1>1, <2>1, <2>2, SameSteps
  <2> QED  BY <1>4, <2>1, <2>3
<1>8. FsResolve(path) \in {walk[K], {FsNowhere}}
  BY DEF FsResolve, On, K, A
<1> HIDE DEF walk
<1> QED  BY <1>1, <1>7, <1>8 DEF S

-----------------------------------------------------------------------------
FsIInv ==
  /\ g_files \in [FsFds -> FsFileSet]
  /\ FsReadDelivers

LEMMA FsInitIInv == ASSUME FsAssumption, FsInit PROVE FsIInv
  BY DEF FsInit, FsIInv, FsFileSet, FsClosed, FsReadDelivers, FsAssumption

\* A call that is no read says nothing about memory.
LEMMA OtherCalls ==
  ASSUME fs_call'.op # "read", g_files' \in [FsFds -> FsFileSet]
  PROVE  FsIInv'
  BY DEF FsIInv, FsReadDelivers

LEMMA OpenIInv ==
  ASSUME FsAssumption, FsIInv, NEW a0 \in FsPaths, NEW a1 \in FsPaths, FsOpen(a0, a1)
  PROVE  FsIInv'
<1> DEFINE path == IF a0 = << >> THEN a1 ELSE a0
           free == {fd \in FsFds : ~g_files[fd].in_use}
           fd   == CHOOSE fd \in free : \A other \in free : fd <= other
           file(found) == [lba |-> found.lba, size |-> found.size, pos |-> 0, in_use |-> TRUE]
<1>1. path \in Seq(FsNames)
  BY DEF FsAssumption
<1>2. FsResolve(path) \in SUBSET FsExtents
  <2> HIDE DEF path
  <2> QED  BY <1>1, ResolveIsExtents
<1>3. PICK found \in FsResolve(path) :
        IF found = FsNowhere \/ free = {}
        THEN FsAnswer("open", FsClosed, 0, FsFailed) /\ UNCHANGED g_files
        ELSE FsAnswer("open", file(found), 0, fd) /\ g_files' = [g_files EXCEPT ![fd] = file(found)]
  BY DEF FsOpen
<1>4. file(found) \in FsFileSet
  BY <1>2 DEF FsFileSet, FsExtents
<1>5. fs_call'.op # "read"
  BY <1>3 DEF FsAnswer
<1> HIDE DEF fd, file, free
<1>6. g_files' \in [FsFds -> FsFileSet]
  BY <1>3, <1>4 DEF FsIInv
<1> QED  BY <1>5, <1>6, OtherCalls

LEMMA SeekIInv ==
  ASSUME FsAssumption, FsIInv, NEW fd \in FsFds, NEW offset \in FsOffsets,
         NEW whence \in {"start", "here", "end"}, FsSeek(fd, offset, whence)
  PROVE  FsIInv'
<1> DEFINE base == CASE whence = "start" -> 0
                     [] whence = "here"  -> g_files[fd].pos
                     [] whence = "end"   -> g_files[fd].size
           pos == (base + offset) % FsWord
<1>1. g_files \in [FsFds -> FsFileSet] /\ FsWord \in Nat \ {0} /\ offset \in Int
  BY DEF FsIInv, FsAssumption
<1>2. base \in Nat
  BY <1>1 DEF FsFileSet
<1>3. pos \in Nat
  <2> HIDE DEF base
  <2> QED  BY <1>1, <1>2
<1>4. g_files' = [g_files EXCEPT ![fd].pos = pos] \/ g_files' = g_files
  BY DEF FsSeek
<1>5. fs_call'.op # "read"
  BY DEF FsSeek, FsAnswer
<1> HIDE DEF pos
<1>6. [g_files[fd] EXCEPT !.pos = pos] \in FsFileSet
  BY <1>1, <1>3 DEF FsFileSet
<1>7. g_files' \in [FsFds -> FsFileSet]
  BY <1>1, <1>4, <1>6
<1> QED  BY <1>5, <1>7, OtherCalls

LEMMA CloseIInv ==
  ASSUME FsAssumption, FsIInv, NEW fd \in FsFds, FsClose(fd)
  PROVE  FsIInv'
<1>1. [g_files[fd] EXCEPT !.in_use = FALSE] \in FsFileSet
  BY DEF FsIInv, FsFileSet
<1>2. g_files' \in [FsFds -> FsFileSet]
  BY <1>1 DEF FsClose, FsIInv
<1>3. fs_call'.op # "read"
  BY DEF FsClose, FsAnswer
<1> QED  BY <1>2, <1>3, OtherCalls

LEMMA MountIInv == ASSUME FsAssumption, FsIInv, FsMount PROVE FsIInv'
<1>1. \A fd \in FsFds : [g_files[fd] EXCEPT !.in_use = FALSE] \in FsFileSet
  BY DEF FsIInv, FsFileSet
<1>2. g_files' \in [FsFds -> FsFileSet]
  BY <1>1 DEF FsMount, FsIInv
<1>3. fs_call'.op # "read"
  BY DEF FsMount, FsAnswer
<1> QED  BY <1>2, <1>3, OtherCalls

LEMMA ReadIInv ==
  ASSUME FsAssumption, FsIInv, NEW fd \in FsFds, NEW dst \in FsTargets,
         NEW len \in FsLengths, FsRead(fd, dst, len)
  PROVE  FsIInv'
<1> DEFINE file == g_files[fd]
           n == FsLeast(len, FsRemain(file))
<1>1. file \in FsFileSet /\ dst \in Nat /\ len \in Nat
  BY DEF FsIInv, FsAssumption
<1>2. n \in Nat
  BY <1>1 DEF FsFileSet, FsLeast, FsRemain
<1>3. g_files' = g_files
  BY DEF FsRead
<1>4. CASE ~file.in_use
  <2>1. fs_call'.file = file
    BY <1>4 DEF FsRead, FsAnswer
  <2> QED  BY <1>3, <1>4, <2>1 DEF FsIInv, FsReadDelivers
<1>5. CASE file.in_use
  <2>1. /\ fs_call'.file = file /\ fs_call'.dst = dst /\ fs_call'.v0 = FsCopied(file, n)
        /\ fs_ram' = FsCopy(file, dst, n)
    BY <1>5 DEF FsRead, FsAnswer
  <2>2. DOMAIN fs_ram' = DOMAIN fs_ram
    BY <2>1 DEF FsCopy
  <2> HIDE DEF file, n
  <2>3. FsReadDelivers'
    BY <1>1, <1>2, <2>1, <2>2, CopyDelivers DEF FsReadDelivers, FsDropped
  <2> QED  BY <1>3, <2>3 DEF FsIInv
<1> QED  BY <1>4, <1>5

LEMMA FsStepIInv == ASSUME FsAssumption, FsIInv, [FsNext]_fs_vars PROVE FsIInv'
<1>1. CASE FsMount
  BY <1>1, MountIInv
<1>2. ASSUME NEW a0 \in FsPaths, NEW a1 \in FsPaths, FsOpen(a0, a1)  PROVE FsIInv'
  BY <1>2, OpenIInv
<1>3. ASSUME NEW fd \in FsFds, NEW offset \in FsOffsets,
             NEW whence \in {"start", "here", "end"}, FsSeek(fd, offset, whence)
      PROVE  FsIInv'
  BY <1>3, SeekIInv
<1>4. ASSUME NEW fd \in FsFds, NEW dst \in FsTargets, NEW len \in FsLengths,
             FsRead(fd, dst, len)
      PROVE  FsIInv'
  BY <1>4, ReadIInv
<1>5. ASSUME NEW fd \in FsFds, FsClose(fd)  PROVE FsIInv'
  BY <1>5, CloseIInv
<1>6. CASE UNCHANGED fs_vars
  BY <1>6 DEF fs_vars, FsIInv, FsReadDelivers, FsDropped
<1> QED  BY <1>1, <1>2, <1>3, <1>4, <1>5, <1>6 DEF FsNext

(* What a read says it has read is in memory, byte for byte from the       *)
(* position of the file, whatever was written over it on the way           *)
(* (disc_file_read).                                                       *)
THEOREM ReadsDeliver == ASSUME FsAssumption PROVE FsSpec => []FsReadDelivers
<1>1. FsInit => FsIInv
  BY FsInitIInv
<1>2. FsIInv /\ [FsNext]_fs_vars => FsIInv'
  BY FsStepIInv
<1>3. FsIInv => FsReadDelivers
  BY DEF FsIInv
<1> QED  BY <1>1, <1>2, <1>3, PTL DEF FsSpec

-----------------------------------------------------------------------------
(* The decompressor.                                                       *)

LzMemories == [LzPlaces -> LzBytes \cup {0}]

LEMMA TurnsOnce ==
  ASSUME NEW j \in Nat, NEW off \in Nat \ {0}
  PROVE  /\ j < off => j % off = j
         /\ j >= off => (j - off) % off = j % off
         /\ j % off \in 0..(off - 1)
<1>1. ASSUME j < off  PROVE j % off = j
  <2>1. 0 * off = 0
    OBVIOUS
  <2>2. 0 = j \div off
    BY <1>1, <2>1, QuotientIs
  <2> QED  BY <2>1, <2>2, Quotients
<1>2. ASSUME j >= off  PROVE (j - off) % off = j % off
  <2> DEFINE k == j \div off
             i == j - off
  <2>1. k \in Nat /\ k * off \in Nat /\ j % off = j - k * off /\ j % off \in 0..(off - 1)
    BY Quotients
  <2>2. i \in Nat
    BY <1>2
  <2> HIDE DEF k
  <2>3. k # 0
    <3>1. k = 0 => k * off = 0
      OBVIOUS
    <3> QED  BY <1>2, <2>1, <3>1
  <2> DEFINE l == k - 1
  <2>4. l \in Nat /\ k = l + 1
    BY <2>1, <2>3
  <2> HIDE DEF l
  <2>5. l * off \in Nat /\ k * off = l * off + off
    BY <2>4, Products
  <2>6. l * off <= i /\ i < l * off + off
    BY <2>1, <2>5
  <2> HIDE DEF i
  <2>7. l = i \div off
    BY <2>2, <2>4, <2>6, QuotientIs
  <2>8. i % off = i - l * off
    BY <2>2, <2>7, Quotients
  <2> QED  BY <2>1, <2>5, <2>8 DEF i
<1>3. j % off \in 0..(off - 1)
  BY Quotients
<1> QED  BY <1>1, <1>2, <1>3

\* A copy of n bytes, byte by byte: what lies outside stays, and each byte is
\* the one off places before it, unless off is 0.
LzCopies(m, c, pos, off, n) ==
  /\ c \in LzMemories
  /\ \A x \in LzPlaces : x < pos \/ x >= pos + n => c[x] = m[x]
  /\ \A j \in 0..(n - 1) : c[pos + j] = IF off = 0 THEN m[pos + j] ELSE c[pos + j - off]

LEMMA OneMoreByte ==
  ASSUME LzAssumption, NEW m \in LzMemories, NEW c, NEW pos \in Nat, NEW off \in Nat,
         NEW n \in Nat, pos + n + 1 <= LzMemory, off <= pos, LzCopies(m, c, pos, off, n)
  PROVE  LzCopies(m, LzStore(c, pos + n, c[(pos - off) + n], TRUE), pos, off, n + 1)
<1> DEFINE d == LzStore(c, pos + n, c[(pos - off) + n], TRUE)
<1>1. LzMemory \in Nat /\ LzPlaces = 0..(LzMemory - 1)
  BY DEF LzAssumption, LzPlaces
<1>2. pos + n \in LzPlaces /\ (pos - off) + n \in LzPlaces
  BY <1>1
<1>3. c \in [LzPlaces -> LzBytes \cup {0}]
  BY DEF LzCopies, LzMemories
<1>4. d = [c EXCEPT ![pos + n] = c[(pos - off) + n]]
  BY DEF LzStore
<1>5. d \in LzMemories
  BY <1>2, <1>3, <1>4 DEF LzMemories
<1>6. \A x \in LzPlaces : x # pos + n => d[x] = c[x]
  BY <1>2, <1>3, <1>4
<1>7. d[pos + n] = c[(pos - off) + n]
  BY <1>2, <1>3, <1>4
<1> HIDE DEF d
<1>8. ASSUME NEW x \in LzPlaces, x < pos \/ x >= pos + (n + 1)
      PROVE  d[x] = m[x]
  <2>1. x # pos + n /\ (x < pos \/ x >= pos + n)
    BY <1>1, <1>8
  <2> QED  BY <1>6, <2>1 DEF LzCopies
<1>9. ASSUME NEW j \in 0..((n + 1) - 1)
      PROVE  d[pos + j] = IF off = 0 THEN m[pos + j] ELSE d[pos + j - off]
  <2>1. CASE j = n /\ off = 0
    <3>1. (pos - off) + n = pos + n /\ pos + j = pos + n /\ pos + n >= pos + n
      BY <2>1
    <3>2. c[pos + n] = m[pos + n]
      BY <1>2, <3>1 DEF LzCopies
    <3> QED  BY <1>7, <2>1, <3>1, <3>2
  <2>2. CASE j = n /\ off # 0
    <3>1. (pos - off) + n # pos + n /\ pos + j - off = (pos - off) + n
      BY <2>2
    <3>2. d[(pos - off) + n] = c[(pos - off) + n]
      BY <1>2, <1>6, <3>1
    <3> QED  BY <1>7, <2>2, <3>1, <3>2
  <2>3. CASE j # n
    <3>1. j \in 0..(n - 1) /\ pos + j \in LzPlaces /\ pos + j # pos + n
          /\ pos + j - off \in LzPlaces /\ pos + j - off # pos + n
      BY <1>1, <2>3
    <3>2. d[pos + j] = c[pos + j] /\ d[pos + j - off] = c[pos + j - off]
      BY <1>6, <3>1
    <3>3. c[pos + j] = IF off = 0 THEN m[pos + j] ELSE c[pos + j - off]
      BY <3>1 DEF LzCopies
    <3> QED  BY <3>2, <3>3
  <2> QED  BY <2>1, <2>2, <2>3
<1> QED  BY <1>5, <1>8, <1>9 DEF LzCopies, d

LEMMA CopyCopies ==
  ASSUME LzAssumption, NEW m \in LzMemories, NEW pos \in Nat, NEW off \in Nat,
         NEW n \in Nat, pos + n <= LzMemory, off <= pos
  PROVE  LzCopies(m, LzCopy(m, pos, pos - off, n), pos, off, n)
<1> DEFINE from == pos - off
           Put(k, c) == LzStore(c, pos + k - 1, c[from + k - 1], TRUE)
           S == [k : 0..n, c : LzMemories]
           Walks(f) == f = [k \in 0..n |-> IF k = 0 THEN m ELSE Put(k, f[k - 1])]
           F == [k \in 1..n |-> [c \in LzMemories |-> Put(k, c)]]
           copy == CHOOSE f : Walks(f)
<1>1. \A k \in 1..n, c \in LzMemories : Put(k, c) \in LzMemories
  <2> TAKE k \in 1..n, c \in LzMemories
  <2>1. pos + k - 1 \in LzPlaces /\ from + k - 1 \in LzPlaces
    BY DEF LzPlaces, LzAssumption
  <2>2. Put(k, c) = [c EXCEPT ![pos + k - 1] = c[from + k - 1]]
    BY DEF LzStore
  <2> QED  BY <2>1, <2>2 DEF LzMemories
<1> HIDE DEF Put
<1>2. F \in [1..n -> [LzMemories -> LzMemories]]
  BY <1>1
<1>3. PICK g \in [0..n -> LzMemories] : g[0] = m /\ \A k \in 1..n : g[k] = F[k][g[k - 1]]
  <2> HIDE DEF F
  <2>1. FromHere(m, F, LzMemories, n)
    BY <1>2, RecursionReaches
  <2> QED  BY <2>1 DEF FromHere
<1>4. \A k \in 1..n : g[k - 1] \in LzMemories /\ g[k] = Put(k, g[k - 1])
  <2> TAKE k \in 1..n
  <2>1. k - 1 \in 0..n
    OBVIOUS
  <2>2. g[k - 1] \in LzMemories /\ g[k] = F[k][g[k - 1]]
    BY <1>3, <2>1
  <2>3. F[k] = [c \in LzMemories |-> Put(k, c)]
    OBVIOUS
  <2> QED  BY <2>2, <2>3
<1>5. Walks(copy)
  <2>1. g = [k \in 0..n |-> IF k = 0 THEN m ELSE Put(k, g[k - 1])]
    BY <1>3, <1>4
  <2>2. \E f : Walks(f)
    BY <2>1
  <2> HIDE DEF Walks
  <2> QED  BY <2>2, Zenon
<1>6. LzCopy(m, pos, from, n) = copy[n]
  BY DEF LzCopy, Put
<1> HIDE DEF copy
<1>7. \A k \in 0..n : copy[k] = IF k = 0 THEN m ELSE Put(k, copy[k - 1])
  BY <1>5
<1> DEFINE T == {k \in 0..n : LzCopies(m, copy[k], pos, off, k)}
<1>8. 0 \in T
  <2>1. copy[0] = m
    BY <1>7
  <2> QED  BY <2>1 DEF LzCopies
<1>9. ASSUME NEW k \in 1..n, k - 1 \in T  PROVE k \in T
  <2>1. LzCopies(m, copy[k - 1], pos, off, k - 1) /\ k - 1 \in Nat /\ pos + (k - 1) + 1 <= LzMemory
    BY <1>9 DEF LzAssumption
  <2>2. LzCopies(m, LzStore(copy[k - 1], pos + (k - 1), copy[k - 1][(pos - off) + (k - 1)], TRUE),
                 pos, off, (k - 1) + 1)
    BY <2>1, OneMoreByte
  <2>3. (k - 1) + 1 = k /\ pos + (k - 1) = pos + k - 1 /\ (pos - off) + (k - 1) = from + k - 1
    OBVIOUS
  <2>4. k \in 0..n /\ copy[k] = Put(k, copy[k - 1])
    BY <1>7
  <2>5. copy[k] = LzStore(copy[k - 1], pos + (k - 1), copy[k - 1][(pos - off) + (k - 1)], TRUE)
    BY <2>3, <2>4 DEF Put
  <2>6. LzCopies(m, copy[k], pos, off, k)
    BY <2>2, <2>3, <2>5
  <2> QED  BY <2>4, <2>6
<1>10. n \in T
  <2> HIDE DEF T
  <2>1. Inductive(T, n) /\ n \in 0..n
    BY <1>8, <1>9 DEF Inductive
  <2> QED  BY <2>1, StepsReach
<1> QED  BY <1>6, <1>10

\* The same, seen from the bytes the match repeats.
LzRepeats(c, pos, off, n) ==
  \A j \in 0..(n - 1) : c[pos + j] = c[(pos - off) + (j % off)]

LEMMA CopyRepeats ==
  ASSUME LzAssumption, NEW m, NEW c, NEW pos \in Nat, NEW off \in Nat \ {0},
         NEW n \in Nat, LzCopies(m, c, pos, off, n)
  PROVE  LzRepeats(c, pos, off, n)
<1> SUFFICES ASSUME NEW j \in 0..(n - 1)
             PROVE  c[pos + j] = c[(pos - off) + (j % off)]
  BY DEF LzRepeats
<1> DEFINE Odd == {i \in 0..(n - 1) : c[pos + i] # c[(pos - off) + (i % off)]}
<1>1. SUFFICES ASSUME Odd # {}  PROVE FALSE
  OBVIOUS
<1>2. PICK i \in Odd : \A y \in Odd : i <= y
  <2>1. Odd \in SUBSET Nat
    OBVIOUS
  <2> HIDE DEF Odd
  <2> QED  BY <1>1, <2>1, LeastNumber
<1>3. i \in 0..(n - 1) /\ i \in Nat /\ c[pos + i] = c[pos + i - off]
  BY DEF LzCopies
<1>4. CASE i < off
  <2>1. i \in Nat /\ i < off
    BY <1>3, <1>4
  <2>2. i % off = i
    BY <2>1, TurnsOnce
  <2>3. (pos - off) + i = pos + i - off
    OBVIOUS
  <2>4. c[pos + i] = c[(pos - off) + (i % off)]
    BY <1>3, <2>2, <2>3
  <2> QED  BY <2>4
<1>5. CASE i >= off
  <2>1. i - off \in 0..(n - 1) /\ ~ (i <= i - off) /\ pos + (i - off) = pos + i - off
    BY <1>3, <1>5
  <2>2. c[pos + (i - off)] = c[(pos - off) + ((i - off) % off)]
    BY <1>2, <2>1
  <2>3. (i - off) % off = i % off
    BY <1>3, <1>5, TurnsOnce
  <2> QED  BY <1>3, <2>1, <2>2, <2>3
<1> QED  BY <1>3, <1>4, <1>5

-----------------------------------------------------------------------------
\* Where the tokens end: each ends its length behind the one before it.
LzEndsGrow(stream) ==
  /\ LzEnds(stream)[0] = 0
  /\ \A n \in 0..Len(stream) : LzEnds(stream)[n] \in Nat
  /\ \A n \in 1..Len(stream) :
       LzEnds(stream)[n] = LzEnds(stream)[n - 1] + LzLength(stream[n])
  /\ \A i, j \in 0..Len(stream) : i <= j => LzEnds(stream)[i] <= LzEnds(stream)[j]

LEMMA EndsGrow ==
  ASSUME NEW stream \in Seq(LzTokens)
  PROVE  LzEndsGrow(stream)
<1> DEFINE K == Len(stream)
           Walks(f) == f = [n \in 0..K |-> IF n = 0 THEN 0 ELSE f[n - 1] + LzLength(stream[n])]
           F == [n \in 1..K |-> [e \in Nat |-> e + LzLength(stream[n])]]
           ends == CHOOSE f : Walks(f)
<1>1. \A n \in 1..K : LzLength(stream[n]) \in Nat
  <2> TAKE n \in 1..K
  <2>1. stream[n] \in LzTokens
    OBVIOUS
  <2> QED  BY <2>1 DEF LzTokens, LzLength
<1>2. K \in Nat /\ F \in [1..K -> [Nat -> Nat]]
  BY <1>1
<1> HIDE DEF K
<1>3. PICK g \in [0..K -> Nat] : g[0] = 0 /\ \A n \in 1..K : g[n] = F[n][g[n - 1]]
  <2> HIDE DEF F
  <2>1. FromHere(0, F, Nat, K)
    BY <1>2, RecursionReaches
  <2> QED  BY <2>1 DEF FromHere
<1>4. \A n \in 1..K : g[n] = g[n - 1] + LzLength(stream[n])
  <2> TAKE n \in 1..K
  <2>1. n - 1 \in 0..K
    BY <1>2
  <2>2. g[n - 1] \in Nat
    BY <2>1
  <2> QED  BY <1>3, <2>2
<1>5. Walks(ends)
  <2>1. g = [n \in 0..K |-> IF n = 0 THEN 0 ELSE g[n - 1] + LzLength(stream[n])]
    BY <1>3, <1>4
  <2>2. \E f : Walks(f)
    BY <2>1
  <2> HIDE DEF Walks
  <2> QED  BY <2>2, Zenon
<1>6. LzEnds(stream) = ends
  BY DEF LzEnds, K
<1> HIDE DEF ends
<1>7. /\ ends[0] = 0
      /\ \A n \in 1..K : ends[n] = ends[n - 1] + LzLength(stream[n])
  <2>1. \A n \in 0..K : ends[n] = IF n = 0 THEN 0 ELSE ends[n - 1] + LzLength(stream[n])
    BY <1>5
  <2>2. 0 \in 0..K /\ \A n \in 1..K : n \in 0..K /\ n # 0
    BY <1>2
  <2> QED  BY <2>1, <2>2
<1>8. ASSUME NEW n \in 0..K  PROVE ends[n] \in Nat
  <2> DEFINE T == {k \in 0..K : ends[k] \in Nat}
  <2>1. 0 \in T
    BY <1>2, <1>7
  <2>2. ASSUME NEW k \in 1..K, k - 1 \in T  PROVE k \in T
    <3>1. k \in 0..K /\ ends[k - 1] \in Nat
      BY <1>2, <2>2
    <3>2. ends[k] = ends[k - 1] + LzLength(stream[k]) /\ LzLength(stream[k]) \in Nat
      BY <1>1, <1>7
    <3> QED  BY <3>1, <3>2
  <2>3. n \in T
    <3> HIDE DEF T
    <3> QED  BY <1>2, <2>1, <2>2, StepsReach DEF Inductive
  <2> QED  BY <2>3
<1>9. ASSUME NEW i \in 0..K, NEW j \in 0..K, i <= j  PROVE ends[i] <= ends[j]
  <2> DEFINE T == {k \in 0..K : i <= k => ends[i] <= ends[k]}
  <2>1. 0 \in T
    BY <1>2, <1>7
  <2>2. ASSUME NEW k \in 1..K, k - 1 \in T  PROVE k \in T
    <3>1. k - 1 \in 0..K /\ k \in 0..K /\ (i <= k => i = k \/ i <= k - 1)
      BY <1>2
    <3>2. ends[k] = ends[k - 1] + LzLength(stream[k]) /\ LzLength(stream[k]) \in Nat
      BY <1>1, <1>7
    <3>3. ends[k - 1] \in Nat /\ ends[k] \in Nat /\ ends[i] \in Nat
      BY <1>8, <3>1
    <3>4. ends[k - 1] <= ends[k]
      BY <3>2, <3>3, <1>1
    <3>5. i <= k - 1 => ends[i] <= ends[k - 1]
      BY <2>2
    <3>6. i <= k => ends[i] <= ends[k]
      BY <3>1, <3>3, <3>4, <3>5
    <3> QED  BY <3>1, <3>6
  <2>3. j \in T
    <3> HIDE DEF T
    <3> QED  BY <1>2, <2>1, <2>2, StepsReach DEF Inductive
  <2> QED  BY <1>9, <2>3
<1> QED  BY <1>6, <1>7, <1>8, <1>9 DEF LzEndsGrow, K

-----------------------------------------------------------------------------
\* What the decoder has come to after k tokens: it has written up to where
\* they end, or to the end of the output, and each byte there is what the
\* token that covers it says.
LzStates(size) == [pos : 0..size, mem : LzMemories, ok : BOOLEAN]

LzSays(stream, n, p, mem, was) ==
  LET token == stream[n]
      at    == LzEnds(stream)[n - 1]
  IN  IF ~token.match THEN mem[p] = token.byte
      ELSE IF token.off = 0 THEN mem[p] = was[p]
      ELSE token.off <= at /\ mem[p] = mem[(at - token.off) + ((p - at) % token.off)]

LzSaid(stream, size, was, s, k) ==
  \A n \in 1..k, p \in 0..(size - 1) :
    LzEnds(stream)[n - 1] <= p /\ p < LzEnds(stream)[n] => LzSays(stream, n, p, s.mem, was)

LzSoFar(stream, size, was, s, k) ==
  /\ s \in LzStates(size)
  /\ s.ok => /\ s.pos = IF LzEnds(stream)[k] <= size THEN LzEnds(stream)[k] ELSE size
             /\ \A x \in LzPlaces : x >= s.pos => s.mem[x] = was[x]
             /\ LzSaid(stream, size, was, s, k)

LEMMA MatchHas ==
  ASSUME NEW stream \in Seq(LzTokens), NEW n \in 1..Len(stream)
  PROVE  /\ stream[n].match \in BOOLEAN
         /\ stream[n].match => stream[n].off \in Nat /\ stream[n].len \in Nat
         /\ ~stream[n].match => stream[n].byte \in LzBytes
<1>1. stream[n] \in LzTokens
  OBVIOUS
<1> DEFINE token == stream[n]
<1>2. \/ token \in [match : {TRUE}, off : Nat, len : Nat]
      \/ token \in [match : {FALSE}, byte : LzBytes]
  BY <1>1 DEF LzTokens
<1> HIDE DEF token
<1>3. CASE token \in [match : {TRUE}, off : Nat, len : Nat]
  BY <1>3 DEF token
<1>4. CASE token \in [match : {FALSE}, byte : LzBytes]
  BY <1>4 DEF token
<1> QED  BY <1>2, <1>3, <1>4

LEMMA SaysStays ==
  ASSUME LzAssumption, NEW stream \in Seq(LzTokens), NEW n \in 1..Len(stream),
         NEW pos \in Nat, pos <= LzMemory, NEW p \in Nat, p < pos,
         LzEnds(stream)[n - 1] <= p, NEW mem, NEW d, NEW was,
         \A x \in LzPlaces : x < pos => d[x] = mem[x],
         LzSays(stream, n, p, mem, was)
  PROVE  LzSays(stream, n, p, d, was)
<1> DEFINE token == stream[n]
           at == LzEnds(stream)[n - 1]
           q == (at - token.off) + ((p - at) % token.off)
<1>1. n - 1 \in 0..Len(stream) /\ LzMemory \in Nat
  BY DEF LzAssumption
<1>2. at \in Nat
  BY <1>1, EndsGrow DEF LzEndsGrow
<1>3. p \in LzPlaces /\ d[p] = mem[p]
  <2>1. p \in LzPlaces
    BY <1>1 DEF LzPlaces
  <2> QED  BY <2>1
<1>4. ASSUME token.match, token.off # 0, token.off <= at
      PROVE  d[q] = mem[q]
  <2>1. token.off \in Nat \ {0} /\ p - at \in Nat /\ at <= p
    <3>1. token.off \in Nat
      BY <1>4, MatchHas
    <3>2. at <= p
      OBVIOUS
    <3> HIDE DEF token, at
    <3> QED  BY <1>2, <1>4, <3>1, <3>2
  <2> DEFINE r == (p - at) % token.off
  <2>2. r \in 0..(token.off - 1)
    BY <2>1, TurnsOnce
  <2> DEFINE off == token.off
  <2> HIDE DEF token, at, r
  <2>3. (at - off) + r \in Nat /\ (at - off) + r < pos
    <3>1. off \in Nat /\ off <= at /\ r \in Nat /\ r < off /\ at <= p
      BY <1>4, <2>1, <2>2
    <3> HIDE DEF off
    <3>2. (at - off) + r < at
      BY <1>2, <3>1
    <3> QED  BY <1>2, <3>1, <3>2
  <2>4. (at - token.off) + r \in LzPlaces
    BY <1>1, <2>3 DEF LzPlaces
  <2>5. d[(at - token.off) + r] = mem[(at - token.off) + r]
    BY <2>3, <2>4
  <2> QED  BY <2>5 DEF r
<1> QED  BY <1>3, <1>4 DEF LzSays

LEMMA SaidStays ==
  ASSUME LzAssumption, NEW stream \in Seq(LzTokens), NEW size \in 1..LzMaxSize,
         NEW k \in 1..Len(stream), NEW was, NEW s, NEW t,
         LzSaid(stream, size, was, s, k - 1),
         NEW pos \in Nat, pos <= LzMemory, LzEnds(stream)[k - 1] <= pos,
         \A x \in LzPlaces : x < pos => t.mem[x] = s.mem[x],
         NEW n \in 1..(k - 1), NEW p \in 0..(size - 1),
         LzEnds(stream)[n - 1] <= p, p < LzEnds(stream)[n]
  PROVE  LzSays(stream, n, p, t.mem, was)
<1>1. n \in 1..Len(stream) /\ n \in 0..Len(stream) /\ k - 1 \in 0..Len(stream) /\ n <= k - 1
  OBVIOUS
<1>2. LzEnds(stream)[n] <= LzEnds(stream)[k - 1] /\ LzEnds(stream)[n] \in Nat
      /\ LzEnds(stream)[k - 1] \in Nat
  BY <1>1, EndsGrow DEF LzEndsGrow
<1>3. p \in Nat /\ p < pos
  BY <1>2
<1>4. LzSays(stream, n, p, s.mem, was)
  BY DEF LzSaid
<1> DEFINE mem == s.mem
           d == t.mem
<1>5. LzSays(stream, n, p, mem, was) /\ \A x \in LzPlaces : x < pos => d[x] = mem[x]
  BY <1>4
<1> HIDE DEF mem, d
<1>6. LzSays(stream, n, p, d, was)
  BY <1>1, <1>3, <1>5, SaysStays
<1> QED  BY <1>6 DEF d

\* A token that is taken: a literal, or a match that reads no byte from
\* before the output.
LzUpTo(pos, len, size) == IF pos + len <= size THEN len ELSE size - pos

LEMMA LiteralStep ==
  ASSUME LzAssumption, NEW size \in 1..LzMaxSize, NEW s \in LzStates(size),
         s.ok, s.pos # size, NEW token, ~token.match, token.byte \in LzBytes
  PROVE  /\ LzToken(s, token, size) \in LzStates(size)
         /\ LzToken(s, token, size).ok
         /\ LzToken(s, token, size).pos = s.pos + 1
         /\ LzToken(s, token, size).mem[s.pos] = token.byte
         /\ \A x \in LzPlaces : x # s.pos => LzToken(s, token, size).mem[x] = s.mem[x]
<1>1. s.pos \in Nat /\ s.pos + 1 \in 0..size /\ s.pos \in LzPlaces
  BY DEF LzStates, LzPlaces, LzAssumption
<1>2. s.mem \in LzMemories
  BY DEF LzStates
<1> DEFINE d == [s.mem EXCEPT ![s.pos] = token.byte]
<1>3. d \in LzMemories
  BY <1>1, <1>2 DEF LzMemories
<1>4. d[s.pos] = token.byte /\ \A x \in LzPlaces : x # s.pos => d[x] = s.mem[x]
  BY <1>1, <1>2 DEF LzMemories
<1> HIDE DEF d
<1>5. s = [pos |-> s.pos, mem |-> s.mem, ok |-> s.ok]
  BY DEF LzStates
<1>6. LzToken(s, token, size) = [s EXCEPT !.pos = s.pos + 1, !.mem = d]
  BY DEF LzToken, LzLiteral, LzStore, d
<1>7. LzToken(s, token, size) = [pos |-> s.pos + 1, mem |-> d, ok |-> TRUE]
  <2>1. s.ok = TRUE
    BY DEF LzStates
  <2> QED  BY <1>5, <1>6, <2>1
<1>8. LzToken(s, token, size) \in LzStates(size)
  BY <1>1, <1>3, <1>7 DEF LzStates
<1> QED  BY <1>4, <1>7, <1>8

LEMMA MatchStep ==
  ASSUME LzAssumption, NEW size \in 1..LzMaxSize, NEW s \in LzStates(size),
         s.ok, s.pos # size, NEW token, token.match, token.off \in Nat, token.len \in Nat,
         token.off <= s.pos
  PROVE  /\ LzToken(s, token, size) \in LzStates(size)
         /\ LzToken(s, token, size).ok
         /\ LzToken(s, token, size).pos = s.pos + LzUpTo(s.pos, token.len, size)
         /\ LzCopies(s.mem, LzToken(s, token, size).mem, s.pos, token.off,
                     LzUpTo(s.pos, token.len, size))
<1> DEFINE n == LzUpTo(s.pos, token.len, size)
           d == LzCopy(s.mem, s.pos, s.pos - token.off, n)
<1>1. s.pos \in Nat /\ n \in Nat /\ s.pos + n \in 0..size /\ s.pos + n <= LzMemory
  BY DEF LzStates, LzUpTo, LzAssumption
<1>2. s.mem \in LzMemories
  BY DEF LzStates
<1>3. ~ (s.pos - token.off < 0)
  BY <1>1
<1> HIDE DEF n
<1>4. LzCopies(s.mem, d, s.pos, token.off, n)
  BY <1>1, <1>2, CopyCopies
<1> HIDE DEF d
<1>5. d \in LzMemories
  BY <1>4 DEF LzCopies
<1>6. s = [pos |-> s.pos, mem |-> s.mem, ok |-> s.ok]
  BY DEF LzStates
<1>7. LzToken(s, token, size) = [s EXCEPT !.pos = s.pos + n, !.mem = d]
  BY <1>3 DEF LzToken, LzMatch, d, n, LzUpTo
<1>8. LzToken(s, token, size) = [pos |-> s.pos + n, mem |-> d, ok |-> TRUE]
  <2>1. s.ok = TRUE
    BY DEF LzStates
  <2> QED  BY <1>6, <1>7, <2>1
<1>9. LzToken(s, token, size) \in LzStates(size)
  BY <1>1, <1>5, <1>8 DEF LzStates
<1> QED  BY <1>4, <1>8, <1>9 DEF n

LEMMA NoStep ==
  ASSUME NEW size, NEW s \in LzStates(size), NEW token,
         \/ ~s.ok \/ s.pos = size
         \/ token.match /\ s.pos - token.off < 0
  PROVE  /\ LzToken(s, token, size) \in LzStates(size)
         /\ \/ LzToken(s, token, size) = s /\ (~s.ok \/ s.pos = size)
            \/ ~LzToken(s, token, size).ok
<1>1. CASE ~s.ok \/ s.pos = size
  BY <1>1 DEF LzToken
<1>2. CASE s.ok /\ s.pos # size
  <2>1. LzToken(s, token, size) = [s EXCEPT !.ok = FALSE]
    BY <1>2 DEF LzToken, LzMatch
  <2> QED  BY <2>1 DEF LzStates
<1> QED  BY <1>1, <1>2

LEMMA TokenIsState ==
  ASSUME LzAssumption, NEW size \in 1..LzMaxSize, NEW s \in LzStates(size),
         NEW stream \in Seq(LzTokens), NEW k \in 1..Len(stream)
  PROVE  LzToken(s, stream[k], size) \in LzStates(size)
<1> DEFINE token == stream[k]
<1>1. /\ token.match \in BOOLEAN
      /\ token.match => token.off \in Nat /\ token.len \in Nat
      /\ ~token.match => token.byte \in LzBytes
  BY MatchHas
<1> SUFFICES LzToken(s, token, size) \in LzStates(size)
  OBVIOUS
<1> HIDE DEF token
<1>2. s.pos \in Nat
  BY DEF LzStates, LzAssumption
<1>3. CASE ~s.ok \/ s.pos = size \/ (token.match /\ s.pos - token.off < 0)
  BY <1>3, NoStep
<1>4. CASE s.ok /\ s.pos # size /\ token.match /\ ~ (s.pos - token.off < 0)
  <2>1. token.off <= s.pos
    BY <1>1, <1>2, <1>4
  <2> QED  BY <1>1, <1>4, <2>1, MatchStep
<1>5. CASE s.ok /\ s.pos # size /\ ~token.match
  BY <1>1, <1>5, LiteralStep
<1> QED  BY <1>1, <1>3, <1>4, <1>5

LEMMA TokenGoesOn ==
  ASSUME LzAssumption, NEW stream \in Seq(LzTokens), NEW size \in 1..LzMaxSize,
         NEW was, NEW k \in 1..Len(stream), NEW s, LzSoFar(stream, size, was, s, k - 1)
  PROVE  LzSoFar(stream, size, was, LzToken(s, stream[k], size), k)
<1> DEFINE t == LzToken(s, stream[k], size)
           E(n) == LzEnds(stream)[n]
<1>1. s \in LzStates(size) /\ t \in LzStates(size)
  BY TokenIsState DEF LzSoFar
<1>2. SUFFICES ASSUME t.ok
               PROVE  /\ t.pos = IF E(k) <= size THEN E(k) ELSE size
                      /\ \A x \in LzPlaces : x >= t.pos => t.mem[x] = was[x]
                      /\ LzSaid(stream, size, was, t, k)
  BY <1>1 DEF LzSoFar
<1>3. /\ k \in 0..Len(stream) /\ k - 1 \in 0..Len(stream)
      /\ E(k - 1) \in Nat /\ E(k) \in Nat /\ E(k) = E(k - 1) + LzLength(stream[k])
      /\ E(k - 1) <= E(k)
  <2>1. k \in 0..Len(stream) /\ k - 1 \in 0..Len(stream) /\ k - 1 <= k
    OBVIOUS
  <2> QED  BY <2>1, EndsGrow DEF LzEndsGrow
<1>4. /\ stream[k].match \in BOOLEAN
      /\ stream[k].match => stream[k].off \in Nat /\ stream[k].len \in Nat
      /\ ~stream[k].match => stream[k].byte \in LzBytes
  BY MatchHas
<1>5. size \in Nat /\ size <= LzMemory /\ LzMemory \in Nat /\ LzPlaces = 0..(LzMemory - 1)
  BY DEF LzAssumption, LzPlaces
<1>6. s.pos \in 0..size /\ s.ok \in BOOLEAN
  BY <1>1 DEF LzStates
<1>7. s.ok => /\ s.pos = IF E(k - 1) <= size THEN E(k - 1) ELSE size
              /\ \A x \in LzPlaces : x >= s.pos => s.mem[x] = was[x]
              /\ LzSaid(stream, size, was, s, k - 1)
  BY DEF LzSoFar
\* What the tokens before this one say stays; this one's bytes are left.
<1>8. ASSUME s.ok, \A x \in LzPlaces : x < s.pos => t.mem[x] = s.mem[x],
             \A p \in 0..(size - 1) :
               E(k - 1) <= p /\ p < E(k) => LzSays(stream, k, p, t.mem, was)
      PROVE  LzSaid(stream, size, was, t, k)
  <2> SUFFICES ASSUME NEW n \in 1..k, NEW p \in 0..(size - 1), E(n - 1) <= p, p < E(n)
               PROVE  LzSays(stream, n, p, t.mem, was)
    BY DEF LzSaid
  <2>1. CASE n = k
    BY <1>8, <2>1
  <2>2. CASE n # k
    <3>1. n \in 1..(k - 1) /\ s.pos \in Nat /\ s.pos <= LzMemory
      BY <1>5, <1>6, <2>2
    <3>2. CASE E(k - 1) <= size
      <4>1. E(k - 1) <= s.pos
        BY <1>3, <1>7, <1>8, <3>2
      <4> QED  BY <1>7, <1>8, <3>1, <4>1, SaidStays
    <3>3. CASE ~ (E(k - 1) <= size)
      <4>1. s.pos = size
        BY <1>7, <1>8, <3>3
      <4>2. t = s
        BY <1>8, <4>1 DEF LzToken
      <4> QED  BY <1>7, <1>8, <3>1, <4>2 DEF LzSaid
    <3> QED  BY <3>2, <3>3
  <2> QED  BY <2>1, <2>2
<1> HIDE DEF t, E
<1>9. CASE ~s.ok \/ s.pos = size \/ (stream[k].match /\ s.pos - stream[k].off < 0)
  <2>1. t = s /\ s.ok /\ s.pos = size
    BY <1>1, <1>2, <1>9, NoStep DEF t
  <2>2. E(k - 1) >= size /\ E(k) >= size
    BY <1>3, <1>5, <1>7, <2>1
  <2>3. \A p \in 0..(size - 1) :
          E(k - 1) <= p /\ p < E(k) => LzSays(stream, k, p, t.mem, was)
    BY <1>3, <1>5, <2>2
  <2>4. LzSaid(stream, size, was, t, k)
    BY <1>8, <2>1, <2>3
  <2>5. t.pos = IF E(k) <= size THEN E(k) ELSE size
    BY <1>3, <1>5, <2>1, <2>2
  <2>6. \A x \in LzPlaces : x >= t.pos => t.mem[x] = was[x]
    BY <1>7, <2>1
  <2> QED  BY <2>4, <2>5, <2>6
<1>10. ASSUME s.ok, s.pos # size
       PROVE  s.pos = E(k - 1) /\ s.pos < size /\ s.pos \in Nat
  BY <1>3, <1>5, <1>6, <1>7, <1>10
<1>11. CASE s.ok /\ s.pos # size /\ ~stream[k].match
  <2>1. s.pos = E(k - 1) /\ s.pos < size /\ s.pos \in Nat
    BY <1>10, <1>11
  <2>2. /\ t.pos = s.pos + 1 /\ t.mem[s.pos] = stream[k].byte
        /\ \A x \in LzPlaces : x # s.pos => t.mem[x] = s.mem[x]
    BY <1>1, <1>4, <1>11, LiteralStep DEF t
  <2>3. E(k) = s.pos + 1
    BY <1>3, <1>11, <2>1 DEF LzLength
  <2>4. ASSUME NEW p \in 0..(size - 1), E(k - 1) <= p, p < E(k)
        PROVE  LzSays(stream, k, p, t.mem, was)
    <3>1. p = s.pos
      BY <2>1, <2>3, <2>4
    <3> QED  BY <1>11, <2>2, <3>1 DEF LzSays
  <2>5. \A x \in LzPlaces : x < s.pos => t.mem[x] = s.mem[x]
    BY <1>5, <1>6, <2>2
  <2>6. LzSaid(stream, size, was, t, k)
    BY <1>8, <1>11, <2>4, <2>5
  <2>7. t.pos = IF E(k) <= size THEN E(k) ELSE size
    BY <1>5, <2>1, <2>2, <2>3
  <2>8. ASSUME NEW x \in LzPlaces, x >= t.pos  PROVE t.mem[x] = was[x]
    <3>1. x # s.pos /\ x >= s.pos
      BY <1>5, <2>1, <2>2, <2>8
    <3> QED  BY <1>7, <1>11, <2>2, <3>1
  <2> QED  BY <2>6, <2>7, <2>8
<1>12. CASE s.ok /\ s.pos # size /\ stream[k].match /\ ~ (s.pos - stream[k].off < 0)
  <2> DEFINE off == stream[k].off
             n == LzUpTo(s.pos, stream[k].len, size)
  <2>1. s.pos = E(k - 1) /\ s.pos < size /\ s.pos \in Nat
    BY <1>10, <1>12
  <2>2. off \in Nat /\ stream[k].len \in Nat /\ off <= s.pos
    BY <1>4, <1>12, <2>1
  <2>3. t.pos = s.pos + n /\ LzCopies(s.mem, t.mem, s.pos, off, n)
    BY <1>1, <1>12, <2>2, MatchStep DEF t
  <2>4. E(k) = s.pos + stream[k].len
    BY <1>3, <1>12, <2>1 DEF LzLength
  <2>5. n = (IF E(k) <= size THEN stream[k].len ELSE size - s.pos) /\ n \in Nat
    BY <1>5, <2>1, <2>2, <2>4 DEF LzUpTo
  <2>6. s.pos + n = IF E(k) <= size THEN E(k) ELSE size
    BY <1>5, <2>1, <2>2, <2>4, <2>5
  <2> HIDE DEF n, off
  <2>7. ASSUME NEW p \in 0..(size - 1), E(k - 1) <= p, p < E(k)
        PROVE  LzSays(stream, k, p, t.mem, was)
    <3> DEFINE j == p - s.pos
    <3>0. p \in Nat /\ s.pos <= p /\ p < s.pos + n
      BY <1>3, <1>5, <2>1, <2>6, <2>7
    <3>1. j \in 0..(n - 1) /\ s.pos + j = p /\ p >= s.pos
      <4>1. s.pos \in Nat /\ n \in Nat
        BY <2>1, <2>5
      <4> HIDE DEF E
      <4>2. s.pos + j = p
        BY <3>0, <4>1
      <4>3. j \in 0..(n - 1)
        BY <3>0, <4>1
      <4> QED  BY <3>0, <4>1, <4>2, <4>3
    <3>2. p \in LzPlaces
      BY <1>5
    <3> HIDE DEF j
    <3>3. CASE off = 0
      <4>1. t.mem[s.pos + j] = s.mem[s.pos + j]
        BY <2>3, <3>1, <3>3 DEF LzCopies
      <4>2. t.mem[p] = was[p]
        BY <1>7, <1>12, <3>1, <3>2, <4>1
      <4> QED  BY <1>12, <3>3, <4>2 DEF LzSays, off
    <3>4. CASE off # 0
      <4>1. s.mem \in LzMemories /\ off \in Nat \ {0}
        BY <1>1, <2>2, <3>4 DEF LzStates
      <4>2. t.mem[s.pos + j] = t.mem[(s.pos - off) + (j % off)]
        <5>1. LzRepeats(t.mem, s.pos, off, n)
          BY <2>1, <2>3, <2>5, <4>1, CopyRepeats
        <5> QED  BY <3>1, <5>1 DEF LzRepeats
      <4>3. t.mem[p] = t.mem[(E(k - 1) - off) + ((p - E(k - 1)) % off)] /\ off <= E(k - 1)
        BY <2>1, <2>2, <3>1, <4>2 DEF j
      <4> QED  BY <1>12, <3>4, <4>3 DEF LzSays, off, E
    <3> QED  BY <3>3, <3>4
  <2>8. \A x \in LzPlaces : x < s.pos => t.mem[x] = s.mem[x]
    BY <2>3 DEF LzCopies
  <2>9. LzSaid(stream, size, was, t, k)
    BY <1>8, <1>12, <2>7, <2>8
  <2>10. ASSUME NEW x \in LzPlaces, x >= t.pos  PROVE t.mem[x] = was[x]
    <3>1. x >= s.pos + n /\ x >= s.pos
      BY <1>5, <2>1, <2>3, <2>5, <2>10
    <3>2. t.mem[x] = s.mem[x]
      BY <2>3, <3>1 DEF LzCopies
    <3> QED  BY <1>7, <1>12, <3>1, <3>2
  <2>11. t.pos = IF E(k) <= size THEN E(k) ELSE size
    BY <2>3, <2>6
  <2> QED  BY <2>9, <2>10, <2>11
<1> QED  BY <1>2, <1>4, <1>9, <1>11, <1>12

LEMMA DecodeGoesOn ==
  ASSUME LzAssumption, NEW stream \in Seq(LzTokens), NEW size \in 1..LzMaxSize,
         NEW was \in LzMemories
  PROVE  LzSoFar(stream, size, was, LzDecode(stream, size, was), Len(stream))
<1> DEFINE K == Len(stream)
           S == LzStates(size)
           A == [pos |-> 0, mem |-> was, ok |-> TRUE]
           Walks(f) == f = [n \in 0..K |-> IF n = 0 THEN A
                                           ELSE LzToken(f[n - 1], stream[n], size)]
           F == [n \in 1..K |-> [s \in S |-> LzToken(s, stream[n], size)]]
           run == CHOOSE f : Walks(f)
<1>1. \A n \in 1..K, s \in S : LzToken(s, stream[n], size) \in S
  BY TokenIsState
<1>2. A \in S
  BY DEF LzStates, LzAssumption
<1>3. K \in Nat
  OBVIOUS
<1> HIDE DEF S, A, K
<1>4. F \in [1..K -> [S -> S]]
  BY <1>1
<1>5. PICK g \in [0..K -> S] : g[0] = A /\ \A n \in 1..K : g[n] = F[n][g[n - 1]]
  <2> HIDE DEF F
  <2>1. FromHere(A, F, S, K)
    BY <1>2, <1>3, <1>4, RecursionReaches
  <2> QED  BY <2>1 DEF FromHere
<1>6. \A n \in 1..K : g[n] = LzToken(g[n - 1], stream[n], size)
  <2> TAKE n \in 1..K
  <2>1. n - 1 \in 0..K
    BY <1>3
  <2>2. g[n - 1] \in S /\ g[n] = F[n][g[n - 1]]
    BY <1>5, <2>1
  <2>3. F[n] = [s \in S |-> LzToken(s, stream[n], size)]
    OBVIOUS
  <2> QED  BY <2>2, <2>3
<1>7. Walks(run)
  <2>1. g = [n \in 0..K |-> IF n = 0 THEN A ELSE LzToken(g[n - 1], stream[n], size)]
    BY <1>5, <1>6
  <2>2. \E f : Walks(f)
    BY <2>1
  <2> HIDE DEF Walks
  <2> QED  BY <2>2, Zenon
<1>8. LzDecode(stream, size, was) = run[K]
  BY DEF LzDecode, A, K
<1> HIDE DEF run
<1>9. /\ run[0] = A
      /\ \A n \in 1..K : run[n] = LzToken(run[n - 1], stream[n], size)
  <2>1. \A n \in 0..K :
          run[n] = IF n = 0 THEN A ELSE LzToken(run[n - 1], stream[n], size)
    BY <1>7
  <2>2. 0 \in 0..K /\ \A n \in 1..K : n \in 0..K /\ n # 0
    BY <1>3
  <2> QED  BY <2>1, <2>2
<1> DEFINE T == {n \in 0..K : LzSoFar(stream, size, was, run[n], n)}
<1>10. 0 \in T
  <2>1. LzEnds(stream)[0] = 0
    BY EndsGrow DEF LzEndsGrow
  <2>2. A.pos = 0 /\ A.mem = was
    BY DEF A
  <2>3. LzSaid(stream, size, was, A, 0)
    BY DEF LzSaid
  <2>4. size \in Nat
    BY DEF LzAssumption
  <2>5. LzSoFar(stream, size, was, A, 0)
    BY <1>2, <2>1, <2>2, <2>3, <2>4 DEF LzSoFar, S
  <2> QED  BY <1>3, <1>9, <2>5
<1>11. ASSUME NEW n \in 1..K, n - 1 \in T  PROVE n \in T
  <2>1. LzSoFar(stream, size, was, run[n - 1], n - 1) /\ n \in 1..Len(stream)
    BY <1>11 DEF K
  <2>2. LzSoFar(stream, size, was, LzToken(run[n - 1], stream[n], size), n)
    BY <2>1, TokenGoesOn
  <2> QED  BY <1>3, <1>9, <2>2
<1>12. K \in T
  <2> HIDE DEF T
  <2>1. Inductive(T, K) /\ K \in 0..K
    BY <1>3, <1>10, <1>11 DEF Inductive
  <2> QED  BY <1>3, <2>1, StepsReach
<1> QED  BY <1>8, <1>12 DEF K

\* A byte of the output is covered by one token, the first to end behind it.
LEMMA OneCovers ==
  ASSUME NEW stream \in Seq(LzTokens), NEW p \in Nat, p < LzEnds(stream)[Len(stream)]
  PROVE  \E n \in 1..Len(stream) :
           /\ LzEnds(stream)[n - 1] <= p /\ p < LzEnds(stream)[n]
           /\ LzCovers(stream, p) = [token |-> stream[n], at |-> LzEnds(stream)[n - 1]]
<1> DEFINE K == Len(stream)
           ends == LzEnds(stream)
           Holds(n) == ends[n - 1] <= p /\ p < ends[n]
           behind == {n \in 0..K : p < ends[n]}
<1>1. /\ K \in Nat /\ ends[0] = 0
      /\ \A n \in 0..K : ends[n] \in Nat
  BY EndsGrow DEF LzEndsGrow
<1> HIDE DEF ends
<1>2. PICK n \in behind : \A m \in behind : n <= m
  <2>1. behind \in SUBSET Nat /\ behind # {}
    BY <1>1 DEF ends
  <2> HIDE DEF behind
  <2> QED  BY <2>1, LeastNumber
<1>3. n \in 1..K /\ n - 1 \in 0..K /\ n \in 0..K
  BY <1>1
<1>4. Holds(n)
  <2>1. n - 1 \notin behind
    BY <1>1, <1>2, <1>3
  <2> QED  BY <1>1, <1>3, <2>1
<1> HIDE DEF K
<1>5. PICK m \in 1..K : m = (CHOOSE i \in 1..K : Holds(i)) /\ Holds(m)
  BY <1>3, <1>4
<1>6. LzCovers(stream, p) = [token |-> stream[m], at |-> ends[m - 1]]
  BY <1>5 DEF LzCovers, ends, K
<1> QED  BY <1>5, <1>6 DEF K, ends

-----------------------------------------------------------------------------
\* The meaning of a stream is defined by recursion on the place, and each
\* place is told by places before it: any two functions that tell every byte
\* as its token does are equal on the output.
LzTells(stream, size, was, f, p) ==
  LET c == LzCovers(stream, p)
  IN  f[p] = IF ~c.token.match THEN c.token.byte
             ELSE IF c.token.off = 0 THEN was[p]
             ELSE f[(c.at - c.token.off) + ((p - c.at) % c.token.off)]

LEMMA MeaningIs ==
  ASSUME LzAssumption, NEW stream \in Seq(LzTokens), NEW size \in 1..LzMaxSize,
         NEW was, NEW s, LzSaid(stream, size, was, s, Len(stream)),
         LzEnds(stream)[Len(stream)] >= size,
         NEW q \in 0..(size - 1)
  PROVE  LzMeaning(stream, size, was)[q] = s.mem[q]
<1> DEFINE out == LzMeaning(stream, size, was)
           g == [p \in 0..(size - 1) |-> s.mem[p]]
           Means(f) == f = [p \in 0..(size - 1) |->
                              LET c == LzCovers(stream, p)
                              IN  IF ~c.token.match THEN c.token.byte
                                  ELSE IF c.token.off = 0 THEN was[p]
                                  ELSE f[(c.at - c.token.off) + ((p - c.at) % c.token.off)]]
           Source(p) == LET c == LzCovers(stream, p)
                        IN  (c.at - c.token.off) + ((p - c.at) % c.token.off)
           Repeats(p) == LET c == LzCovers(stream, p) IN c.token.match /\ c.token.off # 0
<1>1. size \in Nat
  BY DEF LzAssumption
\* A byte that repeats another repeats one before it.
<1>2. ASSUME NEW p \in 0..(size - 1)
      PROVE  /\ Repeats(p) => Source(p) \in 0..(size - 1) /\ Source(p) < p
             /\ g[p] = LET c == LzCovers(stream, p)
                       IN  IF ~c.token.match THEN c.token.byte
                           ELSE IF c.token.off = 0 THEN was[p]
                           ELSE s.mem[Source(p)]
  <2> DEFINE K == Len(stream)
             c == LzCovers(stream, p)
  <2>1. /\ K \in Nat
        /\ \A n \in 0..K : LzEnds(stream)[n] \in Nat
    BY EndsGrow DEF LzEndsGrow
  <2>2. p \in Nat /\ p < LzEnds(stream)[K]
    <3>1. LzEnds(stream)[K] \in Nat
      BY <2>1
    <3> QED  BY <1>1, <3>1
  <2>3. PICK n \in 1..K :
          /\ LzEnds(stream)[n - 1] <= p /\ p < LzEnds(stream)[n]
          /\ c = [token |-> stream[n], at |-> LzEnds(stream)[n - 1]]
    BY <2>2, OneCovers
  <2>4. LzSays(stream, n, p, s.mem, was)
    BY <2>3 DEF LzSaid
  <2>5. /\ c.token.match \in BOOLEAN
        /\ c.token.match => c.token.off \in Nat
    BY <2>3, MatchHas
  <2>6. c.at \in Nat /\ c.at <= p
    BY <2>1, <2>3
  <2>7. IF ~c.token.match THEN s.mem[p] = c.token.byte
        ELSE IF c.token.off = 0 THEN s.mem[p] = was[p]
        ELSE c.token.off <= c.at /\ s.mem[p] = s.mem[(c.at - c.token.off) + ((p - c.at) % c.token.off)]
    BY <2>3, <2>4 DEF LzSays
  <2> HIDE DEF c
  <2>8. ASSUME c.token.match, c.token.off # 0
        PROVE  /\ (c.at - c.token.off) + ((p - c.at) % c.token.off) \in 0..(size - 1)
               /\ (c.at - c.token.off) + ((p - c.at) % c.token.off) < p
    <3>1. c.token.off \in Nat \ {0} /\ c.token.off <= c.at /\ p - c.at \in Nat
      BY <1>1, <2>5, <2>6, <2>7, <2>8
    <3> DEFINE r == (p - c.at) % c.token.off
    <3>2. r \in 0..(c.token.off - 1)
      BY <3>1, TurnsOnce
    <3>3. p \in Nat /\ p < size
      BY <1>1
    <3> HIDE DEF r
    <3>4. (c.at - c.token.off) + r \in 0..(size - 1) /\ (c.at - c.token.off) + r < p
      BY <1>1, <2>6, <3>1, <3>2, <3>3
    <3> QED  BY <3>4 DEF r
  <2>9. g[p] = s.mem[p]
    OBVIOUS
  <2> HIDE DEF g
  <2> QED  BY <2>5, <2>7, <2>8, <2>9 DEF c
<1>3. Means(g)
  <2>1. \A p \in 0..(size - 1) : Repeats(p) => g[Source(p)] = s.mem[Source(p)]
    BY <1>2
  <2> DEFINE Tells(p) == LET c == LzCovers(stream, p)
                         IN  IF ~c.token.match THEN c.token.byte
                             ELSE IF c.token.off = 0 THEN was[p]
                             ELSE g[Source(p)]
  <2>2. \A p \in 0..(size - 1) : g[p] = Tells(p)
    <3> TAKE p \in 0..(size - 1)
    <3>1. g[p] = LET c == LzCovers(stream, p)
                 IN  IF ~c.token.match THEN c.token.byte
                     ELSE IF c.token.off = 0 THEN was[p]
                     ELSE s.mem[Source(p)]
      BY <1>2
    <3> HIDE DEF g, Source
    <3> QED  BY <2>1, <3>1
  <2>3. g = [p \in 0..(size - 1) |-> g[p]]
    OBVIOUS
  <2> HIDE DEF g
  <2>4. g = [p \in 0..(size - 1) |-> Tells(p)]
    <3> HIDE DEF Tells
    <3> QED  BY <2>2, <2>3
  <2> QED  BY <2>4
<1>4. Means(out)
  <2>1. \E f : Means(f)
    <3> HIDE DEF Means
    <3> QED  BY <1>3
  <2>2. out = CHOOSE f : Means(f)
    BY DEF LzMeaning
  <2> HIDE DEF Means, out
  <2> QED  BY <2>1, <2>2, Zenon
<1> HIDE DEF out, g
<1>5. ASSUME NEW f, Means(f), NEW p \in 0..(size - 1)
      PROVE  f[p] = LET c == LzCovers(stream, p)
                    IN  IF ~c.token.match THEN c.token.byte
                        ELSE IF c.token.off = 0 THEN was[p]
                        ELSE f[Source(p)]
  BY <1>5
<1> DEFINE Odd == {p \in 0..(size - 1) : out[p] # g[p]}
<1>6. Odd = {}
  <2> SUFFICES ASSUME Odd # {}  PROVE FALSE
    OBVIOUS
  <2>1. PICK p \in Odd : \A y \in Odd : p <= y
    <3>1. Odd \in SUBSET Nat
      BY <1>1
    <3> HIDE DEF Odd
    <3> QED  BY <3>1, LeastNumber
  <2>2. p \in 0..(size - 1) /\ out[p] # g[p]
    OBVIOUS
  <2>3. Repeats(p) => out[Source(p)] = g[Source(p)]
    <3> SUFFICES ASSUME Repeats(p)  PROVE out[Source(p)] = g[Source(p)]
      OBVIOUS
    <3>1. Source(p) \in 0..(size - 1) /\ Source(p) < p
      BY <1>2, <2>2
    <3> HIDE DEF Source
    <3>2. Source(p) \notin Odd
      BY <1>1, <2>1, <2>2, <3>1
    <3> QED  BY <3>1, <3>2
  <2>4. out[p] = LET c == LzCovers(stream, p)
                 IN  IF ~c.token.match THEN c.token.byte
                     ELSE IF c.token.off = 0 THEN was[p]
                     ELSE out[Source(p)]
    BY <1>4, <1>5, <2>2
  <2>5. g[p] = LET c == LzCovers(stream, p)
               IN  IF ~c.token.match THEN c.token.byte
                   ELSE IF c.token.off = 0 THEN was[p]
                   ELSE g[Source(p)]
    BY <1>3, <1>5, <2>2
  <2> HIDE DEF Source
  <2> QED  BY <2>2, <2>3, <2>4, <2>5
<1>7. g[q] = s.mem[q]
  BY DEF g
<1> QED  BY <1>6, <1>7 DEF out

-----------------------------------------------------------------------------
LzIInv == lz_mem \in LzMemories /\ lz_was \in LzMemories /\ LzDecodes

LEMMA LzInitIInv == LzInit => LzIInv
<1> SUFFICES ASSUME LzInit  PROVE LzIInv
  OBVIOUS
<1>1. lz_mem \in LzMemories /\ lz_was \in LzMemories
  BY DEF LzInit, LzMemories
<1>2. lz_call.op # "decode"
  BY DEF LzInit
<1> QED  BY <1>1, <1>2 DEF LzIInv, LzDecodes

LEMMA LzRunIInv ==
  ASSUME LzAssumption, LzIInv, NEW stream \in LzStreams, NEW size \in 0..(LzMaxSize + 1),
         LzRun(stream, size)
  PROVE  LzIInv'
<1> DEFINE end == LzDecode(stream, size, lz_mem)
           done == size \in 1..LzMaxSize /\ end.ok /\ end.pos = size
<1>1. stream \in Seq(LzTokens) /\ lz_mem \in LzMemories /\ LzMaxSize \in Nat /\ size \in Nat
  BY DEF LzAssumption, LzIInv
<1>2. /\ lz_was' = lz_mem
      /\ lz_mem' = IF size \in 1..LzMaxSize THEN end.mem ELSE lz_mem
      /\ lz_call' = [op |-> "decode", stream |-> stream, size |-> size,
                     v |-> IF done THEN size ELSE LzFailed]
  BY DEF LzRun
<1> HIDE DEF end
<1>3. size \in 1..LzMaxSize => LzSoFar(stream, size, lz_mem, end, Len(stream))
  BY <1>1, DecodeGoesOn DEF end
<1>4. size \in 1..LzMaxSize => end.mem \in LzMemories
  BY <1>3 DEF LzSoFar, LzStates
<1>5. lz_mem' \in LzMemories /\ lz_was' \in LzMemories
  BY <1>1, <1>2, <1>4
<1>6. ASSUME done, NEW a \in LzPlaces
      PROVE  lz_mem'[a] = IF a < size THEN LzMeaning(stream, size, lz_mem)[a] ELSE lz_mem[a]
  <2>1. LzSoFar(stream, size, lz_mem, end, Len(stream)) /\ lz_mem' = end.mem
    BY <1>2, <1>3, <1>6
  <2>2. /\ size = IF LzEnds(stream)[Len(stream)] <= size THEN LzEnds(stream)[Len(stream)] ELSE size
        /\ \A x \in LzPlaces : x >= size => end.mem[x] = lz_mem[x]
        /\ LzSaid(stream, size, lz_mem, end, Len(stream))
    BY <1>6, <2>1 DEF LzSoFar
  <2>3. LzEnds(stream)[Len(stream)] >= size
    <3>1. LzEnds(stream)[Len(stream)] \in Nat
      BY <1>1, EndsGrow DEF LzEndsGrow
    <3> QED  BY <1>1, <2>2, <3>1
  <2>4. a \in Nat
    BY DEF LzPlaces, LzAssumption
  <2>5. CASE a < size
    <3>1. a \in 0..(size - 1) /\ size \in 1..LzMaxSize
      BY <1>1, <1>6, <2>4, <2>5
    <3>2. LzMeaning(stream, size, lz_mem)[a] = end.mem[a]
      BY <1>1, <2>2, <2>3, <3>1, MeaningIs
    <3> QED  BY <2>1, <2>5, <3>2
  <2>6. CASE ~ (a < size)
    <3>1. a >= size
      BY <1>1, <2>4, <2>6
    <3> QED  BY <2>1, <2>2, <2>6, <3>1
  <2> QED  BY <2>5, <2>6
<1> HIDE DEF done
<1>7. LzDecodes'
  <2>1. SUFFICES ASSUME lz_call'.v # LzFailed, NEW a \in LzPlaces
                 PROVE  lz_mem'[a] = IF a < lz_call'.size
                                     THEN LzMeaning(lz_call'.stream, lz_call'.size, lz_was')[a]
                                     ELSE lz_was'[a]
    BY DEF LzDecodes, LzPlaces
  <2>2. done /\ lz_call'.size = size /\ lz_call'.stream = stream
    BY <1>2, <2>1
  <2> QED  BY <1>2, <1>6, <2>2
<1> QED  BY <1>5, <1>7 DEF LzIInv

LEMMA LzGuestStoreIInv ==
  ASSUME LzIInv, NEW a \in LzPlaces, NEW b \in LzBytes, LzGuestStore(a, b)
  PROVE  LzIInv'
<1>1. lz_mem \in LzMemories
  BY DEF LzIInv
<1>2. lz_was' = lz_mem /\ lz_mem' = LzStore(lz_mem, a, b, g_r606_in_hle) /\ lz_call'.op = "store"
  BY DEF LzGuestStore
<1>3. lz_mem' \in LzMemories
  BY <1>1, <1>2 DEF LzStore, LzMemories
<1> QED  BY <1>1, <1>2, <1>3 DEF LzIInv, LzDecodes

LEMMA LzStepIInv == LzAssumption /\ LzIInv /\ [LzNext]_lz_vars => LzIInv'
<1> SUFFICES ASSUME LzAssumption, LzIInv, [LzNext]_lz_vars  PROVE LzIInv'
  OBVIOUS
<1>1. ASSUME NEW stream \in LzStreams, NEW size \in 0..(LzMaxSize + 1), LzRun(stream, size)
      PROVE  LzIInv'
  BY <1>1, LzRunIInv
<1>2. ASSUME NEW a \in LzPlaces, NEW b \in LzBytes, LzGuestStore(a, b)
      PROVE  LzIInv'
  BY <1>2, LzGuestStoreIInv
<1>3. CASE UNCHANGED lz_vars
  BY <1>3 DEF lz_vars, LzIInv, LzDecodes, LzPlaces
<1> QED  BY <1>1, <1>2, <1>3 DEF LzNext

\* The native decompressor puts into memory what the stream means, whatever
\* stands there before: overlapping matches, a match cut off by the end, and
\* bytes the store guard would drop (runtime.c:7068-7169).
THEOREM DecodesTheStream == LzSpec => []LzDecodes
<1>1. LzInit => LzIInv
  BY LzInitIInv
<1>2. LzIInv /\ [LzNext]_lz_vars => LzIInv'
  BY LzStepIInv, LzAssumption
<1>3. LzIInv => LzDecodes
  BY DEF LzIInv
<1> QED  BY <1>1, <1>2, <1>3, PTL DEF LzSpec

-----------------------------------------------------------------------------
(* The disc stage and the decompressor.                                    *)

\* A line of n places with one more behind it.
Longer(g, f, v, n) == g = [k \in 0..n |-> g[k]] /\ g[n] = v /\ \A k \in 0..(n - 1) : g[k] = f[k]

LEMMA OneLonger ==
  ASSUME NEW f, NEW v, NEW n \in Nat
  PROVE  \E g : Longer(g, f, v, n)
<1> DEFINE g == [k \in 0..n |-> IF k = n THEN v ELSE f[k]]
<1>1. g = [k \in 0..n |-> g[k]] /\ g[n] = v
  OBVIOUS
<1>2. \A k \in 0..(n - 1) : g[k] = f[k]
  OBVIOUS
<1> HIDE DEF g
<1> QED  BY <1>1, <1>2 DEF Longer

LEMMA LongerAgrees ==
  ASSUME NEW f, NEW g, NEW v, NEW n \in Nat \ {0}, Longer(g, f, v, n)
  PROVE  /\ g = [k \in 0..n |-> g[k]] /\ g[n] = v /\ g[0] = f[0] /\ g[n - 1] = f[n - 1]
         /\ \A k \in 1..n : k # n => k \in 1..(n - 1) /\ g[k] = f[k] /\ g[k - 1] = f[k - 1]
<1>1. \A k \in 0..(n - 1) : g[k] = f[k]
  BY DEF Longer
<1>2. 0 \in 0..(n - 1) /\ n - 1 \in 0..(n - 1)
  OBVIOUS
<1>3. \A k \in 1..n : k # n => k \in 1..(n - 1) /\ k \in 0..(n - 1) /\ k - 1 \in 0..(n - 1)
  OBVIOUS
<1>4. g = [k \in 0..n |-> g[k]] /\ g[n] = v
  BY DEF Longer
<1> QED  BY <1>1, <1>2, <1>3, <1>4

\* The output that a match of the stage has copied so far.
StCopyLine(out, from, f, n) ==
  /\ f = [k \in 0..n |-> f[k]] /\ f[0] = out
  /\ \A k \in 1..n : f[k] = Append(f[k - 1], StBack(f[k - 1], from + k - 1))

LEMMA StCopyReaches ==
  ASSUME NEW out, NEW from, NEW N \in Nat
  PROVE  \E f : StCopyLine(out, from, f, N)
<1> DEFINE T == {n \in 0..N : \E f : StCopyLine(out, from, f, n)}
<1>1. 0 \in T
  <2> DEFINE f == [k \in 0..0 |-> out]
  <2>1. f = [k \in 0..0 |-> f[k]] /\ f[0] = out
    OBVIOUS
  <2> HIDE DEF f
  <2>2. StCopyLine(out, from, f, 0)
    BY <2>1 DEF StCopyLine
  <2> QED  BY <2>2
<1>2. ASSUME NEW n \in 1..N, n - 1 \in T  PROVE n \in T
  <2>1. PICK f : StCopyLine(out, from, f, n - 1)
    BY <1>2
  <2> DEFINE v == Append(f[n - 1], StBack(f[n - 1], from + n - 1))
  <2> HIDE DEF v
  <2>2. PICK g : Longer(g, f, v, n)
    BY OneLonger
  <2>3. /\ g = [k \in 0..n |-> g[k]] /\ g[0] = f[0] /\ g[n - 1] = f[n - 1]
        /\ g[n] = v
        /\ \A k \in 1..n : k # n => k \in 1..(n - 1) /\ g[k] = f[k] /\ g[k - 1] = f[k - 1]
    BY <2>2, LongerAgrees
  <2>4. ASSUME NEW k \in 1..n
        PROVE  g[k] = Append(g[k - 1], StBack(g[k - 1], from + k - 1))
    <3>1. CASE k = n
      BY <2>3, <3>1 DEF v
    <3>2. CASE k # n
      BY <2>1, <2>3, <3>2 DEF StCopyLine
    <3> QED  BY <3>1, <3>2
  <2>5. StCopyLine(out, from, g, n)
    BY <2>1, <2>3, <2>4 DEF StCopyLine
  <2> QED  BY <2>5
<1>3. N \in T
  <2> HIDE DEF T
  <2>1. Inductive(T, N) /\ N \in 0..N
    BY <1>1, <1>2 DEF Inductive
  <2> QED  BY <2>1, StepsReach
<1> QED  BY <1>3

LEMMA StCopyIsLine ==
  ASSUME NEW out, NEW from, NEW N \in Nat
  PROVE  \E f : StCopyLine(out, from, f, N) /\ StCopy(out, from, N) = f[N]
<1> DEFINE Walks(f) == f = [k \in 0..N |-> IF k = 0 THEN out
                                           ELSE Append(f[k - 1], StBack(f[k - 1], from + k - 1))]
           walk == CHOOSE f : Walks(f)
<1>1. PICK g : StCopyLine(out, from, g, N)
  BY StCopyReaches
<1>2. Walks(walk)
  <2>1. Walks(g)
    <3> DEFINE w == [k \in 0..N |-> IF k = 0 THEN out ELSE Append(g[k - 1], StBack(g[k - 1], from + k - 1))]
    <3>1. \A k \in 0..N : k # 0 => k \in 1..N
      OBVIOUS
    <3>2. \A k \in 0..N : g[k] = w[k]
      BY <1>1, <3>1 DEF StCopyLine
    <3>3. g = [k \in 0..N |-> g[k]] /\ w = [k \in 0..N |-> w[k]]
      BY <1>1 DEF StCopyLine
    <3>4. g = w
      <4> HIDE DEF w
      <4> QED  BY <3>2, <3>3
    <3> QED  BY <3>4
  <2> HIDE DEF Walks
  <2> QED  BY <2>1, Zenon
<1>3. StCopy(out, from, N) = walk[N]
  BY DEF StCopy
<1> HIDE DEF walk
<1>4. StCopyLine(out, from, walk, N)
  <2>1. 0 \in 0..N /\ \A k \in 1..N : k \in 0..N /\ k # 0
    OBVIOUS
  <2>2. walk = [k \in 0..N |-> walk[k]]
    BY <1>2
  <2>3. \A k \in 0..N : walk[k] = IF k = 0 THEN out
                          ELSE Append(walk[k - 1], StBack(walk[k - 1], from + k - 1))
    BY <1>2
  <2> HIDE DEF Walks
  <2> QED  BY <2>1, <2>2, <2>3 DEF StCopyLine
<1> QED  BY <1>3, <1>4

\* Memory while a match is copied.
LzCopyLine(mem, pos, from, f, n) ==
  /\ f = [k \in 0..n |-> f[k]] /\ f[0] = mem
  /\ \A k \in 1..n : f[k] = LzStore(f[k - 1], pos + k - 1, f[k - 1][from + k - 1], TRUE)

LEMMA LzCopyReaches ==
  ASSUME NEW mem, NEW pos, NEW from, NEW N \in Nat
  PROVE  \E f : LzCopyLine(mem, pos, from, f, N)
<1> DEFINE T == {n \in 0..N : \E f : LzCopyLine(mem, pos, from, f, n)}
<1>1. 0 \in T
  <2> DEFINE f == [k \in 0..0 |-> mem]
  <2>1. f = [k \in 0..0 |-> f[k]] /\ f[0] = mem
    OBVIOUS
  <2> HIDE DEF f
  <2>2. LzCopyLine(mem, pos, from, f, 0)
    BY <2>1 DEF LzCopyLine
  <2> QED  BY <2>2
<1>2. ASSUME NEW n \in 1..N, n - 1 \in T  PROVE n \in T
  <2>1. PICK f : LzCopyLine(mem, pos, from, f, n - 1)
    BY <1>2
  <2> DEFINE v == LzStore(f[n - 1], pos + n - 1, f[n - 1][from + n - 1], TRUE)
  <2> HIDE DEF v
  <2>2. PICK g : Longer(g, f, v, n)
    BY OneLonger
  <2>3. /\ g = [k \in 0..n |-> g[k]] /\ g[0] = f[0] /\ g[n - 1] = f[n - 1]
        /\ g[n] = v
        /\ \A k \in 1..n : k # n => k \in 1..(n - 1) /\ g[k] = f[k] /\ g[k - 1] = f[k - 1]
    BY <2>2, LongerAgrees
  <2>4. ASSUME NEW k \in 1..n
        PROVE  g[k] = LzStore(g[k - 1], pos + k - 1, g[k - 1][from + k - 1], TRUE)
    <3>1. CASE k = n
      BY <2>3, <3>1 DEF v
    <3>2. CASE k # n
      BY <2>1, <2>3, <3>2 DEF LzCopyLine
    <3> QED  BY <3>1, <3>2
  <2>5. LzCopyLine(mem, pos, from, g, n)
    BY <2>1, <2>3, <2>4 DEF LzCopyLine
  <2> QED  BY <2>5
<1>3. N \in T
  <2> HIDE DEF T
  <2>1. Inductive(T, N) /\ N \in 0..N
    BY <1>1, <1>2 DEF Inductive
  <2> QED  BY <2>1, StepsReach
<1> QED  BY <1>3

LEMMA LzCopyIsLine ==
  ASSUME NEW mem, NEW pos, NEW from, NEW N \in Nat
  PROVE  \E f : LzCopyLine(mem, pos, from, f, N) /\ LzCopy(mem, pos, from, N) = f[N]
<1> DEFINE Walks(f) == f = [k \in 0..N |-> IF k = 0 THEN mem
                                           ELSE LzStore(f[k - 1], pos + k - 1, f[k - 1][from + k - 1], TRUE)]
           walk == CHOOSE f : Walks(f)
<1>1. PICK g : LzCopyLine(mem, pos, from, g, N)
  BY LzCopyReaches
<1>2. Walks(walk)
  <2>1. Walks(g)
    <3> DEFINE w == [k \in 0..N |-> IF k = 0 THEN mem ELSE LzStore(g[k - 1], pos + k - 1, g[k - 1][from + k - 1], TRUE)]
    <3>1. \A k \in 0..N : k # 0 => k \in 1..N
      OBVIOUS
    <3>2. \A k \in 0..N : g[k] = w[k]
      BY <1>1, <3>1 DEF LzCopyLine
    <3>3. g = [k \in 0..N |-> g[k]] /\ w = [k \in 0..N |-> w[k]]
      BY <1>1 DEF LzCopyLine
    <3>4. g = w
      <4> HIDE DEF w
      <4> QED  BY <3>2, <3>3
    <3> QED  BY <3>4
  <2> HIDE DEF Walks
  <2> QED  BY <2>1, Zenon
<1>3. LzCopy(mem, pos, from, N) = walk[N]
  BY DEF LzCopy
<1> HIDE DEF walk
<1>4. LzCopyLine(mem, pos, from, walk, N)
  <2>1. 0 \in 0..N /\ \A k \in 1..N : k \in 0..N /\ k # 0
    OBVIOUS
  <2>2. walk = [k \in 0..N |-> walk[k]]
    BY <1>2
  <2>3. \A k \in 0..N : walk[k] = IF k = 0 THEN mem
                          ELSE LzStore(walk[k - 1], pos + k - 1, walk[k - 1][from + k - 1], TRUE)
    BY <1>2
  <2> HIDE DEF Walks
  <2> QED  BY <2>1, <2>2, <2>3 DEF LzCopyLine
<1> QED  BY <1>3, <1>4

LzFresh(mem) == [pos |-> 0, mem |-> mem, ok |-> TRUE]

\* The decompressor after each token.
LzRunLine(stream, size, mem, f, n) ==
  /\ f = [k \in 0..n |-> f[k]] /\ f[0] = LzFresh(mem)
  /\ \A k \in 1..n : f[k] = LzToken(f[k - 1], stream[k], size)

LEMMA LzRunReaches ==
  ASSUME NEW stream, NEW size, NEW mem, NEW N \in Nat
  PROVE  \E f : LzRunLine(stream, size, mem, f, N)
<1> DEFINE T == {n \in 0..N : \E f : LzRunLine(stream, size, mem, f, n)}
<1>1. 0 \in T
  <2> DEFINE f == [k \in 0..0 |-> LzFresh(mem)]
  <2>1. f = [k \in 0..0 |-> f[k]] /\ f[0] = LzFresh(mem)
    OBVIOUS
  <2> HIDE DEF f
  <2>2. LzRunLine(stream, size, mem, f, 0)
    BY <2>1 DEF LzRunLine
  <2> QED  BY <2>2
<1>2. ASSUME NEW n \in 1..N, n - 1 \in T  PROVE n \in T
  <2>1. PICK f : LzRunLine(stream, size, mem, f, n - 1)
    BY <1>2
  <2> DEFINE v == LzToken(f[n - 1], stream[n], size)
  <2> HIDE DEF v
  <2>2. PICK g : Longer(g, f, v, n)
    BY OneLonger
  <2>3. /\ g = [k \in 0..n |-> g[k]] /\ g[0] = f[0] /\ g[n - 1] = f[n - 1]
        /\ g[n] = v
        /\ \A k \in 1..n : k # n => k \in 1..(n - 1) /\ g[k] = f[k] /\ g[k - 1] = f[k - 1]
    BY <2>2, LongerAgrees
  <2>4. ASSUME NEW k \in 1..n
        PROVE  g[k] = LzToken(g[k - 1], stream[k], size)
    <3>1. CASE k = n
      BY <2>3, <3>1 DEF v
    <3>2. CASE k # n
      BY <2>1, <2>3, <3>2 DEF LzRunLine
    <3> QED  BY <3>1, <3>2
  <2>5. LzRunLine(stream, size, mem, g, n)
    BY <2>1, <2>3, <2>4 DEF LzRunLine
  <2> QED  BY <2>5
<1>3. N \in T
  <2> HIDE DEF T
  <2>1. Inductive(T, N) /\ N \in 0..N
    BY <1>1, <1>2 DEF Inductive
  <2> QED  BY <2>1, StepsReach
<1> QED  BY <1>3

LEMMA LzRunIsLine ==
  ASSUME NEW stream, NEW size, NEW mem, NEW N \in Nat, N = Len(stream)
  PROVE  \E f : LzRunLine(stream, size, mem, f, N) /\ LzDecode(stream, size, mem) = f[N]
<1> DEFINE Walks(f) == f = [k \in 0..N |-> IF k = 0 THEN LzFresh(mem)
                                           ELSE LzToken(f[k - 1], stream[k], size)]
           walk == CHOOSE f : Walks(f)
<1>1. PICK g : LzRunLine(stream, size, mem, g, N)
  BY LzRunReaches
<1>2. Walks(walk)
  <2>1. Walks(g)
    <3> DEFINE w == [k \in 0..N |-> IF k = 0 THEN LzFresh(mem) ELSE LzToken(g[k - 1], stream[k], size)]
    <3>1. \A k \in 0..N : k # 0 => k \in 1..N
      OBVIOUS
    <3>2. \A k \in 0..N : g[k] = w[k]
      BY <1>1, <3>1 DEF LzRunLine
    <3>3. g = [k \in 0..N |-> g[k]] /\ w = [k \in 0..N |-> w[k]]
      BY <1>1 DEF LzRunLine
    <3>4. g = w
      <4> HIDE DEF w
      <4> QED  BY <3>2, <3>3
    <3> QED  BY <3>4
  <2> HIDE DEF Walks
  <2> QED  BY <2>1, Zenon
<1>3. LzDecode(stream, size, mem) = walk[N]
  BY DEF LzDecode, LzFresh
<1> HIDE DEF walk
<1>4. LzRunLine(stream, size, mem, walk, N)
  <2>1. 0 \in 0..N /\ \A k \in 1..N : k \in 0..N /\ k # 0
    OBVIOUS
  <2>2. walk = [k \in 0..N |-> walk[k]]
    BY <1>2
  <2>3. \A k \in 0..N : walk[k] = IF k = 0 THEN LzFresh(mem)
                          ELSE LzToken(walk[k - 1], stream[k], size)
    BY <1>2
  <2> HIDE DEF Walks
  <2> QED  BY <2>1, <2>2, <2>3 DEF LzRunLine
<1> QED  BY <1>3, <1>4

StBefore == [ctrl |-> 5, place |-> 4, bytes |-> 1]

\* Where the tokens lie.
StPlanLine(raw, f, n) ==
  /\ f = [k \in 0..n |-> f[k]] /\ f[0] = StBefore
  /\ \A k \in 1..n : f[k] = StNextToken(raw, f[k - 1], k)

LEMMA StPlanReaches ==
  ASSUME NEW raw, NEW N \in Nat
  PROVE  \E f : StPlanLine(raw, f, N)
<1> DEFINE T == {n \in 0..N : \E f : StPlanLine(raw, f, n)}
<1>1. 0 \in T
  <2> DEFINE f == [k \in 0..0 |-> StBefore]
  <2>1. f = [k \in 0..0 |-> f[k]] /\ f[0] = StBefore
    OBVIOUS
  <2> HIDE DEF f
  <2>2. StPlanLine(raw, f, 0)
    BY <2>1 DEF StPlanLine
  <2> QED  BY <2>2
<1>2. ASSUME NEW n \in 1..N, n - 1 \in T  PROVE n \in T
  <2>1. PICK f : StPlanLine(raw, f, n - 1)
    BY <1>2
  <2> DEFINE v == StNextToken(raw, f[n - 1], n)
  <2> HIDE DEF v
  <2>2. PICK g : Longer(g, f, v, n)
    BY OneLonger
  <2>3. /\ g = [k \in 0..n |-> g[k]] /\ g[0] = f[0] /\ g[n - 1] = f[n - 1]
        /\ g[n] = v
        /\ \A k \in 1..n : k # n => k \in 1..(n - 1) /\ g[k] = f[k] /\ g[k - 1] = f[k - 1]
    BY <2>2, LongerAgrees
  <2>4. ASSUME NEW k \in 1..n
        PROVE  g[k] = StNextToken(raw, g[k - 1], k)
    <3>1. CASE k = n
      BY <2>3, <3>1 DEF v
    <3>2. CASE k # n
      BY <2>1, <2>3, <3>2 DEF StPlanLine
    <3> QED  BY <3>1, <3>2
  <2>5. StPlanLine(raw, g, n)
    BY <2>1, <2>3, <2>4 DEF StPlanLine
  <2> QED  BY <2>5
<1>3. N \in T
  <2> HIDE DEF T
  <2>1. Inductive(T, N) /\ N \in 0..N
    BY <1>1, <1>2 DEF Inductive
  <2> QED  BY <2>1, StepsReach
<1> QED  BY <1>3

LEMMA StPlanIsLine ==
  ASSUME NEW raw, NEW N \in Nat, N = Len(raw)
  PROVE  \E f : StPlanLine(raw, f, N) /\ StPlan(raw) = f
<1> DEFINE Walks(f) == f = [k \in 0..N |-> IF k = 0 THEN StBefore
                                           ELSE StNextToken(raw, f[k - 1], k)]
           walk == CHOOSE f : Walks(f)
<1>1. PICK g : StPlanLine(raw, g, N)
  BY StPlanReaches
<1>2. Walks(walk)
  <2>1. Walks(g)
    <3> DEFINE w == [k \in 0..N |-> IF k = 0 THEN StBefore ELSE StNextToken(raw, g[k - 1], k)]
    <3>1. \A k \in 0..N : k # 0 => k \in 1..N
      OBVIOUS
    <3>2. \A k \in 0..N : g[k] = w[k]
      BY <1>1, <3>1 DEF StPlanLine
    <3>3. g = [k \in 0..N |-> g[k]] /\ w = [k \in 0..N |-> w[k]]
      BY <1>1 DEF StPlanLine
    <3>4. g = w
      <4> HIDE DEF w
      <4> QED  BY <3>2, <3>3
    <3> QED  BY <3>4
  <2> HIDE DEF Walks
  <2> QED  BY <2>1, Zenon
<1>3. StPlan(raw) = walk
  BY DEF StPlan, StBefore
<1> HIDE DEF walk
<1>4. StPlanLine(raw, walk, N)
  <2>1. 0 \in 0..N /\ \A k \in 1..N : k \in 0..N /\ k # 0
    OBVIOUS
  <2>2. walk = [k \in 0..N |-> walk[k]]
    BY <1>2
  <2>3. \A k \in 0..N : walk[k] = IF k = 0 THEN StBefore
                          ELSE StNextToken(raw, walk[k - 1], k)
    BY <1>2
  <2> HIDE DEF Walks
  <2> QED  BY <2>1, <2>2, <2>3 DEF StPlanLine
<1> QED  BY <1>3, <1>4

StFresh == [ok |-> TRUE, i |-> 5, ctrl |-> 0, bits |-> 0, out |-> << >>]

\* The stage's decoder after each turn.
StRunLine(raw, forgives, f, n) ==
  /\ f = [k \in 0..n |-> f[k]] /\ f[0] = StFresh
  /\ \A k \in 1..n : f[k] = StTurn(f[k - 1], raw, StHeader(raw), forgives)

LEMMA StRunReaches ==
  ASSUME NEW raw, NEW forgives, NEW N \in Nat
  PROVE  \E f : StRunLine(raw, forgives, f, N)
<1> DEFINE T == {n \in 0..N : \E f : StRunLine(raw, forgives, f, n)}
<1>1. 0 \in T
  <2> DEFINE f == [k \in 0..0 |-> StFresh]
  <2>1. f = [k \in 0..0 |-> f[k]] /\ f[0] = StFresh
    OBVIOUS
  <2> HIDE DEF f
  <2>2. StRunLine(raw, forgives, f, 0)
    BY <2>1 DEF StRunLine
  <2> QED  BY <2>2
<1>2. ASSUME NEW n \in 1..N, n - 1 \in T  PROVE n \in T
  <2>1. PICK f : StRunLine(raw, forgives, f, n - 1)
    BY <1>2
  <2> DEFINE v == StTurn(f[n - 1], raw, StHeader(raw), forgives)
  <2> HIDE DEF v
  <2>2. PICK g : Longer(g, f, v, n)
    BY OneLonger
  <2>3. /\ g = [k \in 0..n |-> g[k]] /\ g[0] = f[0] /\ g[n - 1] = f[n - 1]
        /\ g[n] = v
        /\ \A k \in 1..n : k # n => k \in 1..(n - 1) /\ g[k] = f[k] /\ g[k - 1] = f[k - 1]
    BY <2>2, LongerAgrees
  <2>4. ASSUME NEW k \in 1..n
        PROVE  g[k] = StTurn(g[k - 1], raw, StHeader(raw), forgives)
    <3>1. CASE k = n
      BY <2>3, <3>1 DEF v
    <3>2. CASE k # n
      BY <2>1, <2>3, <3>2 DEF StRunLine
    <3> QED  BY <3>1, <3>2
  <2>5. StRunLine(raw, forgives, g, n)
    BY <2>1, <2>3, <2>4 DEF StRunLine
  <2> QED  BY <2>5
<1>3. N \in T
  <2> HIDE DEF T
  <2>1. Inductive(T, N) /\ N \in 0..N
    BY <1>1, <1>2 DEF Inductive
  <2> QED  BY <2>1, StepsReach
<1> QED  BY <1>3

LEMMA StRunIsLine ==
  ASSUME NEW raw, NEW forgives, NEW N \in Nat,
         N = Len(raw), N >= 4, StPlausible(StHeader(raw))
  PROVE  \E f : StRunLine(raw, forgives, f, N) /\ StRun(raw, forgives) = [f[N] EXCEPT !.ok = @ /\ Len(f[N].out) >= StHeader(raw)]
<1> DEFINE Walks(f) == f = [k \in 0..N |-> IF k = 0 THEN StFresh
                                           ELSE StTurn(f[k - 1], raw, StHeader(raw), forgives)]
           walk == CHOOSE f : Walks(f)
<1>1. PICK g : StRunLine(raw, forgives, g, N)
  BY StRunReaches
<1>2. Walks(walk)
  <2>1. Walks(g)
    <3> DEFINE w == [k \in 0..N |-> IF k = 0 THEN StFresh ELSE StTurn(g[k - 1], raw, StHeader(raw), forgives)]
    <3>1. \A k \in 0..N : k # 0 => k \in 1..N
      OBVIOUS
    <3>2. \A k \in 0..N : g[k] = w[k]
      BY <1>1, <3>1 DEF StRunLine
    <3>3. g = [k \in 0..N |-> g[k]] /\ w = [k \in 0..N |-> w[k]]
      BY <1>1 DEF StRunLine
    <3>4. g = w
      <4> HIDE DEF w
      <4> QED  BY <3>2, <3>3
    <3> QED  BY <3>4
  <2> HIDE DEF Walks
  <2> QED  BY <2>1, Zenon
<1>3. StRun(raw, forgives) = [walk[N] EXCEPT !.ok = @ /\ Len(walk[N].out) >= StHeader(raw)]
  BY DEF StRun, StFresh
<1> HIDE DEF walk
<1>4. StRunLine(raw, forgives, walk, N)
  <2>1. 0 \in 0..N /\ \A k \in 1..N : k \in 0..N /\ k # 0
    OBVIOUS
  <2>2. walk = [k \in 0..N |-> walk[k]]
    BY <1>2
  <2>3. \A k \in 0..N : walk[k] = IF k = 0 THEN StFresh
                          ELSE StTurn(walk[k - 1], raw, StHeader(raw), forgives)
    BY <1>2
  <2> HIDE DEF Walks
  <2> QED  BY <2>1, <2>2, <2>3 DEF StRunLine
<1> QED  BY <1>3, <1>4

-----------------------------------------------------------------------------
(* A match.                                                                *)

\* Memory holds the output, and zeros behind it.
StHolds(mem, out) ==
  /\ mem = [a \in LzPlaces |-> mem[a]]
  /\ \A a \in LzPlaces : mem[a] = IF a < Len(out) THEN out[a + 1] ELSE 0

LEMMA ByteIsHeld ==
  ASSUME LzMemory \in Nat, NEW mem, NEW out \in Seq(Nat), StHolds(mem, out),
         Len(out) < LzMemory, NEW b \in Nat
  PROVE  /\ StHolds([mem EXCEPT ![Len(out)] = b], Append(out, b))
         /\ Append(out, b) \in Seq(Nat) /\ Len(Append(out, b)) = Len(out) + 1
<1> DEFINE new == [mem EXCEPT ![Len(out)] = b]
           o == Append(out, b)
<1>1. o \in Seq(Nat) /\ Len(o) = Len(out) + 1 /\ Len(out) \in Nat
  OBVIOUS
<1>2. o[Len(out) + 1] = b /\ \A a \in 0..(Len(out) - 1) : o[a + 1] = out[a + 1]
  OBVIOUS
<1>3. mem = [a \in LzPlaces |-> mem[a]]
      /\ \A a \in LzPlaces : mem[a] = IF a < Len(out) THEN out[a + 1] ELSE 0
  BY DEF StHolds
<1>4. new = [a \in LzPlaces |-> new[a]] /\ Len(out) \in LzPlaces
  <2>1. Len(out) \in LzPlaces
    BY <1>1 DEF LzPlaces
  <2> QED  BY <1>3, <2>1
<1>5. new[Len(out)] = b /\ \A a \in LzPlaces : a # Len(out) => new[a] = mem[a]
  BY <1>3, <1>4
<1> HIDE DEF new, o
<1>6. ASSUME NEW a \in LzPlaces
      PROVE  new[a] = IF a < Len(o) THEN o[a + 1] ELSE 0
  <2>1. CASE a = Len(out)
    BY <1>1, <1>2, <1>5, <2>1
  <2>2. CASE a # Len(out)
    <3>1. a \in Nat
      BY DEF LzPlaces
    <3>2. a < Len(o) <=> a < Len(out)
      BY <1>1, <2>2, <3>1
    <3>3. a < Len(out) => o[a + 1] = out[a + 1]
      <4>1. a < Len(out) => a \in 0..(Len(out) - 1)
        BY <1>1, <3>1
      <4> QED  BY <1>2, <4>1
    <3>4. new[a] = IF a < Len(out) THEN out[a + 1] ELSE 0
      BY <1>3, <1>5, <2>2
    <3> QED  BY <3>2, <3>3, <3>4
  <2> QED  BY <2>1, <2>2
<1>7. StHolds(new, o)
  BY <1>4, <1>6 DEF StHolds
<1> QED  BY <1>1, <1>7 DEF new, o

LEMMA BackIsHeld ==
  ASSUME NEW mem, NEW out \in Seq(Nat), StHolds(mem, out), NEW j \in LzPlaces
  PROVE  StBack(out, j) = mem[j] /\ StBack(out, j) \in Nat
<1>1. mem[j] = IF j < Len(out) THEN out[j + 1] ELSE 0
  BY DEF StHolds
<1>2. CASE j < Len(out)
  <2>1. j \in 0..(Len(out) - 1) /\ j + 1 \in 1..Len(out)
    BY <1>2 DEF LzPlaces
  <2> QED  BY <1>1, <1>2, <2>1 DEF StBack
<1>3. CASE ~(j < Len(out))
  <2>1. j \notin 0..(Len(out) - 1)
    BY <1>3 DEF LzPlaces
  <2> QED  BY <1>1, <1>3, <2>1 DEF StBack
<1> QED  BY <1>2, <1>3

LEMMA MatchIsHeld ==
  ASSUME LzMemory \in Nat, NEW mem, NEW out \in Seq(Nat), StHolds(mem, out),
         NEW from \in Nat, from <= Len(out), NEW n \in Nat, Len(out) + n <= LzMemory
  PROVE  /\ StHolds(LzCopy(mem, Len(out), from, n), StCopy(out, from, n))
         /\ StCopy(out, from, n) \in Seq(Nat)
         /\ Len(StCopy(out, from, n)) = Len(out) + n
<1> DEFINE pos == Len(out)
<1>1. PICK o : StCopyLine(out, from, o, n) /\ StCopy(out, from, n) = o[n]
  BY StCopyIsLine
<1>2. PICK c : LzCopyLine(mem, pos, from, c, n) /\ LzCopy(mem, pos, from, n) = c[n]
  BY LzCopyIsLine
<1> DEFINE T == {k \in 0..n : /\ StHolds(c[k], o[k]) /\ o[k] \in Seq(Nat)
                              /\ Len(o[k]) = pos + k}
<1>3. 0 \in T
  BY <1>1, <1>2 DEF StCopyLine, LzCopyLine
<1>4. ASSUME NEW k \in 1..n, k - 1 \in T  PROVE k \in T
  <2> DEFINE last == o[k - 1]
             m == c[k - 1]
             j == from + k - 1
             b == StBack(last, j)
  <2>1. StHolds(m, last) /\ last \in Seq(Nat) /\ Len(last) = pos + k - 1
    BY <1>4
  <2>2. o[k] = Append(last, b)
    BY <1>1 DEF StCopyLine
  <2>3. c[k] = [m EXCEPT ![pos + k - 1] = m[j]]
    BY <1>2 DEF LzCopyLine, LzStore
  <2>4. j \in LzPlaces /\ Len(last) < LzMemory /\ pos + k - 1 = Len(last)
    BY <2>1 DEF LzPlaces
  <2> HIDE DEF last, m, j, b
  <2>5. b = m[j] /\ b \in Nat
    BY <2>1, <2>4, BackIsHeld DEF b
  <2>6. /\ StHolds(c[k], o[k]) /\ o[k] \in Seq(Nat) /\ Len(o[k]) = Len(last) + 1
    BY <2>1, <2>2, <2>3, <2>4, <2>5, ByteIsHeld
  <2>7. Len(o[k]) = pos + k /\ k \in 0..n
    BY <2>1, <2>6
  <2> QED  BY <2>6, <2>7
<1>5. n \in T
  <2> HIDE DEF T
  <2>1. Inductive(T, n) /\ n \in 0..n
    BY <1>3, <1>4 DEF Inductive
  <2> QED  BY <2>1, StepsReach
<1> QED  BY <1>1, <1>2, <1>5

-----------------------------------------------------------------------------
(* The tokens.                                                             *)

StAreBytes(raw) == raw \in Seq(Nat) /\ \A i \in 1..Len(raw) : raw[i] < 256

LEMMA PlacesOf ==
  ASSUME NEW S, NEW s \in Seq(S)
  PROVE  Len(s) \in Nat /\ s = [i \in 1..Len(s) |-> s[i]] /\ \A i \in 1..Len(s) : s[i] \in S
  OBVIOUS

LEMMA BytesAre ==
  ASSUME NEW raw \in Seq(0..255)
  PROVE  StAreBytes(raw)
<1> DEFINE N == Len(raw)
<1>1. N \in Nat /\ raw = [i \in 1..N |-> raw[i]] /\ \A i \in 1..N : raw[i] \in 0..255
  BY PlacesOf
<1> HIDE DEF N
<1>2. ASSUME NEW b \in 0..255  PROVE b \in Nat /\ b < 256
  OBVIOUS
<1>3. \A i \in 1..N : raw[i] \in Nat /\ raw[i] < 256
  BY <1>1, <1>2, Zenon
<1>4. raw \in Seq(Nat)
  BY <1>1, <1>3
<1> QED  BY <1>3, <1>4 DEF StAreBytes, N

StEnd(p, k) == p[k].place + p[k].bytes

\* Token k, from the one before it.
StFollows(raw, p, k) ==
  /\ p[k].ctrl \in Nat \ {0} /\ p[k].place \in Nat /\ p[k].bytes \in {1, 2}
  /\ p[k].ctrl = IF k % 8 = 1 THEN StEnd(p, k - 1) ELSE p[k - 1].ctrl
  /\ p[k].place = IF k % 8 = 1 THEN StEnd(p, k - 1) + 1 ELSE StEnd(p, k - 1)
  /\ p[k].ctrl <= Len(raw) =>
       p[k].bytes = ((raw[p[k].ctrl] \div StWeights[((k - 1) % 8) + 1]) % 2) + 1
  /\ StEnd(p, k) \in Nat /\ StEnd(p, k) >= k + 5

LEMMA WeightOf ==
  ASSUME NEW j \in 0..7
  PROVE  StWeights[j + 1] \in Nat \ {0}
<1>1. j = 0 \/ j = 1 \/ j = 2 \/ j = 3 \/ j = 4 \/ j = 5 \/ j = 6 \/ j = 7
  OBVIOUS
<1> QED  BY <1>1 DEF StWeights

LEMMA TokensFollow ==
  ASSUME NEW raw, StAreBytes(raw), NEW p, StPlanLine(raw, p, Len(raw))
  PROVE  /\ StEnd(p, 0) = 5
         /\ \A k \in 1..Len(raw) : StFollows(raw, p, k)
<1> DEFINE N == Len(raw)
<1>1. /\ N \in Nat /\ p[0] = StBefore
      /\ \A k \in 1..N : p[k] = StNextToken(raw, p[k - 1], k)
  <2>1. N \in Nat
    BY DEF StAreBytes
  <2> QED  BY <2>1 DEF StPlanLine
<1>2. StEnd(p, 0) = 5 /\ p[0].ctrl \in Nat /\ p[0].ctrl > 0
  BY <1>1 DEF StEnd, StBefore
<1> DEFINE T == {k \in 0..N : /\ p[k].ctrl \in Nat /\ p[k].ctrl > 0 /\ StEnd(p, k) \in Nat /\ StEnd(p, k) >= k + 5
                              /\ k # 0 => StFollows(raw, p, k)}
<1>3. 0 \in T
  BY <1>1, <1>2
<1>4. ASSUME NEW k \in 1..N, k - 1 \in T  PROVE k \in T
  <2> DEFINE end == StEnd(p, k - 1)
             head == k % 8 = 1
             ctrl == IF head THEN end ELSE p[k - 1].ctrl
             weight == StWeights[((k - 1) % 8) + 1]
             bit == IF ctrl > N THEN 0 ELSE (raw[ctrl] \div weight) % 2
  <2>1. end \in Nat /\ end >= k + 4 /\ p[k - 1].ctrl \in Nat /\ p[k - 1].ctrl > 0
    BY <1>4
  <2>2. /\ p[k].ctrl = ctrl /\ p[k].place = IF head THEN end + 1 ELSE end
        /\ p[k].bytes = bit + 1
    <3>1. p[k] = StNextToken(raw, p[k - 1], k)
      BY <1>1
    <3> DEFINE last == p[k - 1]
    <3>2. p[k] = [ctrl |-> ctrl, place |-> IF head THEN end + 1 ELSE end, bytes |-> bit + 1]
      BY <3>1, Zenon DEF StNextToken, StEnd
    <3> HIDE DEF ctrl, bit, head, end
    <3> QED  BY <3>2
  <2>3. ctrl \in Nat /\ ctrl > 0
    BY <2>1
  <2>4. bit \in {0, 1}
    <3>1. (k - 1) % 8 \in 0..7
      OBVIOUS
    <3>2. weight \in Nat \ {0}
      BY <3>1, WeightOf
    <3> HIDE DEF ctrl, weight
    <3>3. CASE ctrl > N
      BY <3>3
    <3>4. CASE ~(ctrl > N)
      <4>1. ctrl \in 1..N
        BY <2>3, <3>4
      <4>2. raw[ctrl] \in Nat
        BY <4>1 DEF StAreBytes
      <4> DEFINE rest == raw[ctrl] \div weight
      <4>3. rest \in Nat
        BY <3>2, <4>2, Quotients
      <4> HIDE DEF rest
      <4>4. rest % 2 \in {0, 1}
        BY <4>3
      <4> QED  BY <3>4, <4>4 DEF rest
    <3> QED  BY <3>3, <3>4
  <2>5. p[k].ctrl <= N => p[k].bytes = ((raw[p[k].ctrl] \div weight) % 2) + 1
    BY <2>2, <2>3
  <2> HIDE DEF bit, ctrl, weight
  <2>6. p[k].place \in Nat /\ p[k].bytes \in {1, 2} /\ StEnd(p, k) \in Nat /\ StEnd(p, k) >= k + 5
    <3> DEFINE place == p[k].place
               bytes == p[k].bytes
    <3>1. place = end \/ place = end + 1
      BY <2>2
    <3>2. bytes = 1 \/ bytes = 2
      BY <2>2, <2>4
    <3>3. StEnd(p, k) = place + bytes
      BY DEF StEnd
    <3> HIDE DEF place, bytes, end
    <3>4. /\ place \in Nat /\ bytes \in {1, 2} /\ place + bytes \in Nat
          /\ place + bytes >= k + 5
      BY <2>1, <3>1, <3>2
    <3> QED  BY <3>3, <3>4 DEF place, bytes
  <2>7. StFollows(raw, p, k)
    BY <2>2, <2>3, <2>5, <2>6 DEF StFollows, ctrl, weight
  <2> QED  BY <2>2, <2>3, <2>6, <2>7
<1>5. \A k \in 0..N : k \in T
  <2> HIDE DEF T
  <2>1. Inductive(T, N)
    BY <1>3, <1>4 DEF Inductive
  <2> QED  BY <1>1, <2>1, StepsReach
<1> QED  BY <1>1, <1>2, <1>5

-----------------------------------------------------------------------------
(* How many tokens are whole.                                              *)

StCounts(raw, p, n) ==
  /\ n \in 0..Len(raw)
  /\ \A k \in 1..Len(raw) : k <= n <=> StEnd(p, k) <= Len(raw) + 1

LEMMA StEndsGrow ==
  ASSUME NEW raw, StAreBytes(raw), NEW p, StEnd(p, 0) = 5,
         \A k \in 1..Len(raw) : StFollows(raw, p, k)
  PROVE  \A k \in 1..Len(raw) : StEnd(p, k) \in Nat /\ StEnd(p, k - 1) \in Nat /\ StEnd(p, k - 1) < StEnd(p, k)
<1>1. Len(raw) \in Nat
  BY DEF StAreBytes
<1> SUFFICES ASSUME NEW k \in 1..Len(raw)
             PROVE  StEnd(p, k) \in Nat /\ StEnd(p, k - 1) \in Nat /\ StEnd(p, k - 1) < StEnd(p, k)
  OBVIOUS
<1>2. StEnd(p, k - 1) \in Nat
  <2>1. CASE k = 1
    BY <2>1
  <2>2. CASE k # 1
    <3>1. k - 1 \in 1..Len(raw)
      BY <1>1, <2>2
    <3> QED  BY <3>1 DEF StFollows
  <2> QED  BY <2>1, <2>2
<1>3. StFollows(raw, p, k)
  OBVIOUS
<1>4. /\ p[k].place \in Nat /\ p[k].bytes \in {1, 2} /\ StEnd(p, k) \in Nat
      /\ p[k].place = IF k % 8 = 1 THEN StEnd(p, k - 1) + 1 ELSE StEnd(p, k - 1)
  BY <1>3 DEF StFollows
<1>5. StEnd(p, k) = p[k].place + p[k].bytes
  BY DEF StEnd
<1> QED  BY <1>2, <1>4, <1>5

LEMMA SomeFit ==
  ASSUME NEW N \in Nat, NEW e,
         \A k \in 1..N : e[k] \in Nat /\ (k > 1 => e[k - 1] < e[k])
  PROVE  \E n \in 0..N : \A k \in 1..N : (k <= n) <=> (e[k] <= N + 1)
<1> DEFINE Fit(n, m) == /\ \A k \in 1..m : (k <= n) <=> (e[k] <= N + 1)
                        /\ n < m => N + 1 < e[m]
           T == {m \in 0..N : \E n \in 0..m : Fit(n, m)}
<1>1. 0 \in T
  OBVIOUS
<1>2. ASSUME NEW m \in 1..N, m - 1 \in T  PROVE m \in T
  <2>1. PICK n \in 0..(m - 1) : Fit(n, m - 1)
    BY <1>2
  <2>2. n \in Nat /\ m \in Nat /\ n < m /\ e[m] \in Nat
    OBVIOUS
  <2>3. CASE e[m] <= N + 1
    <3>1. n = m - 1
      <4> SUFFICES ASSUME n < m - 1  PROVE FALSE
        BY <2>2
      <4>1. N + 1 < e[m - 1] /\ e[m - 1] < e[m] /\ e[m - 1] \in Nat
        BY <2>1, <2>2
      <4> QED  BY <2>2, <2>3, <4>1
    <3>2. \A k \in 1..m : (k <= m) <=> (e[k] <= N + 1)
      <4> SUFFICES ASSUME NEW k \in 1..m  PROVE (k <= m) <=> (e[k] <= N + 1)
        OBVIOUS
      <4>1. CASE k = m
        BY <2>2, <2>3, <4>1
      <4>2. CASE k # m
        BY <2>1, <3>1, <4>2
      <4> QED  BY <4>1, <4>2
    <3>3. Fit(m, m) /\ m \in 0..m
      BY <2>2, <3>2
    <3> QED  BY <3>3
  <2>4. CASE ~(e[m] <= N + 1)
    <3>1. \A k \in 1..m : (k <= n) <=> (e[k] <= N + 1)
      <4> SUFFICES ASSUME NEW k \in 1..m  PROVE (k <= n) <=> (e[k] <= N + 1)
        OBVIOUS
      <4>1. CASE k = m
        BY <2>2, <2>4, <4>1
      <4>2. CASE k # m
        BY <2>1, <4>2
      <4> QED  BY <4>1, <4>2
    <3>2. N + 1 < e[m]
      BY <2>2, <2>4
    <3>3. Fit(n, m) /\ n \in 0..m
      BY <2>2, <3>1, <3>2
    <3> HIDE DEF Fit
    <3> QED  BY <3>3
  <2> QED  BY <2>3, <2>4
<1>3. N \in T
  <2> HIDE DEF T
  <2>1. Inductive(T, N) /\ N \in 0..N
    BY <1>1, <1>2 DEF Inductive
  <2> QED  BY <2>1, StepsReach
<1> QED  BY <1>3

LEMMA CountExists ==
  ASSUME NEW raw, StAreBytes(raw), NEW p, StEnd(p, 0) = 5,
         \A k \in 1..Len(raw) : StFollows(raw, p, k)
  PROVE  \E n : StCounts(raw, p, n)
<1> DEFINE N == Len(raw)
<1>1. N \in Nat
  BY DEF StAreBytes
<1>2. \A k \in 1..N : /\ StEnd(p, k) \in Nat /\ StEnd(p, k - 1) \in Nat
                      /\ StEnd(p, k - 1) < StEnd(p, k)
  BY StEndsGrow
<1> HIDE DEF N
<1> DEFINE e == [k \in 0..N |-> StEnd(p, k)]
<1>3. \A k \in 1..N : e[k] = StEnd(p, k) /\ e[k - 1] = StEnd(p, k - 1)
  BY <1>1
<1> HIDE DEF e
<1>4. \E n \in 0..N : \A k \in 1..N : (k <= n) <=> (e[k] <= N + 1)
  BY <1>1, <1>2, <1>3, SomeFit
<1> QED  BY <1>3, <1>4 DEF StCounts, N

LEMMA TokensAre ==
  ASSUME NEW raw, StAreBytes(raw), NEW p, StPlan(raw) = p, StPlanLine(raw, p, Len(raw))
  PROVE  \E n : StCounts(raw, p, n) /\ StTokens(raw) = [k \in 1..n |-> StToken(raw, p[k])]
<1>1. StEnd(p, 0) = 5 /\ \A k \in 1..Len(raw) : StFollows(raw, p, k)
  BY TokensFollow
<1> DEFINE Fits(n) == \A k \in 1..Len(raw) : k <= n <=> p[k].place + p[k].bytes <= Len(raw) + 1
           n == CHOOSE n \in 0..Len(raw) : Fits(n)
<1>2. \E m \in 0..Len(raw) : Fits(m)
  BY <1>1, CountExists DEF StCounts, StEnd
<1>3. n \in 0..Len(raw) /\ Fits(n)
  BY <1>2
<1>4. StCounts(raw, p, n)
  BY <1>3 DEF StCounts, StEnd
<1>5. StTokens(raw) = [k \in 1..n |-> StToken(raw, p[k])]
  BY DEF StTokens
<1> QED  BY <1>4, <1>5

-----------------------------------------------------------------------------
(* The game, token by token.                                               *)

\* The stream raw unpacks to size bytes in n whole tokens that lie as p says,
\* g is the game's decompressor after each.
StSetting(raw, size, p, n, g) ==
  /\ StAreBytes(raw) /\ Len(raw) >= 4
  /\ size \in Nat \ {0} /\ size <= LzMemory /\ LzMemory \in Nat
  /\ StEnd(p, 0) = 5
  /\ \A k \in 1..Len(raw) : StFollows(raw, p, k)
  /\ StCounts(raw, p, n)
  /\ g[0] = LzFresh([a \in LzPlaces |-> 0])
  /\ \A k \in 1..n : g[k] = LzToken(g[k - 1], StToken(raw, p[k]), size)

LEMMA MoreFollow ==
  ASSUME NEW raw, NEW size, NEW p, NEW n, NEW g, StSetting(raw, size, p, n, g), NEW t \in 0..n
  PROVE  /\ Len(raw) \in Nat /\ n \in Nat /\ t + 1 \in 1..Len(raw)
         /\ StFollows(raw, p, t + 1)
         /\ t + 1 <= n <=> StEnd(p, t + 1) <= Len(raw) + 1
         /\ StEnd(p, t) \in Nat /\ StEnd(p, t) <= Len(raw) + 1
<1> DEFINE L == Len(raw)
<1>1. L \in Nat /\ L >= 4 /\ StEnd(p, 0) = 5 /\ n \in 0..L
  BY DEF StSetting, StAreBytes, StCounts
<1>2. \A k \in 1..L : StFollows(raw, p, k) /\ (k <= n <=> StEnd(p, k) <= L + 1)
  BY DEF StSetting, StCounts
<1>3. \A k \in 1..L : StEnd(p, k) \in Nat /\ StEnd(p, k) >= k + 5
  BY <1>2 DEF StFollows
<1> HIDE DEF L
<1>4. t + 1 \in 1..L
  <2>1. CASE t = L
    <3>1. t \in 1..L /\ t <= n
      BY <1>1, <2>1
    <3>2. StEnd(p, t) <= L + 1 /\ StEnd(p, t) \in Nat /\ StEnd(p, t) >= t + 5
      BY <1>2, <1>3, <3>1
    <3> QED  BY <1>1, <2>1, <3>2
  <2>2. CASE t # L
    BY <1>1, <2>2
  <2> QED  BY <2>1, <2>2
<1>5. StEnd(p, t) \in Nat /\ StEnd(p, t) <= L + 1
  <2>1. CASE t = 0
    BY <1>1, <2>1
  <2>2. CASE t # 0
    <3>1. t \in 1..L /\ t <= n
      BY <1>1, <2>2
    <3> QED  BY <1>2, <1>3, <3>1
  <2> QED  BY <2>1, <2>2
<1> QED  BY <1>1, <1>2, <1>4, <1>5 DEF L

\* A decompressor that has ended or given up stays as it is.
LEMMA GameStays ==
  ASSUME NEW raw, NEW size, NEW p, NEW n, NEW g, StSetting(raw, size, p, n, g),
         NEW t \in 0..n, ~g[t].ok \/ g[t].pos = size
  PROVE  g[n] = g[t]
<1>1. n \in Nat
  BY MoreFollow
<1>2. \A k \in 1..n : g[k] = LzToken(g[k - 1], StToken(raw, p[k]), size)
  BY DEF StSetting
<1> DEFINE T == {k \in 0..n : k >= t => g[k] = g[t]}
<1>3. 0 \in T
  BY <1>1
<1>4. ASSUME NEW k \in 1..n, k - 1 \in T  PROVE k \in T
  <2>1. CASE k > t
    <3>1. g[k - 1] = g[t]
      BY <1>1, <1>4, <2>1
    <3>2. g[k] = g[t]
      BY <1>2, <3>1 DEF LzToken
    <3> QED  BY <1>1, <3>2
  <2>2. CASE k <= t
    BY <1>1, <2>2
  <2> QED  BY <1>1, <2>1, <2>2
<1>5. n \in T
  <2> HIDE DEF T
  <2>1. Inductive(T, n) /\ n \in 0..n
    BY <1>1, <1>3, <1>4 DEF Inductive
  <2> QED  BY <1>1, <2>1, StepsReach
<1> QED  BY <1>1, <1>5

-----------------------------------------------------------------------------
(* The stage beside the game, turn by turn.                                *)

LzIs(s, pos, mem) == s = [pos |-> pos, mem |-> mem, ok |-> TRUE]
LzLiteralIs(token, b) == token = [match |-> FALSE, byte |-> b]
LzMatchIs(token, off, len) == token = [match |-> TRUE, off |-> off, len |-> len]
LzPut(mem, pos, b) == [mem EXCEPT ![pos] = b]

StStates == [ok : BOOLEAN, i : Nat, ctrl : Nat, bits : 0..8, out : Seq(Nat)]

\* Both have written the same, the game t tokens; the stage is in its k-th
\* turn at the latest, at a control byte or behind one.
StRunning(raw, size, p, g, s, k, t) ==
  /\ s.ok /\ Len(s.out) < size /\ k + 5 <= s.i /\ s.i <= Len(raw) + 1
  /\ LzIs(g[t], Len(s.out), g[t].mem)
  /\ StHolds(g[t].mem, s.out)
  /\ s.bits = 0 => t % 8 = 0 /\ s.i = StEnd(p, t)
  /\ s.bits # 0 => /\ t % 8 = 8 - s.bits
                   /\ s.i = p[t + 1].place /\ p[t + 1].ctrl <= Len(raw)
                   /\ s.ctrl = raw[p[t + 1].ctrl] \div StWeights[(t % 8) + 1]

\* The stage has ended, and as the game does.
StSettled(size, last, s) ==
  \/ s.ok /\ Len(s.out) = size /\ last.ok /\ last.pos = size /\ StHolds(last.mem, s.out)
  \/ ~s.ok /\ last.ok /\ last.pos < size
  \/ ~s.ok /\ ~last.ok

LEMMA WeightsDouble ==
  ASSUME NEW c \in Nat, c < 256
  PROVE  /\ c \div StWeights[1] = c
         /\ \A j \in 0..6 : (c \div StWeights[j + 1]) \div 2 = c \div StWeights[j + 2]
<1>1. c \div StWeights[1] = c
  BY DEF StWeights
<1>2. ASSUME NEW j \in 0..6
      PROVE  (c \div StWeights[j + 1]) \div 2 = c \div StWeights[j + 2]
  <2>1. /\ StWeights[1] = 1 /\ StWeights[2] = 2 /\ StWeights[3] = 4 /\ StWeights[4] = 8
        /\ StWeights[5] = 16 /\ StWeights[6] = 32 /\ StWeights[7] = 64 /\ StWeights[8] = 128
    BY DEF StWeights
  <2>2. CASE j = 0  BY <2>1, <2>2
  <2>3. CASE j = 1  BY <2>1, <2>3
  <2>4. CASE j = 2  BY <2>1, <2>4
  <2>5. CASE j = 3  BY <2>1, <2>5
  <2>6. CASE j = 4  BY <2>1, <2>6
  <2>7. CASE j = 5  BY <2>1, <2>7
  <2>8. CASE j = 6  BY <2>1, <2>8
  <2>9. j = 0 \/ j = 1 \/ j = 2 \/ j = 3 \/ j = 4 \/ j = 5 \/ j = 6
    OBVIOUS
  <2> QED  BY <2>2, <2>3, <2>4, <2>5, <2>6, <2>7, <2>8, <2>9
<1> QED  BY <1>1, <1>2

LEMMA LiteralDoes ==
  ASSUME NEW mem, NEW pos \in Nat, NEW size \in Nat, pos < size, NEW b,
         NEW s, LzIs(s, pos, mem), NEW token, LzLiteralIs(token, b)
  PROVE  LzIs(LzToken(s, token, size), pos + 1, LzPut(mem, pos, b))
<1> DEFINE new == LzPut(mem, pos, b)
           r == LzToken(s, token, size)
<1>1. s.pos = pos /\ s.mem = mem /\ s.ok /\ ~token.match /\ token.byte = b /\ pos # size
  BY DEF LzIs, LzLiteralIs
<1>2. LzStore(mem, pos, b, TRUE) = new
  BY DEF LzStore, LzPut
<1>3. r = LzLiteral(s, token)
  BY <1>1 DEF LzToken
<1>4. LzLiteral(s, token) = [s EXCEPT !.pos = pos + 1, !.mem = new]
  BY <1>1, <1>2, Zenon DEF LzLiteral
<1> HIDE DEF new, r
<1>5. r = [s EXCEPT !.pos = pos + 1, !.mem = new]
  BY <1>3, <1>4
<1>6. LzIs(r, pos + 1, new)
  BY <1>5 DEF LzIs
<1> QED  BY <1>6 DEF new, r

LEMMA MatchReach ==
  ASSUME NEW n \in Nat, NEW size \in Nat, NEW off \in Nat, NEW h \in Nat
  PROVE  /\ off <= n => ~(n - off < 0)
         /\ n < off => n - off < 0
         /\ (IF n + h + 3 <= size THEN n + h + 3 ELSE size) - n
              = (IF n + (h + 3) <= size THEN h + 3 ELSE size - n)
  OBVIOUS

LEMMA MatchDoes ==
  ASSUME NEW mem, NEW pos \in Nat, NEW size \in Nat, pos < size, NEW off \in Nat, NEW len \in Nat,
         NEW m, m = (IF pos + len <= size THEN len ELSE size - pos),
         NEW s, LzIs(s, pos, mem), NEW token, LzMatchIs(token, off, len)
  PROVE  /\ pos < off => ~LzToken(s, token, size).ok
         /\ off <= pos => LzIs(LzToken(s, token, size), pos + m, LzCopy(mem, pos, pos - off, m))
<1> DEFINE new == LzCopy(mem, pos, pos - off, m)
           r == LzToken(s, token, size)
<1>1. s.pos = pos /\ s.mem = mem /\ s.ok /\ token.match /\ token.off = off /\ token.len = len
      /\ pos # size
  BY DEF LzIs, LzMatchIs
<1>2. r = LzMatch(s, token, size)
  BY <1>1, Zenon DEF LzToken
<1>3. LzMatch(s, token, size) = IF pos - off < 0 THEN [s EXCEPT !.ok = FALSE]
                                ELSE [s EXCEPT !.pos = @ + m, !.mem = new]
  BY <1>1, Zenon DEF LzMatch
<1> HIDE DEF new, r
<1>4. CASE off <= pos
  <2>1. r = [s EXCEPT !.pos = pos + m, !.mem = new]
    BY <1>1, <1>2, <1>3, <1>4
  <2>2. LzIs(r, pos + m, new)
    BY <2>1 DEF LzIs
  <2>3. ~(pos < off)
    BY <1>4
  <2> QED  BY <2>2, <2>3 DEF new, r
<1>5. CASE pos < off
  <2>1. r = [s EXCEPT !.ok = FALSE]
    BY <1>2, <1>3, <1>5
  <2>2. ~r.ok
    BY <2>1 DEF LzIs
  <2>3. ~(off <= pos)
    BY <1>5
  <2> QED  BY <2>2, <2>3 DEF r
<1> QED  BY <1>4, <1>5

LEMMA InputLeft ==
  ASSUME NEW i \in Nat, NEW L \in Nat, NEW c \in Nat
  PROVE  /\ (i + (c % 2) > L) <=> (L < i + (c % 2))
         /\ (i + (c % 2) <= L) <=> ~(L < i + (c % 2))
         /\ (c % 2 = 0) <=> ~(c % 2 = 1)
  OBVIOUS

\* What a turn does to a stage that is not done yet.
StTurned(raw, size, s, forgives, r) ==
  /\ s.bits = 0 /\ Len(raw) < s.i => r = [s EXCEPT !.ok = FALSE]
  /\ s.bits = 0 /\ s.i <= Len(raw) =>
       r = [s EXCEPT !.ctrl = raw[s.i], !.bits = 8, !.i = @ + 1]
  /\ s.bits # 0 /\ Len(raw) < s.i + (s.ctrl % 2) => r = [s EXCEPT !.ok = FALSE]
  /\ s.bits # 0 /\ s.i + (s.ctrl % 2) <= Len(raw) /\ s.ctrl % 2 = 0 =>
       r = [s EXCEPT !.bits = @ - 1, !.ctrl = @ \div 2, !.out = Append(@, raw[s.i]), !.i = @ + 1]
  /\ s.bits # 0 /\ s.i + (s.ctrl % 2) <= Len(raw) /\ s.ctrl % 2 = 1 =>
       r = StMatch([s EXCEPT !.bits = @ - 1, !.ctrl = @ \div 2], raw, size, forgives)

LEMMA TurnDoes ==
  ASSUME NEW raw, Len(raw) \in Nat, NEW size \in Nat, NEW s \in StStates, NEW forgives,
         NEW r, r = StTurn(s, raw, size, forgives)
  PROVE  /\ ~s.ok \/ size <= Len(s.out) => r = s
         /\ s.ok /\ Len(s.out) < size => StTurned(raw, size, s, forgives, r)
<1> DEFINE L == Len(raw)
<1>1. s.i \in Nat /\ s.ctrl \in Nat /\ s.ctrl % 2 \in {0, 1} /\ s.bits \in 0..8 /\ Len(s.out) \in Nat
  BY DEF StStates
<1>2. ~s.ok \/ size <= Len(s.out) => r = s
  BY <1>1 DEF StTurn
<1>3. ASSUME s.ok, Len(s.out) < size, s.bits = 0
      PROVE  /\ L < s.i => r = [s EXCEPT !.ok = FALSE]
             /\ s.i <= L => r = [s EXCEPT !.ctrl = raw[s.i], !.bits = 8, !.i = @ + 1]
  BY <1>1, <1>3 DEF StTurn, StFail
<1>4. ASSUME s.ok, Len(s.out) < size, s.bits # 0
      PROVE  /\ L < s.i + (s.ctrl % 2) => r = [s EXCEPT !.ok = FALSE]
             /\ s.i + (s.ctrl % 2) <= L /\ s.ctrl % 2 = 1 =>
                  r = StMatch([s EXCEPT !.bits = @ - 1, !.ctrl = @ \div 2], raw, size, forgives)
             /\ s.i + (s.ctrl % 2) <= L /\ s.ctrl % 2 = 0 =>
                  r = [s EXCEPT !.bits = @ - 1, !.ctrl = @ \div 2,
                                !.out = Append(@, raw[s.i]), !.i = @ + 1]
  <2> DEFINE next == [s EXCEPT !.bits = @ - 1, !.ctrl = @ \div 2]
  <2>1. s.bits > 0 /\ ~(s.bits = 0) /\ ~(~s.ok \/ Len(s.out) >= size)
    BY <1>1, <1>4
  <2> DEFINE over == s.i + (IF s.bits > 0 THEN s.ctrl % 2 ELSE 0) > Len(raw)
  <2>a. over <=> L < s.i + (s.ctrl % 2)
    <3> DEFINE need == IF s.bits > 0 THEN s.ctrl % 2 ELSE 0
    <3>1. need = s.ctrl % 2
      BY <2>1, Zenon
    <3>2. over <=> s.i + need > Len(raw)
      OBVIOUS
    <3> HIDE DEF over, need
    <3>4. (s.i + need > Len(raw)) <=> (s.i + (s.ctrl % 2) > L)
      BY <3>1
    <3>3. over <=> s.i + (s.ctrl % 2) > L
      BY <3>2, <3>4, Zenon
    <3> QED  BY <1>1, <3>3, InputLeft, Zenon
  <2>b. r = IF over THEN StFail(s)
            ELSE IF s.ctrl % 2 = 1 THEN StMatch(next, raw, size, forgives)
            ELSE [next EXCEPT !.out = Append(@, raw[s.i]), !.i = @ + 1]
    BY <2>1, Zenon DEF StTurn
  <2>c. (s.i + (s.ctrl % 2) <= L <=> ~(L < s.i + (s.ctrl % 2))) /\ (s.ctrl % 2 = 0 <=> ~(s.ctrl % 2 = 1))
    BY <1>1, InputLeft, Zenon
  <2> HIDE DEF over
  <2>2. L < s.i + (s.ctrl % 2) => r = [s EXCEPT !.ok = FALSE]
    BY <2>a, <2>b, Zenon DEF StFail
  <2>3. s.i + (s.ctrl % 2) <= L /\ s.ctrl % 2 = 1 => r = StMatch(next, raw, size, forgives)
    BY <2>a, <2>b, <2>c, Zenon
  <2>4. s.i + (s.ctrl % 2) <= L /\ s.ctrl % 2 = 0 =>
          r = [next EXCEPT !.out = Append(@, raw[s.i]), !.i = @ + 1]
    BY <2>a, <2>b, <2>c, Zenon
  <2>5. [next EXCEPT !.out = Append(@, raw[s.i]), !.i = @ + 1]
          = [s EXCEPT !.bits = @ - 1, !.ctrl = @ \div 2, !.out = Append(@, raw[s.i]), !.i = @ + 1]
    BY DEF StStates
  <2> QED  BY <2>2, <2>3, <2>4, <2>5
<1>5. s.ok /\ Len(s.out) < size => StTurned(raw, size, s, forgives, r)
  BY <1>3, <1>4, Zenon DEF StTurned
<1> QED  BY <1>2, <1>5

\* A match, in the stage.
StMatched(s, off, m, forgives, r) ==
  /\ off <= Len(s.out) =>
       r = [s EXCEPT !.i = @ + 2, !.out = StCopy(s.out, Len(s.out) - off, m)]
  /\ Len(s.out) < off /\ ~forgives => r = [s EXCEPT !.ok = FALSE]

\* The match ahead: how far back, how long, and how much of it is wanted.
StOff(raw, i) == (raw[i + 1] % 16) * 256 + raw[i]
StLen(raw, i) == raw[i + 1] \div 16 + 3
StWanted(len, done, size) == IF done + len <= size THEN len ELSE size - done

LEMMA StMatchDoes ==
  ASSUME NEW raw, NEW size \in Nat, NEW s \in StStates, NEW forgives,
         Len(s.out) < size, raw[s.i] \in Nat, raw[s.i + 1] \in Nat
  PROVE  StMatched(s, StOff(raw, s.i), StWanted(StLen(raw, s.i), Len(s.out), size), forgives,
                   StMatch(s, raw, size, forgives))
<1> DEFINE n == Len(s.out)
           lo == raw[s.i]
           hi == raw[s.i + 1]
           h == hi \div 16
           off == (hi % 16) * 256 + lo
           from == n - off
           m == StWanted(h + 3, n, size)
           r == StMatch(s, raw, size, forgives)
           c == (IF n + h + 3 <= size THEN n + h + 3 ELSE size) - n
<1>1. n \in Nat
  BY DEF StStates
<1>2. h \in Nat /\ off \in Nat
  <2> HIDE DEF lo, hi
  <2>1. lo \in Nat /\ hi \in Nat
    BY DEF lo, hi
  <2>2. hi \div 16 \in Nat /\ hi % 16 \in Nat
    BY <2>1
  <2> QED  BY <2>1, <2>2
<1>3. r = IF from < 0 /\ ~forgives THEN StFail(s)
          ELSE [s EXCEPT !.i = @ + 2, !.out = StCopy(@, from, c)]
  BY Zenon DEF StMatch
<1> HIDE DEF n, h, off
<1>4. c = m /\ (off <= n => ~(from < 0)) /\ (n < off => from < 0)
  <2>1. m = IF n + (h + 3) <= size THEN h + 3 ELSE size - n
    BY DEF StWanted
  <2>2. c = m
    BY <1>1, <1>2, <2>1, MatchReach, Zenon
  <2> HIDE DEF c, from, m
  <2>5. from = n - off
    BY DEF from
  <2>3. off <= n => ~(from < 0)
    BY <1>1, <1>2, <2>5
  <2>4. n < off => from < 0
    BY <1>1, <1>2, <2>5
  <2> QED  BY <2>2, <2>3, <2>4
<1> HIDE DEF c, from, r, m
<1>5. r = IF from < 0 /\ ~forgives THEN [s EXCEPT !.ok = FALSE]
          ELSE [s EXCEPT !.i = @ + 2, !.out = StCopy(s.out, n - off, m)]
  BY <1>3, <1>4, Zenon DEF StFail, from
<1>6. StMatched(s, off, m, forgives, r)
  BY <1>4, <1>5, Zenon DEF n, StMatched
<1> QED  BY <1>6 DEF n, lo, hi, h, off, m, r, StOff, StLen

LEMMA Eights ==
  ASSUME NEW t \in Nat, NEW b \in 1..8, t % 8 = 8 - b
  PROVE  /\ b = 1 => (t + 1) % 8 = 0
         /\ b # 1 => /\ (t + 1) % 8 = 8 - (b - 1) /\ t % 8 \in 0..6
                     /\ (t + 1) % 8 = (t % 8) + 1 /\ (t + 2) % 8 # 1
  OBVIOUS

LEMMA FieldsOf ==
  ASSUME NEW x, NEW a, NEW b, LzIs(x, a, b)
  PROVE  x.pos = a /\ x.mem = b /\ x.ok
  BY DEF LzIs

\* Behind a token that both have taken, the stage runs on or has ended.
LEMMA AfterToken ==
  ASSUME NEW raw, NEW size, NEW p, NEW n, NEW g, StSetting(raw, size, p, n, g),
         NEW k \in Nat, NEW t \in 0..n, t + 1 <= n,
         NEW s \in StStates, StRunning(raw, size, p, g, s, k, t), s.bits # 0,
         NEW r \in StStates, r.ok, r.bits = s.bits - 1, r.ctrl = s.ctrl \div 2,
         r.i = StEnd(p, t + 1), k + 6 <= r.i, Len(r.out) <= size,
         LzIs(g[t + 1], Len(r.out), g[t + 1].mem),
         StHolds(g[t + 1].mem, r.out)
  PROVE  StRunning(raw, size, p, g, r, k + 1, t + 1) \/ StSettled(size, g[n], r)
<1> DEFINE L == Len(raw)
           u == t + 1
<1>1. /\ L \in Nat /\ n \in Nat /\ u \in 1..L /\ u \in 0..n /\ u \in Nat
      /\ StFollows(raw, p, u)
  BY MoreFollow
<1>2. /\ u + 1 \in 1..L /\ StFollows(raw, p, u + 1)
      /\ StEnd(p, u) \in Nat /\ StEnd(p, u) <= L + 1
  BY <1>1, MoreFollow
<1>3. Len(r.out) \in Nat /\ size \in Nat /\ s.bits \in 1..8 /\ t \in Nat
  BY <1>1 DEF StStates, StSetting
<1>4. CASE Len(r.out) = size
  <2>1. g[u].pos = size /\ g[u].ok /\ StHolds(g[u].mem, r.out)
    <3>1. g[u].pos = Len(r.out) /\ g[u].ok
      BY FieldsOf
    <3> QED  BY <1>4, <3>1
  <2>2. g[n] = g[u]
    BY <1>1, <2>1, GameStays
  <2> QED  BY <1>4, <2>1, <2>2 DEF StSettled
<1>5. CASE Len(r.out) # size
  <2>1. t % 8 = 8 - s.bits
    BY DEF StRunning
  <2>2. r.bits = 0 => u % 8 = 0 /\ r.i = StEnd(p, u)
    <3> SUFFICES ASSUME r.bits = 0  PROVE u % 8 = 0
      OBVIOUS
    <3>1. s.bits = 1
      BY <1>3
    <3> QED  BY <1>3, <2>1, <3>1, Eights, Zenon
  <2>3. ASSUME r.bits # 0
        PROVE  /\ u % 8 = 8 - r.bits
               /\ r.i = p[u + 1].place /\ p[u + 1].ctrl <= L
               /\ r.ctrl = raw[p[u + 1].ctrl] \div StWeights[(u % 8) + 1]
    <3>1. s.bits # 1
      BY <1>3, <2>3
    <3>2. /\ u % 8 = 8 - (s.bits - 1) /\ t % 8 \in 0..6
          /\ u % 8 = (t % 8) + 1 /\ (t + 2) % 8 # 1
      BY <1>3, <2>1, <3>1, Eights
    <3>3. u + 1 = t + 2 /\ (u + 1) - 1 = u
      BY <1>3
    <3>4. p[u + 1].place = StEnd(p, u) /\ p[u + 1].ctrl = p[u].ctrl
      BY <1>2, <3>2, <3>3 DEF StFollows
    <3>5. p[u].ctrl <= L /\ p[u].ctrl \in 1..L
          /\ s.ctrl = raw[p[u].ctrl] \div StWeights[(t % 8) + 1]
      <4>1. p[u].ctrl <= L /\ s.ctrl = raw[p[u].ctrl] \div StWeights[(t % 8) + 1]
        BY Zenon DEF StRunning
      <4>2. p[u].ctrl \in Nat \ {0}
        BY <1>1 DEF StFollows
      <4> QED  BY <1>1, <4>1, <4>2
    <3>6. raw[p[u].ctrl] \in Nat /\ raw[p[u].ctrl] < 256
      <4>1. raw \in Seq(Nat) /\ \A i \in 1..L : raw[i] < 256
        BY DEF StSetting, StAreBytes
      <4>2. \A i \in 1..L : raw[i] \in Nat
        BY <4>1
      <4> QED  BY <3>5, <4>1, <4>2, Zenon
    <3> DEFINE c == raw[p[u].ctrl]
               j == t % 8
    <3> HIDE DEF c, j, u
    <3>7. (c \div StWeights[j + 1]) \div 2 = c \div StWeights[j + 2]
      BY <3>2, <3>6, WeightsDouble DEF c, j
    <3>8. r.ctrl = c \div StWeights[j + 2]
      BY <3>5, <3>7 DEF c, j
    <3>9. (u % 8) + 1 = j + 2
      BY <3>2 DEF j
    <3>10. p[u + 1].ctrl <= L /\ raw[p[u + 1].ctrl] = c
      BY <3>4, <3>5 DEF c
    <3>11. r.ctrl = raw[p[u + 1].ctrl] \div StWeights[(u % 8) + 1]
      BY <3>8, <3>9, <3>10
    <3>12. r.i = p[u + 1].place
      BY <3>4 DEF u
    <3> QED  BY <3>2, <3>10, <3>11, <3>12
  <2>4. Len(r.out) < size /\ (k + 1) + 5 <= r.i /\ r.i <= L + 1
    BY <1>2, <1>3, <1>5
  <2>5. StRunning(raw, size, p, g, r, k + 1, u)
    BY <2>2, <2>3, <2>4 DEF StRunning
  <2> QED  BY <2>5
<1> QED  BY <1>4, <1>5

\* The token before which the stage is, and what its tests say of it.
LEMMA TokenAhead ==
  ASSUME NEW raw, NEW size, NEW p, NEW n, NEW g, StSetting(raw, size, p, n, g),
         NEW k \in Nat, NEW t \in 0..n,
         NEW s \in StStates, StRunning(raw, size, p, g, s, k, t), s.bits # 0
  PROVE  /\ p[t + 1].place = s.i /\ p[t + 1].bytes = (s.ctrl % 2) + 1
         /\ StEnd(p, t + 1) = s.i + (s.ctrl % 2) + 1
         /\ t + 1 <= n <=> s.i + (s.ctrl % 2) <= Len(raw)
         /\ s.i \in Nat \ {0} /\ s.ctrl % 2 \in {0, 1}
<1> DEFINE u == t + 1
<1>1. /\ Len(raw) \in Nat /\ StFollows(raw, p, u) /\ t \in Nat
      /\ u <= n <=> StEnd(p, u) <= Len(raw) + 1
  BY MoreFollow
<1>2. /\ s.i = p[u].place /\ p[u].ctrl <= Len(raw)
      /\ s.ctrl = raw[p[u].ctrl] \div StWeights[(t % 8) + 1]
      /\ k + 5 <= s.i
  BY DEF StRunning
<1>3. u - 1 = t
  BY <1>1
<1>4. p[u].bytes = ((raw[p[u].ctrl] \div StWeights[((u - 1) % 8) + 1]) % 2) + 1
  BY <1>1, <1>2 DEF StFollows
<1>5. p[u].bytes = (s.ctrl % 2) + 1
  BY <1>2, <1>3, <1>4
<1>6. s.i \in Nat /\ s.ctrl \in Nat
  BY DEF StStates
<1>7. StEnd(p, u) = s.i + (s.ctrl % 2) + 1
  BY <1>2, <1>5, <1>6 DEF StEnd
<1> HIDE DEF u
<1>8. s.ctrl % 2 \in {0, 1} /\ s.i # 0
  BY <1>2, <1>6
<1> DEFINE b == s.ctrl % 2
<1> HIDE DEF b
<1>9. u <= n <=> s.i + b <= Len(raw)
  BY <1>1, <1>6, <1>7, <1>8 DEF b
<1> QED  BY <1>2, <1>5, <1>6, <1>7, <1>8, <1>9 DEF u, b

\* In its k-th turn the stage runs beside the game or has ended as it does.
StBeside(raw, size, p, n, g, k, s) ==
  /\ s \in StStates
  /\ (\E t \in 0..n : StRunning(raw, size, p, g, s, k, t)) \/ StSettled(size, g[n], s)

LEMMA StateParts ==
  ASSUME NEW s \in StStates
  PROVE  /\ s.i \in Nat /\ s.ctrl \in Nat /\ s.bits \in 0..8 /\ s.out \in Seq(Nat) /\ Len(s.out) \in Nat
         /\ s.ok \in BOOLEAN
  BY DEF StStates

\* Where the input ends before the output does.
LEMMA InputEnds ==
  ASSUME NEW raw, NEW size, NEW p, NEW n, NEW g, StSetting(raw, size, p, n, g),
         NEW k \in Nat, NEW s \in StStates, StRunning(raw, size, p, g, s, k, n),
         NEW r, r = [s EXCEPT !.ok = FALSE]
  PROVE  StBeside(raw, size, p, n, g, k + 1, r)
<1>1. r \in StStates /\ ~r.ok
  BY DEF StStates
<1>2. g[n].pos = Len(s.out) /\ g[n].ok
  BY FieldsOf DEF StRunning
<1>3. Len(s.out) < size
  BY DEF StRunning
<1> QED  BY <1>1, <1>2, <1>3 DEF StBeside, StSettled

LEMMA ControlTurn ==
  ASSUME NEW raw, NEW size, NEW p, NEW n, NEW g, StSetting(raw, size, p, n, g),
         NEW k \in Nat, NEW t \in 0..n,
         NEW s \in StStates, StRunning(raw, size, p, g, s, k, t), s.bits = 0,
         NEW forgives, NEW r, r = StTurn(s, raw, size, forgives)
  PROVE  StBeside(raw, size, p, n, g, k + 1, r)
<1> DEFINE L == Len(raw)
           u == t + 1
<1>1. /\ L \in Nat /\ n \in Nat /\ u \in 1..L /\ t \in Nat
      /\ StFollows(raw, p, u)
      /\ u <= n <=> StEnd(p, u) <= L + 1
      /\ StEnd(p, t) \in Nat
  BY MoreFollow
<1>2. /\ s.ok /\ Len(s.out) < size /\ k + 5 <= s.i /\ s.i <= L + 1 /\ t % 8 = 0 /\ s.i = StEnd(p, t)
      /\ LzIs(g[t], Len(s.out), g[t].mem) /\ StHolds(g[t].mem, s.out)
  BY DEF StRunning
<1>3. s.i \in Nat /\ size \in Nat
  BY StateParts DEF StSetting
<1>4. u % 8 = 1 /\ u - 1 = t
  BY <1>1, <1>2
<1>5. /\ p[u].ctrl = s.i /\ p[u].place = s.i + 1 /\ StEnd(p, u) = p[u].place + p[u].bytes
      /\ p[u].bytes \in {1, 2}
  BY <1>1, <1>2, <1>4 DEF StFollows, StEnd
<1>6. CASE L < s.i
  <2>1. r = [s EXCEPT !.ok = FALSE]
    <3>1. StTurned(raw, size, s, forgives, r)
      BY <1>1, <1>2, <1>3, TurnDoes
    <3> QED  BY <1>2, <1>3, <1>6, <3>1, Zenon DEF StTurned
  <2>2. t = n
    <3> HIDE DEF L
    <3>1. ~(StEnd(p, u) <= L + 1)
      BY <1>1, <1>3, <1>5, <1>6
    <3> QED  BY <1>1, <3>1
  <2> QED  BY <2>1, <2>2, InputEnds
<1>7. CASE s.i <= L
  <2>1. r = [s EXCEPT !.ctrl = raw[s.i], !.bits = 8, !.i = @ + 1]
    <3>1. StTurned(raw, size, s, forgives, r)
      BY <1>1, <1>2, <1>3, TurnDoes
    <3> QED  BY <1>2, <1>3, <1>7, <3>1, Zenon DEF StTurned
  <2>2. s.i \in 1..L
    BY <1>1, <1>2, <1>3, <1>7
  <2>3. raw[s.i] \in Nat /\ raw[s.i] < 256
    <3>1. raw \in Seq(Nat) /\ \A i \in 1..L : raw[i] < 256
      BY DEF StSetting, StAreBytes
    <3>2. \A i \in 1..L : raw[i] \in Nat
      BY <3>1
    <3> QED  BY <2>2, <3>1, <3>2, Zenon
  <2>4. /\ r \in StStates /\ r.ctrl = raw[s.i] /\ r.bits = 8 /\ r.i = s.i + 1
        /\ r.out = s.out /\ r.ok = s.ok
    <3>1. s.i + 1 \in Nat /\ 8 \in 0..8
      BY <1>3
    <3> DEFINE b == raw[s.i]
               i == s.i + 1
    <3>2. r = [s EXCEPT !.ctrl = b, !.bits = 8, !.i = i] /\ b \in Nat /\ i \in Nat
      BY <2>1, <2>3, <3>1
    <3> HIDE DEF b, i
    <3>3. /\ r \in StStates /\ r.ctrl = b /\ r.bits = 8 /\ r.i = i
          /\ r.out = s.out /\ r.ok = s.ok
      BY <3>1, <3>2 DEF StStates
    <3> QED  BY <3>3 DEF b, i
  <2>5. r.ctrl = raw[p[u].ctrl] \div StWeights[(t % 8) + 1]
    <3>1. raw[s.i] \div StWeights[1] = raw[s.i]
      BY <2>3, WeightsDouble
    <3>2. (t % 8) + 1 = 1
      BY <1>2
    <3> QED  BY <1>5, <2>4, <3>1, <3>2, Zenon
  <2>6. /\ t % 8 = 8 - r.bits /\ r.i = p[u].place /\ p[u].ctrl <= L
        /\ (k + 1) + 5 <= r.i /\ r.i <= L + 1 /\ r.bits # 0
    BY <1>1, <1>2, <1>3, <1>5, <1>7, <2>4
  <2>7. StRunning(raw, size, p, g, r, k + 1, t)
    BY <1>2, <2>4, <2>5, <2>6, Zenon DEF StRunning
  <2> QED  BY <2>4, <2>7 DEF StBeside
<1> QED  BY <1>1, <1>3, <1>6, <1>7

LEMMA LiteralTurn ==
  ASSUME NEW raw, NEW size, NEW p, NEW n, NEW g, StSetting(raw, size, p, n, g),
         NEW k \in Nat, NEW t \in 0..n, t + 1 <= n,
         NEW s \in StStates, StRunning(raw, size, p, g, s, k, t), s.bits # 0, s.ctrl % 2 = 0,
         NEW forgives, NEW r, r = StTurn(s, raw, size, forgives)
  PROVE  StBeside(raw, size, p, n, g, k + 1, r)
<1> DEFINE L == Len(raw)
           u == t + 1
           out == s.out
           mem == g[t].mem
           b == raw[s.i]
<1>1. L \in Nat /\ n \in Nat /\ u \in 1..n /\ u \in 0..n /\ t \in Nat /\ u - 1 = t
  BY MoreFollow
<1>2. /\ s.ok /\ Len(out) < size /\ k + 5 <= s.i
      /\ LzIs(g[t], Len(out), mem) /\ StHolds(mem, out)
  BY DEF StRunning
<1>3. /\ s.i \in Nat /\ s.ctrl \in Nat /\ s.bits \in 1..8 /\ out \in Seq(Nat) /\ Len(out) \in Nat
      /\ size \in Nat /\ size <= LzMemory /\ LzMemory \in Nat
  BY StateParts DEF StSetting
<1>4. /\ p[u].place = s.i /\ p[u].bytes = 1 /\ StEnd(p, u) = s.i + 1
      /\ s.i <= L /\ s.i \in 1..L
  <2>1. /\ p[u].place = s.i /\ p[u].bytes = (s.ctrl % 2) + 1
        /\ StEnd(p, u) = s.i + (s.ctrl % 2) + 1
        /\ u <= n <=> s.i + (s.ctrl % 2) <= L
        /\ s.i \in Nat \ {0}
    BY TokenAhead
  <2> HIDE DEF L
  <2> QED  BY <1>1, <1>3, <2>1
<1>5. b \in Nat
  <2>1. raw \in Seq(Nat)
    BY DEF StSetting, StAreBytes
  <2> QED  BY <1>4, <2>1
<1>6. r = [s EXCEPT !.bits = @ - 1, !.ctrl = @ \div 2, !.out = Append(@, b), !.i = @ + 1]
  <2>1. s.i + (s.ctrl % 2) <= L
    BY <1>3, <1>4
  <2>2. StTurned(raw, size, s, forgives, r)
    BY <1>1, <1>2, <1>3, TurnDoes
  <2> QED  BY <2>1, <2>2, Zenon DEF StTurned
<1> DEFINE new == LzPut(mem, Len(out), b)
           o == Append(out, b)
<1>7. StHolds(new, o) /\ o \in Seq(Nat) /\ Len(o) = Len(out) + 1
  <2>1. Len(out) < LzMemory
    BY <1>2, <1>3
  <2> HIDE DEF out, mem, b
  <2> QED  BY <1>2, <1>3, <1>5, <2>1, ByteIsHeld DEF LzPut
<1>8. LzIs(g[u], Len(o), new)
  <2>1. LzLiteralIs(StToken(raw, p[u]), b)
    BY <1>4 DEF StToken, LzLiteralIs
  <2>2. g[u] = LzToken(g[t], StToken(raw, p[u]), size)
    BY <1>1 DEF StSetting
  <2> DEFINE pos == Len(out)
  <2> HIDE DEF b, mem, pos
  <2>3. pos \in Nat /\ pos < size /\ LzIs(g[t], pos, mem)
    BY <1>2, <1>3 DEF pos
  <2>4. LzIs(LzToken(g[t], StToken(raw, p[u]), size), pos + 1, LzPut(mem, pos, b))
    BY <1>3, <2>1, <2>3, LiteralDoes
  <2> QED  BY <1>7, <2>2, <2>4, Zenon DEF pos
<1>9. /\ r \in StStates /\ r.ok /\ r.bits = s.bits - 1 /\ r.ctrl = s.ctrl \div 2
      /\ r.i = s.i + 1 /\ r.out = o
  <2>1. s.bits - 1 \in 0..8 /\ s.ctrl \div 2 \in Nat /\ s.i + 1 \in Nat
    BY <1>3
  <2> HIDE DEF o
  <2>2. r = [s EXCEPT !.bits = s.bits - 1, !.ctrl = s.ctrl \div 2, !.out = o, !.i = s.i + 1]
    BY <1>6 DEF o
  <2> QED  BY <1>2, <1>7, <2>1, <2>2 DEF StStates
<1>10. StRunning(raw, size, p, g, r, k + 1, u) \/ StSettled(size, g[n], r)
  <2>1. r.i = StEnd(p, u) /\ k + 6 <= r.i /\ Len(r.out) <= size
    <3> HIDE DEF out, o
    <3>1. r.i = StEnd(p, u) /\ k + 6 <= r.i
      BY <1>2, <1>3, <1>4, <1>9
    <3>2. Len(r.out) <= size
      BY <1>2, <1>3, <1>7, <1>9
    <3> QED  BY <3>1, <3>2
  <2>2. LzIs(g[u], Len(r.out), g[u].mem) /\ StHolds(g[u].mem, r.out)
    <3> HIDE DEF new, o
    <3>1. g[u].mem = new
      BY <1>8, FieldsOf
    <3> QED  BY <1>7, <1>8, <1>9, <3>1
  <2> HIDE DEF L, out, mem, b, new, o
  <2> QED  BY <1>9, <2>1, <2>2, AfterToken
<1> QED  BY <1>1, <1>9, <1>10 DEF StBeside

LEMMA MatchTurn ==
  ASSUME NEW raw, NEW size, NEW p, NEW n, NEW g, StSetting(raw, size, p, n, g),
         NEW k \in Nat, NEW t \in 0..n, t + 1 <= n,
         NEW s \in StStates, StRunning(raw, size, p, g, s, k, t), s.bits # 0, s.ctrl % 2 = 1
  PROVE  /\ StBeside(raw, size, p, n, g, k + 1, StTurn(s, raw, size, FALSE))
         /\ ~g[n].ok \/ StTurn(s, raw, size, TRUE) = StTurn(s, raw, size, FALSE)
<1> DEFINE r == StTurn(s, raw, size, FALSE)
           q == StTurn(s, raw, size, TRUE)
<1>a. r = StTurn(s, raw, size, FALSE) /\ q = StTurn(s, raw, size, TRUE)
  OBVIOUS
<1> HIDE DEF r, q
<1> SUFFICES StBeside(raw, size, p, n, g, k + 1, r) /\ (~g[n].ok \/ q = r)
  BY DEF r, q
<1> DEFINE L == Len(raw)
           u == t + 1
           out == s.out
           mem == g[t].mem
           pos == Len(out)
           lo == raw[s.i]
           hi == raw[s.i + 1]
           off == StOff(raw, s.i)
           len == StLen(raw, s.i)
           m == StWanted(len, pos, size)
           next == [s EXCEPT !.bits = @ - 1, !.ctrl = @ \div 2]
<1>1. L \in Nat /\ n \in Nat /\ u \in 1..n /\ u \in 0..n /\ t \in Nat /\ u - 1 = t
  BY MoreFollow
<1>2. s.ok /\ pos < size /\ k + 5 <= s.i /\ LzIs(g[t], pos, mem) /\ StHolds(mem, out)
  BY DEF StRunning
<1>3. /\ s.i \in Nat /\ s.ctrl \in Nat /\ s.bits \in 1..8 /\ out \in Seq(Nat) /\ pos \in Nat
      /\ size \in Nat /\ size <= LzMemory /\ LzMemory \in Nat
  BY StateParts DEF StSetting
<1>4. /\ p[u].place = s.i /\ p[u].bytes = 2 /\ StEnd(p, u) = s.i + 2
      /\ s.i + 1 <= L /\ s.i \in 1..L /\ s.i + 1 \in 1..L
  <2>1. /\ p[u].place = s.i /\ p[u].bytes = (s.ctrl % 2) + 1
        /\ StEnd(p, u) = s.i + (s.ctrl % 2) + 1
        /\ u <= n <=> s.i + (s.ctrl % 2) <= L
        /\ s.i \in Nat \ {0}
    BY TokenAhead
  <2>2. s.i + 1 <= L
    BY <1>1, <2>1, Zenon
  <2>3. (s.ctrl % 2) + 1 = 2 /\ s.i + (s.ctrl % 2) + 1 = s.i + 2
    BY <1>3
  <2> HIDE DEF L
  <2>5. s.i \in Nat \ {0}
    BY <2>1
  <2>4. s.i \in 1..L /\ s.i + 1 \in 1..L
    BY <1>1, <2>2, <2>5
  <2> QED  BY <2>1, <2>2, <2>3, <2>4
<1>5. lo \in Nat /\ hi \in Nat
  <2>1. raw \in Seq(Nat)
    BY DEF StSetting, StAreBytes
  <2>2. \A i \in 1..L : raw[i] \in Nat
    BY <2>1
  <2> QED  BY <1>4, <2>2, Zenon
<1>6. off \in Nat /\ len \in Nat
  <2> HIDE DEF lo, hi
  <2>1. hi % 16 \in Nat /\ hi \div 16 \in Nat
    BY <1>5
  <2>2. off = (hi % 16) * 256 + lo /\ len = hi \div 16 + 3
    BY DEF StOff, StLen, lo, hi
  <2> HIDE DEF off, len
  <2> QED  BY <1>5, <2>1, <2>2
<1>7. /\ next \in StStates /\ next.ok /\ next.bits = s.bits - 1 /\ next.ctrl = s.ctrl \div 2
      /\ next.i = s.i /\ next.out = out
  <2>1. s.bits - 1 \in 0..8 /\ s.ctrl \div 2 \in Nat
    BY <1>3
  <2> QED  BY <1>2, <2>1 DEF StStates
<1>8. r = StMatch(next, raw, size, FALSE) /\ q = StMatch(next, raw, size, TRUE)
  <2>1. s.i + (s.ctrl % 2) <= L
    BY <1>3, <1>4
  <2>2. StTurned(raw, size, s, FALSE, r) /\ StTurned(raw, size, s, TRUE, q)
    BY <1>1, <1>2, <1>3, <1>a, TurnDoes
  <2> QED  BY <2>1, <2>2, Zenon DEF StTurned
<1>9. /\ m \in Nat /\ pos + m <= size
  <2> HIDE DEF off, len, pos
  <2> QED  BY <1>2, <1>3, <1>6 DEF StWanted
<1>10. LzMatchIs(StToken(raw, p[u]), off, len)
  BY <1>4 DEF StToken, LzMatchIs, StOff, StLen
<1>11. g[u] = LzToken(g[t], StToken(raw, p[u]), size)
  BY <1>1 DEF StSetting
<1>12. /\ off <= pos => r = [next EXCEPT !.i = @ + 2, !.out = StCopy(out, pos - off, m)] /\ q = r
       /\ pos < off => r = [next EXCEPT !.ok = FALSE]
  <2>1. /\ raw[next.i] \in Nat /\ raw[next.i + 1] \in Nat /\ Len(next.out) = pos
        /\ off = StOff(raw, next.i) /\ m = StWanted(StLen(raw, next.i), Len(next.out), size)
    BY <1>5, <1>7, Zenon
  <2> HIDE DEF lo, hi, off, len, m, next, pos
  <2>2. Len(next.out) < size
    BY <1>2, <2>1
  <2>3. StMatched(next, off, m, FALSE, r)
    BY <1>3, <1>7, <1>8, <2>1, <2>2, StMatchDoes
  <2>4. StMatched(next, off, m, TRUE, q)
    BY <1>3, <1>7, <1>8, <2>1, <2>2, StMatchDoes
  <2>5. ASSUME off <= pos
        PROVE  r = [next EXCEPT !.i = @ + 2, !.out = StCopy(out, pos - off, m)] /\ q = r
    <3> DEFINE new == StCopy(out, pos - off, m)
               x == [next EXCEPT !.i = @ + 2, !.out = new]
    <3>1. r = x
      BY <1>7, <2>1, <2>3, <2>5, Zenon DEF StMatched
    <3>2. q = x
      BY <1>7, <2>1, <2>4, <2>5, Zenon DEF StMatched
    <3> QED  BY <3>1, <3>2, Zenon
  <2>6. ASSUME pos < off  PROVE r = [next EXCEPT !.ok = FALSE]
    BY <1>7, <2>1, <2>3, <2>6, Zenon DEF StMatched
  <2> QED  BY <2>5, <2>6
<1> HIDE DEF L, out, mem, pos, lo, hi, off, len, m, next, u
<1>13. CASE pos < off
  <2>1. ~g[u].ok
    BY <1>2, <1>3, <1>6, <1>9, <1>10, <1>11, <1>13, MatchDoes DEF m, StWanted
  <2>2. ~g[n].ok
    <3>1. g[n] = g[u]
      BY <1>1, <2>1, GameStays
    <3> QED  BY <2>1, <3>1
  <2>3. r = [next EXCEPT !.ok = FALSE]
    BY <1>12, <1>13
  <2>4. r \in StStates /\ ~r.ok
    BY <1>7, <2>3 DEF StStates
  <2> QED  BY <2>2, <2>4 DEF StBeside, StSettled
<1>14. CASE off <= pos
  <2> DEFINE from == pos - off
             o == StCopy(out, from, m)
             new == LzCopy(mem, pos, from, m)
  <2>1. r = [next EXCEPT !.i = @ + 2, !.out = o] /\ q = r
    BY <1>12, <1>14
  <2>2. from \in Nat /\ from <= pos /\ pos + m <= LzMemory
    BY <1>3, <1>6, <1>9, <1>14
  <2>3. StHolds(new, o) /\ o \in Seq(Nat) /\ Len(o) = pos + m
    BY <1>2, <1>3, <1>9, <2>2, MatchIsHeld DEF pos
  <2>4. LzIs(g[u], pos + m, new)
    BY <1>2, <1>3, <1>6, <1>9, <1>10, <1>11, <1>14, MatchDoes DEF m, StWanted
  <2> HIDE DEF o, new, from
  <2>5. /\ r \in StStates /\ r.ok /\ r.bits = s.bits - 1 /\ r.ctrl = s.ctrl \div 2
        /\ r.i = s.i + 2 /\ r.out = o
    <3> DEFINE j == s.i + 2
    <3>1. r = [next EXCEPT !.i = j, !.out = o]
      BY <1>7, <2>1
    <3>2. j \in Nat
      BY <1>3
    <3> HIDE DEF j
    <3>3. /\ r \in StStates /\ r.ok /\ r.bits = next.bits /\ r.ctrl = next.ctrl
          /\ r.i = j /\ r.out = o
      BY <1>7, <2>3, <3>1, <3>2 DEF StStates
    <3> QED  BY <1>7, <3>3 DEF j
  <2>6. r.i = StEnd(p, u) /\ k + 6 <= r.i /\ Len(r.out) <= size
    <3>3. r.i = s.i + 2 /\ r.i = StEnd(p, u)
      BY <1>4, <2>5
    <3>4. k + 5 <= s.i /\ s.i \in Nat
      BY <1>2, <1>3
    <3>5. k + 6 <= s.i + 2
      BY <3>4
    <3>1. r.i = StEnd(p, u) /\ k + 6 <= r.i
      BY <3>3, <3>5, Zenon
    <3>2. Len(r.out) <= size
      BY <1>9, <2>3, <2>5
    <3> QED  BY <3>1, <3>2
  <2>7. LzIs(g[u], Len(r.out), g[u].mem) /\ StHolds(g[u].mem, r.out)
    <3>1. g[u].mem = new
      BY <2>4, FieldsOf
    <3> QED  BY <2>3, <2>4, <2>5, <3>1
  <2>8. StRunning(raw, size, p, g, r, k + 1, u) \/ StSettled(size, g[n], r)
    BY <2>5, <2>6, <2>7, AfterToken DEF u
  <2> QED  BY <1>1, <2>1, <2>5, <2>8 DEF StBeside
<1>15. pos < off \/ off <= pos
  BY <1>3, <1>6
<1> QED  BY <1>13, <1>14, <1>15, Zenon

\* The forgiving decoder differs at a match only.
LEMMA TurnsAgree ==
  ASSUME NEW raw, Len(raw) \in Nat, NEW size \in Nat, NEW s \in StStates, s.ok, Len(s.out) < size,
         s.bits = 0 \/ s.ctrl % 2 = 0 \/ Len(raw) < s.i + (s.ctrl % 2)
  PROVE  StTurn(s, raw, size, TRUE) = StTurn(s, raw, size, FALSE)
<1> DEFINE r == StTurn(s, raw, size, FALSE)
           q == StTurn(s, raw, size, TRUE)
           L == Len(raw)
           b == s.ctrl % 2
<1>1. StTurned(raw, size, s, FALSE, r) /\ StTurned(raw, size, s, TRUE, q)
  BY TurnDoes
<1>2. s.i \in Nat /\ b \in {0, 1} /\ L \in Nat
  <2>1. s.i \in Nat /\ s.ctrl \in Nat
    BY StateParts
  <2> QED  BY <2>1
<1> HIDE DEF r, q
<1> SUFFICES q = r
  BY DEF q, r
<1>3. (L < s.i \/ s.i <= L) /\ (L < s.i + b \/ s.i + b <= L)
  <2> HIDE DEF b, L
  <2> QED  BY <1>2
<1>4. CASE s.bits = 0 /\ L < s.i
  BY <1>1, <1>4, Zenon DEF StTurned
<1>5. CASE s.bits = 0 /\ s.i <= L
  BY <1>1, <1>5, Zenon DEF StTurned
<1>6. CASE s.bits # 0 /\ L < s.i + b
  BY <1>1, <1>6, Zenon DEF StTurned
<1>7. CASE s.bits # 0 /\ s.i + b <= L /\ b = 0
  BY <1>1, <1>7, Zenon DEF StTurned
<1>8. s.bits = 0 \/ b = 0 \/ L < s.i + b
  OBVIOUS
<1> HIDE DEF b, L
<1> QED  BY <1>3, <1>4, <1>5, <1>6, <1>7, <1>8, Zenon

LEMMA StageGoesOn ==
  ASSUME NEW raw, NEW size, NEW p, NEW n, NEW g, StSetting(raw, size, p, n, g),
         NEW k \in Nat, NEW s, StBeside(raw, size, p, n, g, k, s)
  PROVE  /\ StBeside(raw, size, p, n, g, k + 1, StTurn(s, raw, size, FALSE))
         /\ ~g[n].ok \/ StTurn(s, raw, size, TRUE) = StTurn(s, raw, size, FALSE)
<1> DEFINE r == StTurn(s, raw, size, FALSE)
           q == StTurn(s, raw, size, TRUE)
<1>a. r = StTurn(s, raw, size, FALSE) /\ q = StTurn(s, raw, size, TRUE)
  OBVIOUS
<1> HIDE DEF r, q
<1> SUFFICES StBeside(raw, size, p, n, g, k + 1, r) /\ (~g[n].ok \/ q = r)
  BY DEF r, q
<1>1. s \in StStates /\ Len(raw) \in Nat /\ size \in Nat
  BY DEF StBeside, StSetting, StAreBytes
<1>2. CASE StSettled(size, g[n], s)
  <2>1. ~s.ok \/ size <= Len(s.out)
    BY <1>1, <1>2 DEF StSettled
  <2>2. r = s /\ q = s
    BY <1>1, <2>1, <1>a, TurnDoes
  <2> QED  BY <1>1, <1>2, <2>2 DEF StBeside
<1>3. ASSUME NEW t \in 0..n, StRunning(raw, size, p, g, s, k, t)
      PROVE  StBeside(raw, size, p, n, g, k + 1, r) /\ (~g[n].ok \/ q = r)
  <2>1. s.ok /\ Len(s.out) < size
    BY <1>3 DEF StRunning
  <2>2. CASE s.bits = 0
    <3>1. StBeside(raw, size, p, n, g, k + 1, r)
      BY <1>1, <1>3, <2>2, <1>a, ControlTurn
    <3>2. q = r
      BY <1>1, <2>1, <2>2, <1>a, TurnsAgree, Zenon
    <3> QED  BY <3>1, <3>2
  <2>3. CASE s.bits # 0 /\ ~(t + 1 <= n)
    <3>1. ~(s.i + (s.ctrl % 2) <= Len(raw))
      BY <1>1, <1>3, <2>3, TokenAhead
    <3>2. t = n
      BY <2>3, MoreFollow
    <3>3. s.i \in Nat /\ s.ctrl % 2 \in {0, 1}
      BY <1>1, <1>3, <2>3, TokenAhead
    <3> DEFINE b == s.ctrl % 2
    <3>4. Len(raw) < s.i + b
      <4> HIDE DEF b
      <4>1. ~(s.i + b <= Len(raw)) /\ s.i \in Nat /\ b \in {0, 1}
        BY <3>1, <3>3 DEF b
      <4> QED  BY <1>1, <4>1
    <3>5. q = r
      BY <1>1, <2>1, <3>4, <1>a, TurnsAgree, Zenon
    <3>6. r = [s EXCEPT !.ok = FALSE]
      <4>1. StTurned(raw, size, s, FALSE, r)
        BY <1>1, <2>1, <1>a, TurnDoes
      <4> QED  BY <2>3, <3>4, <4>1, Zenon DEF StTurned
    <3>7. StBeside(raw, size, p, n, g, k + 1, r)
      BY <1>1, <1>3, <3>2, <3>6, InputEnds
    <3> QED  BY <3>5, <3>7
  <2>4. CASE s.bits # 0 /\ t + 1 <= n /\ s.ctrl % 2 = 0
    <3>1. StBeside(raw, size, p, n, g, k + 1, r)
      BY <1>1, <1>3, <2>4, <1>a, LiteralTurn
    <3>2. q = r
      BY <1>1, <2>1, <2>4, <1>a, TurnsAgree, Zenon
    <3> QED  BY <3>1, <3>2
  <2>5. CASE s.bits # 0 /\ t + 1 <= n /\ s.ctrl % 2 = 1
    <3>1. /\ StBeside(raw, size, p, n, g, k + 1, StTurn(s, raw, size, FALSE))
          /\ ~g[n].ok \/ StTurn(s, raw, size, TRUE) = StTurn(s, raw, size, FALSE)
      BY <1>1, <1>3, <2>5, <1>a, MatchTurn
    <3> QED  BY <1>a, <3>1
  <2>6. s.ctrl % 2 = 0 \/ s.ctrl % 2 = 1
    <3>1. s.ctrl \in Nat
      BY <1>1, StateParts
    <3> QED  BY <3>1
  <2> QED  BY <2>2, <2>3, <2>4, <2>5, <2>6, Zenon
<1> QED  BY <1>2, <1>3 DEF StBeside

LEMMA StageBegins ==
  ASSUME NEW raw, NEW size, NEW p, NEW n, NEW g, StSetting(raw, size, p, n, g)
  PROVE  StBeside(raw, size, p, n, g, 0, StFresh)
<1> DEFINE zeros == [a \in LzPlaces |-> 0]
<1>1. /\ Len(raw) \in Nat /\ Len(raw) >= 4 /\ size \in Nat \ {0} /\ n \in Nat
      /\ StEnd(p, 0) = 5 /\ g[0] = LzFresh(zeros)
  <2>1. Len(raw) \in Nat /\ n \in 0..Len(raw)
    BY DEF StSetting, StAreBytes, StCounts
  <2> QED  BY <2>1 DEF StSetting
<1>2. /\ StFresh.ok /\ StFresh.i = 5 /\ StFresh.bits = 0 /\ Len(StFresh.out) = 0
      /\ StFresh.out = << >> /\ StFresh \in StStates
  BY DEF StFresh, StStates
<1>3. LzIs(g[0], 0, zeros) /\ g[0].mem = zeros
  BY <1>1 DEF LzIs, LzFresh
<1>4. StHolds(zeros, StFresh.out)
  <2>1. zeros = [a \in LzPlaces |-> zeros[a]]
    OBVIOUS
  <2>2. ASSUME NEW a \in LzPlaces
        PROVE  zeros[a] = IF a < Len(StFresh.out) THEN StFresh.out[a + 1] ELSE 0
    <3>1. ~(a < 0)
      BY DEF LzPlaces
    <3> QED  BY <1>2, <3>1
  <2> HIDE DEF zeros
  <2> QED  BY <2>1, <2>2 DEF StHolds
<1> HIDE DEF zeros
<1>5. 0 % 8 = 0 /\ 0 \in 0..n /\ 0 + 5 <= StFresh.i /\ StFresh.i <= Len(raw) + 1 /\ 0 < size
  BY <1>1, <1>2
<1>6. StRunning(raw, size, p, g, StFresh, 0, 0)
  BY <1>1, <1>2, <1>3, <1>4, <1>5 DEF StRunning
<1> QED  BY <1>2, <1>5, <1>6 DEF StBeside

LEMMA StageEnds ==
  ASSUME NEW raw, NEW size, NEW p, NEW n, NEW g, StSetting(raw, size, p, n, g),
         NEW s, StBeside(raw, size, p, n, g, Len(raw), s)
  PROVE  s \in StStates /\ StSettled(size, g[n], s)
<1>1. Len(raw) \in Nat /\ s \in StStates
  BY DEF StSetting, StAreBytes, StBeside
<1>2. s.i \in Nat
  BY <1>1, StateParts
<1>3. ASSUME NEW t \in 0..n, StRunning(raw, size, p, g, s, Len(raw), t)  PROVE FALSE
  <2>1. Len(raw) + 5 <= s.i /\ s.i <= Len(raw) + 1
    BY <1>3 DEF StRunning
  <2> QED  BY <1>1, <1>2, <2>1
<1> QED  BY <1>1, <1>3 DEF StBeside

\* The decoders' last states.
StEndsAs(raw, size, forgives, s) ==
  StRun(raw, forgives) = [s EXCEPT !.ok = @ /\ Len(s.out) >= size]

LEMMA RunEnds ==
  ASSUME NEW raw, NEW L \in Nat, L = Len(raw), L >= 4, NEW forgives,
         NEW size, size = StHeader(raw), StPlausible(size)
  PROVE  \E f : StRunLine(raw, forgives, f, L) /\ StEndsAs(raw, size, forgives, f[L])
<1>1. PICK f : /\ StRunLine(raw, forgives, f, L)
               /\ StRun(raw, forgives) = [f[L] EXCEPT !.ok = @ /\ Len(f[L].out) >= StHeader(raw)]
  BY StRunIsLine
<1>2. StEndsAs(raw, size, forgives, f[L])
  BY <1>1, Zenon DEF StEndsAs
<1> QED  BY <1>1, <1>2

LEMMA RunsMeet ==
  ASSUME NEW raw, NEW p, NEW n, NEW g, StSetting(raw, StHeader(raw), p, n, g),
         NEW a, StRunLine(raw, FALSE, a, Len(raw)), NEW b, StRunLine(raw, TRUE, b, Len(raw))
  PROVE  /\ a[Len(raw)] \in StStates /\ StSettled(StHeader(raw), g[n], a[Len(raw)])
         /\ ~g[n].ok \/ b[Len(raw)] = a[Len(raw)]
<1> DEFINE L == Len(raw)
           size == StHeader(raw)
           T == {k \in 0..L : StBeside(raw, size, p, n, g, k, a[k]) /\ (~g[n].ok \/ b[k] = a[k])}
<1>1. /\ L \in Nat /\ a[0] = StFresh /\ b[0] = StFresh
      /\ \A k \in 1..L : a[k] = StTurn(a[k - 1], raw, size, FALSE)
      /\ \A k \in 1..L : b[k] = StTurn(b[k - 1], raw, size, TRUE)
  <2>1. L \in Nat
    BY DEF StSetting, StAreBytes
  <2> QED  BY <2>1 DEF StRunLine
<1>6. StSetting(raw, size, p, n, g)
  OBVIOUS
<1> HIDE DEF L, size
<1>2. 0 \in T
  BY <1>1, <1>6, StageBegins
<1>3. ASSUME NEW k \in 1..L, k - 1 \in T  PROVE k \in T
  <2>1. /\ StBeside(raw, size, p, n, g, k - 1, a[k - 1]) /\ (~g[n].ok \/ b[k - 1] = a[k - 1])
        /\ k - 1 \in Nat /\ (k - 1) + 1 = k /\ k \in 0..L
    BY <1>1, <1>3
  <2> DEFINE s == a[k - 1]
             r == StTurn(s, raw, size, FALSE)
             q == StTurn(s, raw, size, TRUE)
             j == k - 1
  <2>2. r = StTurn(s, raw, size, FALSE) /\ q = StTurn(s, raw, size, TRUE)
    OBVIOUS
  <2>6. StBeside(raw, size, p, n, g, j, s) /\ j \in Nat
    BY <2>1
  <2>7. /\ StBeside(raw, size, p, n, g, j + 1, StTurn(s, raw, size, FALSE))
        /\ ~g[n].ok \/ StTurn(s, raw, size, TRUE) = StTurn(s, raw, size, FALSE)
    <3> HIDE DEF s, j
    <3> QED  BY <1>6, <2>6, StageGoesOn
  <2> HIDE DEF s, r, q, j
  <2>3. StBeside(raw, size, p, n, g, j + 1, r) /\ (~g[n].ok \/ q = r)
    BY <2>2, <2>7
  <2>4. a[k] = r
    BY <1>1 DEF s, r
  <2>5. ~g[n].ok \/ b[k] = a[k]
    <3>1. CASE b[k - 1] = a[k - 1]
      <4>1. b[k] = q
        BY <1>1, <3>1 DEF s, q
      <4> QED  BY <2>3, <2>4, <4>1
    <3> QED  BY <2>1, <3>1
  <2> QED  BY <2>1, <2>3, <2>4, <2>5 DEF j
<1>4. L \in T
  <2> HIDE DEF T
  <2>1. Inductive(T, L) /\ L \in 0..L
    BY <1>1, <1>2, <1>3 DEF Inductive
  <2> QED  BY <1>1, <2>1, StepsReach
<1>5. StBeside(raw, size, p, n, g, Len(raw), a[L]) /\ (~g[n].ok \/ b[L] = a[L])
  BY <1>4 DEF L
<1>7. a[Len(raw)] \in StStates /\ StSettled(size, g[n], a[Len(raw)])
  BY <1>5, <1>6, StageEnds DEF L
<1> QED  BY <1>5, <1>7 DEF L, size

\* The game's tokens of a stream that the stage takes.
LEMMA SettingExists ==
  ASSUME NEW raw, StAreBytes(raw), Len(raw) >= 4,
         NEW size \in Nat \ {0}, size <= LzMemory, LzMemory \in Nat
  PROVE  \E p, n, g : StSetting(raw, size, p, n, g) /\ StGame(raw, size) = g[n]
<1> DEFINE zeros == [a \in LzPlaces |-> 0]
           stream == StTokens(raw)
<1>1. Len(raw) \in Nat
  BY DEF StAreBytes
<1>2. PICK p : StPlanLine(raw, p, Len(raw)) /\ StPlan(raw) = p
  BY <1>1, StPlanIsLine
<1>3. StEnd(p, 0) = 5 /\ \A k \in 1..Len(raw) : StFollows(raw, p, k)
  BY <1>2, TokensFollow
<1>4. PICK n : StCounts(raw, p, n) /\ stream = [k \in 1..n |-> StToken(raw, p[k])]
  BY <1>2, TokensAre
<1>5. n \in Nat /\ n \in 0..Len(raw)
  BY <1>1, <1>4 DEF StCounts
<1> HIDE DEF stream, zeros
<1>6. n = Len(stream) /\ \A k \in 1..n : stream[k] = StToken(raw, p[k])
  BY <1>4, <1>5
<1>7. PICK g : LzRunLine(stream, size, zeros, g, n) /\ LzDecode(stream, size, zeros) = g[n]
  BY <1>5, <1>6, LzRunIsLine
<1>8. /\ g[0] = LzFresh(zeros)
      /\ \A k \in 1..n : g[k] = LzToken(g[k - 1], StToken(raw, p[k]), size)
  BY <1>6, <1>7, Zenon DEF LzRunLine
<1>9. StSetting(raw, size, p, n, g)
  BY <1>3, <1>4, <1>8 DEF StSetting, zeros
<1>10. StGame(raw, size) = g[n]
  BY <1>7 DEF StGame, stream, zeros
<1> QED  BY <1>9, <1>10

LEMMA StageAgrees ==
  ASSUME NEW raw, StAreBytes(raw)
  PROVE  StAgrees(raw)
<1> DEFINE L == Len(raw)
           size == IF L < 4 THEN 0 ELSE StHeader(raw)
           used == StDecodeUsed(raw)
           tol == StDecodeTolerant(raw)
           game == StGame(raw, size)
<1> SUFFICES ASSUME StPlausible(size)
             PROVE  /\ used.ok <=> game.ok /\ game.pos = size
                    /\ used.ok => /\ \A p \in 1..size : used.out[p] = game.mem[p - 1]
                                  /\ tol.out = used.out
                    /\ tol.ok /\ ~used.ok => ~game.ok
  BY Zenon DEF StAgrees
<1>1. L \in Nat
  BY DEF StAreBytes
<1>2. size \in Nat /\ size # 0 /\ size <= StMaxOut
  <2> HIDE DEF size
  <2>1. StMaxOut \in Nat
    BY StAssumption
  <2> QED  BY <2>1 DEF StPlausible
<1>3. ~(L < 4)
  <2>1. CASE L < 4
    <3>1. size = 0
      BY <2>1
    <3> QED  BY <1>2, <3>1
  <2> QED  BY <2>1
<1>4. L >= 4 /\ size = StHeader(raw) /\ StPlausible(StHeader(raw))
  BY <1>1, <1>3
<1>5. size <= LzMemory /\ LzMemory \in Nat /\ size \in Nat \ {0}
  <2> HIDE DEF size
  <2>1. StMaxOut \in Nat /\ LzMemory \in Nat
    BY StAssumption, LzAssumption
  <2> QED  BY <1>2, <2>1, UnpackingAssumption
<1> HIDE DEF size, used, tol, game
<1>6. PICK p, n, g : StSetting(raw, size, p, n, g) /\ StGame(raw, size) = g[n]
  BY <1>4, <1>5, SettingExists
<1>7. PICK a : StRunLine(raw, FALSE, a, L) /\ StEndsAs(raw, size, FALSE, a[L])
  BY <1>1, <1>4, RunEnds
<1>8. PICK b : StRunLine(raw, TRUE, b, L) /\ StEndsAs(raw, size, TRUE, b[L])
  BY <1>1, <1>4, RunEnds
<1> DEFINE s == a[L]
           q == b[L]
           last == g[n]
<1>9. s \in StStates /\ StSettled(size, last, s) /\ (~last.ok \/ q = s)
  <2>1. /\ a[Len(raw)] \in StStates /\ StSettled(size, g[n], a[Len(raw)])
        /\ ~g[n].ok \/ b[Len(raw)] = a[Len(raw)]
    <3>1. StSetting(raw, StHeader(raw), p, n, g)
      BY <1>4, <1>6
    <3>2. /\ a[Len(raw)] \in StStates /\ StSettled(StHeader(raw), g[n], a[Len(raw)])
          /\ ~g[n].ok \/ b[Len(raw)] = a[Len(raw)]
      BY <1>7, <1>8, <3>1, RunsMeet
    <3> QED  BY <1>4, <3>2
  <2> QED  BY <2>1, Zenon
<1>10. game = last
  BY <1>6 DEF game
<1>11. used.ok <=> s.ok /\ Len(s.out) >= size
  BY <1>7, <1>9 DEF used, StDecodeUsed, StEndsAs, StStates
<1>12. used.out = s.out
  BY <1>7, <1>9 DEF used, StDecodeUsed, StEndsAs, StStates
<1> HIDE DEF s, q, last
<1>13. q = s => (tol.ok <=> used.ok) /\ tol.out = used.out
  <2> SUFFICES ASSUME q = s  PROVE (tol.ok <=> used.ok) /\ tol.out = used.out
    OBVIOUS
  <2>1. StRun(raw, TRUE) = StRun(raw, FALSE)
    BY <1>7, <1>8 DEF StEndsAs, s, q
  <2> QED  BY <2>1 DEF tol, used, StDecodeTolerant, StDecodeUsed
<1>14. Len(s.out) \in Nat
  BY <1>9, StateParts
<1>15. CASE s.ok /\ Len(s.out) = size /\ last.ok /\ last.pos = size /\ StHolds(last.mem, s.out)
  <2>1. used.ok
    BY <1>2, <1>11, <1>15
  <2>2. ASSUME NEW i \in 1..size  PROVE used.out[i] = game.mem[i - 1]
    <3>1. i - 1 \in LzPlaces /\ i - 1 < size /\ (i - 1) + 1 = i
      BY <1>5 DEF LzPlaces
    <3>2. last.mem[i - 1] = IF i - 1 < Len(s.out) THEN s.out[(i - 1) + 1] ELSE 0
      BY <1>15, <3>1 DEF StHolds
    <3> QED  BY <1>10, <1>12, <1>15, <3>1, <3>2
  <2> QED  BY <1>9, <1>10, <1>13, <1>15, <2>1, <2>2
<1>16. CASE ~s.ok /\ last.ok /\ last.pos < size
  <2>1. ~used.ok /\ last.pos # size
    BY <1>2, <1>11, <1>16
  <2> QED  BY <1>9, <1>10, <1>13, <1>16, <2>1
<1>17. CASE ~s.ok /\ ~last.ok
  BY <1>10, <1>11, <1>17
<1> QED  BY <1>9, <1>15, <1>16, <1>17 DEF StSettled

LEMMA FirstOnes ==
  ASSUME NEW n \in Nat, NEW S, S \subseteq 0..n, \A i \in 1..n : i \in S => i - 1 \in S
  PROVE  S = {} \/ \E m \in 0..n : S = 0..m
<1> DEFINE T == {k \in 0..n : S \cap (0..k) = {} \/ \E m \in 0..k : S \cap (0..k) = 0..m}
<1>1. 0 \in T
  <2>1. CASE 0 \in S
    <3>1. S \cap (0..0) = 0..0
      BY <2>1
    <3> QED  BY <3>1
  <2>2. CASE 0 \notin S
    <3>1. S \cap (0..0) = {}
      BY <2>2
    <3> QED  BY <3>1
  <2> QED  BY <2>1, <2>2
<1>2. ASSUME NEW k \in 1..n, k - 1 \in T  PROVE k \in T
  <2>1. S \cap (0..k) = IF k \in S THEN (S \cap (0..(k - 1))) \cup {k} ELSE S \cap (0..(k - 1))
    OBVIOUS
  <2>2. CASE S \cap (0..(k - 1)) = {}
    <3>1. k \notin S
      BY <2>2
    <3>2. S \cap (0..k) = {}
      BY <2>1, <2>2, <3>1
    <3> QED  BY <3>2
  <2>3. ASSUME NEW m \in 0..(k - 1), S \cap (0..(k - 1)) = 0..m  PROVE k \in T
    <3>1. CASE k \in S
      <4>1. m = k - 1
        BY <2>3, <3>1
      <4>2. S \cap (0..k) = 0..k
        BY <2>1, <2>3, <3>1, <4>1
      <4> QED  BY <4>2
    <3>2. CASE k \notin S
      <4>1. S \cap (0..k) = 0..m /\ m \in 0..k
        BY <2>1, <2>3, <3>2
      <4> QED  BY <4>1
    <3> QED  BY <3>1, <3>2
  <2> QED  BY <1>2, <2>2, <2>3
<1>3. n \in T
  <2> HIDE DEF T
  <2>1. Inductive(T, n) /\ n \in 0..n
    BY <1>1, <1>2 DEF Inductive
  <2> QED  BY <2>1, StepsReach
<1>4. S \cap (0..n) = S
  OBVIOUS
<1> QED  BY <1>3, <1>4

\* The stage reads bytes of the disc.
LEMMA ReadsBytes ==
  ASSUME st_disc \in Seq(0..255), NEW e, e.lba \in Nat, e.size \in Nat
  PROVE  StRead(e) \in Seq(0..255)
<1> DEFINE lba == e.lba
           L == Len(st_disc)
           want == IF StSectors(e.size) >= StAhead THEN StSectors(e.size) ELSE StAhead
           have == {s \in 0..want : (lba + s) * StSector <= L}
           n == IF have = {} THEN 0 ELSE Cardinality(have) - 1
<1>1. StSector \in Nat /\ StSector > 0 /\ StAhead \in Nat /\ lba \in Nat /\ L \in Nat
  BY StAssumption
<1>2. want \in Nat
  <2> DEFINE b == e.size + StSector - 1
  <2>1. b \in Nat
    BY <1>1
  <2> HIDE DEF b
  <2>2. StSectors(e.size) \in Nat
    BY <1>1, <2>1, Quotients DEF StSectors, b
  <2> QED  BY <1>1, <2>2
<1>3. StRead(e) = SubSeq(st_disc, lba * StSector + 1, (lba + n) * StSector)
  BY DEF StRead
<1> HIDE DEF want, lba, L
<1>4. \A i \in 1..want : i \in have => i - 1 \in have
  <2> SUFFICES ASSUME NEW i \in 1..want, (lba + i) * StSector <= L
               PROVE  (lba + (i - 1)) * StSector <= L /\ i - 1 \in 0..want
    OBVIOUS
  <2>1. (lba + i) * StSector = (lba + (i - 1)) * StSector + StSector
    BY <1>1
  <2>2. (lba + (i - 1)) * StSector \in Nat
    BY <1>1
  <2> QED  BY <1>1, <1>2, <2>1, <2>2
<1>5. n \in Nat /\ (have = {} \/ n \in have) /\ (have = {} => n = 0)
  <2>1. have \subseteq 0..want
    OBVIOUS
  <2> HIDE DEF have
  <2>2. have = {} \/ \E m \in 0..want : have = 0..m
    BY <1>2, <1>4, <2>1, FirstOnes
  <2>3. ASSUME NEW m \in 0..want, have = 0..m  PROVE n = m /\ m \in have
    <3>1. m \in Nat
      BY <1>2
    <3>2. Cardinality(0..m) = m + 1
      <4>1. 0 \in Int /\ m \in Int /\ ~(0 > m)
        BY <3>1
      <4>2. Cardinality(0..m) = IF 0 > m THEN 0 ELSE m - 0 + 1
        BY <4>1, FS_Interval
      <4> QED  BY <3>1, <4>1, <4>2
    <3>3. 0 \in have /\ m \in have
      BY <2>3, <3>1
    <3>4. n = Cardinality(0..m) - 1
      BY <2>3, <3>3
    <3> QED  BY <3>1, <3>2, <3>3, <3>4
  <2> QED  BY <1>2, <2>2, <2>3
<1>6. have = {} \/ (lba + n) * StSector <= L
  BY <1>5
<1> HIDE DEF have, n
<1> DEFINE lo == lba * StSector + 1
           hi == (lba + n) * StSector
<1>7. lo \in Nat /\ lo >= 1 /\ hi \in Nat /\ (have = {} => hi = lo - 1)
  <2>1. lba * StSector \in Nat /\ (lba + n) * StSector \in Nat
    BY <1>1, <1>5
  <2>2. have = {} => (lba + n) = lba
    BY <1>1, <1>5
  <2> QED  BY <2>1, <2>2
<1>8. have = {} \/ hi <= L
  BY <1>6
<1> HIDE DEF lo, hi
<1>9. \A i \in lo..hi : st_disc[i] \in 0..255
  <2> SUFFICES ASSUME NEW i \in lo..hi  PROVE st_disc[i] \in 0..255
    OBVIOUS
  <2>1. i \in 1..L
    BY <1>1, <1>7, <1>8
  <2> QED  BY <2>1, PlacesOf DEF L
<1>10. SubSeq(st_disc, lo, hi) \in Seq(0..255)
  BY <1>7, <1>9, SubSeqProperties
<1> QED  BY <1>3, <1>10 DEF lo, hi

LEMMA UpToBytes ==
  ASSUME NEW raw \in Seq(0..255), NEW n \in Nat
  PROVE  StUpTo(raw, n) \in Seq(0..255)
<1> DEFINE m == IF n <= Len(raw) THEN n ELSE Len(raw)
<1>1. m \in Nat /\ m <= Len(raw) /\ Len(raw) \in Nat
  OBVIOUS
<1>2. StUpTo(raw, n) = SubSeq(raw, 1, m)
  BY DEF StUpTo
<1> HIDE DEF m
<1>3. \A i \in 1..m : raw[i] \in 0..255
  <2>1. \A i \in 1..Len(raw) : raw[i] \in 0..255
    BY PlacesOf
  <2>2. \A i \in 1..m : i \in 1..Len(raw)
    BY <1>1
  <2> QED  BY <2>1, <2>2, Zenon
<1> QED  BY <1>1, <1>2, <1>3, SubSeqProperties

LEMMA ElementOf ==
  ASSUME NEW S, NEW s \in Seq(S), NEW i \in Nat \ {0}, i <= Len(s)
  PROVE  s[i] \in S
  OBVIOUS

\* What the stage has read of the disc, and the files it has found.
StHasRead ==
  /\ st_disc \in Seq(0..255) /\ st_raw \in Seq(0..255)
  /\ st_table \in Seq([lba : Nat, size : Nat, tail : Nat])
  /\ st_ents \in Seq([n : Nat, lba : Nat, size : Nat])
  /\ st_at \in Nat \ {0}

LEMMA HasReadInit == StInit => StHasRead
  BY StAssumption DEF StInit, StHasRead

LEMMA HasReadNext == StHasRead /\ [StNext]_st_vars => StHasRead'
<1> SUFFICES ASSUME StHasRead, [StNext]_st_vars  PROVE StHasRead'
  OBVIOUS
<1>1. CASE StReadRow
  <2>1. st_table[st_at] \in [lba : Nat, size : Nat, tail : Nat]
    BY <1>1, ElementOf DEF StHasRead, StReadRow
  <2> DEFINE e == [n |-> st_at + 1, lba |-> st_table[st_at].lba, size |-> st_table[st_at].size]
  <2>2. e \in [n : Nat, lba : Nat, size : Nat]
    BY <2>1 DEF StHasRead
  <2> HIDE DEF e
  <2>3. Append(st_ents, e) \in Seq([n : Nat, lba : Nat, size : Nat])
    BY <2>2 DEF StHasRead
  <2>4. st_ents' \in Seq([n : Nat, lba : Nat, size : Nat])
    BY <1>1, <2>3 DEF StHasRead, StReadRow, e
  <2> QED  BY <1>1, <2>4 DEF StHasRead, StReadRow
<1>2. CASE StTableRead
  BY <1>2 DEF StHasRead, StTableRead
<1>3. CASE StStage
  <2> DEFINE e == st_ents[st_at]
  <2>1. e \in [n : Nat, lba : Nat, size : Nat]
    BY <1>3, ElementOf DEF StHasRead, StStage
  <2>2. e.lba \in Nat /\ e.size \in Nat
    BY <2>1
  <2>3. st_raw' = StRead(e) /\ (st_at' = st_at + 1 \/ st_at' = st_at)
    BY <1>3 DEF StStage
  <2>4. st_raw' \in Seq(0..255)
    BY <2>2, <2>3, ReadsBytes DEF StHasRead
  <2>5. st_at' \in Nat \ {0}
    BY <2>3 DEF StHasRead
  <2>6. UNCHANGED <<st_disc, st_table, st_ents>>
    BY <1>3 DEF StStage
  <2> QED  BY <2>4, <2>5, <2>6 DEF StHasRead
<1>4. CASE StDone
  BY <1>4 DEF StHasRead, StDone
<1>5. CASE UNCHANGED st_vars
  BY <1>5 DEF StHasRead, st_vars
<1> QED  BY <1>1, <1>2, <1>3, <1>4, <1>5 DEF StNext

\* What the stage unpacks from any disc is what the game unpacks from the
\* same bytes (main.rs:48-165, runtime.c:7078-7169).
THEOREM UnpackedAsByTheGame == StSpec => []StUnpacksAsTheGame
<1>1. StHasRead => StUnpacksAsTheGame
  <2> SUFFICES ASSUME StHasRead  PROVE StUnpacksAsTheGame
    OBVIOUS
  <2> DEFINE raw == StUpTo(st_raw, StWindow)
  <2>1. StWindow \in Nat
    BY StAssumption
  <2>2. raw \in Seq(0..255)
    BY <2>1, UpToBytes DEF StHasRead
  <2> HIDE DEF raw
  <2>3. StAgrees(raw)
    BY <2>2, BytesAre, StageAgrees
  <2> QED  BY <2>3 DEF StUnpacksAsTheGame, raw
<1> QED  BY HasReadInit, HasReadNext, <1>1, PTL DEF StSpec
=============================================================================
