------------------------------- MODULE Kernel -------------------------------
(***************************************************************************)
(* The kernel's events and the pulse that stands in for its interrupts     *)
(* (source/runtime/runtime.c): the event table behind B0(07)-B0(0D), the   *)
(* delivery of a class to its handlers, and xenolift_kick, which walks the *)
(* drivers, delivers three classes and steps the file device.  Everything  *)
(* runs on one stack: a delivery or a kick dispatches guest code, which    *)
(* calls gates, ends sound transfers and polls cells whose hooks kick      *)
(* again.                                                                  *)
(*                                                                         *)
(* ker_stack is that stack, oldest frame first, the guest's main code at   *)
(* the bottom.  A register is known by the depth of the code that wrote it *)
(* last, or KerHost for the runtime; r4-r5, the other 30 registers, and hi *)
(* with lo are three groups.  A handler outside of the kernel's code only  *)
(* wakes waiters, KerNull.  Left out: what a kick writes into pads,        *)
(* counters and the disc's state, spec and mode of an event (nothing reads *)
(* them), and a full stack's overflow.                                     *)
(***************************************************************************)
EXTENDS Integers, Sequences

CONSTANTS
  KerSlots,     \* slots of the event table (64)
  KerClasses,   \* the classes the guest opens and delivers
  KerHandlers,  \* the handlers it opens events with
  KerNull,      \* the handler that is not called
  KerMaxFrames  \* bound: frames on the stack

ASSUME KerAssumption ==
  /\ KerSlots \in Nat \ {0} /\ KerNull \in KerHandlers /\ KerMaxFrames \in Nat \ {0}

VARIABLES
  evt_tab,      \* the event table
  ker_stack,
  ker_regs,     \* who wrote the registers last
  hb_active     \* a kick is under way

ker_vars == <<evt_tab, ker_stack, ker_regs, hb_active>>

-----------------------------------------------------------------------------
KerHandles == 1..KerSlots
KerHost == 0
KerOwners == Nat
KerRegs == [args : KerOwners, rest : KerOwners, hilo : KerOwners]
KerEvents == [cls : KerClasses, handler : KerHandlers, in_use : BOOLEAN,
              enabled : BOOLEAN, fired : BOOLEAN]

\* Guest code: main or dispatched; it has written its registers; a kick has
\* been serviced under it since.
KerCodes == [kind : {"code"}, main : BOOLEAN, parked : BOOLEAN, ran : BOOLEAN,
             kicked : BOOLEAN]
\* A delivery: the next slot to look at, the events it owes, the registers
\* saved around a handler.
KerWalks == [kind : {"walk"}, cls : KerClasses \cup {"vblank", "timer", "disc"},
             at : 1..(KerSlots + 1), owed : SUBSET KerHandles, regs : KerRegs]
\* A kick: its next stage, the registers its hook saved, and its own r4-r5.
KerKicks == [kind : {"kick"}, stage : 1..10, hook : BOOLEAN, regs : KerRegs,
             args : KerOwners]

KerFrames == KerCodes \cup KerWalks \cup KerKicks

KerDepth == Len(ker_stack)
KerTop == ker_stack[KerDepth]
KerOnTop(kind) == KerTop.kind = kind
KerPush(frame) == KerDepth < KerMaxFrames /\ ker_stack' = Append(ker_stack, frame)
KerPop == SubSeq(ker_stack, 1, KerDepth - 1)
KerWith(frame) == [ker_stack EXCEPT ![KerDepth] = frame]

KerCode == [kind |-> "code", main |-> FALSE, parked |-> FALSE, ran |-> FALSE,
            kicked |-> FALSE]

\* Dispatched code starts with what the host put into r4 and r5.
KerCalled == [ker_regs EXCEPT !.args = KerHost]

-----------------------------------------------------------------------------
KerInit ==
  /\ \E cls \in KerClasses :
       evt_tab = [e \in KerHandles |-> [cls |-> cls, handler |-> KerNull,
                   in_use |-> FALSE, enabled |-> FALSE, fired |-> FALSE]]
  /\ ker_stack = <<[KerCode EXCEPT !.main = TRUE]>>
  /\ ker_regs = [args |-> KerHost, rest |-> KerHost, hilo |-> KerHost]
  /\ hb_active = FALSE

-----------------------------------------------------------------------------
(* Guest code.                                                             *)

KerRuns == KerOnTop("code") /\ ~KerTop.parked

\* The code computes: it fills its registers.
KerCompute ==
  /\ KerRuns
  /\ ker_regs' = [args |-> KerDepth, rest |-> KerDepth, hilo |-> KerDepth]
  /\ ker_stack' = KerWith([KerTop EXCEPT !.ran = TRUE, !.kicked = FALSE])
  /\ UNCHANGED <<evt_tab, hb_active>>

\* The deliveries under way no longer owe this event.
KerExcused(e) ==
  [i \in 1..KerDepth |->
     IF ker_stack[i].kind = "walk" THEN [ker_stack[i] EXCEPT !.owed = @ \ {e}]
     ELSE ker_stack[i]]

\* B0(08), evt_open: the first free slot.
KerOpenEvent(cls, handler) ==
  /\ KerRuns
  /\ \E e \in KerHandles :
       /\ ~evt_tab[e].in_use /\ \A below \in 1..(e - 1) : evt_tab[below].in_use
       /\ evt_tab' = [evt_tab EXCEPT ![e] = [cls |-> cls, handler |-> handler,
                        in_use |-> TRUE, enabled |-> FALSE, fired |-> FALSE]]
       /\ ker_stack' = KerExcused(e)
  /\ UNCHANGED <<ker_regs, hb_active>>

\* B0(09): the slot keeps its flags.
KerCloseEvent(e) ==
  /\ KerRuns /\ evt_tab[e].in_use
  /\ evt_tab' = [evt_tab EXCEPT ![e].in_use = FALSE]
  /\ ker_stack' = KerExcused(e)
  /\ UNCHANGED <<ker_regs, hb_active>>

\* B0(0A): answers "delivered" at once and takes the flag back.
KerWaitEvent(e) ==
  /\ KerRuns /\ evt_tab[e].in_use
  /\ evt_tab' = [evt_tab EXCEPT ![e].fired = FALSE]
  /\ ker_stack' = KerExcused(e)
  /\ UNCHANGED <<ker_regs, hb_active>>

\* B0(0C).
KerEnableEvent(e) ==
  /\ KerRuns /\ evt_tab[e].in_use
  /\ evt_tab' = [evt_tab EXCEPT ![e].enabled = TRUE]
  /\ UNCHANGED <<ker_stack, ker_regs, hb_active>>

\* B0(0D).
KerDisableEvent(e) ==
  /\ KerRuns /\ evt_tab[e].in_use
  /\ evt_tab' = [evt_tab EXCEPT ![e].enabled = FALSE]
  /\ ker_stack' = KerExcused(e)
  /\ UNCHANGED <<ker_regs, hb_active>>

-----------------------------------------------------------------------------
(* evt_deliver_class.                                                      *)

KerHears(e, cls) == evt_tab[e].in_use /\ evt_tab[e].enabled /\ evt_tab[e].cls = cls

KerWalkOf(cls, regs) ==
  [kind |-> "walk", cls |-> cls, at |-> 1,
   owed |-> {e \in KerHandles : KerHears(e, cls)}, regs |-> regs]

KerDeliver(cls) ==
  /\ KerPush(KerWalkOf(cls, ker_regs))
  /\ UNCHANGED <<evt_tab, ker_regs, hb_active>>

\* B0(07), and the end of a sound transfer, which raises the disc class.
KerDeliverEvent(cls) == KerRuns /\ KerDeliver(cls)
KerSoundEnds == KerRuns /\ KerDeliver("disc")

KerFire(events) ==
  evt_tab' = [e \in KerHandles |->
                IF e \in events THEN [evt_tab[e] EXCEPT !.fired = TRUE] ELSE evt_tab[e]]

\* Mutant of KerHits: the last slot is not looked at.
KerHitsToLast == {e \in KerTop.at..(KerSlots - 1) : KerHears(e, KerTop.cls)}

\* The table is looked at as it is now, up to the next event with a handler,
\* which is called with its registers its own.
KerHits == {e \in KerTop.at..KerSlots : KerHears(e, KerTop.cls)}
KerCalls == {e \in KerHits : evt_tab[e].handler # KerNull}

KerWalkOn ==
  /\ KerOnTop("walk") /\ KerDepth < KerMaxFrames
  /\ \E e \in KerCalls :
       /\ \A other \in KerCalls : e <= other
       /\ KerFire({f \in KerHits : f <= e})
       /\ ker_stack' = Append(KerWith([KerTop EXCEPT !.at = e + 1, !.regs = ker_regs]),
                             KerCode)
  /\ ker_regs' = KerCalled
  /\ UNCHANGED hb_active

KerWalkOut ==
  /\ KerOnTop("walk") /\ KerTop.at <= KerSlots /\ KerCalls = {}
  /\ KerFire(KerHits)
  /\ ker_stack' = KerWith([KerTop EXCEPT !.at = KerSlots + 1])
  /\ UNCHANGED <<ker_regs, hb_active>>

KerWalkEnds ==
  /\ KerOnTop("walk") /\ KerTop.at > KerSlots
  /\ ker_stack' = KerPop
  /\ UNCHANGED <<evt_tab, ker_regs, hb_active>>

\* Mutant of KerRestored: the registers stay the handler's.
KerNotRestored(frame) == ker_regs

\* A handler returns to the delivery, which puts all registers back; other
\* dispatched code returns to the kick, which does not.
KerRestored(frame) == IF frame.kind = "walk" THEN frame.regs ELSE ker_regs

KerReturn ==
  /\ KerRuns /\ ~KerTop.main
  /\ ker_stack' = KerPop
  /\ ker_regs' = KerRestored(ker_stack[KerDepth - 1])
  /\ UNCHANGED <<evt_tab, hb_active>>

-----------------------------------------------------------------------------
(* xenolift_kick.                                                          *)

KerKick(hook) ==
  [kind |-> "kick", stage |-> 1, hook |-> hook, regs |-> ker_regs, args |-> KerHost]

\* R1189, R1196: a hook of a polled cell kicks under live code and keeps its
\* 32 registers.
KerHookKick ==
  /\ KerRuns /\ ~hb_active /\ KerDepth < KerMaxFrames
  /\ hb_active' = TRUE
  /\ ker_stack' = Append(KerWith([KerTop EXCEPT !.kicked = TRUE]), KerKick(TRUE))
  /\ ker_regs' = KerCalled
  /\ UNCHANGED evt_tab

\* Main code ends in a jump to itself, with no live registers.
KerPark ==
  /\ KerRuns /\ KerTop.main
  /\ ker_stack' = KerWith([KerTop EXCEPT !.parked = TRUE, !.ran = FALSE])
  /\ UNCHANGED <<evt_tab, ker_regs, hb_active>>

\* xenolift_park_tick: the due kick and the pulse.
KerParkKick ==
  /\ KerOnTop("code") /\ KerTop.parked /\ ~hb_active
  /\ hb_active' = TRUE
  /\ KerPush(KerKick(FALSE))
  /\ ker_regs' = KerCalled
  /\ UNCHANGED evt_tab

\* A stage that dispatches guest code: the driver walk (1), the two steps of
\* the file device (5, 6), the task notifier (7), the park's own walk (9).
\* r4 and r5 are kept over the walk and over the file device with the
\* notifier.
KerKickCalls ==
  /\ KerOnTop("kick") /\ KerTop.stage \in {1, 5, 6, 7, 9} /\ KerDepth < KerMaxFrames
  /\ LET args == IF KerTop.stage \in {1, 5} THEN ker_regs.args ELSE KerTop.args
     IN  ker_stack' = Append(KerWith([KerTop EXCEPT !.stage = @ + 1, !.args = args]),
                             KerCode)
  /\ ker_regs' = KerCalled
  /\ UNCHANGED <<evt_tab, hb_active>>

\* The notifier waits for the contract's value and a finished transfer.
KerNoNotifier ==
  /\ KerOnTop("kick") /\ KerTop.stage = 7
  /\ ker_stack' = KerWith([KerTop EXCEPT !.stage = 8])
  /\ UNCHANGED <<evt_tab, ker_regs, hb_active>>

KerKickDelivers ==
  /\ KerOnTop("kick") /\ KerTop.stage \in {2, 3, 4} /\ KerDepth < KerMaxFrames
  /\ LET cls == CASE KerTop.stage = 2 -> "vblank"
                  [] KerTop.stage = 3 -> "timer"
                  [] KerTop.stage = 4 -> "disc"
         regs == IF KerTop.stage = 2 THEN [ker_regs EXCEPT !.args = KerTop.args]
                 ELSE ker_regs
     IN  /\ ker_regs' = regs
         /\ ker_stack' = Append(KerWith([KerTop EXCEPT !.stage = @ + 1]),
                                KerWalkOf(cls, regs))
  /\ UNCHANGED <<evt_tab, hb_active>>

\* The kick is over: a hook puts the 32 registers back, the park goes on to
\* its driver walk.
KerKickEnds ==
  /\ KerOnTop("kick") /\ KerTop.stage = 8 /\ KerTop.hook
  /\ ker_stack' = KerPop
  /\ ker_regs' = [KerTop.regs EXCEPT !.hilo = ker_regs.hilo]
  /\ hb_active' = FALSE
  /\ UNCHANGED evt_tab

KerParkWalks ==
  /\ KerOnTop("kick") /\ KerTop.stage = 8 /\ ~KerTop.hook
  /\ ker_stack' = KerWith([KerTop EXCEPT !.stage = 9])
  /\ ker_regs' = [ker_regs EXCEPT !.args = KerHost]
  /\ UNCHANGED <<evt_tab, hb_active>>

KerParkEnds ==
  /\ KerOnTop("kick") /\ KerTop.stage = 10
  /\ ker_stack' = KerPop
  /\ hb_active' = FALSE
  /\ UNCHANGED <<evt_tab, ker_regs>>

KerNext ==
  \/ KerCompute
  \/ \E cls \in KerClasses, handler \in KerHandlers : KerOpenEvent(cls, handler)
  \/ \E e \in KerHandles : KerCloseEvent(e)
  \/ \E e \in KerHandles : KerWaitEvent(e)
  \/ \E e \in KerHandles : KerEnableEvent(e)
  \/ \E e \in KerHandles : KerDisableEvent(e)
  \/ \E cls \in KerClasses : KerDeliverEvent(cls)
  \/ KerSoundEnds
  \/ KerWalkOn
  \/ KerWalkOut
  \/ KerWalkEnds
  \/ KerReturn
  \/ KerHookKick
  \/ KerPark
  \/ KerParkKick
  \/ KerKickCalls
  \/ KerNoNotifier
  \/ KerKickDelivers
  \/ KerKickEnds
  \/ KerParkWalks
  \/ KerParkEnds

KerSpec == KerInit /\ [][KerNext]_ker_vars

-----------------------------------------------------------------------------
(* Properties.                                                             *)

KerTypeOK ==
  /\ evt_tab \in [KerHandles -> KerEvents]
  /\ ker_stack \in Seq(KerFrames) /\ ker_stack # << >>
  /\ ker_regs \in KerRegs
  /\ hb_active \in BOOLEAN

\* Code that a delivery or a kick has interrupted finds its registers as it
\* left them, however deep handlers, deliveries and kicks nest above it (R196,
\* runtime.c:8885-8903, R1189, 7517-7525); hi and lo a hook's kick does not
\* keep.
KerContextKept ==
  KerOnTop("code") /\ KerTop.ran =>
    /\ ker_regs.args = KerDepth /\ ker_regs.rest = KerDepth
    /\ KerTop.kicked \/ ker_regs.hilo = KerDepth

\* A delivery passes over no event that was enabled when it began and has
\* been neither closed, disabled, reopened nor waited for since, whatever the
\* handlers it calls do to the table (runtime.c:8879-8906).
KerDeliveredToAll ==
  \A i \in 1..Len(ker_stack) :
    ker_stack[i].kind = "walk" =>
      \A e \in ker_stack[i].owed : e < ker_stack[i].at => evt_tab[e].fired
=============================================================================
