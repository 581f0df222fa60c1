------------------------------ MODULE GuestRun ------------------------------
(***************************************************************************)
(* How a guest program runs: as the C functions that the recompiler wrote  *)
(* for it (source/src/emitter.rs), through the generated dispatcher and    *)
(* the overlay guard in front of it, or by the module interpreter when the *)
(* memory of a module window no longer holds what was translated           *)
(* (source/runtime/runtime.c, r1394_dispatch_guard and r1394_interp).      *)
(*                                                                         *)
(* The state is the C stack: a frame of translated code stands at the word *)
(* it executes next (its function is the chunk that owns the word), one of *)
(* the interpreter at the word it fetches next.  A call of one chunk from  *)
(* the end of another, followed by return, replaces the frame.  Nothing    *)
(* runs between a jump and its delay slot, so one step makes both, reading *)
(* and writing the registers in the order of the emitted C and of the      *)
(* interpreter.  The BIOS gates, the park tick of a jump to itself, the    *)
(* second window of the menu overlay and the repairs of single programs    *)
(* are left out.                                                           *)
(*                                                                         *)
(* Programs have no jump in a delay slot (UNPREDICTABLE on the CPU), and a *)
(* jump and its slot are on the same side of the window's edge.  Every     *)
(* word of the image is visited by discovery; its recorded register jumps  *)
(* are left out.                                                           *)
(***************************************************************************)
EXTENDS Integers, Sequences, FiniteSets, SequencesExt

CONSTANTS
  GrLast,          \* the last word of the image
  GrWindow,        \* the words of the module window
  GrBuilds,        \* what may be translated (code) and be in memory (live)
  GrSeeds,         \* the entries of functions that discovery gets from data
  GrFirst,         \* the values of x at the start
  GrGuard,         \* words the guard compares, 4
  GrDeclines,      \* unsupported words the interpreter passes over, 64
  GrMaxDepth       \* bound: frames on the C stack, words on the guest's

VARIABLES
  gr_build,        \* the build: code, live, and the chunk starts of code
  gr_frames,       \* the C stack
  gr_reg,          \* the registers
  gr_declines,     \* r1463d_budget
  gr_calls,        \* ghost: the calls of the guest under way
  gr_wild          \* ghost: the guest has broken a convention

gr_vars == <<gr_build, gr_frames, gr_reg, gr_declines, gr_calls, gr_wild>>

GrWords == 1..GrLast

ASSUME GrAssumption ==
  /\ GrLast \in Nat \ {0} /\ GrGuard \in Nat
  /\ GrSeeds \subseteq GrWords /\ GrFirst \subseteq Int

\* The entries of functions: the program's, those called, those in data.
GrFunctions(code) ==
  {1} \cup GrSeeds \cup {code[a].to : a \in {b \in GrWords : code[b].op = "jal"}}

GrTop == gr_frames[Len(gr_frames)]

\* The program counter that the state of the C stack stands for.
GrPc ==
  IF gr_frames = << >> THEN GrLast + 1
  ELSE IF GrTop.how = "lost" THEN -1 ELSE GrTop.at

Cpu == INSTANCE GuestCpu WITH
  CpuLast <- GrLast, cpu_code <- gr_build.live,
  cpu_entries <- GrFunctions(gr_build.code), cpu_pc <- GrPc, cpu_reg <- gr_reg,
  cpu_calls <- gr_calls, cpu_wild <- gr_wild

-----------------------------------------------------------------------------
(* The emitter: which word belongs to which C function.                    *)

GrOwner(starts, a) == CHOOSE s \in starts : s <= a /\ \A t \in starts : t <= a => t <= s

\* static_target and fallthrough_of: where flow may continue after a, as far
\* as the emitter knows.
GrFlow(code, a) ==
  (IF code[a].op \in Cpu!CpuBranches \cup {"j", "jal"} THEN {code[a].to} ELSE {}) \cup
  (CASE code[a].op \in Cpu!CpuPlain -> {a + 1}
     [] code[a].op \in Cpu!CpuBranches \cup {"jal", "jalrx"} -> {a + 2}
     [] OTHER -> {})

\* The words in the middle of one chunk that flow from another one reaches.
GrSplits(code, starts) ==
  LET owner == [a \in GrWords |-> GrOwner(starts, a)]
  IN {t \in (UNION {GrFlow(code, a) : a \in GrWords}) \cap (GrWords \ starts) :
        \E a \in GrWords : t \in GrFlow(code, a) /\ owner[t] # owner[a]}

\* The loop of emit: split until nothing is left to split.
GrStarts(code) ==
  LET round[starts \in SUBSET GrWords] ==
        LET splits == GrSplits(code, starts)
        IN IF splits = {} THEN starts ELSE round[starts \cup splits]
  IN round[GrFunctions(code)]

GrOwn(a, b) ==
  b \in GrWords /\ GrOwner(gr_build.starts, a) = GrOwner(gr_build.starts, b)

-----------------------------------------------------------------------------
(* The C stack.                                                            *)

GrFrame(how, at, ra) == [how |-> how, at |-> at, ra |-> ra]
GrAt(a) == [gr_frames EXCEPT ![Len(gr_frames)].at = a]
GrPop == Front(gr_frames)

\* The guard lets the translation run when the words at its entry are those
\* that were translated.
GrMatches(t) ==
  \A a \in t..(t + GrGuard - 1) :
    a \in GrWords => gr_build.live[a] = gr_build.code[a]

\* xenolift_dispatch with the guard at its head, called from below; a target
\* that is no chunk ends in xenolift_unknown.
GrDispatch(below, t, ra) ==
  Append(below, IF t \in GrWindow /\ ~GrMatches(t) THEN GrFrame("interp", t, ra)
                ELSE IF t \in gr_build.starts THEN GrFrame("code", t, ra)
                ELSE GrFrame("lost", t, ra))

-----------------------------------------------------------------------------
(* Translated code: one unit of emit_body.                                 *)

\* transfer: a goto inside the chunk, a call and return to another one.
GrTransfer(a, t, ra) ==
  IF GrOwn(a, t) \/ t \in gr_build.starts THEN GrAt(t) ELSE GrDispatch(GrPop, t, ra)

GrCodePlain(a, w) ==
  /\ w.op \in Cpu!CpuPlain
  /\ gr_reg' = Cpu!CpuEffect(gr_reg, w)
  /\ gr_frames' = GrAt(a + 1)

\* A syscall or break ends its unit; behind it the chunk may be over.
GrCodeTrap(a, w) ==
  /\ w.op = "trap"
  /\ gr_frames' = IF GrOwn(a, a + 1) THEN GrAt(a + 1) ELSE GrPop
  /\ UNCHANGED gr_reg

\* A jump with its slot, the registers as the jump leaves them, taken and
\* temp what it has put into temporaries.  A call of a known function is a C
\* call, past the guard; jr through r31 is the return of the C function;
\* another jr reads its register after the slot.
GrUnit(a, w, reg, taken, temp) ==
  /\ gr_reg' = Cpu!CpuEffect(reg, gr_build.code[a + 1])
  /\ gr_frames' =
       CASE w.op = "j" \/ (w.op \in Cpu!CpuBranches /\ taken) ->
              GrTransfer(a, w.to, gr_reg'.ra)
         [] w.op \in Cpu!CpuBranches /\ ~taken -> GrAt(a + 2)
         [] w.op = "jal" /\ w.to \in gr_build.starts ->
              Append(GrAt(a + 2), GrFrame("code", w.to, gr_reg'.ra))
         [] w.op = "jal" /\ w.to \notin gr_build.starts ->
              GrDispatch(GrAt(a + 2), w.to, gr_reg'.ra)
         [] w.op = "jr" -> GrPop
         [] w.op = "jrx" -> GrDispatch(GrPop, gr_reg'.x, gr_reg'.ra)
         [] w.op = "jalrx" -> GrDispatch(GrAt(a + 2), temp, gr_reg'.ra)

\* Mutant of GrCodeJump: a linking jump links after its slot.
GrCodeJumpLinksLate(a, w) ==
  /\ w.op \in Cpu!CpuSlotted
  /\ \E reg \in {Cpu!CpuEffect(gr_reg, gr_build.code[a + 1])} :
       GrUnit(a, w, Cpu!CpuLink(reg, w, a), reg.x = 0, reg.x)

GrCodeJump(a, w) ==
  /\ w.op \in Cpu!CpuSlotted
  /\ GrUnit(a, w, Cpu!CpuLink(gr_reg, w, a), gr_reg.x = 0, gr_reg.x)

\* The label of a slot lies inside the unit of its jump: control that comes
\* to it goes on with that jump, whose temporaries nobody has set.
GrConsumed(a) ==
  a > 1 /\ gr_build.code[a - 1].op \in Cpu!CpuSlotted /\ GrOwn(a, a - 1)

GrCodeSlot(a) ==
  \E taken \in BOOLEAN, temp \in GrWords :
    GrUnit(a - 1, gr_build.code[a - 1], gr_reg, taken, temp)

-----------------------------------------------------------------------------
(* The interpreter, on the live words of the window.                       *)

\* Control leaves the window by a jump: back to the translated caller, or
\* onwards, and then the interpreted function is complete.
GrLeave(t, ra) ==
  IF t = GrTop.ra THEN GrPop ELSE GrDispatch(GrPop, t, ra)

GrInterpPlain(a, w) ==
  /\ w.op \in Cpu!CpuPlain
  /\ gr_reg' = Cpu!CpuEffect(gr_reg, w)
  /\ gr_frames' = GrAt(a + 1)
  /\ UNCHANGED gr_declines

\* The jumps that do not come back, and the branches, linking or not.
GrInterpJump(a, w) ==
  /\ w.op \in {"beq", "bal", "j", "jr", "jrx"}
  /\ gr_reg' = Cpu!CpuEffect(Cpu!CpuLink(gr_reg, w, a), gr_build.live[a + 1])
  /\ LET t == Cpu!CpuTarget(gr_reg, w, a)
     IN gr_frames' = IF t \in GrWindow THEN GrAt(t) ELSE GrLeave(t, gr_reg'.ra)
  /\ UNCHANGED gr_declines

\* A call inside the window stays in this frame; one out of it is dispatched
\* and the interpreter goes on behind it.
GrInterpCall(a, w) ==
  /\ w.op \in {"jal", "jalrx"}
  /\ gr_reg' = Cpu!CpuEffect(Cpu!CpuLink(gr_reg, w, a), gr_build.live[a + 1])
  /\ LET t == Cpu!CpuTarget(gr_reg, w, a)
     IN gr_frames' = IF t \in GrWindow THEN GrAt(t)
                     ELSE GrDispatch(GrAt(a + 2), t, gr_reg'.ra)
  /\ UNCHANGED gr_declines

\* A word it does not support, or a step over the end of the window: the
\* function is given up as if it had returned, or the run ends.
GrInterpStop(a, w) ==
  /\ w.op \in {"trap", "bad"}
  /\ IF gr_declines > 0
     THEN gr_frames' = GrPop /\ gr_declines' = gr_declines - 1
     ELSE gr_frames' = Append(gr_frames, GrFrame("lost", a, 0)) /\ UNCHANGED gr_declines
  /\ UNCHANGED gr_reg

-----------------------------------------------------------------------------
GrBuilt(b) == [code |-> b.code, live |-> b.live, starts |-> GrStarts(b.code)]

GrInitOf(b) ==
  /\ gr_build = GrBuilt(b)
  /\ gr_frames = <<GrFrame("code", 1, GrLast + 1)>>
  /\ \E x \in GrFirst : gr_reg = [ra |-> GrLast + 1, x |-> x, stk |-> << >>]
  /\ gr_declines = GrDeclines
  /\ gr_calls = <<GrLast + 1>> /\ gr_wild = FALSE

GrInit == \E b \in GrBuilds : GrInitOf(b)

\* What the step means to the guest.
GrGhosts(a) ==
  LET w == gr_build.live[a]
  IN /\ gr_wild' = (gr_wild \/ Cpu!CpuBreaks(gr_calls, gr_reg, w, a))
     /\ gr_calls' = Cpu!CpuCallsAfter(gr_calls, gr_reg, w, a)

GrCode ==
  /\ gr_frames # << >> /\ GrTop.how = "code" /\ ~gr_wild
  /\ GrTop.at \in GrWords
  /\ LET a == GrTop.at
         w == gr_build.code[a]
     IN /\ IF GrConsumed(a) THEN GrCodeSlot(a)
           ELSE GrCodePlain(a, w) \/ GrCodeTrap(a, w) \/ GrCodeJump(a, w)
        /\ GrGhosts(a)
  /\ Len(gr_frames') <= GrMaxDepth /\ Len(gr_reg'.stk) <= GrMaxDepth
  /\ UNCHANGED <<gr_build, gr_declines>>

GrInterp ==
  /\ gr_frames # << >> /\ GrTop.how = "interp" /\ ~gr_wild
  /\ GrTop.at \in GrWindow
  /\ LET a == GrTop.at
         w == gr_build.live[a]
     IN /\ \/ GrInterpPlain(a, w) \/ GrInterpJump(a, w) \/ GrInterpCall(a, w)
           \/ GrInterpStop(a, w)
        /\ GrGhosts(a)
  /\ Len(gr_frames') <= GrMaxDepth /\ Len(gr_reg'.stk) <= GrMaxDepth
  /\ UNCHANGED gr_build

GrNext == GrCode \/ GrInterp

GrSpec == GrInit /\ [][GrNext]_gr_vars

-----------------------------------------------------------------------------
(* Type correctness.                                                       *)
GrTypeOK ==
  /\ gr_build.starts \subseteq GrWords
  /\ gr_reg.x \in 0..GrLast
  /\ gr_declines \in 0..GrDeclines
  /\ \A i \in 1..Len(gr_frames) : gr_frames[i].how \in {"code", "interp", "lost"}

(* The program does what the CPU would do with the program in memory: in   *)
(* every chunk, across chunks, in the interpreter and across both, each    *)
(* instruction is executed once, in order, with the same registers, and    *)
(* control is never lost - as long as the program keeps the conventions.   *)
GrImplementsCpu == Cpu!CpuSpec

-----------------------------------------------------------------------------
(* The programs that the translation is for: what compiled code keeps and  *)
(* a build relies on.                                                      *)

GrStale(b) == b.live # b.code

\* What is translated: no branch links, a jump has its slot, no slot sets the
\* register that a jr goes through, nothing but the entry of a chunk is a slot
\* that a jump leads to, and a trap is not the last word of its chunk.
GrCompiled(b) ==
  \A a \in GrWords :
    LET w == b.code[a]
    IN  /\ w.op # "bal"
        /\ w.op \in Cpu!CpuSlotted => a < GrLast /\ b.code[a + 1].op \in Cpu!CpuPlain
        /\ w.op = "jal" => w.to \in GrWords
        /\ w.op = "jrx" => b.code[a + 1].op # "set"
        /\ w.op = "trap" => a + 1 \notin b.starts
        /\ (w.op \in {"beq", "j"} /\ w.to \in GrWords \ b.starts /\ w.to > 1)
             => b.code[w.to - 1].op \notin Cpu!CpuSlotted

\* Another module than the one translated: outside the window memory is what
\* was translated, and control gets in through registers only.
GrApart(b) ==
  \A a \in GrWords \ GrWindow :
    LET w == b.code[a]
    IN  /\ b.live[a] = w
        /\ a = 1 \/ a \in b.starts \/ b.code[a - 1].op \notin Cpu!CpuSlotted
             => GrFlow(b.code, a) \cap GrWindow = {}
        /\ w.op \in Cpu!CpuSlotted \cup {"trap"} => a + 1 \notin GrWindow
        /\ w.op = "jalrx" => b.code[a + 1].op # "load"

\* Inside, calls come back into the window, and jumps out of it go to functions.
GrInside(b) ==
  \A a \in GrWindow :
    LET w == b.live[a]
    IN  /\ w.op \notin {"bal", "trap"}
        /\ w.op \in Cpu!CpuSlotted => a + 1 \in GrWindow /\ b.live[a + 1].op \in Cpu!CpuPlain
        /\ w.op \in {"beq", "jal", "jalrx"} => a + 2 \in GrWindow
        /\ (w.op \in {"beq", "j", "jal"} /\ w.to \in GrWords)
             => w.to \in GrWindow \cup GrFunctions(b.code)

\* The guard tells it from the one translated, at every entry.
GrTold(b) ==
  \A t \in GrFunctions(b.code) \cap GrWindow :
    \E a \in t..(t + GrGuard - 1) : a \in GrWords /\ b.live[a] # b.code[a]

\* Code and memory keep what translation relies on; without a stale module
\* only the first two conjuncts say anything.
GrKeeps(b) ==
  /\ {b.code, b.live} \subseteq [GrWords -> [op : Cpu!CpuOps, to : Int]]
  /\ GrCompiled(b)
  /\ GrStale(b) => GrWindow \subseteq GrWords \ {1} /\ GrApart(b) /\ GrInside(b) /\ GrTold(b)

ASSUME GrBuildsAssumption == \A b \in GrBuilds : GrKeeps(GrBuilt(b))

\* A jump into the window that is not a call is made with the return address
\* of the function that jumps, which is not of the module; one out of it
\* is made with no call open inside, and is not to where the module returns.
GrTailsKeep ==
  gr_frames # << >> /\ ~gr_wild /\ GrStale(gr_build) /\ GrTop.at \in GrWords =>
    LET a  == GrTop.at
        ra == gr_calls[Len(gr_calls)]
        w  == gr_build.live[a]
        t  == Cpu!CpuTarget(gr_reg, w, a)
    IN  /\ (GrTop.how = "code" /\ w.op = "jrx" /\ t \in GrWindow) =>
             Cpu!CpuEffect(gr_reg, gr_build.live[a + 1]).ra = ra /\ ra \notin GrWindow
        /\ (GrTop.how = "interp" /\ w.op \in {"beq", "j", "jrx"} /\ t \notin GrWindow) =>
             t # GrTop.ra /\ ra \notin GrWindow
=============================================================================
