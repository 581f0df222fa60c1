------------------------------ MODULE GuestCpu ------------------------------
(***************************************************************************)
(* What a guest program means: the R3000 with its branch delay slots, over *)
(* the instructions that the recompiler's control flow tells apart.  One   *)
(* step executes one instruction, or a jump together with the instruction  *)
(* in its delay slot: the target, the decision and the link of a jump are  *)
(* those before the slot.                                                  *)
(*                                                                         *)
(* The registers are ra (r31), one other register x, which branches test   *)
(* and register jumps go through, and the return addresses that functions  *)
(* have saved on their stack.  Programs are held to the conventions a      *)
(* compiler keeps; one that breaks them makes the machine wild, and then   *)
(* nothing is promised: a return goes where its call came from, a register *)
(* jump goes to the entry of a function, control stays in the program, and *)
(* every word that is reached is an instruction.                           *)
(*                                                                         *)
(* This is the specification that GuestRun implements; the instruction     *)
(* classes are those of source/src/decoder.rs and the conventions those    *)
(* that the header of source/src/emitter.rs names.                         *)
(***************************************************************************)
EXTENDS Integers, Sequences

CONSTANT
  CpuLast          \* the last word of the program; the first is 1

VARIABLES
  cpu_code,        \* the program in memory: a word is [op, to]
  cpu_entries,     \* the functions that a register may hold
  cpu_pc,          \* CpuLast + 1 when the program has returned
  cpu_reg,         \* the registers
  cpu_calls,       \* the return addresses of the calls under way
  cpu_wild         \* a convention has been broken

cpu_vars == <<cpu_code, cpu_entries, cpu_pc, cpu_reg, cpu_calls, cpu_wild>>

CpuPlain    == {"plain", "set", "save", "load"}
CpuBranches == {"beq", "bal"}
CpuLinking  == {"bal", "jal", "jalrx"}
CpuJumps    == {"j", "jal", "jr", "jrx", "jalrx"}
CpuSlotted  == CpuBranches \cup CpuJumps
CpuOps      == CpuPlain \cup CpuSlotted \cup {"trap", "bad"}

\* What an instruction that is not a jump does to the registers.
CpuEffect(reg, w) ==
  CASE w.op = "set"  -> [reg EXCEPT !.x = w.to]
    [] w.op = "save" -> [reg EXCEPT !.stk = Append(@, reg.ra)]
    [] w.op = "load" /\ reg.stk # << >> ->
         [reg EXCEPT !.ra = reg.stk[Len(reg.stk)],
                     !.stk = SubSeq(@, 1, Len(@) - 1)]
    [] OTHER -> reg

CpuLink(reg, w, a) ==
  IF w.op \in CpuLinking THEN [reg EXCEPT !.ra = a + 2] ELSE reg

\* Where a jump at a goes.
CpuTarget(reg, w, a) ==
  CASE w.op \in CpuBranches -> IF reg.x = 0 THEN w.to ELSE a + 2
    [] w.op \in {"j", "jal"} -> w.to
    [] w.op = "jr" -> reg.ra
    [] OTHER -> reg.x

CpuCallsAfter(calls, reg, w, a) ==
  CASE w.op \in {"jal", "jalrx"} \/ (w.op = "bal" /\ reg.x = 0) -> Append(calls, a + 2)
    [] w.op = "jr" /\ calls # << >> -> SubSeq(calls, 1, Len(calls) - 1)
    [] OTHER -> calls

\* The instruction at a breaks a convention.
CpuBreaks(calls, reg, w, a) ==
  \/ w.op = "bad"
  \/ w.op = "jr" /\ (calls = << >> \/ reg.ra # calls[Len(calls)])
  \/ w.op \in {"jrx", "jalrx"} /\ reg.x \notin cpu_entries
  \/ w.op \notin CpuSlotted /\ a = CpuLast
  \/ w.op \in CpuSlotted \ {"jr"} /\ CpuTarget(reg, w, a) \notin 1..CpuLast

CpuInit ==
  /\ cpu_pc = 1
  /\ cpu_reg.ra = CpuLast + 1 /\ cpu_reg.stk = << >>
  /\ cpu_calls = <<CpuLast + 1>>
  /\ ~cpu_wild

\* One instruction that is not a jump.
CpuPlainStep(w) ==
  /\ w.op \notin CpuSlotted
  /\ cpu_pc' = cpu_pc + 1
  /\ cpu_reg' = CpuEffect(cpu_reg, w)

\* A jump with its delay slot.
CpuJumpStep(w) ==
  /\ w.op \in CpuSlotted
  /\ cpu_pc' = CpuTarget(cpu_reg, w, cpu_pc)
  /\ cpu_reg' = CpuEffect(CpuLink(cpu_reg, w, cpu_pc), cpu_code[cpu_pc + 1])

CpuStep ==
  /\ ~cpu_wild /\ cpu_pc \in 1..CpuLast
  /\ LET w == cpu_code[cpu_pc]
     IN IF CpuBreaks(cpu_calls, cpu_reg, w, cpu_pc) THEN cpu_wild'
        ELSE /\ ~cpu_wild'
             /\ CpuPlainStep(w) \/ CpuJumpStep(w)
             /\ cpu_calls' = CpuCallsAfter(cpu_calls, cpu_reg, w, cpu_pc)
  /\ UNCHANGED <<cpu_code, cpu_entries>>

CpuWild == cpu_wild /\ cpu_wild' /\ UNCHANGED <<cpu_code, cpu_entries>>

CpuSpec == CpuInit /\ [][CpuStep \/ CpuWild]_cpu_vars
=============================================================================
