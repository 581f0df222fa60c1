----------------------------- MODULE Discovery ------------------------------
(***************************************************************************)
(* Function discovery of the recompiler (source/src/discovery.rs): a       *)
(* worklist walk over the decoded program that marks the instructions it   *)
(* reaches, collects function entries and follows the register jumps whose *)
(* target it can prove.  What it marks is translated; the rest is data.    *)
(*                                                                         *)
(* An address is a word index; Code is the region, every address outside   *)
(* it (and every unaligned one) is some larger number.  An instruction is  *)
(* its control transfer with the target; the others differ only in what    *)
(* they do to the one register the program jumps through: "set" gives it a *)
(* constant the walk can follow, "load" an unknown value, "cop" an unknown *)
(* value too - a move from a coprocessor, which the decoder does not take  *)
(* apart - and "plain" leaves it alone.  "trap" is syscall and break.      *)
(*                                                                         *)
(* Each turn of the inner loop is an action; a walk has ended when its     *)
(* address is outside the code or marked already.                          *)
(***************************************************************************)
EXTENDS Naturals, SequencesExt

CONSTANTS
  Size,        \* words of the region
  Targets,     \* addresses that jumps, branches and constants may name
  Operations,  \* operations the program is made of
  SeedLists    \* lists of extra entries in the region, in order

Register  == {"set", "load", "cop", "plain"}
Jumps     == {"j", "jal", "branch", "jr", "jalr"}   \* these have a delay slot
Addressed == {"set", "j", "jal", "branch"}

Code == 0..(Size - 1)

ASSUME DiscoveryAssumption ==
  /\ Size \in Nat \ {0}
  /\ Targets \subseteq Nat
  /\ Operations \subseteq Register \cup Jumps \cup {"trap"}
  /\ SeedLists \subseteq Seq(Code)

Instructions ==
  [op : Operations \cap Addressed, to : Targets] \cup
  [op : Operations \ Addressed, to : {0}]

VARIABLES
  program, roots,  \* the decoded words; the entry and the extra entries
  q,               \* addresses to walk from
  a, consts,       \* where the walk is, and the register's value if known
  visited, functions, jr_targets

input  == <<program, roots>>
result == <<visited, functions, jr_targets>>
vars   == <<input, q, a, consts, result>>

-----------------------------------------------------------------------------
Walking == a \in Code \ visited

Done == ~Walking /\ q = << >>

At(ops) == Walking /\ program[a].op \in ops

\* An entry outside the region is replaced by the base.
Init ==
  /\ program \in [Code -> Instructions]
  /\ \E entry \in Code, seeds \in SeedLists :
       /\ q = <<entry>> \o seeds
       /\ roots = {entry} \cup ToSet(seeds)
  /\ a = Size /\ consts = << >>
  /\ visited = {} /\ functions = roots /\ jr_targets = {}

\* Mutant: a new walk starts with the constants of the last one.
TakeKeepsConsts ==
  /\ ~Walking /\ q # << >>
  /\ a' = Head(q) /\ q' = Tail(q)
  /\ UNCHANGED <<input, consts, result>>

\* Mutant: the address stays in the queue.
TakePeeks ==
  /\ ~Walking /\ q # << >>
  /\ a' = Head(q) /\ consts' = << >>
  /\ UNCHANGED <<input, q, result>>

Take ==
  /\ ~Walking /\ q # << >>
  /\ a' = Head(q) /\ q' = Tail(q)
  /\ consts' = << >>
  /\ UNCHANGED <<input, result>>

\* The value the walk takes the register to hold after an instruction.
Track(ins, known) ==
  CASE ins.op = "set"  -> <<ins.to>>
    [] ins.op = "load" -> << >>
    [] OTHER           -> known

Plain ==
  /\ At(Register)
  /\ visited' = visited \cup {a}
  /\ consts' = Track(program[a], consts)
  /\ a' = a + 1
  /\ UNCHANGED <<input, q, functions, jr_targets>>

\* A control transfer ends the walk; the next word is marked with it.
Unit(next) ==
  /\ visited' = visited \cup ({a, a + 1} \cap Code)
  /\ q' = q \o next
  /\ UNCHANGED <<input, a, consts>>

\* Mutant: the code behind an unconditional jump is walked too.
JumpFallsThrough ==
  /\ At({"j"})
  /\ Unit(<<program[a].to, a + 2>>)
  /\ UNCHANGED <<functions, jr_targets>>

Jump ==
  /\ At({"j"})
  /\ Unit(<<program[a].to>>)
  /\ UNCHANGED <<functions, jr_targets>>

Call ==
  /\ At({"jal"})
  /\ functions' = functions \cup ({program[a].to} \cap Code)
  /\ Unit(<<program[a].to, a + 2>>)
  /\ UNCHANGED jr_targets

\* Mutant: only the taken path of a branch is walked.
BranchTaken ==
  /\ At({"branch"})
  /\ Unit(<<program[a].to>>)
  /\ UNCHANGED <<functions, jr_targets>>

Branch ==
  /\ At({"branch"})
  /\ Unit(<<program[a].to, a + 2>>)
  /\ UNCHANGED <<functions, jr_targets>>

Known == {<<a, t>> : t \in ToSet(consts)}

JumpRegister ==
  /\ At({"jr"})
  /\ jr_targets' = jr_targets \cup Known
  /\ Unit(consts)
  /\ UNCHANGED functions

\* The callee becomes a function wherever it is.
CallRegister ==
  /\ At({"jalr"})
  /\ jr_targets' = jr_targets \cup Known
  /\ functions' = functions \cup ToSet(consts)
  /\ Unit(Append(consts, a + 2))

\* The word behind a trap is marked before it is queued.
Trap ==
  /\ At({"trap"})
  /\ Unit(<<a + 1>>)
  /\ UNCHANGED <<functions, jr_targets>>

Next ==
  \/ Take \/ Plain \/ Jump \/ Call \/ Branch \/ JumpRegister \/ CallRegister
  \/ Trap

\* The loop runs until its queue is empty.
Spec == Init /\ [][Next]_vars /\ WF_vars(Next)

-----------------------------------------------------------------------------
(* Where control may go.                                                   *)

\* The addresses executed after instruction b and, for a jump, its delay
\* slot, if a register jump at b may go to through[b].
Follow(b, through) ==
  LET ins == program[b]
  IN  CASE ins.op \in Register \cup {"trap"} -> {b + 1}
        [] ins.op = "j"               -> {ins.to}
        [] ins.op \in {"jal", "branch"} -> {ins.to, b + 2}
        [] ins.op = "jr"              -> through[b]
        [] ins.op = "jalr"            -> through[b] \cup {b + 2}

\* The addresses execution comes to from the roots, slots apart ...
Reached(through) ==
  {x \in Code :
     \A S \in SUBSET Code :
       roots \subseteq S /\ (\A b \in S : Follow(b, through) \cap Code \subseteq S)
         => x \in S}

\* ... and with the delay slots.
Executed(through) ==
  Reached(through) \cup
  ({b + 1 : b \in {c \in Reached(through) : program[c].op \in Jumps}} \cap Code)

\* What the walk recorded, and every constant the program has.
Recorded  == [b \in Code |-> {t \in Targets : <<b, t>> \in jr_targets}]
Constants == {program[c].to : c \in {d \in Code : program[d].op = "set"}}
Anywhere  == [b \in Code |-> Constants]

\* Words that the walk may have marked as the neighbour of a transfer only.
Neighbours == {b + 1 : b \in {c \in visited : program[c].op \notin Register}}

-----------------------------------------------------------------------------
(* Properties.                                                             *)

\* No data is taken for code: a marked word is executed on some path from
\* the entries, if a register may hold any constant of the program.
VisitedIsExecuted == visited \subseteq Executed(Anywhere)

\* When the walk is over, no path leads from marked to unmarked code, except
\* out of a word that was marked as the neighbour of a transfer.
WalkIsClosed ==
  Done => \A b \in visited \ Neighbours : Follow(b, Recorded) \cap Code \subseteq visited

\* Every function entry inside the region is code when the walk is over: for
\* none of them the emitter writes a dispatch case without a body.  (Callees
\* of register calls outside the region are noted as functions too.)
FunctionsHaveCode == Done => functions \cap Code \subseteq visited

\* A recorded jump target is the constant the register was given on the
\* straight line to the jump, with no decoded write of it in between.
JumpsAreProved ==
  \A pair \in jr_targets :
    \E b \in 0..(pair[1] - 1) :
      /\ program[b] = [op |-> "set", to |-> pair[2]]
      /\ \A c \in (b + 1)..(pair[1] - 1) : program[c].op \in {"plain", "cop"}

\* Discovery ends, on every program.
Terminates == <>Done
=============================================================================
