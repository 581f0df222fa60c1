-------------------------- MODULE DiscoveryProofs ---------------------------
(***************************************************************************)
(* Discovery marks only code that can be executed, and is closed when it   *)
(* ends, for every region, every program and every list of entries; and    *)
(* the driver gives it, as entries, all that the image and the annotations *)
(* name, for every image and whatever is folded into it.                   *)
(***************************************************************************)
EXTENDS Discovery, BuildScan, Recursion, TLAPS

LEMMA Members ==
  ASSUME NEW s \in Seq(Nat)
  PROVE  \A x : x \in ToSet(s) <=> \E j \in 1..Len(s) : x = s[j]
BY DEF ToSet

LEMMA Concatenation ==
  ASSUME NEW s \in Seq(Nat), NEW t \in Seq(Nat)
  PROVE  s \o t \in Seq(Nat) /\ ToSet(s \o t) = ToSet(s) \cup ToSet(t)
<1> DEFINE u == s \o t
<1>1. /\ u \in Seq(Nat) /\ Len(u) = Len(s) + Len(t)
      /\ Len(s) \in Nat /\ Len(t) \in Nat
      /\ \A i \in 1..Len(s) : u[i] = s[i]
      /\ \A i \in 1..Len(t) : u[Len(s) + i] = t[i]
  OBVIOUS
<1> HIDE DEF u
<1>2. ASSUME NEW i \in 1..Len(u)
      PROVE  u[i] \in ToSet(s) \cup ToSet(t)
  <2>1. CASE i \in 1..Len(s)
    BY <1>1, <2>1, Members
  <2>2. CASE i \notin 1..Len(s)
    <3>1. i - Len(s) \in 1..Len(t) /\ Len(s) + (i - Len(s)) = i
      BY <1>1, <2>2
    <3>2. u[i] = t[i - Len(s)]
      BY <1>1, <3>1
    <3>3. QED
      BY <3>1, <3>2, Members
  <2>3. QED
    BY <2>1, <2>2
<1>3. ASSUME NEW i \in 1..Len(s)
      PROVE  s[i] \in ToSet(u)
  <2>1. i \in 1..Len(u) /\ u[i] = s[i]
    BY <1>1
  <2>2. QED
    BY <1>1, <2>1, Members, Zenon
<1>4. ASSUME NEW i \in 1..Len(t)
      PROVE  t[i] \in ToSet(u)
  <2>1. u[Len(s) + i] = t[i]
    BY <1>1, Zenon
  <2>2. Len(s) + i \in 1..Len(u)
    BY <1>1, SMTT(30)
  <2>3. QED
    BY <1>1, <2>1, <2>2, Members, Zenon
<1>5. ToSet(u) = ToSet(s) \cup ToSet(t)
  <2>1. /\ \A x : x \in ToSet(u) <=> \E j \in 1..Len(u) : x = u[j]
        /\ \A x : x \in ToSet(s) <=> \E j \in 1..Len(s) : x = s[j]
        /\ \A x : x \in ToSet(t) <=> \E j \in 1..Len(t) : x = t[j]
    BY <1>1, Members
  <2>2. ASSUME NEW x \in ToSet(u)
        PROVE  x \in ToSet(s) \cup ToSet(t)
    BY <1>2, <2>1, Zenon
  <2>3. ASSUME NEW x \in ToSet(s)
        PROVE  x \in ToSet(u)
    BY <1>3, <2>1, Zenon
  <2>4. ASSUME NEW x \in ToSet(t)
        PROVE  x \in ToSet(u)
    BY <1>4, <2>1, Zenon
  <2>5. QED
    BY <2>2, <2>3, <2>4
<1>6. QED
  BY <1>1, <1>5 DEF u

LEMMA Singletons ==
  /\ << >> \in Seq(Nat) /\ ToSet(<< >>) = {}
  /\ \A x \in Nat : <<x>> \in Seq(Nat) /\ ToSet(<<x>>) = {x}
  /\ \A x, y \in Nat : <<x, y>> \in Seq(Nat) /\ ToSet(<<x, y>>) = {x, y}
BY DEF ToSet

LEMMA Dequeue ==
  ASSUME NEW s \in Seq(Nat), s # << >>
  PROVE  /\ Head(s) \in Nat /\ Tail(s) \in Seq(Nat)
         /\ ToSet(s) = {Head(s)} \cup ToSet(Tail(s))
<1>1. /\ s[1] \in Nat /\ Tail(s) \in Seq(Nat) /\ <<s[1]>> \in Seq(Nat)
      /\ s = <<s[1]>> \o Tail(s) /\ Head(s) = s[1]
  OBVIOUS
<1>2. ToSet(<<s[1]>>) = {s[1]}
  BY <1>1, Singletons
<1>3. ToSet(<<s[1]>> \o Tail(s)) = ToSet(<<s[1]>>) \cup ToSet(Tail(s))
  BY <1>1, Concatenation
<1>4. QED
  BY <1>1, <1>2, <1>3

-----------------------------------------------------------------------------
(* Reachability.                                                           *)

LEMMA RootsAreReached ==
  ASSUME NEW through, roots \subseteq Code
  PROVE  roots \subseteq Reached(through)
BY DEF Reached

LEMMA ReachedIsClosed ==
  ASSUME NEW through, NEW b \in Reached(through), NEW x \in Follow(b, through),
         x \in Code
  PROVE  x \in Reached(through)
BY DEF Reached

LEMMA ReachedIsKept ==
  ASSUME UNCHANGED input
  PROVE  /\ Reached(Anywhere)' = Reached(Anywhere)
         /\ Executed(Anywhere)' = Executed(Anywhere)
BY DEF input, Reached, Executed, Follow, Anywhere, Constants, Code

-----------------------------------------------------------------------------
(* The inductive invariant.                                                *)

Typed ==
  /\ program \in [Code -> Instructions] /\ roots \subseteq Code
  /\ q \in Seq(Nat) /\ a \in Nat /\ consts \in Seq(Nat)
  /\ visited \subseteq Code /\ functions \subseteq Nat
  /\ jr_targets \subseteq visited \X Nat

\* The register was given t on the straight line to x.
Given(x, t) ==
  \E b \in 0..(x - 1) :
    /\ program[b] = [op |-> "set", to |-> t]
    /\ \A c \in (b + 1)..(x - 1) : program[c].op \in {"plain", "cop"}

ConstantsAreGiven == \A t \in ToSet(consts) : Given(a, t)

\* Where the walk is and where it will go.
Ahead == {a} \cup ToSet(q)

AheadIsReached ==
  /\ roots \subseteq Reached(Anywhere)
  /\ (Ahead \ visited) \cap Code \subseteq Reached(Anywhere)

Closed ==
  \A b \in visited \ Neighbours : Follow(b, Recorded) \cap Code \subseteq visited \cup Ahead

FunctionsAreAhead == functions \cap Code \subseteq visited \cup Ahead

IInv ==
  /\ Typed
  /\ ConstantsAreGiven /\ JumpsAreProved
  /\ AheadIsReached /\ VisitedIsExecuted
  /\ Closed /\ FunctionsAreAhead

\* The instruction the walk is at.
LEMMA Instruction ==
  ASSUME Typed, Walking
  PROVE  /\ a \in Code /\ a \notin visited
         /\ program[a] = [op |-> program[a].op, to |-> program[a].to]
         /\ program[a].to \in Nat
         /\ program[a].op \in Register \cup Jumps \cup {"trap"}
<1>1. a \in Code /\ a \notin visited
  BY DEF Walking
<1>2. program[a] \in Instructions
  BY <1>1 DEF Typed
<1>3. PICK op \in Operations, to \in Targets \cup {0} : program[a] = [op |-> op, to |-> to]
  BY <1>2 DEF Instructions
<1>4. QED
  BY <1>1, <1>3, DiscoveryAssumption

LEMMA ConstantsExist ==
  ASSUME Typed, Walking, ConstantsAreGiven
  PROVE  ToSet(consts) \subseteq Constants /\ ToSet(consts) \subseteq Nat
<1>1. SUFFICES ASSUME NEW t \in ToSet(consts)
               PROVE  t \in Constants
  BY DEF Typed, ToSet
<1>2. PICK b \in 0..(a - 1) : program[b] = [op |-> "set", to |-> t]
  BY DEF ConstantsAreGiven, Given
<1>3. b \in Code
  BY Instruction, DiscoveryAssumption DEF Code
<1>4. QED
  BY <1>2, <1>3 DEF Constants

-----------------------------------------------------------------------------
(* Every walk keeps it.                                                    *)

LEMMA InitGood ==
  ASSUME Init
  PROVE  IInv
<1>1. PICK entry \in Code, seeds \in SeedLists :
        q = <<entry>> \o seeds /\ roots = {entry} \cup ToSet(seeds)
  BY DEF Init
<1>2. entry \in Nat /\ seeds \in Seq(Code) /\ seeds \in Seq(Nat) /\ Code \subseteq Nat
  BY DiscoveryAssumption DEF Code
<1>3. q \in Seq(Nat) /\ ToSet(q) = roots
  <2>1. <<entry>> \in Seq(Nat) /\ ToSet(<<entry>>) = {entry}
    BY <1>2, Singletons
  <2>2. /\ <<entry>> \o seeds \in Seq(Nat)
        /\ ToSet(<<entry>> \o seeds) = ToSet(<<entry>>) \cup ToSet(seeds)
    BY <1>2, <2>1, Concatenation
  <2>3. QED
    BY <1>1, <2>1, <2>2
<1>4. roots \subseteq Code
  BY <1>1, <1>2 DEF ToSet
<1>5. Typed
  BY <1>2, <1>3, <1>4, DiscoveryAssumption, Singletons DEF Init, Typed
<1>6. ConstantsAreGiven /\ JumpsAreProved
  BY Singletons DEF Init, ConstantsAreGiven, JumpsAreProved
<1>7. roots \subseteq Reached(Anywhere)
  BY <1>4, RootsAreReached
<1>8. a \notin Code
  BY DiscoveryAssumption DEF Init, Code
<1>9. AheadIsReached /\ VisitedIsExecuted
  BY <1>3, <1>7, <1>8 DEF Init, AheadIsReached, VisitedIsExecuted, Ahead
<1>10. Closed /\ FunctionsAreAhead
  BY <1>3 DEF Init, Closed, FunctionsAreAhead, Ahead
<1>11. QED
  BY <1>5, <1>6, <1>9, <1>10 DEF IInv

LEMMA TakeGood ==
  ASSUME IInv, Take
  PROVE  IInv'
<1>1. Typed /\ ConstantsAreGiven /\ JumpsAreProved /\ AheadIsReached
      /\ VisitedIsExecuted /\ Closed /\ FunctionsAreAhead
  BY DEF IInv
<1>2. /\ a' \in Nat /\ q' \in Seq(Nat) /\ Ahead' = ToSet(q)
      /\ UNCHANGED <<input, result>> /\ consts' = << >>
  BY <1>1, Dequeue DEF Take, Typed, Ahead
<1>3. Typed'
  BY <1>1, <1>2, Singletons DEF Typed, input, result, Code
<1>4. ConstantsAreGiven'
  BY <1>2, Singletons DEF ConstantsAreGiven
<1>5. JumpsAreProved'
  BY <1>1, <1>2 DEF JumpsAreProved, input, result
<1>6. AheadIsReached' /\ VisitedIsExecuted'
  BY <1>1, <1>2, ReachedIsKept
     DEF AheadIsReached, VisitedIsExecuted, Ahead, input, result, Code
<1>7. a \in visited \/ a \notin Code
  BY DEF Take, Walking
<1>8. FunctionsAreAhead'
  BY <1>1, <1>2, <1>7 DEF FunctionsAreAhead, Ahead, result, Code
<1>9. Closed'
  <2>1. Neighbours' = Neighbours /\ \A b : Follow(b, Recorded)' = Follow(b, Recorded)
    BY <1>2 DEF Neighbours, Recorded, Follow, input, result, Code
  <2>2. QED
    BY <1>1, <1>2, <1>7, <2>1 DEF Closed, Ahead, result, Code
<1>10. QED
  BY <1>3, <1>4, <1>5, <1>6, <1>8, <1>9 DEF IInv

LEMMA PlainGood ==
  ASSUME IInv, Plain
  PROVE  IInv'
<1>1. Typed /\ ConstantsAreGiven /\ JumpsAreProved /\ AheadIsReached
      /\ VisitedIsExecuted /\ Closed /\ FunctionsAreAhead
  BY DEF IInv
<1>2. Walking /\ program[a].op \in Register
  BY DEF Plain, At
<1>3. /\ a' = a + 1 /\ visited' = visited \cup {a}
      /\ consts' = Track(program[a], consts)
      /\ UNCHANGED <<input, q, functions, jr_targets>>
  BY DEF Plain
<1>4. a \in Code /\ a \in Nat /\ program[a].to \in Nat
  BY <1>1, <1>2, Instruction DEF Typed
<1>5. consts' \in Seq(Nat)
  BY <1>1, <1>3, <1>4, Singletons DEF Track, Typed
<1>6. Typed'
  BY <1>1, <1>3, <1>4, <1>5 DEF Typed, input, Code
<1>7. ConstantsAreGiven'
  <2>1. SUFFICES ASSUME NEW t \in ToSet(consts')
                 PROVE  Given(a + 1, t)
    BY <1>3 DEF ConstantsAreGiven, Given, input
  <2>2. CASE program[a].op = "set"
    <3>1. t = program[a].to
      BY <1>3, <1>4, <2>2, Singletons DEF Track
    <3>2. program[a] = [op |-> "set", to |-> t]
      BY <1>1, <1>2, <2>2, <3>1, Instruction
    <3>3. a \in 0..((a + 1) - 1) /\ (a + 1)..((a + 1) - 1) = {}
      BY <1>4
    <3>4. QED
      BY <3>2, <3>3 DEF Given
  <2>3. CASE program[a].op = "load"
    BY <1>3, <2>3, Singletons DEF Track
  <2>4. CASE program[a].op \in {"plain", "cop"}
    <3>1. PICK b \in 0..(a - 1) :
            /\ program[b] = [op |-> "set", to |-> t]
            /\ \A c \in (b + 1)..(a - 1) : program[c].op \in {"plain", "cop"}
      BY <1>1, <1>3, <2>4 DEF Track, ConstantsAreGiven, Given
    <3>2. b \in 0..((a + 1) - 1) /\ (b + 1)..((a + 1) - 1) = ((b + 1)..(a - 1)) \cup {a}
      BY <1>4
    <3>3. QED
      BY <2>4, <3>1, <3>2 DEF Given
  <2>5. QED
    BY <1>2, <2>2, <2>3, <2>4 DEF Register
<1>8. JumpsAreProved'
  BY <1>1, <1>3 DEF JumpsAreProved, input
<1>9. a \in Reached(Anywhere)
  BY <1>1, <1>2, <1>4 DEF AheadIsReached, Ahead, Walking
<1>10. Follow(a, Anywhere) = {a + 1} /\ Follow(a, Recorded) = {a + 1}
  BY <1>2 DEF Follow, Register
<1>11. AheadIsReached' /\ VisitedIsExecuted'
  <2>1. a + 1 \in Code => a + 1 \in Reached(Anywhere)
    BY <1>9, <1>10, ReachedIsClosed
  <2>2. QED
    BY <1>1, <1>3, <1>9, <2>1, ReachedIsKept
       DEF AheadIsReached, VisitedIsExecuted, Executed, Ahead, input, Code
<1>12. FunctionsAreAhead'
  BY <1>1, <1>3 DEF FunctionsAreAhead, Ahead, Code
<1>13. Closed'
  <2>1. SUFFICES ASSUME NEW b \in visited' \ Neighbours'
                 PROVE  Follow(b, Recorded) \cap Code \subseteq visited' \cup Ahead'
    <3>1. \A b : Follow(b, Recorded)' = Follow(b, Recorded)
      BY <1>3 DEF Follow, Recorded, input, Code
    <3>2. QED
      BY <3>1 DEF Closed, Code
  <2>2. CASE b = a
    BY <1>3, <1>10, <2>2 DEF Ahead
  <2>3. CASE b # a
    <3>1. b \in visited \ Neighbours
      BY <1>3, <2>1, <2>3 DEF Neighbours, input
    <3>2. QED
      BY <1>1, <1>3, <3>1 DEF Closed, Ahead
  <2>4. QED
    BY <2>2, <2>3
<1>14. QED
  BY <1>6, <1>7, <1>8, <1>11, <1>12, <1>13 DEF IInv

\* A control transfer at a keeps the invariant when the queued addresses are
\* where it may go, the functions among them, and the record of its target.
LEMMA UnitGood ==
  ASSUME IInv, Walking, program[a].op \notin Register,
         NEW next \in Seq(Nat), Unit(next),
         functions' \subseteq Nat,
         functions' \cap Code \subseteq functions \cup ToSet(next),
         jr_targets' \subseteq jr_targets \cup Known,
         ToSet(next) \cap Code \subseteq Follow(a, Anywhere),
         Follow(a, Recorded)' \cap Code \subseteq ToSet(next)
  PROVE  IInv'
<1>1. Typed /\ ConstantsAreGiven /\ JumpsAreProved /\ AheadIsReached
      /\ VisitedIsExecuted /\ Closed /\ FunctionsAreAhead
  BY DEF IInv
<1>2. /\ visited' = visited \cup ({a, a + 1} \cap Code)
      /\ q' = q \o next /\ UNCHANGED <<input, a, consts>>
  BY DEF Unit
<1>3. a \in Code /\ a \notin visited /\ a \in Nat
  BY <1>1, Instruction DEF Typed
<1>4. q' \in Seq(Nat) /\ Ahead' = Ahead \cup ToSet(next)
  BY <1>1, <1>2, Concatenation DEF Typed, Ahead
<1>5. ToSet(consts) \subseteq Nat /\ Known = {<<a, t>> : t \in ToSet(consts)}
  BY <1>1, ConstantsExist DEF Known
<1>6. Typed'
  <2>1. visited' \subseteq Code /\ a \in visited'
    BY <1>1, <1>2, <1>3 DEF Typed
  <2>2. jr_targets' \subseteq visited' \X Nat
    BY <1>1, <1>2, <1>5, <2>1 DEF Typed
  <2>3. QED
    BY <1>1, <1>2, <1>4, <2>1, <2>2 DEF Typed, input, Code
<1>7. ConstantsAreGiven'
  BY <1>1, <1>2 DEF ConstantsAreGiven, Given, input
<1>8. JumpsAreProved'
  <2>1. SUFFICES ASSUME NEW pair \in jr_targets'
                 PROVE  Given(pair[1], pair[2])
    BY <1>2 DEF JumpsAreProved, Given, input
  <2>2. CASE pair \in jr_targets
    BY <1>1, <2>2 DEF JumpsAreProved, Given
  <2>3. CASE pair \in Known
    BY <1>1, <1>5, <2>3 DEF ConstantsAreGiven
  <2>4. QED
    BY <2>1, <2>2, <2>3
<1>9. a \in Reached(Anywhere)
  BY <1>1, <1>3 DEF AheadIsReached, Ahead
<1>10. ToSet(next) \cap Code \subseteq Reached(Anywhere)
  BY <1>9, ReachedIsClosed
<1>11. AheadIsReached'
  BY <1>1, <1>2, <1>4, <1>10, ReachedIsKept DEF AheadIsReached, input, Code
<1>12. VisitedIsExecuted'
  <2>1. a + 1 \in Code => a + 1 \in Executed(Anywhere)
    <3>1. CASE program[a].op \in Jumps
      BY <1>9, <3>1 DEF Executed
    <3>2. CASE program[a].op = "trap"
      <4>1. a + 1 \in Follow(a, Anywhere)
        BY <3>2 DEF Follow, Register
      <4>2. QED
        BY <1>9, <4>1, ReachedIsClosed DEF Executed
    <3>3. QED
      BY <1>1, <3>1, <3>2, Instruction
  <2>2. QED
    BY <1>1, <1>2, <1>9, <2>1, ReachedIsKept DEF VisitedIsExecuted, Executed, Code
<1>13. FunctionsAreAhead'
  BY <1>1, <1>2, <1>4 DEF FunctionsAreAhead, Code
<1>14. Closed'
  <2>1. SUFFICES ASSUME NEW b \in visited' \ Neighbours'
                 PROVE  Follow(b, Recorded)' \cap Code \subseteq visited' \cup Ahead'
    BY DEF Closed, Code
  <2>2. CASE b = a
    BY <1>2, <1>4, <2>2 DEF Follow
  <2>3. CASE b # a
    <3>1. a + 1 \in Neighbours'
      BY <1>2, <1>3 DEF Neighbours, input
    <3>2. b \in visited \ Neighbours
      BY <1>2, <2>1, <2>3, <3>1 DEF Neighbours, input
    <3>3. Recorded'[b] \subseteq Recorded[b]
      BY <1>1, <1>5, <2>3, <3>2 DEF Recorded, Code, Typed
    <3>4. Follow(b, Recorded)' \subseteq Follow(b, Recorded)
      BY <1>2, <3>3 DEF Follow, input
    <3>5. QED
      BY <1>1, <1>2, <1>4, <3>2, <3>4 DEF Closed
  <2>4. QED
    BY <2>2, <2>3
<1>15. QED
  BY <1>6, <1>7, <1>8, <1>11, <1>12, <1>13, <1>14 DEF IInv

\* A recorded target of the instruction at a is the register's constant.
LEMMA RecordedHere ==
  ASSUME Typed, Walking, jr_targets' \subseteq jr_targets \cup Known
  PROVE  Recorded'[a] \subseteq ToSet(consts)
BY Instruction DEF Recorded, Known, Typed, Code

LEMMA TransferGood ==
  ASSUME IInv, Jump \/ Call \/ Branch \/ Trap
  PROVE  IInv'
<1>1. Typed /\ Walking
  BY DEF IInv, Jump, Call, Branch, Trap, At
<1>2. a \in Nat /\ program[a].to \in Nat /\ a + 1 \in Nat /\ a + 2 \in Nat
  BY <1>1, Instruction DEF Typed
<1>3. functions \subseteq Nat
  BY <1>1 DEF Typed
<1>4. CASE Jump
  <2>1. /\ program[a].op = "j" /\ Unit(<<program[a].to>>) /\ program' = program
        /\ UNCHANGED <<functions, jr_targets>>
    BY <1>4 DEF Jump, At, Unit, input
  <2>2. /\ program[a].op \notin Register
        /\ Follow(a, Anywhere) = {program[a].to}
        /\ Follow(a, Recorded)' = {program[a].to}
    BY <2>1, <1>4 DEF Follow, Register, Unit
  <2>3. QED
    BY <1>1, <1>2, <1>3, <2>1, <2>2, Singletons, UnitGood, ZenonT(40)
<1>5. CASE Call
  <2>1. /\ program[a].op = "jal" /\ Unit(<<program[a].to, a + 2>>) /\ program' = program
        /\ functions' = functions \cup ({program[a].to} \cap Code)
        /\ UNCHANGED jr_targets
    BY <1>5 DEF Call, At, Unit, input
  <2>2. /\ program[a].op \notin Register
        /\ Follow(a, Anywhere) = {program[a].to, a + 2}
        /\ Follow(a, Recorded)' = {program[a].to, a + 2}
    BY <2>1 DEF Follow, Register, Unit
  <2>3. QED
    BY <1>1, <1>2, <1>3, <2>1, <2>2, Singletons, UnitGood, ZenonT(40)
<1>6. CASE Branch
  <2>1. /\ program[a].op = "branch" /\ Unit(<<program[a].to, a + 2>>) /\ program' = program
        /\ UNCHANGED <<functions, jr_targets>>
    BY <1>6 DEF Branch, At, Unit, input
  <2>2. /\ program[a].op \notin Register
        /\ Follow(a, Anywhere) = {program[a].to, a + 2}
        /\ Follow(a, Recorded)' = {program[a].to, a + 2}
    BY <2>1 DEF Follow, Register, Unit
  <2>3. QED
    BY <1>1, <1>2, <1>3, <2>1, <2>2, Singletons, UnitGood, ZenonT(40)
<1>7. CASE Trap
  <2>1. /\ program[a].op = "trap" /\ Unit(<<a + 1>>) /\ program' = program
        /\ UNCHANGED <<functions, jr_targets>>
    BY <1>7 DEF Trap, At, Unit, input
  <2>2. /\ program[a].op \notin Register
        /\ Follow(a, Anywhere) = {a + 1}
        /\ Follow(a, Recorded)' = {a + 1}
    BY <2>1 DEF Follow, Register, Unit
  <2>3. QED
    BY <1>1, <1>2, <1>3, <2>1, <2>2, Singletons, UnitGood, ZenonT(40)
<1>8. QED
  BY <1>4, <1>5, <1>6, <1>7

LEMMA RegisterTransferGood ==
  ASSUME IInv, JumpRegister \/ CallRegister
  PROVE  IInv'
<1>1. Typed /\ ConstantsAreGiven /\ Walking
  BY DEF IInv, JumpRegister, CallRegister, At
<1>2. /\ a \in Code /\ a \in Nat /\ consts \in Seq(Nat) /\ functions \subseteq Nat
      /\ ToSet(consts) \subseteq Constants /\ ToSet(consts) \subseteq Nat
  BY <1>1, Instruction, ConstantsExist DEF Typed
<1>3. /\ jr_targets' = jr_targets \cup Known
      /\ program' = program
  BY DEF JumpRegister, CallRegister, Unit, input
<1>4. Recorded'[a] \subseteq ToSet(consts) /\ Anywhere[a] = Constants
  BY <1>1, <1>2, <1>3, RecordedHere DEF Anywhere
<1>5. CASE JumpRegister
  <2>1. /\ program[a].op = "jr" /\ Unit(consts) /\ UNCHANGED <<functions, a>>
    BY <1>5 DEF JumpRegister, At, Unit
  <2>2. /\ program[a].op \notin Register
        /\ Follow(a, Anywhere) = Constants
        /\ Follow(a, Recorded)' = Recorded'[a]
    BY <1>3, <1>4, <2>1 DEF Follow, Register
  <2>3. QED
    BY <1>1, <1>2, <1>3, <1>4, <2>1, <2>2, UnitGood
<1>6. CASE CallRegister
  <2>1. /\ program[a].op = "jalr" /\ Unit(Append(consts, a + 2)) /\ a' = a
        /\ functions' = functions \cup ToSet(consts)
    BY <1>6 DEF CallRegister, At, Unit
  <2>2. /\ program[a].op \notin Register
        /\ Follow(a, Anywhere) = Constants \cup {a + 2}
        /\ Follow(a, Recorded)' = Recorded'[a] \cup {a + 2}
    BY <1>3, <1>4, <2>1 DEF Follow, Register
  <2>3. /\ Append(consts, a + 2) \in Seq(Nat)
        /\ ToSet(Append(consts, a + 2)) = ToSet(consts) \cup {a + 2}
    <3>1. a + 2 \in Nat /\ Append(consts, a + 2) = consts \o <<a + 2>>
      BY <1>2
    <3>2. <<a + 2>> \in Seq(Nat) /\ ToSet(<<a + 2>>) = {a + 2}
      BY <3>1, Singletons
    <3>3. QED
      BY <1>2, <3>1, <3>2, Concatenation, ZenonT(40)
  <2>4. QED
    BY <1>1, <1>2, <1>3, <1>4, <2>1, <2>2, <2>3, UnitGood
<1>7. QED
  BY <1>5, <1>6

-----------------------------------------------------------------------------
(* The theorems.                                                           *)

\* Every state of a discovery satisfies the inductive invariant.
THEOREM MarkInvariant == Spec => []IInv
<1>1. Init => IInv
  BY InitGood
<1>2. IInv /\ [Next]_vars => IInv'
  <2>1. SUFFICES ASSUME IInv, [Next]_vars
                 PROVE  IInv'
    OBVIOUS
  <2>2. CASE Next
    BY <2>1, <2>2, TakeGood, PlainGood, TransferGood, RegisterTransferGood DEF Next
  <2>3. CASE UNCHANGED vars
    <3>1. UNCHANGED input /\ UNCHANGED <<q, a, consts>> /\ UNCHANGED result
      BY <2>3 DEF vars
    <3>2. Typed' /\ ConstantsAreGiven' /\ JumpsAreProved'
      <4>1. Typed'
        BY <2>1, <3>1 DEF input, result, IInv, Typed, Code
      <4>2. ConstantsAreGiven'
        BY <2>1, <3>1 DEF input, IInv, ConstantsAreGiven, Given
      <4>3. JumpsAreProved'
        BY <2>1, <3>1 DEF input, result, IInv, JumpsAreProved
      <4>4. QED
        BY <4>1, <4>2, <4>3
    <3>3. AheadIsReached' /\ VisitedIsExecuted'
      BY <2>1, <3>1, ReachedIsKept
         DEF input, result, IInv, AheadIsReached, VisitedIsExecuted, Ahead, Code
    <3>4. \A b : Follow(b, Recorded)' = Follow(b, Recorded)
      BY <3>1 DEF Follow, Recorded, input, result, Code
    <3>5. Closed' /\ FunctionsAreAhead'
      BY <2>1, <3>1, <3>4
         DEF input, result, IInv, Closed, Neighbours, FunctionsAreAhead, Ahead, Code
    <3>6. QED
      BY <3>2, <3>3, <3>5 DEF IInv
  <2>4. QED
    BY <2>1, <2>2, <2>3
<1>3. QED
  BY <1>1, <1>2, PTL DEF Spec

\* discover() takes no data for code: what it marks is executed on some path
\* from the entries, for programs and regions of any size.
THEOREM MarkedIsExecuted == Spec => []VisitedIsExecuted
<1>1. IInv => VisitedIsExecuted
  BY DEF IInv
<1>2. QED
  BY <1>1, MarkInvariant, PTL

\* No path leads out of what discover() decoded when it returns.
THEOREM NothingIsLeft == Spec => []WalkIsClosed
<1>1. IInv => WalkIsClosed
  <2>1. SUFFICES ASSUME IInv, Done
                 PROVE  \A b \in visited \ Neighbours :
                          Follow(b, Recorded) \cap Code \subseteq visited
    BY DEF WalkIsClosed
  <2>2. Ahead \cap Code \subseteq visited
    BY <2>1, Singletons DEF Done, Walking, Ahead
  <2>3. QED
    BY <2>1, <2>2 DEF IInv, Closed
<1>2. QED
  BY <1>1, MarkInvariant, PTL

\* Every function entry in the region has a body when discover() returns.
THEOREM EntriesAreCode == Spec => []FunctionsHaveCode
<1>1. IInv => FunctionsHaveCode
  <2>1. SUFFICES ASSUME IInv, Done
                 PROVE  functions \cap Code \subseteq visited
    BY DEF FunctionsHaveCode
  <2>2. Ahead \cap Code \subseteq visited
    BY <2>1, Singletons DEF Done, Walking, Ahead
  <2>3. QED
    BY <2>1, <2>2 DEF IInv, FunctionsAreAhead
<1>2. QED
  BY <1>1, MarkInvariant, PTL

\* A recorded register jump goes where the straight line to it says.
THEOREM RecordedJumpsAreProved == Spec => []JumpsAreProved
<1>1. IInv => JumpsAreProved
  BY DEF IInv
<1>2. QED
  BY <1>1, MarkInvariant, PTL

-----------------------------------------------------------------------------
(* The scans of the driver.  The registers run in a line are a recursive   *)
(* function of the words; what the scan remembers is the same as far as    *)
(* they are known, and the seeds hold what the words so far have built.    *)

BuSet(w) == w.op \in {"addiu", "ori"}

LEMMA BuRegisters ==
  ASSUME NEW w \in BuInstructions
  PROVE  /\ w.op = "lui" => w.rt \in BuRegs
         /\ BuSet(w) => w.rt \in BuRegs /\ w.rs \in BuRegs
BY DEF BuInstructions, BuSet

LEMMA BuWords ==
  ASSUME NEW k \in 1..Len(bu_image), bu_image \in Seq(BuInstructions)
  PROVE  bu_image[k] \in BuInstructions
OBVIOUS

\* A line of registers that follows the words up to n.
BuLine(f, n) ==
  f = [k \in 0..n |-> IF k = 0 THEN BuUnknown ELSE BuAfter(f[k - 1], bu_image[k], k)]

LEMMA BuLineGoesOn ==
  ASSUME NEW n \in Nat, n # 0, NEW f, BuLine(f, n - 1)
  PROVE  \E g : BuLine(g, n)
<1> DEFINE g == [k \in 0..n |-> IF k = n THEN BuAfter(f[n - 1], bu_image[n], n) ELSE f[k]]
           w == [k \in 0..n |-> IF k = 0 THEN BuUnknown
                                ELSE BuAfter(g[k - 1], bu_image[k], k)]
<1>1. ASSUME NEW k \in 0..n  PROVE g[k] = w[k]
  <2>1. CASE k = 0
    <3>1. 0 \in 0..(n - 1) /\ k # n
      BY <2>1
    <3>2. f[0] = BuUnknown
      BY <3>1 DEF BuLine
    <3> QED  BY <2>1, <3>1, <3>2
  <2>2. CASE k # 0 /\ k = n
    <3>1. k - 1 \in 0..n /\ k - 1 # n
      BY <2>2
    <3>2. g[k - 1] = f[k - 1]
      BY <3>1
    <3> QED  BY <2>2, <3>2
  <2>3. CASE k # 0 /\ k # n
    <3>1. k - 1 \in 0..n /\ k - 1 # n /\ k \in 0..(n - 1)
      BY <2>3
    <3>2. g[k - 1] = f[k - 1] /\ g[k] = f[k]
      BY <2>3, <3>1
    <3>3. f[k] = BuAfter(f[k - 1], bu_image[k], k)
      BY <2>3, <3>1 DEF BuLine
    <3> HIDE DEF g
    <3> QED  BY <2>3, <3>2, <3>3
  <2> QED  BY <2>1, <2>2, <2>3
<1>2. g = [k \in 0..n |-> g[k]] /\ w = [k \in 0..n |-> w[k]]
  OBVIOUS
<1>3. g = w
  <2> HIDE DEF g, w
  <2> QED  BY <1>1, <1>2
<1>4. BuLine(g, n)
  <2> HIDE DEF g
  <2> QED  BY <1>3 DEF BuLine
<1> QED  BY <1>4

LEMMA BuHeldIsLine ==
  ASSUME NEW N \in Nat, N = Len(bu_image)
  PROVE  /\ BuHeld[0] = BuUnknown
         /\ \A k \in 1..N : BuHeld[k] = BuAfter(BuHeld[k - 1], bu_image[k], k)
<1> DEFINE T == {n \in 0..N : \E f : BuLine(f, n)}
           held == CHOOSE f : BuLine(f, N)
<1>1. 0 \in T
  <2> DEFINE f == [k \in 0..0 |-> BuUnknown]
  <2>1. \A k \in 0..0 : k = 0
    OBVIOUS
  <2>2. f[0] = BuUnknown
    OBVIOUS
  <2>3. BuLine(f, 0)
    BY <2>1 DEF BuLine
  <2> HIDE DEF f
  <2> QED  BY <2>3
<1>2. ASSUME NEW n \in 1..N, n - 1 \in T  PROVE n \in T
  <2>1. n \in Nat /\ n # 0 /\ n \in 0..N
    OBVIOUS
  <2>2. PICK f : BuLine(f, n - 1)
    BY <1>2
  <2> QED  BY <2>1, <2>2, BuLineGoesOn
<1>3. N \in T
  <2> HIDE DEF T
  <2>1. Inductive(T, N) /\ N \in 0..N
    BY <1>1, <1>2 DEF Inductive
  <2> QED  BY <2>1, StepsReach
<1>4. BuLine(held, N)
  BY <1>3, Zenon
<1>5. BuHeld = held
  BY DEF BuHeld, BuLine
<1> HIDE DEF held
<1>6. \A k \in 0..N : held[k] = IF k = 0 THEN BuUnknown
                                ELSE BuAfter(held[k - 1], bu_image[k], k)
  BY <1>4 DEF BuLine
<1>7. 0 \in 0..N /\ \A k \in 1..N : k \in 0..N /\ k # 0
  OBVIOUS
<1> QED  BY <1>5, <1>6, <1>7

BuOfRegs(f) == f = [r \in BuRegs |-> f[r]]

LEMMA BuAfterRegs ==
  ASSUME NEW last, BuOfRegs(last), NEW w \in BuInstructions, NEW k,
         NEW now, now = BuAfter(last, w, k)
  PROVE  /\ BuOfRegs(now)
         /\ w.op = "lui" => now[w.rt] = <<(w.imm * BuHalf) % BuSpace, k>>
         /\ BuSet(w) => now[w.rt] = IF BuKnows(last, w, k)
                                    THEN <<BuSum(last[w.rs][1], w), k>> ELSE << >>
         /\ \A r \in BuRegs : (w.op = "lui" \/ BuSet(w)) /\ r # w.rt => now[r] = last[r]
         /\ ~(w.op = "lui" \/ BuSet(w)) => now = last
<1> DEFINE high == <<(w.imm * BuHalf) % BuSpace, k>>
           sum == IF BuKnows(last, w, k) THEN <<BuSum(last[w.rs][1], w), k>> ELSE << >>
<1>1. CASE w.op = "lui"
  <2>1. now = [last EXCEPT ![w.rt] = high] /\ ~BuSet(w) /\ w.rt \in BuRegs
    BY <1>1, BuRegisters DEF BuAfter, BuSet
  <2> HIDE DEF high, sum
  <2>2. /\ BuOfRegs(now) /\ now[w.rt] = high
        /\ \A r \in BuRegs : r # w.rt => now[r] = last[r]
    BY <2>1 DEF BuOfRegs
  <2> QED  BY <1>1, <2>1, <2>2 DEF high
<1>2. CASE BuSet(w)
  <2>1. now = [last EXCEPT ![w.rt] = sum] /\ w.op # "lui" /\ w.rt \in BuRegs
    BY <1>2, BuRegisters DEF BuAfter, BuSet
  <2> HIDE DEF high, sum
  <2>2. /\ BuOfRegs(now) /\ now[w.rt] = sum
        /\ \A r \in BuRegs : r # w.rt => now[r] = last[r]
    BY <2>1 DEF BuOfRegs
  <2> QED  BY <1>2, <2>1, <2>2 DEF sum
<1>3. CASE ~(w.op = "lui" \/ BuSet(w))
  BY <1>3 DEF BuAfter, BuSet
<1> QED  BY <1>1, <1>2, <1>3

LEMMA BuHeldRegs ==
  ASSUME bu_image \in Seq(BuInstructions), NEW k \in 0..Len(bu_image)
  PROVE  BuOfRegs(BuHeld[k])
<1> DEFINE N == Len(bu_image)
           T == {n \in 0..N : BuOfRegs(BuHeld[n])}
<1>0. N \in Nat
  OBVIOUS
<1>1. 0 \in T
  <2>1. BuHeld[0] = BuUnknown /\ 0 \in 0..N
    BY <1>0, BuHeldIsLine
  <2> QED  BY <2>1 DEF BuUnknown, BuOfRegs
<1>2. ASSUME NEW n \in 1..N, n - 1 \in T  PROVE n \in T
  <2>1. BuHeld[n] = BuAfter(BuHeld[n - 1], bu_image[n], n) /\ n \in 0..N
    BY <1>0, BuHeldIsLine
  <2>2. bu_image[n] \in BuInstructions
    BY BuWords
  <2> DEFINE last == BuHeld[n - 1]
  <2>3. BuOfRegs(last)
    BY <1>2
  <2> HIDE DEF last
  <2>4. BuOfRegs(BuAfter(last, bu_image[n], n))
    BY <2>2, <2>3, BuAfterRegs
  <2> QED  BY <2>1, <2>4 DEF last
<1>3. k \in T
  <2> HIDE DEF T
  <2>1. Inductive(T, N)
    BY <1>1, <1>2 DEF Inductive
  <2> HIDE DEF N
  <2> QED  BY <1>0, <2>1, StepsReach DEF N
<1> QED  BY <1>3

-----------------------------------------------------------------------------
(* The invariant.                                                          *)

BuFollows ==
  \A r \in BuRegs :
    BuHeld[bu_i - 1][r] # << >> =>
      /\ r \in DOMAIN bu_lui
      /\ bu_lui[r].v = BuHeld[bu_i - 1][r][1] /\ bu_lui[r].at = BuHeld[bu_i - 1][r][2]

\* What word k has built is a seed.
BuSeeded(k) ==
  LET w == bu_image[k]
  IN  BuSet(w) /\ BuHeld[k][w.rt] # << >> /\ BuInside(BuHeld[k][w.rt][1])
        => BuHeld[k][w.rt][1] \in bu_seeds

BuAll(S) == \A v \in S : BuInside(v) => v \in bu_seeds

BuIInv ==
  /\ bu_in \in BuInputs /\ bu_image \in Seq(BuInstructions)
  /\ bu_phase \in {"built", "bytes", "notes", "done"} => BuAll(BuNamed)
  /\ bu_phase = "built" =>
       /\ bu_i \in 1..(Len(bu_image) + 1) /\ BuFollows
       /\ \A k \in 1..(bu_i - 1) : BuSeeded(k)
  /\ bu_phase \in {"bytes", "notes", "done"} => \A k \in 1..Len(bu_image) : BuSeeded(k)
  /\ bu_phase \in {"notes", "done"} => BuAll(BuSplit)
  /\ bu_phase = "done" => BuAll(DOMAIN bu_in.notes)

\* Folding.
LEMMA BuFoldKeeps ==
  ASSUME NEW image \in Seq(BuInstructions), NEW window,
         window.from \in Nat, window.end \in Nat, window.from <= window.end,
         NEW words \in Seq(BuInstructions), Len(words) = window.end - window.from
  PROVE  BuFold(image, window, words) \in Seq(BuInstructions)
<1> DEFINE n == IF Len(image) < window.end THEN window.end ELSE Len(image)
           f == [i \in 1..n |-> IF i \in (window.from + 1)..window.end THEN words[i - window.from]
                                ELSE IF i > Len(image) THEN BuBlank ELSE image[i]]
<1>1. n \in Nat
  OBVIOUS
<1>2. ASSUME NEW i \in 1..n  PROVE f[i] \in BuInstructions
  <2>1. CASE i \in (window.from + 1)..window.end
    <3>1. i - window.from \in 1..Len(words)
      BY <2>1
    <3>2. words[i - window.from] \in BuInstructions
      BY <3>1
    <3> QED  BY <2>1, <3>2
  <2>2. CASE i \notin (window.from + 1)..window.end /\ i > Len(image)
    <3>1. BuBlank \in BuInstructions
      BY DEF BuBlank, BuInstructions
    <3> QED  BY <2>2, <3>1
  <2>3. CASE i \notin (window.from + 1)..window.end /\ ~(i > Len(image))
    <3>1. i \in 1..Len(image)
      BY <2>3
    <3> QED  BY <2>3, <3>1
  <2> QED  BY <2>1, <2>2, <2>3
<1>3. f \in Seq(BuInstructions)
  <2> HIDE DEF n
  <2>1. \A i \in 1..n : f[i] \in BuInstructions
    BY <1>2
  <2> QED  BY <1>1, <2>1
<1> QED  BY <1>3 DEF BuFold

LEMMA BuWindows ==
  /\ BuOverlay.from \in Nat /\ BuOverlay.end \in Nat /\ BuOverlay.from <= BuOverlay.end
  /\ BuStage2.from \in Nat /\ BuStage2.end \in Nat /\ BuStage2.from <= BuStage2.end
BY BuAssumption

LEMMA BuFoldingKeeps ==
  ASSUME BuIInv, BuFoldOverlay \/ BuFoldStage2
  PROVE  BuIInv'
<1>1. bu_in \in BuInputs /\ bu_image \in Seq(BuInstructions)
  BY DEF BuIInv
<1>2. /\ BuFills(bu_in.over, BuOverlay) /\ BuFills(bu_in.fault, BuOverlay)
      /\ BuFills(bu_in.stage2, BuStage2)
  BY <1>1, BuAssumption
<1>3. CASE BuFoldOverlay
  <2> DEFINE base == BuFold(bu_image, BuOverlay, bu_in.over.words)
  <2>1. BuBaseFits => base \in Seq(BuInstructions)
    BY <1>1, <1>2, BuWindows, BuFoldKeeps DEF BuBaseFits, BuFills
  <2> HIDE DEF base
  <2>2. BuBaseFits /\ BuFaultFits =>
          BuFold(base, BuOverlay, bu_in.fault.words) \in Seq(BuInstructions)
    BY <1>2, <2>1, BuWindows, BuFoldKeeps DEF BuFaultFits, BuFills
  <2>3. /\ bu_image' = IF ~BuBaseFits THEN bu_image
                       ELSE IF BuFaultFits THEN BuFold(base, BuOverlay, bu_in.fault.words)
                       ELSE base
        /\ bu_phase' = "stage2" /\ bu_in' = bu_in
    BY <1>3 DEF BuFoldOverlay, base
  <2>4. bu_image' \in Seq(BuInstructions)
    BY <1>1, <2>1, <2>2, <2>3
  <2> QED  BY <1>1, <2>3, <2>4 DEF BuIInv
<1>4. CASE BuFoldStage2
  <2>1. BuBig(bu_in.stage2) =>
          BuFold(bu_image, BuStage2, bu_in.stage2.words) \in Seq(BuInstructions)
    BY <1>1, <1>2, BuWindows, BuFoldKeeps DEF BuFills
  <2>2. /\ bu_image' = IF BuBig(bu_in.stage2)
                       THEN BuFold(bu_image, BuStage2, bu_in.stage2.words) ELSE bu_image
        /\ bu_phase' = "words" /\ bu_in' = bu_in
    BY <1>4 DEF BuFoldStage2
  <2>3. bu_image' \in Seq(BuInstructions)
    BY <1>1, <2>1, <2>2
  <2> QED  BY <1>1, <2>2, <2>3 DEF BuIInv
<1> QED  BY <1>3, <1>4

\* What reads only the image.
LEMMA BuSameImage ==
  ASSUME bu_image' = bu_image
  PROVE  /\ BuHeld' = BuHeld /\ BuNamed' = BuNamed /\ BuSplit' = BuSplit
         /\ \A v : BuInside(v)' <=> BuInside(v)
BY DEF BuHeld, BuNamed, BuSplit, BuInside, BuEnd

LEMMA BuMoreSeeds ==
  ASSUME bu_image' = bu_image, bu_seeds \subseteq bu_seeds'
  PROVE  /\ \A S : BuAll(S) => BuAll(S)'
         /\ \A k : BuSeeded(k) => BuSeeded(k)'
BY BuSameImage DEF BuAll, BuSeeded

LEMMA BuWordsScanned ==
  ASSUME BuIInv, BuScanWords
  PROVE  BuIInv'
<1>1. /\ bu_in \in BuInputs /\ bu_image \in Seq(BuInstructions)
      /\ bu_in' = bu_in /\ bu_image' = bu_image /\ bu_phase' = "built" /\ bu_i' = 1
      /\ bu_seeds' = {w.to : w \in {v \in ToSet(bu_image) : v.op = "word" /\ BuInside(v.to)}}
  BY DEF BuIInv, BuScanWords
<1>2. BuAll(BuNamed)'
  <2>1. \A v \in BuNamed : BuInside(v) => v \in bu_seeds'
    <3> HIDE DEF BuInside
    <3> QED  BY <1>1 DEF BuNamed
  <2> QED  BY <1>1, <2>1, BuSameImage DEF BuAll
<1>3. BuFollows'
  <2>1. Len(bu_image) \in Nat
    BY <1>1
  <2>2. BuHeld[0] = BuUnknown
    BY <2>1, BuHeldIsLine
  <2>3. \A r \in BuRegs : BuHeld[0][r] = << >>
    BY <2>2 DEF BuUnknown
  <2>4. bu_i' - 1 = 0
    BY <1>1
  <2> QED  BY <1>1, <2>3, <2>4, BuSameImage DEF BuFollows
<1>4. bu_i' \in 1..(Len(bu_image') + 1) /\ \A k \in 1..(bu_i' - 1) : BuSeeded(k)'
  <2>1. Len(bu_image) \in Nat /\ bu_i' - 1 = 0
    BY <1>1
  <2> QED  BY <1>1, <2>1
<1> QED  BY <1>1, <1>2, <1>3, <1>4 DEF BuIInv

\* One word of the scan.
LEMMA BuWordScanned ==
  ASSUME BuIInv, BuScanBuilt, NEW k, k = bu_i
  PROVE  BuFollows' /\ BuSeeded(k)'
<1> DEFINE w == bu_image[k]
           last == BuHeld[k - 1]
           now == BuHeld[k]
           v == BuSum(bu_lui[w.rs].v, w)
<1>1. /\ bu_phase = "built" /\ k \in 1..(Len(bu_image) + 1) /\ k <= Len(bu_image)
      /\ BuFollows /\ bu_image \in Seq(BuInstructions)
  BY DEF BuIInv, BuScanBuilt
<1>2. /\ k \in 1..Len(bu_image) /\ k \in Nat /\ k - 1 \in 0..Len(bu_image)
      /\ Len(bu_image) \in Nat
  BY <1>1
<1>3. /\ bu_lui' = IF w.op = "lui" THEN BuGiven(w.rt, (w.imm * BuHalf) % BuSpace)
                   ELSE IF BuPartner(w) THEN BuGiven(w.rt, v) ELSE bu_lui
      /\ BuPartner(w) /\ BuInside(v) => v \in bu_seeds'
      /\ bu_image' = bu_image /\ bu_i' = k + 1
  BY DEF BuScanBuilt
<1>4. w \in BuInstructions
  BY <1>1, <1>2, BuWords
<1>5. BuOfRegs(last) /\ now = BuAfter(last, w, k)
  BY <1>1, <1>2, BuHeldRegs, BuHeldIsLine
<1>6. /\ w.op = "lui" => now[w.rt] = <<(w.imm * BuHalf) % BuSpace, k>>
      /\ BuSet(w) => now[w.rt] = IF BuKnows(last, w, k)
                                 THEN <<BuSum(last[w.rs][1], w), k>> ELSE << >>
      /\ \A r \in BuRegs : (w.op = "lui" \/ BuSet(w)) /\ r # w.rt => now[r] = last[r]
      /\ ~(w.op = "lui" \/ BuSet(w)) => now = last
  <2> HIDE DEF w, last, now
  <2> QED  BY <1>4, <1>5, BuAfterRegs
<1>7. \A r \in BuRegs :
        last[r] # << >> =>
          r \in DOMAIN bu_lui /\ bu_lui[r].v = last[r][1] /\ bu_lui[r].at = last[r][2]
  BY <1>1 DEF BuFollows
<1>8. ASSUME BuSet(w), now[w.rt] # << >>
      PROVE  BuPartner(w) /\ now[w.rt] = <<v, k>> /\ w.op # "lui"
  <2>1. BuKnows(last, w, k) /\ now[w.rt] = <<BuSum(last[w.rs][1], w), k>> /\ w.op # "lui"
    <3> HIDE DEF now, last, w
    <3> QED  BY <1>6, <1>8 DEF BuSet
  <2>2. w.rs \in BuRegs /\ last[w.rs] # << >> /\ k - last[w.rs][2] <= BuNear
        /\ w.rt \notin {BuZero, BuSp}
    BY <1>4, <1>8, <2>1, BuRegisters DEF BuKnows
  <2>3. w.rs \in DOMAIN bu_lui /\ bu_lui[w.rs].v = last[w.rs][1]
        /\ bu_lui[w.rs].at = last[w.rs][2]
    <3> HIDE DEF last, w
    <3> QED  BY <1>7, <2>2
  <2>4. BuPartner(w)
    BY <1>8, <2>2, <2>3 DEF BuPartner, BuSet
  <2> QED  BY <2>1, <2>3, <2>4
<1>9. \A r : BuHeld'[r] = BuHeld[r] /\ bu_i' - 1 = k
  BY <1>2, <1>3, BuSameImage
<1>10. ASSUME NEW r \in BuRegs, now[r] # << >>
       PROVE  r \in DOMAIN bu_lui' /\ bu_lui'[r].v = now[r][1] /\ bu_lui'[r].at = now[r][2]
  <2>1. CASE w.op = "lui"
    <3> DEFINE high == (w.imm * BuHalf) % BuSpace
    <3>1. bu_lui' = BuNoted(bu_lui, w.rt, high, k)
      BY <1>3, <2>1 DEF BuGiven
    <3>2. /\ DOMAIN bu_lui' = DOMAIN bu_lui \cup {w.rt}
          /\ bu_lui'[w.rt].v = high /\ bu_lui'[w.rt].at = k
          /\ \A reg \in DOMAIN bu_lui : reg # w.rt => bu_lui'[reg] = bu_lui[reg]
      <4> HIDE DEF high, w
      <4> QED  BY <3>1 DEF BuNoted
    <3>3. now[w.rt] = <<high, k>>
      BY <1>6, <2>1
    <3>4. CASE r = w.rt
      <4> HIDE DEF high, w, now
      <4> QED  BY <3>2, <3>3, <3>4
    <3>5. CASE r # w.rt
      <4>1. now[r] = last[r]
        BY <1>6, <2>1, <3>5
      <4> HIDE DEF high, w, now, last
      <4> QED  BY <1>7, <1>10, <3>2, <3>5, <4>1
    <3> QED  BY <3>4, <3>5
  <2>2. CASE w.op # "lui" /\ BuPartner(w)
    <3>1. bu_lui' = BuNoted(bu_lui, w.rt, v, k) /\ BuSet(w)
      BY <1>3, <2>2 DEF BuGiven, BuPartner, BuSet
    <3>2. /\ DOMAIN bu_lui' = DOMAIN bu_lui \cup {w.rt}
          /\ bu_lui'[w.rt].v = v /\ bu_lui'[w.rt].at = k
          /\ \A reg \in DOMAIN bu_lui : reg # w.rt => bu_lui'[reg] = bu_lui[reg]
      <4> HIDE DEF v, w
      <4> QED  BY <3>1 DEF BuNoted
    <3>3. CASE r = w.rt
      <4>1. now[w.rt] = <<v, k>>
        BY <1>8, <1>10, <3>1, <3>3
      <4> HIDE DEF v, w, now
      <4> QED  BY <3>2, <3>3, <4>1
    <3>4. CASE r # w.rt
      <4>1. now[r] = last[r]
        BY <1>6, <3>1, <3>4
      <4> HIDE DEF v, w, now, last
      <4> QED  BY <1>7, <1>10, <3>2, <3>4, <4>1
    <3> QED  BY <3>3, <3>4
  <2>3. CASE w.op # "lui" /\ ~BuPartner(w)
    <3>1. bu_lui' = bu_lui
      BY <1>3, <2>3
    <3>2. now[r] = last[r]
      <4>1. CASE BuSet(w)
        <5>1. r # w.rt
          BY <1>8, <1>10, <2>3, <4>1
        <5> QED  BY <1>6, <4>1, <5>1
      <4>2. CASE ~BuSet(w)
        <5>1. now = last
          BY <1>6, <2>3, <4>2
        <5> QED  BY <5>1
      <4> QED  BY <4>1, <4>2
    <3> HIDE DEF now, last
    <3> QED  BY <1>7, <1>10, <3>1, <3>2
  <2> QED  BY <2>1, <2>2, <2>3
<1>11. BuFollows'
  <2> HIDE DEF now
  <2>1. \A r \in BuRegs : BuHeld'[bu_i' - 1][r] = now[r]
    BY <1>9 DEF now
  <2> QED  BY <1>10, <2>1 DEF BuFollows
<1>12. BuSeeded(k)'
  <2>1. ASSUME BuSet(w), now[w.rt] # << >>, BuInside(now[w.rt][1])
        PROVE  now[w.rt][1] \in bu_seeds'
    <3>1. BuPartner(w) /\ now[w.rt] = <<v, k>>
      BY <1>8, <2>1
    <3>2. now[w.rt][1] = v
      <4> HIDE DEF v, now, w
      <4> QED  BY <3>1
    <3> HIDE DEF v, now, w
    <3> QED  BY <1>3, <2>1, <3>1, <3>2
  <2> QED  BY <1>3, <2>1, BuSameImage DEF BuSeeded
<1> QED  BY <1>11, <1>12

LEMMA BuBuiltScannedOne ==
  ASSUME BuIInv, BuScanBuilt
  PROVE  BuIInv'
<1> DEFINE k == bu_i
<1>1. /\ bu_phase = "built" /\ bu_in \in BuInputs /\ bu_image \in Seq(BuInstructions)
      /\ bu_i \in 1..(Len(bu_image) + 1) /\ bu_i <= Len(bu_image)
      /\ BuAll(BuNamed) /\ \A n \in 1..(bu_i - 1) : BuSeeded(n)
  BY DEF BuIInv, BuScanBuilt
<1>2. /\ bu_in' = bu_in /\ bu_image' = bu_image /\ bu_phase' = bu_phase
      /\ bu_i' = bu_i + 1 /\ bu_seeds \subseteq bu_seeds'
  BY DEF BuScanBuilt
<1>3. BuFollows' /\ \A n : n = bu_i => BuSeeded(n)'
  BY BuWordScanned
<1>4. BuAll(BuNamed)'
  BY <1>1, <1>2, BuMoreSeeds, BuSameImage DEF BuAll
<1>5. ASSUME NEW n \in 1..(bu_i' - 1)  PROVE BuSeeded(n)'
  <2>1. n \in 1..(bu_i - 1) \/ n = bu_i
    BY <1>1, <1>2
  <2>2. CASE n \in 1..(bu_i - 1)
    BY <1>1, <1>2, <2>2, BuMoreSeeds
  <2> QED  BY <1>3, <2>1, <2>2
<1>6. bu_i' \in 1..(Len(bu_image') + 1)
  BY <1>1, <1>2
<1>7. \A n \in 1..(bu_i' - 1) : BuSeeded(n)'
  BY <1>5
<1> QED  BY <1>1, <1>2, <1>3, <1>4, <1>6, <1>7 DEF BuIInv

LEMMA BuScanEnds ==
  ASSUME BuIInv, BuBuiltScanned
  PROVE  BuIInv'
<1>1. /\ bu_in \in BuInputs /\ bu_image \in Seq(BuInstructions)
      /\ bu_i \in 1..(Len(bu_image) + 1) /\ bu_i > Len(bu_image)
      /\ BuAll(BuNamed) /\ \A n \in 1..(bu_i - 1) : BuSeeded(n)
  BY DEF BuIInv, BuBuiltScanned
<1>2. /\ bu_in' = bu_in /\ bu_image' = bu_image /\ bu_phase' = "bytes" /\ bu_seeds' = bu_seeds
  BY DEF BuBuiltScanned
<1>3. bu_i - 1 = Len(bu_image)
  BY <1>1
<1>4. \A n \in 1..Len(bu_image') : BuSeeded(n)'
  BY <1>1, <1>2, <1>3, BuMoreSeeds
<1>5. BuAll(BuNamed)'
  BY <1>1, <1>2, BuMoreSeeds, BuSameImage DEF BuAll
<1> QED  BY <1>1, <1>2, <1>4, <1>5 DEF BuIInv

LEMMA BuBytesScanned ==
  ASSUME BuIInv, BuScanBytes
  PROVE  BuIInv'
<1> DEFINE new == {bu_image[i].to : i \in {j \in 1..(Len(bu_image) - 1) :
                     /\ bu_image[j].op = "left"
                     /\ bu_image[j + 1] = [op |-> "right", to |-> bu_image[j].to]
                     /\ BuInside(bu_image[j].to)}}
<1>1. /\ bu_in \in BuInputs /\ bu_image \in Seq(BuInstructions)
      /\ BuAll(BuNamed) /\ \A n \in 1..Len(bu_image) : BuSeeded(n)
  BY DEF BuIInv, BuScanBytes
<1>2. /\ bu_in' = bu_in /\ bu_image' = bu_image /\ bu_phase' = "notes"
      /\ bu_seeds' = bu_seeds \cup new
  BY DEF BuScanBytes
<1>3. \A v \in BuSplit : BuInside(v) => v \in new
  <2> HIDE DEF BuInside
  <2> QED  BY DEF BuSplit
<1> HIDE DEF new
<1>4. BuAll(BuSplit)'
  BY <1>2, <1>3, BuSameImage DEF BuAll
<1>5. bu_seeds \subseteq bu_seeds'
  BY <1>2
<1>6. \A n \in 1..Len(bu_image') : BuSeeded(n)'
  BY <1>1, <1>2, <1>5, BuMoreSeeds
<1>7. BuAll(BuNamed)'
  BY <1>1, <1>2, <1>5, BuMoreSeeds, BuSameImage DEF BuAll
<1> QED  BY <1>1, <1>2, <1>4, <1>6, <1>7 DEF BuIInv

LEMMA BuNamesRead ==
  ASSUME BuIInv, BuReadNames
  PROVE  BuIInv'
<1> DEFINE new == {v \in DOMAIN bu_in.notes : BuInside(v)}
<1>1. /\ bu_in \in BuInputs /\ bu_image \in Seq(BuInstructions)
      /\ BuAll(BuNamed) /\ BuAll(BuSplit) /\ \A n \in 1..Len(bu_image) : BuSeeded(n)
  BY DEF BuIInv, BuReadNames
<1>2. /\ bu_in' = bu_in /\ bu_image' = bu_image /\ bu_phase' = "done"
      /\ bu_seeds' = bu_seeds \cup new
  BY DEF BuReadNames
<1>3. BuAll(DOMAIN bu_in.notes)'
  BY <1>2, BuSameImage DEF BuAll
<1> HIDE DEF new
<1>5. bu_seeds \subseteq bu_seeds'
  BY <1>2
<1>6. \A n \in 1..Len(bu_image') : BuSeeded(n)'
  BY <1>1, <1>2, <1>5, BuMoreSeeds
<1>7. BuAll(BuNamed)' /\ BuAll(BuSplit)'
  BY <1>1, <1>2, <1>5, BuMoreSeeds, BuSameImage DEF BuAll
<1> QED  BY <1>1, <1>2, <1>3, <1>6, <1>7 DEF BuIInv

\* At the end of the scans every entry the image or the annotations name is a
\* seed of the walk (main.rs:589-702): for executables and windows of any size,
\* whichever captures are folded in, and however far the code that builds an
\* address carries it from register to register.
THEOREM EntriesAreFound == BuSpec => []BuEntriesAreSeeds
<1>1. BuInit => BuIInv
  BY BuAssumption DEF BuInit, BuIInv
<1>2. BuIInv /\ [BuNext]_bu_vars => BuIInv'
  <2> SUFFICES ASSUME BuIInv, [BuNext]_bu_vars  PROVE BuIInv'
    OBVIOUS
  <2>1. CASE UNCHANGED bu_vars
    <3>1. UNCHANGED <<bu_in, bu_phase, bu_image, bu_i, bu_lui, bu_seeds>>
      BY <2>1 DEF bu_vars
    <3> QED
      BY <3>1, BuSameImage DEF BuIInv, BuAll, BuFollows, BuSeeded
  <2> QED  BY <2>1, BuFoldingKeeps, BuWordsScanned, BuBuiltScannedOne, BuScanEnds,
             BuBytesScanned, BuNamesRead DEF BuNext
<1>3. BuIInv => BuEntriesAreSeeds
  <2> SUFFICES ASSUME BuIInv, bu_phase = "done",
                      NEW v \in BuBuilt \cup BuNamed \cup BuSplit \cup DOMAIN bu_in.notes,
                      v % BuWord = 0 /\ v >= BuBase /\ v < BuBase + Len(bu_image) * BuWord
               PROVE  v \in bu_seeds
    BY DEF BuEntriesAreSeeds
  <2>1. BuInside(v)
    BY DEF BuInside, BuEnd
  <2>2. /\ BuAll(BuNamed) /\ BuAll(BuSplit) /\ BuAll(DOMAIN bu_in.notes)
        /\ \A n \in 1..Len(bu_image) : BuSeeded(n)
    BY DEF BuIInv
  <2>3. CASE v \in BuBuilt
    <3>1. PICK k \in 1..Len(bu_image) :
            /\ BuSet(bu_image[k]) /\ BuHeld[k][bu_image[k].rt] # << >>
            /\ v = BuHeld[k][bu_image[k].rt][1]
      BY <2>3 DEF BuBuilt, BuSet
    <3> QED  BY <2>1, <2>2, <3>1 DEF BuSeeded
  <2>4. CASE v \in BuNamed \cup BuSplit \cup DOMAIN bu_in.notes
    <3> HIDE DEF BuInside
    <3> QED  BY <2>1, <2>2, <2>4 DEF BuAll
  <2> QED  BY <2>3, <2>4
<1> QED  BY <1>1, <1>2, <1>3, PTL DEF BuSpec
=============================================================================
