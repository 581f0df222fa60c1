----------------------------- MODULE Unpacking ------------------------------
(***************************************************************************)
(* The disc stage beside the game: the files that the recompiler unpacks   *)
(* while it translates are to be those that the game's decompressor makes  *)
(* of the same bytes when it runs.  The stage decodes bytes, the model of  *)
(* the decompressor takes tokens; here the tokens are read off the bytes.  *)
(***************************************************************************)
EXTENDS DiscStage, Lzss

\* The place the game unpacks to holds all that the stage unpacks.
ASSUME UnpackingAssumption == StMaxOut <= LzMemory

StWeights == <<1, 2, 4, 8, 16, 32, 64, 128>>

\* Where token k lies, by the one before it: behind it, and behind a control
\* byte of its own when it is the first of eight.
StNextToken(raw, last, k) ==
  LET end  == last.place + last.bytes
      head == k % 8 = 1
      ctrl == IF head THEN end ELSE last.ctrl
      bit  == IF ctrl > Len(raw) THEN 0
              ELSE (raw[ctrl] \div StWeights[((k - 1) % 8) + 1]) % 2
  IN  [ctrl |-> ctrl, place |-> IF head THEN end + 1 ELSE end, bytes |-> bit + 1]

StPlan(raw) ==
  LET plan[k \in 0..Len(raw)] ==
        IF k = 0 THEN [ctrl |-> 5, place |-> 4, bytes |-> 1]
        ELSE StNextToken(raw, plan[k - 1], k)
  IN  plan

StToken(raw, t) ==
  IF t.bytes = 1 THEN [match |-> FALSE, byte |-> raw[t.place]]
  ELSE [match |-> TRUE, off |-> (raw[t.place + 1] % 16) * 256 + raw[t.place],
        len |-> raw[t.place + 1] \div 16 + 3]

\* The tokens of a stream that are whole, read off its bytes without
\* unpacking anything.
StTokens(raw) ==
  LET plan == StPlan(raw)
      n    == CHOOSE n \in 0..Len(raw) :
                \A k \in 1..Len(raw) : k <= n <=> plan[k].place + plan[k].bytes <= Len(raw) + 1
  IN  [k \in 1..n |-> StToken(raw, plan[k])]

-----------------------------------------------------------------------------
(* Properties.                                                             *)

StGame(raw, size) == LzDecode(StTokens(raw), size, [a \in LzPlaces |-> 0])

\* A stream that gives size bytes to the stage gives them to the game.
StAgrees(raw) ==
  LET size == IF Len(raw) < 4 THEN 0 ELSE StHeader(raw)
      used == StDecodeUsed(raw)
      tol  == StDecodeTolerant(raw)
      game == StGame(raw, size)
  IN  StPlausible(size) =>
        /\ used.ok <=> game.ok /\ game.pos = size
        /\ used.ok => /\ \A p \in 1..size : used.out[p] = game.mem[p - 1]
                      /\ tol.out = used.out
        /\ tol.ok /\ ~used.ok => ~game.ok

\* What the stage unpacks from the disc is what the game's decompressor makes
\* of the same bytes, and it gives up on the same streams; the forgiving
\* decoder differs only where a match reaches back before the output
\* (main.rs:48-165, runtime.c:7078-7169).
StUnpacksAsTheGame == StAgrees(StUpTo(st_raw, StWindow))
=============================================================================
