-------------------------------- MODULE Lzss --------------------------------
(***************************************************************************)
(* The native LZSS decoder that stands in for the kernel's decompressor,   *)
(* xenolift_lzss_hle, and the guard on byte stores that steps aside for it  *)
(* (source/runtime/runtime.c).  A stream is its tokens, a literal byte or a *)
(* match (offset back, length); the control byte in front of every eight   *)
(* says only which is which.  The window the decoder may read ends where   *)
(* the stream ends.  Memory is the bytes from the destination on, which is *)
(* word-aligned.  The guard R518 drops a store of the byte 3 into the last *)
(* byte of a word, taken for a mangled pointer; the stores modelled here   *)
(* are none of the movie's or the module loader's, which are exempt too.   *)
(***************************************************************************)
EXTENDS Integers, Sequences

CONSTANTS
  LzBytes,      \* the byte values, 3 the one the guard takes for a mangle
  LzStreams,    \* the compressed streams
  LzMaxSize,    \* the largest size the decoder takes (0x800000)
  LzMemory,     \* bytes of memory from the destination on
  LzMaxRuns     \* bound: decodes and guest stores

\* A match, or a literal byte.
LzTokens ==
  [match : {TRUE}, off : Nat, len : Nat] \cup [match : {FALSE}, byte : LzBytes]

ASSUME LzAssumption ==
  /\ LzStreams \subseteq Seq(LzTokens)
  /\ LzBytes \subseteq Nat /\ LzMaxSize \in Nat /\ LzMemory \in Nat
  /\ LzMaxSize <= LzMemory /\ LzMaxRuns \in Nat

VARIABLES
  g_r606_in_hle,  \* set while the decoder runs
  lz_mem,         \* memory from the destination on
  lz_was,         \* what it held before the last call
  lz_call,        \* the last call: stream, size, result
  lz_runs

lz_vars == <<g_r606_in_hle, lz_mem, lz_was, lz_call, lz_runs>>

LzFailed == -1
LzPlaces == 0..(LzMemory - 1)

-----------------------------------------------------------------------------
\* Mutant of LzStore: the guard does not step aside.
LzStoreGuarded(m, a, b, in_hle) == IF b = 3 /\ a % 4 = 3 THEN m ELSE [m EXCEPT ![a] = b]

\* R518, R606: what a store of byte b at place a leaves in memory m.
LzStore(m, a, b, in_hle) ==
  IF b = 3 /\ a % 4 = 3 /\ ~in_hle THEN m ELSE [m EXCEPT ![a] = b]

\* A match copies forward one byte at a time, so it may read what it has
\* just written; it ends with the output.
LzCopy(mem, pos, from, n) ==
  LET copy[k \in 0..n] ==
        IF k = 0 THEN mem
        ELSE LzStore(copy[k - 1], pos + k - 1, copy[k - 1][from + k - 1], TRUE)
  IN  copy[n]

LzMatch(s, token, size) ==
  LET from == s.pos - token.off
      n    == IF s.pos + token.len <= size THEN token.len ELSE size - s.pos
  IN  IF from < 0 THEN [s EXCEPT !.ok = FALSE]
      ELSE [s EXCEPT !.pos = @ + n, !.mem = LzCopy(s.mem, s.pos, from, n)]

LzLiteral(s, token) ==
  [s EXCEPT !.pos = @ + 1, !.mem = LzStore(@, s.pos, token.byte, TRUE)]

LzToken(s, token, size) ==
  IF ~s.ok \/ s.pos = size THEN s
  ELSE IF token.match THEN LzMatch(s, token, size) ELSE LzLiteral(s, token)

LzDecode(stream, size, mem) ==
  LET run[n \in 0..Len(stream)] ==
        IF n = 0 THEN [pos |-> 0, mem |-> mem, ok |-> TRUE]
        ELSE LzToken(run[n - 1], stream[n], size)
  IN  run[Len(stream)]

-----------------------------------------------------------------------------
LzInit ==
  /\ g_r606_in_hle = FALSE
  /\ lz_mem = [a \in LzPlaces |-> 0] /\ lz_was = lz_mem
  /\ lz_call = [op |-> "none", stream |-> << >>, size |-> 0, v |-> 0]
  /\ lz_runs = 0

\* The flag is lowered at the last return only, not at those for a size out
\* of range, a stream that ends early or a match from before the output.
LzRun(stream, size) ==
  LET end  == LzDecode(stream, size, lz_mem)
      done == size \in 1..LzMaxSize /\ end.ok /\ end.pos = size
  IN  /\ lz_runs < LzMaxRuns /\ lz_runs' = lz_runs + 1
      /\ g_r606_in_hle' = ~done
      /\ lz_was' = lz_mem
      /\ lz_mem' = IF size \in 1..LzMaxSize THEN end.mem ELSE lz_mem
      /\ lz_call' = [op |-> "decode", stream |-> stream, size |-> size,
                     v |-> IF done THEN size ELSE LzFailed]

\* The guest stores a byte (SB).
LzGuestStore(a, b) ==
  /\ lz_runs < LzMaxRuns /\ lz_runs' = lz_runs + 1
  /\ lz_was' = lz_mem
  /\ lz_mem' = LzStore(lz_mem, a, b, g_r606_in_hle)
  /\ lz_call' = [op |-> "store", stream |-> << >>, size |-> 0, v |-> 0]
  /\ UNCHANGED g_r606_in_hle

LzNext ==
  \/ \E stream \in LzStreams, size \in 0..(LzMaxSize + 1) : LzRun(stream, size)
  \/ \E a \in LzPlaces, b \in LzBytes : LzGuestStore(a, b)

LzSpec == LzInit /\ [][LzNext]_lz_vars

-----------------------------------------------------------------------------
(* Properties.                                                             *)

LzTypeOK ==
  /\ g_r606_in_hle \in BOOLEAN
  /\ lz_mem \in [LzPlaces -> LzBytes \cup {0}]
  /\ lz_call.v \in -1..LzMaxSize

\* How far the tokens of a stream reach.
LzLength(token) == IF token.match THEN token.len ELSE 1

LzEnds(stream) ==
  LET ends[n \in 0..Len(stream)] ==
        IF n = 0 THEN 0
        ELSE ends[n - 1] + LzLength(stream[n])
  IN  ends

\* What the output of a stream is, byte by byte and without a copy: the byte
\* at place p comes from the token that covers it, a match repeating the
\* bytes of its offset.
LzCovers(stream, p) ==
  LET ends == LzEnds(stream)
      n    == CHOOSE n \in 1..Len(stream) : ends[n - 1] <= p /\ p < ends[n]
  IN  [token |-> stream[n], at |-> ends[n - 1]]

LzMeaning(stream, size, mem) ==
  LET out[p \in 0..(size - 1)] ==
        LET c == LzCovers(stream, p)
        IN  IF ~c.token.match THEN c.token.byte
            ELSE IF c.token.off = 0 THEN mem[p]
            ELSE out[(c.at - c.token.off) + ((p - c.at) % c.token.off)]
  IN  out

\* A decode that returns the size has put the meaning of the stream into
\* memory, through overlapping matches, a match cut off by the end, bytes
\* the guard would drop, and after decodes that failed half way; behind the
\* output nothing has changed (runtime.c:7068-7169).
LzDecodes ==
  lz_call.op = "decode" /\ lz_call.v # LzFailed =>
    \A a \in LzPlaces :
      lz_mem[a] = IF a < lz_call.size
                  THEN LzMeaning(lz_call.stream, lz_call.size, lz_was)[a]
                  ELSE lz_was[a]
=============================================================================
